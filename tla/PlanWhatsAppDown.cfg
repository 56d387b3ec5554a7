\* WhatsApp goes down and stays down; everything else is fair.
SPECIFICATION FairSpecSinWa
CONSTANTS
  t1 = t1
  t2 = t2
  Planes <- DosPlanes
  Ticks <- UnTick
  Manual <- Ninguno
  Programado <- Ninguno
  ConWa <- SoloPrimero
  TgTotal <- Tg2
  WaConteos <- WaUno
  BatchSize = 2
  MaxFallos = 0
  MaxCambios = 1
PROPERTY TelegramNoEsperaWhatsApp
CHECK_DEADLOCK FALSE
