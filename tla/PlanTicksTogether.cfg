\* Two ticks that overlap, nothing fails: two lots of one channel at once.
SPECIFICATION Spec
CONSTANTS
  t1 = t1
  t2 = t2
  Planes <- UnPlan
  Ticks <- DosTicks
  Manual <- Ninguno
  Programado <- Ninguno
  ConWa <- Ninguno
  TgTotal <- Tg5
  WaConteos <- WaUno
  BatchSize = 2
  MaxFallos = 0
  MaxCambios = 0
INVARIANT UnLotePorCanal
CHECK_DEADLOCK FALSE
