\* An automatic lot and a manual one, one worker.
SPECIFICATION FairSpec
CONSTANTS
  w1 = w1
  a1 = a1
  m1 = m1
  auto = auto
  manu = manu
  Workers <- UnWorker
  Lotes <- DosLotes
  Planes <- DosPlanes
  PlanDe <- CadaUno
  Manual <- SoloManu
  SinPlan <- Ninguno
  Dests <- Tamanos
  ConFoto <- LoteFoto
  MaxRecibe = 2
  MaxFallos = 1
  MaxCambios = 1
INVARIANT TypeOK
INVARIANT AloSumoUnaVez
INVARIANT MarcadoHecho
INVARIANT EnviadoLlego
INVARIANT ManualNoSePierde
PROPERTY CumpleContrato
PROPERTY LoteSale
CHECK_DEADLOCK FALSE
