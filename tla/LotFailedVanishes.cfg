\* One automatic lot that fails whole, nothing else goes wrong.
SPECIFICATION Spec
CONSTANTS
  w1 = w1
  a1 = a1
  m1 = m1
  auto = auto
  manu = manu
  Workers <- UnWorker
  Lotes <- DosLotes
  Planes <- DosPlanes
  PlanDe <- CadaUno
  Manual <- SoloManu
  SinPlan <- Ninguno
  Dests <- Tamanos
  ConFoto <- LoteFoto
  MaxRecibe = 3
  MaxFallos = 0
  MaxCambios = 0
INVARIANT FallidoNoDesaparece
CHECK_DEADLOCK FALSE
