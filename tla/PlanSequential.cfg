\* Two plans, one tick, with a failure and a change.
SPECIFICATION FairSpec
CONSTANTS
  t1 = t1
  t2 = t2
  Planes <- DosPlanes
  Ticks <- UnTick
  Manual <- SoloSegundo
  Programado <- SoloPrimero
  ConWa <- SoloSegundo
  TgTotal <- TgDecrece
  WaConteos <- WaUno
  BatchSize = 2
  MaxFallos = 1
  MaxCambios = 1
INVARIANT UnLoteALaVez
INVARIANT TerminadoEntregado
PROPERTY PlanTermina
CHECK_DEADLOCK FALSE
