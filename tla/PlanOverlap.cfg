\* One plan on both channels, two ticks that overlap.
SPECIFICATION Spec
CONSTANTS
  t1 = t1
  t2 = t2
  Planes <- UnPlan
  Ticks <- DosTicks
  Manual <- Ninguno
  Programado <- Ninguno
  ConWa <- SoloPrimero
  TgTotal <- Tg3
  WaConteos <- WaCeroUno
  BatchSize = 2
  MaxFallos = 0
  MaxCambios = 1
SYMMETRY SimetriaTicks
INVARIANT TypeOK
INVARIANT LoteUnaVez
INVARIANT VueloCoherente
INVARIANT DespachadoExacto
INVARIANT ManoUnica
INVARIANT UnLoteALaVez
INVARIANT TerminadoEntregado
PROPERTY CumpleContrato
PROPERTY CanceladoCongela
CHECK_DEADLOCK FALSE
