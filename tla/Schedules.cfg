SPECIFICATION FairSpec
CONSTANTS
  d1 = d1
  d2 = d2
  SegMin = 1
  MinDia = 2
  DiasSem = 2
  Sids = {1, 2}
  Plantillas <- MCPlantillas
  Zonas <- MCZonas
  Ticks = {d1, d2}
  Inicio = 1
  Fin = 4
  Casos <- MCCasos
INVARIANT TypeOK
INVARIANT UnaVez
INVARIANT EnHora
PROPERTY TodoSale
CHECK_DEADLOCK FALSE
