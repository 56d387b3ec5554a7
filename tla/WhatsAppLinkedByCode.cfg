SPECIFICATION FairSpec
CONSTANTS
  p1 = p1
  p2 = p2
  Pares = {p1, p2}
  Cupos <- CuposPair
  NumContactos = 4
  Tardios = {1}
  Difusiones <- DifusionesPair
  BatchSize = 2
  Umbral = 1
  Cada = 2
PROPERTY VinculadoConecta
CHECK_DEADLOCK FALSE
