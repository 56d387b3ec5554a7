SPECIFICATION FairSpec
CONSTANTS
  p1 = p1
  p2 = p2
  Pares = {p1, p2}
  Cupos <- MCCupos
  NumContactos = 4
  Tardios = {1}
  Difusiones <- MCDifusiones
  BatchSize = 2
  Umbral = 1
  Cada = 2
INVARIANT TypeOK
INVARIANT SoloFallosReales
INVARIANT NadieDosVeces
INVARIANT CuentaExacta
INVARIANT CodigoVivo
PROPERTY BorradoAPedido
PROPERTY Conecta
CHECK_DEADLOCK FALSE
