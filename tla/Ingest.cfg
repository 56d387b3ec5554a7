CONSTANTS
  h1 = h1
  h2 = h2
  h3 = h3
  u1 = u1
  u2 = u2
  ec = ec
  eh = eh
  eu = eu
  MaxPosts = 2
  Escenarios <- MCEscenarios
  Visibles = {1, 2}
  Hub <- MCHub
  Updates = {u1, u2}
  Comandos = {u2}
  SinTexto = {h3}
  Vacios = {h2}
  Cuerpo <- MCCuerpo
  Corridas = {p1, p2}
  Peticiones = {r1, r2}
  Lotes <- MCLotes
  Configs <- MCConfigs
  MaxFallos = 1
  MaxCambios = 1
SPECIFICATION FairSpec
INVARIANT TypeOK
INVARIANT NadaSePierde
INVARIANT MarcaNoSalta
INVARIANT UnaVez
PROPERTY HuecoSoloAMedias
PROPERTY TodoSeAtiende
CHECK_DEADLOCK FALSE
