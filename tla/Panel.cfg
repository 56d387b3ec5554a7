SPECIFICATION FairSpec
CONSTANTS
  manual = manual
  post = post
  Manuales = {manual}
  Posts = {post}
  EdadTerminal = 1
  FinReloj = 3
  CasosJobs <- MCCasosJobs
  Conts = {c1, c2}
  Usuarios = {adm, eva}
  Principal = adm
  Claves = {pa, pb, corta}
  Validas = {pa, pb}
  EnvClave = pa
  MaxFails = 2
  Bloqueo = 1
  Espera = 1
  Vigencia = 2
  MaxIntentos = 2
  MaxEnvios = 2
  FinAuth = 3
  CasosAuth <- MCCasosAuth
  ana = ana
  luz = luz
  Cuentas <- MCCuentas
  Con2FA = {luz}
  Cambios <- MCCambios
  Sesiones = {s1, s2}
  Entornos = {0, 1}
  CasosSesion <- MCCasosSesion
INVARIANT TypeOK
INVARIANT EnVueloTieneJob
INVARIANT CodigoAcotado
PROPERTY EstadoAlDia
CHECK_DEADLOCK FALSE
