------------------------------- MODULE PanelAuth -------------------------------
(***************************************************************************)
(* Who may use the panel: the lock against wrong passwords, the users and  *)
(* the codes to reset a password. Users and codes are an item each, read   *)
(* whole, changed and written back whole, without condition, by containers *)
(* of the panel that serve one request at a time each. A hash is told from *)
(* another by its password, a code by its number.                          *)
(***************************************************************************)
EXTENDS Integers, FiniteSets

CONSTANTS
  Conts,         \* containers of the panel
  Usuarios,      \* user names
  Principal,     \* admin_user()
  Claves,        \* passwords
  Validas,       \* those of at least 8 characters
  EnvClave,      \* ADMIN_PASSWORD
  MaxFails,      \* _AUTH_MAX_FAILS
  Bloqueo,       \* _AUTH_LOCK_SECS, in ticks of the clock, as the next two
  Espera,        \* 60 s between two codes
  Vigencia,      \* 900 s a code lives
  MaxIntentos,   \* 5 wrong codes
  MaxEnvios,     \* 3 codes while one is alive
  FinAuth,       \* last instant
  CasosAuth      \* bounds, one of them: requests without and with a session, failures

CupoAuth == [publicas : Nat, sesiones : Nat, fallos : Nat]
MaxCodigos == 4  \* bound on the codes sent; no case has more requests

ASSUME PanelAuthAssumption ==
  /\ Principal \in Usuarios /\ Validas \subseteq Claves /\ EnvClave \in Claves
  /\ IsFiniteSet(Conts)
  /\ {MaxFails, Bloqueo, Espera, Vigencia, MaxIntentos, MaxEnvios, FinAuth} \subseteq Nat \ {0}
  /\ \A c \in CasosAuth : c \in CupoAuth /\ c.publicas <= MaxCodigos

VARIABLES
  ahora,      \* the clock
  users,      \* the item __users__: [user -> record, or Nadie]
  codes,      \* the item __reset__: [user -> code, or Nadie]
  auth,       \* [container -> _AUTH: wrong passwords in a row, locked until]
  peticion,   \* [container -> request between its calls, or Nadie]
  emitidos,   \* codes sent so far; the last of each user
  probados,   \* history: [code -> wrong tries answered]
  usados,     \* history: [code -> resets that ran to the end with it]
  superados,  \* history: codes that changed a password after a newer one was sent
  pisados,    \* history: codes met by a stale reading or a failing call
  quedan      \* what is left of the bounds

varsAuth == <<ahora, users, codes, auth, peticion, emitidos, probados, usados, superados,
              pisados, quedan>>
historiaAuth == <<emitidos, probados, usados, superados, pisados>>
-----------------------------------------------------------------------------
Nadie == <<>>
Codigos == 1..MaxCodigos
NingunCodigo == 0
Roles == {"admin", "user", "sin"}   \* "sin": the record has no role
Operaciones ==
  {"users", "users/update", "users/role", "users/delete", "users/delete-all",
   "auth/change-password", "patterns"}
SoloAdmin == Operaciones \ {"auth/change-password", "patterns"}

Registro == [hash : Claves \cup {Nadie}, role : Roles, email : BOOLEAN]
Reset == [code : Codigos, exp : Nat, attempts : 0..MaxIntentos, sends : 1..MaxEnvios,
          sent_at : Nat]
SinRegistro == [hash |-> Nadie, role |-> "sin", email |-> FALSE]

AuthTypeOK ==
  /\ ahora \in 1..FinAuth
  /\ users \in [Usuarios -> Registro \cup {Nadie}]
  /\ codes \in [Usuarios -> Reset \cup {Nadie}]
  /\ auth \in [Conts -> [fails : 0..MaxFails, locked_until : Nat]]
  /\ \A c \in Conts : peticion[c] = Nadie \/ peticion[c].sobre \in Usuarios
  /\ emitidos \in [n : 0..MaxCodigos, de : [Usuarios -> 0..MaxCodigos]]
  /\ probados \in [Codigos -> Nat] /\ usados \in [Codigos -> Nat]
  /\ superados \subseteq Codigos /\ pisados \subseteq Codigos
  /\ quedan \in CupoAuth

InitAuth ==
  /\ ahora = 1
  /\ users \in [Usuarios -> {[hash |-> EnvClave, role |-> "user", email |-> TRUE]}]
  /\ codes = [u \in Usuarios |-> Nadie]
  /\ auth = [c \in Conts |-> [fails |-> 0, locked_until |-> 0]]
  /\ peticion = [c \in Conts |-> Nadie]
  /\ emitidos = [n |-> 0, de |-> [u \in Usuarios |-> 0]]
  /\ probados = [k \in Codigos |-> 0] /\ usados = [k \in Codigos |-> 0]
  /\ superados = {} /\ pisados = {}
  /\ quedan \in CasosAuth

BienA == UNCHANGED quedan
FallaA == quedan.fallos > 0 /\ quedan' = [quedan EXCEPT !.fallos = @ - 1]
Termina(c) == peticion' = [peticion EXCEPT ![c] = Nadie]
Pasa_a(c, r) == peticion' = [peticion EXCEPT ![c] = r]
En(c, paso) == peticion[c] # Nadie /\ peticion[c].en = paso
-----------------------------------------------------------------------------
password_valida(p) == p \in Validas
verify_password(p, stored) == p = stored

\* A reading of the users with n failures, none or one: a failed one finds nobody.
LeeUsers(n) == IF n = 0 THEN users ELSE [u \in Usuarios |-> Nadie]
_verificar(leidos, usuario, clave) ==
  \/ leidos[usuario] # Nadie /\ verify_password(clave, leidos[usuario].hash)
  \/ usuario = Principal /\ clave = EnvClave

\* A record without role is an administrator's; somebody unknown has no privilege.
_es_admin(leidos, usuario) ==
  \/ usuario = Principal
  \/ leidos[usuario] # Nadie /\ leidos[usuario].role \in {"admin", "sin"}

_auth_bloqueado(c) == auth[c].locked_until > ahora

\* A lock that is over starts the count again (M26).
_auth_fallo(a) ==
  LET antes == IF a.locked_until # 0 /\ a.locked_until <= ahora THEN 0 ELSE a.fails
      hasta == IF antes < a.fails THEN 0 ELSE a.locked_until
  IN  [fails |-> antes + 1,
       locked_until |-> IF antes + 1 >= MaxFails THEN ahora + Bloqueo ELSE hasta]

\* 429 while locked, 401 for a wrong password, and only then the operation.
_autorizado(c) ==
  /\ peticion[c] = Nadie /\ quedan.sesiones > 0 /\ ~_auth_bloqueado(c)
  /\ \E n \in 0..1, yo \in Usuarios, clave \in Claves :
       /\ n <= quedan.fallos
       /\ quedan' = [quedan EXCEPT !.sesiones = @ - 1, !.fallos = @ - n]
       /\ \/ /\ ~_verificar(LeeUsers(n), yo, clave)
             /\ auth' = [auth EXCEPT ![c] = _auth_fallo(@)]
             /\ UNCHANGED peticion
          \/ /\ _verificar(LeeUsers(n), yo, clave)
             /\ auth' = [auth EXCEPT ![c] = [fails |-> 0, locked_until |-> 0]]
             /\ \E op \in Operaciones, sobre \in Usuarios, nueva \in Validas,
                   rol \in Roles \ {"sin"} :
                  /\ op \notin SoloAdmin => sobre = yo
                  /\ op \notin {"users", "users/role"} => rol = "user"
                  /\ op \in {"users/role", "users/delete", "users/delete-all", "patterns"} =>
                       nueva = EnvClave
                  /\ Pasa_a(c, [en |-> IF op \in SoloAdmin THEN "rol"
                                       ELSE IF op = "patterns" THEN "lee" ELSE "clave",
                                op |-> op, yo |-> yo, clave |-> clave, sobre |-> sobre,
                                nueva |-> nueva, rol |-> rol])
  /\ UNCHANGED <<ahora, users, codes, historiaAuth>>

\* The role is read on its own (403); a change of password verifies the present one (400).
Comprueba(c) ==
  /\ En(c, "rol") \/ En(c, "clave")
  /\ \E n \in 0..1 :
       LET r == peticion[c]
           pasa == IF r.en = "rol" THEN _es_admin(LeeUsers(n), r.yo)
                   ELSE _verificar(LeeUsers(n), r.yo, r.clave)
       IN  /\ n <= quedan.fallos
           /\ quedan' = [quedan EXCEPT !.fallos = @ - n]
           /\ IF pasa THEN Pasa_a(c, [r EXCEPT !.en = "lee"]) ELSE Termina(c)
  /\ UNCHANGED <<ahora, users, codes, auth, historiaAuth>>
-----------------------------------------------------------------------------
(* What each operation refuses (400) and what it makes of the item.        *)
Hay(u, leidos) == leidos[u] # Nadie
Admite(r, leidos) ==
  CASE r.op = "users" -> ~Hay(r.sobre, leidos)
    [] r.op = "users/update" -> Hay(r.sobre, leidos)
    [] r.op = "users/role" -> Hay(r.sobre, leidos) /\ r.sobre # Principal
    [] r.op = "users/delete" ->
         /\ Hay(r.sobre, leidos) /\ r.sobre \notin {Principal, r.yo}
         /\ Cardinality({u \in Usuarios : Hay(u, leidos)}) > 1
    [] r.op = "users/delete-all" ->
         \E u \in Usuarios \ {Principal, r.yo} : Hay(u, leidos)
    [] OTHER -> TRUE

O(registro) == IF registro = Nadie THEN SinRegistro ELSE registro
Cambiados(r, leidos) ==
  CASE r.op = "users" ->
         [leidos EXCEPT ![r.sobre] = [hash |-> r.nueva, role |-> r.rol, email |-> TRUE]]
    [] r.op = "users/update" -> [leidos EXCEPT ![r.sobre].hash = r.nueva]
    [] r.op = "users/role" -> [leidos EXCEPT ![r.sobre].role = r.rol]
    [] r.op = "users/delete" -> [leidos EXCEPT ![r.sobre] = Nadie]
    [] r.op = "users/delete-all" ->
         [u \in Usuarios |-> IF u \in {Principal, r.yo} THEN leidos[u] ELSE Nadie]
    [] r.op = "auth/change-password" ->
         [leidos EXCEPT ![r.yo] = [O(leidos[r.yo]) EXCEPT !.hash = r.nueva]]
    [] OTHER -> [leidos EXCEPT ![r.yo] = O(leidos[r.yo])]   \* patterns: the rest as it was

LeeUsuarios(c) ==
  /\ En(c, "lee")
  /\ LET r == peticion[c]
     IN  IF Admite(r, users)
         THEN Pasa_a(c, [en |-> "set_users", users |-> Cambiados(r, users), sobre |-> r.sobre])
         ELSE Termina(c)
  /\ UNCHANGED <<ahora, users, codes, auth, historiaAuth, quedan>>

set_users(c) ==
  /\ En(c, "set_users")
  /\ \/ users' = peticion[c].users /\ BienA
     \/ FallaA /\ UNCHANGED users
  /\ Termina(c)
  /\ UNCHANGED <<ahora, codes, auth, historiaAuth>>
-----------------------------------------------------------------------------
(* The codes. Public routes: nobody needs a session, nor is locked out.    *)
CodigoDe(r) == IF r = Nadie THEN {} ELSE {r.code}
\* Codes of the users whose record is no longer the one that was read.
Pisa(leidos) ==
  UNION {CodigoDe(codes[u]) \cup CodigoDe(leidos[u]) :
           u \in {u \in Usuarios : codes[u] # leidos[u]}}

PideForgot(c) ==
  /\ peticion[c] = Nadie /\ quedan.publicas > 0
  /\ quedan' = [quedan EXCEPT !.publicas = @ - 1]
  /\ \E u \in Usuarios :
       IF users[u] # Nadie /\ users[u].email
       THEN Pasa_a(c, [en |-> "forgot", sobre |-> u])
       ELSE UNCHANGED peticion
  /\ UNCHANGED <<ahora, users, codes, auth, historiaAuth>>

\* A5: one code a minute, and so many while the last one is alive.
Vivo(prev) == prev # Nadie /\ ahora < prev.exp
Mut_Frenado(prev) == prev # Nadie /\ ahora - prev.sent_at < Espera

Frenado(prev) ==
  \/ prev # Nadie /\ ahora - prev.sent_at < Espera
  \/ Vivo(prev) /\ prev.sends >= MaxEnvios

_auth_forgot(c) ==
  /\ En(c, "forgot")
  /\ LET u == peticion[c].sobre
         prev == codes[u]
         nuevo == [code |-> emitidos.n + 1, exp |-> ahora + Vigencia, attempts |-> 0,
                   sends |-> IF Vivo(prev) THEN prev.sends + 1 ELSE 1, sent_at |-> ahora]
     IN  IF Frenado(prev) THEN Termina(c) /\ UNCHANGED emitidos
         ELSE /\ emitidos' = [emitidos EXCEPT !.n = @ + 1]
              /\ Pasa_a(c, [en |-> "set_resets", sobre |-> u, leidos |-> codes,
                            codes |-> [codes EXCEPT ![u] = nuevo], fallido |-> NingunCodigo,
                            usado |-> NingunCodigo, emite |-> nuevo.code])
  /\ UNCHANGED <<ahora, users, codes, auth, probados, usados, superados, pisados, quedan>>

\* The request of a reset, up to its reading of the codes: none, an expired one, one tried
\* too often, the wrong one, or the right one.
Mut_Intento(r) == r

Intento(r) == [r EXCEPT !.attempts = @ + 1]

PideReset(c) ==
  /\ peticion[c] = Nadie /\ quedan.publicas > 0
  /\ quedan' = [quedan EXCEPT !.publicas = @ - 1]
  /\ \E u \in Usuarios, acierta \in BOOLEAN, nueva \in Validas :
       LET r == codes[u]
           Escribe(item, fallido) ==
             Pasa_a(c, [en |-> "set_resets", sobre |-> u, leidos |-> codes,
                        codes |-> [codes EXCEPT ![u] = item], fallido |-> fallido,
                        usado |-> NingunCodigo, emite |-> NingunCodigo])
       IN  \/ r = Nadie /\ UNCHANGED peticion
           \/ /\ r # Nadie /\ (r.exp < ahora \/ r.attempts >= MaxIntentos)
              /\ Escribe(Nadie, NingunCodigo)
           \/ /\ r # Nadie /\ r.exp >= ahora /\ r.attempts < MaxIntentos
              /\ \/ ~acierta /\ Escribe(Intento(r), r.code)
                 \/ /\ acierta
                    /\ Pasa_a(c, [en |-> "reset", sobre |-> u, leidos |-> codes,
                                  nueva |-> nueva])
  /\ UNCHANGED <<ahora, users, codes, auth, historiaAuth>>

\* The right code: the users are read, the password written, and the code dropped last.
_auth_reset(c) ==
  /\ \/ /\ En(c, "reset")
        /\ LET r == peticion[c]
               u == r.sobre
           IN  Pasa_a(c, [en |-> "clave nueva", sobre |-> u, leidos |-> r.leidos,
                          users |-> [users EXCEPT ![u] = [O(users[u]) EXCEPT !.hash = r.nueva]]])
        /\ UNCHANGED <<users, superados, pisados>> /\ BienA
     \/ /\ En(c, "clave nueva")
        /\ LET r == peticion[c]
               u == r.sobre
               k == r.leidos[u].code
           IN  \/ /\ users' = r.users
                  /\ superados' = superados \cup (IF emitidos.de[u] # k THEN {k} ELSE {})
                  /\ pisados' = pisados \cup (IF codes[u] # r.leidos[u] THEN {k} ELSE {})
                  /\ Pasa_a(c, [en |-> "set_resets", sobre |-> u, leidos |-> r.leidos,
                                codes |-> [r.leidos EXCEPT ![u] = Nadie],
                                fallido |-> NingunCodigo, usado |-> k, emite |-> NingunCodigo])
                  /\ BienA
               \/ /\ FallaA /\ Termina(c)
                  /\ UNCHANGED <<users, superados, pisados>>
  /\ UNCHANGED <<ahora, codes, auth, emitidos, probados, usados>>

\* The whole item goes back, as it was read but for one user. A new code is sent by mail
\* afterwards.
set_resets(c) ==
  /\ En(c, "set_resets")
  /\ LET r == peticion[c]
     IN  \/ /\ codes' = r.codes
            /\ pisados' = pisados \cup Pisa(r.leidos)
            /\ emitidos' = IF r.emite = NingunCodigo THEN emitidos
                           ELSE [emitidos EXCEPT !.de[r.sobre] = r.emite]
            /\ BienA
         \/ /\ FallaA
            /\ pisados' = pisados \cup CodigoDe(r.leidos[r.sobre])
            /\ UNCHANGED <<codes, emitidos>>
  /\ probados' = [k \in Codigos |-> probados[k] + (IF k = peticion[c].fallido THEN 1 ELSE 0)]
  /\ usados' = [k \in Codigos |-> usados[k] + (IF k = peticion[c].usado THEN 1 ELSE 0)]
  /\ Termina(c)
  /\ UNCHANGED <<ahora, users, auth, superados>>

PasaAhora ==
  /\ ahora < FinAuth /\ \A c \in Conts : peticion[c] = Nadie
  /\ ahora' = ahora + 1
  /\ UNCHANGED <<users, codes, auth, peticion, historiaAuth, quedan>>

NextAuth ==
  \/ \E c \in Conts :
       \/ _autorizado(c) \/ Comprueba(c) \/ LeeUsuarios(c) \/ set_users(c)
       \/ PideForgot(c) \/ _auth_forgot(c) \/ PideReset(c) \/ _auth_reset(c) \/ set_resets(c)
  \/ PasaAhora
-----------------------------------------------------------------------------
\* A code is tried wrongly MaxIntentos times at most, changes one password at most, and
\* none once a newer one was sent to its user: whatever the requests of others do to the
\* item they share. A code goes beyond that only if its record was written from a reading
\* no longer current, or a call that wrote it failed.
CodigoAcotado ==
  \A k \in Codigos \ pisados :
    probados[k] <= MaxIntentos /\ usados[k] <= 1 /\ k \notin superados
=============================================================================
