----------------------------- MODULE WhatsAppSocket -----------------------------
(***************************************************************************)
(* The socket of whatsapp-service and its session in DynamoDB: the chain   *)
(* that serializes the starts (doStart), the generations, the pairing by   *)
(* QR or by code, the reconnection, and the requests /pair, /reconnect and *)
(* /reset. Baileys, the phone and the other host that may hold the same    *)
(* session are what happens to the socket from outside.                    *)
(*                                                                         *)
(* JavaScript runs one callback at a time: a step is what runs between two *)
(* awaits. A start that waits behind an idle chain begins before anything  *)
(* else happens (a microtask), hence the guard Turno of every other step.  *)
(***************************************************************************)
EXTENDS Integers

CONSTANTS
  Pares,    \* requests POST /pair
  Cupos     \* bounds to start from: how many losses, failures, requests...

Clases == {"caida", "fallo", "peticion", "pair", "envio", "limpia", "nuevo"}
ASSUME SocketAssumption == Cupos \subseteq [Clases -> Nat]

VARIABLES
  sock,            \* the socket `sock` refers to, "null" while there is none
  creds,           \* the credentials that socket was created with
  connected,       \* 0 if false, else the generation whose open event set it
  pairNumber,      \* the request being paired, Nadie in QR mode
  pairingCode,     \* 0, or the generation that got the code shown
  lastPairError,
  pairTimer,       \* is the request of a code 3 s away? (current socket)
  pidiendo,        \* generations with a requestPairingCode in flight
  currentQR,       \* 0, or the generation that got the QR shown
  pintando,        \* generations with a toDataURL of their QR in flight
  loggedOut, replaced, clearOnStart,
  reconnectTimer,
  gen,             \* generation of the current socket
  chain,           \* starts waiting in the chain
  fase,            \* await in which the running start is, "nada" if none runs
  sesion,          \* the session in DynamoDB
  pares,           \* [request /pair -> state, and the start it awaits]
  nueva,           \* history: linked by a socket of ours after the last request to clear
  aMedias,         \* history: a clearAll failed and its flag is still up
  cupo             \* what is left of each bound

socket == <<sock, creds, connected>>
par == <<pairNumber, pairingCode, lastPairError>>
timers == <<pairTimer, reconnectTimer>>
avisos == <<loggedOut, replaced>>
arranque == <<gen, chain, fase>>
qrs == <<currentQR, pintando>>
dynamo == <<sesion, nueva, aMedias>>
socketVars == <<sock, creds, connected, pairNumber, pairingCode, lastPairError, pairTimer,
                pidiendo, currentQR, pintando, loggedOut, replaced, clearOnStart,
                reconnectTimer, gen, chain, fase, sesion, pares, nueva, aMedias, cupo>>
-----------------------------------------------------------------------------
Nadie == "nadie"
Sesion == {"vacia", "viva", "muerta"}   \* muerta: logged out, or half deleted
Vivo == {"conectando", "vinculado", "abierto"}
SinPedir == [en |-> "no", turno |-> 0]

SocketTypeOK ==
  /\ sock \in Vivo \cup {"null", "cerrado"} /\ creds \in Sesion
  /\ connected \in 0..gen /\ pairingCode \in 0..gen /\ pidiendo \in SUBSET (1..gen)
  /\ currentQR \in 0..gen /\ pintando \in SUBSET (1..gen)
  /\ pairNumber \in Pares \cup {Nadie}
  /\ lastPairError \in BOOLEAN /\ pairTimer \in BOOLEAN /\ reconnectTimer \in BOOLEAN
  /\ loggedOut \in BOOLEAN /\ replaced \in BOOLEAN /\ clearOnStart \in BOOLEAN
  /\ gen \in Nat /\ chain \in Nat /\ fase \in {"nada", "limpia", "lee", "crea"}
  /\ sesion \in Sesion
  /\ pares \in [Pares -> [en : {"no", "espera", "hecho"}, turno : Nat]]
  /\ nueva \in BOOLEAN /\ aMedias \in BOOLEAN
  /\ cupo \in [Clases -> Nat]

\* restart() is the last line of the file: a process begins with a start queued.
SocketInit ==
  /\ sock = "null" /\ creds = "vacia" /\ connected = 0
  /\ pairNumber = Nadie /\ pairingCode = 0 /\ lastPairError = FALSE
  /\ pairTimer = FALSE /\ pidiendo = {} /\ reconnectTimer = FALSE
  /\ currentQR = 0 /\ pintando = {}
  /\ loggedOut = FALSE /\ replaced = FALSE /\ clearOnStart = FALSE
  /\ gen = 0 /\ chain = 1 /\ fase = "nada"
  /\ sesion \in {"vacia", "viva"}
  /\ pares = [p \in Pares |-> SinPedir]
  /\ nueva = FALSE /\ aMedias = FALSE
  /\ cupo \in Cupos

Gasta(c) == cupo[c] > 0 /\ cupo' = [cupo EXCEPT ![c] = @ - 1]
Falla == Gasta("fallo")
Bien == UNCHANGED cupo
Turno == chain = 0 \/ fase # "nada"
\* connected was set by a socket that is no longer the current one: doStart
\* removes the listeners of the socket it replaces, and does not reset the flag.
Rancio == connected # 0 /\ connected # gen
-----------------------------------------------------------------------------
(* restart and doStart.                                                    *)

restart == chain' = chain + 1

\* doStart up to its first await.
Arranca ==
  /\ fase = "nada" /\ chain > 0
  /\ chain' = chain - 1 /\ gen' = gen + 1
  /\ pairTimer' = FALSE /\ reconnectTimer' = FALSE
  /\ sock' = "null"
  /\ loggedOut' = FALSE /\ replaced' = FALSE
  /\ fase' = IF clearOnStart THEN "limpia" ELSE "lee"
  /\ UNCHANGED <<creds, connected, par, pidiendo, qrs, clearOnStart, dynamo, pares, cupo>>

\* clearAll deletes the items in batches: failing, it leaves any part of them.
Parcial(s) == IF s = "viva" THEN {"viva", "muerta", "vacia"} ELSE {s, "vacia"}

Mut_LimpiaSinBajar == fase = "limpia" /\ sesion' = "vacia" /\ aMedias' = FALSE
                      /\ Bien /\ UNCHANGED clearOnStart
LimpiaTodo ==
  /\ fase = "limpia"
  /\ sesion' = "vacia" /\ clearOnStart' = FALSE /\ aMedias' = FALSE /\ Bien

Limpia ==
  /\ \/ LimpiaTodo
     \/ /\ fase = "limpia" /\ Falla
        /\ sesion' \in Parcial(sesion) /\ aMedias' = TRUE /\ UNCHANGED clearOnStart
  /\ fase' = "lee"
  /\ UNCHANGED <<socket, par, timers, pidiendo, qrs, avisos, gen, chain, pares, nueva>>

Mut_ArranqueMudo == UNCHANGED reconnectTimer
\* The catch of doStart: scheduleReconnect.
ArranqueFallido == reconnectTimer' = TRUE

\* useDynamoAuthState reads the credentials.
Lee ==
  /\ fase = "lee"
  /\ \/ Bien /\ creds' = sesion /\ fase' = "crea" /\ UNCHANGED reconnectTimer
     \/ Falla /\ ArranqueFallido /\ fase' = "nada" /\ UNCHANGED creds
  /\ UNCHANGED <<sock, connected, par, pairTimer, pidiendo, qrs, avisos, clearOnStart, gen,
                 chain, dynamo, pares>>

\* From there to the end: the version of Baileys, makeWASocket, the listeners. The
\* sending loads contacts and failures in this step, either of which may fail.
Crea ==
  /\ fase = "crea"
  /\ sock' = "conectando" /\ fase' = "nada"
  /\ pairTimer' = (pairNumber # Nadie /\ creds = "vacia")
  /\ UNCHANGED <<creds, connected, par, pidiendo, qrs, avisos, clearOnStart, reconnectTimer,
                 gen, chain, dynamo, pares>>

Reconecta ==
  /\ Turno /\ reconnectTimer
  /\ reconnectTimer' = FALSE /\ restart
  /\ UNCHANGED <<socket, par, pairTimer, pidiendo, qrs, avisos, clearOnStart, gen, fase, dynamo,
                 pares, cupo>>
-----------------------------------------------------------------------------
(* The pairing code.                                                       *)

PideCodigo ==
  /\ Turno /\ pairTimer
  /\ pairTimer' = FALSE /\ pidiendo' = pidiendo \cup {gen}
  /\ UNCHANGED <<socket, par, qrs, reconnectTimer, avisos, clearOnStart, arranque, dynamo,
                 pares, cupo>>

Mut_Publica(g) == pairingCode' = g /\ lastPairError' = FALSE
\* The generation is checked again after the await; the catch does not check it.
Publica(g) ==
  IF g = gen THEN pairingCode' = g /\ lastPairError' = FALSE
             ELSE UNCHANGED <<pairingCode, lastPairError>>

CodigoRespondido(g) ==
  /\ Turno /\ g \in pidiendo /\ pidiendo' = pidiendo \ {g}
  /\ \/ Bien /\ Publica(g)
     \/ /\ IF g = gen /\ sock \in Vivo THEN Falla ELSE Bien
        /\ lastPairError' = TRUE /\ UNCHANGED pairingCode
  /\ UNCHANGED <<socket, pairNumber, qrs, timers, avisos, clearOnStart, arranque, dynamo,
                 pares>>

\* connection.update with a QR: none is published in the pairing mode, nor when the
\* socket was replaced while the image was made. doStart does not take the old one away.
LlegaQR ==
  /\ Turno /\ sock = "conectando" /\ creds = "vacia" /\ pairNumber = Nadie
  /\ gen \notin pintando /\ currentQR # gen
  /\ pintando' = pintando \cup {gen} /\ UNCHANGED currentQR
  /\ UNCHANGED <<socket, par, timers, pidiendo, avisos, clearOnStart, arranque, dynamo,
                 pares, cupo>>

QRPintado(g) ==
  /\ Turno /\ g \in pintando /\ pintando' = pintando \ {g}
  /\ currentQR' = IF g = gen THEN g ELSE currentQR
  /\ UNCHANGED <<socket, par, timers, pidiendo, avisos, clearOnStart, arranque, dynamo,
                 pares, cupo>>

\* The user scans the QR or types the code of this socket; creds.update saves the
\* credentials, and the server asks for a restart (515).
Vincula ==
  /\ Turno /\ sock = "conectando" /\ creds = "vacia"
  /\ (pairNumber = Nadie /\ currentQR = gen) \/ pairingCode = gen
  /\ \/ Bien /\ sesion' = "viva" /\ nueva' = TRUE
     \/ Falla /\ UNCHANGED <<sesion, nueva>>
  /\ sock' = "vinculado"
  /\ UNCHANGED <<creds, connected, par, timers, pidiendo, qrs, avisos, clearOnStart, arranque,
                 aMedias, pares>>
-----------------------------------------------------------------------------
(* connection.update.                                                      *)

Abre ==
  /\ Turno /\ sock = "conectando" /\ creds = "viva"
  /\ sock' = "abierto" /\ connected' = gen
  /\ pairNumber' = Nadie /\ pairingCode' = 0 /\ lastPairError' = FALSE
  /\ currentQR' = 0 /\ UNCHANGED pintando
  /\ UNCHANGED <<creds, timers, pidiendo, avisos, clearOnStart, arranque, dynamo, pares, cupo>>

\* 401 is answered to dead credentials, 515 follows a link, 440 comes when another
\* host opens the session; anything else is a loss of the connection.
Motivo(codigo) ==
  CASE codigo = "loggedOut" -> sock \in Vivo /\ creds = "muerta" /\ Bien
    [] codigo = "restart" -> sock = "vinculado" /\ Bien
    [] codigo = "replaced" -> sock = "abierto" /\ Gasta("caida")
    [] codigo = "otro" -> sock \in Vivo /\ Gasta("caida")

Cierra(codigo) ==
  /\ Turno /\ Motivo(codigo)
  /\ sock' = "cerrado" /\ connected' = 0
  /\ IF pairNumber # Nadie
       THEN UNCHANGED <<loggedOut, pairingCode, replaced, reconnectTimer>>
       ELSE /\ loggedOut' = (loggedOut \/ codigo = "loggedOut")
            /\ pairingCode' = IF codigo = "loggedOut" THEN 0 ELSE pairingCode
            /\ replaced' = (replaced \/ codigo = "replaced")
            /\ reconnectTimer' = (reconnectTimer \/ codigo \notin {"loggedOut", "replaced"})
  /\ UNCHANGED <<creds, pairNumber, lastPairError, pairTimer, pidiendo, qrs, clearOnStart,
                 arranque, dynamo, pares>>

\* The phone closes the session; another host links it again.
Telefono ==
  /\ Turno /\ sesion = "viva" /\ Gasta("caida")
  /\ sesion' = "muerta" /\ creds' = IF creds = "viva" THEN "muerta" ELSE creds
  /\ UNCHANGED <<sock, connected, par, timers, pidiendo, qrs, avisos, clearOnStart, arranque,
                 nueva, aMedias, pares>>
OtroVincula ==
  /\ Turno /\ sesion # "viva" /\ Gasta("caida") /\ sesion' = "viva"
  /\ UNCHANGED <<socket, par, timers, pidiendo, qrs, avisos, clearOnStart, arranque, nueva,
                 aMedias, pares>>
-----------------------------------------------------------------------------
(* The requests of the panel.                                              *)

Pair(p) ==
  /\ Turno /\ pares[p].en = "no" /\ connected = 0 /\ Gasta("pair")
  /\ pairNumber' = p /\ pairingCode' = 0 /\ lastPairError' = FALSE
  /\ currentQR' = 0 /\ UNCHANGED pintando
  /\ clearOnStart' = TRUE /\ nueva' = FALSE
  /\ restart /\ pares' = [pares EXCEPT ![p] = [en |-> "espera", turno |-> gen + chain + 1]]
  /\ UNCHANGED <<socket, timers, pidiendo, avisos, gen, fase, sesion, aMedias>>

\* connected: 409.
PairRechazado(p) ==
  /\ Turno /\ pares[p].en = "no" /\ connected # 0 /\ Gasta("pair")
  /\ pares' = [pares EXCEPT ![p].en = "hecho"]
  /\ UNCHANGED <<socket, par, timers, pidiendo, qrs, avisos, clearOnStart, arranque, dynamo>>

\* `await restart()` is over: the start it queued has ended.
Arrancado(p) == LET t == pares[p].turno IN gen > t \/ (gen = t /\ fase = "nada")

Espera(p) ==
  /\ Turno /\ pares[p].en = "espera" /\ Arrancado(p)
  /\ pares' = [pares EXCEPT ![p] = [en |-> "hecho", turno |-> 0]]

PairResponde(p) ==
  /\ Espera(p) /\ pairingCode # 0
  /\ UNCHANGED <<socket, par, timers, pidiendo, qrs, avisos, clearOnStart, arranque, dynamo, cupo>>

\* An error, or 20 s without a code: back to the QR mode.
PairFalla(p) ==
  /\ Espera(p) /\ pairingCode = 0
  /\ pairNumber' = Nadie /\ pairingCode' = 0 /\ restart
  /\ UNCHANGED <<socket, lastPairError, timers, pidiendo, qrs, avisos, clearOnStart, gen, fase,
                 dynamo, cupo>>

Reconnect ==
  /\ Turno /\ Gasta("peticion")
  /\ pairNumber' = Nadie /\ pairingCode' = 0 /\ restart
  /\ UNCHANGED <<socket, lastPairError, timers, pidiendo, qrs, avisos, clearOnStart, gen, fase,
                 dynamo, pares>>

Reset ==
  /\ Turno /\ Gasta("peticion")
  /\ pairNumber' = Nadie /\ pairingCode' = 0 /\ lastPairError' = FALSE
  /\ clearOnStart' = TRUE /\ nueva' = FALSE /\ restart
  /\ currentQR' = 0 /\ UNCHANGED pintando
  /\ UNCHANGED <<socket, timers, pidiendo, avisos, gen, fase, sesion, aMedias, pares>>

\* The process ends (deployment, idle host) and another one begins.
Muere ==
  /\ Turno /\ Gasta("caida")
  /\ sock' = "null" /\ creds' = "vacia" /\ connected' = 0
  /\ pairNumber' = Nadie /\ pairingCode' = 0 /\ lastPairError' = FALSE
  /\ pairTimer' = FALSE /\ pidiendo' = {} /\ reconnectTimer' = FALSE
  /\ currentQR' = 0 /\ pintando' = {}
  /\ loggedOut' = FALSE /\ replaced' = FALSE /\ clearOnStart' = FALSE
  /\ gen' = 0 /\ chain' = 1 /\ fase' = "nada"
  /\ pares' = [p \in Pares |-> IF pares[p].en = "espera" THEN [en |-> "hecho", turno |-> 0]
                                                         ELSE pares[p]]
  /\ sesion' \in IF fase = "limpia" THEN Parcial(sesion) ELSE {sesion}
  /\ aMedias' = FALSE /\ UNCHANGED nueva

\* The steps the sending takes no part in.
Codigos == {"loggedOut", "restart", "replaced", "otro"}
SocketPaso ==
  \/ Lee \/ Reconecta \/ PideCodigo \/ LlegaQR \/ Vincula \/ Abre
  \/ Telefono \/ OtroVincula \/ Reconnect \/ Reset
  \/ \E g \in pidiendo : CodigoRespondido(g)
  \/ \E g \in pintando : QRPintado(g)
  \/ \E codigo \in Codigos : Cierra(codigo)
  \/ \E p \in Pares : Pair(p) \/ PairRechazado(p) \/ PairResponde(p) \/ PairFalla(p)

\* What the process does by itself, and what WhatsApp answers to a live or to a
\* dead session; not the links, the losses and the requests.
SocketSeMueve ==
  \/ Lee \/ Reconecta \/ PideCodigo \/ Abre
  \/ Cierra("loggedOut") \/ Cierra("restart")
  \/ \E g \in pidiendo : CodigoRespondido(g)
  \/ \E g \in pintando : QRPintado(g)
  \/ \E p \in Pares : PairResponde(p) \/ PairFalla(p)
-----------------------------------------------------------------------------
\* The session that a socket of ours has linked is deleted only by a request made
\* afterwards (index.js, doStart: "nunca se borran credenciales que un socket nuevo
\* acaba de escribir"). Not so when a clearAll failed before: its flag stays up, and
\* the restart that follows the link (515) deletes what was just linked.
BorradoAPedido ==
  [][nueva /\ ~aMedias /\ sesion = "viva" => sesion' # "vacia"]_socketVars

\* The pairing code shown is one that the current socket asked for, so that the user
\* never types a dead one (index.js, B12 and the check after requestPairingCode); and
\* while pairing by code no QR is shown beside it, although the image of one may be on
\* its way when the pairing begins ("no mezclar flujos").
CodigoVivo ==
  /\ pairingCode # 0 => pairingCode = gen
  /\ pairNumber # Nadie => currentQR = 0

\* A session that stays alive ends up connected: every start that fails and every
\* connection lost leads to another start. It stays down, until somebody acts, in four
\* cases only: ceded to another host (440); told by WhatsApp that the session was over
\* (401), also when another host links it again later; the socket was created without
\* credentials and the session is another host's; and a close while pairing, after
\* which the code never reconnects, not even from the close that follows the link:
\* that last case goes against the documents, see VinculadoConecta.
Conecta ==
  <>[](sesion = "viva" =>
         \/ sock = "abierto" \/ replaced \/ loggedOut
         \/ sock \in Vivo /\ creds = "vacia"
         \/ sock = "cerrado" /\ pairNumber # Nadie)

\* What README.md of whatsapp-service and vincular-whatsapp-local.ps1 say of the link by
\* code: once the user has typed it, the service ends up connected by itself.
VinculadoConecta ==
  <>[](nueva /\ sesion = "viva" => sock = "abierto" \/ replaced \/ loggedOut)
=============================================================================
