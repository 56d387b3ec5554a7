---------------------------- MODULE WhatsAppProofs ----------------------------
(***************************************************************************)
(* Proofs about whatsapp-service and the hub: the types of everything they *)
(* keep; the pairing code shown is alive and a linked session is deleted   *)
(* on request only (WhatsAppSocket); the failures that exclude a contact   *)
(* are its own, nobody receives the broadcast twice, and the job counts    *)
(* what was received (WhatsAppService). All of them hold in Spec, for any  *)
(* number of contacts, slices, requests, losses and restarts.              *)
(***************************************************************************)
EXTENDS WhatsAppService, FiniteSetTheorems, SequenceTheorems, WellFoundedInduction, TLAPS

(* The inductive invariants.                                               *)

\* No code while a start is due or under way, nor out of the pairing mode; and one is
\* asked for only for a socket without credentials that nothing is about to replace.
CodigoInv ==
  /\ fase # "nada" => sock = "null" /\ ~reconnectTimer
  /\ pairingCode \in {0, gen}
  /\ pairingCode # 0 =>
       chain = 0 /\ fase = "nada" /\ ~reconnectTimer /\ pairNumber # Nadie
  /\ gen \in pidiendo \/ pairTimer =>
       /\ creds = "vacia" /\ fase = "nada"
       /\ chain = 0 => pairNumber # Nadie /\ ~reconnectTimer

\* Nor a QR beside the pairing mode: the image of one that is still on its way is of a
\* socket that was replaced, or is about to be before anything else happens.
QRInv ==
  /\ fase # "nada" => sock = "null" /\ gen \notin pintando
  /\ pairNumber # Nadie => currentQR = 0 /\ (gen \notin pintando \/ ~Turno)

\* A request to clear is pending, and its start with it, until a clearAll succeeds.
BorradoInv ==
  /\ fase # "nada" => sock = "null"
  /\ fase = "limpia" => clearOnStart
  /\ nueva /\ clearOnStart => aMedias
  /\ clearOnStart /\ chain = 0 /\ fase # "limpia" => aMedias

\* A socket that was not replaced while connected is open while the flag is up.
RancioInv ==
  ~rancio => /\ connected # 0 => sock = "abierto"
             /\ fase # "nada" => sock = "null"
             /\ \A t \in Lotes : lotes[t].en = "vuelo" => lotes[t].abierto
FallosInv ==
  ~rancio /\ ~revivible =>
    \A c \in Contactos : /\ failures[c] <= culpas[c] /\ guardados[c] <= culpas[c]
                         /\ \A k \in DOMAIN escribiendo : escribiendo[k][c] <= culpas[c]

\* A slice is asked for once, sends its targets in order, and owes to the job less than
\* one report between two of them.
LoteSano(r) ==
  /\ r.en = "no" => r = SinLote
  /\ r.i >= 1
  /\ r.en = "vuelo" => r.i <= Len(r.targets)
  /\ r.en \in {"total", "envia", "vuelo"} => r.dS + r.dF < Cada
  /\ r.dS + r.dF <= Cada
\* Nothing is sent before the count, and the hub resolves again what it counted.
ContadoInv ==
  /\ ~contado => /\ corte = <<>> /\ recibido = SinFallos
                 /\ \A t \in Lotes : lotes[t].en = "no"
  /\ difusion.via = "hub" /\ contado => corte = destinos

\* The positions of corte that slice t covers, and those it may still send to.
Puestos(t) == {k \in DOMAIN corte : Offset(t) < k /\ k <= Offset(t) + BatchSize}
Pendientes(t) ==
  {k \in Puestos(t) : \/ lotes[t].en = "no"
                      \/ lotes[t].targets # <<>> /\ Offset(t) + lotes[t].i <= k}
UnaInv ==
  ~movido =>
    /\ \A t \in Lotes : lotes[t].targets = <<>> \/ lotes[t].targets = Slice(corte, t)
    /\ \A c \in Contactos : recibido[c] <= 1
    /\ \A t \in Lotes : \A k \in Pendientes(t) : recibido[corte[k]] = 0
-----------------------------------------------------------------------------
(* The socket.                                                             *)

\* Every step is a step of the socket, or leaves it alone.
LEMMA PasoDelSocket ==
  ASSUME [Next]_vars
  PROVE  ArrancaServicio \/ Limpia \/ Crea \/ Muere \/ SocketPaso \/ SinSocket
<1>1. CASE UNCHANGED vars
  BY <1>1 DEF vars, socketVars, SinSocket, socket, par, timers, avisos, arranque, qrs, dynamo
<1>2. CASE ArrancaServicio \/ LimpiaServicio \/ CreaServicio \/ MuereServicio \/ SocketSolo
  BY <1>2 DEF LimpiaServicio, CreaServicio, MuereServicio, SocketSolo
<1>3. CASE Cuenta
  BY <1>3 DEF Cuenta, SinSocket
<1>4. ASSUME NEW t \in Lotes,
             \/ Send(t) \/ FijaTotal(t) \/ Envia(t) \/ Resulta(t) \/ Incr(t)
             \/ HubAbre(t) \/ HubEnvia(t)
      PROVE  SinSocket
  <2>1. CASE Send(t) \/ Envia(t) \/ HubAbre(t)
    BY <2>1 DEF Send, Envia, HubAbre, SinSocket, socketVars, socket, par, timers, avisos,
                arranque, qrs, dynamo
  <2>2. CASE FijaTotal(t)
    BY <2>2 DEF FijaTotal, SinSocket
  <2>3. CASE Resulta(t)
    BY <2>3 DEF Resulta, SinSocket
  <2>4. CASE Incr(t)
    BY <2>4 DEF Incr, SinSocket
  <2>5. CASE HubEnvia(t)
    BY <2>5 DEF HubEnvia, SinSocket
  <2> QED
    BY <1>4, <2>1, <2>2, <2>3, <2>4, <2>5
<1>5. ASSUME NEW c \in Contactos, Conoce(c) PROVE SinSocket
  BY <1>5 DEF Conoce
<1>6. CASE GuardaContactos \/ \E k \in DOMAIN escribiendo : Aterriza(k)
  BY <1>6 DEF GuardaContactos, Aterriza
<1>7. CASE GuardaFallos
  BY <1>7 DEF GuardaFallos, SinSocket, socketVars, socket, par, timers, avisos, arranque, qrs, dynamo
<1>8. ASSUME NEW ids, BlockedClear(ids) PROVE SinSocket
  BY <1>8 DEF BlockedClear
<1> QED
  BY <1>1, <1>2, <1>3, <1>4, <1>5, <1>6, <1>7, <1>8 DEF Next
\* SocketTypeOK by parts.
Estados ==
  /\ sock \in Vivo \cup {"null", "cerrado"} /\ creds \in Sesion /\ sesion \in Sesion
  /\ pairNumber \in Pares \cup {Nadie} /\ fase \in {"nada", "limpia", "lee", "crea"}
Rangos ==
  /\ gen \in Nat /\ chain \in Nat
  /\ connected \in 0..gen /\ pairingCode \in 0..gen /\ pidiendo \in SUBSET (1..gen)
  /\ currentQR \in 0..gen /\ pintando \in SUBSET (1..gen)
Banderas ==
  /\ lastPairError \in BOOLEAN /\ pairTimer \in BOOLEAN /\ reconnectTimer \in BOOLEAN
  /\ loggedOut \in BOOLEAN /\ replaced \in BOOLEAN /\ clearOnStart \in BOOLEAN
  /\ nueva \in BOOLEAN /\ aMedias \in BOOLEAN
Peticiones == pares \in [Pares -> [en : {"no", "espera", "hecho"}, turno : Nat]]

\* A timer of the code, a start that runs or a socket belongs to a generation.
ConGeneracion == pairTimer \/ fase # "nada" \/ sock # "null" => gen > 0
SocketInv == SocketTypeOK /\ ConGeneracion

\* The types of the socket are those of its groups of variables.
LEMMA SocketTypePorPartes ==
  SocketTypeOK <=> Estados /\ Rangos /\ Banderas /\ Peticiones /\ cupo \in [Clases -> Nat]
BY DEF SocketTypeOK, Estados, Rangos, Banderas, Peticiones

\* They hold at the start.
LEMMA TiposDelSocket == Init => SocketInv
<1> SUFFICES ASSUME Init PROVE SocketInv
  OBVIOUS
<1>1. cupo \in [Clases -> Nat]
  BY SocketAssumption DEF Init, SocketInit
<1>2. Estados /\ Rangos
  BY DEF Init, SocketInit, Estados, Rangos, Sesion
<1>3. Banderas
  BY DEF Init, SocketInit, Banderas
<1>4. Peticiones
  BY DEF Init, SocketInit, Peticiones, SinPedir
<1>5. ConGeneracion
  BY DEF Init, SocketInit, ConGeneracion
<1> QED
  BY <1>1, <1>2, <1>3, <1>4, <1>5, SocketTypePorPartes DEF SocketInv

\* What is spent of a bound leaves it a number.
LEMMA TiposTrasGasta ==
  ASSUME SocketTypeOK, NEW c \in Clases, Gasta(c)
  PROVE  cupo' \in [Clases -> Nat]
BY DEF SocketTypeOK, Gasta

\* Every step of the socket keeps its types.
LEMMA TiposTrasElSocket ==
  ASSUME SocketInv, cupo' \in [Clases -> Nat],
         Arranca \/ Limpia \/ Crea \/ Muere \/ SocketPaso \/ SinSocket
  PROVE  SocketInv'
<1> USE DEF socket, par, timers, avisos, arranque, qrs, dynamo, restart
<1>1. Estados /\ Rangos /\ Banderas /\ Peticiones
  BY SocketTypePorPartes DEF SocketInv
<1>2. Estados'
  BY <1>1 DEF Estados, Sesion, Vivo, Nadie, Arranca, Limpia, LimpiaTodo, Parcial, Crea, Muere,
     SinSocket, SocketPaso, Lee, Reconecta, PideCodigo, LlegaQR, QRPintado, Vincula, Abre,
         Telefono, OtroVincula,
     Reconnect, Reset, CodigoRespondido, Cierra, Pair, PairRechazado, PairResponde, PairFalla,
     Espera
<1>3. Rangos'
  <2> USE <1>1 DEF Rangos
  <2>1. CASE Arranca \/ Limpia \/ Crea \/ Muere \/ SinSocket
    BY <2>1 DEF Arranca, Limpia, Crea, Muere, SinSocket
  <2>2. CASE Lee
    BY <2>2 DEF Lee
  <2>3. CASE Reconecta
    BY <2>3 DEF Reconecta
  <2>4. CASE PideCodigo
    <3>1. gen \in 1..gen
      BY <2>4 DEF PideCodigo, SocketInv, ConGeneracion
    <3> QED
      BY <2>4, <3>1 DEF PideCodigo
  <2>5. CASE Vincula
    BY <2>5 DEF Vincula
  <2>6. CASE Abre
    BY <2>6 DEF Abre
  <2>7. CASE Telefono \/ OtroVincula
    BY <2>7 DEF Telefono, OtroVincula
  <2>8. CASE Reconnect
    BY <2>8 DEF Reconnect
  <2>9. CASE Reset
    BY <2>9 DEF Reset
  <2>10. ASSUME NEW g \in pidiendo, CodigoRespondido(g) PROVE Rangos'
    BY <2>10 DEF CodigoRespondido, Publica
  <2>11. ASSUME NEW codigo \in Codigos, Cierra(codigo) PROVE Rangos'
    BY <2>11 DEF Cierra
  <2>12. ASSUME NEW p \in Pares, Pair(p) \/ PairRechazado(p) \/ PairResponde(p) \/ PairFalla(p)
         PROVE  Rangos'
    BY <2>12 DEF Pair, PairRechazado, PairResponde, PairFalla
  <2>13. CASE LlegaQR
    <3>1. gen \in 1..gen
      BY <2>13 DEF LlegaQR, SocketInv, ConGeneracion
    <3> QED
      BY <2>13, <3>1 DEF LlegaQR
  <2>14. ASSUME NEW g \in pintando, QRPintado(g) PROVE Rangos'
    BY <2>14 DEF QRPintado
  <2> QED
    BY <2>1, <2>2, <2>3, <2>4, <2>5, <2>6, <2>7, <2>8, <2>9, <2>10, <2>11, <2>12, <2>13, <2>14
       DEF SocketPaso
<1>4. Banderas'
  <2>1. CASE Arranca \/ Limpia \/ Crea \/ Muere \/ SinSocket
    BY <1>1, <2>1 DEF Banderas, Arranca, Limpia, LimpiaTodo, Crea, Muere, SinSocket
  <2>2. CASE SocketPaso
    <3>1. CASE Lee \/ Reconecta \/ PideCodigo \/ LlegaQR \/ Reconnect \/ Reset
      BY <1>1, <3>1 DEF Banderas, Lee, ArranqueFallido, Reconecta, PideCodigo, LlegaQR, Reconnect,
         Reset
    <3>2. CASE Vincula \/ Abre \/ Telefono \/ OtroVincula
      BY <1>1, <3>2 DEF Banderas, Vincula, Abre, Telefono, OtroVincula
    <3>3. ASSUME NEW g \in pidiendo, CodigoRespondido(g) PROVE Banderas'
      BY <1>1, <3>3 DEF Banderas, CodigoRespondido, Publica
    <3>4. ASSUME NEW codigo \in Codigos, Cierra(codigo) PROVE Banderas'
      BY <1>1, <3>4 DEF Banderas, Cierra
    <3>5. ASSUME NEW p \in Pares,
                 Pair(p) \/ PairRechazado(p) \/ PairResponde(p) \/ PairFalla(p)
          PROVE  Banderas'
      BY <1>1, <3>5 DEF Banderas, Pair, PairRechazado, PairResponde, PairFalla
    <3>6. ASSUME NEW g \in pintando, QRPintado(g) PROVE Banderas'
      BY <1>1, <3>6 DEF Banderas, QRPintado
    <3> QED
      BY <2>2, <3>1, <3>2, <3>3, <3>4, <3>5, <3>6 DEF SocketPaso
  <2> QED
    BY <2>1, <2>2
<1>5. Peticiones'
  BY <1>1 DEF Peticiones, Rangos, Arranca, Limpia, Crea, Muere, SinSocket, SocketPaso, Lee,
     Reconecta, PideCodigo, LlegaQR, QRPintado, Vincula, Abre, Telefono, OtroVincula, Reconnect, Reset,
     CodigoRespondido, Cierra, Pair, PairRechazado, PairResponde, PairFalla, Espera
<1>6. ConGeneracion'
  <2> USE DEF SocketInv, ConGeneracion
  <2>1. CASE Arranca
    <3>1. gen' > 0
      BY <1>1, <2>1 DEF Arranca, Rangos
    <3> QED
      BY <3>1
  <2>3. CASE Limpia \/ Crea \/ SinSocket
    <3>1. gen' = gen
      BY <2>3 DEF Limpia, Crea, SinSocket
    <3>2. fase # "nada" \/ UNCHANGED <<pairTimer, fase, sock>>
      BY <2>3 DEF Limpia, LimpiaTodo, Crea, SinSocket
    <3> QED
      BY <3>1, <3>2
  <2>4. CASE Muere
    BY <2>4 DEF Muere
  <2>2. CASE SocketPaso
    <3>1. gen' = gen
      BY <2>2 DEF SocketPaso, Lee, Reconecta, PideCodigo, LlegaQR, QRPintado, Vincula, Abre,
         Telefono, OtroVincula,
         Reconnect, Reset, CodigoRespondido, Cierra, Pair, PairRechazado, PairResponde,
         PairFalla, Espera
    <3>2. (pairTimer' => pairTimer) /\ (fase' = fase \/ fase # "nada")
      BY <2>2 DEF SocketPaso, Lee, Reconecta, PideCodigo, LlegaQR, QRPintado, Vincula, Abre,
         Telefono, OtroVincula, Reconnect, Reset, CodigoRespondido, Cierra, Pair, PairRechazado,
         PairResponde, PairFalla, Espera
    <3>3. sock' = sock \/ sock # "null"
      <4>1. CASE Vincula \/ Abre
        BY <4>1 DEF Vincula, Abre
      <4>2. ASSUME NEW codigo \in Codigos, Cierra(codigo) PROVE sock # "null"
        BY <4>2 DEF Cierra, Motivo, Vivo, Codigos
      <4>3. CASE ~Vincula /\ ~Abre /\ ~\E codigo \in Codigos : Cierra(codigo)
        BY <2>2, <4>3 DEF SocketPaso, Lee, Reconecta, PideCodigo, LlegaQR, QRPintado, Telefono,
           OtroVincula, Reconnect, Reset, CodigoRespondido, Pair, PairRechazado, PairResponde,
           PairFalla, Espera
      <4> QED
        BY <4>1, <4>2, <4>3
    <3> QED
      BY <3>1, <3>2, <3>3
  <2> QED
    BY <2>1, <2>2, <2>3, <2>4
<1> QED
  BY <1>2, <1>3, <1>4, <1>5, <1>6
     DEF SocketInv, SocketTypeOK, Estados, Rangos, Banderas, Peticiones

\* What the step takes from the bounds leaves them bounds.
LEMMA TiposDelCupo ==
  ASSUME SocketTypeOK, [Next]_vars
  PROVE  cupo' \in [Clases -> Nat]
<1>1. \A c \in Clases : Gasta(c) => cupo' \in [Clases -> Nat]
  BY TiposTrasGasta
<1>2. Bien => cupo' \in [Clases -> Nat]
  BY DEF Bien, SocketTypeOK
<1>3. Falla => cupo' \in [Clases -> Nat]
  BY <1>1 DEF Falla, Clases
<1>4. UNCHANGED socketVars => Bien
  BY DEF socketVars, Bien
<1>5. CASE UNCHANGED vars
  BY <1>2, <1>4, <1>5 DEF vars
<1>6. CASE SocketSolo
  <2> USE DEF Clases
  <2>1. CASE Lee \/ Vincula \/ OtroVincula \/ Telefono
    BY <1>1, <1>2, <1>3, <2>1 DEF Lee, Vincula, OtroVincula, Telefono
  <2>2. CASE Reconecta \/ PideCodigo \/ LlegaQR \/ Abre
    BY <1>2, <2>2 DEF Reconecta, PideCodigo, LlegaQR, Abre, Bien
  <2>3. CASE Reconnect \/ Reset
    BY <1>1, <2>3 DEF Reconnect, Reset
  <2>4. ASSUME NEW g \in pidiendo, CodigoRespondido(g) PROVE Bien \/ Falla
    BY <2>4 DEF CodigoRespondido
  <2>5. ASSUME NEW codigo \in Codigos, Cierra(codigo) PROVE Bien \/ Gasta("caida")
    BY <2>5 DEF Cierra, Motivo, Codigos
  <2>6. ASSUME NEW p \in Pares, Pair(p) \/ PairRechazado(p) \/ PairResponde(p) \/ PairFalla(p)
        PROVE  Bien \/ Gasta("pair")
    BY <2>6 DEF Pair, PairRechazado, PairResponde, PairFalla, Bien
  <2>7. ASSUME NEW g \in pintando, QRPintado(g) PROVE Bien
    BY <2>7 DEF QRPintado, Bien
  <2> QED
    BY <1>1, <1>2, <1>3, <1>6, <2>1, <2>2, <2>3, <2>4, <2>5, <2>6, <2>7
       DEF SocketSolo, SocketPaso
<1>7. CASE ArrancaServicio \/ LimpiaServicio \/ CreaServicio \/ MuereServicio
  <2>1. CASE ArrancaServicio
    BY <1>2, <2>1 DEF ArrancaServicio, Arranca, Bien
  <2>2. CASE LimpiaServicio
    BY <1>2, <1>3, <2>2 DEF LimpiaServicio, Limpia, LimpiaTodo
  <2>3. CASE CreaServicio
    BY <1>2, <1>3, <2>3 DEF CreaServicio
  <2>4. CASE MuereServicio
    BY <1>1, <2>4 DEF MuereServicio, Muere, Clases
  <2> QED
    BY <1>7, <2>1, <2>2, <2>3, <2>4
<1>8. CASE Cuenta
  BY <1>1, <1>8 DEF Cuenta, Clases
<1>9. ASSUME NEW t \in Lotes,
             \/ Send(t) \/ FijaTotal(t) \/ Envia(t) \/ Resulta(t) \/ Incr(t)
             \/ HubAbre(t) \/ HubEnvia(t)
      PROVE  Bien \/ Falla
  <2>1. CASE Send(t) \/ Envia(t) \/ HubAbre(t)
    BY <1>4, <2>1 DEF Send, Envia, HubAbre
  <2>2. CASE FijaTotal(t) \/ Incr(t)
    BY <2>2 DEF FijaTotal, Incr
  <2>3. CASE Resulta(t)
    BY <2>3 DEF Resulta
  <2>4. CASE HubEnvia(t)
    BY <2>4 DEF HubEnvia
  <2> QED
    BY <1>9, <2>1, <2>2, <2>3, <2>4
<1>10. ASSUME NEW c \in Contactos, Conoce(c) PROVE cupo' \in [Clases -> Nat]
  BY <1>1, <1>10 DEF Conoce, Clases
<1>11. CASE GuardaContactos \/ GuardaFallos \/ \E k \in DOMAIN escribiendo : Aterriza(k)
  BY <1>2, <1>3, <1>4, <1>11 DEF GuardaContactos, GuardaFallos, Aterriza
<1>12. ASSUME NEW ids, BlockedClear(ids) PROVE cupo' \in [Clases -> Nat]
  <2>1. flushFailures(failures')
    BY <1>12 DEF BlockedClear
  <2>2. CASE Gasta("limpia")
    BY <1>1, <2>2 DEF Clases
  <2>3. CASE /\ cupo.limpia > 0 /\ cupo.fallo > 0
             /\ cupo' = [cupo EXCEPT !.limpia = @ - 1, !.fallo = @ - 1]
    <3>1. cupo \in [Clases -> Nat]
      BY DEF SocketTypeOK
    <3>2. cupo["limpia"] - 1 \in Nat /\ cupo["fallo"] - 1 \in Nat
      BY <2>3, <3>1 DEF Clases
    <3> QED
      BY <2>3, <3>1, <3>2, Zenon
  <2> QED
    BY <2>1, <2>2, <2>3 DEF flushFailures
<1> QED
  BY <1>2, <1>3, <1>5, <1>6, <1>7, <1>8, <1>9, <1>10, <1>11, <1>12 DEF Next

\* So does every step of the whole.
LEMMA SocketTipado == ASSUME SocketInv, [Next]_vars PROVE SocketInv'
BY PasoDelSocket, TiposDelCupo, TiposTrasElSocket DEF SocketInv, ArrancaServicio
\* The service starts without a code.
LEMMA CodigoAlEmpezar == Init => CodigoInv
BY DEF Init, SocketInit, CodigoInv

\* No start, request, late answer or loss breaks CodigoInv.
LEMMA CodigoSeMantiene ==
  ASSUME SocketInv, CodigoInv, [Next]_vars
  PROVE  CodigoInv'
<1> USE DEF CodigoInv, socket, par, timers, avisos, arranque, qrs, dynamo, restart
<1>1. gen \in Nat /\ chain \in Nat /\ pidiendo \subseteq 1..gen
  BY DEF SocketInv, SocketTypeOK
<1>2. CASE Arranca
  <2>1. gen + 1 \notin pidiendo /\ chain - 1 \in Nat /\ pairingCode = 0
    BY <1>1, <1>2 DEF Arranca
  <2> QED
    BY <1>2, <2>1 DEF Arranca
<1>3. CASE Limpia
  BY <1>3 DEF Limpia, LimpiaTodo
<1>4. CASE Crea
  BY <1>4 DEF Crea
<1>5. CASE Muere
  BY <1>5 DEF Muere
<1>6. CASE SinSocket
  BY <1>6 DEF SinSocket
<1>7. CASE SocketPaso
  <2>1. CASE Lee
    BY <2>1 DEF Lee
  <2>2. CASE Reconecta
    BY <1>1, <2>2 DEF Reconecta, Turno
  <2>3. CASE PideCodigo
    BY <2>3 DEF PideCodigo
  <2>4. CASE Vincula
    BY <2>4 DEF Vincula, Turno
  <2>5. CASE Abre
    BY <2>5 DEF Abre, Turno
  <2>6. CASE Telefono \/ OtroVincula
    BY <2>6 DEF Telefono, OtroVincula
  <2>7. CASE Reconnect \/ Reset
    BY <1>1, <2>7 DEF Reconnect, Reset
  <2>8. ASSUME NEW g \in pidiendo, CodigoRespondido(g) PROVE CodigoInv'
    <3>1. CASE g = gen
      BY <2>8, <3>1 DEF CodigoRespondido, Publica, Turno
    <3>2. CASE g # gen
      BY <2>8, <3>2 DEF CodigoRespondido, Publica
    <3> QED
      BY <3>1, <3>2
  <2>9. ASSUME NEW codigo \in Codigos, Cierra(codigo) PROVE CodigoInv'
    BY <2>9 DEF Cierra, Motivo, Vivo, Codigos, Turno
  <2>10. ASSUME NEW p \in Pares, Pair(p) \/ PairRechazado(p) \/ PairResponde(p) \/ PairFalla(p)
         PROVE  CodigoInv'
    BY <1>1, <2>10 DEF Pair, PairRechazado, PairResponde, PairFalla, Espera
  <2>11. CASE LlegaQR \/ \E g \in pintando : QRPintado(g)
    BY <2>11 DEF LlegaQR, QRPintado
  <2> QED
    BY <1>7, <2>1, <2>2, <2>3, <2>4, <2>5, <2>6, <2>7, <2>8, <2>9, <2>10, <2>11 DEF SocketPaso
<1> QED
  BY PasoDelSocket, <1>2, <1>3, <1>4, <1>5, <1>6, <1>7 DEF ArrancaServicio

\* Nor QRInv: a pairing that begins while an image is on its way replaces its socket first.
LEMMA QRSeMantiene ==
  ASSUME SocketInv, QRInv, [Next]_vars
  PROVE  QRInv'
<1> USE DEF QRInv, Turno, socket, par, timers, avisos, arranque, qrs, dynamo, restart
<1>1. gen \in Nat /\ chain \in Nat /\ pintando \subseteq 1..gen
  BY DEF SocketInv, SocketTypeOK
<1>2. CASE Arranca
  <2>1. gen + 1 \notin pintando
    BY <1>1
  <2> QED
    BY <1>2, <2>1 DEF Arranca
<1>3. CASE Limpia
  BY <1>3 DEF Limpia, LimpiaTodo
<1>4. CASE Crea
  BY <1>4 DEF Crea
<1>5. CASE Muere
  BY <1>5 DEF Muere
<1>6. CASE SinSocket
  BY <1>6 DEF SinSocket
<1>7. CASE SocketPaso
  <2>1. CASE Lee
    BY <2>1 DEF Lee
  <2>2. CASE Reconecta
    BY <1>1, <2>2 DEF Reconecta
  <2>3. CASE PideCodigo \/ Telefono \/ OtroVincula
    BY <2>3 DEF PideCodigo, Telefono, OtroVincula
  <2>4. CASE Vincula
    BY <2>4 DEF Vincula
  <2>5. CASE Abre
    BY <2>5 DEF Abre
  <2>6. CASE Reconnect \/ Reset
    BY <1>1, <2>6 DEF Reconnect, Reset
  <2>7. ASSUME NEW g \in pidiendo, CodigoRespondido(g) PROVE QRInv'
    BY <2>7 DEF CodigoRespondido
  <2>8. ASSUME NEW codigo \in Codigos, Cierra(codigo) PROVE QRInv'
    BY <2>8 DEF Cierra, Motivo, Vivo, Codigos
  <2>9. ASSUME NEW p \in Pares, Pair(p) PROVE QRInv'
    BY <1>1, <2>9 DEF Pair
  <2>10. ASSUME NEW p \in Pares, PairRechazado(p) \/ PairResponde(p) \/ PairFalla(p)
         PROVE  QRInv'
    BY <1>1, <2>10 DEF PairRechazado, PairResponde, PairFalla, Espera
  <2>11. CASE LlegaQR
    BY <2>11 DEF LlegaQR
  <2>12. ASSUME NEW g \in pintando, QRPintado(g) PROVE QRInv'
    BY <2>12 DEF QRPintado
  <2> QED
    BY <1>7, <2>1, <2>2, <2>3, <2>4, <2>5, <2>6, <2>7, <2>8, <2>9, <2>10, <2>11, <2>12
       DEF SocketPaso
<1> QED
  BY PasoDelSocket, <1>2, <1>3, <1>4, <1>5, <1>6, <1>7 DEF ArrancaServicio

\* The pairing code shown is one that the current socket asked for: index.js asks for a
\* code per socket and drops an answer that comes after its socket was replaced; and no
\* QR is shown beside it.
THEOREM LiveCode == Spec => []CodigoVivo
<1>1. Init => SocketInv /\ CodigoInv /\ QRInv
  BY TiposDelSocket, CodigoAlEmpezar DEF Init, SocketInit, QRInv
<1>2. SocketInv /\ CodigoInv /\ QRInv /\ [Next]_vars => (SocketInv /\ CodigoInv /\ QRInv)'
  BY SocketTipado, CodigoSeMantiene, QRSeMantiene
<1>3. CodigoInv /\ QRInv => CodigoVivo
  BY DEF CodigoInv, QRInv, CodigoVivo
<1> QED
  BY <1>1, <1>2, <1>3, PTL DEF Spec
-----------------------------------------------------------------------------
(* What is deleted.                                                        *)

\* Nor BorradoInv.
LEMMA BorradoSeMantiene ==
  ASSUME SocketInv, BorradoInv, [Next]_vars
  PROVE  BorradoInv'
<1> USE DEF BorradoInv, socket, par, timers, avisos, arranque, qrs, dynamo, restart
<1>1. chain \in Nat
  BY DEF SocketInv, SocketTypeOK
<1>2. CASE Arranca
  BY <1>1, <1>2 DEF Arranca
<1>3. CASE Limpia
  BY <1>3 DEF Limpia, LimpiaTodo
<1>4. CASE Crea
  BY <1>4 DEF Crea
<1>5. CASE Muere
  BY <1>5 DEF Muere
<1>6. CASE SinSocket
  BY <1>6 DEF SinSocket
<1>7. CASE SocketPaso
  <2>1. CASE Lee
    BY <2>1 DEF Lee
  <2>2. CASE Reconecta
    BY <1>1, <2>2 DEF Reconecta
  <2>3. CASE PideCodigo \/ Abre \/ Telefono \/ OtroVincula
    BY <2>3 DEF PideCodigo, Abre, Telefono, OtroVincula
  <2>10. CASE LlegaQR \/ \E g \in pintando : QRPintado(g)
    BY <2>10 DEF LlegaQR, QRPintado
  <2>4. CASE Vincula
    BY <2>4 DEF Vincula, Turno
  <2>5. CASE Reconnect
    BY <1>1, <2>5 DEF Reconnect
  <2>6. CASE Reset
    BY <1>1, <2>6 DEF Reset
  <2>7. ASSUME NEW g \in pidiendo, CodigoRespondido(g) PROVE BorradoInv'
    BY <2>7 DEF CodigoRespondido
  <2>8. ASSUME NEW codigo \in Codigos, Cierra(codigo) PROVE BorradoInv'
    BY <2>8 DEF Cierra, Motivo, Vivo, Codigos
  <2>9. ASSUME NEW p \in Pares, Pair(p) \/ PairRechazado(p) \/ PairResponde(p) \/ PairFalla(p)
        PROVE  BorradoInv'
    BY <1>1, <2>9 DEF Pair, PairRechazado, PairResponde, PairFalla, Espera
  <2> QED
    BY <1>7, <2>1, <2>2, <2>3, <2>4, <2>5, <2>6, <2>7, <2>8, <2>9, <2>10 DEF SocketPaso
<1> QED
  BY PasoDelSocket, <1>2, <1>3, <1>4, <1>5, <1>6, <1>7 DEF ArrancaServicio

\* A session that a socket of the service has linked is deleted only on a request made
\* afterwards: the flag of doStart comes down with the deletion that it ordered.
THEOREM DeletedOnRequest == Spec => BorradoAPedido
<1>1. Init => SocketInv /\ BorradoInv
  BY TiposDelSocket DEF Init, SocketInit, BorradoInv
<1>2. SocketInv /\ BorradoInv /\ [Next]_vars => (SocketInv /\ BorradoInv)'
  BY SocketTipado, BorradoSeMantiene
<1>3. ASSUME BorradoInv, [Next]_vars, nueva, ~aMedias, sesion = "viva"
      PROVE  sesion' # "vacia"
  <2> USE DEF dynamo
  <2>1. fase # "limpia"
    BY <1>3 DEF BorradoInv
  <2>2. CASE Arranca \/ Limpia \/ Crea \/ Muere \/ SinSocket
    BY <1>3, <2>1, <2>2 DEF Arranca, Limpia, LimpiaTodo, Crea, Muere, SinSocket
  <2>3. CASE SocketPaso
    BY <1>3, <2>3 DEF SocketPaso, Lee, Reconecta, PideCodigo, LlegaQR, QRPintado, Vincula, Abre,
       Telefono,
       OtroVincula, Reconnect, Reset, CodigoRespondido, Cierra, Pair, PairRechazado,
       PairResponde, PairFalla, Espera
  <2> QED
    BY <1>3, <2>2, <2>3, PasoDelSocket DEF ArrancaServicio
<1>4. SocketInv /\ BorradoInv /\ [Next]_vars =>
        [nueva /\ ~aMedias /\ sesion = "viva" => sesion' # "vacia"]_socketVars
  BY <1>3
<1> QED
  BY <1>1, <1>2, <1>4, PTL DEF Spec, BorradoAPedido
-----------------------------------------------------------------------------
(* The targets of the slices.                                              *)

\* In a finite set of numbers, the rank of a number is a bijection with 1..Cardinality.
LEMMA RangoCreciente ==
  ASSUME NEW S \in SUBSET Nat, IsFiniteSet(S), NEW x \in S, NEW y \in S, x < y
  PROVE  Cardinality({z \in S : z <= x}) < Cardinality({z \in S : z <= y})
<1> DEFINE X == {z \in S : z <= x}
           Y == {z \in S : z <= y}
<1> x \in Nat /\ y \in Nat
  OBVIOUS
<1>0. (\A z \in S : z <= x => z <= y) /\ y <= y /\ ~(y <= x)
  OBVIOUS
<1>1. X \subseteq Y /\ y \in Y /\ y \notin X
  BY <1>0, Zenon
<1>2. IsFiniteSet(Y)
  BY FS_Subset
<1>3. IsFiniteSet(X)
  BY FS_Subset
<1>4. Cardinality(X) \in Nat /\ Cardinality(Y) \in Nat
  BY <1>2, <1>3, FS_CardinalityType
<1> HIDE DEF X, Y
<1>5. Cardinality(X) <= Cardinality(Y) /\ (Cardinality(Y) = Cardinality(X) => Y = X)
  BY <1>1, <1>2, FS_Subset
<1>6. Cardinality(X) < Cardinality(Y)
  BY <1>1, <1>4, <1>5
<1> QED
  BY <1>6 DEF X, Y

\* Ordenados lists a set of numbers whole and without repeating.
LEMMA OrdenadosBien ==
  ASSUME NEW S \in SUBSET Nat, IsFiniteSet(S)
  PROVE  /\ Ordenados(S) \in Seq(S)
         /\ Len(Ordenados(S)) = Cardinality(S)
         /\ IsInjective(Ordenados(S))
<1> DEFINE rango == [x \in S |-> Cardinality({y \in S : y <= x})]
           n == Cardinality(S)
           lista == Ordenados(S)
<1>1. n \in Nat
  BY FS_CardinalityType
<1>2. ASSUME NEW x \in S PROVE rango[x] \in 1..n
  <2> DEFINE X == {y \in S : y <= x}
  <2>1. X \in SUBSET S /\ X # {}
    OBVIOUS
  <2>2. IsFiniteSet(X) /\ Cardinality(X) <= n
    BY <2>1, FS_Subset
  <2>3. Cardinality(X) \in Nat
    BY <2>2, FS_CardinalityType
  <2>4. Cardinality(X) # 0
    BY <2>1, <2>2, FS_EmptySet
  <2> HIDE DEF X, n
  <2>5. Cardinality(X) \in 1..n
    BY <1>1, <2>2, <2>3, <2>4
  <2> QED
    BY <2>5 DEF X
<1>3. ASSUME NEW x \in S, NEW y \in S, rango[x] = rango[y] PROVE x = y
  <2>1. CASE x < y
    <3>1. rango[x] < rango[y]
      BY <2>1, RangoCreciente
    <3> QED
      BY <1>2, <1>3, <3>1, <1>1
  <2>2. CASE y < x
    <3>1. rango[y] < rango[x]
      BY <2>2, RangoCreciente
    <3> QED
      BY <1>2, <1>3, <3>1, <1>1
  <2> QED
    BY <2>1, <2>2
<1>4. rango \in Injection(S, 1..n)
  BY <1>2, <1>3 DEF Injection, IsInjective
<1>5. IsFiniteSet(1..n) /\ Cardinality(1..n) = n
  BY <1>1, FS_Interval
<1>6. rango \in Surjection(S, 1..n)
  <2> HIDE DEF rango
  <2> QED
    BY <1>4, <1>5, FS_Injection
<1>7. ASSUME NEW i \in 1..n PROVE \E x \in S : rango[x] = i
  BY <1>6 DEF Surjection
<1>8. ASSUME NEW i \in 1..n PROVE lista[i] \in S /\ rango[lista[i]] = i
  <2>1. \E x \in S : Cardinality({y \in S : y <= x}) = i
    BY <1>7
  <2>2. lista[i] = CHOOSE x \in S : Cardinality({y \in S : y <= x}) = i
    BY DEF Ordenados
  <2>3. lista[i] \in S /\ Cardinality({y \in S : y <= lista[i]}) = i
    BY <2>1, <2>2, Zenon
  <2> QED
    BY <2>3
<1>9. DOMAIN lista = 1..n
  BY DEF Ordenados
<1>10. lista = [i \in 1..n |-> lista[i]]
  BY <1>9 DEF Ordenados
<1> HIDE DEF lista, rango, n
<1>11. lista \in [1..n -> S]
  BY <1>8, <1>10
<1>12. lista \in Seq(S) /\ Len(lista) = n
  BY <1>1, <1>11
<1>13. ASSUME NEW i \in DOMAIN lista, NEW j \in DOMAIN lista, lista[i] = lista[j] PROVE i = j
  BY <1>8, <1>9, <1>13
<1>14. IsInjective(lista)
  BY <1>13 DEF IsInjective
<1> QED
  BY <1>12, <1>14 DEF lista, n

\* An injective sequence of contacts is no longer than their number.
LEMMA LargoAcotado ==
  ASSUME NumContactos \in Nat, NEW s \in Seq(Contactos), IsInjective(s)
  PROVE  Len(s) \in 0..NumContactos
<1>1. s \in Injection(1..Len(s), Contactos)
  BY DEF Injection
<1>2. IsFiniteSet(Contactos) /\ Cardinality(Contactos) = NumContactos
  BY FS_Interval DEF Contactos
<1>3. IsFiniteSet(1..Len(s)) /\ Cardinality(1..Len(s)) = Len(s)
  <2> DEFINE n == Len(s)
  <2>1. n \in Nat
    OBVIOUS
  <2> HIDE DEF n
  <2>2. IsFiniteSet(1..n) /\ Cardinality(1..n) = n
    BY <2>1, FS_Interval
  <2> QED
    BY <2>2 DEF n
<1>4. Cardinality(1..Len(s)) <= Cardinality(Contactos)
  <2> HIDE DEF Contactos
  <2> QED
    BY <1>1, <1>2, FS_Injection
<1> QED
  BY <1>2, <1>3, <1>4

\* The targets of a slice are contacts, each of them once.
LEMMA ResolverTargetsBien ==
  ASSUME NumContactos \in Nat, contacts \subseteq Contactos
  PROVE  resolverTargets \in Seq(Contactos) /\ IsInjective(resolverTargets)
<1> DEFINE S == {id \in contacts : Elegible(id)}
<1>1. IsFiniteSet(Contactos)
  BY FS_Interval DEF Contactos
<1>2. S \in SUBSET Contactos
  OBVIOUS
<1>3. S \in SUBSET Nat /\ IsFiniteSet(S)
  <2> HIDE DEF S
  <2>1. IsFiniteSet(S)
    BY <1>1, <1>2, FS_Subset
  <2> QED
    BY <1>2, <2>1 DEF Contactos
<1>4. resolverTargets = Ordenados(S)
  BY DEF resolverTargets
<1> HIDE DEF S
<1>5. Ordenados(S) \in Seq(S) /\ IsInjective(Ordenados(S))
  BY <1>3, OrdenadosBien
<1> QED
  BY <1>2, <1>4, <1>5

\* The targets kept by the hub, the first of each id, are contacts, none twice.
LEMMA DestinosBien ==
  ASSUME difusion.listas \in Seq(Contactos)
  PROVE  destinos \in Seq(Contactos) /\ IsInjective(destinos)
<1> DEFINE s == difusion.listas
           P == {i \in DOMAIN s : NoFuera(s[i]) /\ Primera(i)}
           puestos == Ordenados(P)
<1>1. DOMAIN s = 1..Len(s) /\ Len(s) \in Nat
  OBVIOUS
<1>2. IsFiniteSet(1..Len(s))
  BY <1>1, FS_Interval
<1>3. P \in SUBSET (1..Len(s))
  BY <1>1
<1>4. P \in SUBSET Nat /\ IsFiniteSet(P)
  <2> HIDE DEF P
  <2>1. IsFiniteSet(P)
    BY <1>2, <1>3, FS_Subset
  <2> QED
    BY <1>3, <2>1
<1>5. \A i, j \in P : s[i] = s[j] => i = j
  <2> SUFFICES ASSUME NEW i \in P, NEW j \in P, s[i] = s[j], i < j PROVE FALSE
    BY <1>3
  <2>1. Primera(j)
    OBVIOUS
  <2> QED
    BY <1>3, <2>1 DEF Primera
<1>6. destinos = [k \in DOMAIN puestos |-> s[puestos[k]]]
  BY DEF destinos
<1> HIDE DEF P
<1>7. puestos \in Seq(P) /\ IsInjective(puestos)
  BY <1>4, OrdenadosBien
<1> HIDE DEF puestos
<1>8. destinos \in Seq(Contactos)
  <2>1. DOMAIN puestos = 1..Len(puestos) /\ Len(puestos) \in Nat
    BY <1>7
  <2>2. \A k \in 1..Len(puestos) : s[puestos[k]] \in Contactos
    <3> SUFFICES ASSUME NEW k \in 1..Len(puestos) PROVE s[puestos[k]] \in Contactos
      OBVIOUS
    <3>0. puestos[k] \in P
      BY <1>7
    <3>1. puestos[k] \in 1..Len(s)
      BY <1>3, <3>0
    <3> QED
      BY <3>1
  <2>3. destinos \in [1..Len(puestos) -> Contactos]
    BY <1>6, <2>1, <2>2
  <2> QED
    BY <2>1, <2>3
<1>9. IsInjective(destinos)
  <2> SUFFICES ASSUME NEW a \in DOMAIN puestos, NEW b \in DOMAIN puestos,
                      s[puestos[a]] = s[puestos[b]]
               PROVE  a = b
    BY <1>6 DEF IsInjective
  <2>1. puestos[a] \in P /\ puestos[b] \in P
    BY <1>7
  <2>2. puestos[a] = puestos[b]
    BY <1>5, <2>1
  <2> QED
    BY <1>7, <2>2 DEF IsInjective
<1> QED
  BY <1>8, <1>9

\* What a slice takes of a list of contacts are contacts.
LEMMA OffsetNatural ==
  ASSUME BatchSize \in Nat, NEW t \in Lotes
  PROVE  t \in Nat /\ t >= 1 /\ Offset(t) \in Nat
<1>1. t \in Nat /\ t >= 1
  BY DEF Lotes
<1>2. \A a, b \in Nat : a * b \in Nat
  OBVIOUS
<1>3. t - 1 \in Nat
  BY <1>1
<1> QED
  BY <1>1, <1>2, <1>3 DEF Offset

\* A slice of the targets is made of contacts.
LEMMA SliceDeContactos ==
  ASSUME BatchSize \in Nat \ {0}, NEW t \in Lotes, NEW s \in Seq(Contactos),
         Len(corte) \in Nat
  PROVE  Slice(s, t) \in Seq(Contactos)
<1> DEFINE o == Offset(t)
           l == Limite(t)
           f == IF o + l > Len(s) THEN Len(s) ELSE o + l
<1>1. o \in Nat
  BY OffsetNatural
<1>2. l \in Int
  <2> HIDE DEF o
  <2> QED
    BY <1>1 DEF Limite, o
<1>3. Slice(s, t) = SubSeq(s, o + 1, f)
  BY DEF Slice, Corta
<1> HIDE DEF o, l
<1>4. f \in Int /\ \A i \in (o + 1)..f : i \in 1..Len(s)
  BY <1>1, <1>2
<1> HIDE DEF f
<1>5. \A i \in (o + 1)..f : s[i] \in Contactos
  BY <1>4
<1> QED
  BY <1>1, <1>3, <1>4, <1>5, SubSeqProperties

\* Slice t of the targets counted: positions Offset(t) + 1 to Offset(t) + Limite(t).
LEMMA SliceDelCorte ==
  ASSUME BatchSize \in Nat \ {0}, NEW t \in Lotes, corte \in Seq(Contactos),
         Offset(t) < Len(corte)
  PROVE  /\ Limite(t) \in 1..BatchSize /\ Offset(t) + Limite(t) <= Len(corte)
         /\ Limite(t) = BatchSize \/ Offset(t) + Limite(t) = Len(corte)
         /\ Len(Slice(corte, t)) = Limite(t)
         /\ \A i \in 1..Limite(t) : Slice(corte, t)[i] = corte[Offset(t) + i]
<1> DEFINE o == Offset(t)
           l == Limite(t)
           n == Len(corte)
<1>1. o \in Nat /\ n \in Nat /\ o < n
  BY OffsetNatural
<1>2. l = IF n - o < BatchSize THEN n - o ELSE BatchSize
  BY DEF Limite
<1>3. Slice(corte, t) = SubSeq(corte, o + 1, IF o + l > n THEN n ELSE o + l)
  BY DEF Slice, Corta
<1> HIDE DEF o, l, n
<1>4. l \in 1..BatchSize /\ o + l <= n /\ (l = BatchSize \/ o + l = n)
  BY <1>1, <1>2
<1>5. Slice(corte, t) = SubSeq(corte, o + 1, o + l)
  BY <1>1, <1>3, <1>4
<1>6. \A i \in (o + 1)..(o + l) : i \in 1..n
  BY <1>1, <1>4
<1>7. \A i \in (o + 1)..(o + l) : corte[i] \in Contactos
  BY <1>6 DEF n
<1>8. o + 1 \in Int /\ o + l \in Int /\ o + 1 <= o + l /\ (o + l) - (o + 1) + 1 = l
  BY <1>1, <1>4
<1>9. Len(SubSeq(corte, o + 1, o + l)) = l
  BY <1>7, <1>8, SubSeqProperties
<1>10. \A i \in 1..l : SubSeq(corte, o + 1, o + l)[i] = corte[o + 1 + i - 1]
  BY <1>7, <1>8, SubSeqProperties
<1>11. \A i \in 1..l : o + 1 + i - 1 = o + i
  BY <1>1, <1>4
<1>12. \A i \in 1..l : Slice(corte, t)[i] = corte[o + i]
  BY <1>5, <1>10, <1>11
<1> QED
  BY <1>4, <1>5, <1>9, <1>12 DEF o, l, n

\* A later slice begins where the earlier ones have ended.
LEMMA SlicesSeparadas ==
  ASSUME BatchSize \in Nat, NEW t \in Lotes, NEW u \in Lotes, t < u
  PROVE  Offset(t) + BatchSize <= Offset(u)
<1>1. t \in Nat /\ u \in Nat /\ t >= 1
  BY DEF Lotes
<1>2. PICK d \in Nat : u = t + 1 + d
  <2>1. u - t - 1 \in Nat /\ u = t + 1 + (u - t - 1)
    BY <1>1
  <2> QED
    BY <2>1
<1>3. \A a, b, c \in Nat : (a + 1 + b) * c = a * c + c + b * c /\ b * c \in Nat
  OBVIOUS
<1>4. t - 1 \in Nat /\ u - 1 = (t - 1) + 1 + d
  BY <1>1, <1>2
<1>5. (u - 1) * BatchSize = (t - 1) * BatchSize + BatchSize + d * BatchSize
  BY <1>3, <1>4
<1>6. d * BatchSize \in Nat /\ (t - 1) * BatchSize \in Nat
  BY <1>3, <1>4
<1> DEFINE x == (u - 1) * BatchSize
           y == (t - 1) * BatchSize
           z == d * BatchSize
<1>7. x = y + BatchSize + z /\ z \in Nat /\ y \in Nat
  BY <1>5, <1>6
<1> HIDE DEF x, y, z
<1>8. y + BatchSize <= x
  BY <1>7
<1> QED
  BY <1>8 DEF x, y, Offset

-----------------------------------------------------------------------------
(* The sending.                                                            *)

\* Who touches what of the sending.
LEMMA QuienToca ==
  ASSUME [Next]_vars
  PROVE  /\ UNCHANGED difusion
         /\ \/ UNCHANGED libreta
            \/ (\E c \in Contactos : Conoce(c)) \/ GuardaContactos
            \/ LimpiaServicio \/ CreaServicio \/ MuereServicio
         /\ \/ UNCHANGED <<optout, culpas, revivible>>
            \/ (\E t \in Lotes : Resulta(t)) \/ GuardaFallos
            \/ (\E k \in DOMAIN escribiendo : Aterriza(k))
            \/ (\E ids \in SUBSET Contactos : BlockedClear(ids))
            \/ LimpiaServicio \/ CreaServicio \/ MuereServicio
         /\ \/ UNCHANGED <<lotes, recibido, dudosos, perdido, job, movido>>
            \/ \E t \in Lotes : \/ Send(t) \/ FijaTotal(t) \/ Envia(t) \/ Resulta(t)
                                \/ Incr(t) \/ HubAbre(t) \/ HubEnvia(t)
            \/ MuereServicio
         /\ UNCHANGED <<contado, corte>> \/ Cuenta
         /\ UNCHANGED rancio \/ ArrancaServicio
<1> USE DEF libreta, optout, job, cortes, SinEnvio
<1>1. CASE UNCHANGED vars
  BY <1>1 DEF vars, envioVars
<1>2. CASE ArrancaServicio
  BY <1>2 DEF ArrancaServicio
<1>3. CASE LimpiaServicio
  BY <1>3 DEF LimpiaServicio
<1>4. CASE CreaServicio
  BY <1>4 DEF CreaServicio
<1>5. CASE MuereServicio
  BY <1>5 DEF MuereServicio
<1>6. CASE SocketSolo
  BY <1>6 DEF SocketSolo, envioVars
<1>7. CASE Cuenta
  BY <1>7 DEF Cuenta
<1>8. ASSUME NEW t \in Lotes,
             \/ Send(t) \/ FijaTotal(t) \/ Envia(t) \/ Resulta(t) \/ Incr(t)
             \/ HubAbre(t) \/ HubEnvia(t)
      PROVE  /\ UNCHANGED <<difusion, libreta, contado, corte, rancio>>
             /\ Resulta(t) \/ UNCHANGED <<optout, culpas, revivible>>
  <2>1. CASE Send(t)
    BY <2>1 DEF Send
  <2>2. CASE FijaTotal(t)
    BY <2>2 DEF FijaTotal
  <2>3. CASE Envia(t)
    BY <2>3 DEF Envia
  <2>4. CASE Resulta(t)
    BY <2>4 DEF Resulta
  <2>5. CASE Incr(t)
    BY <2>5 DEF Incr
  <2>6. CASE HubAbre(t)
    BY <2>6 DEF HubAbre
  <2>7. CASE HubEnvia(t)
    BY <2>7 DEF HubEnvia
  <2> QED
    BY <1>8, <2>1, <2>2, <2>3, <2>4, <2>5, <2>6, <2>7
<1>9. ASSUME NEW c \in Contactos, Conoce(c)
      PROVE  UNCHANGED <<difusion, optout, culpas, revivible, lotes, recibido, dudosos, perdido,
                         job, movido, contado, corte, rancio>>
  BY <1>9 DEF Conoce
<1>10. CASE GuardaContactos
  BY <1>10 DEF GuardaContactos
<1>11. CASE GuardaFallos
  BY <1>11 DEF GuardaFallos
<1>12. CASE \E k \in DOMAIN escribiendo : Aterriza(k)
  BY <1>12 DEF Aterriza
<1>13. ASSUME NEW ids, BlockedClear(ids)
       PROVE  UNCHANGED <<difusion, libreta, lotes, recibido, dudosos, perdido, job, movido,
                          contado, corte, rancio>>
  BY <1>13 DEF BlockedClear
<1>14. \A ids \in {Contactos} \cup {{c} : c \in {x \in Contactos : failures[x] > 0}} :
         ids \in SUBSET Contactos
  OBVIOUS
<1>15. CASE \E t \in Lotes : \/ Send(t) \/ FijaTotal(t) \/ Envia(t) \/ Resulta(t)
                             \/ Incr(t) \/ HubAbre(t) \/ HubEnvia(t)
  <2>1. PICK t \in Lotes : \/ Send(t) \/ FijaTotal(t) \/ Envia(t) \/ Resulta(t)
                           \/ Incr(t) \/ HubAbre(t) \/ HubEnvia(t)
    BY <1>15
  <2>2. /\ UNCHANGED <<difusion, libreta, contado, corte, rancio>>
        /\ Resulta(t) \/ UNCHANGED <<optout, culpas, revivible>>
    BY <1>8, <2>1
  <2> QED
    BY <1>15, <2>2
<1>16. CASE \E c \in Contactos : Conoce(c)
  BY <1>9, <1>16
<1>17. CASE \E ids \in {Contactos} \cup {{c} : c \in {x \in Contactos : failures[x] > 0}} :
              BlockedClear(ids)
  BY <1>13, <1>14, <1>17
<1> QED
  BY <1>1, <1>2, <1>3, <1>4, <1>5, <1>6, <1>7, <1>10, <1>11, <1>12, <1>15, <1>16, <1>17
     DEF Next
\* The types of the sending, by parts.
TiposLibreta ==
  contacts \in SUBSET Contactos /\ agenda \in SUBSET Contactos /\ contactsSaveTimer \in BOOLEAN
TiposFallos ==
  /\ failures \in [Contactos -> Nat] /\ guardados \in [Contactos -> Nat]
  /\ culpas \in [Contactos -> Nat]
  /\ escribiendo \in Seq([Contactos -> Nat])
TiposOptout ==
  /\ failuresLoaded \in BOOLEAN /\ failuresSaveTimer \in BOOLEAN
  /\ persistFailuresFn \in BOOLEAN /\ revivible \in BOOLEAN
TiposCorte ==
  /\ difusion \in Difusion /\ corte \in Seq(Contactos) /\ IsInjective(corte)
TiposJob ==
  /\ contado \in BOOLEAN /\ rancio \in BOOLEAN /\ movido \in BOOLEAN /\ perdido \in BOOLEAN
  /\ waTotal \in 0..NumContactos /\ waSent \in Nat /\ waFailed \in Nat
  /\ recibido \in [Contactos -> Nat] /\ dudosos \in Nat
TiposLotes == lotes \in [Lotes -> Lote] /\ \A t \in Lotes : LoteSano(lotes[t])
ServicioInv ==
  /\ SocketInv /\ TiposLibreta /\ TiposFallos /\ TiposOptout /\ TiposCorte /\ TiposJob
  /\ TiposLotes

\* The types of the service hold at the start.
LEMMA ServicioAlEmpezar == Init => ServicioInv
<1> SUFFICES ASSUME Init PROVE ServicioInv
  OBVIOUS
<1>1. TiposLibreta /\ TiposFallos /\ TiposOptout
  <2>1. escribiendo \in Seq([Contactos -> Nat])
    BY DEF Init, Nada
  <2>2. SinFallos \in [Contactos -> Nat]
    BY DEF SinFallos
  <2> QED
    BY <2>1, <2>2 DEF Init, TiposLibreta, TiposFallos, TiposOptout
<1>2. TiposCorte
  <2>1. difusion \in Difusion
    <3>1. cupo \in Cupos
      BY DEF Init, SocketInit
    <3> QED
      BY <3>1, ServiceAssumption DEF Init
  <2>2. corte = <<>>
    BY DEF Init
  <2> QED
    BY <2>1, <2>2 DEF TiposCorte, IsInjective
<1>3. TiposJob
  <2>1. 0 \in 0..NumContactos
    BY ServiceAssumption
  <2>2. SinFallos \in [Contactos -> Nat]
    BY DEF SinFallos
  <2> QED
    BY <2>1, <2>2 DEF Init, TiposJob
<1>4. TiposLotes
  <2>1. SinLote \in Lote
    BY DEF SinLote, Lote
  <2>2. \A t \in Lotes : lotes[t] = SinLote
    BY DEF Init
  <2>3. \A t \in Lotes : LoteSano(lotes[t])
    BY <2>2, ServiceAssumption DEF LoteSano, SinLote
  <2> QED
    BY <2>1, <2>3 DEF Init, TiposLotes
<1> QED
  BY <1>1, <1>2, <1>3, <1>4, TiposDelSocket DEF ServicioInv

\* Contacts, exclusions and lists keep their types.
LEMMA LibretaTipada ==
  ASSUME TiposLibreta, [Next]_vars
  PROVE  TiposLibreta'
<1> USE DEF TiposLibreta, libreta
<1>1. CASE UNCHANGED libreta
  BY <1>1
<1>2. ASSUME NEW c \in Contactos, Conoce(c) PROVE TiposLibreta'
  BY <1>2 DEF Conoce
<1>3. CASE GuardaContactos
  BY <1>3 DEF GuardaContactos
<1>4. CASE LimpiaServicio
  BY <1>4 DEF LimpiaServicio
<1>5. CASE CreaServicio
  BY <1>5 DEF CreaServicio
<1>6. CASE MuereServicio
  BY <1>6 DEF MuereServicio
<1> QED
  BY <1>1, <1>2, <1>3, <1>4, <1>5, <1>6, QuienToca

\* Once a write has landed, those that are left are others of those that were in flight.
LEMMA LasDemas ==
  ASSUME NEW S, escribiendo \in Seq(S), NEW k \in DOMAIN escribiendo
  PROVE  /\ SinLaDe(k) \in Seq(S) /\ escribiendo[k] \in S
         /\ \A j \in DOMAIN SinLaDe(k) : \E i \in DOMAIN escribiendo : SinLaDe(k)[j] = escribiendo[i]
<1> DEFINE n == Len(escribiendo) - 1
<1>1. n \in Nat /\ DOMAIN escribiendo = 1..(n + 1) /\ SinLaDe(k) = [j \in 1..n |->
        escribiendo[IF j < k THEN j ELSE j + 1]]
  BY DEF SinLaDe
<1>2. \A j \in 1..n : (IF j < k THEN j ELSE j + 1) \in 1..(n + 1)
  BY <1>1
<1>3. \A i \in 1..(n + 1) : escribiendo[i] \in S
  BY <1>1
<1> HIDE DEF n
<1>4. SinLaDe(k) \in [1..n -> S]
  BY <1>1, <1>2, <1>3
<1> QED
  BY <1>1, <1>2, <1>3, <1>4

\* So do the failures, in memory, stored and being written, and the opt-outs.
LEMMA FallosTipados ==
  ASSUME TiposFallos, TiposOptout, [Next]_vars
  PROVE  TiposFallos' /\ TiposOptout'
<1> USE DEF TiposFallos, TiposOptout, optout, Nada
<1>1. CASE UNCHANGED <<optout, culpas, revivible>>
  BY <1>1
<1>2. ASSUME NEW t \in Lotes, Resulta(t) PROVE TiposFallos' /\ TiposOptout'
  <2> DEFINE c == lotes[t].targets[lotes[t].i]
             k == IF lotes[t].abierto THEN 1 ELSE 0
  <2>1. \/ /\ failures' = [failures EXCEPT ![c] = 0]
           /\ failuresSaveTimer' = (failuresSaveTimer \/ failures[c] > 0)
           /\ UNCHANGED culpas
        \/ /\ failures' = [failures EXCEPT ![c] = @ + 1] /\ failuresSaveTimer' = TRUE
           /\ culpas' = [culpas EXCEPT ![c] = @ + k]
    BY <1>2 DEF Resulta, Limpio
  <2>2. UNCHANGED <<guardados, escribiendo, failuresLoaded, persistFailuresFn, revivible>>
    BY <1>2 DEF Resulta
  <2>3. k \in Nat
    OBVIOUS
  <2> HIDE DEF c, k
  <2>6. failures \in [Contactos -> Nat] /\ culpas \in [Contactos -> Nat]
    OBVIOUS
  <2>4. failures' \in [Contactos -> Nat] /\ culpas' \in [Contactos -> Nat]
    BY ONLY <2>1, <2>3, <2>6
  <2>5. failuresSaveTimer' \in BOOLEAN
    BY <2>1
  <2> QED
    BY <2>2, <2>4, <2>5
<1>3. CASE GuardaFallos
  <2>1. failures \in [Contactos -> Nat] /\ escribiendo \in Seq([Contactos -> Nat])
    OBVIOUS
  <2>2. Append(escribiendo, failures) \in Seq([Contactos -> Nat])
    BY ONLY <2>1, AppendProperties
  <2> QED
    BY <1>3, <2>2 DEF GuardaFallos
<1>4. ASSUME NEW k \in DOMAIN escribiendo, Aterriza(k) PROVE TiposFallos' /\ TiposOptout'
  BY <1>4, LasDemas DEF Aterriza
<1>5. ASSUME NEW ids \in SUBSET Contactos, BlockedClear(ids) PROVE TiposFallos' /\ TiposOptout'
  <2>1. Sin(failures, ids) \in [Contactos -> Nat] /\ Sin(culpas, ids) \in [Contactos -> Nat]
    BY DEF Sin
  <2>2. /\ failures' = Sin(failures, ids) /\ culpas' = Sin(culpas, ids)
        /\ failuresSaveTimer' = FALSE
        /\ UNCHANGED <<failuresLoaded, persistFailuresFn, escribiendo>>
    BY <1>5 DEF BlockedClear
  <2>3. guardados' \in {guardados, failures'} /\ revivible' \in BOOLEAN
    BY <1>5 DEF BlockedClear, flushFailures
  <2> QED
    BY <2>1, <2>2, <2>3
<1>6. CASE LimpiaServicio
  BY <1>6 DEF LimpiaServicio, SinFallos
<1>7. CASE CreaServicio
  <2>1. ConGuardados \in [Contactos -> Nat]
    BY DEF ConGuardados
  <2>2. failures' \in {failures, ConGuardados}
    BY <1>7 DEF CreaServicio
  <2>3. /\ UNCHANGED <<guardados, culpas, escribiendo, failuresSaveTimer, revivible>>
        /\ failuresLoaded' \in BOOLEAN /\ persistFailuresFn' \in BOOLEAN
    BY <1>7 DEF CreaServicio
  <2> QED
    BY <2>1, <2>2, <2>3
<1>8. CASE MuereServicio
  <2>1. \A m \in Range(escribiendo) : m \in [Contactos -> Nat]
    <3>1. escribiendo \in Seq([Contactos -> Nat])
      OBVIOUS
    <3> QED
      BY ONLY <3>1 DEF Range
  <2>2. SinFallos \in [Contactos -> Nat]
    BY DEF SinFallos
  <2>3. guardados' \in [Contactos -> Nat] /\ escribiendo' \in Seq([Contactos -> Nat])
    BY <1>8, <2>1 DEF MuereServicio
  <2> QED
    BY <1>8, <2>2, <2>3 DEF MuereServicio
<1> QED
  BY <1>1, <1>2, <1>3, <1>4, <1>5, <1>6, <1>7, <1>8, QuienToca

\* So do the targets counted.
LEMMA CorteTipado ==
  ASSUME TiposCorte, TiposLibreta, [Next]_vars
  PROVE  TiposCorte'
<1>1. difusion' = difusion /\ (corte' = corte \/ Cuenta)
  BY QuienToca
<1>2. CASE Cuenta
  <2>1. corte' = destinos \/ corte' = resolverTargets
    BY <1>2 DEF Cuenta, Resueltos
  <2>2. difusion.listas \in Seq(Contactos)
    BY DEF TiposCorte, Difusion
  <2>3. contacts \subseteq Contactos /\ NumContactos \in Nat
    BY ServiceAssumption DEF TiposLibreta
  <2> QED
    BY <1>1, <2>1, <2>2, <2>3, ResolverTargetsBien, DestinosBien DEF TiposCorte
<1> QED
  BY <1>1, <1>2 DEF TiposCorte

\* Counting one more for a contact keeps a count a number.
LEMMA SumaUno ==
  ASSUME NEW f \in [Contactos -> Nat], NEW c
  PROVE  [f EXCEPT ![c] = @ + 1] \in [Contactos -> Nat]
<1>1. c \in Contactos => f[c] + 1 \in Nat
  OBVIOUS
<1>2. \A x \in Contactos : [f EXCEPT ![c] = @ + 1][x] \in Nat
  BY <1>1
<1> QED
  BY <1>2

\* The slices of a broadcast are finitely many.
LEMMA LotesFinitos == IsFiniteSet(Lotes)
<1> DEFINE n == (NumContactos + BatchSize - 1) \div BatchSize
<1>1. n \in Int
  BY ServiceAssumption
<1> HIDE DEF n
<1>2. IsFiniteSet(1..n)
  BY <1>1, FS_Interval
<1> QED
  BY <1>2 DEF Lotes, n

\* The counters of the job keep their types.
LEMMA JobTipado ==
  ASSUME TiposJob, TiposCorte, TiposLotes, [Next]_vars
  PROVE  TiposJob'
<1> USE DEF TiposJob, job
<1>1. UNCHANGED contado \/ contado' = TRUE
  BY QuienToca DEF Cuenta
<1>2. UNCHANGED rancio \/ rancio' \in BOOLEAN
  BY QuienToca DEF ArrancaServicio
<1>3. CASE UNCHANGED <<lotes, recibido, dudosos, perdido, job, movido>>
  BY <1>1, <1>2, <1>3
<1>4. ASSUME NEW t \in Lotes,
             \/ Send(t) \/ FijaTotal(t) \/ Envia(t) \/ Resulta(t) \/ Incr(t)
             \/ HubAbre(t) \/ HubEnvia(t)
      PROVE  TiposJob'
  <2> DEFINE c == lotes[t].targets[lotes[t].i]
  <2>1. [recibido EXCEPT ![c] = @ + 1] \in [Contactos -> Nat] /\ dudosos + 1 \in Nat
    BY SumaUno
  <2>2. CASE Send(t)
    <3>1. UNCHANGED <<recibido, dudosos, perdido, job>> /\ movido' \in BOOLEAN
      BY <2>2 DEF Send
    <3> QED
      BY <1>1, <1>2, <3>1
  <2>3. CASE FijaTotal(t)
    <3>1. Len(corte) \in 0..NumContactos
      BY LargoAcotado, ServiceAssumption DEF TiposCorte
    <3>2. /\ UNCHANGED <<recibido, dudosos, perdido, movido, waSent, waFailed>>
          /\ waTotal' \in {waTotal, Len(corte)}
      BY <2>3 DEF FijaTotal, cortes
    <3> QED
      BY <1>1, <1>2, <3>1, <3>2
  <2>4. CASE Envia(t)
    BY <1>1, <1>2, <2>4 DEF Envia, cortes
  <2>5. CASE Resulta(t)
    <3>1. /\ UNCHANGED <<perdido, movido, job>>
          /\ recibido' \in {recibido, [recibido EXCEPT ![c] = @ + 1]}
          /\ dudosos' \in {dudosos, dudosos + 1}
      BY <2>5 DEF Resulta, cortes
    <3> QED
      BY <1>1, <1>2, <2>1, <3>1
  <2>6. CASE Incr(t)
    <3>1. lotes[t].dS \in Nat /\ lotes[t].dF \in Nat
      BY DEF TiposLotes, Lote
    <3>2. /\ UNCHANGED <<recibido, dudosos, movido, waTotal>>
          /\ \/ perdido' = perdido /\ waSent' = waSent + lotes[t].dS
                /\ waFailed' = waFailed + lotes[t].dF
             \/ perdido' = TRUE /\ UNCHANGED <<waSent, waFailed>>
      BY <2>6 DEF Incr, cortes
    <3>3. waSent' \in Nat /\ waFailed' \in Nat
      BY <3>1, <3>2
    <3>4. perdido' \in BOOLEAN
      BY <3>2
    <3> QED
      BY <1>1, <1>2, <3>2, <3>3, <3>4
  <2>7. CASE HubAbre(t)
    BY <1>1, <1>2, <2>7 DEF HubAbre, cortes
  <2>8. CASE HubEnvia(t)
    <3>1. /\ UNCHANGED <<perdido, movido, job>>
          /\ recibido' \in {recibido, [recibido EXCEPT ![c] = @ + 1]}
          /\ dudosos' \in {dudosos, dudosos + 1}
      BY <2>8 DEF HubEnvia, cortes
    <3> QED
      BY <1>1, <1>2, <2>1, <3>1
  <2> QED
    BY <1>4, <2>2, <2>3, <2>4, <2>5, <2>6, <2>7, <2>8
<1>5. CASE MuereServicio
  <2>1. UNCHANGED <<movido, job>>
    BY <1>5 DEF MuereServicio, cortes
  <2>2. CASE difusion.via = "hub"
    BY <1>1, <1>2, <1>5, <2>1, <2>2 DEF MuereServicio
  <2>3. CASE difusion.via # "hub"
    <3> DEFINE suyos(L, c) == {t \in L : lotes[t].targets[lotes[t].i] = c}
    <3>1. /\ perdido' \in BOOLEAN
          /\ \E L \in SUBSET EnVuelo :
               /\ recibido' = [c \in Contactos |-> recibido[c] + Cardinality(suyos(L, c))]
               /\ dudosos' = dudosos + Cardinality(L)
      BY <1>5, <2>3 DEF MuereServicio
    <3>2. PICK L \in SUBSET EnVuelo :
               /\ recibido' = [c \in Contactos |-> recibido[c] + Cardinality(suyos(L, c))]
               /\ dudosos' = dudosos + Cardinality(L)
      BY <3>1
    <3>3. IsFiniteSet(L)
      BY LotesFinitos, FS_Subset DEF EnVuelo
    <3>4. Cardinality(L) \in Nat
      BY <3>3, FS_CardinalityType
    <3>5. \A c \in Contactos : Cardinality(suyos(L, c)) \in Nat
      <4> SUFFICES ASSUME NEW c \in Contactos PROVE Cardinality(suyos(L, c)) \in Nat
        OBVIOUS
      <4>1. suyos(L, c) \in SUBSET L
        OBVIOUS
      <4> QED
        BY <3>3, <4>1, FS_Subset, FS_CardinalityType
    <3> HIDE DEF suyos
    <3>6. recibido' \in [Contactos -> Nat]
      BY <3>2, <3>5
    <3>7. dudosos' \in Nat
      BY <3>2, <3>4
    <3> QED
      BY <1>1, <1>2, <2>1, <3>1, <3>6, <3>7
  <2> QED
    BY <2>2, <2>3
<1> QED
  BY <1>3, <1>4, <1>5, QuienToca

\* A slice replaced by a sound one leaves the slices well typed.
LEMMA PonLoteSano ==
  ASSUME TiposLotes, NEW t \in Lotes, NEW r \in Lote, LoteSano(r), PonLote(t, r)
  PROVE  TiposLotes'
<1>1. lotes' = [lotes EXCEPT ![t] = r]
  BY DEF PonLote
<1>2. lotes' \in [Lotes -> Lote]
  BY <1>1 DEF TiposLotes
<1>3. \A u \in Lotes : lotes'[u] = IF u = t THEN r ELSE lotes[u]
  BY <1>1 DEF TiposLotes
<1>4. \A u \in Lotes : LoteSano(lotes'[u])
  BY <1>3 DEF TiposLotes
<1> QED
  BY <1>2, <1>4 DEF TiposLotes

\* The fields of SinLote, and those of a slice as it begins.
LEMMA SinLoteEsLote ==
  /\ SinLote \in Lote /\ LoteSano(SinLote)
  /\ SinLote.en = "no" /\ SinLote.i = 1 /\ SinLote.dS = 0 /\ SinLote.dF = 0
  /\ SinLote.targets = <<>> /\ SinLote.abierto = FALSE
<1>1. SinLote \in Lote
  BY DEF SinLote, Lote
<1>2. /\ SinLote.en = "no" /\ SinLote.i = 1 /\ SinLote.dS = 0 /\ SinLote.dF = 0
      /\ SinLote.targets = <<>> /\ SinLote.abierto = FALSE
  BY DEF SinLote
<1>3. Cada \in Nat \ {0}
  BY ServiceAssumption
<1>4. LoteSano(SinLote)
  BY <1>2, <1>3 DEF LoteSano
<1> QED
  BY <1>1, <1>2, <1>4

\* A slice that has sent nothing yet is sound.
LEMMA LoteNuevo ==
  ASSUME NEW r \in Lote, r.en # "no", r.en # "vuelo", r.i = 1, r.dS = 0, r.dF = 0
  PROVE  LoteSano(r)
<1>1. Cada \in Nat \ {0}
  BY ServiceAssumption
<1> QED
  BY <1>1 DEF LoteSano

\* A slice that goes from one await to another, where a message is not on its way.
LEMMA LotePasa ==
  ASSUME NEW r \in Lote, LoteSano(r), NEW en \in {"envia", "resto", "fin"},
         r.en = "no" => en = "fin",
         en = "envia" => r.en = "total"
  PROVE  [r EXCEPT !.en = en] \in Lote /\ LoteSano([r EXCEPT !.en = en])
<1> DEFINE q == [r EXCEPT !.en = en]
<1>1. /\ q.en = en /\ q.gen = r.gen /\ q.targets = r.targets /\ q.i = r.i /\ q.dS = r.dS
      /\ q.dF = r.dF /\ q.abierto = r.abierto
  BY DEF Lote
<1>2. q \in Lote
  BY DEF Lote
<1> HIDE DEF q
<1>3. LoteSano(q)
  BY <1>1 DEF LoteSano
<1> QED
  BY <1>2, <1>3 DEF q

\* The slices keep their types, and never owe more than one report.
LEMMA LotesTipados ==
  ASSUME ServicioInv, [Next]_vars
  PROVE  TiposLotes'
<1> USE DEF ServicioInv
<1>2. ASSUME UNCHANGED lotes PROVE TiposLotes'
  BY <1>2 DEF TiposLotes
<1>3. gen \in Nat /\ corte \in Seq(Contactos) /\ Len(corte) \in Nat
  BY DEF SocketInv, SocketTypeOK, TiposCorte
<1>4. BatchSize \in Nat \ {0} /\ Cada \in Nat \ {0} /\ NumContactos \in Nat
  BY ServiceAssumption
<1>5. ASSUME NEW t \in Lotes, Send(t) PROVE TiposLotes'
  <2> DEFINE s == Slice(resolverTargets, t)
             en == IF Offset(t) = 0 THEN "total" ELSE "envia"
  <2>1. s \in Seq(Contactos)
    BY <1>3, <1>4, ResolverTargetsBien, SliceDeContactos DEF TiposLibreta
  <2>2. CASE connected # 0 /\ sock # "null"
    <3>1. PonLote(t, [SinLote EXCEPT !.en = en, !.gen = gen, !.targets = s])
      BY <1>5, <2>2 DEF Send
    <3>2. en \in {"total", "envia"}
      OBVIOUS
    <3> DEFINE r == [SinLote EXCEPT !.en = en, !.gen = gen, !.targets = s]
    <3> HIDE DEF s, en
    <3>3. r \in Lote /\ r.en = en /\ r.i = 1 /\ r.dS = 0 /\ r.dF = 0
      BY <1>3, <2>1, <3>2, SinLoteEsLote DEF Lote
    <3> HIDE DEF r
    <3>4. LoteSano(r)
      BY <3>2, <3>3, LoteNuevo
    <3> QED
      BY <3>1, <3>3, <3>4, PonLoteSano DEF r
  <2>3. CASE ~(connected # 0 /\ sock # "null")
    <3>1. PonLote(t, [lotes[t] EXCEPT !.en = "fin"])
      BY <1>5, <2>3 DEF Send, Pasa
    <3>2. lotes[t] \in Lote /\ LoteSano(lotes[t])
      BY DEF TiposLotes
    <3> QED
      BY <3>1, <3>2, LotePasa, PonLoteSano
  <2> QED
    BY <2>2, <2>3
<1>6. ASSUME NEW t \in Lotes, FijaTotal(t) PROVE TiposLotes'
  <2>1. PonLote(t, [lotes[t] EXCEPT !.en = "envia"]) /\ lotes[t].en = "total"
    BY <1>6 DEF FijaTotal, Pasa
  <2>2. lotes[t] \in Lote /\ LoteSano(lotes[t])
    BY DEF TiposLotes
  <2> QED
    BY <2>1, <2>2, LotePasa, PonLoteSano
<1>7. ASSUME NEW t \in Lotes, Envia(t) PROVE TiposLotes'
  <2>1. lotes[t] \in Lote /\ LoteSano(lotes[t]) /\ lotes[t].en = "envia"
    BY <1>7 DEF TiposLotes, Envia
  <2>2. CASE lotes[t].i > Len(lotes[t].targets) \/ Aborta(t)
    <3>1. PonLote(t, [lotes[t] EXCEPT !.en = "resto"])
      BY <1>7, <2>2 DEF Envia, Pasa
    <3> QED
      BY <2>1, <3>1, LotePasa, PonLoteSano
  <2>3. CASE ~(lotes[t].i > Len(lotes[t].targets) \/ Aborta(t))
    <3> DEFINE r == lotes[t]
               q == [r EXCEPT !.en = "vuelo", !.abierto = Actual(t)]
    <3>1. PonLote(t, q) /\ difusion.via = "propio"
      BY <1>7, <2>3 DEF Envia
    <3>2. Actual(t) \in BOOLEAN
      BY DEF Actual
    <3>3. /\ q.en = "vuelo" /\ q.gen = r.gen /\ q.targets = r.targets /\ q.i = r.i
          /\ q.dS = r.dS /\ q.dF = r.dF /\ q.abierto = Actual(t)
      BY <2>1 DEF Lote
    <3>4. q \in Lote
      BY <2>1, <3>2 DEF Lote
    <3>5. r.i <= Len(r.targets)
      BY <2>1, <2>3 DEF Lote
    <3> HIDE DEF q
    <3>6. LoteSano(q)
      BY <2>1, <3>1, <3>3, <3>5 DEF LoteSano
    <3> QED
      BY <3>1, <3>4, <3>6, PonLoteSano
  <2> QED
    BY <2>2, <2>3
<1>8. ASSUME NEW t \in Lotes, Resulta(t) PROVE TiposLotes'
  <2>1. lotes[t] \in Lote /\ LoteSano(lotes[t]) /\ lotes[t].en = "vuelo"
    BY <1>8 DEF TiposLotes, Resulta
  <2>2. PICK s \in {0, 1} : Contado(t, s, 1 - s)
    <3>1. Contado(t, 1, 0) \/ Contado(t, 0, 1)
      BY <1>8 DEF Resulta
    <3> QED
      BY <3>1
  <2> DEFINE r == lotes[t]
             f == 1 - s
             en == IF r.dS + s + r.dF + f >= Cada THEN "reporta" ELSE "envia"
             q == [r EXCEPT !.i = @ + 1, !.dS = @ + s, !.dF = @ + f, !.abierto = FALSE,
                            !.en = en]
  <2>3. PonLote(t, q)
    BY <2>2 DEF Contado
  <2>4. f \in {0, 1} /\ s + f = 1
    OBVIOUS
  <2>5. r.i \in Nat /\ r.dS \in Nat /\ r.dF \in Nat /\ r.dS + r.dF < Cada
    BY <2>1 DEF Lote, LoteSano
  <2>6. r.i + 1 \in Nat /\ r.dS + s \in Nat /\ r.dF + f \in Nat
    BY <2>4, <2>5
  <2>7. en \in {"reporta", "envia"}
    OBVIOUS
  <2>8. en = "envia" => (r.dS + s) + (r.dF + f) < Cada
    BY <1>4, <2>4, <2>5
  <2>9. (r.dS + s) + (r.dF + f) <= Cada
    BY <1>4, <2>4, <2>5
  <2> HIDE DEF en, f
  <2>10. /\ q.en = en /\ q.i = r.i + 1 /\ q.dS = r.dS + s /\ q.dF = r.dF + f
         /\ q.targets = r.targets
    BY <2>1 DEF Lote
  <2>11. q \in Lote
    BY <2>1, <2>6, <2>7 DEF Lote
  <2> HIDE DEF q
  <2>12. LoteSano(q)
    BY <2>5, <2>7, <2>8, <2>9, <2>10 DEF LoteSano
  <2> HIDE DEF q
  <2> QED
    BY <2>3, <2>11, <2>12, PonLoteSano
<1>9. ASSUME NEW t \in Lotes, Incr(t) PROVE TiposLotes'
  <2>1. lotes[t] \in Lote /\ LoteSano(lotes[t]) /\ lotes[t].en \in {"reporta", "resto"}
    BY <1>9 DEF TiposLotes, Incr
  <2> DEFINE r == lotes[t]
             q == Reportado(t)
  <2>2. PonLote(t, q)
    BY <1>9 DEF Incr
  <2>3. /\ q.en = IF r.en = "reporta" THEN "envia" ELSE "fin"
        /\ q.targets = r.targets /\ q.i = r.i /\ q.dS = 0 /\ q.dF = 0
    BY <2>1 DEF Reportado, Lote
  <2>4. q \in Lote
    BY <2>1 DEF Reportado, Lote
  <2> HIDE DEF q
  <2>5. LoteSano(q)
    BY <1>4, <2>1, <2>3 DEF LoteSano
  <2> QED
    BY <2>2, <2>4, <2>5, PonLoteSano
<1>10. ASSUME NEW t \in Lotes, HubAbre(t) PROVE TiposLotes'
  <2> DEFINE s == Slice(destinos, t)
  <2>1. s \in Seq(Contactos)
    BY <1>3, <1>4, DestinosBien, SliceDeContactos DEF TiposCorte, Difusion
  <2>2. PonLote(t, [SinLote EXCEPT !.en = "envia", !.targets = s])
    BY <1>10 DEF HubAbre
  <2> DEFINE r == [SinLote EXCEPT !.en = "envia", !.targets = s]
  <2> HIDE DEF s
  <2>3. r \in Lote /\ r.en = "envia" /\ r.i = 1 /\ r.dS = 0 /\ r.dF = 0
    BY <2>1, SinLoteEsLote DEF Lote
  <2> HIDE DEF r
  <2>4. LoteSano(r)
    BY <2>3, LoteNuevo
  <2> QED
    BY <2>2, <2>3, <2>4, PonLoteSano DEF r
<1>11. ASSUME NEW t \in Lotes, HubEnvia(t) PROVE TiposLotes'
  <2>1. lotes[t] \in Lote /\ LoteSano(lotes[t]) /\ lotes[t].en = "envia"
    BY <1>11 DEF TiposLotes, HubEnvia
  <2> DEFINE r == lotes[t]
             q(en) == [r EXCEPT !.i = @ + 1, !.en = en]
             p == [r EXCEPT !.i = @ + 1]
  <2>2. \/ PonLote(t, [r EXCEPT !.en = "fin"]) \/ PonLote(t, p)
        \/ \E en \in {"envia", "fin"} : PonLote(t, q(en))
    BY <1>11 DEF HubEnvia, Pasa
  <2>3. r.i \in Nat
    BY <2>1 DEF Lote
  <2>4. ASSUME NEW en \in {"envia", "fin"} PROVE q(en) \in Lote /\ LoteSano(q(en))
    <3>1. /\ q(en).en = en /\ q(en).i = r.i + 1 /\ q(en).dS = r.dS /\ q(en).dF = r.dF
          /\ q(en).targets = r.targets
      BY <2>1 DEF Lote
    <3>2. q(en) \in Lote
      <4>1. r.i + 1 \in Nat
        BY <2>3
      <4>2. [r EXCEPT !.i = @ + 1] \in Lote
        BY <2>1, <4>1 DEF Lote
      <4> QED
        BY <2>1, <4>1, <4>2 DEF Lote
    <3> HIDE DEF q
    <3>3. LoteSano(q(en))
      BY <2>1, <2>3, <3>1 DEF LoteSano
    <3> QED
      BY <3>2, <3>3
  <2>5. p \in Lote /\ LoteSano(p)
    <3>1. p.en = "envia" /\ p.i = r.i + 1 /\ p.dS = r.dS /\ p.dF = r.dF
      BY <2>1 DEF Lote
    <3>2. p \in Lote
      BY <2>1, <2>3 DEF Lote
    <3> HIDE DEF p
    <3>3. LoteSano(p)
      BY <2>1, <2>3, <3>1 DEF LoteSano
    <3> QED
      BY <3>2, <3>3
  <2> HIDE DEF q, p
  <2> QED
    BY <2>1, <2>2, <2>4, <2>5, LotePasa, PonLoteSano
<1>12. CASE MuereServicio
  <2>1. CASE UNCHANGED lotes
    BY <1>2, <2>1
  <2>2. CASE lotes' = [t \in Lotes |-> IF lotes[t].en = "no" THEN lotes[t]
                                       ELSE [SinLote EXCEPT !.en = "fin"]]
    <3> DEFINE q == [SinLote EXCEPT !.en = "fin"]
    <3>1. q \in Lote /\ LoteSano(q)
      BY SinLoteEsLote, LotePasa
    <3> HIDE DEF q
    <3>2. lotes' \in [Lotes -> Lote]
      BY <2>2, <3>1 DEF TiposLotes, q
    <3>3. \A t \in Lotes : lotes'[t] \in {lotes[t], q}
      BY <2>2 DEF q
    <3>4. \A t \in Lotes : LoteSano(lotes'[t])
      BY <3>1, <3>3 DEF TiposLotes
    <3> QED
      BY <3>2, <3>4 DEF TiposLotes
  <2> QED
    BY <1>12, <2>1, <2>2 DEF MuereServicio
<1> QED
  BY <1>2, <1>5, <1>6, <1>7, <1>8, <1>9, <1>10, <1>11, <1>12, QuienToca

\* All the parts together are kept.
LEMMA ServicioSeMantiene ==
  ASSUME ServicioInv, [Next]_vars
  PROVE  ServicioInv'
<1>1. SocketInv' /\ TiposLibreta' /\ TiposFallos' /\ TiposOptout'
  BY SocketTipado, LibretaTipada, FallosTipados DEF ServicioInv
<1>2. TiposCorte' /\ TiposJob' /\ TiposLotes'
  BY CorteTipado, JobTipado, LotesTipados DEF ServicioInv
<1> QED
  BY <1>1, <1>2 DEF ServicioInv

\* Every variable of the service and of the broadcast keeps its type: among them, the
\* targets that /count counts are distinct contacts, and a slice never owes to the job more
\* than one report.
THEOREM WhatsAppTypes == Spec => []TypeOK
<1>1. Init => ServicioInv
  BY ServicioAlEmpezar
<1>2. ServicioInv /\ [Next]_vars => ServicioInv'
  BY ServicioSeMantiene
<1>3. ServicioInv => TypeOK
  <2> SUFFICES ASSUME ServicioInv PROVE TypeOK
    OBVIOUS
  <2>1. SocketTypeOK
    BY DEF ServicioInv, SocketInv
  <2>3. lotes \in [Lotes -> Lote] /\ \A t \in Lotes : lotes[t].dS + lotes[t].dF <= Cada
    BY DEF ServicioInv, TiposLotes, LoteSano
  <2> QED
    BY <2>1, <2>3
       DEF ServicioInv, TypeOK, TiposLibreta, TiposFallos, TiposOptout, TiposCorte, TiposJob
<1> QED
  BY <1>1, <1>2, <1>3, PTL DEF Spec
-----------------------------------------------------------------------------
(* The failures.                                                           *)

\* The flag of the connection stays true to the socket until one is replaced.
LEMMA RancioAbierto ==
  ASSUME ServicioInv, CodigoInv, RancioInv, [Next]_vars, ~rancio'
  PROVE  ~rancio /\ (connected' # 0 => sock' = "abierto")
<1> USE DEF socket, par, timers, avisos, arranque, qrs, dynamo, restart
<1>1. ~rancio
  BY QuienToca DEF ArrancaServicio
<1>2. (connected # 0 => sock = "abierto") /\ (fase # "nada" => sock = "null")
  BY <1>1 DEF RancioInv, CodigoInv
<1> SUFFICES connected' # 0 => sock' = "abierto"
  BY <1>1
<1>3. CASE ArrancaServicio
  BY <1>3 DEF ArrancaServicio, Arranca
<1>4. CASE Limpia \/ SinSocket
  BY <1>2, <1>4 DEF Limpia, SinSocket
<1>5. CASE Crea
  BY <1>2, <1>5 DEF Crea
<1>6. CASE Muere
  BY <1>6 DEF Muere
<1>7. CASE SocketPaso
  BY <1>2, <1>7 DEF SocketPaso, Lee, Reconecta, PideCodigo, LlegaQR, QRPintado, Vincula, Abre,
       Telefono,
     OtroVincula, Reconnect, Reset, CodigoRespondido, Cierra, Pair, PairRechazado,
     PairResponde, PairFalla, Espera
<1> QED
  BY <1>3, <1>4, <1>5, <1>6, <1>7, PasoDelSocket

\* Messages leave only on an open socket, as long as none was replaced connected.
LEMMA RancioSeMantiene ==
  ASSUME ServicioInv, CodigoInv, RancioInv, [Next]_vars
  PROVE  RancioInv'
<1> SUFFICES ASSUME ~rancio' PROVE RancioInv'
  BY DEF RancioInv
<1>1. ~rancio /\ (connected' # 0 => sock' = "abierto")
  BY RancioAbierto
<1>2. \A t \in Lotes : lotes[t].en = "vuelo" => lotes[t].abierto
  BY <1>1 DEF RancioInv
<1>3. connected # 0 => sock = "abierto"
  BY <1>1 DEF RancioInv
<1>4. lotes \in [Lotes -> Lote]
  BY DEF ServicioInv, TiposLotes
<1> DEFINE EnElAire(r) == r.en = "vuelo" => r.abierto
<1>5. ASSUME NEW t \in Lotes, NEW r, EnElAire(r), PonLote(t, r)
      PROVE  \A u \in Lotes : EnElAire(lotes'[u])
  <2>1. \A u \in Lotes : lotes'[u] = IF u = t THEN r ELSE lotes[u]
    BY <1>4, <1>5 DEF PonLote
  <2> QED
    BY <1>2, <1>5, <2>1
<1>6. ASSUME NEW t \in Lotes, NEW en \in {"envia", "resto", "fin"}, Pasa(t, en)
      PROVE  \A u \in Lotes : EnElAire(lotes'[u])
  <2> DEFINE q == [lotes[t] EXCEPT !.en = en]
  <2>1. PonLote(t, q)
    BY <1>6 DEF Pasa
  <2>2. q.en # "vuelo"
    BY <1>4 DEF Lote
  <2> HIDE DEF q
  <2> QED
    BY <1>5, <2>1, <2>2
<1>7. ASSUME NEW t \in Lotes,
             \/ Send(t) \/ FijaTotal(t) \/ Envia(t) \/ Resulta(t) \/ Incr(t)
             \/ HubAbre(t) \/ HubEnvia(t)
      PROVE  \A u \in Lotes : EnElAire(lotes'[u])
  <2>0. lotes[t] \in Lote
    BY <1>4
  <2>1. CASE Send(t)
    <3> DEFINE q == [SinLote EXCEPT !.en = IF Offset(t) = 0 THEN "total" ELSE "envia",
                                    !.gen = gen, !.targets = Slice(resolverTargets, t)]
    <3>1. PonLote(t, q) \/ Pasa(t, "fin")
      BY <2>1 DEF Send
    <3>2. q.en # "vuelo"
      BY SinLoteEsLote DEF Lote
    <3> HIDE DEF q
    <3> QED
      BY <1>5, <1>6, <3>1, <3>2
  <2>2. CASE FijaTotal(t)
    BY <1>6, <2>2 DEF FijaTotal
  <2>3. CASE Envia(t)
    <3> DEFINE q == [lotes[t] EXCEPT !.en = "vuelo", !.abierto = Actual(t)]
    <3>1. CASE Aborta(t) \/ Pasa(t, "resto")
      BY <1>6, <2>3, <3>1 DEF Envia
    <3>2. CASE ~Aborta(t) /\ PonLote(t, q)
      <4>1. Actual(t)
        BY <1>3, <3>2 DEF Aborta, Actual
      <4>2. q.abierto = Actual(t)
        BY <2>0 DEF Lote
      <4> HIDE DEF q
      <4> QED
        BY <1>5, <3>2, <4>1, <4>2
    <3> QED
      BY <2>3, <3>1, <3>2 DEF Envia
  <2>4. CASE Resulta(t)
    <3>1. PICK s \in {0, 1}, f \in {0, 1} : Contado(t, s, f)
      BY <2>4 DEF Resulta
    <3> DEFINE r == lotes[t]
               en == IF r.dS + s + r.dF + f >= Cada THEN "reporta" ELSE "envia"
               q == [r EXCEPT !.i = @ + 1, !.dS = @ + s, !.dF = @ + f, !.abierto = FALSE,
                              !.en = en]
    <3>2. PonLote(t, q)
      BY <3>1 DEF Contado
    <3>3. en # "vuelo"
      OBVIOUS
    <3> HIDE DEF en
    <3>4. q.en = en
      BY <2>0 DEF Lote
    <3> HIDE DEF q
    <3> QED
      BY <1>5, <3>2, <3>3, <3>4
  <2>5. CASE Incr(t)
    <3>1. PonLote(t, Reportado(t)) /\ lotes[t].en \in {"reporta", "resto"}
      BY <2>5 DEF Incr
    <3>2. Reportado(t).en # "vuelo"
      BY <2>0 DEF Reportado, Lote
    <3> QED
      BY <1>5, <3>1, <3>2
  <2>6. CASE HubAbre(t)
    <3> DEFINE q == [SinLote EXCEPT !.en = "envia", !.targets = Slice(destinos, t)]
    <3>1. PonLote(t, q)
      BY <2>6 DEF HubAbre
    <3>2. q.en # "vuelo"
      BY SinLoteEsLote DEF Lote
    <3> HIDE DEF q
    <3> QED
      BY <1>5, <3>1, <3>2
  <2>7. CASE HubEnvia(t)
    <3> DEFINE p == [lotes[t] EXCEPT !.i = @ + 1]
               q(en) == [lotes[t] EXCEPT !.i = @ + 1, !.en = en]
    <3>1. \/ PonLote(t, p) \/ Pasa(t, "fin")
          \/ \E en \in {"envia", "fin"} : PonLote(t, q(en))
      BY <2>7 DEF HubEnvia
    <3>2. lotes[t].en = "envia"
      BY <2>7 DEF HubEnvia
    <3>3. p.en # "vuelo" /\ \A en \in {"envia", "fin"} : q(en).en # "vuelo"
      BY <2>0, <3>2 DEF Lote
    <3> HIDE DEF p, q
    <3> QED
      BY <1>5, <1>6, <3>1, <3>3
  <2> QED
    BY <1>7, <2>1, <2>2, <2>3, <2>4, <2>5, <2>6, <2>7
<1>8. ASSUME MuereServicio PROVE \A u \in Lotes : EnElAire(lotes'[u])
  <2> DEFINE q == [SinLote EXCEPT !.en = "fin"]
  <2>1. \/ UNCHANGED lotes
        \/ lotes' = [t \in Lotes |-> IF lotes[t].en = "no" THEN lotes[t] ELSE q]
    BY <1>8 DEF MuereServicio
  <2>2. q.en # "vuelo"
    BY SinLoteEsLote DEF Lote
  <2> HIDE DEF q
  <2> QED
    BY <1>2, <2>1, <2>2
<1>9. \A u \in Lotes : EnElAire(lotes'[u])
  BY <1>2, <1>7, <1>8, QuienToca
<1>10. fase' # "nada" => sock' = "null"
  BY CodigoSeMantiene DEF ServicioInv, CodigoInv
<1> QED
  BY <1>1, <1>9, <1>10 DEF RancioInv

\* A failure is counted only against the contact to blame, wherever the count is.
LEMMA FallosSeMantienen ==
  ASSUME ServicioInv, RancioInv, FallosInv, [Next]_vars
  PROVE  FallosInv'
<1> SUFFICES ASSUME ~rancio', ~revivible', NEW c \in Contactos
             PROVE  /\ failures'[c] <= culpas'[c] /\ guardados'[c] <= culpas'[c]
                    /\ \A k \in DOMAIN escribiendo' : escribiendo'[k][c] <= culpas'[c]
  BY DEF FallosInv
<1>1. ~rancio
  BY QuienToca DEF ArrancaServicio
<1>2. TiposFallos
  BY DEF ServicioInv
<1> DEFINE Antes == /\ failures[c] <= culpas[c] /\ guardados[c] <= culpas[c]
                    /\ \A k \in DOMAIN escribiendo : escribiendo[k][c] <= culpas[c]
           Despues == /\ failures'[c] <= culpas'[c] /\ guardados'[c] <= culpas'[c]
                      /\ \A k \in DOMAIN escribiendo' : escribiendo'[k][c] <= culpas'[c]
<1>3. ~revivible => Antes
  BY <1>1 DEF FallosInv
<1>4. failures[c] \in Nat /\ guardados[c] \in Nat /\ culpas[c] \in Nat
  BY <1>2 DEF TiposFallos
<1>5. CASE UNCHANGED <<optout, culpas, revivible>>
  BY <1>3, <1>5 DEF optout
<1>6. ASSUME NEW t \in Lotes, Resulta(t) PROVE Despues
  <2> DEFINE d == lotes[t].targets[lotes[t].i]
  <2>1. lotes[t].en = "vuelo" /\ lotes[t].abierto
    BY <1>1, <1>6 DEF Resulta, RancioInv
  <2>2. UNCHANGED <<guardados, escribiendo, revivible>>
    BY <1>6 DEF Resulta
  <2>3. Antes
    BY <1>3, <2>2
  <2>4. \/ /\ failures' = [failures EXCEPT ![d] = 0] /\ UNCHANGED culpas
        \/ /\ failures' = [failures EXCEPT ![d] = @ + 1]
           /\ culpas' = [culpas EXCEPT ![d] = @ + 1]
    BY <1>6, <2>1 DEF Resulta, Limpio
  <2> HIDE DEF d
  <2>5. \/ failures'[c] \in {0, failures[c]} /\ culpas'[c] = culpas[c]
        \/ failures'[c] = failures[c] + 1 /\ culpas'[c] = culpas[c] + 1
        \/ failures'[c] = failures[c] /\ culpas'[c] = culpas[c]
    BY <1>2, <2>4 DEF TiposFallos
  <2>6. failures'[c] <= culpas'[c] /\ culpas[c] <= culpas'[c] /\ culpas'[c] \in Nat
    BY <1>4, <2>3, <2>5
  <2>7. \A k \in DOMAIN escribiendo : escribiendo[k][c] \in Nat
    BY <1>2 DEF TiposFallos
  <2> QED
    BY <1>4, <2>2, <2>3, <2>6, <2>7
<1>7. CASE GuardaFallos
  <2>1. /\ UNCHANGED <<failures, guardados, culpas, revivible>>
        /\ escribiendo' = Append(escribiendo, failures)
    BY <1>7 DEF GuardaFallos
  <2>2. \A k \in DOMAIN escribiendo' :
          escribiendo'[k] = failures \/ \E i \in DOMAIN escribiendo : escribiendo'[k] = escribiendo[i]
    BY <1>2, <2>1 DEF TiposFallos
  <2> QED
    BY <1>3, <2>1, <2>2
<1>8. ASSUME NEW j \in DOMAIN escribiendo, Aterriza(j) PROVE Despues
  <2>1. /\ UNCHANGED <<failures, culpas, revivible>> /\ escribiendo' = SinLaDe(j)
        /\ guardados' \in {guardados, escribiendo[j]}
    BY <1>8 DEF Aterriza
  <2>2. \A k \in DOMAIN escribiendo' : \E i \in DOMAIN escribiendo : escribiendo'[k] = escribiendo[i]
    BY <1>2, <2>1, LasDemas DEF TiposFallos
  <2> QED
    BY <1>3, <2>1, <2>2
<1>9. ASSUME NEW ids \in SUBSET Contactos, BlockedClear(ids) PROVE Despues
  <2>1. /\ failures' = Sin(failures, ids) /\ culpas' = Sin(culpas, ids)
        /\ UNCHANGED escribiendo
    BY <1>9 DEF BlockedClear
  <2>2. guardados' = failures' /\ ~revivible /\ escribiendo = Nada
    BY <1>9 DEF BlockedClear, flushFailures
  <2>3. failures'[c] \in {0, failures[c]} /\ (failures'[c] = 0 \/ culpas'[c] = culpas[c])
        /\ culpas'[c] \in Nat
    BY <1>4, <2>1 DEF Sin
  <2> QED
    BY <1>3, <1>4, <2>1, <2>2, <2>3 DEF Nada
<1>10. CASE LimpiaServicio
  <2>1. /\ UNCHANGED <<failures, escribiendo, culpas, revivible>>
        /\ guardados' \in {guardados, SinFallos}
    BY <1>10 DEF LimpiaServicio
  <2>2. SinFallos[c] <= culpas[c]
    BY <1>4 DEF SinFallos
  <2> QED
    BY <1>3, <2>1, <2>2
<1>11. CASE CreaServicio
  <2>1. /\ UNCHANGED <<guardados, escribiendo, culpas, revivible>>
        /\ failures' \in {failures, ConGuardados}
    BY <1>11 DEF CreaServicio
  <2>2. ConGuardados[c] \in {guardados[c], failures[c]}
    BY DEF ConGuardados
  <2> QED
    BY <1>3, <2>1, <2>2
<1>12. CASE MuereServicio
  <2>1. /\ failures' = SinFallos /\ guardados' \in {guardados} \cup Range(escribiendo)
        /\ escribiendo' = <<>> /\ UNCHANGED <<culpas, revivible>>
    BY <1>12 DEF MuereServicio, Nada
  <2>2. SinFallos[c] <= culpas[c]
    BY <1>4 DEF SinFallos
  <2> QED
    BY <1>3, <2>1, <2>2 DEF Range
<1> QED
  BY <1>5, <1>6, <1>7, <1>8, <1>9, <1>10, <1>11, <1>12, QuienToca

\* A contact is excluded only for failures of its own: while no socket was replaced
\* connected and every clear of the failures stuck, the count of a contact, in memory, in
\* DynamoDB and in a write in flight, never exceeds the failures it is to blame for.
THEOREM OnlyRealFailures == Spec => []SoloFallosReales
<1> DEFINE Inv == ServicioInv /\ CodigoInv /\ RancioInv /\ FallosInv
<1>1. Init => Inv
  <2> SUFFICES ASSUME Init PROVE RancioInv /\ FallosInv
    BY ServicioAlEmpezar, CodigoAlEmpezar
  <2>1. RancioInv
    BY SinLoteEsLote DEF Init, SocketInit, RancioInv
  <2>2. FallosInv
    BY DEF Init, FallosInv, SinFallos, Nada
  <2> QED
    BY <2>1, <2>2
<1>2. Inv /\ [Next]_vars => Inv'
  BY ServicioSeMantiene, CodigoSeMantiene, RancioSeMantiene, FallosSeMantienen
     DEF ServicioInv
<1>3. Inv => SoloFallosReales
  BY DEF FallosInv, SoloFallosReales
<1> QED
  BY <1>1, <1>2, <1>3, PTL DEF Spec
-----------------------------------------------------------------------------
(* Nobody twice.                                                           *)

\* The targets sent to stay those that were counted.
LEMMA ContadoSeMantiene ==
  ASSUME ServicioInv, ContadoInv, [Next]_vars
  PROVE  ContadoInv'
<1>1. UNCHANGED difusion
  BY QuienToca
<1>2. destinos' = destinos
  BY <1>1 DEF destinos, Primera, NoFuera
<1>3. CASE Cuenta
  <2>1. contado' = TRUE /\ corte' = Resueltos
    BY <1>3 DEF Cuenta
  <2> QED
    BY <1>1, <1>2, <2>1 DEF ContadoInv, Resueltos
<1>4. CASE UNCHANGED <<contado, corte>>
  <2>1. CASE contado
    BY <1>1, <1>2, <1>4, <2>1 DEF ContadoInv
  <2>2. CASE ~contado
    <3>1. \A t \in Lotes : lotes[t].en = "no" /\ ~PorPedir(t)
      BY <2>2 DEF ContadoInv, PorPedir
    <3>2. \A t \in Lotes : /\ ~Send(t) /\ ~FijaTotal(t) /\ ~Envia(t) /\ ~Resulta(t) /\ ~Incr(t)
                           /\ ~HubAbre(t) /\ ~HubEnvia(t)
      BY <3>1 DEF Send, FijaTotal, Envia, Resulta, Incr, HubAbre, HubEnvia
    <3>3. ASSUME MuereServicio
          PROVE  recibido' = SinFallos /\ \A t \in Lotes : lotes'[t].en = "no"
      <4>1. CASE difusion.via = "hub"
        BY <2>2, <3>1, <3>3, <4>1 DEF MuereServicio, ContadoInv
      <4>2. CASE difusion.via # "hub"
        <5> DEFINE suyos(L, c) == {t \in L : lotes[t].targets[lotes[t].i] = c}
        <5>1. PICK L \in SUBSET EnVuelo :
                recibido' = [c \in Contactos |-> recibido[c] + Cardinality(suyos(L, c))]
          BY <3>3, <4>2 DEF MuereServicio
        <5>2. EnVuelo = {}
          BY <3>1 DEF EnVuelo
        <5>3. \A c \in Contactos : suyos(L, c) = {}
          BY <5>2
        <5>4. \A c \in Contactos : Cardinality(suyos(L, c)) = 0
          BY <5>3, FS_EmptySet
        <5> HIDE DEF suyos
        <5>5. \A c \in Contactos : recibido[c] = 0
          BY <2>2 DEF ContadoInv, SinFallos
        <5>6. recibido' = [c \in Contactos |-> 0]
          BY <5>1, <5>4, <5>5
        <5>7. \A t \in Lotes : lotes'[t].en = "no"
          BY <3>1, <3>3, <4>2 DEF MuereServicio
        <5> QED
          BY <5>6, <5>7 DEF SinFallos
      <4> QED
        BY <4>1, <4>2
    <3>4. recibido' = SinFallos /\ \A t \in Lotes : lotes'[t].en = "no"
      BY <2>2, <3>1, <3>2, <3>3, QuienToca DEF ContadoInv
    <3> QED
      BY <1>4, <2>2, <3>4 DEF ContadoInv
  <2> QED
    BY <2>1, <2>2
<1> QED
  BY <1>3, <1>4, QuienToca

\* No position of the targets belongs to two slices.
LEMMA PuestosSeparados ==
  ASSUME corte \in Seq(Contactos), NEW t \in Lotes, NEW u \in Lotes,
         NEW k \in Puestos(t), k \in Puestos(u)
  PROVE  t = u
<1>1. BatchSize \in Nat \ {0}
  BY ServiceAssumption
<1>2. t \in Nat /\ u \in Nat /\ Offset(t) \in Nat /\ Offset(u) \in Nat
  BY <1>1, OffsetNatural
<1>3. /\ k \in Nat /\ Offset(t) < k /\ k <= Offset(t) + BatchSize
      /\ Offset(u) < k /\ k <= Offset(u) + BatchSize
  BY DEF Puestos
<1>4. CASE t < u
  <2>1. Offset(t) + BatchSize <= Offset(u)
    BY <1>1, <1>4, SlicesSeparadas
  <2> QED
    BY <1>1, <1>2, <1>3, <2>1
<1>5. CASE u < t
  <2>1. Offset(u) + BatchSize <= Offset(t)
    BY <1>1, <1>5, SlicesSeparadas
  <2> QED
    BY <1>1, <1>2, <1>3, <2>1
<1> QED
  BY <1>2, <1>4, <1>5

\* The target that slice t sends next is the one at a position still pending.
LEMMA SiguienteEsPendiente ==
  ASSUME corte \in Seq(Contactos), NEW t \in Lotes, lotes[t] \in Lote,
         lotes[t].targets = Slice(corte, t),
         lotes[t].i >= 1, lotes[t].i <= Len(lotes[t].targets)
  PROVE  /\ Offset(t) \in Nat
         /\ Offset(t) + lotes[t].i \in Puestos(t) /\ Offset(t) + lotes[t].i \in Pendientes(t)
         /\ lotes[t].targets[lotes[t].i] = corte[Offset(t) + lotes[t].i]
<1> DEFINE o == Offset(t)
           i == lotes[t].i
           n == Len(corte)
           s == Slice(corte, t)
<1>1. BatchSize \in Nat \ {0}
  BY ServiceAssumption
<1>2. o \in Nat /\ i \in Nat /\ n \in Nat
  BY <1>1, OffsetNatural DEF Lote
<1>3. s \in Seq(Contactos) /\ i <= Len(s) /\ i >= 1
  BY <1>1, <1>2, SliceDeContactos
<1>4. o < n
  <2> SUFFICES ASSUME ~(o < n) PROVE FALSE
    OBVIOUS
  <2> DEFINE f == IF o + Limite(t) > n THEN n ELSE o + Limite(t)
  <2>1. s = SubSeq(corte, o + 1, f)
    BY DEF Slice, Corta
  <2>2. Limite(t) \in Int
    <3> HIDE DEF o, n
    <3> QED
      BY <1>1, <1>2 DEF Limite, o, n
  <2> HIDE DEF o, n
  <2>3. f \in Int /\ f < o + 1 /\ o + 1 \in Int
    BY <1>2, <2>2
  <2>4. s = <<>>
    BY <2>1, <2>3, SubSeqEmpty
  <2> HIDE DEF s
  <2> QED
    BY <1>2, <1>3, <2>4
<1>5. /\ Limite(t) \in 1..BatchSize /\ o + Limite(t) <= n /\ Len(s) = Limite(t)
      /\ \A j \in 1..Limite(t) : s[j] = corte[o + j]
  BY <1>1, <1>4, SliceDelCorte
<1> HIDE DEF o, n, s
<1>6. i \in 1..Limite(t)
  BY <1>2, <1>3, <1>5
<1>7. s[i] = corte[o + i]
  BY <1>5, <1>6
<1>8. o + i \in 1..n /\ o < o + i /\ o + i <= o + BatchSize
  BY <1>1, <1>2, <1>5, <1>6
<1>9. o + i \in Puestos(t)
  BY <1>8 DEF Puestos, o, n
<1>10. lotes[t].targets # <<>>
  <2>1. Len(s) # 0
    BY <1>5
  <2> QED
    BY <2>1 DEF s
<1>11. o + i \in Pendientes(t)
  BY <1>9, <1>10, <1>8 DEF Pendientes, o
<1> QED
  BY <1>2, <1>7, <1>9, <1>11 DEF o, s

\* A slice that asks for its targets, or goes on, has no more to send than before.
LEMMA SinRecibir ==
  ASSUME ServicioInv, UnaInv, ~movido, UNCHANGED <<corte, recibido>>,
         NEW t \in Lotes, NEW r \in Lote, PonLote(t, r), r.en # "no",
         r.targets = <<>> \/ r.targets = Slice(corte, t),
         \/ lotes[t].en = "no" \/ r.targets = <<>>
         \/ r.targets = lotes[t].targets /\ lotes[t].i <= r.i
  PROVE  UnaInv'
<1> SUFFICES ASSUME ~movido' PROVE UnaInv'
  BY DEF UnaInv
<1>1. \A u \in Lotes : lotes'[u] = IF u = t THEN r ELSE lotes[u]
  BY DEF PonLote, ServicioInv, TiposLotes
<1>2. /\ \A u \in Lotes : lotes[u].targets = <<>> \/ lotes[u].targets = Slice(corte, u)
      /\ \A c \in Contactos : recibido[c] <= 1
      /\ \A u \in Lotes : \A k \in Pendientes(u) : recibido[corte[k]] = 0
  BY DEF UnaInv
<1>3. \A u \in Lotes : Slice(corte, u)' = Slice(corte, u) /\ Puestos(u)' = Puestos(u)
  BY DEF Slice, Corta, Limite, Puestos
<1>4. lotes[t].i \in Nat /\ r.i \in Nat
  BY DEF ServicioInv, TiposLotes, Lote
<1>5. BatchSize \in Nat \ {0}
  BY ServiceAssumption
<1>6. ASSUME NEW u \in Lotes, NEW k \in Pendientes(u)' PROVE k \in Pendientes(u)
  <2>1. k \in Puestos(u)
    BY <1>3, <1>6 DEF Pendientes
  <2>2. CASE u # t
    BY <1>1, <1>6, <2>1, <2>2 DEF Pendientes
  <2>3. CASE u = t
    <3>1. r.targets # <<>> /\ Offset(t) + r.i <= k
      BY <1>1, <1>6, <2>3 DEF Pendientes
    <3>2. CASE lotes[t].en = "no"
      BY <2>1, <2>3, <3>2 DEF Pendientes
    <3>3. CASE r.targets = lotes[t].targets /\ lotes[t].i <= r.i
      <4>1. Offset(t) \in Nat /\ k \in Nat
        BY <1>5, <2>1, OffsetNatural DEF Puestos, ServicioInv, TiposCorte
      <4>2. Offset(t) + lotes[t].i <= k
        BY <1>4, <3>1, <3>3, <4>1
      <4> QED
        BY <2>1, <2>3, <3>1, <3>3, <4>2 DEF Pendientes
    <3> QED
      BY <3>1, <3>2, <3>3
  <2> QED
    BY <2>2, <2>3
<1>7. \A u \in Lotes : lotes'[u].targets = <<>> \/ lotes'[u].targets = Slice(corte, u)
  BY <1>1, <1>2
<1> QED
  BY <1>2, <1>3, <1>6, <1>7 DEF UnaInv

\* A message that leaves, and may arrive, goes to a contact that has received nothing.
LEMMA Recibe ==
  ASSUME ServicioInv, UnaInv, ~movido, UNCHANGED corte,
         NEW t \in Lotes, NEW r \in Lote, PonLote(t, r), r.en # "no",
         r.targets = lotes[t].targets, r.i = lotes[t].i + 1,
         lotes[t].i <= Len(lotes[t].targets),
         \/ recibido' = recibido
         \/ recibido' = [recibido EXCEPT ![lotes[t].targets[lotes[t].i]] = @ + 1]
  PROVE  UnaInv'
<1> SUFFICES ASSUME ~movido' PROVE UnaInv'
  BY DEF UnaInv
<1> DEFINE c == lotes[t].targets[lotes[t].i]
           k0 == Offset(t) + lotes[t].i
<1>1. \A u \in Lotes : lotes'[u] = IF u = t THEN r ELSE lotes[u]
  BY DEF PonLote, ServicioInv, TiposLotes
<1>2. /\ \A u \in Lotes : lotes[u].targets = <<>> \/ lotes[u].targets = Slice(corte, u)
      /\ \A d \in Contactos : recibido[d] <= 1
      /\ \A u \in Lotes : \A k \in Pendientes(u) : recibido[corte[k]] = 0
  BY DEF UnaInv
<1>3. \A u \in Lotes : Slice(corte, u)' = Slice(corte, u) /\ Puestos(u)' = Puestos(u)
  BY DEF Slice, Corta, Limite, Puestos
<1>4. lotes[t] \in Lote /\ lotes[t].i \in Nat /\ lotes[t].i >= 1
  BY DEF ServicioInv, TiposLotes, Lote, LoteSano
<1>5. corte \in Seq(Contactos) /\ IsInjective(corte) /\ recibido \in [Contactos -> Nat]
  BY DEF ServicioInv, TiposCorte, TiposJob
<1>6. lotes[t].targets = Slice(corte, t)
  <2>1. lotes[t].targets # <<>>
    <3>1. Len(<<>>) = 0
      OBVIOUS
    <3> QED
      BY <1>4, <3>1
  <2> QED
    BY <1>2, <2>1
<1>7. Offset(t) \in Nat /\ k0 \in Puestos(t) /\ k0 \in Pendientes(t) /\ c = corte[k0]
  BY <1>4, <1>5, <1>6, SiguienteEsPendiente
<1>8. k0 \in DOMAIN corte /\ c \in Contactos /\ recibido[c] = 0
  BY <1>2, <1>5, <1>7 DEF Puestos
<1>9. k0 \in Nat
  BY <1>4, <1>7
<1>10. ASSUME NEW u \in Lotes, NEW k \in Pendientes(u)'
       PROVE  k \in Pendientes(u) /\ k \in DOMAIN corte /\ k # k0
  <2>1. k \in Puestos(u) /\ k \in DOMAIN corte
    BY <1>3, <1>10 DEF Pendientes, Puestos
  <2>2. CASE u # t
    <3>1. k # k0
      BY <1>5, <1>7, <2>1, <2>2, PuestosSeparados
    <3> QED
      BY <1>1, <1>10, <2>1, <2>2, <3>1 DEF Pendientes
  <2>3. CASE u = t
    <3>1. r.targets # <<>> /\ Offset(t) + r.i <= k /\ k \in Nat
      BY <1>1, <1>5, <1>10, <2>1, <2>3 DEF Pendientes
    <3>2. Offset(t) + lotes[t].i <= k /\ k # Offset(t) + lotes[t].i
      BY <1>4, <1>7, <3>1
    <3> QED
      BY <2>1, <2>3, <3>1, <3>2 DEF Pendientes
  <2> QED
    BY <2>2, <2>3
<1> HIDE DEF c, k0
<1>11. recibido' = recibido \/ recibido' = [recibido EXCEPT ![c] = @ + 1]
  BY DEF c
<1>12. \A d \in Contactos : recibido'[d] <= 1
  BY <1>2, <1>5, <1>8, <1>11
<1>13. \A u \in Lotes : \A k \in Pendientes(u)' : recibido'[corte[k]] = 0
  <2> SUFFICES ASSUME NEW u \in Lotes, NEW k \in Pendientes(u)' PROVE recibido'[corte[k]] = 0
    OBVIOUS
  <2>1. k \in Pendientes(u) /\ k \in DOMAIN corte /\ k # k0
    BY <1>10
  <2>2. corte[k] # c
    BY <1>5, <1>7, <1>8, <2>1 DEF IsInjective
  <2>3. recibido[corte[k]] = 0
    BY <1>2, <2>1
  <2>4. corte[k] \in Contactos
    BY <1>5, <2>1
  <2> QED
    BY <1>5, <1>11, <2>2, <2>3, <2>4
<1>14. \A u \in Lotes : lotes'[u].targets = <<>> \/ lotes'[u].targets = Slice(corte, u)
  BY <1>1, <1>2
<1> QED
  BY <1>3, <1>12, <1>13, <1>14 DEF UnaInv

\* The messages that were on their way when the process died were for as many contacts
\* that had received nothing, and no slice begun goes on.
LEMMA MuereSinRepetir ==
  ASSUME ServicioInv, UnaInv, ~movido, MuereServicio, difusion.via # "hub"
  PROVE  UnaInv'
<1> DEFINE suyos(L, c) == {t \in L : lotes[t].targets[lotes[t].i] = c}
           pos(t) == Offset(t) + lotes[t].i
<1>1. UNCHANGED <<corte, movido>>
  BY DEF MuereServicio, cortes
<1>2. /\ \A u \in Lotes : lotes[u].targets = <<>> \/ lotes[u].targets = Slice(corte, u)
      /\ \A d \in Contactos : recibido[d] <= 1
      /\ \A u \in Lotes : \A k \in Pendientes(u) : recibido[corte[k]] = 0
  BY DEF UnaInv
<1>3. \A u \in Lotes : Slice(corte, u)' = Slice(corte, u) /\ Puestos(u)' = Puestos(u)
  BY <1>1 DEF Slice, Corta, Limite, Puestos
<1>4. corte \in Seq(Contactos) /\ IsInjective(corte) /\ recibido \in [Contactos -> Nat]
  BY DEF ServicioInv, TiposCorte, TiposJob
<1>5. PICK L \in SUBSET EnVuelo :
        recibido' = [c \in Contactos |-> recibido[c] + Cardinality(suyos(L, c))]
  BY DEF MuereServicio
<1>6. ASSUME NEW t \in L
      PROVE  /\ t \in Lotes /\ lotes[t].en = "vuelo"
             /\ pos(t) \in Puestos(t) /\ pos(t) \in Pendientes(t) /\ pos(t) \in DOMAIN corte
             /\ lotes[t].targets[lotes[t].i] = corte[pos(t)]
  <2>1. t \in Lotes /\ lotes[t].en = "vuelo"
    BY <1>5 DEF EnVuelo
  <2>2. lotes[t] \in Lote /\ lotes[t].i >= 1 /\ lotes[t].i <= Len(lotes[t].targets)
    BY <2>1 DEF ServicioInv, TiposLotes, LoteSano
  <2>3. lotes[t].i \in Nat
    BY <2>2 DEF Lote
  <2>4. lotes[t].targets # <<>>
    <3>1. Len(<<>>) = 0
      OBVIOUS
    <3> QED
      BY <2>2, <2>3, <3>1
  <2>5. lotes[t].targets = Slice(corte, t)
    BY <1>2, <2>1, <2>4
  <2> QED
    BY <1>4, <2>1, <2>2, <2>5, SiguienteEsPendiente DEF Puestos
<1> HIDE DEF pos
<1>7. ASSUME NEW t \in L, NEW u \in L, corte[pos(t)] = corte[pos(u)] PROVE t = u
  <2>1. pos(t) = pos(u)
    BY <1>4, <1>6, <1>7 DEF IsInjective
  <2> QED
    BY <1>4, <1>6, <2>1, PuestosSeparados
<1>8. ASSUME NEW c \in Contactos PROVE recibido'[c] <= 1
  <2>1. recibido'[c] = recibido[c] + Cardinality(suyos(L, c))
    BY <1>5
  <2>2. CASE suyos(L, c) = {}
    <3>1. Cardinality(suyos(L, c)) = 0
      BY <2>2, FS_EmptySet
    <3> HIDE DEF suyos
    <3> QED
      BY <1>2, <1>4, <2>1, <3>1
  <2>3. ASSUME NEW t \in suyos(L, c) PROVE recibido'[c] <= 1
    <3>1. t \in L /\ corte[pos(t)] = c
      BY <1>6
    <3>2. recibido[c] = 0
      BY <1>2, <1>6, <3>1
    <3>3. \A u \in suyos(L, c) : u = t
      BY <1>6, <1>7, <3>1
    <3>4. suyos(L, c) = {t}
      <4> HIDE DEF suyos
      <4> QED
        BY <2>3, <3>3
    <3>5. Cardinality(suyos(L, c)) = 1
      BY <3>4, FS_Singleton
    <3> HIDE DEF suyos
    <3> QED
      BY <2>1, <3>2, <3>5
  <2> QED
    BY <2>2, <2>3
<1>9. \A u \in Lotes : lotes'[u] = IF lotes[u].en = "no" THEN lotes[u]
                                   ELSE [SinLote EXCEPT !.en = "fin"]
  BY DEF MuereServicio
<1> DEFINE q == [SinLote EXCEPT !.en = "fin"]
<1>10. q.targets = <<>> /\ q.en = "fin"
  BY SinLoteEsLote DEF Lote
<1> HIDE DEF q
<1>11. \A u \in Lotes : lotes'[u] = IF lotes[u].en = "no" THEN lotes[u] ELSE q
  BY <1>9 DEF q
<1>12. \A u \in Lotes : lotes'[u].targets = <<>> \/ lotes'[u].targets = Slice(corte, u)
  BY <1>2, <1>10, <1>11
<1>13. ASSUME NEW u \in Lotes, NEW k \in Pendientes(u)' PROVE recibido'[corte[k]] = 0
  <2>1. k \in Puestos(u) /\ k \in DOMAIN corte
    BY <1>3, <1>13 DEF Pendientes, Puestos
  <2>2. lotes[u].en = "no"
    BY <1>10, <1>11, <1>13 DEF Pendientes
  <2>3. recibido[corte[k]] = 0
    BY <1>2, <2>1, <2>2 DEF Pendientes
  <2>4. suyos(L, corte[k]) = {}
    <3> SUFFICES ASSUME NEW t \in suyos(L, corte[k]) PROVE FALSE
      OBVIOUS
    <3>1. t \in L /\ corte[pos(t)] = corte[k]
      BY <1>6
    <3>2. pos(t) = k
      BY <1>4, <1>6, <2>1, <3>1 DEF IsInjective
    <3>3. t = u
      BY <1>4, <1>6, <2>1, <3>1, <3>2, PuestosSeparados
    <3> QED
      BY <1>6, <2>2, <3>1, <3>3
  <2>5. Cardinality(suyos(L, corte[k])) = 0
    BY <2>4, FS_EmptySet
  <2>6. corte[k] \in Contactos
    BY <1>4, <2>1
  <2> HIDE DEF suyos
  <2> QED
    BY <1>5, <2>3, <2>5, <2>6
<1> QED
  BY <1>1, <1>3, <1>8, <1>12, <1>13 DEF UnaInv

\* What a slice may still send to has received nothing.
LEMMA UnaSeMantiene ==
  ASSUME ServicioInv, ContadoInv, UnaInv, [Next]_vars
  PROVE  UnaInv'
<1> SUFFICES ASSUME ~movido' PROVE UnaInv'
  BY DEF UnaInv
<1>1. ~movido /\ UNCHANGED difusion
  <2>1. ASSUME NEW t \in Lotes,
               \/ Send(t) \/ FijaTotal(t) \/ Envia(t) \/ Resulta(t) \/ Incr(t)
               \/ HubAbre(t) \/ HubEnvia(t)
        PROVE  movido => movido'
    BY <2>1 DEF Send, FijaTotal, Envia, Resulta, Incr, HubAbre, HubEnvia, cortes
  <2>2. MuereServicio => (movido => movido')
    BY DEF MuereServicio, cortes
  <2> QED
    BY <2>1, <2>2, QuienToca
<1>2. /\ \A u \in Lotes : lotes[u].targets = <<>> \/ lotes[u].targets = Slice(corte, u)
      /\ \A d \in Contactos : recibido[d] <= 1
      /\ \A u \in Lotes : \A k \in Pendientes(u) : recibido[corte[k]] = 0
  BY <1>1 DEF UnaInv
<1>3. \A t \in Lotes : lotes[t] \in Lote /\ LoteSano(lotes[t]) /\ lotes[t].i \in Nat
  BY DEF ServicioInv, TiposLotes, Lote
<1>4. CASE Cuenta
  <2>1. ~contado /\ UNCHANGED <<lotes, recibido>>
    BY <1>4 DEF Cuenta
  <2>2. recibido = SinFallos /\ \A t \in Lotes : lotes[t] = SinLote
    BY <1>3, <2>1 DEF ContadoInv, LoteSano
  <2>3. \A t \in Lotes : lotes'[t].targets = <<>>
    BY <2>1, <2>2, SinLoteEsLote
  <2>4. \A d \in Contactos : recibido'[d] = 0
    BY <2>1, <2>2 DEF SinFallos
  <2>5. corte' \in Seq(Contactos)
    BY ServicioSeMantiene DEF ServicioInv, TiposCorte
  <2>6. \A u \in Lotes : \A k \in Pendientes(u)' : k \in DOMAIN corte'
    BY DEF Pendientes, Puestos
  <2>7. \A u \in Lotes : \A k \in Pendientes(u)' : recibido'[corte'[k]] = 0
    BY <2>4, <2>5, <2>6
  <2> QED
    BY <2>3, <2>4, <2>7 DEF UnaInv
<1>5. CASE UNCHANGED corte
  <2>1. CASE UNCHANGED <<lotes, recibido>>
    BY <1>1, <1>2, <1>5, <2>1 DEF UnaInv, Slice, Corta, Limite, Pendientes, Puestos
  <2>2. ASSUME NEW t \in Lotes, NEW en \in {"envia", "resto", "fin"}, Pasa(t, en),
               UNCHANGED recibido
        PROVE  UnaInv'
    <3> DEFINE q == [lotes[t] EXCEPT !.en = en]
    <3>1. PonLote(t, q)
      BY <2>2 DEF Pasa
    <3>2. q \in Lote /\ q.en = en /\ q.targets = lotes[t].targets /\ q.i = lotes[t].i
      BY <1>3 DEF Lote
    <3> HIDE DEF q
    <3>3. q.en # "no" /\ lotes[t].i <= q.i
      BY <1>3, <3>2
    <3> QED
      BY <1>1, <1>2, <1>5, <2>2, <3>1, <3>2, <3>3, SinRecibir
  <2>3. ASSUME NEW t \in Lotes, Send(t) PROVE UnaInv'
    <3>1. lotes[t].en = "no" /\ UNCHANGED recibido
      BY <2>3 DEF Send, PorPedir
    <3> DEFINE en == IF Offset(t) = 0 THEN "total" ELSE "envia"
               s == Slice(resolverTargets, t)
               q == [SinLote EXCEPT !.en = en, !.gen = gen, !.targets = s]
    <3>2. CASE Pasa(t, "fin")
      BY <2>2, <3>1, <3>2
    <3>3. CASE PonLote(t, q) /\ movido' = (movido \/ resolverTargets # corte)
      <4>1. resolverTargets = corte
        BY <3>3
      <4>2. s = Slice(corte, t)
        BY <4>1
      <4>3. s \in Seq(Contactos)
        BY <4>2, SliceDeContactos, ServiceAssumption DEF ServicioInv, TiposCorte
      <4>4. en \in {"total", "envia"}
        OBVIOUS
      <4>5. gen \in Nat
        BY DEF ServicioInv, SocketInv, SocketTypeOK
      <4> HIDE DEF s, en
      <4>6. q \in Lote /\ q.en # "no" /\ q.targets = s
        BY <4>3, <4>4, <4>5, SinLoteEsLote DEF Lote
      <4> HIDE DEF q
      <4> QED
        BY <1>1, <1>5, <3>1, <3>3, <4>2, <4>6, SinRecibir
    <3> QED
      BY <2>3, <3>2, <3>3 DEF Send
  <2>4. ASSUME NEW t \in Lotes, FijaTotal(t) \/ Envia(t) PROVE UnaInv'
    <3>1. UNCHANGED recibido /\ lotes[t].en # "no"
      BY <2>4 DEF FijaTotal, Envia
    <3> DEFINE q == [lotes[t] EXCEPT !.en = "vuelo", !.abierto = Actual(t)]
    <3>2. Pasa(t, "envia") \/ Pasa(t, "resto") \/ PonLote(t, q)
      BY <2>4 DEF FijaTotal, Envia
    <3>3. Actual(t) \in BOOLEAN
      BY DEF Actual
    <3>4. q \in Lote /\ q.en = "vuelo" /\ q.targets = lotes[t].targets /\ q.i = lotes[t].i
      BY <1>3, <3>3 DEF Lote
    <3> HIDE DEF q
    <3>5. lotes[t].i <= q.i
      BY <1>3, <3>4
    <3> QED
      BY <1>1, <1>2, <1>5, <2>2, <3>1, <3>2, <3>4, <3>5, SinRecibir
  <2>5. ASSUME NEW t \in Lotes, Resulta(t) PROVE UnaInv'
    <3> DEFINE c == lotes[t].targets[lotes[t].i]
    <3>1. lotes[t].en = "vuelo"
      BY <2>5 DEF Resulta
    <3>2. recibido' = recibido \/ recibido' = [recibido EXCEPT ![c] = @ + 1]
      BY <2>5 DEF Resulta
    <3>3. PICK s \in {0, 1} : \E f \in {0, 1} : Contado(t, s, f)
      BY <2>5 DEF Resulta
    <3>4. PICK f \in {0, 1} : Contado(t, s, f)
      BY <3>3
    <3> DEFINE r == lotes[t]
               en == IF r.dS + s + r.dF + f >= Cada THEN "reporta" ELSE "envia"
               q == [r EXCEPT !.i = @ + 1, !.dS = @ + s, !.dF = @ + f, !.abierto = FALSE,
                              !.en = en]
    <3>5. PonLote(t, q)
      BY <3>4 DEF Contado
    <3>6. en \in {"reporta", "envia"}
      OBVIOUS
    <3> HIDE DEF en
    <3>7. r.dS \in Nat /\ r.dF \in Nat
      BY <1>3 DEF Lote
    <3>8. r.i + 1 \in Nat /\ r.dS + s \in Nat /\ r.dF + f \in Nat
      BY <1>3, <3>7
    <3>9. q \in Lote /\ q.en = en /\ q.targets = r.targets /\ q.i = r.i + 1
      BY <1>3, <3>6, <3>8 DEF Lote
    <3> HIDE DEF q
    <3>10. q.en # "no" /\ r.i <= Len(r.targets)
      BY <1>3, <3>1, <3>6, <3>9 DEF LoteSano
    <3> QED
      BY <1>1, <1>5, <3>2, <3>5, <3>9, <3>10, Recibe
  <2>6. ASSUME NEW t \in Lotes, Incr(t) PROVE UnaInv'
    <3> DEFINE q == Reportado(t)
    <3>1. PonLote(t, q) /\ UNCHANGED recibido
      BY <2>6 DEF Incr
    <3>2. /\ q.en \in {"envia", "fin"}
          /\ q.targets = lotes[t].targets /\ q.i = lotes[t].i
      BY <1>3 DEF Reportado, Lote
    <3>3. q \in Lote
      BY <1>3 DEF Reportado, Lote
    <3> HIDE DEF q
    <3>4. q.en # "no" /\ lotes[t].i <= q.i
      BY <1>3, <3>2
    <3> QED
      BY <1>1, <1>2, <1>5, <3>1, <3>2, <3>3, <3>4, SinRecibir
  <2>7. ASSUME NEW t \in Lotes, HubAbre(t) PROVE UnaInv'
    <3> DEFINE s == Slice(destinos, t)
               q == [SinLote EXCEPT !.en = "envia", !.targets = s]
    <3>1. PonLote(t, q) /\ UNCHANGED recibido /\ lotes[t].en = "no"
      BY <2>7 DEF HubAbre, PorPedir
    <3>2. s = Slice(corte, t)
      BY <2>7 DEF HubAbre, PorPedir, ContadoInv
    <3>3. s \in Seq(Contactos)
      BY <3>2, SliceDeContactos, ServiceAssumption DEF ServicioInv, TiposCorte
    <3> HIDE DEF s
    <3>4. q \in Lote /\ q.en # "no" /\ q.targets = s
      BY <3>3, SinLoteEsLote DEF Lote
    <3> HIDE DEF q
    <3> QED
      BY <1>1, <1>5, <3>1, <3>2, <3>4, SinRecibir
  <2>8. ASSUME NEW t \in Lotes, HubEnvia(t) PROVE UnaInv'
    <3> DEFINE r == lotes[t]
               c == r.targets[r.i]
               p == [r EXCEPT !.i = @ + 1]
               q(en) == [r EXCEPT !.i = @ + 1, !.en = en]
    <3>1. \/ Pasa(t, "fin") /\ UNCHANGED recibido
          \/ /\ r.i <= Len(r.targets)
             /\ recibido' = recibido \/ recibido' = [recibido EXCEPT ![c] = @ + 1]
             /\ \/ PonLote(t, p)
                \/ \E en \in {"envia", "fin"} : PonLote(t, q(en))
      BY <2>8 DEF HubEnvia
    <3>2. r.en = "envia"
      BY <2>8 DEF HubEnvia
    <3>3. r.i + 1 \in Nat
      BY <1>3
    <3>4. p \in Lote /\ p.en # "no" /\ p.targets = r.targets /\ p.i = r.i + 1
      BY <1>3, <3>2, <3>3 DEF Lote
    <3>5. ASSUME NEW en \in {"envia", "fin"}
          PROVE  /\ q(en) \in Lote /\ q(en).en # "no"
                 /\ q(en).targets = r.targets /\ q(en).i = r.i + 1
      <4>1. q(en).en = en /\ q(en).targets = r.targets /\ q(en).i = r.i + 1
        BY <1>3 DEF Lote
      <4>2. q(en) \in Lote
        BY <1>3, <3>3, <3>4 DEF Lote
      <4> QED
        BY <4>1, <4>2
    <3> HIDE DEF p, q
    <3>6. CASE Pasa(t, "fin") /\ UNCHANGED recibido
      BY <2>2, <3>6
    <3>7. CASE PonLote(t, p) /\ ~(Pasa(t, "fin") /\ UNCHANGED recibido)
      BY <1>1, <1>5, <3>1, <3>4, <3>7, Recibe
    <3>8. ASSUME NEW en \in {"envia", "fin"}, PonLote(t, q(en)),
                 ~(Pasa(t, "fin") /\ UNCHANGED recibido)
          PROVE  UnaInv'
      BY <1>1, <1>5, <3>1, <3>5, <3>8, Recibe
    <3> QED
      BY <3>1, <3>6, <3>7, <3>8
  <2>9. CASE MuereServicio
    <3>1. CASE difusion.via = "hub"
      BY <2>1, <2>9, <3>1 DEF MuereServicio
    <3>2. CASE difusion.via # "hub"
      BY <1>1, <2>9, <3>2, MuereSinRepetir
    <3> QED
      BY <3>1, <3>2
  <2> QED
    BY <2>1, <2>3, <2>4, <2>5, <2>6, <2>7, <2>8, <2>9, QuienToca
<1> QED
  BY <1>4, <1>5, QuienToca

\* While the targets stay those that were counted, nobody receives the broadcast twice,
\* through the service or through the hub, whatever is lost, replaced or restarted between
\* two slices: what a slice still has to send goes to contacts that have received nothing.
THEOREM NobodyTwice == Spec => []NadieDosVeces
<1> DEFINE Inv == ServicioInv /\ ContadoInv /\ UnaInv
<1>1. Init => Inv
  <2> SUFFICES ASSUME Init PROVE ContadoInv /\ UnaInv
    BY ServicioAlEmpezar
  <2>1. /\ corte = <<>> /\ recibido = SinFallos /\ contado = FALSE
        /\ lotes = [t \in Lotes |-> SinLote]
    BY DEF Init
  <2>2. ContadoInv
    BY <2>1, SinLoteEsLote DEF ContadoInv
  <2>3. \A t \in Lotes : Pendientes(t) = {}
    BY <2>1 DEF Pendientes, Puestos
  <2>4. UnaInv
    BY <2>1, <2>3, SinLoteEsLote DEF UnaInv, SinFallos
  <2> QED
    BY <2>2, <2>4
<1>2. Inv /\ [Next]_vars => Inv'
  BY ServicioSeMantiene, ContadoSeMantiene, UnaSeMantiene
<1>3. Inv => NadieDosVeces
  BY DEF UnaInv, NadieDosVeces
<1> QED
  BY <1>1, <1>2, <1>3, PTL DEF Spec
-----------------------------------------------------------------------------
(* Sums over a finite set.                                                 *)

\* What a sum adds up: f[x] marks under each x of a set.
Bloque(f, s) == UNION {{x} \X (1..f[x]) : x \in s}
Suma(f, s) == Cardinality(Bloque(f, s))

\* The marks, one by one.
LEMMA EnBloque ==
  ASSUME NEW f, NEW s
  PROVE  /\ \A x, k : <<x, k>> \in Bloque(f, s) <=> x \in s /\ k \in 1..f[x]
         /\ \A e \in Bloque(f, s) : \E x, k : e = <<x, k>> /\ x \in s /\ k \in 1..f[x]
BY DEF Bloque

\* A finite sum of numbers has finitely many marks, and is a number.
LEMMA BloqueFinito ==
  ASSUME NEW s, IsFiniteSet(s), NEW f, \A x \in s : f[x] \in Nat
  PROVE  IsFiniteSet(Bloque(f, s)) /\ Suma(f, s) \in Nat
<1> DEFINE B == {{x} \X (1..f[x]) : x \in s}
            h == [x \in s |-> {x} \X (1..f[x])]
<1>1. h \in Surjection(s, B)
  BY DEF Surjection
<1>2. IsFiniteSet(B)
  <2> HIDE DEF B, h
  <2> QED
    BY <1>1, FS_Surjection
<1>3. \A T \in B : IsFiniteSet(T)
  <2> SUFFICES ASSUME NEW x \in s
                PROVE  IsFiniteSet({x} \X (1..f[x]))
    OBVIOUS
  <2>1. f[x] \in Int
    OBVIOUS
  <2>2. IsFiniteSet(1..f[x])
    BY <2>1, FS_Interval
  <2>3. IsFiniteSet({x})
    BY FS_Singleton
  <2> QED
    BY <2>2, <2>3, FS_Product
<1>4. IsFiniteSet(UNION B)
  <2> HIDE DEF B
  <2> QED
    BY <1>2, <1>3, FS_UNION
<1> QED
  BY <1>4, FS_CardinalityType DEF Bloque, Suma

\* The sum over the empty set.
LEMMA SumaVacia ==
  ASSUME NEW f
  PROVE  Suma(f, {}) = 0
<1>1. Bloque(f, {}) = {}
  BY DEF Bloque
<1> QED
  BY <1>1, FS_EmptySet DEF Suma

\* An element apart from the others.
LEMMA SumaQuita ==
  ASSUME NEW s, IsFiniteSet(s), NEW f, \A x \in s : f[x] \in Nat, NEW a \in s
  PROVE  Suma(f, s) = f[a] + Suma(f, s \ {a})
<1> DEFINE B == {a} \X (1..f[a])
            R == Bloque(f, s \ {a})
<1>1. Bloque(f, s) = B \cup R
  BY DEF Bloque
<1>2. B \cap R = {}
  BY DEF Bloque
<1>3. IsFiniteSet(B) /\ Cardinality(B) = f[a]
  <2>1. f[a] \in Int /\ f[a] \in Nat
    OBVIOUS
  <2>2. IsFiniteSet(1..f[a]) /\ Cardinality(1..f[a]) = f[a]
    BY <2>1, FS_Interval
  <2>3. IsFiniteSet({a}) /\ Cardinality({a}) = 1
    BY FS_Singleton
  <2> QED
    BY <2>1, <2>2, <2>3, FS_Product
<1>4. IsFiniteSet(R) /\ Cardinality(R) \in Nat
  <2>1. IsFiniteSet(s \ {a})
    BY FS_RemoveElement
  <2> QED
    BY <2>1, BloqueFinito, FS_CardinalityType
<1> HIDE DEF B, R
<1>5. Cardinality(B \cup R) = Cardinality(B) + Cardinality(R) - Cardinality(B \cap R)
  BY <1>3, <1>4, FS_Union
<1>6. Cardinality(B \cap R) = 0
  BY <1>2, FS_EmptySet
<1> QED
  BY <1>1, <1>3, <1>4, <1>5, <1>6 DEF Suma, R

\* Only what is added up counts.
LEMMA SumaIgual ==
  ASSUME NEW s, NEW f, NEW g, \A x \in s : f[x] = g[x]
  PROVE  Suma(f, s) = Suma(g, s)
<1>1. {{x} \X (1..f[x]) : x \in s} = {{x} \X (1..g[x]) : x \in s}
  OBVIOUS
<1> QED
  BY <1>1 DEF Suma, Bloque

\* One term changes.
LEMMA SumaCambia ==
  ASSUME NEW s, IsFiniteSet(s), NEW f, NEW g, NEW a \in s,
         \A x \in s : f[x] \in Nat /\ g[x] \in Nat,
         \A x \in s \ {a} : f[x] = g[x]
  PROVE  Suma(g, s) + f[a] = Suma(f, s) + g[a]
<1>1. IsFiniteSet(s \ {a})
  BY FS_RemoveElement
<1>2. Suma(f, s \ {a}) = Suma(g, s \ {a}) /\ Suma(f, s \ {a}) \in Nat
  BY <1>1, SumaIgual, BloqueFinito
<1>3. Suma(f, s) = f[a] + Suma(f, s \ {a}) /\ Suma(g, s) = g[a] + Suma(g, s \ {a})
  BY SumaQuita
<1> QED
  BY <1>2, <1>3

\* What MapThenSumSet adds up.
LEMMA EsSuma ==
  ASSUME NEW S, IsFiniteSet(S), NEW f, \A x \in S : f[x] \in Nat
  PROVE  MapThenSumSet(LAMBDA c : f[c], S) = Suma(f, S)
<1> DEFINE El(s) == CHOOSE x \in s : TRUE
            Paso(g) == [s \in SUBSET S |-> IF s = {} THEN 0 ELSE f[El(s)] + g[s \ {El(s)}]]
            m == [s \in SUBSET S |-> Suma(f, s)]
<1>1. MapThenSumSet(LAMBDA c : f[c], S) = (CHOOSE g : g = Paso(g))[S]
  BY DEF MapThenSumSet, MapThenFoldSet
<1>2. \A s \in SUBSET S : IsFiniteSet(s)
  BY FS_Subset
<1>3. \A s \in SUBSET S : s # {} => El(s) \in s /\ s \ {El(s)} \in SUBSET S
  OBVIOUS
<1> HIDE DEF El
<1>4. m = Paso(m)
  <2> SUFFICES ASSUME NEW s \in SUBSET S
                PROVE  Suma(f, s) = IF s = {} THEN 0 ELSE f[El(s)] + m[s \ {El(s)}]
    OBVIOUS
  <2>1. CASE s = {}
    BY <2>1, SumaVacia
  <2>2. CASE s # {}
    <3>1. El(s) \in s /\ s \ {El(s)} \in SUBSET S
      BY <1>3, <2>2
    <3>2. Suma(f, s) = f[El(s)] + Suma(f, s \ {El(s)})
      BY <1>2, <3>1, SumaQuita
    <3> QED
      BY <2>2, <3>1, <3>2
  <2> QED
    BY <2>1, <2>2
<1>5. PICK g : g = Paso(g) /\ g = CHOOSE h : h = Paso(h)
  <2> HIDE DEF Paso, m
  <2> QED
    BY <1>4
<1>6. \A s \in SUBSET S : g[s] = IF s = {} THEN 0 ELSE f[El(s)] + g[s \ {El(s)}]
  BY <1>5
<1>7. ASSUME NEW s \in SUBSET S, g[s] # Suma(f, s)
      PROVE  FALSE
  <2> DEFINE malos == {u \in SUBSET S : g[u] # Suma(f, u)}
  <2>1. malos \subseteq FiniteSubsetsOf(S) /\ malos # {}
    BY <1>2, <1>7 DEF FiniteSubsetsOf
  <2>2. IsWellFoundedOn(StrictSubsetOrdering(S), FiniteSubsetsOf(S))
    BY FS_StrictSubsetOrderingWellFounded
  <2>3. PICK u \in malos : \A v \in malos : ~ (<<v, u>> \in StrictSubsetOrdering(S))
    <3> HIDE DEF malos
    <3> QED
      BY <2>1, <2>2, WFMin
  <2>4. u # {}
    BY <1>6, <2>3, SumaVacia
  <2>5. El(u) \in u /\ u \ {El(u)} \in SUBSET S
    BY <1>3, <2>3, <2>4
  <2>6. <<u \ {El(u)}, u>> \in StrictSubsetOrdering(S)
    BY <2>3, <2>5 DEF StrictSubsetOrdering
  <2>7. g[u \ {El(u)}] = Suma(f, u \ {El(u)})
    BY <2>3, <2>5, <2>6
  <2>8. Suma(f, u) = f[El(u)] + Suma(f, u \ {El(u)})
    BY <1>2, <2>3, <2>5, SumaQuita
  <2> QED
    BY <1>6, <2>3, <2>4, <2>7, <2>8
<1> QED
  BY <1>1, <1>5, <1>7
-----------------------------------------------------------------------------
(* The account of the job.                                                 *)

\* What the slices begun owe to the job: messages sent, and messages in all.
DebeEnviados == [t \in Lotes |-> lotes[t].dS]
Debe == [t \in Lotes |-> lotes[t].dS + lotes[t].dF]
\* The positions of corte whose message was counted, or never will be.
Hechas ==
  {k \in DOMAIN corte : \E t \in Lotes :
     k \in Puestos(t) /\ (lotes[t].en = "fin" \/ k < Offset(t) + lotes[t].i)}
\* What arrived is counted in the job or owed to it; and the messages counted or owed are
\* no more than the positions of the targets that are done with.
CuentaInv ==
  difusion.via = "propio" =>
    /\ ~perdido => Suma(recibido, Contactos) = waSent + dudosos + Suma(DebeEnviados, Lotes)
    /\ ~movido => waSent + waFailed + Suma(Debe, Lotes) <= Cardinality(Hechas)
    /\ waTotal \in {0, Len(corte)}
    /\ \A t \in Lotes : lotes[t].en = "fin" => lotes[t].dS = 0 /\ lotes[t].dF = 0

\* A sum of zeros is zero.
LEMMA SumaCero ==
  ASSUME NEW s, NEW f, \A x \in s : f[x] = 0
  PROVE  Suma(f, s) = 0
<1>1. \A e \in Bloque(f, s) : FALSE
  BY EnBloque
<1>2. Bloque(f, s) = {}
  BY <1>1
<1> QED
  BY <1>2, FS_EmptySet DEF Suma

\* The contacts are finitely many.
LEMMA ContactosFinitos == IsFiniteSet(Contactos)
<1>1. NumContactos \in Int
  BY ServiceAssumption
<1> QED
  BY <1>1, FS_Interval DEF Contactos

\* A set of positions is no larger than the number of positions.
LEMMA PosicionesFinitas ==
  ASSUME NEW n \in Nat, NEW H \in SUBSET (1..n)
  PROVE  IsFiniteSet(H) /\ Cardinality(H) \in Nat /\ Cardinality(H) <= n
<1>1. IsFiniteSet(1..n) /\ Cardinality(1..n) = n
  <2>1. 1 \in Int /\ n \in Int
    OBVIOUS
  <2>2. IsFiniteSet(1..n) /\ Cardinality(1..n) = IF 1 > n THEN 0 ELSE n - 1 + 1
    BY <2>1, FS_Interval
  <2> QED
    BY <2>2
<1>2. IsFiniteSet(H) /\ Cardinality(H) <= Cardinality(1..n)
  BY <1>1, FS_Subset
<1> QED
  BY <1>1, <1>2, FS_CardinalityType

\* The debts are natural numbers, and so are their sums.
LEMMA DeudasNaturales ==
  ASSUME TiposLotes
  PROVE  /\ \A u \in Lotes : /\ DebeEnviados[u] = lotes[u].dS /\ DebeEnviados[u] \in Nat
                             /\ Debe[u] = lotes[u].dS + lotes[u].dF /\ Debe[u] \in Nat
         /\ Suma(DebeEnviados, Lotes) \in Nat /\ Suma(Debe, Lotes) \in Nat
<1>1. \A u \in Lotes : lotes[u].dS \in Nat /\ lotes[u].dF \in Nat
  BY DEF TiposLotes, Lote
<1>2. \A u \in Lotes : /\ DebeEnviados[u] = lotes[u].dS /\ DebeEnviados[u] \in Nat
                       /\ Debe[u] = lotes[u].dS + lotes[u].dF /\ Debe[u] \in Nat
  BY <1>1 DEF DebeEnviados, Debe
<1> QED
  BY <1>2, LotesFinitos, BloqueFinito

\* What the slices owe changes by what one slice does.
LEMMA SumaLotes ==
  ASSUME TiposLotes, NEW t \in Lotes, NEW r \in Lote, LoteSano(r), PonLote(t, r)
  PROVE  /\ Suma(DebeEnviados, Lotes)' + lotes[t].dS = Suma(DebeEnviados, Lotes) + r.dS
         /\ Suma(Debe, Lotes)' + (lotes[t].dS + lotes[t].dF) = Suma(Debe, Lotes) + (r.dS + r.dF)
<1>1. TiposLotes'
  BY PonLoteSano
<1>2. \A u \in Lotes : /\ DebeEnviados[u] = lotes[u].dS /\ DebeEnviados[u] \in Nat
                       /\ Debe[u] = lotes[u].dS + lotes[u].dF /\ Debe[u] \in Nat
  BY DeudasNaturales
<1>3. \A u \in Lotes : lotes'[u] = IF u = t THEN r ELSE lotes[u]
  BY DEF PonLote, TiposLotes
<1>4. \A u \in Lotes : /\ DebeEnviados'[u] = lotes'[u].dS
                       /\ Debe'[u] = lotes'[u].dS + lotes'[u].dF
  BY DEF DebeEnviados, Debe
<1>5. r.dS \in Nat /\ r.dF \in Nat
  BY DEF Lote
<1>6. \A u \in Lotes : DebeEnviados'[u] \in Nat /\ Debe'[u] \in Nat
  BY <1>2, <1>3, <1>4, <1>5
<1>7. \A u \in Lotes \ {t} : DebeEnviados[u] = DebeEnviados'[u] /\ Debe[u] = Debe'[u]
  BY <1>2, <1>3, <1>4
<1>8. DebeEnviados'[t] = r.dS /\ Debe'[t] = r.dS + r.dF
  BY <1>3, <1>4
<1>9. Suma(DebeEnviados', Lotes) + DebeEnviados[t] = Suma(DebeEnviados, Lotes) + DebeEnviados'[t]
  BY <1>2, <1>6, <1>7, LotesFinitos, SumaCambia
<1>10. Suma(Debe', Lotes) + Debe[t] = Suma(Debe, Lotes) + Debe'[t]
  BY <1>2, <1>6, <1>7, LotesFinitos, SumaCambia
<1> QED
  BY <1>2, <1>8, <1>9, <1>10

\* What is done is never undone, and a message counted is one position more.
LEMMA HechasCrecen ==
  ASSUME TiposLotes, corte \in Seq(Contactos), UNCHANGED corte, NEW t \in Lotes, NEW r \in Lote,
         PonLote(t, r), lotes[t].en # "fin", lotes[t].i <= r.i
  PROVE  /\ Cardinality(Hechas) \in Nat /\ Cardinality(Hechas)' \in Nat
         /\ Cardinality(Hechas) <= Cardinality(Hechas)'
         /\ /\ r.i = lotes[t].i + 1 /\ lotes[t].i <= Len(lotes[t].targets)
            /\ lotes[t].targets = Slice(corte, t)
            => Cardinality(Hechas) + 1 <= Cardinality(Hechas)'
<1>1. \A u \in Lotes : lotes'[u] = IF u = t THEN r ELSE lotes[u]
  BY DEF PonLote, TiposLotes
<1>2. \A u \in Lotes : Puestos(u)' = Puestos(u)
  BY DEF Puestos
<1>3. \A u \in Lotes : lotes[u].i \in Nat /\ lotes[u].i >= 1 /\ lotes[u] \in Lote
  BY DEF TiposLotes, Lote, LoteSano
<1>4. r.i \in Nat
  BY DEF Lote
<1>5. \A u \in Lotes : Offset(u) \in Nat
  BY OffsetNatural, ServiceAssumption
<1>6. Hechas \subseteq Hechas'
  <2> SUFFICES ASSUME NEW k \in Hechas PROVE k \in Hechas'
    OBVIOUS
  <2>1. PICK u \in Lotes : k \in Puestos(u) /\ (lotes[u].en = "fin" \/ k < Offset(u) + lotes[u].i)
    BY DEF Hechas
  <2>2. k \in DOMAIN corte /\ k \in Nat
    BY DEF Hechas
  <2>3. lotes'[u].en = "fin" \/ k < Offset(u) + lotes'[u].i
    BY <1>1, <1>3, <1>4, <1>5, <2>1, <2>2
  <2> QED
    BY <1>2, <2>1, <2>2, <2>3 DEF Hechas
<1>7. Len(corte) \in Nat /\ Hechas' \in SUBSET (1..Len(corte))
  <2>1. DOMAIN corte' = 1..Len(corte) /\ Len(corte) \in Nat
    OBVIOUS
  <2> QED
    BY <2>1 DEF Hechas
<1>8. IsFiniteSet(Hechas) /\ IsFiniteSet(Hechas')
  <2>1. IsFiniteSet(Hechas')
    BY <1>7, PosicionesFinitas
  <2> QED
    BY <1>6, <2>1, FS_Subset
<1>9. /\ Cardinality(Hechas) \in Nat /\ Cardinality(Hechas') \in Nat
      /\ Cardinality(Hechas) <= Cardinality(Hechas')
  BY <1>6, <1>8, FS_Subset, FS_CardinalityType
<1>10. ASSUME r.i = lotes[t].i + 1, lotes[t].i <= Len(lotes[t].targets),
              lotes[t].targets = Slice(corte, t)
       PROVE  Cardinality(Hechas) + 1 <= Cardinality(Hechas')
  <2> DEFINE k0 == Offset(t) + lotes[t].i
  <2>1. k0 \in Puestos(t) /\ Offset(t) \in Nat
    BY <1>3, <1>10, SiguienteEsPendiente
  <2>2. k0 \in DOMAIN corte /\ k0 < Offset(t) + r.i
    BY <1>3, <1>10, <2>1 DEF Puestos
  <2>3. k0 \in Hechas'
    BY <1>1, <1>2, <2>1, <2>2 DEF Hechas
  <2>4. k0 \notin Hechas
    <3> SUFFICES ASSUME k0 \in Hechas PROVE FALSE
      OBVIOUS
    <3>1. PICK u \in Lotes :
            k0 \in Puestos(u) /\ (lotes[u].en = "fin" \/ k0 < Offset(u) + lotes[u].i)
      BY DEF Hechas
    <3>2. u = t
      <4> HIDE DEF k0
      <4> QED
        BY <2>1, <3>1, PuestosSeparados
    <3> QED
      BY <1>3, <1>5, <3>1, <3>2
  <2> HIDE DEF k0
  <2>5. Hechas \cup {k0} \subseteq Hechas'
    BY <1>6, <2>3
  <2>6. Cardinality(Hechas \cup {k0}) = Cardinality(Hechas) + 1
    BY <1>8, <2>4, FS_AddElement
  <2>7. Cardinality(Hechas \cup {k0}) <= Cardinality(Hechas')
    BY <1>8, <2>5, FS_Subset
  <2> QED
    BY <2>6, <2>7
<1> QED
  BY <1>9, <1>10

\* The slice goes on, and owes nothing when it ends.
Sigue(t, r) ==
  /\ lotes[t].en # "fin" /\ lotes[t].i <= r.i
  /\ r.en = "fin" => r.dS = 0 /\ r.dF = 0
\* What arrives in a step of slice t goes to what the slice owes, or from there to the job.
Cuadra(t, r) ==
  ~perdido' =>
    /\ ~perdido
    /\ Suma(recibido', Contactos) + (waSent + dudosos + lotes[t].dS)
         = Suma(recibido, Contactos) + (waSent' + dudosos' + r.dS)
\* And each message counted is for one position more.
Avanza(t, r) ==
  /\ r.i = lotes[t].i + 1 /\ lotes[t].i <= Len(lotes[t].targets)
  /\ lotes[t].targets = Slice(corte, t)
Cabe(t, r) ==
  ~movido' =>
    /\ ~movido
    /\ \/ waSent' + waFailed' + (r.dS + r.dF)
            <= waSent + waFailed + (lotes[t].dS + lotes[t].dF)
       \/ /\ waSent' + waFailed' + (r.dS + r.dF)
               = waSent + waFailed + (lotes[t].dS + lotes[t].dF) + 1
          /\ Avanza(t, r)

\* A step of one slice, of that kind, keeps the account.
LEMMA CuentaDelLote ==
  ASSUME ServicioInv, ServicioInv', CuentaInv, difusion.via = "propio",
         UNCHANGED <<difusion, corte>>, waTotal' \in {waTotal, Len(corte)},
         NEW t \in Lotes, NEW r \in Lote, LoteSano(r), PonLote(t, r),
         Sigue(t, r), Cuadra(t, r), Cabe(t, r)
  PROVE  CuentaInv'
<1> DEFINE a == Suma(recibido, Contactos)
           b == Suma(recibido', Contactos)
           s == Suma(DebeEnviados, Lotes)
           u == Suma(DebeEnviados', Lotes)
           m == Suma(Debe, Lotes)
           n == Suma(Debe', Lotes)
           h == Cardinality(Hechas)
           g == Cardinality(Hechas')
           x == lotes[t].dS
           y == r.dS
           p == lotes[t].dS + lotes[t].dF
           q == r.dS + r.dF
           w == waSent + dudosos
           v == waSent' + dudosos'
           k == waSent + waFailed
           l == waSent' + waFailed'
<1>1. TiposLotes /\ TiposLotes' /\ corte \in Seq(Contactos)
  BY DEF ServicioInv, TiposCorte
<1>2. w \in Nat /\ v \in Nat /\ k \in Nat /\ l \in Nat
  <2>1. /\ waSent \in Nat /\ waFailed \in Nat /\ dudosos \in Nat
        /\ waSent' \in Nat /\ waFailed' \in Nat /\ dudosos' \in Nat
    BY DEF ServicioInv, TiposJob
  <2>2. \A c, d \in Nat : c + d \in Nat
    OBVIOUS
  <2> QED
    BY ONLY <2>1, <2>2
<1>3. x \in Nat /\ y \in Nat /\ p \in Nat /\ q \in Nat
  <2>1. lotes[t].dS \in Nat /\ lotes[t].dF \in Nat /\ r.dS \in Nat /\ r.dF \in Nat
    BY <1>1 DEF TiposLotes, Lote
  <2> QED
    BY <2>1
<1>4. s \in Nat /\ m \in Nat
  BY <1>1, DeudasNaturales
<1>5. u \in Nat /\ n \in Nat
  <2>1. \A o \in Lotes : lotes'[o].dS \in Nat /\ lotes'[o].dF \in Nat
    BY <1>1 DEF TiposLotes, Lote
  <2>2. \A o \in Lotes : DebeEnviados'[o] \in Nat /\ Debe'[o] \in Nat
    BY <2>1 DEF DebeEnviados, Debe
  <2> QED
    BY <2>2, LotesFinitos, BloqueFinito
<1>6. u + x = s + y /\ n + p = m + q
  BY <1>1, SumaLotes
<1>7. h \in Nat /\ g \in Nat /\ h <= g /\ (Avanza(t, r) => h + 1 <= g)
  BY <1>1, HechasCrecen DEF Avanza, Sigue
<1>8. a \in Nat /\ b \in Nat
  <2>1. recibido \in [Contactos -> Nat] /\ recibido' \in [Contactos -> Nat]
    BY DEF ServicioInv, TiposJob
  <2> QED
    BY <2>1, ContactosFinitos, BloqueFinito
<1>9. ~perdido' => a = w + s /\ b + (w + x) = a + (v + y)
  BY DEF CuentaInv, Cuadra
<1>10. ~movido' => k + m <= h /\ (l + q <= k + p \/ (l + q = k + p + 1 /\ Avanza(t, r)))
  BY DEF CuentaInv, Cabe
<1> HIDE DEF a, b, s, u, m, n, h, g, x, y, p, q, w, v, k, l
<1>11. ~perdido' => b = v + u
  BY <1>2, <1>3, <1>4, <1>5, <1>6, <1>8, <1>9
<1>12. ~movido' => l + n <= g
  BY <1>2, <1>3, <1>4, <1>5, <1>6, <1>7, <1>10
<1>13. waTotal' \in {0, Len(corte')}
  BY DEF CuentaInv
<1>14. \A o \in Lotes : lotes'[o] = IF o = t THEN r ELSE lotes[o]
  BY <1>1 DEF PonLote, TiposLotes
<1>15. \A o \in Lotes : lotes'[o].en = "fin" => lotes'[o].dS = 0 /\ lotes'[o].dF = 0
  BY <1>14 DEF CuentaInv, Sigue
<1> QED
  BY <1>11, <1>12, <1>13, <1>15 DEF CuentaInv, b, u, n, g, v, l

\* When the process dies, a slice that owed something is a report lost; without it nothing
\* was on its way either.
LEMMA CuentaAlMorir ==
  ASSUME ServicioInv, ServicioInv', CuentaInv, MuereServicio, difusion.via = "propio",
         UNCHANGED <<difusion, corte>>
  PROVE  CuentaInv'
<1> DEFINE q == [SinLote EXCEPT !.en = "fin"]
<1>1. q.en = "fin" /\ q.dS = 0 /\ q.dF = 0
  BY SinLoteEsLote DEF Lote
<1>2. /\ lotes' = [t \in Lotes |-> IF lotes[t].en = "no" THEN lotes[t] ELSE q]
      /\ perdido' = (perdido \/ \E t \in Lotes : AMedio(t))
      /\ UNCHANGED <<waTotal, waSent, waFailed, movido>>
  BY DEF MuereServicio, job, cortes
<1> HIDE DEF q
<1>3. /\ TiposLotes /\ TiposLotes' /\ corte \in Seq(Contactos)
      /\ recibido \in [Contactos -> Nat] /\ recibido' \in [Contactos -> Nat]
      /\ waSent \in Nat /\ waFailed \in Nat /\ dudosos \in Nat /\ dudosos' \in Nat
  BY DEF ServicioInv, TiposCorte, TiposJob
<1>4. \A u \in Lotes : lotes[u].dS \in Nat /\ lotes[u].dF \in Nat /\ lotes[u].i \in Nat
  BY <1>3 DEF TiposLotes, Lote
<1>5. \A u \in Lotes : lotes[u].en = "no" => lotes[u].dS = 0 /\ lotes[u].dF = 0 /\ lotes[u].i = 1
  BY <1>3, SinLoteEsLote DEF TiposLotes, LoteSano
<1>6. \A u \in Lotes : lotes'[u].dS = 0 /\ lotes'[u].dF = 0
  BY <1>1, <1>2, <1>5
<1>7. Suma(DebeEnviados, Lotes)' = 0 /\ Suma(Debe, Lotes)' = 0
  <2>1. \A u \in Lotes : DebeEnviados'[u] = 0 /\ Debe'[u] = 0
    BY <1>6 DEF DebeEnviados, Debe
  <2> QED
    BY <2>1, SumaCero
<1>8. Suma(Debe, Lotes) \in Nat
  BY <1>3, DeudasNaturales
<1>9. Cardinality(Hechas) \in Nat /\ Cardinality(Hechas)' \in Nat
      /\ Cardinality(Hechas) <= Cardinality(Hechas)'
  <2>1. \A u \in Lotes : Puestos(u)' = Puestos(u)
    BY DEF Puestos
  <2>2. \A u \in Lotes : Offset(u) \in Nat
    BY OffsetNatural, ServiceAssumption
  <2>3. Hechas \subseteq Hechas'
    <3> SUFFICES ASSUME NEW k \in Hechas PROVE k \in Hechas'
      OBVIOUS
    <3>1. PICK u \in Lotes :
            k \in Puestos(u) /\ (lotes[u].en = "fin" \/ k < Offset(u) + lotes[u].i)
      BY DEF Hechas
    <3>2. k \in DOMAIN corte /\ k \in Nat /\ Offset(u) < k
      BY <1>3, <3>1 DEF Puestos
    <3>3. lotes[u].en # "no"
      BY <1>5, <2>2, <3>1, <3>2
    <3>4. lotes'[u].en = "fin"
      BY <1>1, <1>2, <3>3
    <3> QED
      BY <2>1, <3>1, <3>2, <3>4 DEF Hechas
  <2>4. Len(corte) \in Nat /\ Hechas' \in SUBSET (1..Len(corte))
    <3>1. DOMAIN corte' = 1..Len(corte) /\ Len(corte) \in Nat
      BY <1>3
    <3> QED
      BY <3>1 DEF Hechas
  <2>5. IsFiniteSet(Hechas) /\ IsFiniteSet(Hechas')
    <3>1. IsFiniteSet(Hechas')
      BY <2>4, PosicionesFinitas
    <3> QED
      BY <2>3, <3>1, FS_Subset
  <2> QED
    BY <2>3, <2>5, FS_Subset, FS_CardinalityType
<1>10. ~perdido' => Suma(recibido', Contactos)
                      = waSent' + dudosos' + Suma(DebeEnviados, Lotes)'
  <2> SUFFICES ASSUME ~perdido'
               PROVE  Suma(recibido', Contactos) = waSent' + dudosos' + Suma(DebeEnviados, Lotes)'
    OBVIOUS
  <2>1. ~perdido /\ \A t \in Lotes : ~AMedio(t)
    BY <1>2
  <2>2. \A t \in Lotes : lotes[t].en # "vuelo" /\ ~(lotes[t].dS + lotes[t].dF > 0)
    BY <2>1 DEF AMedio
  <2>3. \A t \in Lotes : lotes[t].dS = 0
    BY <1>4, <2>2
  <2>4. Suma(DebeEnviados, Lotes) = 0
    <3>1. \A u \in Lotes : DebeEnviados[u] = 0
      BY <2>3 DEF DebeEnviados
    <3> QED
      BY <3>1, SumaCero
  <2>5. EnVuelo = {}
    BY <2>2 DEF EnVuelo
  <2> DEFINE suyos(L, c) == {t \in L : lotes[t].targets[lotes[t].i] = c}
  <2>6. PICK L \in SUBSET EnVuelo :
          /\ recibido' = [c \in Contactos |-> recibido[c] + Cardinality(suyos(L, c))]
          /\ dudosos' = dudosos + Cardinality(L)
    BY DEF MuereServicio
  <2>7. L = {} /\ \A c \in Contactos : suyos(L, c) = {}
    BY <2>5
  <2>8. Cardinality(L) = 0 /\ \A c \in Contactos : Cardinality(suyos(L, c)) = 0
    BY <2>7, FS_EmptySet
  <2> HIDE DEF suyos
  <2>9. recibido' = recibido /\ dudosos' = dudosos
    BY <1>3, <2>6, <2>8
  <2>10. Suma(recibido, Contactos) = waSent + dudosos + Suma(DebeEnviados, Lotes)
    BY <2>1 DEF CuentaInv
  <2> QED
    BY <1>2, <1>7, <2>4, <2>9, <2>10
<1>11. ~movido' => waSent' + waFailed' + Suma(Debe, Lotes)' <= Cardinality(Hechas)'
  <2> SUFFICES ASSUME ~movido'
               PROVE  waSent' + waFailed' + Suma(Debe, Lotes)' <= Cardinality(Hechas)'
    OBVIOUS
  <2>1. waSent + waFailed + Suma(Debe, Lotes) <= Cardinality(Hechas)
    BY <1>2 DEF CuentaInv
  <2>2. waSent' = waSent /\ waFailed' = waFailed
    BY <1>2
  <2> QED
    BY <1>3, <1>7, <1>8, <1>9, <2>1, <2>2
<1>12. waTotal' \in {0, Len(corte')}
  BY <1>2 DEF CuentaInv
<1> QED
  BY <1>6, <1>10, <1>11, <1>12 DEF CuentaInv

\* Whatever a step puts in place of a slice is a sound slice.
LEMMA LoteTrasPon ==
  ASSUME ServicioInv, ServicioInv', NEW t \in Lotes, NEW r, PonLote(t, r)
  PROVE  r \in Lote /\ LoteSano(r)
<1>1. TiposLotes /\ TiposLotes'
  BY DEF ServicioInv
<1>2. lotes'[t] = r
  BY <1>1 DEF PonLote, TiposLotes
<1> QED
  BY <1>1, <1>2 DEF TiposLotes

\* A step of a slice in which nothing is sent or reported.
LEMMA CuentaQuieta ==
  ASSUME ServicioInv, NEW t \in Lotes, NEW r, r.dS = lotes[t].dS, r.dF = lotes[t].dF,
         UNCHANGED <<recibido, dudosos, perdido, waSent, waFailed>>, movido => movido'
  PROVE  Cuadra(t, r) /\ Cabe(t, r)
<1>1. Cuadra(t, r)
  BY DEF Cuadra
<1>2. waSent + waFailed + (r.dS + r.dF) <= waSent + waFailed + (lotes[t].dS + lotes[t].dF)
  <2>1. \A a \in Nat : a <= a
    OBVIOUS
  <2>2. /\ waSent \in Nat /\ waFailed \in Nat /\ lotes[t].dS \in Nat /\ lotes[t].dF \in Nat
    BY DEF ServicioInv, TiposJob, TiposLotes, Lote
  <2>3. waSent + waFailed + (lotes[t].dS + lotes[t].dF) \in Nat
    BY <2>2
  <2> QED
    BY <2>1, <2>3
<1>3. Cabe(t, r)
  BY <1>2 DEF Cabe
<1> QED
  BY <1>1, <1>3

\* Every step keeps the account, those of the slices and the death of the process too.
LEMMA CuentaSeMantiene ==
  ASSUME ServicioInv, ContadoInv, UnaInv, CuentaInv, [Next]_vars
  PROVE  CuentaInv'
<1>1. UNCHANGED difusion /\ ServicioInv'
  BY QuienToca, ServicioSeMantiene
<1>2. CASE difusion.via # "propio"
  BY <1>1, <1>2 DEF CuentaInv
<1> SUFFICES ASSUME difusion.via = "propio" PROVE CuentaInv'
  BY <1>2
<1>3. /\ \A u \in Lotes : /\ lotes[u] \in Lote /\ LoteSano(lotes[u])
                          /\ lotes[u].i \in Nat /\ lotes[u].dS \in Nat /\ lotes[u].dF \in Nat
      /\ waSent \in Nat /\ waFailed \in Nat /\ dudosos \in Nat
      /\ recibido \in [Contactos -> Nat] /\ corte \in Seq(Contactos)
  BY DEF ServicioInv, TiposLotes, Lote, TiposJob, TiposCorte
<1>4. CASE Cuenta
  <2>1. /\ ~contado /\ UNCHANGED <<lotes, recibido, dudosos, perdido, movido>>
        /\ UNCHANGED <<waTotal, waSent, waFailed>>
    BY <1>4 DEF Cuenta, job
  <2>2. corte = <<>> /\ Len(corte) = 0
    BY <2>1 DEF ContadoInv
  <2>3. Hechas = {}
    BY <2>2 DEF Hechas
  <2>4. Cardinality(Hechas) = 0
    BY <2>3, FS_EmptySet
  <2>5. Cardinality(Hechas)' \in Nat
    <3>1. corte' \in Seq(Contactos)
      BY <1>1 DEF ServicioInv, TiposCorte
    <3>2. Len(corte') \in Nat /\ DOMAIN corte' = 1..Len(corte')
      BY <3>1
    <3>3. Hechas' \in SUBSET (1..Len(corte'))
      BY <3>2 DEF Hechas
    <3> QED
      BY <3>2, <3>3, PosicionesFinitas
  <2>6. DebeEnviados' = DebeEnviados /\ Debe' = Debe
    BY <2>1 DEF DebeEnviados, Debe
  <2>7. Suma(Debe, Lotes) \in Nat
    BY DeudasNaturales DEF ServicioInv
  <2>8. ~movido => waSent + waFailed + Suma(Debe, Lotes) <= 0
    BY <2>4 DEF CuentaInv
  <2>9. ~movido => waSent' + waFailed' + Suma(Debe', Lotes) <= Cardinality(Hechas)'
    BY <1>3, <2>1, <2>5, <2>6, <2>7, <2>8
  <2>10. waTotal' \in {0, Len(corte')}
    BY <2>1, <2>2 DEF CuentaInv
  <2> QED
    BY <2>1, <2>6, <2>9, <2>10 DEF CuentaInv
<1>5. CASE UNCHANGED corte
  <2>1. CASE UNCHANGED <<lotes, recibido, dudosos, perdido, job, movido>>
    <3>1. DebeEnviados' = DebeEnviados /\ Debe' = Debe /\ Hechas' = Hechas
      BY <1>5, <2>1 DEF DebeEnviados, Debe, Hechas, Puestos
    <3> QED
      BY <1>5, <2>1, <3>1 DEF CuentaInv, job
  <2>2. ASSUME NEW t \in Lotes, NEW r, PonLote(t, r), Sigue(t, r), Cuadra(t, r), Cabe(t, r),
               waTotal' \in {waTotal, Len(corte)}
        PROVE  CuentaInv'
    BY <1>1, <1>5, <2>2, LoteTrasPon, CuentaDelLote
  <2>3. ASSUME NEW t \in Lotes, Send(t) PROVE CuentaInv'
    <3>1. /\ lotes[t].en = "no" /\ UNCHANGED <<recibido, dudosos, perdido, job>>
          /\ movido => movido'
      BY <2>3 DEF Send, PorPedir
    <3>2. lotes[t] = SinLote
      BY <1>3, <3>1 DEF LoteSano
    <3> DEFINE en == IF Offset(t) = 0 THEN "total" ELSE "envia"
               p == [SinLote EXCEPT !.en = en, !.gen = gen, !.targets = Slice(resolverTargets, t)]
               q == [lotes[t] EXCEPT !.en = "fin"]
    <3>3. PICK r \in {p, q} : PonLote(t, r)
      BY <2>3 DEF Send, Pasa
    <3>4. r.dS = 0 /\ r.dF = 0 /\ r.i = 1
      BY <3>2, <3>3, SinLoteEsLote DEF Lote
    <3> HIDE DEF p, q
    <3>5. lotes[t].dS = 0 /\ lotes[t].dF = 0 /\ lotes[t].i = 1
      BY <3>2, SinLoteEsLote
    <3>6. Sigue(t, r)
      BY <3>1, <3>4, <3>5 DEF Sigue
    <3>7. Cuadra(t, r) /\ Cabe(t, r)
      BY <3>1, <3>4, <3>5, CuentaQuieta DEF job
    <3> QED
      BY <2>2, <3>1, <3>3, <3>6, <3>7 DEF job
  <2>4. ASSUME NEW t \in Lotes, FijaTotal(t) PROVE CuentaInv'
    <3> DEFINE r == [lotes[t] EXCEPT !.en = "envia"]
    <3>1. /\ lotes[t].en = "total" /\ PonLote(t, r)
          /\ UNCHANGED <<recibido, dudosos, perdido, movido, waSent, waFailed>>
          /\ waTotal' \in {waTotal, Len(corte)}
      BY <2>4 DEF FijaTotal, Pasa, cortes
    <3>2. r.dS = lotes[t].dS /\ r.dF = lotes[t].dF /\ r.i = lotes[t].i /\ r.en = "envia"
      BY <1>3 DEF Lote
    <3> HIDE DEF r
    <3>3. Sigue(t, r)
      BY <1>3, <3>1, <3>2 DEF Sigue
    <3>4. Cuadra(t, r) /\ Cabe(t, r)
      BY <3>1, <3>2, CuentaQuieta
    <3> QED
      BY <2>2, <3>1, <3>3, <3>4
  <2>5. ASSUME NEW t \in Lotes, Envia(t) PROVE CuentaInv'
    <3> DEFINE p == [lotes[t] EXCEPT !.en = "resto"]
               q == [lotes[t] EXCEPT !.en = "vuelo", !.abierto = Actual(t)]
    <3>1. /\ lotes[t].en = "envia"
          /\ UNCHANGED <<recibido, dudosos, perdido, movido, job>>
      BY <2>5 DEF Envia, cortes
    <3>2. PICK r \in {p, q} : PonLote(t, r)
      BY <2>5 DEF Envia, Pasa
    <3>3. /\ r.dS = lotes[t].dS /\ r.dF = lotes[t].dF /\ r.i = lotes[t].i
          /\ r.en \in {"resto", "vuelo"}
      BY <1>3, <3>2 DEF Lote
    <3> HIDE DEF p, q
    <3>4. Sigue(t, r)
      BY <1>3, <3>1, <3>3 DEF Sigue
    <3>5. Cuadra(t, r) /\ Cabe(t, r)
      BY <3>1, <3>3, CuentaQuieta DEF job
    <3> QED
      BY <2>2, <3>1, <3>2, <3>4, <3>5 DEF job
  <2>6. ASSUME NEW t \in Lotes, Resulta(t) PROVE CuentaInv'
    <3> DEFINE c == lotes[t].targets[lotes[t].i]
               mas == [recibido EXCEPT ![c] = @ + 1]
               en(s, f) == IF lotes[t].dS + s + lotes[t].dF + f >= Cada THEN "reporta" ELSE "envia"
               r(s, f) == [lotes[t] EXCEPT !.i = @ + 1, !.dS = @ + s, !.dF = @ + f,
                                           !.abierto = FALSE, !.en = en(s, f)]
    <3>1. lotes[t].en = "vuelo" /\ UNCHANGED <<job, perdido, movido>>
      BY <2>6 DEF Resulta, cortes
    <3>2. \/ PonLote(t, r(1, 0)) /\ recibido' = mas /\ UNCHANGED dudosos
          \/ PonLote(t, r(0, 1)) /\ UNCHANGED <<recibido, dudosos>>
          \/ PonLote(t, r(0, 1)) /\ recibido' = mas /\ dudosos' = dudosos + 1
      BY <2>6 DEF Resulta, Contado
    <3>3. ASSUME NEW s \in {0, 1}, NEW f \in {0, 1}
          PROVE  /\ r(s, f).dS = lotes[t].dS + s /\ r(s, f).dF = lotes[t].dF + f
                 /\ r(s, f).i = lotes[t].i + 1 /\ r(s, f).en \in {"reporta", "envia"}
      BY <1>3 DEF Lote
    <3> HIDE DEF r, en
    <3>4. lotes[t].i >= 1 /\ lotes[t].i <= Len(lotes[t].targets) /\ lotes[t].targets # <<>>
      <4>1. lotes[t].i >= 1 /\ lotes[t].i <= Len(lotes[t].targets)
        BY <1>3, <3>1 DEF LoteSano
      <4>2. Len(<<>>) = 0
        OBVIOUS
      <4> QED
        BY <1>3, <4>1, <4>2
    <3>5. c \in Contactos
      BY <1>3, <3>4 DEF Lote
    <3>6. Suma(mas, Contactos) = Suma(recibido, Contactos) + 1
          /\ Suma(recibido, Contactos) \in Nat
      <4> HIDE DEF c
      <4>1. \A x \in Contactos : recibido[x] \in Nat /\ mas[x] \in Nat
        BY <1>3, <3>5
      <4>2. \A x \in Contactos \ {c} : recibido[x] = mas[x]
        BY <1>3
      <4>3. mas[c] = recibido[c] + 1
        BY <1>3, <3>5
      <4>4. Suma(recibido, Contactos) \in Nat /\ Suma(mas, Contactos) \in Nat
        BY <4>1, ContactosFinitos, BloqueFinito
      <4> HIDE DEF mas
      <4>5. Suma(mas, Contactos) + recibido[c] = Suma(recibido, Contactos) + mas[c]
        BY <3>5, <4>1, <4>2, ContactosFinitos, SumaCambia
      <4> QED
        BY <3>5, <4>1, <4>3, <4>4, <4>5
    <3> HIDE DEF mas, c
    <3>7. ~movido => lotes[t].targets = Slice(corte, t)
      BY <3>4 DEF UnaInv
    <3>8. ASSUME NEW s \in {0, 1}, NEW f \in {0, 1}, s + f = 1
          PROVE  Sigue(t, r(s, f)) /\ Cabe(t, r(s, f))
      <4>1. Sigue(t, r(s, f))
        BY <1>3, <3>1, <3>3 DEF Sigue
      <4>2. waSent + waFailed + (r(s, f).dS + r(s, f).dF)
              = waSent + waFailed + (lotes[t].dS + lotes[t].dF) + 1
        <5>1. \A w, x, y, a, b \in Nat : a + b = 1 => w + ((x + a) + (y + b)) = w + (x + y) + 1
          OBVIOUS
        <5>2. waSent + waFailed \in Nat /\ s \in Nat /\ f \in Nat
          BY <1>3
        <5>3. waSent + waFailed + ((lotes[t].dS + s) + (lotes[t].dF + f))
                = waSent + waFailed + (lotes[t].dS + lotes[t].dF) + 1
          BY <1>3, <3>8, <5>1, <5>2
        <5> QED
          BY <3>3, <5>3
      <4>3. ~movido => Avanza(t, r(s, f))
        BY <3>3, <3>4, <3>7 DEF Avanza
      <4>4. Cabe(t, r(s, f))
        BY <3>1, <4>2, <4>3 DEF Cabe, job
      <4> QED
        BY <4>1, <4>4
    <3>9. CASE PonLote(t, r(1, 0)) /\ recibido' = mas /\ UNCHANGED dudosos
      <4>1. r(1, 0).dS = lotes[t].dS + 1
        BY <3>3
      <4>2. Suma(mas, Contactos) + (waSent + dudosos + lotes[t].dS)
              = Suma(recibido, Contactos) + (waSent + dudosos + r(1, 0).dS)
        <5>1. \A a, w, d, x \in Nat : (a + 1) + (w + d + x) = a + (w + d + (x + 1))
          OBVIOUS
        <5>2. /\ Suma(recibido, Contactos) \in Nat /\ waSent \in Nat /\ dudosos \in Nat
              /\ lotes[t].dS \in Nat
          BY <1>3, <3>6
        <5>3. (Suma(recibido, Contactos) + 1) + (waSent + dudosos + lotes[t].dS)
                = Suma(recibido, Contactos) + (waSent + dudosos + (lotes[t].dS + 1))
          BY <5>1, <5>2
        <5> QED
          BY <3>6, <4>1, <5>3
      <4>3. Cuadra(t, r(1, 0))
        BY <3>1, <3>9, <4>2 DEF Cuadra, job
      <4> QED
        BY <2>2, <3>1, <3>8, <3>9, <4>3 DEF job
    <3>10. CASE PonLote(t, r(0, 1)) /\ UNCHANGED <<recibido, dudosos>>
      <4>1. r(0, 1).dS = lotes[t].dS
        BY <1>3, <3>3
      <4>2. Cuadra(t, r(0, 1))
        BY <3>1, <3>10, <4>1 DEF Cuadra, job
      <4> QED
        BY <2>2, <3>1, <3>8, <3>10, <4>2 DEF job
    <3>11. CASE PonLote(t, r(0, 1)) /\ recibido' = mas /\ dudosos' = dudosos + 1
      <4>1. r(0, 1).dS = lotes[t].dS
        BY <1>3, <3>3
      <4>2. Suma(mas, Contactos) + (waSent + dudosos + lotes[t].dS)
              = Suma(recibido, Contactos) + (waSent + (dudosos + 1) + r(0, 1).dS)
        <5>1. \A a, w, d, x \in Nat : (a + 1) + (w + d + x) = a + (w + (d + 1) + x)
          OBVIOUS
        <5>2. /\ Suma(recibido, Contactos) \in Nat /\ waSent \in Nat /\ dudosos \in Nat
              /\ lotes[t].dS \in Nat
          BY <1>3, <3>6
        <5>3. (Suma(recibido, Contactos) + 1) + (waSent + dudosos + lotes[t].dS)
                = Suma(recibido, Contactos) + (waSent + (dudosos + 1) + lotes[t].dS)
          BY <5>1, <5>2
        <5> QED
          BY <3>6, <4>1, <5>3
      <4>3. Cuadra(t, r(0, 1))
        BY <3>1, <3>11, <4>2 DEF Cuadra, job
      <4> QED
        BY <2>2, <3>1, <3>8, <3>11, <4>3 DEF job
    <3> QED
      BY <3>2, <3>9, <3>10, <3>11
  <2>7. ASSUME NEW t \in Lotes, Incr(t) PROVE CuentaInv'
    <3> DEFINE r == Reportado(t)
    <3>1. /\ lotes[t].en \in {"reporta", "resto"} /\ PonLote(t, r)
          /\ UNCHANGED <<recibido, dudosos, movido, waTotal>>
          /\ \/ /\ waSent' = waSent + lotes[t].dS /\ waFailed' = waFailed + lotes[t].dF
                /\ UNCHANGED perdido
             \/ perdido' = TRUE /\ UNCHANGED <<waSent, waFailed>>
      BY <2>7 DEF Incr, cortes
    <3>2. r.dS = 0 /\ r.dF = 0 /\ r.i = lotes[t].i
      BY <1>3 DEF Reportado, Lote
    <3> HIDE DEF r
    <3>3. Sigue(t, r)
      BY <1>3, <3>1, <3>2 DEF Sigue
    <3>4. Cuadra(t, r)
      <4>1. waSent + lotes[t].dS + dudosos + r.dS = waSent + dudosos + lotes[t].dS
        BY <1>3, <3>2
      <4>2. CASE perdido' = TRUE
        BY <4>2 DEF Cuadra
      <4>3. CASE waSent' = waSent + lotes[t].dS /\ UNCHANGED perdido
        BY <3>1, <4>1, <4>3 DEF Cuadra
      <4> QED
        BY <3>1, <4>2, <4>3
    <3>5. Cabe(t, r)
      <4>1. waSent' + waFailed' + (r.dS + r.dF)
              <= waSent + waFailed + (lotes[t].dS + lotes[t].dF)
        <5>1. CASE UNCHANGED <<waSent, waFailed>>
          BY <1>3, <3>2, <5>1
        <5>2. CASE waSent' = waSent + lotes[t].dS /\ waFailed' = waFailed + lotes[t].dF
          <6>1. \A w, v, x, y \in Nat : (w + x) + (v + y) + (0 + 0) <= w + v + (x + y)
            OBVIOUS
          <6> QED
            BY <1>3, <3>2, <5>2, <6>1
        <5> QED
          BY <3>1, <5>1, <5>2
      <4> QED
        BY <3>1, <4>1 DEF Cabe
    <3> QED
      BY <2>2, <3>1, <3>3, <3>4, <3>5
  <2>8. ASSUME NEW t \in Lotes, HubAbre(t) \/ HubEnvia(t) PROVE FALSE
    BY <2>8 DEF HubAbre, HubEnvia
  <2>9. CASE MuereServicio
    BY <1>1, <1>5, <2>9, CuentaAlMorir
  <2> QED
    BY <2>1, <2>3, <2>4, <2>5, <2>6, <2>7, <2>8, <2>9, QuienToca
<1> QED
  BY <1>4, <1>5, QuienToca

\* With every slice at rest and no report lost, wa_sent is what arrived, but for messages
\* counted as failed that arrived all the same; and while the targets stay those that were
\* counted, what was sent and what failed fit in wa_total.
THEOREM ExactCount == Spec => []CuentaExacta
<1> DEFINE Inv == ServicioInv /\ ContadoInv /\ UnaInv /\ CuentaInv
<1>1. Init => Inv
  <2> SUFFICES ASSUME Init PROVE ContadoInv /\ UnaInv /\ CuentaInv
    BY ServicioAlEmpezar
  <2>1. /\ corte = <<>> /\ recibido = SinFallos /\ contado = FALSE
        /\ lotes = [t \in Lotes |-> SinLote]
        /\ waTotal = 0 /\ waSent = 0 /\ waFailed = 0 /\ dudosos = 0
    BY DEF Init
  <2>2. ContadoInv
    BY <2>1, SinLoteEsLote DEF ContadoInv
  <2>3. \A t \in Lotes : Pendientes(t) = {}
    BY <2>1 DEF Pendientes, Puestos
  <2>4. UnaInv
    BY <2>1, <2>3, SinLoteEsLote DEF UnaInv, SinFallos
  <2>5. \A t \in Lotes : /\ DebeEnviados[t] = 0 /\ Debe[t] = 0
                         /\ lotes[t].dS = 0 /\ lotes[t].dF = 0
    BY <2>1, SinLoteEsLote DEF DebeEnviados, Debe
  <2>6. /\ Suma(DebeEnviados, Lotes) = 0 /\ Suma(Debe, Lotes) = 0
        /\ Suma(recibido, Contactos) = 0
    BY <2>1, <2>5, SumaCero DEF SinFallos
  <2>7. Hechas = {}
    BY <2>1 DEF Hechas
  <2>8. Cardinality(Hechas) = 0
    BY <2>7, FS_EmptySet
  <2>9. CuentaInv
    BY <2>1, <2>5, <2>6, <2>8 DEF CuentaInv
  <2> QED
    BY <2>2, <2>4, <2>9
<1>2. Inv /\ [Next]_vars => Inv'
  BY ServicioSeMantiene, ContadoSeMantiene, UnaSeMantiene, CuentaSeMantiene
<1>3. Inv => CuentaExacta
  <2> SUFFICES ASSUME Inv, difusion.via = "propio", EnReposo, ~perdido
               PROVE  /\ MapThenSumSet(LAMBDA c : recibido[c], Contactos) = waSent + dudosos
                      /\ waTotal > 0 /\ ~movido => waSent + waFailed <= waTotal
    BY DEF CuentaExacta
  <2>1. /\ TiposLotes /\ waSent \in Nat /\ waFailed \in Nat /\ dudosos \in Nat
        /\ recibido \in [Contactos -> Nat] /\ corte \in Seq(Contactos)
    BY DEF ServicioInv, TiposJob, TiposCorte
  <2>2. \A t \in Lotes : lotes[t].dS = 0 /\ lotes[t].dF = 0
    <3> SUFFICES ASSUME NEW t \in Lotes PROVE lotes[t].dS = 0 /\ lotes[t].dF = 0
      OBVIOUS
    <3>1. CASE lotes[t].en = "no"
      BY <2>1, <3>1, SinLoteEsLote DEF TiposLotes, LoteSano
    <3>2. CASE lotes[t].en = "fin"
      BY <3>2 DEF CuentaInv
    <3> QED
      BY <3>1, <3>2 DEF EnReposo
  <2>3. Suma(DebeEnviados, Lotes) = 0 /\ Suma(Debe, Lotes) = 0
    <3>1. \A t \in Lotes : DebeEnviados[t] = 0 /\ Debe[t] = 0
      BY <2>2 DEF DebeEnviados, Debe
    <3> QED
      BY <3>1, SumaCero
  <2>4. MapThenSumSet(LAMBDA c : recibido[c], Contactos) = Suma(recibido, Contactos)
    BY <2>1, ContactosFinitos, EsSuma
  <2>5. Suma(recibido, Contactos) = waSent + dudosos
    BY <2>1, <2>3 DEF CuentaInv
  <2>6. ASSUME waTotal > 0, ~movido PROVE waSent + waFailed <= waTotal
    <3>1. waTotal = Len(corte)
      BY <2>6 DEF CuentaInv
    <3>2. Len(corte) \in Nat /\ Hechas \in SUBSET (1..Len(corte))
      BY <2>1 DEF Hechas
    <3>3. Cardinality(Hechas) \in Nat /\ Cardinality(Hechas) <= Len(corte)
      BY <3>2, PosicionesFinitas
    <3>4. waSent + waFailed <= Cardinality(Hechas)
      BY <2>1, <2>3, <2>6 DEF CuentaInv
    <3> QED
      BY <2>1, <3>1, <3>2, <3>3, <3>4
  <2> QED
    BY <2>4, <2>5, <2>6
<1> QED
  BY <1>1, <1>2, <1>3, PTL DEF Spec
=============================================================================
