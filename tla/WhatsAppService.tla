---------------------------- MODULE WhatsAppService ----------------------------
(***************************************************************************)
(* The sending of whatsapp-service over WhatsAppSocket: the slices that    *)
(* POST /send accepts and enviarLote sends in the background, one await at *)
(* a time, the address book, the failures that exclude a contact by        *)
(* themselves (opt-out) and what of it is kept in DynamoDB. And the other  *)
(* transport, HubWhatsAppForwarder, which sends the slice itself, message  *)
(* by message, within its budget of time.                                  *)
(***************************************************************************)
EXTENDS WhatsAppSocket, Sequences, FiniteSets, FiniteSetsExt, Functions

CONSTANTS
  NumContactos,  \* jids, numbered in their sorting order
  Tardios,       \* those WhatsApp tells of later (contacts.upsert, messages.upsert)
  Difusiones,    \* [bounds -> the broadcasts to try with them]
  BatchSize,     \* contacts per slice, as the dispatcher asks for them
  Umbral,        \* BLOQUEO_UMBRAL
  Cada           \* messages between two reports of progress (20)

Contactos == 1..NumContactos
\* The transport and the request: mode, list_ids in the order of the lists, exclude,
\* the contacts whose name matches exclude_patterns, and pattern_exceptions.
Difusion == [via : {"propio", "hub"}, modo : {"all", "only", "except"}, listas : Seq(Contactos),
             exclude : SUBSET Contactos, patron : SUBSET Contactos, excepto : SUBSET Contactos]
Lotes == 1..((NumContactos + BatchSize - 1) \div BatchSize)

ASSUME ServiceAssumption ==
  /\ NumContactos \in Nat /\ Tardios \subseteq Contactos
  /\ DOMAIN Difusiones = Cupos
  /\ \A c \in Cupos : \A d \in Difusiones[c] : d \in Difusion
  /\ BatchSize \in Nat \ {0} /\ Umbral \in Nat \ {0} /\ Cada \in Nat \ {0}

VARIABLES
  contacts, agenda,              \* address book: in memory, in DynamoDB
  contactsSaveTimer,
  failures, guardados,           \* failures of each jid: in memory, in DynamoDB
  failuresLoaded, failuresSaveTimer,
  persistFailuresFn,             \* is it set? (by the first start that works)
  escribiendo,                   \* writes of the failures in flight, in any number
  lotes,                         \* [slice -> its enviarLote, or its forward]
  difusion,                      \* the broadcast; it does not change
  contado,                       \* has POST /count been answered for the job?
  waTotal, waSent, waFailed,     \* fields of the job in Broadcasts
  recibido,                      \* [jid -> messages received]
  corte,                         \* the targets that /count counted
  movido,                        \* history: a slice was cut from other targets
  culpas,                        \* history: failures to blame on the contact, or on a
                                 \* socket that fell with its message on the way
  rancio,                        \* history: the socket was replaced while connected
  revivible,                     \* history: a clear of the failures may not have stuck
  perdido,                       \* history: a report of progress was lost
  dudosos                        \* history: received although counted as failed

libreta == <<contacts, agenda, contactsSaveTimer>>
optout == <<failures, guardados, failuresLoaded, failuresSaveTimer, persistFailuresFn,
            escribiendo>>
job == <<waTotal, waSent, waFailed>>
cortes == <<corte, movido>>
envioVars == <<libreta, optout, lotes, difusion, contado, job, recibido, cortes, culpas, rancio,
               revivible, perdido, dudosos>>
vars == <<socketVars, envioVars>>
-----------------------------------------------------------------------------
SinFallos == [c \in Contactos |-> 0]
Nada == <<>>                             \* escribiendo: no write in flight
SinLote == [en |-> "no", gen |-> 0, targets |-> <<>>, i |-> 1, dS |-> 0, dF |-> 0,
            abierto |-> FALSE]
Lote == [en : {"no", "total", "envia", "vuelo", "reporta", "resto", "fin"}, gen : Nat,
         targets : Seq(Contactos), i : Nat, dS : Nat, dF : Nat, abierto : BOOLEAN]

TypeOK ==
  /\ SocketTypeOK
  /\ contacts \in SUBSET Contactos /\ agenda \in SUBSET Contactos
  /\ contactsSaveTimer \in BOOLEAN
  /\ failures \in [Contactos -> Nat] /\ guardados \in [Contactos -> Nat]
  /\ failuresLoaded \in BOOLEAN /\ failuresSaveTimer \in BOOLEAN
  /\ persistFailuresFn \in BOOLEAN
  /\ escribiendo \in Seq([Contactos -> Nat])
  /\ lotes \in [Lotes -> Lote] /\ difusion \in Difusion
  /\ contado \in BOOLEAN /\ waTotal \in 0..NumContactos /\ waSent \in Nat /\ waFailed \in Nat
  /\ \A t \in Lotes : lotes[t].dS + lotes[t].dF <= Cada
  /\ recibido \in [Contactos -> Nat] /\ culpas \in [Contactos -> Nat]
  /\ corte \in Seq(Contactos) /\ IsInjective(corte) /\ movido \in BOOLEAN
  /\ rancio \in BOOLEAN /\ revivible \in BOOLEAN /\ perdido \in BOOLEAN
  /\ dudosos \in Nat

Init ==
  /\ SocketInit
  /\ contacts = {} /\ agenda = Contactos \ Tardios /\ contactsSaveTimer = FALSE
  /\ failures = SinFallos /\ guardados = SinFallos
  /\ failuresLoaded = FALSE /\ failuresSaveTimer = FALSE /\ escribiendo = Nada
  /\ persistFailuresFn = FALSE
  /\ lotes = [t \in Lotes |-> SinLote] /\ difusion \in Difusiones[cupo]
  /\ contado = FALSE /\ waTotal = 0 /\ waSent = 0 /\ waFailed = 0
  /\ recibido = SinFallos /\ culpas = SinFallos
  /\ corte = <<>> /\ movido = FALSE
  /\ rancio = FALSE /\ revivible = FALSE /\ perdido = FALSE /\ dudosos = 0
-----------------------------------------------------------------------------
(* Whom a slice goes to: resolverTargets of the service, and the targets   *)
(* of the hub adapter, which has no address book and keeps the order of    *)
(* the lists.                                                              *)

\* The numbers of a set, in ascending order: that of the jids, or of the positions.
Ordenados(S) ==
  [i \in 1..Cardinality(S) |-> CHOOSE x \in S : Cardinality({y \in S : y <= x}) = i]

EnListas(id) == \E i \in DOMAIN difusion.listas : difusion.listas[i] = id
\* The name matches a pattern, and no exception was made.
PorPatron(id) == id \in difusion.patron \ difusion.excepto
Elegible(id) ==
  /\ id \notin difusion.exclude /\ failures[id] < Umbral
  /\ CASE difusion.modo = "only" -> EnListas(id)
       [] difusion.modo = "except" -> ~EnListas(id) /\ ~PorPatron(id)
       [] difusion.modo = "all" -> ~PorPatron(id)
resolverTargets == Ordenados({id \in contacts : Elegible(id)})

\* The hub sends to lists only; and there pattern_exceptions lifts exclude.
HubPuede == difusion.modo = "only" /\ difusion.patron = {}
NoFuera(id) == id \notin difusion.exclude \/ id \in difusion.excepto
Mut_Primera(i) == TRUE
\* Repeated ids are dropped: the same person in two lists is one message.
Primera(i) == \A j \in 1..(i - 1) : difusion.listas[j] # difusion.listas[i]
destinos ==
  LET puestos == Ordenados({i \in DOMAIN difusion.listas :
                              NoFuera(difusion.listas[i]) /\ Primera(i)})
  IN  [k \in DOMAIN puestos |-> difusion.listas[puestos[k]]]

Resueltos == IF difusion.via = "hub" THEN destinos ELSE resolverTargets

\* offset and limit of slice t (dispatch.py), and [offset, offset + limit).
Offset(t) == (t - 1) * BatchSize
Limite(t) == LET resto == Len(corte) - Offset(t)
             IN  IF resto < BatchSize THEN resto ELSE BatchSize
Corta(s, de, fin) == SubSeq(s, de, IF fin > Len(s) THEN Len(s) ELSE fin)
Mut_Slice(s, t) == Corta(s, Offset(t) + 1, Offset(t) + Limite(t) + 1)
Slice(s, t) == Corta(s, Offset(t) + 1, Offset(t) + Limite(t))

\* POST /count, asked once for the job.
Cuenta ==
  /\ Turno /\ ~contado /\ Gasta("envio") /\ contado' = TRUE
  /\ difusion.via = "propio" \/ HubPuede
  /\ corte' = Resueltos
  /\ UNCHANGED <<socket, par, timers, pidiendo, qrs, avisos, clearOnStart, arranque, dynamo,
                 pares>>
  /\ UNCHANGED <<libreta, optout, lotes, difusion, job, recibido, movido, culpas, rancio,
                 revivible, perdido, dudosos>>

\* The dispatcher asks for the slices in order, each of them once.
PorPedir(t) ==
  /\ contado /\ Offset(t) < Len(corte)
  /\ lotes[t].en = "no" /\ \A u \in 1..(t - 1) : lotes[u].en # "no"
-----------------------------------------------------------------------------
(* POST /send and enviarLote.                                              *)

PonLote(t, r) == lotes' = [lotes EXCEPT ![t] = r]
Pasa(t, en) == PonLote(t, [lotes[t] EXCEPT !.en = en])

\* 409 while not connected: the dispatcher has claimed the slice and goes on.
Send(t) ==
  /\ Turno /\ difusion.via = "propio" /\ PorPedir(t)
  /\ IF connected # 0 /\ sock # "null"
       THEN /\ PonLote(t, [SinLote EXCEPT !.en = IF Offset(t) = 0 THEN "total" ELSE "envia",
                                          !.gen = gen, !.targets = Slice(resolverTargets, t)])
            /\ movido' = (movido \/ resolverTargets # corte)
       ELSE Pasa(t, "fin") /\ UNCHANGED movido
  /\ UNCHANGED <<socketVars, libreta, optout, difusion, contado, job, recibido, corte, culpas,
                 rancio, revivible, perdido, dudosos>>

\* bcSetTotal, best effort, in the first slice only.
FijaTotal(t) ==
  /\ Turno /\ lotes[t].en = "total" /\ Pasa(t, "envia")
  /\ \/ Bien /\ waTotal' = Len(corte)
     \/ Falla /\ UNCHANGED waTotal
  /\ UNCHANGED <<socket, par, timers, pidiendo, qrs, avisos, clearOnStart, arranque, dynamo,
                 pares>>
  /\ UNCHANGED <<libreta, optout, difusion, contado, waSent, waFailed, recibido, cortes, culpas,
                 rancio, revivible, perdido, dudosos>>

Actual(t) == lotes[t].gen = gen /\ sock = "abierto"
Mut_Aborta(t) == connected = 0
\* The socket was replaced, or the connection lost, between two messages.
Aborta(t) == lotes[t].gen # gen \/ connected = 0

\* The head of the loop: it ends, it aborts, or a message leaves.
Envia(t) ==
  /\ Turno /\ difusion.via = "propio" /\ lotes[t].en = "envia"
  /\ IF lotes[t].i > Len(lotes[t].targets) \/ Aborta(t)
       THEN Pasa(t, "resto")
       ELSE PonLote(t, [lotes[t] EXCEPT !.en = "vuelo", !.abierto = Actual(t)])
  /\ UNCHANGED <<socketVars, libreta, optout, difusion, contado, job, recibido, cortes, culpas,
                 rancio, revivible, perdido, dudosos>>

\* The message is counted, and the progress reported every so many.
Contado(t, s, f) ==
  LET r == lotes[t]
  IN  PonLote(t, [r EXCEPT !.i = @ + 1, !.dS = @ + s, !.dF = @ + f, !.abierto = FALSE,
                           !.en = IF r.dS + s + r.dF + f >= Cada THEN "reporta" ELSE "envia"])

\* A message sent clears the failures of its contact.
Limpio(c) ==
  /\ failures' = [failures EXCEPT ![c] = 0]
  /\ failuresSaveTimer' = (failuresSaveTimer \/ failures[c] > 0)

\* sendMessage answers. It fails through the contact, when the socket has fallen
\* meanwhile (the message may have arrived), or at once on a socket not open yet.
Resulta(t) ==
  LET c == lotes[t].targets[lotes[t].i]
  IN  /\ Turno /\ lotes[t].en = "vuelo"
      /\ \/ /\ Actual(t) /\ Bien /\ Limpio(c)
            /\ Contado(t, 1, 0)
            /\ recibido' = [recibido EXCEPT ![c] = @ + 1] /\ UNCHANGED <<culpas, dudosos>>
         \/ /\ IF Actual(t) THEN Falla ELSE Bien
            /\ failures' = [failures EXCEPT ![c] = @ + 1] /\ failuresSaveTimer' = TRUE
            /\ Contado(t, 0, 1)
            /\ culpas' = [culpas EXCEPT ![c] = @ + IF lotes[t].abierto THEN 1 ELSE 0]
            /\ \/ UNCHANGED <<recibido, dudosos>>
               \/ /\ lotes[t].abierto /\ ~Actual(t)
                  /\ recibido' = [recibido EXCEPT ![c] = @ + 1] /\ dudosos' = dudosos + 1
  /\ UNCHANGED <<socket, par, timers, pidiendo, qrs, avisos, clearOnStart, arranque, dynamo,
                 pares>>
  /\ UNCHANGED <<libreta, guardados, failuresLoaded, persistFailuresFn, escribiendo, difusion,
                 contado, job, cortes, rancio, revivible, perdido>>

Mut_Reportado(t) == [lotes[t] EXCEPT !.en = IF @ = "reporta" THEN "envia" ELSE "fin"]
Reportado(t) == [lotes[t] EXCEPT !.dS = 0, !.dF = 0,
                                 !.en = IF @ = "reporta" THEN "envia" ELSE "fin"]
\* bcIncr, best effort: after every Cada messages, and with the rest at the end.
Incr(t) ==
  /\ Turno /\ lotes[t].en \in {"reporta", "resto"}
  /\ PonLote(t, Reportado(t))
  /\ \/ /\ Bien /\ UNCHANGED perdido
        /\ waSent' = waSent + lotes[t].dS /\ waFailed' = waFailed + lotes[t].dF
     \/ /\ lotes[t].dS + lotes[t].dF > 0 /\ Falla
        /\ perdido' = TRUE /\ UNCHANGED <<waSent, waFailed>>
  /\ UNCHANGED <<socket, par, timers, pidiendo, qrs, avisos, clearOnStart, arranque, dynamo,
                 pares>>
  /\ UNCHANGED <<libreta, optout, difusion, contado, waTotal, recibido, cortes, culpas, rancio,
                 revivible, dudosos>>
-----------------------------------------------------------------------------
(* HubWhatsAppForwarder.forward, inside the invocation of the dispatcher.  *)

HubAbre(t) ==
  /\ difusion.via = "hub" /\ PorPedir(t)
  /\ PonLote(t, [SinLote EXCEPT !.en = "envia", !.targets = Slice(destinos, t)])
  /\ UNCHANGED <<socketVars, libreta, optout, difusion, contado, job, recibido, cortes, culpas,
                 rancio, revivible, perdido, dudosos>>

\* One message: sent, refused, or without an answer in time (it may have arrived);
\* it is never repeated. A permanent refusal ends the slice, and so does the budget of
\* time, which always allows for the first message.
HubEnvia(t) ==
  /\ difusion.via = "hub" /\ lotes[t].en = "envia"
  /\ LET r == lotes[t]
         c == r.targets[r.i]
         llega == recibido' = [recibido EXCEPT ![c] = @ + 1]
     IN  \/ /\ r.i <= Len(r.targets) /\ Bien /\ llega /\ UNCHANGED dudosos
            /\ PonLote(t, [r EXCEPT !.i = @ + 1])
         \/ /\ r.i <= Len(r.targets) /\ Falla
            /\ \E en \in {"envia", "fin"} : PonLote(t, [r EXCEPT !.i = @ + 1, !.en = en])
            /\ \/ UNCHANGED <<recibido, dudosos>>
               \/ llega /\ dudosos' = dudosos + 1
         \/ /\ r.i > 1 \/ r.targets = <<>>
            /\ Bien /\ Pasa(t, "fin") /\ UNCHANGED <<recibido, dudosos>>
  /\ UNCHANGED <<socket, par, timers, pidiendo, qrs, avisos, clearOnStart, arranque, dynamo,
                 pares>>
  /\ UNCHANGED <<libreta, optout, difusion, contado, job, cortes, culpas, rancio, revivible, perdido>>
-----------------------------------------------------------------------------
(* The address book and the opt-out.                                       *)

SinSocket == UNCHANGED <<socket, par, timers, pidiendo, qrs, avisos, clearOnStart, arranque,
                         dynamo, pares>>
SinEnvio == UNCHANGED <<lotes, difusion, contado, job, recibido, cortes, perdido, dudosos>>

\* recordContact, on an event of the current socket.
Conoce(c) ==
  /\ Turno /\ sock = "abierto" /\ c \notin contacts /\ Gasta("nuevo")
  /\ contacts' = contacts \cup {c} /\ contactsSaveTimer' = TRUE
  /\ SinSocket /\ SinEnvio /\ UNCHANGED <<agenda, optout, culpas, rancio, revivible>>

GuardaContactos ==
  /\ Turno /\ contactsSaveTimer /\ contactsSaveTimer' = FALSE
  /\ \/ Bien /\ agenda' = contacts
     \/ Falla /\ UNCHANGED agenda
  /\ SinSocket /\ SinEnvio /\ UNCHANGED <<contacts, optout, culpas, rancio, revivible>>

\* The debounce of scheduleSaveFailures ends: the write takes what there is now. The
\* timer is given up before the await, so that writes may overlap and land in any order.
GuardaFallos ==
  /\ Turno /\ failuresSaveTimer
  /\ failuresSaveTimer' = FALSE /\ escribiendo' = Append(escribiendo, failures)
  /\ SinEnvio /\ UNCHANGED <<socketVars, libreta, failures, guardados, failuresLoaded,
                             persistFailuresFn, culpas, rancio, revivible>>
SinLaDe(k) == [j \in 1..(Len(escribiendo) - 1) |-> escribiendo[IF j < k THEN j ELSE j + 1]]
Aterriza(k) ==
  /\ escribiendo' = SinLaDe(k)
  /\ \/ Bien /\ guardados' = escribiendo[k]
     \/ Falla /\ UNCHANGED guardados
  /\ SinSocket /\ SinEnvio
  /\ UNCHANGED <<libreta, failures, failuresLoaded, failuresSaveTimer, persistFailuresFn,
                 culpas, rancio, revivible>>

Sin(f, ids) == [c \in Contactos |-> IF c \in ids THEN 0 ELSE f[c]]
\* Best effort: without a function to write with, or when it fails, nothing is kept;
\* and an older write still in flight may land after this one.
flushFailures(m) ==
  \/ /\ persistFailuresFn /\ Gasta("limpia") /\ guardados' = m
     /\ revivible' = (revivible \/ escribiendo # Nada)
  \/ /\ ~persistFailuresFn /\ Gasta("limpia")
     /\ UNCHANGED guardados /\ revivible' = TRUE
  \/ /\ persistFailuresFn /\ cupo.limpia > 0 /\ cupo.fallo > 0
     /\ cupo' = [cupo EXCEPT !.limpia = @ - 1, !.fallo = @ - 1]
     /\ UNCHANGED guardados /\ revivible' = TRUE

\* POST /blocked/clear, of one contact or of all.
BlockedClear(ids) ==
  /\ Turno
  /\ failures' = Sin(failures, ids) /\ culpas' = Sin(culpas, ids)
  /\ failuresSaveTimer' = FALSE /\ flushFailures(failures')
  /\ SinSocket /\ SinEnvio
  /\ UNCHANGED <<libreta, failuresLoaded, persistFailuresFn, escribiendo, rancio>>
-----------------------------------------------------------------------------
(* The steps of the socket that the sending takes part in.                 *)

ArrancaServicio ==
  /\ Arranca /\ rancio' = (rancio \/ connected # 0)
  /\ SinEnvio /\ UNCHANGED <<libreta, optout, culpas, revivible>>

\* The items of contacts and failures share the prefix of the session.
LimpiaServicio ==
  /\ Limpia
  /\ IF clearOnStart' THEN agenda' \in {agenda, {}} ELSE agenda' = {}
  /\ IF clearOnStart' THEN guardados' \in {guardados, SinFallos} ELSE guardados' = SinFallos
  /\ SinEnvio
  /\ UNCHANGED <<contacts, contactsSaveTimer, failures, failuresLoaded, failuresSaveTimer,
                 persistFailuresFn, escribiendo, culpas, rancio, revivible>>

\* Object.assign: what is stored wins, key by key. The failures are loaded once (M19).
ConGuardados == [c \in Contactos |-> IF guardados[c] > 0 THEN guardados[c] ELSE failures[c]]
CreaServicio ==
  /\ Crea /\ persistFailuresFn' = TRUE
  /\ \/ /\ Bien /\ contacts' = contacts \cup agenda /\ failuresLoaded' = TRUE
        /\ failures' = IF failuresLoaded THEN failures ELSE ConGuardados
     \/ /\ Falla /\ contacts' = contacts /\ failuresLoaded' = TRUE
        /\ failures' = IF failuresLoaded THEN failures ELSE ConGuardados
     \/ /\ ~failuresLoaded /\ Falla /\ contacts' = contacts \cup agenda
        /\ UNCHANGED <<failures, failuresLoaded>>
  /\ SinEnvio
  /\ UNCHANGED <<agenda, contactsSaveTimer, guardados, failuresSaveTimer, escribiendo,
                 culpas, rancio, revivible>>

\* Everything in memory is lost; a message on its way may have arrived, and writes in
\* flight may have landed.
EnVuelo == {t \in Lotes : difusion.via = "propio" /\ lotes[t].en = "vuelo" /\ lotes[t].abierto}
AMedio(t) == lotes[t].en = "vuelo" \/ lotes[t].dS + lotes[t].dF > 0
MuereServicio ==
  /\ Muere
  /\ contacts' = {} /\ contactsSaveTimer' = FALSE
  /\ failures' = SinFallos /\ failuresLoaded' = FALSE /\ failuresSaveTimer' = FALSE
  /\ persistFailuresFn' = FALSE
  /\ guardados' \in {guardados} \cup Range(escribiendo) /\ escribiendo' = Nada
  /\ IF difusion.via = "hub" THEN UNCHANGED <<lotes, recibido, perdido, dudosos>> ELSE
       /\ lotes' = [t \in Lotes |-> IF lotes[t].en = "no" THEN lotes[t]
                                    ELSE [SinLote EXCEPT !.en = "fin"]]
       /\ perdido' = (perdido \/ \E t \in Lotes : AMedio(t))
       /\ \E llegan \in SUBSET EnVuelo :
            LET suyos(c) == {t \in llegan : lotes[t].targets[lotes[t].i] = c}
            IN  /\ recibido' = [c \in Contactos |-> recibido[c] + Cardinality(suyos(c))]
                /\ dudosos' = dudosos + Cardinality(llegan)
  /\ UNCHANGED <<agenda, difusion, contado, job, cortes, culpas, rancio, revivible>>

SocketSolo == SocketPaso /\ UNCHANGED envioVars

Next ==
  \/ ArrancaServicio \/ LimpiaServicio \/ CreaServicio \/ MuereServicio \/ SocketSolo
  \/ Cuenta
  \/ \E t \in Lotes : \/ Send(t) \/ FijaTotal(t) \/ Envia(t) \/ Resulta(t) \/ Incr(t)
                      \/ HubAbre(t) \/ HubEnvia(t)
  \/ \E c \in Contactos : Conoce(c)
  \/ GuardaContactos \/ GuardaFallos \/ \E k \in DOMAIN escribiendo : Aterriza(k)
  \/ \E ids \in {Contactos} \cup {{c} : c \in {x \in Contactos : failures[x] > 0}} :
       BlockedClear(ids)

Spec == Init /\ [][Next]_vars

\* The process does what it has queued or timed, and WhatsApp answers to a session.
SeMueve ==
  \/ ArrancaServicio \/ LimpiaServicio \/ CreaServicio
  \/ SocketSeMueve /\ UNCHANGED envioVars
FairSpec == Spec /\ WF_vars(SeMueve)
-----------------------------------------------------------------------------
\* A contact is counted failures (and, at the threshold, excluded from every later
\* broadcast) only for messages that failed through it, or that were on their way when
\* the socket fell: the abort of enviarLote (A10) spares the rest of the slice, and what
\* /blocked/clear erased does not come back (M19). Not so once the socket was replaced
\* while connected: the flag stays true, and everything sent before the new one opens
\* fails at once; nor when the write of a clear failed or was overtaken.
SoloFallosReales ==
  ~rancio /\ ~revivible => \A c \in Contactos : failures[c] <= culpas[c]

\* While the targets stay those that were counted, the slices do not overlap: nobody
\* receives the broadcast twice, whatever is lost, replaced or restarted in between.
NadieDosVeces == ~movido => \A c \in Contactos : recibido[c] <= 1

\* With every slice at rest and no report lost, wa_sent is exactly what arrived (but
\* for messages that arrived although their socket fell), and what was sent and what
\* failed stay within the total of the job while its targets stay the same.
EnReposo == \A t \in Lotes : lotes[t].en \in {"no", "fin"}
CuentaExacta ==
  difusion.via = "propio" /\ EnReposo /\ ~perdido =>
    /\ MapThenSumSet(LAMBDA c : recibido[c], Contactos) = waSent + dudosos
    /\ waTotal > 0 /\ ~movido => waSent + waFailed <= waTotal
=============================================================================
