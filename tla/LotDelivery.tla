----------------------------- MODULE LotDelivery -----------------------------
(***************************************************************************)
(* What happens to a lot once it is in SQS: the queue with its redelivery  *)
(* and its DLQ, the worker (entrypoints/worker.py) with its gates, its     *)
(* counters and its anti-ban strikes, DeliverBatch recipient by recipient, *)
(* and the marks of DynamoDbDedupStore that make a redelivery idempotent.  *)
(* Every call to DynamoDB or to Telegram is a step of its own.             *)
(*                                                                         *)
(* A piece of work is named by its dedup key: <<l, i, "texto">> is the     *)
(* message to recipient i of lot l, <<l, i, "foto">> its photo when the    *)
(* text does not fit in a caption, <<l, 0, "lote">> the counting of l.     *)
(***************************************************************************)
EXTENDS Integers, FiniteSets

CONSTANTS
  Workers,      \* invocations of the worker that may run at once
  Lotes,        \* messages in the queue, each with its batch_id
  Planes,       \* the broadcasts they belong to
  PlanDe,       \* [Lotes -> Planes]
  Manual,       \* broadcasts composed by the operator
  SinPlan,      \* broadcasts sent at once (encolar, scheduling off): their lots
                \* carry neither a pid nor the manual flag
  Dests,        \* [Lotes -> Nat]: number of chat_ids of the lot
  ConFoto,      \* lots with a photo that goes apart from the text
  MaxRecibe,    \* maxReceiveCount of the queue
  MaxFallos,    \* bound on crashes, failed calls and spurious redeliveries
  MaxCambios    \* bound on what the panel does

ASSUME LotDeliveryAssumption ==
  /\ PlanDe \in [Lotes -> Planes]
  /\ Manual \subseteq Planes /\ SinPlan \subseteq Planes
  /\ Dests \in [Lotes -> Nat]
  /\ ConFoto \subseteq Lotes
  /\ MaxRecibe \in Nat \ {0} /\ MaxFallos \in Nat /\ MaxCambios \in Nat

VARIABLES
  cola,      \* the message of each lot: where it is, how often received
  worker,    \* local state of each invocation of the worker
  marcas,    \* keys in the ProcessedUpdates table
  hechas,    \* history: how often each piece of work was really done
  riesgo,    \* history: pieces done, or to be done again, without a mark
  entro,     \* history: lots that passed the gate of the worker
  fallidos,  \* history: lots that failed whole
  bc,        \* counters of the job of each broadcast
  plan,      \* life of the plan of each broadcast
  activo, strikes,   \* sending_enabled and ban_strikes of the configuration
  racha,     \* history: automatic lots failed whole in a row, since one that
             \* reached somebody or since the operator resumed
  fallos, cambios    \* used part of MaxFallos and of MaxCambios

vars == <<cola, worker, marcas, hechas, riesgo, entro, fallidos, bc, plan,
          activo, strikes, racha, fallos, cambios>>
historia == <<entro, fallidos>>
config == <<activo, strikes, racha>>
dedup == <<marcas, hechas, riesgo>>
-----------------------------------------------------------------------------
Umbral == 2                                     \* _BAN_STRIKES_UMBRAL

Pieza == {"foto", "texto"}
Clave(l) == {<<l, 0, "lote">>} \cup {<<l, i, z>> : i \in 1..Dests[l], z \in Pieza}
Claves == UNION {Clave(l) : l \in Lotes}

Libre == [en |-> "libre", pausado |-> FALSE, i |-> 1, z |-> "texto",
          sent |-> 0, failed |-> 0, blocked |-> 0]
Ocupado == [en : {"puerta", "dest", "manda", "marca", "cuenta", "cierra", "reinicia",
                  "confirma", "strike", "pausa", "devuelve"},
            l : Lotes, pausado : BOOLEAN, i : Nat \ {0}, z : Pieza,
            sent : Nat, failed : Nat, blocked : Nat]

TypeOK ==
  /\ cola \in [Lotes -> [est : {"visible", "oculto", "borrado", "dlq", "purgado"},
                         recibos : 0..MaxRecibe]]
  /\ worker \in [Workers -> Ocupado \cup {Libre}]
  /\ marcas \subseteq Claves /\ riesgo \subseteq Claves
  /\ hechas \in [Claves -> Nat]
  /\ entro \subseteq Lotes /\ fallidos \subseteq Lotes
  /\ bc \in [Planes -> [vivo : BOOLEAN, sent : Nat, failed : Nat]]
  /\ plan \in [Planes -> {"vivo", "cancelado", "borrado"}]
  /\ activo \in BOOLEAN /\ strikes \in Nat /\ racha \in Nat
  /\ fallos \in 0..MaxFallos /\ cambios \in 0..MaxCambios

Init ==
  /\ cola = [l \in Lotes |-> [est |-> "visible", recibos |-> 0]]
  /\ worker = [w \in Workers |-> Libre]
  /\ marcas = {} /\ riesgo = {} /\ entro = {} /\ fallidos = {}
  /\ hechas = [k \in Claves |-> 0]
  /\ bc = [p \in Planes |-> [vivo |-> TRUE, sent |-> 0, failed |-> 0]]
  /\ plan = [p \in Planes |-> "vivo"]
  /\ activo = TRUE /\ strikes = 0 /\ racha = 0
  /\ fallos = 0 /\ cambios = 0
-----------------------------------------------------------------------------
(* The queue.                                                               *)

\* Mutants, to show that the properties notice: SQS counts one reception too
\* many; each delivery is a new message to it; only whole lots are looked up in
\* the dedup; the pause holds manual lots too; a blocked recipient is counted as
\* sent, or not counted.
Mut_Agotado(l) == cola[l].recibos > MaxRecibe
Mut_Recibido(msg) == [msg EXCEPT !.est = "oculto"]
Mut_procesado(k) == k[3] = "lote" /\ k \in marcas
Mut_Automatico(l) == TRUE
Mut_BloqueadoEnviado(b, t) ==
  IF b.vivo THEN [b EXCEPT !.sent = @ + t.sent + t.blocked, !.failed = @ + t.failed] ELSE b
Mut_SinBloqueados(b, t) ==
  IF b.vivo THEN [b EXCEPT !.sent = @ + t.sent, !.failed = @ + t.failed] ELSE b

\* Received maxReceiveCount times already: SQS moves it to the DLQ instead of
\* delivering it once more.
Agotado(l) == cola[l].recibos >= MaxRecibe
Recibido(msg) == [est |-> "oculto", recibos |-> msg.recibos + 1]
ADlq(l) ==
  /\ cola[l].est = "visible" /\ Agotado(l)
  /\ cola' = [cola EXCEPT ![l].est = "dlq"]
  /\ UNCHANGED <<worker, bc, plan, fallos, cambios>> /\ UNCHANGED <<dedup, historia, config>>

Falla == fallos < MaxFallos /\ fallos' = fallos + 1
\* A call that normally works and whose failure the code swallows.
Bien == UNCHANGED fallos

\* The worker is invoked with a message (BatchSize 1) and reads the pause first;
\* if the configuration cannot be read it goes on as if not paused.
Recibe(w, l) ==
  /\ worker[w].en = "libre"
  /\ cola[l].est = "visible" /\ ~Agotado(l)
  /\ cola' = [cola EXCEPT ![l] = Recibido(@)]
  /\ \E pausado \in {~activo, FALSE} :
       /\ worker' = [worker EXCEPT ![w] =
            [en |-> "puerta", l |-> l, pausado |-> pausado, i |-> 1, z |-> "texto",
             sent |-> 0, failed |-> 0, blocked |-> 0]]
       /\ IF pausado = ~activo THEN Bien ELSE Falla
  /\ UNCHANGED <<bc, plan, cambios>> /\ UNCHANGED <<dedup, historia, config>>

\* The message of the worker goes back to the queue, or leaves it.
Suelta(w, est) ==
  /\ cola' = [cola EXCEPT ![worker[w].l].est = est]
  /\ worker' = [worker EXCEPT ![w] = Libre]
Va(w, paso) == worker' = [worker EXCEPT ![w].en = paso]

\* The piece that a worker has done and not yet marked.
PorMarcar(t) ==
  CASE t.en = "marca" -> {<<t.l, t.i, t.z>>}
    [] t.en = "cierra" -> {<<t.l, 0, "lote">>}
    [] OTHER -> {}
\* The invocation dies or runs out of its 300 s; 360 s after it was received
\* the message is visible again. A piece just done stays without its mark.
Muere(w) ==
  /\ worker[w].en # "libre" /\ Falla
  /\ Suelta(w, "visible")
  /\ riesgo' = riesgo \cup PorMarcar(worker[w])
  /\ UNCHANGED <<marcas, hechas, bc, plan, cambios>> /\ UNCHANGED <<historia, config>>
-----------------------------------------------------------------------------
(* worker.lambda_handler: the gates, before anything is sent.               *)

\* DynamoDbDedupStore.procesado.
procesado(k) == k \in marcas

\* Lots without the manual flag, which only encolar_uno writes.
Automatico(l) == PlanDe[l] \notin Manual \ SinPlan
\* DynamoDbPlanStore.descartar, for the lots that carry a pid.
descartar(l) == PlanDe[l] \notin SinPlan /\ plan[PlanDe[l]] # "vivo"

\* Acknowledged without sending: paused and automatic, or plan canceled or gone.
Descarta(w) ==
  LET t == worker[w]
  IN  /\ t.en = "puerta"
      /\ (t.pausado /\ Automatico(t.l)) \/ descartar(t.l)
      /\ Suelta(w, "borrado")
      /\ UNCHANGED <<bc, plan, fallos, cambios>> /\ UNCHANGED <<dedup, historia, config>>
YaEntregado(w) ==
  LET t == worker[w]
  IN  /\ t.en = "puerta"
      /\ ~(t.pausado /\ Automatico(t.l)) /\ procesado(<<t.l, 0, "lote">>)
      /\ Suelta(w, "borrado")
      /\ UNCHANGED <<bc, plan, fallos, cambios>> /\ UNCHANGED <<dedup, historia, config>>
\* procesado and descartar fail open: what they cannot read does not stop a lot.
Entra(w) ==
  LET t == worker[w]  k == <<t.l, 0, "lote">>
  IN  /\ t.en = "puerta"
      /\ ~(t.pausado /\ Automatico(t.l))
      /\ IF procesado(k) \/ descartar(t.l) THEN Falla ELSE Bien
      /\ riesgo' = IF procesado(k) THEN riesgo \cup {k} ELSE riesgo
      /\ Va(w, "dest") /\ entro' = entro \cup {t.l}
      /\ UNCHANGED <<cola, marcas, hechas, bc, plan, fallidos, cambios>> /\ UNCHANGED config
\* The image of the lot cannot be signed: the lot is returned to the queue.
FirmaFalla(w) ==
  /\ worker[w].en = "dest" /\ worker[w].i = 1 /\ worker[w].l \in ConFoto /\ Falla
  /\ Va(w, "devuelve")
  /\ UNCHANGED <<cola, bc, plan, cambios>> /\ UNCHANGED <<dedup, historia, config>>
-----------------------------------------------------------------------------
(* DeliverBatch: one recipient after another.                               *)

Siguiente(t, cuenta) == [t EXCEPT ![cuenta] = @ + 1, !.i = @ + 1, !.en = "dest"]
Pasa(w, cuenta) == worker' = [worker EXCEPT ![w] = Siguiente(@, cuenta)]

\* Already received this lot: counts as sent, is not sent again.
Salta(w) ==
  LET t == worker[w]
  IN  /\ t.en = "dest" /\ t.i <= Dests[t.l]
      /\ procesado(<<t.l, t.i, "texto">>)
      /\ Pasa(w, "sent")
      /\ UNCHANGED <<cola, bc, plan, fallos, cambios>> /\ UNCHANGED <<dedup, historia, config>>
\* The dedup reads of a recipient: none of its pieces that is marked is sent,
\* unless the read fails.
Empieza(w) ==
  LET t == worker[w]
      k == <<t.l, t.i, "texto">>
      f == <<t.l, t.i, "foto">>
      marcadas == {x \in {k, f} : procesado(x)}
  IN  /\ t.en = "dest" /\ t.i <= Dests[t.l]
      /\ \E leidas \in SUBSET marcadas :
           /\ k \notin leidas
           /\ IF leidas = marcadas THEN Bien ELSE Falla
           /\ riesgo' = riesgo \cup (marcadas \ leidas)
           /\ worker' = [worker EXCEPT ![w] =
                [@ EXCEPT !.en = "manda", !.z = IF t.l \in ConFoto /\ f \notin leidas THEN "foto" ELSE "texto"]]
      /\ UNCHANGED <<cola, marcas, hechas, bc, plan, cambios>> /\ UNCHANGED <<historia, config>>

\* Telegram takes the piece.
Llega(w) ==
  LET t == worker[w]
  IN  /\ t.en = "manda"
      /\ hechas' = [hechas EXCEPT ![<<t.l, t.i, t.z>>] = @ + 1]
      /\ Va(w, "marca")
      /\ UNCHANGED <<cola, marcas, riesgo, bc, plan, fallos, cambios>> /\ UNCHANGED <<historia, config>>
\* Telegram takes the piece and answers 5xx: the same call of enviar posts it
\* again (_post, four times in all; here fallos bounds it).
Repite(w) ==
  LET t == worker[w]  k == <<t.l, t.i, t.z>>
  IN  /\ t.en = "manda" /\ Falla
      /\ hechas' = [hechas EXCEPT ![k] = @ + 1] /\ riesgo' = riesgo \cup {k}
      /\ UNCHANGED <<cola, worker, marcas, bc, plan, cambios>> /\ UNCHANGED <<historia, config>>
\* Mutant: a blocked recipient is marked as served.
Mut_Bloquea(w) ==
  /\ worker[w].en = "manda" /\ Pasa(w, "blocked")
  /\ marcas' = marcas \cup {<<worker[w].l, worker[w].i, "texto">>}
  /\ UNCHANGED <<cola, hechas, riesgo, bc, plan, fallos, cambios>> /\ UNCHANGED <<historia, config>>
\* 403, or a 400 that says the recipient cannot be reached.
Bloquea(w) ==
  /\ worker[w].en = "manda" /\ Pasa(w, "blocked")
  /\ UNCHANGED <<cola, bc, plan, fallos, cambios>> /\ UNCHANGED <<dedup, historia, config>>
\* enviar raises; the message may have arrived all the same.
Lanza(w) ==
  LET t == worker[w]  k == <<t.l, t.i, t.z>>
  IN  /\ t.en = "manda" /\ Pasa(w, "failed")
      /\ \/ Bien /\ UNCHANGED <<hechas, riesgo>>
         \/ Falla /\ hechas' = [hechas EXCEPT ![k] = @ + 1] /\ riesgo' = riesgo \cup {k}
      /\ UNCHANGED <<cola, marcas, bc, plan, cambios>> /\ UNCHANGED <<historia, config>>

\* dedup.marcar, which swallows its failures.
marcar(k) ==
  \/ Bien /\ marcas' = marcas \cup {k} /\ UNCHANGED riesgo
  \/ Falla /\ riesgo' = riesgo \cup {k} /\ UNCHANGED marcas
Marca(w) ==
  LET t == worker[w]
  IN  /\ t.en = "marca" /\ marcar(<<t.l, t.i, t.z>>)
      /\ IF t.z = "foto"
         THEN worker' = [worker EXCEPT ![w] = [@ EXCEPT !.en = "manda", !.z = "texto"]]
         ELSE Pasa(w, "sent")
      /\ UNCHANGED <<cola, hechas, bc, plan, cambios>> /\ UNCHANGED <<historia, config>>
-----------------------------------------------------------------------------
(* worker.lambda_handler: what follows the delivery.                        *)

FalloTotal(t) == Dests[t.l] > 0 /\ t.failed = Dests[t.l]
Termina(w) ==
  LET t == worker[w]
  IN  /\ t.en = "dest" /\ t.i > Dests[t.l]
      /\ IF FalloTotal(t)
         THEN /\ Va(w, IF Automatico(t.l) THEN "strike" ELSE "devuelve")
              /\ fallidos' = fallidos \cup {t.l}
              /\ racha' = IF Automatico(t.l) THEN racha + 1 ELSE racha
         ELSE /\ Va(w, "cuenta")
              /\ racha' = IF t.sent > 0 THEN 0 ELSE racha
              /\ UNCHANGED fallidos
      /\ UNCHANGED <<cola, bc, plan, entro, activo, strikes, fallos, cambios>> /\ UNCHANGED dedup

\* incr_telegram: only if the job exists; a failure is swallowed.
incr_telegram(b, t) ==
  IF b.vivo THEN [b EXCEPT !.sent = @ + t.sent, !.failed = @ + t.failed + t.blocked] ELSE b
Cuenta(w) ==
  LET t == worker[w]
  IN  /\ t.en = "cuenta" /\ Va(w, "cierra")
      /\ \/ Bien /\ bc' = [bc EXCEPT ![PlanDe[t.l]] = incr_telegram(@, t)]
         \/ Falla /\ UNCHANGED bc
      /\ hechas' = [hechas EXCEPT ![<<t.l, 0, "lote">>] = @ + 1]
      /\ UNCHANGED <<cola, marcas, riesgo, plan, cambios>> /\ UNCHANGED <<historia, config>>
Cierra(w) ==
  LET t == worker[w]
  IN  /\ t.en = "cierra" /\ marcar(<<t.l, 0, "lote">>)
      /\ Va(w, IF t.sent > 0 THEN "reinicia" ELSE "confirma")
      /\ UNCHANGED <<cola, hechas, bc, plan, cambios>> /\ UNCHANGED <<historia, config>>
\* reset_ban_strikes, which swallows its failures.
Reinicia(w) ==
  /\ worker[w].en = "reinicia" /\ Va(w, "confirma")
  /\ \/ Bien /\ strikes' = 0
     \/ Falla /\ UNCHANGED strikes
  /\ UNCHANGED <<cola, bc, plan, activo, racha, cambios>> /\ UNCHANGED <<dedup, historia>>
Confirma(w) ==
  /\ worker[w].en = "confirma" /\ Suelta(w, "borrado")
  /\ UNCHANGED <<bc, plan, fallos, cambios>> /\ UNCHANGED <<dedup, historia, config>>

Alcanza(n) == n >= Umbral
\* _detectar_baneo: incr_ban_strikes (0 when it fails), then the pause.
Strike(w) ==
  /\ worker[w].en = "strike"
  /\ \/ /\ Bien /\ strikes' = strikes + 1
        /\ Va(w, IF Alcanza(strikes + 1) THEN "pausa" ELSE "devuelve")
     \/ Falla /\ UNCHANGED strikes /\ Va(w, "devuelve")
  /\ UNCHANGED <<cola, bc, plan, activo, racha, cambios>> /\ UNCHANGED <<dedup, historia>>
PausaAuto(w) ==
  /\ worker[w].en = "pausa" /\ Va(w, "devuelve")
  /\ \/ Bien /\ activo' = FALSE
     \/ Falla /\ UNCHANGED activo
  /\ UNCHANGED <<cola, bc, plan, strikes, racha, cambios>> /\ UNCHANGED <<dedup, historia>>
\* batchItemFailures: the message is visible again.
Devuelve(w) ==
  /\ worker[w].en = "devuelve" /\ Suelta(w, "visible")
  /\ UNCHANGED <<bc, plan, fallos, cambios>> /\ UNCHANGED <<dedup, historia, config>>

Avanza(w) ==
  \/ \E l \in Lotes : Recibe(w, l)
  \/ Descarta(w) \/ YaEntregado(w) \/ Entra(w) \/ FirmaFalla(w)
  \/ Salta(w) \/ Empieza(w) \/ Llega(w) \/ Repite(w) \/ Bloquea(w) \/ Lanza(w) \/ Marca(w)
  \/ Termina(w) \/ Cuenta(w) \/ Cierra(w) \/ Reinicia(w) \/ Confirma(w)
  \/ Strike(w) \/ PausaAuto(w) \/ Devuelve(w)
-----------------------------------------------------------------------------
(* The panel, SQS and the clock.                                            *)

Gasta == cambios < MaxCambios /\ cambios' = cambios + 1
SinTocar == UNCHANGED <<worker, bc, plan, fallos>> /\ UNCHANGED <<dedup, historia, config>>

\* dlq_redrive starts the counting of receptions again; the purges empty a queue
\* but leave the lots a worker holds.
EnDlq == {l \in Lotes : cola[l].est = "dlq"}
dlq_redrive ==
  /\ EnDlq # {} /\ Gasta
  /\ cola' = [l \in Lotes |-> IF l \in EnDlq THEN [est |-> "visible", recibos |-> 0] ELSE cola[l]]
  /\ SinTocar
Purga(est) ==
  /\ \E l \in Lotes : cola[l].est = est
  /\ Gasta
  /\ cola' = [l \in Lotes |-> IF cola[l].est = est THEN [cola[l] EXCEPT !.est = "purgado"] ELSE cola[l]]
  /\ SinTocar

Cancela(p) ==
  /\ p \notin SinPlan /\ plan[p] # "cancelado" /\ Gasta
  /\ plan' = [plan EXCEPT ![p] = "cancelado"]
  /\ UNCHANGED <<cola, worker, bc, fallos>> /\ UNCHANGED <<dedup, historia, config>>
\* /api/broadcasts/delete: the plan and then the job, in one call that may stop
\* in between; of the finished ones, only the job.
Borra(p) ==
  /\ p \notin SinPlan /\ plan[p] # "borrado" /\ Gasta
  /\ plan' = [plan EXCEPT ![p] = "borrado"]
  /\ UNCHANGED <<cola, worker, bc, fallos>> /\ UNCHANGED <<dedup, historia, config>>
BorraTrabajo(p) ==
  /\ bc[p].vivo
  /\ IF plan[p] = "borrado" THEN UNCHANGED cambios ELSE Gasta
  /\ bc' = [bc EXCEPT ![p] = [vivo |-> FALSE, sent |-> 0, failed |-> 0]]
  /\ UNCHANGED <<cola, worker, plan, fallos>> /\ UNCHANGED <<dedup, historia, config>>

Pausa ==
  /\ activo /\ Gasta /\ activo' = FALSE
  /\ UNCHANGED <<cola, worker, bc, plan, strikes, racha, fallos>> /\ UNCHANGED <<dedup, historia>>
\* Resuming does not clear the strikes.
Reanuda ==
  /\ ~activo /\ activo' = TRUE /\ racha' = 0
  /\ UNCHANGED <<cola, worker, bc, plan, strikes, fallos, cambios>> /\ UNCHANGED <<dedup, historia>>

\* A standard queue may deliver once more what was already deleted.
Reaparece(l) ==
  /\ cola[l].est = "borrado" /\ Falla
  /\ cola' = [cola EXCEPT ![l].est = "visible"]
  /\ UNCHANGED <<worker, bc, plan, cambios>> /\ UNCHANGED <<dedup, historia, config>>
\* The marks live one day, the DLQ keeps a lot for fourteen.
Caduca(l) ==
  /\ cola[l].est = "dlq" /\ marcas \cap Clave(l) # {} /\ Falla
  /\ marcas' = marcas \ Clave(l) /\ riesgo' = riesgo \cup (marcas \cap Clave(l))
  /\ UNCHANGED <<cola, worker, hechas, bc, plan, cambios>> /\ UNCHANGED <<historia, config>>

Next ==
  \/ \E w \in Workers : Avanza(w) \/ Muere(w)
  \/ \E l \in Lotes : ADlq(l) \/ Reaparece(l) \/ Caduca(l)
  \/ \E p \in Planes : Cancela(p) \/ Borra(p) \/ BorraTrabajo(p)
  \/ dlq_redrive \/ Purga("visible") \/ Purga("dlq") \/ Pausa \/ Reanuda

Spec == Init /\ [][Next]_vars
-----------------------------------------------------------------------------
(* Properties.                                                              *)

\* Nobody receives a lot twice, and no lot is counted twice, however often the
\* queue delivers it and wherever the worker dies: only a piece done whose mark
\* was not written, was lost or could not be read is ever done again
\* (deliver_batch.py, dedup by recipient; worker.py, dedup by lot).
AloSumoUnaVez == \A k \in Claves : hechas[k] > 1 => k \in riesgo

\* A mark is never ahead of what it stands for: a recipient marked as served
\* was served, so a lot that resumes never skips somebody who got nothing.
MarcadoHecho == \A k \in marcas : hechas[k] > 0

\* tg_sent of a job never exceeds the recipients that really got the message,
\* although a resumed lot adds those of its earlier attempts, unless one of its
\* lots was counted twice.
LotesDe(p) == {l \in Lotes : PlanDe[l] = p}
EnviadoLlego ==
  \A p \in Planes :
    (\A l \in LotesDe(p) : hechas[<<l, 0, "lote">>] <= 1) =>
      bc[p].sent <= Cardinality({k \in Claves : PlanDe[k[1]] = p /\ k[3] = "texto" /\ hechas[k] > 0})

\* The pause only stops what is automatic: a lot of a manual plan that nobody
\* canceled or deleted leaves the queue counted or to the DLQ, whatever failed
\* on the way (worker.py, the gates).
Sale(l) == cola[l].est = "borrado" => hechas[<<l, 0, "lote">>] > 0 \/ descartar(l)
ManualNoSePierde == \A l \in Lotes : PlanDe[l] \in Manual \ SinPlan => Sale(l)

\* Anti-ban: however many workers overlap, count and reset one shared counter,
\* the account suffers at most Umbral automatic lots failed whole in a row for
\* each of them before sending is paused; what crashes and failed updates of the
\* configuration let through is counted in fallos.
RachaAcotada == racha <= Umbral * Cardinality(Workers) + fallos

\* worker.py: a lot that failed whole goes back to the queue and, once its
\* retries are used up, falls into the DLQ: it does not just vanish, unless its
\* plan was canceled or deleted.
FallidoNoDesaparece == \A l \in fallidos : Sale(l)

\* Every lot leaves the queue: delivered, discarded, or in the DLQ.
EnCola(l) == cola[l].est \in {"visible", "oculto"}
LoteSale == \A l \in Lotes : EnCola(l) ~> ~EnCola(l)

\* The inductive invariant behind the first four: a message is hidden while one
\* worker, and only one, holds it; what a worker is about to do has no mark that
\* could still be trusted; what was done has its mark, or will get it, or is at
\* risk; and a worker that closes a lot has counted it.
Ocupa(w) == worker[w].en # "libre"
UnaMano ==
  \A w \in Workers : Ocupa(w) =>
    /\ cola[worker[w].l].est = "oculto"
    /\ \A v \in Workers \ {w} : Ocupa(v) => worker[v].l # worker[w].l
PorHacer(t) ==
  (IF t.en \in {"dest", "manda", "marca", "cuenta"} THEN {<<t.l, 0, "lote">>} ELSE {})
  \cup (IF t.en = "manda" THEN {<<t.l, t.i, t.z>>} ELSE {})
  \cup (IF t.en \in {"manda", "marca"} /\ t.z = "foto" THEN {<<t.l, t.i, "texto">>} ELSE {})
SinMarca == \A w \in Workers : PorHacer(worker[w]) \cap marcas \subseteq riesgo
Anotado ==
  \A k \in Claves : hechas[k] > 0 =>
    k \in marcas \cup riesgo \/ \E w \in Workers : k \in PorMarcar(worker[w])
Dentro ==
  \A w \in Workers :
    /\ worker[w].en \in {"manda", "marca"} => worker[w].i <= Dests[worker[w].l]
    /\ \A k \in PorMarcar(worker[w]) : hechas[k] > 0
    /\ worker[w].en \in {"reinicia", "confirma"} => hechas[<<worker[w].l, 0, "lote">>] > 0
Idempotencia ==
  UnaMano /\ SinMarca /\ Anotado /\ Dentro /\ AloSumoUnaVez /\ MarcadoHecho /\ ManualNoSePierde
-----------------------------------------------------------------------------
(* Refinement: a lot, as PlanDispatch sees it.                              *)
Vida(l) ==
  IF hechas[<<l, 0, "lote">>] > 0 THEN "entregado"
  ELSE IF EnCola(l) THEN IF l \in entro THEN "enviando" ELSE "cola"
  ELSE IF cola[l].est = "borrado" /\ l \notin entro THEN "descartado"
  ELSE "perdido"

Contrato == INSTANCE LotContract WITH
  est <- [l \in Lotes |-> Vida(l)],
  hecho <- [p \in Planes |-> bc[p].sent + bc[p].failed]
CumpleContrato == Contrato!LSpec
-----------------------------------------------------------------------------
(* Fairness: SQS keeps invoking the worker and an invocation that does not  *)
(* die runs on.                                                             *)
FairSpec ==
  /\ Spec
  /\ \A w \in Workers : WF_vars(Avanza(w))
  /\ \A l \in Lotes : WF_vars(ADlq(l))
=============================================================================
