---------------------------- MODULE PlanDispatch ----------------------------
(***************************************************************************)
(* The fractioned sending of Replica: DynamoDbPlanStore (the plan items),  *)
(* DispatchCampaigns (one Lambda invocation per tick, every DynamoDB, SQS  *)
(* or HTTP call a step of its own), and what the ticks observe of the      *)
(* worker, of the WhatsApp service, of the panel and of the clock.         *)
(*                                                                         *)
(* Ticks of the dispatcher may overlap: EventBridge delivers at least once *)
(* and the reserved concurrency of the function defaults to none.          *)
(***************************************************************************)
EXTENDS Integers, Sequences

CONSTANTS
  Planes,       \* pids, numbered in the order of their created_at
  Ticks,        \* invocations of the dispatcher that may be running at once
  Manual,       \* plans with source = "manual"
  Programado,   \* plans with not_before > 0
  ConWa,        \* plans with wa_enabled
  TgTotal,      \* [Planes -> Nat]: Telegram recipients of the plan
  WaConteos,    \* [Planes -> SUBSET Nat]: the answers POST /count may give
  BatchSize,    \* batch_size of the plans
  MaxFallos,    \* bound on crashes, failed calls and lost lots
  MaxCambios    \* bound on what happens from outside: pauses, closed windows,
                \* outages of WhatsApp, plans canceled or deleted

ASSUME PlanDispatchAssumption ==
  /\ Planes \subseteq Nat
  /\ Manual \subseteq Planes /\ Programado \subseteq Planes /\ ConWa \subseteq Planes
  /\ TgTotal \in [Planes -> Nat]
  /\ WaConteos \in [Planes -> SUBSET Nat]
  /\ BatchSize \in Nat \ {0}
  /\ MaxFallos \in Nat /\ MaxCambios \in Nat

VARIABLES
  meta,      \* (pid, "PLAN") items of the Plans table
  tick,      \* local state of each dispatcher invocation
  envios,    \* every lot handed to SQS or to the WhatsApp service, in order
  bc,        \* items of the Broadcasts table (broadcast_id = pid)
  borrados,  \* history: plans the panel has deleted
  anomalos,  \* history: plans with a lot let go unfinished, or counted twice
  pisados,   \* history: plans a tick wrote over what another wrote meanwhile
  vencidos,  \* scheduled plans whose not_before has passed
  cfg,       \* sending_enabled and, per channel, whether its window is open
  waArriba,  \* does the WhatsApp service answer?
  fallos, cambios   \* used part of MaxFallos and of MaxCambios

vars ==
  <<meta, tick, envios, bc, borrados, anomalos, pisados, vencidos, cfg, waArriba, fallos, cambios>>
entorno == <<vencidos, cfg, waArriba>>
intacto == <<entorno, cambios>>
-----------------------------------------------------------------------------
Canal == {"tg", "wa"}
Lote == [ch : Canal \cup {""}, idx : Nat]
SinVuelo == [ch |-> "", idx |-> 0]              \* in_flight = ""
SinItem == {"nuevo", "borrado"}                 \* no (pid, "PLAN") item
\* "fantasma": an item an update_item recreated after its deletion: it has no
\* cursors, is not active, and its status is neither "canceled" nor a live one.
Despachable == {"pending", "running", "done"}
Estado == SinItem \cup Despachable \cup {"fantasma", "canceled"}

\* domain.scheduling.total_lotes
TotalLotes(total) == (total + BatchSize - 1) \div BatchSize
\* Length of lot i: _chunk for Telegram, the "limit" of the slice for WhatsApp.
Tam(total, i) ==
  LET resto == total - i * BatchSize
  IN  IF resto <= 0 THEN 0 ELSE IF resto < BatchSize THEN resto ELSE BatchSize

Vacio == [status |-> "nuevo", next |-> [c \in Canal |-> 0], disp |-> [c \in Canal |-> 0],
          total |-> [c \in Canal |-> 0], resuelto |-> FALSE,
          vuelo |-> SinVuelo, target |-> 0, viejo |-> FALSE]
Meta == [status : Estado, next : [Canal -> Nat], disp : [Canal -> Nat],
         total : [Canal -> Nat], resuelto : BOOLEAN,
         vuelo : Lote, target : Nat, viejo : BOOLEAN]

Libre == [en |-> "libre", pid |-> 0, m |-> Vacio, abierta |-> [c \in Canal |-> FALSE]]
Tick == [en : {"libre", "vuelo", "limpia", "elige", "resuelve", "encola",
               "reenvia", "suelta"},
         pid : Nat, m : Meta, abierta : [Canal -> BOOLEAN]]

Envio == [pid : Planes, ch : Canal, idx : Nat, n : Nat,
          est : {"cola", "enviando", "entregado", "descartado", "perdido"}]
Trabajo == [vivo : BOOLEAN, hecho : [Canal -> Nat]]
SinTrabajo == [vivo |-> FALSE, hecho |-> [c \in Canal |-> 0]]

TypeOK ==
  /\ meta \in [Planes -> Meta]
  /\ tick \in [Ticks -> Tick]
  /\ \A d \in Ticks : tick[d].en # "libre" => tick[d].pid \in Planes
  /\ envios \in Seq(Envio)
  /\ bc \in [Planes -> Trabajo]
  /\ borrados \in SUBSET Planes /\ anomalos \in SUBSET Planes
  /\ pisados \in SUBSET Planes /\ vencidos \in SUBSET Planes
  /\ cfg \in [activo : BOOLEAN, abierta : [Canal -> BOOLEAN]]
  /\ waArriba \in BOOLEAN
  /\ fallos \in 0..MaxFallos /\ cambios \in 0..MaxCambios

Init ==
  /\ meta = [p \in Planes |-> Vacio]
  /\ tick = [d \in Ticks |-> Libre]
  /\ envios = <<>>
  /\ bc = [p \in Planes |-> SinTrabajo]
  /\ borrados = {} /\ anomalos = {} /\ pisados = {} /\ vencidos = {}
  /\ cfg = [activo |-> TRUE, abierta |-> [c \in Canal |-> TRUE]]
  /\ waArriba = TRUE
  /\ fallos = 0 /\ cambios = 0
-----------------------------------------------------------------------------
(* DynamoDbPlanStore: what each update does to the item, whatever is there. *)

crear(p, wa, resuelto) ==
  [Vacio EXCEPT !.status = "pending", !.resuelto = resuelto,
                !.total = [c \in Canal |-> IF c = "tg" THEN TgTotal[p] ELSE wa]]

\* Mutants of the updates, to show that the properties notice: the clearing of
\* in_flight also rewinds the cursor to try the lot again; /count answers one
\* less; the claim checks the plan but not the cursor, or the cursor but not the
\* plan; it stores the size of the lot as target, or adds whole lots to the
\* count; finalizar closes a plan whatever its status.
Mut_limpiar_inflight(m) ==
  IF m.vuelo = SinVuelo THEN m ELSE [m EXCEPT !.vuelo = SinVuelo, !.next[m.vuelo.ch] = m.vuelo.idx]
Mut_Resuelto(m, total) == [m EXCEPT !.total["wa"] = total - 1, !.resuelto = TRUE]
Mut_ReclamableSinCursor(m, c, i) == m.status \in Despachable
Mut_ReclamableSinEstado(m, c, i) == m.next[c] = i
Mut_TargetDelLote(m, c, i, target) ==
  [m EXCEPT !.status = "running", !.next[c] = i + 1, !.disp[c] = target,
            !.vuelo = [ch |-> c, idx |-> i], !.target = target - m.disp[c], !.viejo = FALSE]
Mut_SumaLotes(m, c, i, target) ==
  [m EXCEPT !.status = "running", !.next[c] = i + 1, !.disp[c] = @ + BatchSize,
            !.vuelo = [ch |-> c, idx |-> i], !.target = m.disp[c] + BatchSize, !.viejo = FALSE]
Mut_finalizar(m) == [m EXCEPT !.status = IF @ \in SinItem THEN "fantasma" ELSE "done", !.vuelo = SinVuelo]

\* An update_item without condition creates the item when it is missing.
Upsert(st) == IF st \in SinItem THEN "fantasma" ELSE st
limpiar_inflight(m) == [m EXCEPT !.status = Upsert(@), !.vuelo = SinVuelo]
Resuelto(m, total) == [m EXCEPT !.total["wa"] = total, !.resuelto = TRUE]
resolver_wa(m, total) == [Resuelto(m, total) EXCEPT !.status = Upsert(@)]

\* The ConditionExpression of registrar_dispatch: the optimistic lock.
Reclamable(m, c, i) == m.status \in Despachable /\ m.next[c] = i
registrar_dispatch(m, c, i, target) ==
  [m EXCEPT !.status = "running", !.next[c] = i + 1, !.disp[c] = target,
            !.vuelo = [ch |-> c, idx |-> i], !.target = target, !.viejo = FALSE]

\* finalizar(pid): closes to "done" unless canceled (true of a missing item too).
finalizar(m) ==
  IF m.status = "canceled" THEN m
  ELSE [m EXCEPT !.status = IF @ \in Despachable THEN "done" ELSE "fantasma",
                 !.vuelo = SinVuelo]
cancelar(m) == [m EXCEPT !.status = "canceled", !.vuelo = SinVuelo]

\* Must the worker throw away a lot of this plan?
descartar(m) == m.status \in SinItem \cup {"canceled"}
-----------------------------------------------------------------------------
(* A plan is born: _registrar and _crear_plan. /count may fail right there, *)
(* and then the dispatcher resolves WhatsApp later.                         *)
Crear(p) ==
  /\ meta[p].status = "nuevo"
  /\ \A q \in Planes : q < p => meta[q].status # "nuevo"
  /\ bc' = [bc EXCEPT ![p].vivo = TRUE]
  /\ \/ p \notin ConWa /\ meta' = [meta EXCEPT ![p] = crear(p, 0, TRUE)]
     \/ /\ p \in ConWa /\ waArriba
        /\ \E total \in WaConteos[p] : meta' = [meta EXCEPT ![p] = crear(p, total, TRUE)]
     \/ p \in ConWa /\ meta' = [meta EXCEPT ![p] = crear(p, 0, FALSE)]
  /\ UNCHANGED <<tick, envios, borrados, anomalos, pisados, fallos>> /\ UNCHANGED intacto
-----------------------------------------------------------------------------
(* One tick of the dispatcher.                                              *)

Ir(d, paso) == tick' = [tick EXCEPT ![d].en = paso]
Volver(d) == tick' = [tick EXCEPT ![d] = Libre]
\* The update overwrites what another tick has written since this one read.
Pisa(p, ajeno) == pisados' = IF ajeno THEN pisados \cup {p} ELSE pisados

Listos == {p \in Planes : /\ meta[p].status \in {"pending", "running"}
                          /\ cfg.activo \/ p \in Manual
                          /\ p \in Programado => p \in vencidos}
SaltaVentana(p) == p \in Manual /\ p \notin Programado

\* config.get, plans.activos and the choice of listos[0]: a snapshot of the plan.
\* The scan of activos is eventually consistent: a tick that is given an older item
\* is one that read it then, overlapped with whatever happened since.
Inicia(d) ==
  /\ tick[d].en = "libre"
  /\ \E p \in Listos :
       /\ \A q \in Listos : p <= q
       /\ tick' = [tick EXCEPT ![d] =
            [en |-> IF meta[p].vuelo = SinVuelo THEN "elige" ELSE "vuelo", pid |-> p,
             m |-> meta[p], abierta |-> [c \in Canal |-> SaltaVentana(p) \/ cfg.abierta[c]]]]
  /\ UNCHANGED <<meta, envios, bc, borrados, anomalos, pisados, fallos>> /\ UNCHANGED intacto

\* Mutants of a tick: the lot in flight is compared with the target of the lot
\* before it; a lot that was lost never expires; a closed window counts as
\* nothing left to send.
Mut_Completo(d) == bc[tick[d].pid].hecho[tick[d].m.vuelo.ch] >= tick[d].m.target - BatchSize
Mut_MideVuelo(d) ==
  /\ tick[d].en = "vuelo"
  /\ IF bc[tick[d].pid].hecho[tick[d].m.vuelo.ch] >= tick[d].m.target THEN Ir(d, "limpia") ELSE Volver(d)
  /\ UNCHANGED <<meta, envios, bc, borrados, anomalos, pisados, fallos>> /\ UNCHANGED intacto
Mut_Pendiente(t, c) == t.abierta[c] /\ t.m.next[c] < TotalLotes(t.m.total[c])

\* The lot in flight of the snapshot, measured against the counters of the job.
Completo(d) == bc[tick[d].pid].hecho[tick[d].m.vuelo.ch] >= tick[d].m.target
MideVuelo(d) ==
  /\ tick[d].en = "vuelo"
  /\ \/ Completo(d) /\ Ir(d, "limpia") /\ UNCHANGED anomalos
     \/ /\ ~Completo(d) /\ tick[d].m.viejo
        /\ Ir(d, "limpia") /\ anomalos' = anomalos \cup {tick[d].pid}
     \/ ~Completo(d) /\ ~tick[d].m.viejo /\ Volver(d) /\ UNCHANGED anomalos
  /\ UNCHANGED <<meta, envios, bc, borrados, pisados, fallos>> /\ UNCHANGED intacto
\* limpiar_inflight has no condition: it clears whatever lot is there by now.
LimpiaVuelo(d) ==
  /\ tick[d].en = "limpia"
  /\ meta' = [meta EXCEPT ![tick[d].pid] = limpiar_inflight(@)]
  /\ Pisa(tick[d].pid, meta[tick[d].pid].vuelo \notin {SinVuelo, tick[d].m.vuelo})
  /\ Ir(d, "elige")
  /\ UNCHANGED <<envios, bc, borrados, anomalos, fallos>> /\ UNCHANGED intacto

\* Has the snapshot lots of channel c left, and may it send them now?
Pendiente(t, c) ==
  \/ t.m.next[c] < TotalLotes(t.m.total[c]) /\ (c = "wa" => t.pid \in ConWa)
  \/ c = "wa" /\ t.pid \in ConWa /\ ~t.m.resuelto
Abierto(t, c) == Pendiente(t, c) /\ t.abierta[c]
EligeWa(d) == tick[d].en = "elige" /\ ~Abierto(tick[d], "tg") /\ Abierto(tick[d], "wa")

\* ids_lote_tg and registrar_dispatch, or the slice and registrar_dispatch.
Reclama(d, c) ==
  LET t == tick[d]  i == t.m.next[c]
  IN  /\ IF Reclamable(meta[t.pid], c, i)
         THEN /\ meta' = [meta EXCEPT ![t.pid] =
                           registrar_dispatch(@, c, i, t.m.disp[c] + Tam(t.m.total[c], i))]
              /\ Pisa(t.pid, meta[t.pid].vuelo # SinVuelo)
              /\ Ir(d, IF c = "tg" THEN "encola" ELSE "reenvia")
         ELSE Volver(d) /\ UNCHANGED <<meta, pisados>>
      /\ UNCHANGED <<envios, bc, borrados, anomalos, fallos>> /\ UNCHANGED intacto
ReclamaTg(d) == tick[d].en = "elige" /\ Abierto(tick[d], "tg") /\ Reclama(d, "tg")
ReclamaWa(d) == EligeWa(d) /\ tick[d].m.resuelto /\ Reclama(d, "wa")

\* whatsapp.contar and resolver_wa; contar (or the signing of the image of a
\* slice) may fail, and the tick ends without touching the plan.
CuentaWa(d) ==
  /\ EligeWa(d) /\ ~tick[d].m.resuelto /\ waArriba
  /\ \E total \in WaConteos[tick[d].pid] :
       tick' = [tick EXCEPT ![d] = [@ EXCEPT !.en = "resuelve", !.m = Resuelto(tick[d].m, total)]]
  /\ UNCHANGED <<meta, envios, bc, borrados, anomalos, pisados, fallos>> /\ UNCHANGED intacto
ResuelveWa(d) ==
  /\ tick[d].en = "resuelve"
  /\ meta' = [meta EXCEPT ![tick[d].pid] = resolver_wa(@, tick[d].m.total["wa"])]
  /\ Pisa(tick[d].pid, meta[tick[d].pid].resuelto
                       /\ meta[tick[d].pid].total["wa"] # tick[d].m.total["wa"])
  /\ Ir(d, "elige")
  /\ UNCHANGED <<envios, bc, borrados, anomalos, fallos>> /\ UNCHANGED intacto
EsperaWa(d) ==
  /\ EligeWa(d)
  /\ \/ ~tick[d].m.resuelto /\ ~waArriba /\ UNCHANGED fallos
     \/ fallos < MaxFallos /\ fallos' = fallos + 1
  /\ Volver(d)
  /\ UNCHANGED <<meta, envios, bc, borrados, anomalos, pisados>> /\ UNCHANGED intacto

\* The lot the tick has claimed, as handed over.
Emite(d, c) ==
  LET t == tick[d]
  IN  envios' = Append(envios, [pid |-> t.pid, ch |-> c, idx |-> t.m.next[c],
                                n |-> Tam(t.m.total[c], t.m.next[c]), est |-> "cola"])

EncolaOk(d) ==
  /\ tick[d].en = "encola"
  /\ Emite(d, "tg") /\ Volver(d)
  /\ UNCHANGED <<meta, bc, borrados, anomalos, pisados, fallos>> /\ UNCHANGED intacto
\* send_message raises: the message may have reached SQS all the same.
EncolaFalla(d) ==
  /\ tick[d].en = "encola" /\ fallos < MaxFallos
  /\ Emite(d, "tg") \/ UNCHANGED envios
  /\ Ir(d, "suelta") /\ fallos' = fallos + 1
  /\ UNCHANGED <<meta, bc, borrados, anomalos, pisados>> /\ UNCHANGED intacto

ReenviaOk(d) ==
  /\ tick[d].en = "reenvia" /\ waArriba
  /\ Emite(d, "wa") /\ Volver(d)
  /\ UNCHANGED <<meta, bc, borrados, anomalos, pisados, fallos>> /\ UNCHANGED intacto
\* Not accepted: the service is down, or its 202 does not arrive in 15 s.
ReenviaFalla(d) ==
  /\ tick[d].en = "reenvia"
  /\ \/ ~waArriba /\ UNCHANGED <<envios, fallos>>
     \/ waArriba /\ fallos < MaxFallos /\ Emite(d, "wa") /\ fallos' = fallos + 1
  /\ Ir(d, "suelta")
  /\ UNCHANGED <<meta, bc, borrados, anomalos, pisados>> /\ UNCHANGED intacto
\* The limpiar_inflight that follows a failed hand-over.
SueltaVuelo(d) ==
  /\ tick[d].en = "suelta"
  /\ meta' = [meta EXCEPT ![tick[d].pid] = limpiar_inflight(@)]
  /\ anomalos' = anomalos \cup {tick[d].pid}
  /\ Volver(d)
  /\ UNCHANGED <<envios, bc, borrados, pisados, fallos>> /\ UNCHANGED intacto

\* Nothing to hand over now: outside its window, or nothing left at all.
Difiere(d) ==
  /\ tick[d].en = "elige"
  /\ \A c \in Canal : ~Abierto(tick[d], c)
  /\ \E c \in Canal : Pendiente(tick[d], c)
  /\ Volver(d)
  /\ UNCHANGED <<meta, envios, bc, borrados, anomalos, pisados, fallos>> /\ UNCHANGED intacto
Finaliza(d) ==
  /\ tick[d].en = "elige"
  /\ \A c \in Canal : ~Pendiente(tick[d], c)
  /\ meta' = [meta EXCEPT ![tick[d].pid] = finalizar(@)]
  /\ Volver(d)
  /\ UNCHANGED <<envios, bc, borrados, anomalos, pisados, fallos>> /\ UNCHANGED intacto

\* The invocation ends anywhere: timeout, an exception of DynamoDB, a claim
\* that was applied but whose answer was lost.
Muere(d) ==
  /\ tick[d].en # "libre" /\ fallos < MaxFallos
  /\ Volver(d) /\ fallos' = fallos + 1
  /\ UNCHANGED <<meta, envios, bc, borrados, anomalos, pisados>> /\ UNCHANGED intacto

Avanza(d) ==
  \/ Inicia(d) \/ MideVuelo(d) \/ LimpiaVuelo(d)
  \/ ReclamaTg(d) \/ EncolaOk(d) \/ EncolaFalla(d)
  \/ CuentaWa(d) \/ ResuelveWa(d) \/ EsperaWa(d)
  \/ ReclamaWa(d) \/ ReenviaOk(d) \/ ReenviaFalla(d)
  \/ SueltaVuelo(d) \/ Difiere(d) \/ Finaliza(d)
-----------------------------------------------------------------------------
(* The other side of the queue. A lot is one message: LotDelivery opens the *)
(* worker; here it takes a lot, or discards it, and then counts it.         *)

Pasa(k, est) == envios' = [envios EXCEPT ![k].est = est]

\* The gate of the worker: paused and automatic, or plan canceled or deleted.
Descarta(k) ==
  LET p == envios[k].pid
  IN  /\ envios[k].est = "cola" /\ envios[k].ch = "tg"
      /\ (~cfg.activo /\ p \notin Manual) \/ descartar(meta[p])
      /\ Pasa(k, "descartado")
      /\ UNCHANGED <<meta, tick, bc, borrados, anomalos, pisados, fallos>> /\ UNCHANGED intacto
TomaTg(k) ==
  LET p == envios[k].pid
  IN  /\ envios[k].est = "cola" /\ envios[k].ch = "tg"
      /\ cfg.activo \/ p \in Manual
      /\ ~descartar(meta[p])
      /\ Pasa(k, "enviando")
      /\ UNCHANGED <<meta, tick, bc, borrados, anomalos, pisados, fallos>> /\ UNCHANGED intacto
\* enviarLote: the service looks neither at the pause nor at the plan.
TomaWa(k) ==
  /\ envios[k].est = "cola" /\ envios[k].ch = "wa"
  /\ Pasa(k, "enviando")
  /\ UNCHANGED <<meta, tick, bc, borrados, anomalos, pisados, fallos>> /\ UNCHANGED intacto
\* incr_telegram and bcIncr, conditional on the existence of the job.
Suma(b, c, n) == IF b.vivo THEN [b EXCEPT !.hecho[c] = @ + n] ELSE b
\* A slice may fall short: the socket was replaced,
\* or the set of targets has shrunk since it was counted. Both counters are
\* best effort: a failed increment is swallowed.
Cuenta(k) ==
  LET e == envios[k]
  IN  /\ e.est = "enviando"
      /\ Pasa(k, "entregado")
      /\ \E hechos \in 0..e.n :
           /\ bc' = [bc EXCEPT ![e.pid] = Suma(@, e.ch, hechos)]
           /\ \/ hechos = e.n /\ UNCHANGED fallos
              \/ hechos < e.n /\ (e.ch = "wa" \/ hechos = 0) /\ fallos < MaxFallos /\ fallos' = fallos + 1
      /\ UNCHANGED <<meta, tick, borrados, anomalos, pisados>> /\ UNCHANGED intacto
\* The worker dies between incr_telegram and dedup.marcar: SQS delivers the
\* lot again and it is counted again.
Recuenta(k) ==
  LET e == envios[k]
  IN  /\ e.est = "entregado" /\ e.ch = "tg" /\ fallos < MaxFallos
      /\ bc' = [bc EXCEPT ![e.pid] = Suma(@, "tg", e.n)]
      /\ anomalos' = anomalos \cup {e.pid} /\ fallos' = fallos + 1
      /\ UNCHANGED <<meta, tick, envios, borrados, pisados>> /\ UNCHANGED intacto
\* Every delivery of the lot fails, at the gates or after them, and it ends in
\* the DLQ uncounted; a purge of the queue loses it too.
Pierde(k) ==
  /\ envios[k].est \in {"cola", "enviando"} /\ fallos < MaxFallos
  /\ Pasa(k, "perdido") /\ fallos' = fallos + 1
  /\ UNCHANGED <<meta, tick, bc, borrados, anomalos, pisados>> /\ UNCHANGED intacto

Entrega(k) == Descarta(k) \/ TomaTg(k) \/ TomaWa(k) \/ Cuenta(k) \/ Recuenta(k) \/ Pierde(k)
-----------------------------------------------------------------------------
Gasta == cambios < MaxCambios /\ cambios' = cambios + 1

(* The panel: reprocess the DLQ, cancel, delete the plan, delete the job    *)
(* after its plan.                                                          *)
\* dlq_redrive brings a lost lot back, and SQS may deliver again what the gate
\* has discarded. A slice of WhatsApp is no message: it never comes back.
Vuelve(k) ==
  /\ envios[k].ch = "tg"
  /\ \/ envios[k].est = "perdido" /\ Gasta /\ UNCHANGED fallos
     \/ /\ envios[k].est = "descartado" /\ fallos < MaxFallos
        /\ fallos' = fallos + 1 /\ UNCHANGED cambios
  /\ Pasa(k, "cola")
  /\ UNCHANGED <<meta, tick, bc, borrados, anomalos, pisados>> /\ UNCHANGED entorno
Cancela(p) ==
  /\ meta[p].status \notin {"nuevo", "canceled"}
  /\ meta' = [meta EXCEPT ![p] = cancelar(@)] /\ Gasta
  /\ UNCHANGED <<tick, envios, bc, borrados, anomalos, pisados, fallos>> /\ UNCHANGED entorno
Borra(p) ==
  /\ meta[p].status \notin SinItem
  /\ meta' = [meta EXCEPT ![p] = [Vacio EXCEPT !.status = "borrado"]]
  /\ borrados' = borrados \cup {p} /\ Gasta
  /\ UNCHANGED <<tick, envios, bc, anomalos, pisados, fallos>> /\ UNCHANGED entorno
BorraTrabajo(p) ==
  /\ p \in borrados /\ bc[p].vivo
  /\ bc' = [bc EXCEPT ![p] = SinTrabajo]
  /\ UNCHANGED <<meta, tick, envios, borrados, anomalos, pisados, fallos>> /\ UNCHANGED intacto

(* The clock: a lot in flight for more than stale_seconds, a not_before.    *)
Envejece(p) ==
  /\ meta[p].vuelo # SinVuelo /\ ~meta[p].viejo
  /\ meta' = [meta EXCEPT ![p].viejo = TRUE]
  /\ UNCHANGED <<tick, envios, bc, borrados, anomalos, pisados, fallos>> /\ UNCHANGED intacto
Vence(p) ==
  /\ p \in Programado \ vencidos
  /\ vencidos' = vencidos \cup {p}
  /\ UNCHANGED <<meta, tick, envios, bc, borrados, anomalos, pisados, fallos, cfg, waArriba, cambios>>

(* Pause (by the operator or by the anti-ban strikes), windows, WhatsApp.   *)
ConEntorno == UNCHANGED <<meta, tick, envios, bc, borrados, anomalos, pisados, vencidos, fallos>>
Pausa == cfg.activo /\ Gasta /\ cfg' = [cfg EXCEPT !.activo = FALSE] /\ UNCHANGED waArriba /\ ConEntorno
Reanuda == ~cfg.activo /\ cfg' = [cfg EXCEPT !.activo = TRUE] /\ UNCHANGED <<waArriba, cambios>> /\ ConEntorno
Cierra(c) == cfg.abierta[c] /\ Gasta /\ cfg' = [cfg EXCEPT !.abierta[c] = FALSE] /\ UNCHANGED waArriba /\ ConEntorno
Abre(c) == ~cfg.abierta[c] /\ cfg' = [cfg EXCEPT !.abierta[c] = TRUE] /\ UNCHANGED <<waArriba, cambios>> /\ ConEntorno
WaCae == waArriba /\ Gasta /\ waArriba' = FALSE /\ UNCHANGED cfg /\ ConEntorno
WaVuelve == ~waArriba /\ waArriba' = TRUE /\ UNCHANGED <<cfg, cambios>> /\ ConEntorno

Next ==
  \/ \E p \in Planes : Crear(p) \/ Cancela(p) \/ Borra(p) \/ BorraTrabajo(p) \/ Envejece(p) \/ Vence(p)
  \/ \E d \in Ticks : Avanza(d) \/ Muere(d)
  \/ \E k \in DOMAIN envios : Entrega(k) \/ Vuelve(k)
  \/ \E c \in Canal : Cierra(c) \/ Abre(c)
  \/ Pausa \/ Reanuda \/ WaCae \/ WaVuelve

Spec == Init /\ [][Next]_vars
-----------------------------------------------------------------------------
(* Properties.                                                              *)

\* A lot (plan, channel, index) is handed over at most once, however many
\* ticks overlap, die or find SQS and WhatsApp failing: the optimistic lock
\* of registrar_dispatch, which a new batch_id per message makes the only
\* barrier (dispatcher.py, M28).
LoteEnvio(e) == <<e.pid, e.ch, e.idx>>
LoteUnaVez ==
  \A j, k \in DOMAIN envios : LoteEnvio(envios[j]) = LoteEnvio(envios[k]) => j = k

\* Whatever clears or claims, in_flight names the last lot claimed of its
\* channel and in_flight_target is all that was dispatched on that channel:
\* what the next tick compares with the counters of the job.
VueloCoherente ==
  \A p \in Planes :
    LET m == meta[p]
    IN  m.vuelo # SinVuelo => /\ m.next[m.vuelo.ch] = m.vuelo.idx + 1
                              /\ m.target = m.disp[m.vuelo.ch]

\* tg_dispatched, which each tick computes from its snapshot, is the number of
\* recipients of the first tg_next lots: a stale snapshot never makes it drift.
Acumulado(total, n) == IF n * BatchSize <= total THEN n * BatchSize ELSE total
Exacto(m) == m.disp["tg"] = Acumulado(m.total["tg"], m.next["tg"])
DespachadoExacto == \A p \in Planes : Exacto(meta[p])

\* Cancel wins: no tick, however stale its snapshot, moves the cursors of a
\* canceled plan or takes it out of "canceled" (registrar_dispatch, finalizar).
CanceladoCongela ==
  [][\A p \in Planes :
       meta[p].status = "canceled" =>
         \/ meta'[p].status = "borrado"
         \/ meta'[p].status = "canceled" /\ meta'[p].next = meta[p].next]_vars

\* One lot at a time (dispatch.py), however many ticks overlap: two lots of a
\* plan are outstanding only when one was let go unfinished or counted twice, or
\* when a tick wrote over what it had not read in one of three places: it cleared
\* the lot in flight of another tick, claimed on the other channel while a lot
\* was in flight, or resolved WhatsApp again with another count.
Pendientes == {k \in DOMAIN envios : envios[k].est \in {"cola", "enviando"}}
UnLoteALaVez ==
  \A j, k \in Pendientes :
    envios[j].pid = envios[k].pid => j = k \/ envios[j].pid \in anomalos \cup pisados

\* A plan reported "done" was delivered whole: every lot of both channels was
\* handed over and finished, with the same exceptions.
TerminadoEntregado ==
  \A p \in Planes \ (anomalos \cup pisados) :
    meta[p].status = "done" =>
      \A c \in Canal : \A i \in 0..TotalLotes(meta[p].total[c]) - 1 :
        \E k \in DOMAIN envios :
          envios[k].pid = p /\ envios[k].ch = c /\ envios[k].idx = i /\ envios[k].est = "entregado"

\* Every plan leaves pending/running: lost lots, dead ticks, closed windows,
\* pauses and outages delay it, none holds it for ever.
Activo(p) == meta[p].status \in {"pending", "running"}
PlanTermina == \A p \in Planes : Activo(p) ~> ~Activo(p)

\* dispatcher.py, M28: the only effect of two simultaneous ticks is claiming TG
\* and WA of the same plan at once, hence never two lots of the same channel.
UnLotePorCanal ==
  \A j, k \in Pendientes :
    /\ envios[j].pid = envios[k].pid /\ envios[j].ch = envios[k].ch
    => j = k \/ envios[j].pid \in anomalos


\* dispatch.py: an outage of WhatsApp never blocks the Telegram lots.
TelegramPendiente(p) == Activo(p) /\ meta[p].next["tg"] < TotalLotes(meta[p].total["tg"])
TelegramNoEsperaWhatsApp ==
  \A p \in Planes : TelegramPendiente(p) ~> ~TelegramPendiente(p)
-----------------------------------------------------------------------------
(* Refinement: what the ticks do to a plan is what PlanContract promises.   *)
TieneLote(d) == tick[d].en \in {"encola", "reenvia"}
CanalDe(d) == IF tick[d].en = "encola" THEN "tg" ELSE "wa"
LoteDe(d) == <<tick[d].pid, CanalDe(d), tick[d].m.next[CanalDe(d)]>>
EnMano == {LoteDe(d) : d \in {x \in Ticks : TieneLote(x)}}
Emitido == {LoteEnvio(envios[k]) : k \in DOMAIN envios}
Vida(st) == CASE st = "nuevo" -> "nuevo"
              [] st \in Despachable -> "vivo"
              [] st = "canceled" -> "cancelado"
              [] OTHER -> "borrado"

Contrato == INSTANCE PlanContract WITH
  estado <- [p \in Planes |-> Vida(meta[p].status)],
  cursor <- [p \in Planes |-> meta[p].next],
  enMano <- EnMano,
  emitido <- Emitido

\* The dispatcher, with overlapping ticks, stale snapshots, failures and deaths,
\* implements the promise of the plan store.
CumpleContrato == Contrato!CSpec

\* The inductive invariant behind the promise: ticks work on plans that exist;
\* a plan that can be claimed from has its cursor past every lot that a tick
\* holds or that was handed over; and no two hands hold one lot.
Nacidos ==
  /\ \A d \in Ticks : tick[d].en # "libre" => meta[tick[d].pid].status # "nuevo"
  /\ \A k \in DOMAIN envios : meta[envios[k].pid].status # "nuevo"
PasaCursor(l) == meta[l[1]].status \in Despachable => l[3] < meta[l[1]].next[l[2]]
CursorPasado ==
  /\ \A d \in Ticks : TieneLote(d) => PasaCursor(LoteDe(d))
  /\ \A k \in DOMAIN envios : PasaCursor(LoteEnvio(envios[k]))
ManosDistintas ==
  /\ \A d, e \in Ticks : TieneLote(d) /\ TieneLote(e) /\ LoteDe(d) = LoteDe(e) => d = e
  /\ \A d \in Ticks, k \in DOMAIN envios : TieneLote(d) => LoteDe(d) # LoteEnvio(envios[k])
  /\ LoteUnaVez
ManoUnica == Nacidos /\ CursorPasado /\ ManosDistintas

\* The inductive invariant behind DespachadoExacto: the snapshots are exact too,
\* and agree with the plan on its Telegram recipients while it can be claimed.
FotoExacta ==
  /\ DespachadoExacto
  /\ \A d \in Ticks : tick[d].en # "libre" =>
       /\ Exacto(tick[d].m)
       /\ meta[tick[d].pid].status \in Despachable =>
            tick[d].m.total["tg"] = meta[tick[d].pid].total["tg"]
-----------------------------------------------------------------------------
(* Fairness: EventBridge keeps firing ticks and a tick that does not die runs *)
(* on; the worker and the service go on; time passes (windows open, not_before *)
(* and stale_seconds arrive); the operator does not stay paused for ever.   *)
EquidadSinWa ==
  /\ \A d \in Ticks : WF_vars(Avanza(d))
  /\ WF_vars(\E k \in DOMAIN envios : Entrega(k))
  /\ \A p \in Planes : WF_vars(Envejece(p)) /\ WF_vars(Vence(p))
  /\ \A c \in Canal : WF_vars(Abre(c))
  /\ WF_vars(Reanuda)
FairSpec == Spec /\ EquidadSinWa /\ WF_vars(WaVuelve)
\* The WhatsApp service may stay down.
FairSpecSinWa == Spec /\ EquidadSinWa
=============================================================================
