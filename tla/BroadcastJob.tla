----------------------------- MODULE BroadcastJob -----------------------------
(***************************************************************************)
(* The jobs of the Broadcasts table (DynamoDbBroadcastStore) beside the    *)
(* plans they share their id with: what a sending writes in both, the      *)
(* status the panel derives, and the deletions of /api/broadcasts/delete,  *)
(* call by call. Of a plan only its status is kept; PlanDispatch has the   *)
(* rest. The worker and the WhatsApp service only add to the counters of a *)
(* job that exists.                                                        *)
(***************************************************************************)
EXTENDS Integers, FiniteSets

CONSTANTS
  Manuales,      \* ids of sendings from the panel: each is new
  Posts,         \* ids of posts of the channel: deterministic, a retry writes them again
  EdadTerminal,  \* _EDAD_TERMINAL, in ticks of the clock
  FinReloj,      \* last instant
  CasosJobs      \* bounds, one of them: ids and sets of channels in use; sendings,
                 \* deletions and failures

Bids == Manuales \cup Posts
Canales == {"telegram", "whatsapp"}
CupoJobs == [ids : SUBSET Bids, canales : SUBSET SUBSET Canales,
             envios : Nat, borrados : Nat, fallos : Nat]

ASSUME BroadcastJobAssumption ==
  /\ Manuales \cap Posts = {} /\ EdadTerminal \in Nat /\ FinReloj \in Nat \ {0}
  /\ \A c \in CasosJobs : c \in CupoJobs

VARIABLES
  reloj,     \* the clock; a request or a sending lasts less than two ticks
  jobs,      \* [bid -> item of Broadcasts, or SinJob]
  planes,    \* [bid -> status of its plan, "no" when there is none]
  directos,  \* bids sent without a plan
  envio,     \* the sending between its calls, or SinPedido
  borrado,   \* the deletion between its calls, or SinPedido
  causas,    \* history: bids that met a failing call, or a deletion and a sending at once
  cupo       \* what is left of the bounds

varsJobs == <<reloj, jobs, planes, directos, envio, borrado, causas, cupo>>
-----------------------------------------------------------------------------
SinJob == <<>>
SinPedido == <<>>
EnVuelo == {"pending", "running"}
Existentes == {b \in Bids : jobs[b] # SinJob}

Contador == 0..2
Job == [source : {"manual", "channel", "capture"}, channels : SUBSET Canales,
        tg_total : Contador, tg_sent : Contador, tg_failed : Contador,
        wa_total : Contador, wa_sent : Contador, wa_failed : Contador,
        wa_started : BOOLEAN, created_at : 1..FinReloj]

JobsTypeOK ==
  /\ reloj \in 1..FinReloj
  /\ jobs \in [Bids -> Job \cup {SinJob}]
  /\ planes \in [Bids -> EnVuelo \cup {"no", "done", "canceled"}]
  /\ directos \subseteq Bids /\ causas \subseteq Bids
  /\ envio = SinPedido \/ envio.bid \in Bids
  /\ borrado = SinPedido \/ borrado.cola \subseteq Bids
  /\ cupo \in CupoJobs

InitJobs ==
  /\ reloj = 1 /\ jobs = [b \in Bids |-> SinJob] /\ planes = [b \in Bids |-> "no"]
  /\ directos = {} /\ envio = SinPedido /\ borrado = SinPedido /\ causas = {}
  /\ cupo \in CasosJobs

Bien == UNCHANGED cupo
Falla == cupo.fallos > 0 /\ cupo' = [cupo EXCEPT !.fallos = @ - 1]
-----------------------------------------------------------------------------
(* The status the panel shows, derived from the counters and from the age. *)
Sent(j) == j.tg_sent + j.wa_sent
Failed(j) == j.tg_failed + j.wa_failed
Total(j) == j.tg_total + j.wa_total
WaPendiente(j) == "whatsapp" \in j.channels /\ ~j.wa_started
Incompleto(j) == WaPendiente(j) \/ Sent(j) + Failed(j) < Total(j)
Viejo(j) == reloj - j.created_at > EdadTerminal

_estado(j) ==
  CASE j.source = "capture" -> "captured"
    [] j.source # "capture" /\ Total(j) = 0 /\ ~WaPendiente(j) -> "done"
    [] j.source # "capture" /\ Incompleto(j) /\ ~Viejo(j) ->
         IF Sent(j) + Failed(j) = 0 /\ ~WaPendiente(j) THEN "queued" ELSE "sending"
    [] OTHER -> IF Sent(j) = 0 THEN "failed"
                ELSE IF Failed(j) > 0 \/ Incompleto(j) THEN "partial" ELSE "done"
-----------------------------------------------------------------------------
(* A sending: the job first, then its plan, or the queue when there is no  *)
(* scheduling. A capture only has a job.                                   *)
crear(source, channels, tg_total) ==
  [source |-> source, channels |-> channels, tg_total |-> tg_total, tg_sent |-> 0,
   tg_failed |-> 0, wa_total |-> 0, wa_sent |-> 0, wa_failed |-> 0, wa_started |-> FALSE,
   created_at |-> reloj]

\* A deletion has already taken b for its own: it deletes by id, whatever is there then.
\* Nor does a plan that comes after the reading of those in flight keep its job from being
\* taken, if all of it is sent before the jobs are read.
Borrando(b) ==
  /\ borrado # SinPedido
  /\ \/ borrado.fase = "jobs" /\ b \notin borrado.activos
     \/ borrado.fase = "terminados" /\ b \in borrado.cola
     \/ borrado.fase = "job" /\ b = borrado.bid
Enviando(b) == envio # SinPedido /\ envio.bid = b
Cruza(b) == IF Borrando(b) \/ Enviando(b) THEN {b} ELSE {}

\* _registrar swallows its failures: the sending goes on without a job. An id of the panel
\* is new: one of which nothing is left may stand for another.
_registrar ==
  /\ envio = SinPedido /\ cupo.envios > 0
  /\ \E b \in cupo.ids, channels \in cupo.canales, n \in 0..1 :
       /\ b \in Posts \/ (planes[b] = "no" /\ jobs[b] = SinJob /\ b \notin directos \cup causas)
       /\ n > 0 => "telegram" \in channels
       /\ n = 0 => "whatsapp" \in channels \/ b \in Posts
       /\ envio' = [bid |-> b, desde |-> reloj]
       /\ \/ /\ jobs' = [jobs EXCEPT ![b] = crear(IF b \in Posts THEN "channel" ELSE "manual",
                                                  channels, n)]
             /\ causas' = causas \cup Cruza(b)
             /\ cupo' = [cupo EXCEPT !.envios = @ - 1]
          \/ /\ cupo.fallos > 0
             /\ causas' = causas \cup {b}
             /\ cupo' = [cupo EXCEPT !.envios = @ - 1, !.fallos = @ - 1]
             /\ UNCHANGED jobs
  /\ UNCHANGED <<reloj, planes, directos, borrado>>

\* A post captured: sending off, or no list chosen. Neither plan nor queue.
Captura ==
  /\ envio = SinPedido /\ cupo.envios > 0
  /\ \E b \in Posts \cap cupo.ids :
       /\ jobs' = [jobs EXCEPT ![b] = crear("capture", {}, 0)]
       /\ causas' = causas \cup (Cruza(b) \cup (IF planes[b] \in EnVuelo THEN {b} ELSE {}))
  /\ cupo' = [cupo EXCEPT !.envios = @ - 1]
  /\ UNCHANGED <<reloj, planes, directos, envio, borrado>>

\* A failure here leaves a job with nothing behind it; a post is read and sent again.
_crear_plan ==
  /\ envio # SinPedido
  /\ LET b == envio.bid
     IN  \/ /\ planes' = [planes EXCEPT ![b] = "pending"]
            /\ causas' = causas \cup (IF Borrando(b) THEN {b} ELSE {})
            /\ Bien /\ UNCHANGED directos
         \/ /\ directos' = directos \cup {b}
            /\ Bien /\ UNCHANGED <<planes, causas>>
         \/ Falla /\ UNCHANGED <<planes, directos, causas>>
  /\ envio' = SinPedido
  /\ UNCHANGED <<reloj, jobs, borrado>>
-----------------------------------------------------------------------------
(* What the dispatcher, the worker and the WhatsApp service do to the two  *)
(* items. Every update of a job is conditional on its existence.           *)
Despacha ==
  \E b \in Bids :
    /\ \/ planes[b] = "pending" /\ planes' = [planes EXCEPT ![b] = "running"]
       \/ planes[b] = "running" /\ planes' = [planes EXCEPT ![b] = "done"]
    /\ UNCHANGED <<reloj, jobs, directos, envio, borrado, causas, cupo>>

cancelar ==
  \E b \in Bids :
    /\ planes[b] \in EnVuelo
    /\ planes' = [planes EXCEPT ![b] = "canceled"]
    /\ UNCHANGED <<reloj, jobs, directos, envio, borrado, causas, cupo>>

\* Lots already released are delivered after their plan is done; with no plan there are
\* only those of the direct path.
Trabaja(b) == planes[b] \in {"running", "done"} \/ b \in directos

incr_telegram ==
  \E b \in Existentes :
    /\ Trabaja(b)
    /\ jobs[b].tg_sent + jobs[b].tg_failed < jobs[b].tg_total
    /\ \/ jobs' = [jobs EXCEPT ![b].tg_sent = @ + 1]
       \/ jobs' = [jobs EXCEPT ![b].tg_failed = @ + 1]
    /\ UNCHANGED <<reloj, planes, directos, envio, borrado, causas, cupo>>

\* The total of WhatsApp once resolved; marcar_whatsapp_fallido is a total of 0.
set_whatsapp_total ==
  \E b \in Existentes, total \in 0..1 :
    /\ Trabaja(b) /\ "whatsapp" \in jobs[b].channels /\ ~jobs[b].wa_started
    /\ jobs' = [jobs EXCEPT ![b] = [@ EXCEPT !.wa_total = total, !.wa_started = TRUE]]
    /\ UNCHANGED <<reloj, planes, directos, envio, borrado, causas, cupo>>

incr_whatsapp ==
  \E b \in Existentes :
    /\ Trabaja(b)
    /\ jobs[b].wa_sent + jobs[b].wa_failed < jobs[b].wa_total
    /\ \/ jobs' = [jobs EXCEPT ![b].wa_sent = @ + 1]
       \/ jobs' = [jobs EXCEPT ![b].wa_failed = @ + 1]
    /\ UNCHANGED <<reloj, planes, directos, envio, borrado, causas, cupo>>
-----------------------------------------------------------------------------
(* /api/broadcasts/delete. The finished ones: the plans in flight are read *)
(* first, then every job, and those to delete go one by one.               *)
Pide(fase, activos, cola) ==
  [fase |-> fase, activos |-> activos, cola |-> cola, bid |-> SinJob, unico |-> FALSE,
   desde |-> reloj]
Acaba == borrado' = SinPedido

\* M8. When the plans cannot be read none is taken to be in flight.
activos ==
  /\ borrado = SinPedido /\ cupo.borrados > 0
  /\ LET vivos == {b \in Bids : planes[b] \in EnVuelo}
     IN  \/ /\ borrado' = Pide("jobs", vivos, {})
            /\ cupo' = [cupo EXCEPT !.borrados = @ - 1]
            /\ UNCHANGED causas
         \/ /\ cupo.fallos > 0
            /\ borrado' = Pide("jobs", {}, {})
            /\ causas' = causas \cup vivos
            /\ cupo' = [cupo EXCEPT !.borrados = @ - 1, !.fallos = @ - 1]
  /\ UNCHANGED <<reloj, jobs, planes, directos, envio>>

Mut_Terminados(excluir) ==
  {b \in Existentes : _estado(jobs[b]) \notin {"queued", "sending", "captured"}}

Terminados(excluir) ==
  {b \in Existentes \ excluir : _estado(jobs[b]) \notin {"queued", "sending", "captured"}}

borrar_terminados ==
  /\ borrado # SinPedido /\ borrado.fase = "jobs"
  /\ \/ LET cola == Terminados(borrado.activos)
        IN  /\ Bien
            /\ IF cola = {} THEN Acaba
               ELSE borrado' = [borrado EXCEPT !.fase = "terminados", !.cola = cola]
     \/ Falla /\ Acaba
  /\ UNCHANGED <<reloj, jobs, planes, directos, envio, causas>>

\* One failure is passed over, the others go on.
Siguiente(b) ==
  IF borrado.cola = {b} THEN Acaba
  ELSE borrado' = [borrado EXCEPT !.cola = @ \ {b}, !.bid = SinJob,
                     !.fase = IF borrado.fase = "job" THEN "plan" ELSE borrado.fase]

BorraTerminado ==
  /\ borrado # SinPedido /\ borrado.fase = "terminados"
  /\ \E b \in borrado.cola :
       /\ Siguiente(b)
       /\ \/ /\ jobs' = [jobs EXCEPT ![b] = SinJob]
             /\ causas' = causas \cup (IF Enviando(b) THEN {b} ELSE {})
             /\ Bien
          \/ Falla /\ UNCHANGED <<jobs, causas>>
  /\ UNCHANGED <<reloj, planes, directos, envio>>

\* All, several or one: each is taken out of the queue (its plan is deleted) and then
\* deleted. "all" lists the jobs that exist; a single one is not guarded against failures.
PideBorrar ==
  /\ borrado = SinPedido /\ cupo.borrados > 0
  /\ \E cola \in (SUBSET cupo.ids) \ {{}} :
       /\ Cardinality(cola) > 1 => cola \subseteq Existentes
       /\ borrado' = [Pide("plan", {}, cola) EXCEPT !.unico = Cardinality(cola) = 1]
  /\ cupo' = [cupo EXCEPT !.borrados = @ - 1]
  /\ UNCHANGED <<reloj, jobs, planes, directos, envio, causas>>

\* A failing deletion of the plan does not keep the job from being deleted.
Desencola(b) ==
  \/ /\ planes' = [planes EXCEPT ![b] = "no"]
     /\ causas' = causas \cup (IF Enviando(b) THEN {b} ELSE {})
     /\ Bien
  \/ /\ Falla
     /\ causas' = causas \cup {b}
     /\ UNCHANGED planes

_borrar_difusion ==
  /\ borrado # SinPedido
  /\ \/ /\ borrado.fase = "plan"
        /\ \E b \in borrado.cola :
             /\ Desencola(b)
             /\ borrado' = [borrado EXCEPT !.fase = "job", !.bid = b]
        /\ UNCHANGED jobs
     \/ /\ borrado.fase = "job"
        /\ LET b == borrado.bid
           IN  \/ /\ jobs' = [jobs EXCEPT ![b] = SinJob]
                  /\ causas' = causas \cup (IF Enviando(b) THEN {b} ELSE {})
                  /\ Bien /\ Siguiente(b)
               \/ /\ Falla
                  /\ IF borrado.unico THEN Acaba ELSE Siguiente(b)
                  /\ UNCHANGED <<jobs, causas>>
        /\ UNCHANGED planes
  /\ UNCHANGED <<reloj, directos, envio>>

PasaReloj ==
  /\ reloj < FinReloj
  /\ \A p \in {envio, borrado} : p # SinPedido => p.desde = reloj
  /\ reloj' = reloj + 1
  /\ UNCHANGED <<jobs, planes, directos, envio, borrado, causas, cupo>>

NextJobs ==
  \/ _registrar \/ Captura \/ _crear_plan
  \/ Despacha \/ cancelar \/ incr_telegram \/ set_whatsapp_total \/ incr_whatsapp
  \/ activos \/ borrar_terminados \/ BorraTerminado \/ PideBorrar \/ _borrar_difusion
  \/ PasaReloj
-----------------------------------------------------------------------------
\* A plan still being sent has its job, where its progress is counted: no deletion takes
\* the job of a plan in flight, however old, nor leaves the plan of a deleted job behind.
\* It takes a call that failed (the job not registered, the plans in flight not read, the
\* plan not deleted) or a deletion and a sending of the same id at once.
EnVueloTieneJob == \A b \in Bids \ causas : planes[b] \in EnVuelo => jobs[b] # SinJob
=============================================================================
