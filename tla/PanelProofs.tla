------------------------------ MODULE PanelProofs ------------------------------
(***************************************************************************)
(* Proofs about the panel: no deletion leaves a plan in flight without its *)
(* job; a code to reset a password is tried and used as often as it may;   *)
(* and the types of everything the panel keeps.                            *)
(***************************************************************************)
EXTENDS Panel, FiniteSetTheorems, TLAPS

Fases == {"jobs", "terminados", "plan", "job"}
Planes == EnVuelo \cup {"no", "done", "canceled"}
Pedidos == [fase : Fases, activos : SUBSET Bids, cola : SUBSET Bids,
            bid : Bids \cup {SinJob}, unico : BOOLEAN, desde : Nat]

\* What the argument needs of the types.
FormaJobs ==
  /\ jobs \in [Bids -> Job \cup {SinJob}]
  /\ planes \in [Bids -> Planes]
  /\ envio # SinPedido => envio.bid \in Bids
  /\ borrado # SinPedido => borrado \in Pedidos
  /\ reloj \in 1..FinReloj /\ cupo \in CupoJobs

\* A sending between its calls has its job.
EnvioTieneJob ==
  envio # SinPedido /\ envio.bid \notin causas => jobs[envio.bid] # SinJob

\* A deletion is only ever about to take the job of a plan that is not in flight.
BorraParados ==
  borrado # SinPedido =>
    /\ borrado.fase = "jobs" =>
         \A b \in Bids \ causas : planes[b] \in EnVuelo => b \in borrado.activos
    /\ borrado.fase = "terminados" =>
         \A b \in borrado.cola \ causas : planes[b] \notin EnVuelo
    /\ borrado.fase = "job" =>
         /\ borrado.bid \in Bids
         /\ borrado.bid \notin causas => planes[borrado.bid] \notin EnVuelo

InvJobs == FormaJobs /\ EnvioTieneJob /\ BorraParados /\ EnVueloTieneJob

\* A job is told from no job by its fields.
LEMMA JobNoEsNada == \A j \in Job : j # SinJob
<1> SUFFICES ASSUME NEW j \in Job PROVE j # SinJob
  OBVIOUS
<1>1. "source" \in DOMAIN j
  BY DEF Job
<1>2. DOMAIN SinJob = {}
  BY DEF SinJob
<1> QED
  BY <1>1, <1>2
\* Counting for a job that is there leaves a job.
LEMMA CuentaEsJob ==
  ASSUME NEW j \in Job, NEW n \in Contador
  PROVE  /\ [j EXCEPT !.tg_sent = n] \in Job
         /\ [j EXCEPT !.tg_failed = n] \in Job
         /\ [j EXCEPT !.wa_sent = n] \in Job
         /\ [j EXCEPT !.wa_failed = n] \in Job
         /\ [j EXCEPT !.wa_total = n, !.wa_started = TRUE] \in Job
<1>1. [j EXCEPT !.tg_sent = n] \in Job
  BY DEF Job
<1>2. [j EXCEPT !.tg_failed = n] \in Job
  BY DEF Job
<1>3. [j EXCEPT !.wa_sent = n] \in Job
  BY DEF Job
<1>4. [j EXCEPT !.wa_failed = n] \in Job
  BY DEF Job
<1>5. [j EXCEPT !.wa_total = n, !.wa_started = TRUE] \in Job
  BY DEF Job
<1> QED
  BY <1>1, <1>2, <1>3, <1>4, <1>5

\* What crear writes is a job.
LEMMA CrearEsJob ==
  ASSUME NEW source \in {"manual", "channel", "capture"}, NEW channels \in SUBSET Canales,
         NEW n \in 0..1, reloj \in 1..FinReloj
  PROVE  crear(source, channels, n) \in Job
BY DEF crear, Job, Contador

\* Spending what is left leaves bounds that are still bounds.
LEMMA CupoBajaEsCupo ==
  ASSUME NEW c \in CupoJobs
  PROVE  /\ c.envios > 0 => [c EXCEPT !.envios = c.envios - 1] \in CupoJobs
         /\ c.borrados > 0 => [c EXCEPT !.borrados = c.borrados - 1] \in CupoJobs
         /\ c.fallos > 0 => [c EXCEPT !.fallos = c.fallos - 1] \in CupoJobs
         /\ c.envios > 0 /\ c.fallos > 0 =>
              [c EXCEPT !.envios = c.envios - 1, !.fallos = c.fallos - 1] \in CupoJobs
         /\ c.borrados > 0 /\ c.fallos > 0 =>
              [c EXCEPT !.borrados = c.borrados - 1, !.fallos = c.fallos - 1] \in CupoJobs
<1>1. c.envios > 0 => [c EXCEPT !.envios = c.envios - 1] \in CupoJobs
  BY DEF CupoJobs
<1>2. c.borrados > 0 => [c EXCEPT !.borrados = c.borrados - 1] \in CupoJobs
  BY DEF CupoJobs
<1>3. c.fallos > 0 => [c EXCEPT !.fallos = c.fallos - 1] \in CupoJobs
  BY DEF CupoJobs
<1>4. c.envios > 0 /\ c.fallos > 0 =>
        [c EXCEPT !.envios = c.envios - 1, !.fallos = c.fallos - 1] \in CupoJobs
  <2> SUFFICES ASSUME c.envios > 0, c.fallos > 0
               PROVE  [c EXCEPT !.envios = c.envios - 1, !.fallos = c.fallos - 1] \in CupoJobs
    OBVIOUS
  <2>1. c.envios - 1 \in Nat /\ c.fallos - 1 \in Nat
    BY DEF CupoJobs
  <2> DEFINE m == c.envios - 1
             n == c.fallos - 1
  <2>2. m \in Nat /\ n \in Nat
    BY <2>1
  <2> HIDE DEF m, n
  <2>3. [c EXCEPT !.envios = m, !.fallos = n] \in CupoJobs
    BY <2>2 DEF CupoJobs
  <2> QED
    BY <2>3 DEF m, n
<1>5. c.borrados > 0 /\ c.fallos > 0 =>
        [c EXCEPT !.borrados = c.borrados - 1, !.fallos = c.fallos - 1] \in CupoJobs
  <2> SUFFICES ASSUME c.borrados > 0, c.fallos > 0
               PROVE  [c EXCEPT !.borrados = c.borrados - 1, !.fallos = c.fallos - 1] \in CupoJobs
    OBVIOUS
  <2>1. c.borrados - 1 \in Nat /\ c.fallos - 1 \in Nat
    BY DEF CupoJobs
  <2> DEFINE m == c.borrados - 1
             n == c.fallos - 1
  <2>2. m \in Nat /\ n \in Nat
    BY <2>1
  <2> HIDE DEF m, n
  <2>3. [c EXCEPT !.borrados = m, !.fallos = n] \in CupoJobs
    BY <2>2 DEF CupoJobs
  <2> QED
    BY <2>3 DEF m, n
<1> QED
  BY <1>1, <1>2, <1>3, <1>4, <1>5

\* Each step spends at most its own.
LEMMA CupoTipo ==
  ASSUME cupo \in CupoJobs, NextJobs
  PROVE  cupo' \in CupoJobs
<1>1. CASE _registrar
  BY <1>1, CupoBajaEsCupo DEF _registrar
<1>2. CASE Captura
  BY <1>2, CupoBajaEsCupo DEF Captura
<1>3. CASE activos
  BY <1>3, CupoBajaEsCupo DEF activos
<1>4. CASE PideBorrar
  BY <1>4, CupoBajaEsCupo DEF PideBorrar
<1>5. CASE _crear_plan \/ borrar_terminados \/ BorraTerminado
  BY <1>5, CupoBajaEsCupo DEF _crear_plan, borrar_terminados, BorraTerminado, Bien, Falla
<1>6. CASE _borrar_difusion
  BY <1>6, CupoBajaEsCupo DEF _borrar_difusion, Desencola, Bien, Falla
<1>7. CASE UNCHANGED cupo
  BY <1>7
<1> QED
  BY <1>1, <1>2, <1>3, <1>4, <1>5, <1>6, <1>7
  DEF NextJobs, Despacha, cancelar, incr_telegram, set_whatsapp_total, incr_whatsapp, PasaReloj

-----------------------------------------------------------------------------
(* The steps.                                                              *)
\* At the start nothing is in flight.
LEMMA JobsInicio == InitJobs => InvJobs
BY BroadcastJobAssumption DEF InitJobs, InvJobs, FormaJobs, EnvioTieneJob, BorraParados, EnVueloTieneJob,
   Planes, SinPedido, EnVuelo

\* The updates of a plan and of the counters of a job that exists.
LEMMA JobsDespacho ==
  ASSUME InvJobs, Despacha \/ cancelar \/ incr_telegram \/ set_whatsapp_total \/ incr_whatsapp
  PROVE  InvJobs'
<1>0. cupo' \in CupoJobs
  BY CupoTipo DEF InvJobs, FormaJobs, NextJobs
<1>1. CASE Despacha
  <2>1. PICK b \in Bids : /\ planes[b] \in EnVuelo
                         /\ planes' = [planes EXCEPT ![b] = planes'[b]]
                         /\ planes'[b] \in Planes
    BY <1>1 DEF InvJobs, FormaJobs, Despacha, EnVuelo, Planes
  <2>2. UNCHANGED <<reloj, cupo, jobs, envio, borrado, causas>>
    BY <1>1 DEF Despacha
  <2>3. \A x \in Bids : planes'[x] \in EnVuelo => planes[x] \in EnVuelo
    BY <2>1 DEF InvJobs, FormaJobs
  <2>4. FormaJobs'
    BY <1>0, <2>1, <2>2 DEF InvJobs, FormaJobs
  <2>5. EnvioTieneJob' /\ EnVueloTieneJob'
    BY <2>2, <2>3 DEF InvJobs, EnvioTieneJob, EnVueloTieneJob
  <2>6. BorraParados'
    BY <2>2, <2>3 DEF InvJobs, BorraParados, FormaJobs, Pedidos
  <2> QED
    BY <2>4, <2>5, <2>6 DEF InvJobs
<1>2. CASE cancelar
  BY <1>2 DEF InvJobs, cancelar, FormaJobs, EnvioTieneJob, BorraParados, EnVueloTieneJob, Planes, EnVuelo
<1>3. CASE incr_telegram \/ set_whatsapp_total \/ incr_whatsapp
  <2>1. \E b \in Existentes : \E j \in Job : jobs' = [jobs EXCEPT ![b] = j]
    <3>1. CASE incr_telegram
      <4>1. PICK b \in Existentes :
              /\ jobs[b].tg_sent + jobs[b].tg_failed < jobs[b].tg_total
              /\ \/ jobs' = [jobs EXCEPT ![b] = [jobs[b] EXCEPT !.tg_sent = jobs[b].tg_sent + 1]]
                 \/ jobs' = [jobs EXCEPT ![b] = [jobs[b] EXCEPT !.tg_failed = jobs[b].tg_failed + 1]]
        BY <3>1 DEF incr_telegram
      <4>2. jobs[b] \in Job
        BY DEF InvJobs, FormaJobs, Existentes
      <4>3. jobs[b].tg_sent + 1 \in Contador /\ jobs[b].tg_failed + 1 \in Contador
        BY <4>1, <4>2 DEF Job, Contador
      <4> QED
        BY <4>1, <4>2, <4>3, CuentaEsJob
    <3>2. CASE incr_whatsapp
      <4>1. PICK b \in Existentes :
              /\ jobs[b].wa_sent + jobs[b].wa_failed < jobs[b].wa_total
              /\ \/ jobs' = [jobs EXCEPT ![b] = [jobs[b] EXCEPT !.wa_sent = jobs[b].wa_sent + 1]]
                 \/ jobs' = [jobs EXCEPT ![b] = [jobs[b] EXCEPT !.wa_failed = jobs[b].wa_failed + 1]]
        BY <3>2 DEF incr_whatsapp
      <4>2. jobs[b] \in Job
        BY DEF InvJobs, FormaJobs, Existentes
      <4>3. jobs[b].wa_sent + 1 \in Contador /\ jobs[b].wa_failed + 1 \in Contador
        BY <4>1, <4>2 DEF Job, Contador
      <4> QED
        BY <4>1, <4>2, <4>3, CuentaEsJob
    <3>3. CASE set_whatsapp_total
      <4>1. PICK b \in Existentes, total \in 0..1 :
              jobs' = [jobs EXCEPT ![b] = [jobs[b] EXCEPT !.wa_total = total, !.wa_started = TRUE]]
        BY <3>3 DEF set_whatsapp_total
      <4>2. jobs[b] \in Job /\ total \in Contador
        BY DEF InvJobs, FormaJobs, Existentes, Contador
      <4> QED
        BY <4>1, <4>2, CuentaEsJob
    <3> QED
      BY <1>3, <3>1, <3>2, <3>3
  <2>2. UNCHANGED <<reloj, cupo, planes, envio, borrado, causas>>
    BY <1>3 DEF incr_telegram, set_whatsapp_total, incr_whatsapp
  <2> QED
    BY <2>1, <2>2, JobNoEsNada
    DEF InvJobs, FormaJobs, EnvioTieneJob, BorraParados, EnVueloTieneJob, Existentes
<1> QED
  BY <1>1, <1>2, <1>3

\* A sending writes its job and then its plan, unless a deletion has already taken it.
LEMMA JobsEnvio ==
  ASSUME InvJobs, _registrar \/ Captura \/ _crear_plan
  PROVE  InvJobs'
<1>0. cupo' \in CupoJobs
  BY CupoTipo DEF InvJobs, FormaJobs, NextJobs
<1>1. CASE _registrar
  <2>1. PICK b \in cupo.ids, channels \in cupo.canales, n \in 0..1 :
          /\ n > 0 => "telegram" \in channels
          /\ envio' = [bid |-> b, desde |-> reloj]
          /\ \/ /\ jobs' = [jobs EXCEPT ![b] = crear(IF b \in Posts THEN "channel" ELSE "manual",
                                                     channels, n)]
                /\ causas' = causas \cup Cruza(b)
             \/ /\ causas' = causas \cup {b}
                /\ UNCHANGED jobs
    BY <1>1 DEF _registrar
  <2>2. UNCHANGED <<reloj, planes, borrado>>
    BY <1>1 DEF _registrar
  <2>3. b \in Bids /\ channels \in SUBSET Canales
    BY DEF InvJobs, FormaJobs, CupoJobs
  <2>4. crear(IF b \in Posts THEN "channel" ELSE "manual", channels, n) \in Job
    BY <2>3, CrearEsJob DEF InvJobs, FormaJobs
  <2>5. FormaJobs'
    BY <1>0, <2>1, <2>2, <2>3, <2>4 DEF InvJobs, FormaJobs
  <2>6. /\ causas \subseteq causas' /\ (jobs'[b] # SinJob \/ b \in causas')
        /\ \A x \in Bids : jobs[x] # SinJob => jobs'[x] # SinJob
    BY <2>1, <2>3, <2>4, JobNoEsNada DEF InvJobs, FormaJobs
  <2>7. EnvioTieneJob' /\ EnVueloTieneJob'
    BY <2>1, <2>2, <2>3, <2>6 DEF InvJobs, EnvioTieneJob, EnVueloTieneJob
  <2>8. BorraParados'
    BY <2>2, <2>6 DEF InvJobs, BorraParados, FormaJobs, Pedidos
  <2> QED
    BY <2>5, <2>7, <2>8 DEF InvJobs
<1>2. CASE Captura
  <2>1. PICK b \in Posts \cap cupo.ids :
          /\ jobs' = [jobs EXCEPT ![b] = crear("capture", {}, 0)]
          /\ causas \subseteq causas'
    BY <1>2 DEF Captura
  <2>2. UNCHANGED <<reloj, planes, envio, borrado>>
    BY <1>2 DEF Captura
  <2>3. crear("capture", {}, 0) \in Job /\ b \in Bids
    BY CrearEsJob DEF InvJobs, FormaJobs, Bids
  <2>4. FormaJobs'
    BY <1>0, <2>1, <2>2, <2>3 DEF InvJobs, FormaJobs
  <2>5. EnvioTieneJob' /\ EnVueloTieneJob'
    BY <2>1, <2>2, <2>3, JobNoEsNada DEF InvJobs, FormaJobs, EnvioTieneJob, EnVueloTieneJob
  <2>6. BorraParados'
    BY <2>1, <2>2 DEF InvJobs, BorraParados, FormaJobs, Pedidos
  <2> QED
    BY <2>4, <2>5, <2>6 DEF InvJobs
<1>3. CASE _crear_plan
  <2> DEFINE b == envio.bid
  <2>1. /\ envio # SinPedido /\ b \in Bids
        /\ \/ /\ planes' = [planes EXCEPT ![b] = "pending"]
              /\ causas' = causas \cup (IF Borrando(b) THEN {b} ELSE {})
           \/ UNCHANGED <<planes, causas>>
    BY <1>3 DEF _crear_plan, InvJobs, FormaJobs
  <2>2. UNCHANGED <<reloj, jobs, borrado>> /\ envio' = SinPedido
    BY <1>3 DEF _crear_plan
  <2>3. FormaJobs'
    BY <1>0, <2>1, <2>2 DEF InvJobs, FormaJobs, Planes, EnVuelo
  <2>4. EnvioTieneJob'
    BY <2>2 DEF EnvioTieneJob
  <2>5. EnVueloTieneJob'
    BY <2>1, <2>2 DEF InvJobs, FormaJobs, EnvioTieneJob, EnVueloTieneJob
  <2>6. BorraParados'
    BY <2>1, <2>2 DEF InvJobs, BorraParados, FormaJobs, Pedidos, Borrando
  <2> QED
    BY <2>3, <2>4, <2>5, <2>6 DEF InvJobs
<1> QED
  BY <1>1, <1>2, <1>3

\* Which plans are in flight is read before the jobs; what comes later is a crossing.
LEMMA JobsTerminados ==
  ASSUME InvJobs, activos \/ borrar_terminados \/ BorraTerminado
  PROVE  InvJobs'
<1>0. cupo' \in CupoJobs
  BY CupoTipo DEF InvJobs, FormaJobs, NextJobs
<1>1. CASE activos
  <2>1. PICK vivos \in SUBSET Bids :
          /\ borrado' = Pide("jobs", vivos, {})
          /\ causas \subseteq causas'
          /\ \A b \in Bids \ causas' : planes[b] \in EnVuelo => b \in vivos
    <3> DEFINE todos == {b \in Bids : planes[b] \in EnVuelo}
    <3>1. \/ borrado' = Pide("jobs", todos, {}) /\ causas' = causas
          \/ borrado' = Pide("jobs", {}, {}) /\ causas' = causas \cup todos
      BY <1>1 DEF activos
    <3> QED
      BY <3>1
  <2>2. UNCHANGED <<reloj, jobs, planes, envio>>
    BY <1>1 DEF activos
  <2>3. borrado' \in Pedidos /\ borrado'.fase = "jobs" /\ borrado'.activos = vivos
    BY <2>1 DEF Pide, Pedidos, Fases, InvJobs, FormaJobs
  <2> QED
    BY <1>0, <2>1, <2>2, <2>3 DEF InvJobs, FormaJobs, EnvioTieneJob, BorraParados, EnVueloTieneJob
<1>2. CASE borrar_terminados
  <2>1. borrado # SinPedido /\ borrado.fase = "jobs" /\ borrado \in Pedidos
    BY <1>2 DEF borrar_terminados, InvJobs, FormaJobs
  <2>2. \/ borrado' = SinPedido
        \/ borrado' = [borrado EXCEPT !.fase = "terminados", !.cola = Terminados(borrado.activos)]
    BY <1>2 DEF borrar_terminados, Acaba
  <2>3. UNCHANGED <<reloj, jobs, planes, envio, causas>>
    BY <1>2 DEF borrar_terminados
  <2>4. Terminados(borrado.activos) \subseteq Bids \ borrado.activos
    BY DEF Terminados, Existentes
  <2>5. FormaJobs'
    BY <1>0, <2>1, <2>2, <2>3, <2>4 DEF InvJobs, FormaJobs, Pedidos, Fases
  <2>6. BorraParados'
    BY <2>1, <2>2, <2>3, <2>4 DEF InvJobs, BorraParados, Pedidos
  <2> QED
    BY <2>3, <2>5, <2>6 DEF InvJobs, EnvioTieneJob, EnVueloTieneJob
<1>3. CASE BorraTerminado
  <2>1. PICK b \in borrado.cola :
          /\ Siguiente(b)
          /\ \/ /\ jobs' = [jobs EXCEPT ![b] = SinJob]
                /\ causas' = causas \cup (IF Enviando(b) THEN {b} ELSE {})
             \/ UNCHANGED <<jobs, causas>>
    BY <1>3 DEF BorraTerminado
  <2>2. /\ borrado # SinPedido /\ borrado.fase = "terminados" /\ borrado \in Pedidos
        /\ UNCHANGED <<reloj, planes, envio>>
    BY <1>3 DEF BorraTerminado, InvJobs, FormaJobs
  <2>3. \/ borrado' = SinPedido
        \/ borrado' \in Pedidos /\ borrado'.fase = "terminados" /\ borrado'.cola \subseteq borrado.cola
    <3>1. \/ borrado' = SinPedido
          \/ borrado' = [borrado EXCEPT !.cola = borrado.cola \ {b}, !.bid = SinJob,
                                        !.fase = "terminados"]
      BY <2>1, <2>2 DEF Siguiente, Acaba
    <3> QED
      <4>1. borrado.cola \ {b} \in SUBSET Bids /\ "terminados" \in Fases
        BY <2>2 DEF Pedidos, Fases
      <4>2. CASE borrado' = [borrado EXCEPT !.cola = borrado.cola \ {b}, !.bid = SinJob, !.fase = "terminados"]
          <5>1. borrado \in Pedidos /\ borrado.cola \ {b} \in SUBSET Bids
            BY <2>2, <4>1
          <5>2. borrado' = [fase |-> "terminados", activos |-> borrado.activos,
                           cola |-> borrado.cola \ {b}, bid |-> SinJob,
                           unico |-> borrado.unico, desde |-> borrado.desde]
            BY <5>1, <4>2 DEF Pedidos
          <5>3. borrado' \in Pedidos /\ borrado'.fase = "terminados" /\ borrado'.cola = borrado.cola \ {b}
            BY <5>1, <5>2 DEF Pedidos, Fases
          <5> QED
            BY <5>3
      <4> QED
        BY <3>1, <4>2
  <2>4. b \in Bids /\ (b \notin causas => planes[b] \notin EnVuelo)
    BY <2>1, <2>2 DEF InvJobs, BorraParados, Pedidos
  <2>5. FormaJobs'
    BY <1>0, <2>1, <2>2, <2>3 DEF InvJobs, FormaJobs
  <2>6. EnvioTieneJob' /\ EnVueloTieneJob'
    BY <2>1, <2>2, <2>4 DEF InvJobs, FormaJobs, EnvioTieneJob, EnVueloTieneJob, Enviando
  <2>7. BorraParados'
    BY <2>1, <2>2, <2>3 DEF InvJobs, BorraParados
  <2> QED
    BY <2>5, <2>6, <2>7 DEF InvJobs
<1> QED
  BY <1>1, <1>2, <1>3

\* First the plan, then the job.
LEMMA JobsBorrado ==
  ASSUME InvJobs, PideBorrar \/ _borrar_difusion \/ PasaReloj
  PROVE  InvJobs'
<1>0. cupo' \in CupoJobs
  BY CupoTipo DEF InvJobs, FormaJobs, NextJobs
<1>1. CASE PideBorrar
  <2>1. PICK cola \in SUBSET cupo.ids :
          borrado' = [Pide("plan", {}, cola) EXCEPT !.unico = (Cardinality(cola) = 1)]
    BY <1>1 DEF PideBorrar
  <2>2. UNCHANGED <<reloj, jobs, planes, envio, causas>>
    BY <1>1 DEF PideBorrar
  <2>3. cola \subseteq Bids
    BY DEF InvJobs, FormaJobs, CupoJobs
  <2>4. borrado' \in Pedidos /\ borrado'.fase = "plan"
    <3>1. borrado' = [fase |-> "plan", activos |-> {}, cola |-> cola, bid |-> SinJob,
                      unico |-> (Cardinality(cola) = 1), desde |-> reloj]
      BY <2>1 DEF Pide
    <3> QED
      BY <2>3, <3>1 DEF Pedidos, Fases, InvJobs, FormaJobs
  <2> QED
    BY <1>0, <2>2, <2>4 DEF InvJobs, FormaJobs, EnvioTieneJob, BorraParados, EnVueloTieneJob
<1>2. CASE _borrar_difusion
  <2>1. /\ borrado # SinPedido /\ borrado \in Pedidos
        /\ UNCHANGED <<reloj, envio>>
    BY <1>2 DEF _borrar_difusion, InvJobs, FormaJobs
  <2>2. CASE borrado.fase = "plan"
    <3>1. PICK b \in borrado.cola :
            /\ \/ /\ planes' = [planes EXCEPT ![b] = "no"]
                  /\ causas \subseteq causas'
               \/ UNCHANGED planes /\ causas' = causas \cup {b}
            /\ borrado' = [borrado EXCEPT !.fase = "job", !.bid = b]
            /\ UNCHANGED jobs
      BY <1>2, <2>2 DEF _borrar_difusion, Desencola
    <3>2. b \in Bids /\ borrado' \in Pedidos /\ borrado'.fase = "job" /\ borrado'.bid = b
      BY <2>1, <3>1 DEF Pedidos, Fases
    <3>3. FormaJobs'
      BY <1>0, <2>1, <3>1, <3>2 DEF InvJobs, FormaJobs, Planes
    <3>4. EnvioTieneJob' /\ EnVueloTieneJob'
      BY <2>1, <3>1, <3>2 DEF InvJobs, FormaJobs, EnvioTieneJob, EnVueloTieneJob, EnVuelo
    <3>5. BorraParados'
      BY <3>1, <3>2 DEF InvJobs, FormaJobs, BorraParados, EnVuelo
    <3> QED
      BY <3>3, <3>4, <3>5 DEF InvJobs
  <2>3. CASE borrado.fase = "job"
    <3> DEFINE b == borrado.bid
    <3>1. /\ \/ /\ jobs' = [jobs EXCEPT ![b] = SinJob]
                /\ causas' = causas \cup (IF Enviando(b) THEN {b} ELSE {})
             \/ UNCHANGED <<jobs, causas>>
          /\ Acaba \/ Siguiente(b)
          /\ UNCHANGED planes
      BY <1>2, <2>3 DEF _borrar_difusion
    <3>2. b \in Bids /\ (b \notin causas => planes[b] \notin EnVuelo)
      BY <2>1, <2>3 DEF InvJobs, BorraParados
    <3>3. borrado' = SinPedido \/ (borrado' \in Pedidos /\ borrado'.fase = "plan")
      <4>1. \/ borrado' = SinPedido
            \/ borrado' = [borrado EXCEPT !.cola = borrado.cola \ {b}, !.bid = SinJob, !.fase = "plan"]
        BY <2>3, <3>1 DEF Siguiente, Acaba
      <4> QED
        <5>1. borrado.cola \ {b} \in SUBSET Bids /\ "plan" \in Fases
          BY <2>1 DEF Pedidos, Fases
        <5>2. CASE borrado' = [borrado EXCEPT !.cola = borrado.cola \ {b}, !.bid = SinJob, !.fase = "plan"]
            <6>1. borrado \in Pedidos /\ borrado.cola \ {b} \in SUBSET Bids
              BY <2>1, <5>1
            <6>2. borrado' = [fase |-> "plan", activos |-> borrado.activos,
                             cola |-> borrado.cola \ {b}, bid |-> SinJob,
                             unico |-> borrado.unico, desde |-> borrado.desde]
              BY <6>1, <5>2 DEF Pedidos
            <6>3. borrado' \in Pedidos /\ borrado'.fase = "plan" /\ borrado'.cola = borrado.cola \ {b}
              BY <6>1, <6>2 DEF Pedidos, Fases
            <6> QED
              BY <6>3
        <5> QED
          BY <4>1, <5>2
    <3>4. FormaJobs'
      BY <1>0, <2>1, <3>1, <3>3 DEF InvJobs, FormaJobs
    <3>5. EnvioTieneJob' /\ EnVueloTieneJob'
      BY <2>1, <3>1, <3>2 DEF InvJobs, FormaJobs, EnvioTieneJob, EnVueloTieneJob, Enviando
    <3>6. BorraParados'
      BY <3>3 DEF BorraParados
    <3> QED
      BY <3>4, <3>5, <3>6 DEF InvJobs
  <2> QED
    BY <1>2, <2>2, <2>3 DEF _borrar_difusion
<1>3. CASE PasaReloj
  <2>1. reloj' = reloj + 1 /\ UNCHANGED <<jobs, planes, envio, borrado, causas>>
    BY <1>3 DEF PasaReloj
  <2>2. reloj' \in 1..FinReloj
    BY <1>3, BroadcastJobAssumption DEF PasaReloj, InvJobs, FormaJobs
  <2> QED
    BY <1>0, <2>1, <2>2 DEF InvJobs, FormaJobs, EnvioTieneJob, BorraParados, EnVueloTieneJob
<1> QED
  BY <1>1, <1>2, <1>3

\* No request of the panel, of any front, breaks the invariant.
LEMMA JobsPaso ==
  ASSUME InvJobs, [Next]_vars
  PROVE  InvJobs'
<1>1. CASE NextJobs
  BY <1>1, JobsDespacho, JobsEnvio, JobsTerminados, JobsBorrado DEF NextJobs
<1>2. CASE UNCHANGED varsJobs
  BY <1>2 DEF varsJobs, InvJobs, FormaJobs, EnvioTieneJob, BorraParados, EnVueloTieneJob
<1> QED
  BY <1>1, <1>2 DEF Next, EnSesion, vars

-----------------------------------------------------------------------------
\* A plan still being sent has its job (_registrar before _crear_plan, borrar_terminados
\* given the plans in flight, _borrar_difusion taking the plan before the job), for any
\* ids, clock and failures, except where a call failed or a deletion crossed a sending.
THEOREM RunningHasJob == Spec => []EnVueloTieneJob
<1>1. Init => InvJobs
  BY JobsInicio DEF Init
<1>2. InvJobs /\ [Next]_vars => InvJobs'
  BY JobsPaso
<1>3. InvJobs => EnVueloTieneJob
  BY DEF InvJobs
<1> QED
  BY <1>1, <1>2, <1>3, PTL DEF Spec
(* The codes: their types, whose each is, and what became of it.           *)

TablaUsuarios == [Usuarios -> Registro \cup {Nadie}]
TablaCodigos == [Usuarios -> Reset \cup {Nadie}]
QuizaCodigo == Codigos \cup {NingunCodigo}

\* What a request is between its calls.
DeSesion == [en : {"rol", "lee", "clave"}, op : Operaciones, yo : Usuarios, clave : Claves,
             sobre : Usuarios, nueva : Claves, rol : Roles \ {"sin"}]
DeUsers == [en : {"set_users"}, users : TablaUsuarios, sobre : Usuarios]
DeForgot == [en : {"forgot"}, sobre : Usuarios]
DeReset == [en : {"reset"}, sobre : Usuarios, leidos : TablaCodigos, nueva : Claves]
DeClave == [en : {"clave nueva"}, sobre : Usuarios, leidos : TablaCodigos,
            users : TablaUsuarios]
DeCodigos == [en : {"set_resets"}, sobre : Usuarios, leidos : TablaCodigos,
              codes : TablaCodigos, fallido : QuizaCodigo, usado : QuizaCodigo,
              emite : QuizaCodigo]
Peticiones == DeSesion \cup DeUsers \cup DeForgot \cup DeReset \cup DeClave \cup DeCodigos

\* No more codes are sent than requests were let through.
PidenCodigo == {c \in Conts : En(c, "forgot")}
FormaAuth ==
  /\ AuthTypeOK
  /\ peticion \in [Conts -> Peticiones \cup {Nadie}]
  /\ \A c \in Conts : auth[c].fails = MaxFails => auth[c].locked_until # 0
  /\ emitidos.n + Cardinality(PidenCodigo) + quedan.publicas <= MaxCodigos

\* A reading of the codes that a request is going to write back, and the code it sends.
Tiene(tabla, u, k) == tabla[u] # Nadie /\ tabla[u].code = k
Lleva(c) == peticion[c] # Nadie /\ peticion[c].en \in {"reset", "clave nueva", "set_resets"}
Emite(c) == IF En(c, "set_resets") THEN peticion[c].emite ELSE NingunCodigo

\* What is about to be written is what was read but for one user: a code tried once more,
\* dropped or new.
Escritura(r) ==
  /\ \A v \in Usuarios \ {r.sobre} : r.codes[v] = r.leidos[v]
  /\ r.fallido # NingunCodigo =>
       /\ Tiene(r.leidos, r.sobre, r.fallido) /\ Tiene(r.codes, r.sobre, r.fallido)
       /\ r.codes[r.sobre].attempts = r.leidos[r.sobre].attempts + 1
       /\ r.usado = NingunCodigo /\ r.emite = NingunCodigo
  /\ r.usado # NingunCodigo => /\ Tiene(r.leidos, r.sobre, r.usado)
                               /\ r.emite = NingunCodigo
  /\ r.emite # NingunCodigo => /\ Tiene(r.codes, r.sobre, r.emite)
                               /\ r.codes[r.sobre].attempts = 0
  /\ r.fallido = NingunCodigo /\ r.emite = NingunCodigo => r.codes[r.sobre] = Nadie
EnCurso ==
  \A c \in Conts : /\ En(c, "set_resets") => Escritura(peticion[c])
                   /\ En(c, "reset") \/ En(c, "clave nueva") =>
                        peticion[c].leidos[peticion[c].sobre] # Nadie

\* A code belongs to one user, wherever it is: stored, read or sent last.
Posee(u, k) == \/ Tiene(codes, u, k) \/ emitidos.de[u] = k
               \/ \E c \in Conts : Lleva(c) /\ Tiene(peticion[c].leidos, u, k)
Duenos == \A k \in Codigos, u \in Usuarios :
            Posee(u, k) => k <= emitidos.n /\ \A v \in Usuarios : Posee(v, k) => u = v

\* One not sent yet is nobody's and untouched.
Intacto(k) == probados[k] = 0 /\ usados[k] = 0 /\ k \notin superados
Frescos ==
  /\ \A k \in Codigos : k > emitidos.n => Intacto(k)
  /\ \A c \in Conts : Emite(c) # NingunCodigo =>
       /\ Emite(c) <= emitidos.n /\ Intacto(Emite(c))
       /\ \A u \in Usuarios : ~Posee(u, Emite(c))
       /\ \A d \in Conts \ {c} : Emite(d) # Emite(c)

\* One that is stored, and that no stale reading met, is the last of its user: it keeps
\* the count of its wrong tries and changed no password.
Vigor == \A u \in Usuarios, k \in Codigos \ pisados :
           Tiene(codes, u, k) => /\ probados[k] = codes[u].attempts /\ usados[k] = 0
                                 /\ emitidos.de[u] = k

-----------------------------------------------------------------------------
\* A request is told from none, and what it carries from the point where it is.
LEMMA PeticionDe ==
  ASSUME NEW c \in Conts, peticion \in [Conts -> Peticiones \cup {Nadie}], peticion[c] # Nadie
  PROVE  /\ peticion[c].en \in {"rol", "lee", "clave"} => peticion[c] \in DeSesion
         /\ peticion[c].en = "set_users" => peticion[c] \in DeUsers
         /\ peticion[c].en = "forgot" => peticion[c] \in DeForgot
         /\ peticion[c].en = "reset" => peticion[c] \in DeReset
         /\ peticion[c].en = "clave nueva" => peticion[c] \in DeClave
         /\ peticion[c].en = "set_resets" => peticion[c] \in DeCodigos
<1>1. peticion[c] \in Peticiones
  OBVIOUS
<1> QED
  BY <1>1 DEF Peticiones, DeSesion, DeUsers, DeForgot, DeReset, DeClave, DeCodigos

\* A request is told from none by its step.
LEMMA NoEsNadie == \A r \in Peticiones : r # Nadie /\ r.en \in {"rol", "lee", "clave",
                     "set_users", "forgot", "reset", "clave nueva", "set_resets"}
<1> SUFFICES ASSUME NEW r \in Peticiones
             PROVE  r # Nadie /\ r.en \in {"rol", "lee", "clave", "set_users", "forgot",
                                           "reset", "clave nueva", "set_resets"}
  OBVIOUS
<1>1. "en" \in DOMAIN r
  BY DEF Peticiones, DeSesion, DeUsers, DeForgot, DeReset, DeClave, DeCodigos
<1>2. DOMAIN Nadie = {}
  BY DEF Nadie
<1>3. r # Nadie
  BY <1>1, <1>2
<1> QED
  BY <1>3 DEF Peticiones, DeSesion, DeUsers, DeForgot, DeReset, DeClave, DeCodigos

\* A record of a code or of a user is told from none.
LEMMA ResetNoEsNadie == \A r \in Reset : r # Nadie
<1> SUFFICES ASSUME NEW r \in Reset PROVE r # Nadie
  OBVIOUS
<1>1. "code" \in DOMAIN r
  BY DEF Reset
<1>2. DOMAIN Nadie = {}
  BY DEF Nadie
<1> QED
  BY <1>1, <1>2

\* What is left of the bounds.
LEMMA CupoAuthBaja ==
  ASSUME NEW q \in CupoAuth
  PROVE  /\ q.publicas > 0 => [q EXCEPT !.publicas = q.publicas - 1] \in CupoAuth
         /\ q.sesiones > 0 => [q EXCEPT !.sesiones = q.sesiones - 1] \in CupoAuth
         /\ q.fallos > 0 => [q EXCEPT !.fallos = q.fallos - 1] \in CupoAuth
<1>1. q.publicas > 0 => [q EXCEPT !.publicas = q.publicas - 1] \in CupoAuth
  BY DEF CupoAuth
<1>2. q.sesiones > 0 => [q EXCEPT !.sesiones = q.sesiones - 1] \in CupoAuth
  BY DEF CupoAuth
<1>3. q.fallos > 0 => [q EXCEPT !.fallos = q.fallos - 1] \in CupoAuth
  BY DEF CupoAuth
<1> QED
  BY <1>1, <1>2, <1>3

\* The assumptions on the constants, one by one.
LEMMA SonConstantes ==
  /\ Principal \in Usuarios /\ Validas \subseteq Claves /\ EnvClave \in Claves
  /\ IsFiniteSet(Conts)
  /\ MaxFails \in Nat \ {0} /\ Bloqueo \in Nat \ {0} /\ Espera \in Nat \ {0}
  /\ Vigencia \in Nat \ {0} /\ MaxIntentos \in Nat \ {0} /\ MaxEnvios \in Nat \ {0}
  /\ FinAuth \in Nat \ {0}
  /\ \A q \in CasosAuth : q \in CupoAuth /\ q.publicas <= MaxCodigos
BY PanelAuthAssumption

\* How many ask for a code, when one of them goes on, or nobody does.
LEMMA CuantosPiden ==
  ASSUME NEW c \in Conts, NEW r, peticion \in [Conts -> Peticiones \cup {Nadie}],
         peticion' = [peticion EXCEPT ![c] = r]
  PROVE  /\ Cardinality(PidenCodigo) \in Nat /\ Cardinality(PidenCodigo') \in Nat
         /\ Cardinality(PidenCodigo') <= Cardinality(PidenCodigo) + 1
         /\ r = Nadie \/ r.en # "forgot" =>
              /\ Cardinality(PidenCodigo') <= Cardinality(PidenCodigo)
              /\ En(c, "forgot") => Cardinality(PidenCodigo') = Cardinality(PidenCodigo) - 1
<1>1. \A d \in Conts \ {c} : d \in PidenCodigo' <=> d \in PidenCodigo
  BY DEF PidenCodigo, En
<1>2. c \in PidenCodigo' <=> r # Nadie /\ r.en = "forgot"
  BY DEF PidenCodigo, En
<1>3. PidenCodigo \subseteq Conts /\ PidenCodigo' \subseteq Conts
  BY DEF PidenCodigo
<1>4. IsFiniteSet(PidenCodigo)
  BY <1>3, SonConstantes, FS_Subset
<1>5. Cardinality(PidenCodigo) \in Nat
  BY <1>4, FS_CardinalityType
<1>6. CASE c \in PidenCodigo'
  <2>1. PidenCodigo' = PidenCodigo \cup {c}
    BY <1>1, <1>3, <1>6
  <2>2. Cardinality(PidenCodigo') = IF c \in PidenCodigo THEN Cardinality(PidenCodigo)
                                    ELSE Cardinality(PidenCodigo) + 1
    BY <2>1, <1>4, FS_AddElement
  <2>3. ~(r = Nadie \/ r.en # "forgot")
    BY <1>2, <1>6
  <2> QED
    BY <2>2, <2>3, <1>5
<1>7. CASE c \notin PidenCodigo'
  <2>1. PidenCodigo' = PidenCodigo \ {c}
    BY <1>1, <1>3, <1>7
  <2>2. En(c, "forgot") <=> c \in PidenCodigo
    BY DEF PidenCodigo
  <2>3. Cardinality(PidenCodigo') = IF c \in PidenCodigo THEN Cardinality(PidenCodigo) - 1
                                    ELSE Cardinality(PidenCodigo)
    BY <2>1, <1>4, FS_RemoveElement
  <2>4. Cardinality(PidenCodigo') \in Nat
    BY <2>1, <1>4, FS_RemoveElement, FS_CardinalityType
  <2> QED
    BY <2>2, <2>3, <2>4, <1>5
<1> QED
  BY <1>6, <1>7

-----------------------------------------------------------------------------
(* Types.                                                                  *)

\* The request of a container goes on, or ends, and asks for no code now.
LEMMA SigueSinPedir ==
  ASSUME FormaAuth, NEW c \in Conts, NEW r \in Peticiones \cup {Nadie},
         r = Nadie \/ r.en # "forgot",
         peticion' = [peticion EXCEPT ![c] = r],
         emitidos'.n = emitidos.n, quedan' \in CupoAuth, quedan'.publicas <= quedan.publicas
  PROVE  /\ peticion' \in [Conts -> Peticiones \cup {Nadie}]
         /\ \A d \in Conts : peticion'[d] = Nadie \/ peticion'[d].sobre \in Usuarios
         /\ emitidos'.n + Cardinality(PidenCodigo') + quedan'.publicas <= MaxCodigos
<1>1. peticion' \in [Conts -> Peticiones \cup {Nadie}]
  BY DEF FormaAuth
<1>2. \A x \in Peticiones : x.sobre \in Usuarios
  BY DEF Peticiones, DeSesion, DeUsers, DeForgot, DeReset, DeClave, DeCodigos
<1>3. /\ Cardinality(PidenCodigo) \in Nat /\ Cardinality(PidenCodigo') \in Nat
      /\ Cardinality(PidenCodigo') <= Cardinality(PidenCodigo)
  BY CuantosPiden DEF FormaAuth
<1>4. emitidos.n \in Nat /\ quedan.publicas \in Nat /\ quedan'.publicas \in Nat
      /\ emitidos.n + Cardinality(PidenCodigo) + quedan.publicas <= MaxCodigos
  BY DEF FormaAuth, AuthTypeOK, CupoAuth
<1>5. emitidos'.n + Cardinality(PidenCodigo') + quedan'.publicas <= MaxCodigos
  BY <1>3, <1>4 DEF MaxCodigos
<1> QED
  BY <1>1, <1>2, <1>5

\* A container may serve nobody.
LEMMA NadieSirve == Nadie \in Peticiones \cup {Nadie}
OBVIOUS

\* A failed try counts, and locks at the limit.
LEMMA FalloTipo ==
  ASSUME FormaAuth, NEW c \in Conts, ~_auth_bloqueado(c)
  PROVE  LET a == _auth_fallo(auth[c])
         IN  /\ a \in [fails : 0..MaxFails, locked_until : Nat]
             /\ a.fails = MaxFails => a.locked_until # 0
<1> DEFINE a == auth[c]
           antes == IF a.locked_until # 0 /\ a.locked_until <= ahora THEN 0 ELSE a.fails
           hasta == IF antes < a.fails THEN 0 ELSE a.locked_until
<1>1. /\ a.fails \in 0..MaxFails /\ a.locked_until \in Nat /\ ahora \in Nat
      /\ a.fails = MaxFails => a.locked_until # 0
      /\ ~(a.locked_until > ahora)
  BY SonConstantes DEF FormaAuth, AuthTypeOK, _auth_bloqueado
<1>2. antes \in 0..MaxFails /\ antes + 1 \in 0..MaxFails /\ hasta \in Nat
  BY <1>1, SonConstantes
<1>3. ahora + Bloqueo \in Nat /\ ahora + Bloqueo # 0
  BY <1>1, SonConstantes
<1>4. _auth_fallo(auth[c]) =
        [fails |-> antes + 1,
         locked_until |-> IF antes + 1 >= MaxFails THEN ahora + Bloqueo ELSE hasta]
  BY DEF _auth_fallo
<1> HIDE DEF antes, hasta
<1> QED
  BY <1>2, <1>3, <1>4, SonConstantes

\* The types of the users and the codes outlive each call: a request let in or not.
LEMMA AutorizadoForma ==
  ASSUME FormaAuth, NEW c \in Conts, _autorizado(c)
  PROVE  FormaAuth'
<1>1. /\ quedan.sesiones > 0 /\ ~_auth_bloqueado(c)
      /\ UNCHANGED <<ahora, users, codes, emitidos, probados, usados, superados, pisados>>
  BY DEF _autorizado, historiaAuth
<1>2. quedan' \in CupoAuth /\ quedan'.publicas = quedan.publicas
  <2>1. PICK n \in 0..1 : /\ n <= quedan.fallos
                         /\ quedan' = [quedan EXCEPT !.sesiones = quedan.sesiones - 1,
                                                     !.fallos = quedan.fallos - n]
    BY DEF _autorizado
  <2>2. /\ quedan.publicas \in Nat /\ quedan.sesiones \in Nat /\ quedan.fallos \in Nat
        /\ quedan = [publicas |-> quedan.publicas, sesiones |-> quedan.sesiones,
                     fallos |-> quedan.fallos]
    BY DEF FormaAuth, AuthTypeOK, CupoAuth
  <2>3. quedan.sesiones - 1 \in Nat /\ quedan.fallos - n \in Nat
    BY <1>1, <2>1, <2>2
  <2>4. quedan' = [publicas |-> quedan.publicas, sesiones |-> quedan.sesiones - 1,
                   fallos |-> quedan.fallos - n]
    BY <2>1, <2>2
  <2> QED
    BY <2>2, <2>3, <2>4 DEF CupoAuth
<1>3. quedan'.publicas <= quedan.publicas
  BY <1>2 DEF CupoAuth
<1>4. CASE auth' = [auth EXCEPT ![c] = _auth_fallo(auth[c])] /\ UNCHANGED peticion
  <2>1. /\ auth' \in [Conts -> [fails : 0..MaxFails, locked_until : Nat]]
        /\ \A d \in Conts : auth'[d].fails = MaxFails => auth'[d].locked_until # 0
    BY <1>1, <1>4, FalloTipo DEF FormaAuth, AuthTypeOK
  <2>2. PidenCodigo' = PidenCodigo
    BY <1>4 DEF PidenCodigo, En
  <2> QED
    BY <1>1, <1>2, <1>4, <2>1, <2>2 DEF FormaAuth, AuthTypeOK
<1>5. ASSUME NEW yo \in Usuarios, NEW clave \in Claves, NEW op \in Operaciones,
             NEW sobre \in Usuarios, NEW nueva \in Validas, NEW rol \in Roles \ {"sin"},
             auth' = [auth EXCEPT ![c] = [fails |-> 0, locked_until |-> 0]],
             Pasa_a(c, [en |-> IF op \in SoloAdmin THEN "rol"
                               ELSE IF op = "patterns" THEN "lee" ELSE "clave",
                        op |-> op, yo |-> yo, clave |-> clave, sobre |-> sobre,
                        nueva |-> nueva, rol |-> rol])
      PROVE  FormaAuth'
  <2> DEFINE en == IF op \in SoloAdmin THEN "rol" ELSE IF op = "patterns" THEN "lee" ELSE "clave"
             r == [en |-> en, op |-> op, yo |-> yo, clave |-> clave, sobre |-> sobre,
                   nueva |-> nueva, rol |-> rol]
  <2>1. en \in {"rol", "lee", "clave"}
    OBVIOUS
  <2>2. peticion' = [peticion EXCEPT ![c] = r]
    BY <1>5 DEF Pasa_a
  <2> HIDE DEF en
  <2>3. r \in DeSesion
    BY <2>1, SonConstantes DEF DeSesion
  <2>4. r \in Peticiones /\ r.en # "forgot"
    BY <2>1, <2>3 DEF Peticiones
  <2> HIDE DEF r
  <2>5. /\ auth' \in [Conts -> [fails : 0..MaxFails, locked_until : Nat]]
        /\ \A d \in Conts : auth'[d].fails = MaxFails => auth'[d].locked_until # 0
    BY <1>5, SonConstantes DEF FormaAuth, AuthTypeOK
  <2>6. emitidos'.n = emitidos.n
    BY <1>1
  <2>7. /\ peticion' \in [Conts -> Peticiones \cup {Nadie}]
        /\ \A d \in Conts : peticion'[d] = Nadie \/ peticion'[d].sobre \in Usuarios
        /\ emitidos'.n + Cardinality(PidenCodigo') + quedan'.publicas <= MaxCodigos
    BY <1>2, <1>3, <2>2, <2>4, <2>6, SigueSinPedir
  <2> QED
    BY <1>1, <1>2, <2>5, <2>7 DEF FormaAuth, AuthTypeOK
<1>6. CASE ~(auth' = [auth EXCEPT ![c] = _auth_fallo(auth[c])] /\ UNCHANGED peticion)
  <2> DEFINE Entra(yo, clave) ==
        /\ auth' = [auth EXCEPT ![c] = [fails |-> 0, locked_until |-> 0]]
        /\ \E op \in Operaciones, sobre \in Usuarios, nueva \in Validas, rol \in Roles \ {"sin"} :
             Pasa_a(c, [en |-> IF op \in SoloAdmin THEN "rol"
                               ELSE IF op = "patterns" THEN "lee" ELSE "clave",
                        op |-> op, yo |-> yo, clave |-> clave, sobre |-> sobre,
                        nueva |-> nueva, rol |-> rol])
  <2>1. PICK n \in 0..1, yo \in Usuarios, clave \in Claves :
          \/ auth' = [auth EXCEPT ![c] = _auth_fallo(auth[c])] /\ UNCHANGED peticion
          \/ Entra(yo, clave)
    BY DEF _autorizado
  <2>2. Entra(yo, clave)
    BY <1>6, <2>1
  <2> QED
    BY <1>5, <2>2
<1> QED
  BY <1>4, <1>6

\* The check of the role or of the present password.
LEMMA CompruebaForma ==
  ASSUME FormaAuth, NEW c \in Conts, Comprueba(c)
  PROVE  FormaAuth'
<1> DEFINE r == peticion[c]
<1>1. r \in DeSesion
  BY PeticionDe DEF Comprueba, En, FormaAuth
<1>2. PICK s : /\ peticion' = [peticion EXCEPT ![c] = s]
               /\ s = Nadie \/ s = [r EXCEPT !.en = "lee"]
  BY DEF Comprueba, Pasa_a, Termina
<1>3. [r EXCEPT !.en = "lee"] \in DeSesion /\ [r EXCEPT !.en = "lee"].en = "lee"
  BY <1>1 DEF DeSesion
<1>4. s \in Peticiones \cup {Nadie} /\ (s = Nadie \/ s.en # "forgot")
  BY <1>2, <1>3 DEF Peticiones
<1>5. /\ quedan' \in CupoAuth /\ quedan'.publicas <= quedan.publicas
      /\ emitidos'.n = emitidos.n
      /\ UNCHANGED <<ahora, users, codes, auth, emitidos, probados, usados, superados, pisados>>
  <2>1. PICK n \in 0..1 : /\ n <= quedan.fallos
                         /\ quedan' = [quedan EXCEPT !.fallos = quedan.fallos - n]
    BY DEF Comprueba
  <2>2. quedan' \in CupoAuth /\ quedan'.publicas <= quedan.publicas
    BY <2>1 DEF FormaAuth, AuthTypeOK, CupoAuth
  <2> QED
    BY <2>2 DEF Comprueba, historiaAuth
<1>6. /\ peticion' \in [Conts -> Peticiones \cup {Nadie}]
      /\ \A d \in Conts : peticion'[d] = Nadie \/ peticion'[d].sobre \in Usuarios
      /\ emitidos'.n + Cardinality(PidenCodigo') + quedan'.publicas <= MaxCodigos
  BY <1>2, <1>4, <1>5, SigueSinPedir
<1> QED
  BY <1>5, <1>6 DEF FormaAuth, AuthTypeOK

\* What a request of a session makes of the users it read is a table of users.
LEMMA CambiadosTipo ==
  ASSUME NEW leidos \in TablaUsuarios, NEW r \in DeSesion, Admite(r, leidos)
  PROVE  Cambiados(r, leidos) \in TablaUsuarios
<1> DEFINE u == r.sobre
           yo == r.yo
<1>1. u \in Usuarios /\ yo \in Usuarios /\ r.nueva \in Claves /\ r.rol \in Roles
  BY DEF DeSesion
<1>2. [hash |-> r.nueva, role |-> r.rol, email |-> TRUE] \in Registro
  BY <1>1 DEF Registro
<1>3. \A x \in Registro : [x EXCEPT !.hash = r.nueva] \in Registro
                          /\ [x EXCEPT !.role = r.rol] \in Registro
  BY <1>1 DEF Registro
<1>4. \A x \in Registro \cup {Nadie} : O(x) \in Registro
  BY DEF O, SinRegistro, Registro, Roles
<1>5. O(leidos[yo]) \in Registro /\ [O(leidos[yo]) EXCEPT !.hash = r.nueva] \in Registro
  BY <1>1, <1>3, <1>4 DEF TablaUsuarios
<1>6. r.op \in {"users/update", "users/role"} => leidos[u] \in Registro
  BY <1>1 DEF Admite, Hay, TablaUsuarios
<1>7. r.op \in Operaciones
  BY DEF DeSesion
<1>8. CASE r.op = "users"
  BY <1>1, <1>2, <1>8 DEF Cambiados, TablaUsuarios
<1>9. CASE r.op = "users/update"
  <2>1. [leidos[u] EXCEPT !.hash = r.nueva] \in Registro
    BY <1>3, <1>6, <1>9
  <2>2. Cambiados(r, leidos) = [leidos EXCEPT ![u] = [leidos[u] EXCEPT !.hash = r.nueva]]
    BY <1>9 DEF Cambiados
  <2> QED
    BY <2>1, <2>2 DEF TablaUsuarios
<1>10. CASE r.op = "users/role"
  <2>1. [leidos[u] EXCEPT !.role = r.rol] \in Registro
    BY <1>3, <1>6, <1>10
  <2>2. Cambiados(r, leidos) = [leidos EXCEPT ![u] = [leidos[u] EXCEPT !.role = r.rol]]
    BY <1>10 DEF Cambiados
  <2> QED
    BY <2>1, <2>2 DEF TablaUsuarios
<1>11. CASE r.op = "users/delete"
  BY <1>11 DEF Cambiados, TablaUsuarios
<1>12. CASE r.op = "users/delete-all"
  BY <1>12 DEF Cambiados, TablaUsuarios
<1>13. CASE r.op = "auth/change-password"
  BY <1>5, <1>13 DEF Cambiados, TablaUsuarios
<1>14. CASE r.op = "patterns"
  BY <1>5, <1>14 DEF Cambiados, TablaUsuarios
<1> QED
  BY <1>7, <1>8, <1>9, <1>10, <1>11, <1>12, <1>13, <1>14 DEF Operaciones

\* A step of a request that touches neither the codes nor the counts.
LEMMA QuietoForma ==
  ASSUME FormaAuth, NEW c \in Conts, NEW r \in Peticiones \cup {Nadie},
         r = Nadie \/ r.en # "forgot",
         peticion' = [peticion EXCEPT ![c] = r],
         users' \in TablaUsuarios, quedan' \in CupoAuth, quedan'.publicas <= quedan.publicas,
         UNCHANGED <<ahora, codes, auth, emitidos, probados, usados>>,
         superados' \subseteq Codigos, pisados' \subseteq Codigos
  PROVE  FormaAuth'
<1>1. /\ peticion' \in [Conts -> Peticiones \cup {Nadie}]
      /\ \A d \in Conts : peticion'[d] = Nadie \/ peticion'[d].sobre \in Usuarios
      /\ emitidos'.n + Cardinality(PidenCodigo') + quedan'.publicas <= MaxCodigos
  BY SigueSinPedir
<1> QED
  BY <1>1 DEF FormaAuth, AuthTypeOK, TablaUsuarios

\* A failing call, or none, leaves bounds.
LEMMA CupoTrasLlamada ==
  ASSUME FormaAuth, BienA \/ FallaA
  PROVE  quedan' \in CupoAuth /\ quedan'.publicas <= quedan.publicas
<1>1. quedan \in CupoAuth
  BY DEF FormaAuth, AuthTypeOK
<1>2. CASE BienA
  BY <1>1, <1>2 DEF BienA, CupoAuth
<1>3. CASE FallaA
  BY <1>1, <1>3, CupoAuthBaja DEF FallaA, CupoAuth
<1> QED
  BY <1>2, <1>3

\* The reading of the users.
LEMMA LeeUsuariosForma ==
  ASSUME FormaAuth, NEW c \in Conts, LeeUsuarios(c)
  PROVE  FormaAuth'
<1> DEFINE r == peticion[c]
<1>1. r \in DeSesion
  BY PeticionDe DEF LeeUsuarios, En, FormaAuth
<1>2. users \in TablaUsuarios /\ superados \subseteq Codigos /\ pisados \subseteq Codigos
  BY DEF FormaAuth, AuthTypeOK, TablaUsuarios
<1>3. UNCHANGED <<ahora, users, codes, auth, emitidos, probados, usados, superados, pisados,
                  quedan>>
  BY DEF LeeUsuarios, historiaAuth
<1>4. PICK s : /\ peticion' = [peticion EXCEPT ![c] = s]
               /\ \/ s = Nadie
                  \/ /\ Admite(r, users)
                     /\ s = [en |-> "set_users", users |-> Cambiados(r, users),
                             sobre |-> r.sobre]
  BY DEF LeeUsuarios, Pasa_a, Termina
<1>5. s = Nadie \/ (s \in DeUsers /\ s.en # "forgot")
  <2> SUFFICES ASSUME Admite(r, users),
                      s = [en |-> "set_users", users |-> Cambiados(r, users), sobre |-> r.sobre]
               PROVE  s \in DeUsers /\ s.en # "forgot"
    BY <1>4
  <2>1. Cambiados(r, users) \in TablaUsuarios
    BY <1>1, <1>2, CambiadosTipo
  <2>2. r.sobre \in Usuarios
    BY <1>1 DEF DeSesion
  <2> HIDE DEF r
  <2> QED
    BY <2>1, <2>2 DEF DeUsers
<1>6. s \in Peticiones \cup {Nadie}
  BY <1>5 DEF Peticiones
<1>7. quedan' \in CupoAuth /\ quedan'.publicas <= quedan.publicas
  BY <1>3, CupoTrasLlamada DEF BienA
<1> QED
  BY <1>2, <1>3, <1>4, <1>5, <1>6, <1>7, QuietoForma

\* The writing of the users.
LEMMA SetUsersForma ==
  ASSUME FormaAuth, NEW c \in Conts, set_users(c)
  PROVE  FormaAuth'
<1>1. peticion[c] \in DeUsers
  BY PeticionDe DEF set_users, En, FormaAuth
<1>2. users' \in TablaUsuarios
  BY <1>1 DEF set_users, FormaAuth, AuthTypeOK, TablaUsuarios, DeUsers
<1>3. peticion' = [peticion EXCEPT ![c] = Nadie] /\ (BienA \/ FallaA)
      /\ UNCHANGED <<ahora, codes, auth, emitidos, probados, usados, superados, pisados>>
  BY DEF set_users, Termina, historiaAuth
<1>4. superados' \subseteq Codigos /\ pisados' \subseteq Codigos
  BY <1>3 DEF FormaAuth, AuthTypeOK
<1> QED
  BY <1>2, <1>3, <1>4, CupoTrasLlamada, QuietoForma, NadieSirve

\* A request of a code takes one of those left, and so no more codes can be sent.
LEMMA PideForgotForma ==
  ASSUME FormaAuth, NEW c \in Conts, PideForgot(c)
  PROVE  FormaAuth'
<1>1. /\ quedan' = [quedan EXCEPT !.publicas = quedan.publicas - 1] /\ quedan.publicas > 0
      /\ UNCHANGED <<ahora, users, codes, auth, emitidos, probados, usados, superados, pisados>>
  BY DEF PideForgot, historiaAuth
<1>2. quedan \in CupoAuth
  BY DEF FormaAuth, AuthTypeOK
<1>3. quedan' \in CupoAuth /\ quedan'.publicas = quedan.publicas - 1
  BY <1>1, <1>2, CupoAuthBaja DEF CupoAuth
<1>4. CASE UNCHANGED peticion
  <2>1. PidenCodigo' = PidenCodigo
    BY <1>4 DEF PidenCodigo, En
  <2>2. Cardinality(PidenCodigo) \in Nat
    BY SonConstantes, FS_Subset, FS_CardinalityType DEF PidenCodigo
  <2>3. emitidos.n \in Nat /\ quedan.publicas \in Nat
        /\ emitidos.n + Cardinality(PidenCodigo) + quedan.publicas <= MaxCodigos
    BY DEF FormaAuth, AuthTypeOK, CupoAuth
  <2>4. emitidos'.n + Cardinality(PidenCodigo') + quedan'.publicas <= MaxCodigos
    BY <1>1, <1>3, <2>1, <2>2, <2>3 DEF MaxCodigos
  <2> QED
    BY <1>1, <1>3, <1>4, <2>4 DEF FormaAuth, AuthTypeOK
<1>5. ASSUME NEW u \in Usuarios, Pasa_a(c, [en |-> "forgot", sobre |-> u])
      PROVE  FormaAuth'
  <2> DEFINE r == [en |-> "forgot", sobre |-> u]
  <2>1. r \in Peticiones /\ r.sobre \in Usuarios
    BY DEF Peticiones, DeForgot
  <2>2. peticion' = [peticion EXCEPT ![c] = r]
    BY <1>5 DEF Pasa_a
  <2> HIDE DEF r
  <2>3. peticion' \in [Conts -> Peticiones \cup {Nadie}]
    BY <2>1, <2>2 DEF FormaAuth
  <2>4. \A d \in Conts : peticion'[d] = Nadie \/ peticion'[d].sobre \in Usuarios
    BY <2>1, <2>2 DEF FormaAuth, AuthTypeOK
  <2>5. /\ Cardinality(PidenCodigo) \in Nat /\ Cardinality(PidenCodigo') \in Nat
        /\ Cardinality(PidenCodigo') <= Cardinality(PidenCodigo) + 1
    BY <2>2, CuantosPiden DEF FormaAuth
  <2>6. emitidos.n \in Nat /\ quedan.publicas \in Nat
        /\ emitidos.n + Cardinality(PidenCodigo) + quedan.publicas <= MaxCodigos
    BY DEF FormaAuth, AuthTypeOK, CupoAuth
  <2>7. emitidos'.n + Cardinality(PidenCodigo') + quedan'.publicas <= MaxCodigos
    BY <1>1, <1>3, <2>5, <2>6 DEF MaxCodigos
  <2> QED
    BY <1>1, <1>3, <2>3, <2>4, <2>7 DEF FormaAuth, AuthTypeOK
<1> QED
  BY <1>4, <1>5 DEF PideForgot

\* The record of a new code.
LEMMA NuevoTipo ==
  ASSUME FormaAuth, NEW u \in Usuarios, ~Frenado(codes[u]), emitidos.n + 1 \in Codigos
  PROVE  [code |-> emitidos.n + 1, exp |-> ahora + Vigencia, attempts |-> 0,
          sends |-> IF Vivo(codes[u]) THEN codes[u].sends + 1 ELSE 1, sent_at |-> ahora] \in Reset
<1> DEFINE sends == IF Vivo(codes[u]) THEN codes[u].sends + 1 ELSE 1
<1>1. codes[u] \in Reset \cup {Nadie} /\ ahora \in Nat
  BY SonConstantes DEF FormaAuth, AuthTypeOK
<1>2. sends \in 1..MaxEnvios
  BY <1>1, SonConstantes DEF Frenado, Vivo, Reset
<1>3. ahora + Vigencia \in Nat /\ 0 \in 0..MaxIntentos
  BY <1>1, SonConstantes
<1> HIDE DEF sends
<1>4. [code |-> emitidos.n + 1, exp |-> ahora + Vigencia, attempts |-> 0, sends |-> sends,
       sent_at |-> ahora] \in Reset
  BY <1>1, <1>2, <1>3 DEF Reset
<1> QED
  BY <1>4 DEF sends

\* What a request for a code writes, and what it changes.
LEMMA ForgotEs ==
  ASSUME FormaAuth, NEW c \in Conts, _auth_forgot(c)
  PROVE  /\ UNCHANGED <<ahora, users, codes, auth, probados, usados, superados, pisados, quedan>>
         /\ \/ peticion' = [peticion EXCEPT ![c] = Nadie] /\ UNCHANGED emitidos
            \/ \E u \in Usuarios, x \in Reset :
                 /\ emitidos.n + 1 \in Codigos /\ x.code = emitidos.n + 1 /\ x.attempts = 0
                 /\ emitidos' = [emitidos EXCEPT !.n = emitidos.n + 1]
                 /\ peticion' = [peticion EXCEPT ![c] =
                      [en |-> "set_resets", sobre |-> u, leidos |-> codes,
                       codes |-> [codes EXCEPT ![u] = x], fallido |-> NingunCodigo,
                       usado |-> NingunCodigo, emite |-> emitidos.n + 1]]
<1> DEFINE u == peticion[c].sobre
           prev == codes[u]
           nuevo == [code |-> emitidos.n + 1, exp |-> ahora + Vigencia, attempts |-> 0,
                     sends |-> IF Vivo(prev) THEN prev.sends + 1 ELSE 1, sent_at |-> ahora]
<1>1. UNCHANGED <<ahora, users, codes, auth, probados, usados, superados, pisados, quedan>>
  BY DEF _auth_forgot
<1>2. u \in Usuarios /\ En(c, "forgot")
  BY PeticionDe DEF _auth_forgot, En, FormaAuth, DeForgot
<1>3. emitidos.n + 1 \in Codigos
  <2>1. c \in PidenCodigo /\ IsFiniteSet(PidenCodigo)
    BY <1>2, SonConstantes, FS_Subset DEF PidenCodigo
  <2>2. Cardinality(PidenCodigo) \in Nat /\ Cardinality(PidenCodigo) # 0
    BY <2>1, FS_CardinalityType, FS_EmptySet
  <2>3. emitidos.n \in Nat /\ quedan.publicas \in Nat
        /\ emitidos.n + Cardinality(PidenCodigo) + quedan.publicas <= MaxCodigos
    BY DEF FormaAuth, AuthTypeOK, CupoAuth
  <2> QED
    BY <2>2, <2>3 DEF MaxCodigos, Codigos
<1>4. CASE Frenado(prev)
  BY <1>1, <1>4 DEF _auth_forgot, Termina
<1>5. CASE ~Frenado(prev)
  <2>1. nuevo \in Reset
    BY <1>2, <1>3, <1>5, NuevoTipo
  <2>2. nuevo.code = emitidos.n + 1 /\ nuevo.attempts = 0
    OBVIOUS
  <2>3. emitidos' = [emitidos EXCEPT !.n = emitidos.n + 1]
    BY <1>5 DEF _auth_forgot
  <2>4. peticion' = [peticion EXCEPT ![c] =
                      [en |-> "set_resets", sobre |-> u, leidos |-> codes,
                       codes |-> [codes EXCEPT ![u] = nuevo], fallido |-> NingunCodigo,
                       usado |-> NingunCodigo, emite |-> nuevo.code]]
    BY <1>5 DEF _auth_forgot, Pasa_a
  <2> HIDE DEF nuevo, u
  <2> QED
    BY <1>1, <1>2, <1>3, <2>1, <2>2, <2>3, <2>4
<1> QED
  BY <1>4, <1>5

\* A write of the codes is well typed.
LEMMA EscrituraTipo ==
  ASSUME NEW u \in Usuarios, NEW leidos \in TablaCodigos, NEW tabla \in TablaCodigos,
         NEW fallido \in QuizaCodigo, NEW usado \in QuizaCodigo, NEW emite \in QuizaCodigo
  PROVE  LET r == [en |-> "set_resets", sobre |-> u, leidos |-> leidos, codes |-> tabla,
                   fallido |-> fallido, usado |-> usado, emite |-> emite]
         IN  /\ r \in DeCodigos /\ r \in Peticiones /\ r.en = "set_resets" /\ r.sobre = u
             /\ r.leidos = leidos /\ r.codes = tabla /\ r.fallido = fallido /\ r.usado = usado
             /\ r.emite = emite
BY DEF DeCodigos, Peticiones

\* What it reads and sends.
LEMMA ForgotForma ==
  ASSUME FormaAuth, NEW c \in Conts, _auth_forgot(c)
  PROVE  FormaAuth'
<1>1. /\ users \in TablaUsuarios /\ codes \in TablaCodigos
      /\ superados \subseteq Codigos /\ pisados \subseteq Codigos
      /\ quedan \in CupoAuth /\ quedan.publicas \in Nat /\ NingunCodigo \in QuizaCodigo
  BY DEF FormaAuth, AuthTypeOK, TablaUsuarios, TablaCodigos, QuizaCodigo, CupoAuth
<1>2. UNCHANGED <<ahora, users, codes, auth, probados, usados, superados, pisados, quedan>>
  BY ForgotEs
<1>3. En(c, "forgot")
  BY DEF _auth_forgot
<1>4. CASE peticion' = [peticion EXCEPT ![c] = Nadie] /\ UNCHANGED emitidos
  <2>1. quedan'.publicas <= quedan.publicas
    BY <1>1, <1>2
  <2> QED
    BY <1>1, <1>2, <1>4, <2>1, QuietoForma, NadieSirve
<1>5. ASSUME NEW u \in Usuarios, NEW x \in Reset, emitidos.n + 1 \in Codigos,
             emitidos' = [emitidos EXCEPT !.n = emitidos.n + 1],
             peticion' = [peticion EXCEPT ![c] =
               [en |-> "set_resets", sobre |-> u, leidos |-> codes,
                codes |-> [codes EXCEPT ![u] = x], fallido |-> NingunCodigo,
                usado |-> NingunCodigo, emite |-> emitidos.n + 1]]
      PROVE  FormaAuth'
  <2> DEFINE tabla == [codes EXCEPT ![u] = x]
             r == [en |-> "set_resets", sobre |-> u, leidos |-> codes, codes |-> tabla,
                   fallido |-> NingunCodigo, usado |-> NingunCodigo, emite |-> emitidos.n + 1]
  <2>1. tabla \in TablaCodigos
    BY <1>1 DEF TablaCodigos
  <2>2. emitidos.n + 1 \in QuizaCodigo
    BY <1>5 DEF QuizaCodigo
  <2>3. peticion' = [peticion EXCEPT ![c] = r]
    BY <1>5
  <2> HIDE DEF tabla
  <2>4. r \in Peticiones /\ r.en = "set_resets" /\ r.sobre \in Usuarios
    BY <1>1, <2>1, <2>2, EscrituraTipo
  <2> HIDE DEF r
  <2>5. emitidos' \in [n : 0..MaxCodigos, de : [Usuarios -> 0..MaxCodigos]]
        /\ emitidos'.n = emitidos.n + 1
    <3> DEFINE k == emitidos.n + 1
    <3>1. k \in 0..MaxCodigos
      BY <1>5 DEF Codigos, MaxCodigos
    <3>2. emitidos' = [emitidos EXCEPT !.n = k]
      BY <1>5
    <3> HIDE DEF k
    <3>3. emitidos' \in [n : 0..MaxCodigos, de : [Usuarios -> 0..MaxCodigos]] /\ emitidos'.n = k
      BY <3>1, <3>2 DEF FormaAuth, AuthTypeOK
    <3> QED
      BY <3>3 DEF k
  <2>6. peticion' \in [Conts -> Peticiones \cup {Nadie}]
    BY <2>3, <2>4 DEF FormaAuth
  <2>7. \A d \in Conts : peticion'[d] = Nadie \/ peticion'[d].sobre \in Usuarios
    BY <2>3, <2>4 DEF FormaAuth, AuthTypeOK
  <2>8. /\ Cardinality(PidenCodigo) \in Nat /\ Cardinality(PidenCodigo') \in Nat
        /\ Cardinality(PidenCodigo') = Cardinality(PidenCodigo) - 1
    BY <1>3, <2>3, <2>4, CuantosPiden DEF FormaAuth
  <2>9. emitidos.n \in Nat
        /\ emitidos.n + Cardinality(PidenCodigo) + quedan.publicas <= MaxCodigos
    BY DEF FormaAuth, AuthTypeOK
  <2>10. emitidos'.n + Cardinality(PidenCodigo') + quedan'.publicas <= MaxCodigos
    BY <1>1, <1>2, <2>5, <2>8, <2>9 DEF MaxCodigos
  <2> QED
    BY <1>2, <2>5, <2>6, <2>7, <2>10 DEF FormaAuth, AuthTypeOK
<1> QED
  BY <1>4, <1>5, ForgotEs

\* What a reset reads: nothing to go on with, or what it is going to write or to change.
LEMMA ResetEs ==
  ASSUME FormaAuth, NEW c \in Conts, PideReset(c)
  PROVE  /\ UNCHANGED <<ahora, users, codes, auth, emitidos, probados, usados, superados,
                        pisados>>
         /\ quedan' \in CupoAuth /\ quedan'.publicas <= quedan.publicas
         /\ peticion[c] = Nadie
         /\ \/ UNCHANGED peticion
            \/ \E u \in Usuarios :
                 /\ codes[u] \in Reset
                 /\ \/ peticion' = [peticion EXCEPT ![c] =
                         [en |-> "set_resets", sobre |-> u, leidos |-> codes,
                          codes |-> [codes EXCEPT ![u] = Nadie], fallido |-> NingunCodigo,
                          usado |-> NingunCodigo, emite |-> NingunCodigo]]
                    \/ \E x \in Reset :
                         /\ x.code = codes[u].code /\ x.attempts = codes[u].attempts + 1
                         /\ peticion' = [peticion EXCEPT ![c] =
                              [en |-> "set_resets", sobre |-> u, leidos |-> codes,
                               codes |-> [codes EXCEPT ![u] = x], fallido |-> codes[u].code,
                               usado |-> NingunCodigo, emite |-> NingunCodigo]]
                    \/ \E nueva \in Validas :
                         peticion' = [peticion EXCEPT ![c] =
                           [en |-> "reset", sobre |-> u, leidos |-> codes, nueva |-> nueva]]
<1>1. /\ UNCHANGED <<ahora, users, codes, auth, emitidos, probados, usados, superados, pisados>>
      /\ peticion[c] = Nadie
      /\ quedan.publicas > 0 /\ quedan' = [quedan EXCEPT !.publicas = quedan.publicas - 1]
  BY DEF PideReset, historiaAuth
<1>2. quedan' \in CupoAuth /\ quedan'.publicas <= quedan.publicas
  <2>1. quedan \in CupoAuth
    BY DEF FormaAuth, AuthTypeOK
  <2>2. quedan' \in CupoAuth
    BY <1>1, <2>1, CupoAuthBaja
  <2> QED
    BY <1>1, <2>1, <2>2 DEF CupoAuth
<1>3. PICK u \in Usuarios, acierta \in BOOLEAN, nueva \in Validas :
        \/ UNCHANGED peticion
        \/ /\ codes[u] # Nadie
           /\ Pasa_a(c, [en |-> "set_resets", sobre |-> u, leidos |-> codes,
                         codes |-> [codes EXCEPT ![u] = Nadie], fallido |-> NingunCodigo,
                         usado |-> NingunCodigo, emite |-> NingunCodigo])
        \/ /\ codes[u] # Nadie /\ codes[u].attempts < MaxIntentos
           /\ Pasa_a(c, [en |-> "set_resets", sobre |-> u, leidos |-> codes,
                         codes |-> [codes EXCEPT ![u] = Intento(codes[u])],
                         fallido |-> codes[u].code,
                         usado |-> NingunCodigo, emite |-> NingunCodigo])
        \/ /\ codes[u] # Nadie
           /\ Pasa_a(c, [en |-> "reset", sobre |-> u, leidos |-> codes, nueva |-> nueva])
  BY DEF PideReset
<1>4. codes[u] # Nadie => codes[u] \in Reset
  BY DEF FormaAuth, AuthTypeOK
<1>5. codes[u] \in Reset /\ codes[u].attempts < MaxIntentos =>
        /\ Intento(codes[u]) \in Reset /\ Intento(codes[u]).code = codes[u].code
        /\ Intento(codes[u]).attempts = codes[u].attempts + 1
  <2> SUFFICES ASSUME NEW x \in Reset, x.attempts < MaxIntentos
               PROVE  /\ Intento(x) \in Reset /\ Intento(x).code = x.code
                      /\ Intento(x).attempts = x.attempts + 1
    OBVIOUS
  <2>1. x.attempts + 1 \in 0..MaxIntentos
    BY SonConstantes DEF Reset
  <2>2. Intento(x) = [x EXCEPT !.attempts = x.attempts + 1]
    BY DEF Intento
  <2> QED
    BY <2>1, <2>2 DEF Reset
<1>6. CASE UNCHANGED peticion
  BY <1>1, <1>2, <1>6
<1>7. CASE /\ codes[u] # Nadie
           /\ Pasa_a(c, [en |-> "set_resets", sobre |-> u, leidos |-> codes,
                         codes |-> [codes EXCEPT ![u] = Nadie], fallido |-> NingunCodigo,
                         usado |-> NingunCodigo, emite |-> NingunCodigo])
  BY <1>1, <1>2, <1>4, <1>7 DEF Pasa_a
<1>8. CASE /\ codes[u] # Nadie /\ codes[u].attempts < MaxIntentos
           /\ Pasa_a(c, [en |-> "set_resets", sobre |-> u, leidos |-> codes,
                         codes |-> [codes EXCEPT ![u] = Intento(codes[u])],
                         fallido |-> codes[u].code,
                         usado |-> NingunCodigo, emite |-> NingunCodigo])
  BY <1>1, <1>2, <1>4, <1>5, <1>8 DEF Pasa_a
<1>9. CASE /\ codes[u] # Nadie
           /\ Pasa_a(c, [en |-> "reset", sobre |-> u, leidos |-> codes, nueva |-> nueva])
  BY <1>1, <1>2, <1>4, <1>9 DEF Pasa_a
<1> QED
  BY <1>3, <1>6, <1>7, <1>8, <1>9

\* A request to reset a password.
LEMMA ResetForma ==
  ASSUME FormaAuth, NEW c \in Conts, PideReset(c)
  PROVE  FormaAuth'
<1>1. /\ UNCHANGED <<ahora, users, codes, auth, emitidos, probados, usados, superados, pisados>>
      /\ quedan' \in CupoAuth /\ quedan'.publicas <= quedan.publicas
  BY ResetEs
<1>2. /\ users' \in TablaUsuarios /\ codes \in TablaCodigos
      /\ superados' \subseteq Codigos /\ pisados' \subseteq Codigos
  BY <1>1 DEF FormaAuth, AuthTypeOK, TablaUsuarios, TablaCodigos
<1>3. NingunCodigo \in QuizaCodigo /\ \A x \in Reset : x.code \in QuizaCodigo
  BY DEF QuizaCodigo, Reset
<1>4. CASE UNCHANGED peticion
  <2>1. peticion' = [peticion EXCEPT ![c] = Nadie]
    BY <1>4, ResetEs DEF FormaAuth
  <2> QED
    BY <1>1, <1>2, <2>1, QuietoForma, NadieSirve
<1>5. ASSUME NEW u \in Usuarios, NEW x \in Reset \cup {Nadie}, NEW fallido \in QuizaCodigo,
             peticion' = [peticion EXCEPT ![c] =
               [en |-> "set_resets", sobre |-> u, leidos |-> codes,
                codes |-> [codes EXCEPT ![u] = x], fallido |-> fallido,
                usado |-> NingunCodigo, emite |-> NingunCodigo]]
      PROVE  FormaAuth'
  <2> DEFINE tabla == [codes EXCEPT ![u] = x]
             r == [en |-> "set_resets", sobre |-> u, leidos |-> codes, codes |-> tabla,
                   fallido |-> fallido, usado |-> NingunCodigo, emite |-> NingunCodigo]
  <2>1. tabla \in TablaCodigos
    BY <1>2 DEF TablaCodigos
  <2>2. peticion' = [peticion EXCEPT ![c] = r]
    BY <1>5
  <2> HIDE DEF tabla
  <2>3. r \in Peticiones /\ r.en = "set_resets"
    BY <1>2, <1>3, <2>1, EscrituraTipo
  <2> HIDE DEF r
  <2> QED
    BY <1>1, <1>2, <2>2, <2>3, QuietoForma
<1>6. ASSUME NEW u \in Usuarios, NEW nueva \in Validas,
             peticion' = [peticion EXCEPT ![c] =
               [en |-> "reset", sobre |-> u, leidos |-> codes, nueva |-> nueva]]
      PROVE  FormaAuth'
  <2> DEFINE r == [en |-> "reset", sobre |-> u, leidos |-> codes, nueva |-> nueva]
  <2>1. r \in Peticiones /\ r.en = "reset"
    BY <1>2, SonConstantes DEF Peticiones, DeReset
  <2>2. peticion' = [peticion EXCEPT ![c] = r]
    BY <1>6
  <2> HIDE DEF r
  <2> QED
    BY <1>1, <1>2, <2>1, <2>2, QuietoForma
<1> QED
  BY <1>3, <1>4, <1>5, <1>6, ResetEs

\* The right code: the new password is worked out, and then written or not.
LEMMA ClaveNuevaEs ==
  ASSUME FormaAuth, EnCurso, NEW c \in Conts, _auth_reset(c)
  PROVE  /\ UNCHANGED <<ahora, codes, auth, emitidos, probados, usados>>
         /\ BienA \/ FallaA
         /\ peticion[c] \in DeReset \cup DeClave
         /\ peticion[c].leidos[peticion[c].sobre] \in Reset
         /\ LET r == peticion[c]
                u == r.sobre
                k == r.leidos[u].code
            IN  \/ /\ UNCHANGED <<users, superados, pisados>>
                   /\ \/ peticion' = [peticion EXCEPT ![c] = Nadie]
                      \/ \E tabla \in TablaUsuarios :
                           peticion' = [peticion EXCEPT ![c] =
                             [en |-> "clave nueva", sobre |-> u, leidos |-> r.leidos,
                              users |-> tabla]]
                \/ /\ users' \in TablaUsuarios
                   /\ superados' = superados \cup (IF emitidos.de[u] # k THEN {k} ELSE {})
                   /\ pisados' = pisados \cup (IF codes[u] # r.leidos[u] THEN {k} ELSE {})
                   /\ peticion' = [peticion EXCEPT ![c] =
                        [en |-> "set_resets", sobre |-> u, leidos |-> r.leidos,
                         codes |-> [r.leidos EXCEPT ![u] = Nadie],
                         fallido |-> NingunCodigo, usado |-> k, emite |-> NingunCodigo]]
<1> DEFINE r == peticion[c]
           u == r.sobre
<1>1. UNCHANGED <<ahora, codes, auth, emitidos, probados, usados>> /\ (BienA \/ FallaA)
  BY DEF _auth_reset, BienA
<1>2. /\ r \in DeReset \cup DeClave /\ u \in Usuarios /\ r.leidos \in TablaCodigos
      /\ En(c, "reset") => r \in DeReset
      /\ En(c, "clave nueva") => r \in DeClave
  BY PeticionDe DEF _auth_reset, En, FormaAuth, DeReset, DeClave
<1>3. r.leidos[u] # Nadie
  BY DEF EnCurso, _auth_reset
<1>4. r.leidos[u] \in Reset
  BY <1>2, <1>3 DEF TablaCodigos
<1>5. CASE En(c, "reset")
  <2> DEFINE tabla == [users EXCEPT ![u] = [O(users[u]) EXCEPT !.hash = r.nueva]]
  <2>1. users \in TablaUsuarios /\ r.nueva \in Claves /\ users[u] \in Registro \cup {Nadie}
    BY <1>2, <1>5 DEF FormaAuth, AuthTypeOK, TablaUsuarios, DeReset
  <2>2. O(users[u]) \in Registro
    BY <2>1 DEF O, SinRegistro, Registro, Roles
  <2>3. [O(users[u]) EXCEPT !.hash = r.nueva] \in Registro
    BY <2>1, <2>2 DEF Registro
  <2>4. tabla \in TablaUsuarios
    BY <2>1, <2>3 DEF TablaUsuarios
  <2>5. r.en = "reset"
    BY <1>5 DEF En
  <2>6. /\ peticion' = [peticion EXCEPT ![c] =
             [en |-> "clave nueva", sobre |-> u, leidos |-> r.leidos, users |-> tabla]]
        /\ UNCHANGED <<users, superados, pisados>>
    BY <2>5 DEF _auth_reset, En, Pasa_a
  <2> HIDE DEF tabla
  <2> QED
    BY <1>1, <1>2, <1>4, <2>4, <2>6
<1>6. CASE En(c, "clave nueva")
  <2>1. r.users \in TablaUsuarios /\ r.en = "clave nueva"
    BY <1>2, <1>6 DEF DeClave
  <2> QED
    BY <1>1, <1>2, <1>4, <2>1 DEF _auth_reset, En, Pasa_a, Termina
<1> QED
  BY <1>5, <1>6 DEF _auth_reset

\* Its new password.
LEMMA ClaveNuevaForma ==
  ASSUME FormaAuth, EnCurso, NEW c \in Conts, _auth_reset(c)
  PROVE  FormaAuth'
<1> DEFINE r == peticion[c]
           u == r.sobre
           k == r.leidos[u].code
<1>1. /\ UNCHANGED <<ahora, codes, auth, emitidos, probados, usados>> /\ (BienA \/ FallaA)
      /\ r \in DeReset \cup DeClave /\ r.leidos[u] \in Reset
  BY ClaveNuevaEs
<1>2. quedan' \in CupoAuth /\ quedan'.publicas <= quedan.publicas
  BY <1>1, CupoTrasLlamada
<1>3. u \in Usuarios /\ r.leidos \in TablaCodigos /\ k \in Codigos
  BY <1>1 DEF DeReset, DeClave, Reset
<1>4. users \in TablaUsuarios /\ superados \subseteq Codigos /\ pisados \subseteq Codigos
  BY DEF FormaAuth, AuthTypeOK, TablaUsuarios
<1>5. CASE UNCHANGED <<users, superados, pisados>> /\ peticion' = [peticion EXCEPT ![c] = Nadie]
  BY <1>1, <1>2, <1>4, <1>5, QuietoForma, NadieSirve
<1>6. ASSUME NEW tabla \in TablaUsuarios, UNCHANGED <<users, superados, pisados>>,
             peticion' = [peticion EXCEPT ![c] =
                [en |-> "clave nueva", sobre |-> u, leidos |-> r.leidos, users |-> tabla]]
      PROVE  FormaAuth'
  <2> DEFINE s == [en |-> "clave nueva", sobre |-> u, leidos |-> r.leidos, users |-> tabla]
  <2>1. s \in Peticiones /\ s.en = "clave nueva"
    BY <1>3 DEF Peticiones, DeClave
  <2>2. peticion' = [peticion EXCEPT ![c] = s]
    BY <1>6
  <2> HIDE DEF s
  <2> QED
    BY <1>1, <1>2, <1>4, <1>6, <2>1, <2>2, QuietoForma
<1>7. CASE /\ users' \in TablaUsuarios
           /\ superados' = superados \cup (IF emitidos.de[u] # k THEN {k} ELSE {})
           /\ pisados' = pisados \cup (IF codes[u] # r.leidos[u] THEN {k} ELSE {})
           /\ peticion' = [peticion EXCEPT ![c] =
                [en |-> "set_resets", sobre |-> u, leidos |-> r.leidos,
                 codes |-> [r.leidos EXCEPT ![u] = Nadie],
                 fallido |-> NingunCodigo, usado |-> k, emite |-> NingunCodigo]]
  <2> DEFINE tabla == [r.leidos EXCEPT ![u] = Nadie]
             s == [en |-> "set_resets", sobre |-> u, leidos |-> r.leidos, codes |-> tabla,
                   fallido |-> NingunCodigo, usado |-> k, emite |-> NingunCodigo]
  <2>1. tabla \in TablaCodigos
    BY <1>3 DEF TablaCodigos
  <2>2. k \in QuizaCodigo /\ NingunCodigo \in QuizaCodigo
    BY <1>3 DEF QuizaCodigo
  <2>3. superados' \subseteq Codigos /\ pisados' \subseteq Codigos
    BY <1>3, <1>4, <1>7
  <2>4. peticion' = [peticion EXCEPT ![c] = s]
    BY <1>7
  <2> HIDE DEF tabla, k
  <2>5. s \in Peticiones /\ s.en = "set_resets"
    BY <1>3, <2>1, <2>2, EscrituraTipo
  <2> HIDE DEF s
  <2> QED
    BY <1>1, <1>2, <1>7, <2>3, <2>4, <2>5, QuietoForma
<1> QED
  BY <1>5, <1>6, <1>7, ClaveNuevaEs

\* The write of the codes.
LEMMA EscribeEs ==
  ASSUME FormaAuth, EnCurso, NEW c \in Conts, set_resets(c)
  PROVE  LET r == peticion[c]
         IN  /\ r \in DeCodigos /\ Escritura(r) /\ En(c, "set_resets")
             /\ UNCHANGED <<ahora, users, auth, superados>>
             /\ peticion' = [peticion EXCEPT ![c] = Nadie]
             /\ probados' = [k \in Codigos |-> probados[k] + (IF k = r.fallido THEN 1 ELSE 0)]
             /\ usados' = [k \in Codigos |-> usados[k] + (IF k = r.usado THEN 1 ELSE 0)]
             /\ \/ /\ codes' = r.codes /\ BienA
                   /\ pisados' = pisados \cup Pisa(r.leidos)
                   /\ emitidos' = IF r.emite = NingunCodigo THEN emitidos
                                  ELSE [emitidos EXCEPT !.de[r.sobre] = r.emite]
                \/ /\ FallaA /\ UNCHANGED <<codes, emitidos>>
                   /\ pisados' = pisados \cup CodigoDe(r.leidos[r.sobre])
<1>1. peticion[c] \in DeCodigos /\ En(c, "set_resets")
  BY PeticionDe DEF set_resets, En, FormaAuth
<1>2. Escritura(peticion[c])
  BY <1>1 DEF EnCurso
<1> QED
  BY <1>1, <1>2 DEF set_resets, Termina

\* The writing of the codes, and the code sent after it.
LEMMA EscribeForma ==
  ASSUME FormaAuth, EnCurso, NEW c \in Conts, set_resets(c)
  PROVE  FormaAuth'
<1> DEFINE r == peticion[c]
<1>1. /\ UNCHANGED <<ahora, users, auth, superados>> /\ (BienA \/ FallaA)
      /\ r \in DeCodigos /\ peticion' = [peticion EXCEPT ![c] = Nadie]
  BY EscribeEs
<1>2. /\ r.sobre \in Usuarios /\ r.emite \in 0..MaxCodigos
      /\ r.codes \in TablaCodigos /\ r.leidos \in TablaCodigos
  BY <1>1 DEF DeCodigos, QuizaCodigo, NingunCodigo, Codigos, MaxCodigos
<1>3. quedan' \in CupoAuth /\ quedan'.publicas <= quedan.publicas
  BY <1>1, CupoTrasLlamada
<1>4. codes \in TablaCodigos /\ codes' \in TablaCodigos
  BY <1>2, EscribeEs DEF FormaAuth, AuthTypeOK, TablaCodigos
<1>5. emitidos' \in [n : 0..MaxCodigos, de : [Usuarios -> 0..MaxCodigos]]
      /\ emitidos'.n = emitidos.n
  <2>1. emitidos' = emitidos \/ emitidos' = [emitidos EXCEPT !.de[r.sobre] = r.emite]
    BY EscribeEs
  <2> QED
    BY <1>2, <2>1 DEF FormaAuth, AuthTypeOK
<1>6. probados' \in [Codigos -> Nat] /\ usados' \in [Codigos -> Nat]
  <2>1. probados \in [Codigos -> Nat] /\ usados \in [Codigos -> Nat]
    BY DEF FormaAuth, AuthTypeOK
  <2>2. probados' = [k \in Codigos |-> probados[k] + (IF k = r.fallido THEN 1 ELSE 0)]
        /\ usados' = [k \in Codigos |-> usados[k] + (IF k = r.usado THEN 1 ELSE 0)]
    BY EscribeEs
  <2> QED
    BY <2>1, <2>2
<1>7. pisados' \subseteq Codigos
  <2>1. \A x \in Reset \cup {Nadie} : CodigoDe(x) \subseteq Codigos
    BY DEF CodigoDe, Reset
  <2>2. Pisa(r.leidos) \subseteq Codigos /\ CodigoDe(r.leidos[r.sobre]) \subseteq Codigos
    BY <1>2, <1>4, <2>1 DEF Pisa, TablaCodigos
  <2>3. pisados \subseteq Codigos
    BY DEF FormaAuth, AuthTypeOK
  <2> QED
    BY <2>2, <2>3, EscribeEs
<1>8. /\ peticion' \in [Conts -> Peticiones \cup {Nadie}]
      /\ \A d \in Conts : peticion'[d] = Nadie \/ peticion'[d].sobre \in Usuarios
      /\ emitidos'.n + Cardinality(PidenCodigo') + quedan'.publicas <= MaxCodigos
  BY <1>1, <1>3, <1>5, NadieSirve, SigueSinPedir
<1> QED
  BY <1>1, <1>3, <1>4, <1>5, <1>6, <1>7, <1>8 DEF FormaAuth, AuthTypeOK, TablaCodigos

\* The clock.
LEMMA PasaForma == ASSUME FormaAuth, PasaAhora PROVE FormaAuth'
<1>1. ahora' \in 1..FinAuth
  BY SonConstantes DEF PasaAhora, FormaAuth, AuthTypeOK
<1>2. PidenCodigo' = PidenCodigo
  BY DEF PasaAhora, PidenCodigo, En
<1> QED
  BY <1>1, <1>2 DEF PasaAhora, historiaAuth, FormaAuth, AuthTypeOK

\* So no step breaks the types.
LEMMA FormaPaso ==
  ASSUME FormaAuth, EnCurso, NextAuth
  PROVE  FormaAuth'
BY AutorizadoForma, CompruebaForma, LeeUsuariosForma, SetUsersForma, PideForgotForma, ForgotForma,
   ResetForma, ClaveNuevaForma, EscribeForma, PasaForma DEF NextAuth

\* Nor are they broken at the start, with no request in any container.
LEMMA FormaInicio == InitAuth => FormaAuth
<1> SUFFICES ASSUME InitAuth PROVE FormaAuth
  OBVIOUS
<1>1. PidenCodigo = {}
  BY DEF InitAuth, PidenCodigo, En
<1>2. Cardinality(PidenCodigo) = 0
  BY <1>1, FS_EmptySet
<1>3. quedan \in CupoAuth /\ quedan.publicas \in Nat /\ quedan.publicas <= MaxCodigos
  BY SonConstantes DEF InitAuth, CupoAuth
<1>4. emitidos = [n |-> 0, de |-> [u \in Usuarios |-> 0]] /\ emitidos.n = 0
      /\ emitidos \in [n : 0..MaxCodigos, de : [Usuarios -> 0..MaxCodigos]]
  BY DEF InitAuth, MaxCodigos
<1>5. emitidos.n + Cardinality(PidenCodigo) + quedan.publicas <= MaxCodigos
  BY <1>2, <1>3, <1>4 DEF MaxCodigos
<1>6. [hash |-> EnvClave, role |-> "user", email |-> TRUE] \in Registro
  BY SonConstantes DEF Registro, Roles
<1>7. users \in TablaUsuarios
  BY <1>6 DEF InitAuth, TablaUsuarios
<1>8. [fails |-> 0, locked_until |-> 0] \in [fails : 0..MaxFails, locked_until : Nat]
  BY SonConstantes
<1>9. auth \in [Conts -> [fails : 0..MaxFails, locked_until : Nat]]
      /\ \A c \in Conts : auth[c].fails = 0
  BY <1>8 DEF InitAuth
<1> QED
  BY <1>3, <1>4, <1>5, <1>7, <1>9, SonConstantes
  DEF InitAuth, FormaAuth, AuthTypeOK, TablaUsuarios

-----------------------------------------------------------------------------
(* What becomes of the codes.                                              *)

InvCod == EnCurso /\ Duenos /\ Frescos /\ Vigor /\ CodigoAcotado

\* A request that carries a reading of the codes has just made it, or had it already.
Trae(c, r) ==
  /\ r # Nadie /\ r.en \in {"reset", "clave nueva", "set_resets"} =>
       r.leidos = codes \/ (Lleva(c) /\ r.leidos = peticion[c].leidos)
  /\ r # Nadie /\ r.en = "set_resets" => Escritura(r)
  /\ r # Nadie /\ r.en \in {"reset", "clave nueva"} => r.leidos[r.sobre] # Nadie
EmiteDe(r) == IF r # Nadie /\ r.en = "set_resets" THEN r.emite ELSE NingunCodigo

\* Whose a code is does not change with a new reading.
LEMMA PoseeQueda ==
  ASSUME FormaAuth, NEW c \in Conts, NEW r \in Peticiones \cup {Nadie},
         peticion' = [peticion EXCEPT ![c] = r],
         UNCHANGED codes, UNCHANGED emitidos.de, Trae(c, r),
         NEW u \in Usuarios, NEW k, Posee(u, k)'
  PROVE  Posee(u, k)
<1>1. CASE Tiene(codes, u, k)' \/ (emitidos.de[u] = k)'
  BY <1>1 DEF Posee, Tiene
<1>2. ASSUME NEW d \in Conts, Lleva(d)', Tiene(peticion[d].leidos, u, k)'
      PROVE  Posee(u, k)
  <2>1. CASE d # c
    <3>1. peticion'[d] = peticion[d]
      BY <2>1 DEF FormaAuth
    <3> QED
      BY <1>2, <3>1 DEF Posee, Tiene, Lleva
  <2>2. CASE d = c
    <3>1. peticion'[c] = r
      BY DEF FormaAuth
    <3>2. r # Nadie /\ r.en \in {"reset", "clave nueva", "set_resets"} /\ Tiene(r.leidos, u, k)
      BY <1>2, <2>2, <3>1 DEF Lleva, Tiene
    <3> QED
      BY <3>2 DEF Trae, Posee
  <2> QED
    BY <2>1, <2>2
<1> QED
  BY <1>1, <1>2 DEF Posee

\* A request goes on and no code changes: it sends none, and only a code that a stale
\* reading met may change a password after a newer one.
LEMMA Callado ==
  ASSUME FormaAuth, InvCod, NEW c \in Conts, NEW r \in Peticiones \cup {Nadie},
         peticion' = [peticion EXCEPT ![c] = r],
         UNCHANGED <<codes, emitidos, probados, usados>>, Trae(c, r),
         EmiteDe(r) = NingunCodigo, pisados \subseteq pisados',
         \A k \in superados' : \/ k \in superados
                               \/ k \in pisados' /\ \E u \in Usuarios : Posee(u, k)
  PROVE  InvCod'
<1>1. \A d \in Conts \ {c} : peticion'[d] = peticion[d] /\ Emite(d)' = Emite(d)
  BY DEF FormaAuth, Emite, En
<1>2. peticion'[c] = r /\ Emite(c)' = NingunCodigo
  BY DEF FormaAuth, Emite, En, EmiteDe
<1>3. \A u \in Usuarios, k \in Codigos : Posee(u, k)' => Posee(u, k)
  BY PoseeQueda
<1>4. EnCurso'
  <2>1. \A d \in Conts \ {c} :
          /\ peticion'[d] # Nadie /\ peticion'[d].en = "set_resets" => Escritura(peticion'[d])
          /\ peticion'[d] # Nadie /\ peticion'[d].en \in {"reset", "clave nueva"} =>
               peticion'[d].leidos[peticion'[d].sobre] # Nadie
    BY <1>1 DEF InvCod, EnCurso, En
  <2>2. /\ peticion'[c] # Nadie /\ peticion'[c].en = "set_resets" => Escritura(peticion'[c])
        /\ peticion'[c] # Nadie /\ peticion'[c].en \in {"reset", "clave nueva"} =>
             peticion'[c].leidos[peticion'[c].sobre] # Nadie
    BY <1>2 DEF Trae
  <2> HIDE DEF Escritura
  <2> QED
    BY <2>1, <2>2 DEF EnCurso, En
<1>5. Duenos'
  BY <1>3 DEF InvCod, Duenos
<1>6. Frescos'
  <2>1. \A k \in Codigos : Intacto(k) /\ (k > emitidos.n \/ \A u \in Usuarios : ~Posee(u, k))
                             => Intacto(k)'
    <3> SUFFICES ASSUME NEW k \in Codigos, Intacto(k),
                        k > emitidos.n \/ \A u \in Usuarios : ~Posee(u, k)
                 PROVE  Intacto(k)'
      OBVIOUS
    <3>1. \A u \in Usuarios : ~Posee(u, k)
      <4>1. emitidos.n \in Nat /\ k \in Nat
        BY DEF FormaAuth, AuthTypeOK, Codigos, MaxCodigos
      <4> QED
        BY <4>1 DEF InvCod, Duenos
    <3> QED
      BY <3>1 DEF Intacto
  <2>2. \A k \in Codigos : (k > emitidos.n)' => Intacto(k)'
    BY <2>1 DEF InvCod, Frescos
  <2>3. \A d \in Conts : Emite(d) \in Codigos \cup {NingunCodigo}
    BY PeticionDe DEF Emite, En, FormaAuth, DeCodigos, QuizaCodigo
  <2> SUFFICES ASSUME NEW d \in Conts, Emite(d)' # NingunCodigo
               PROVE  /\ Emite(d)' <= emitidos'.n /\ Intacto(Emite(d))'
                      /\ \A u \in Usuarios : ~Posee(u, Emite(d))'
                      /\ \A e \in Conts \ {d} : Emite(e)' # Emite(d)'
    BY <2>2 DEF Frescos
  <2>4. d # c
    BY <1>2
  <2>5. PICK m \in Codigos : m = Emite(d) /\ m = Emite(d)'
    BY <1>1, <2>3, <2>4
  <2>6. m <= emitidos.n /\ Intacto(m) /\ \A u \in Usuarios : ~Posee(u, m)
    BY <1>1, <2>4, <2>5 DEF InvCod, Frescos
  <2>7. Intacto(m)'
    BY <2>1, <2>6
  <2>8. \A u \in Usuarios : ~Posee(u, m)'
    BY <1>3, <2>6
  <2>9. \A e \in Conts \ {d} : Emite(e)' # m
    <3> SUFFICES ASSUME NEW e \in Conts \ {d} PROVE Emite(e)' # m
      OBVIOUS
    <3>1. CASE e = c
      BY <1>2, <2>5, <3>1
    <3>2. CASE e # c
      BY <1>1, <2>4, <2>5, <3>2 DEF InvCod, Frescos
    <3> QED
      BY <3>1, <3>2
  <2> QED
    BY <2>5, <2>6, <2>7, <2>8, <2>9 DEF Intacto, Posee, Tiene
<1>7. Vigor'
  BY DEF InvCod, Vigor, Tiene
<1>8. CodigoAcotado'
  BY DEF InvCod, CodigoAcotado
<1> QED
  BY <1>4, <1>5, <1>6, <1>7, <1>8 DEF InvCod

\* A request for a code, the one step that takes a number.
LEMMA ForgotCod ==
  ASSUME FormaAuth, InvCod, NEW c \in Conts, _auth_forgot(c)
  PROVE  InvCod'
<1>1. UNCHANGED <<codes, probados, usados, superados, pisados>>
  BY ForgotEs
<1>2. CASE peticion' = [peticion EXCEPT ![c] = Nadie] /\ UNCHANGED emitidos
  <2>1. Trae(c, Nadie) /\ EmiteDe(Nadie) = NingunCodigo
    BY DEF Trae, EmiteDe
  <2> QED
    BY <1>1, <1>2, <2>1, Callado, NadieSirve
<1>3. ASSUME NEW u \in Usuarios, NEW x \in Reset, emitidos.n + 1 \in Codigos,
             x.code = emitidos.n + 1, x.attempts = 0,
             emitidos' = [emitidos EXCEPT !.n = emitidos.n + 1],
             peticion' = [peticion EXCEPT ![c] =
               [en |-> "set_resets", sobre |-> u, leidos |-> codes,
                codes |-> [codes EXCEPT ![u] = x], fallido |-> NingunCodigo,
                usado |-> NingunCodigo, emite |-> emitidos.n + 1]]
      PROVE  InvCod'
  <2> DEFINE tabla == [codes EXCEPT ![u] = x]
             m == emitidos.n + 1
             r == [en |-> "set_resets", sobre |-> u, leidos |-> codes, codes |-> tabla,
                   fallido |-> NingunCodigo, usado |-> NingunCodigo, emite |-> m]
  <2>1. /\ codes \in TablaCodigos /\ emitidos.n \in Nat /\ m \in Nat /\ m > emitidos.n
        /\ ~(m <= emitidos.n) /\ emitidos.n <= m
    BY DEF FormaAuth, AuthTypeOK, TablaCodigos, MaxCodigos
  <2>2. /\ tabla \in TablaCodigos /\ tabla[u] = x /\ x # Nadie
        /\ \A v \in Usuarios \ {u} : tabla[v] = codes[v]
    BY <2>1, ResetNoEsNadie DEF TablaCodigos
  <2>3. emitidos'.n = m /\ emitidos'.de = emitidos.de
    BY <1>3 DEF FormaAuth, AuthTypeOK
  <2>4. peticion' = [peticion EXCEPT ![c] = r]
    BY <1>3
  <2>5. m \in QuizaCodigo /\ NingunCodigo \in QuizaCodigo /\ m # NingunCodigo
    BY <1>3, <2>1 DEF QuizaCodigo, Codigos, NingunCodigo
  <2>6. m \in Codigos /\ x.code = m
    BY <1>3
  <2> HIDE DEF tabla, m
  <2>7. /\ r \in Peticiones /\ r.en = "set_resets" /\ r.sobre = u
        /\ r.leidos = codes /\ r.codes = tabla /\ r.fallido = NingunCodigo
        /\ r.usado = NingunCodigo /\ r.emite = m
    BY <2>1, <2>2, <2>5, EscrituraTipo
  <2> HIDE DEF r
  <2>8. Escritura(r) /\ r # Nadie
    BY <1>3, <2>2, <2>5, <2>6, <2>7, NoEsNadie DEF Escritura, Tiene
  <2>9. Trae(c, r)
    BY <2>7, <2>8 DEF Trae
  <2>10. \A v \in Usuarios, k \in Codigos : Posee(v, k)' => Posee(v, k)
    BY <1>1, <2>3, <2>4, <2>7, <2>9, PoseeQueda
  <2>11. \A d \in Conts \ {c} : peticion'[d] = peticion[d] /\ Emite(d)' = Emite(d)
    BY <2>4 DEF FormaAuth, Emite, En
  <2>12. peticion'[c] = r /\ Emite(c)' = m
    BY <2>4, <2>7, <2>8 DEF FormaAuth, Emite, En
  <2>13. EnCurso'
    <3>1. \A d \in Conts \ {c} :
            /\ peticion'[d] # Nadie /\ peticion'[d].en = "set_resets" => Escritura(peticion'[d])
            /\ peticion'[d] # Nadie /\ peticion'[d].en \in {"reset", "clave nueva"} =>
                 peticion'[d].leidos[peticion'[d].sobre] # Nadie
      BY <2>11 DEF InvCod, EnCurso, En
    <3>2. /\ peticion'[c] # Nadie /\ peticion'[c].en = "set_resets" => Escritura(peticion'[c])
          /\ peticion'[c].en \notin {"reset", "clave nueva"}
      BY <2>7, <2>8, <2>12
    <3> QED
      BY <3>1, <3>2 DEF EnCurso, En
  <2>14. Duenos'
    <3> SUFFICES ASSUME NEW k \in Codigos, NEW v \in Usuarios, Posee(v, k)'
                 PROVE  k <= emitidos'.n /\ \A w \in Usuarios : Posee(w, k)' => v = w
      BY DEF Duenos
    <3>1. Posee(v, k) /\ k <= emitidos.n /\ k \in Nat
      BY <2>10 DEF InvCod, Duenos, Codigos
    <3>2. k <= m
      BY <2>1, <3>1
    <3> QED
      BY <2>3, <2>10, <3>1, <3>2 DEF InvCod, Duenos
  <2>15. Frescos'
    <3>1. \A k \in Codigos : Intacto(k) => Intacto(k)'
      BY <1>1 DEF Intacto
    <3>2. \A k \in Codigos : k > emitidos'.n => Intacto(k)'
      <4> SUFFICES ASSUME NEW k \in Codigos, k > emitidos'.n PROVE Intacto(k)'
        OBVIOUS
      <4>1. k > emitidos.n
        BY <2>1, <2>3 DEF Codigos
      <4> QED
        BY <3>1, <4>1 DEF InvCod, Frescos
    <3>3. Intacto(m) /\ \A v \in Usuarios : ~Posee(v, m)
      BY <2>1, <2>6 DEF InvCod, Frescos, Duenos
    <3>4. \A d \in Conts : Emite(d) # NingunCodigo => Emite(d) <= emitidos.n /\ Emite(d) # m
      BY <2>1 DEF InvCod, Frescos
    <3>5. \A d \in Conts : Emite(d) \in Codigos \cup {NingunCodigo}
      BY PeticionDe DEF Emite, En, FormaAuth, DeCodigos, QuizaCodigo
    <3> SUFFICES ASSUME NEW d \in Conts, Emite(d)' # NingunCodigo
                 PROVE  /\ Emite(d)' <= emitidos'.n /\ Intacto(Emite(d))'
                        /\ \A v \in Usuarios : ~Posee(v, Emite(d))'
                        /\ \A e \in Conts \ {d} : Emite(e)' # Emite(d)'
      BY <3>2 DEF Frescos
    <3>6. PICK j \in Codigos : /\ j = Emite(d)' /\ (d = c => j = m)
                               /\ d # c => j = Emite(d)
      BY <2>6, <2>11, <2>12, <3>5
    <3>7. j <= m /\ Intacto(j) /\ \A v \in Usuarios : ~Posee(v, j)
      <4>1. CASE d = c
        BY <2>1, <3>3, <3>6, <4>1
      <4>2. CASE d # c
        <5>1. j <= emitidos.n /\ Intacto(j) /\ \A v \in Usuarios : ~Posee(v, j)
          BY <2>11, <3>6, <4>2 DEF InvCod, Frescos
        <5>2. j \in Nat
          BY DEF Codigos
        <5> QED
          BY <2>1, <5>1, <5>2
      <4> QED
        BY <4>1, <4>2
    <3>8. Intacto(j)' /\ \A v \in Usuarios : ~Posee(v, j)'
      BY <2>10, <3>1, <3>7
    <3>9. \A e \in Conts \ {d} : Emite(e)' # j
      <4> SUFFICES ASSUME NEW e \in Conts \ {d} PROVE Emite(e)' # j
        OBVIOUS
      <4>1. CASE e = c
        BY <2>11, <2>12, <3>4, <3>6, <4>1
      <4>2. CASE e # c /\ d = c
        BY <2>5, <2>11, <3>4, <3>6, <4>2
      <4>3. CASE e # c /\ d # c
        BY <2>11, <3>6, <4>3 DEF InvCod, Frescos
      <4> QED
        BY <4>1, <4>2, <4>3
    <3> QED
      BY <2>3, <3>6, <3>7, <3>8, <3>9 DEF Intacto, Posee, Tiene
  <2>16. Vigor' /\ CodigoAcotado'
    BY <1>1, <2>3 DEF InvCod, Vigor, Tiene, CodigoAcotado
  <2> QED
    BY <2>13, <2>14, <2>15, <2>16 DEF InvCod
<1> QED
  BY <1>2, <1>3, ForgotEs

\* A code that the write takes from its reading is spared by the marks only if the record
\* is still what was read.
LEMMA VigenteAlEscribir ==
  ASSUME NEW v \in Usuarios, NEW leidos, NEW k, Tiene(leidos, v, k), k \notin Pisa(leidos)
  PROVE  codes[v] = leidos[v]
BY DEF Pisa, Tiene, CodigoDe

\* The codes are written back: one is counted, dropped or put there.
LEMMA EscribeCod ==
  ASSUME FormaAuth, InvCod, NEW c \in Conts, set_resets(c)
  PROVE  InvCod'
<1> DEFINE r == peticion[c]
           u == r.sobre
           Sale == /\ codes' = r.codes /\ pisados' = pisados \cup Pisa(r.leidos)
                   /\ emitidos' = IF r.emite = NingunCodigo THEN emitidos
                                  ELSE [emitidos EXCEPT !.de[u] = r.emite]
           Cae == /\ UNCHANGED <<codes, emitidos>>
                  /\ pisados' = pisados \cup CodigoDe(r.leidos[u])
<1>1. /\ r \in DeCodigos /\ Escritura(r) /\ En(c, "set_resets")
      /\ UNCHANGED superados /\ peticion' = [peticion EXCEPT ![c] = Nadie]
      /\ probados' = [k \in Codigos |-> probados[k] + (IF k = r.fallido THEN 1 ELSE 0)]
      /\ usados' = [k \in Codigos |-> usados[k] + (IF k = r.usado THEN 1 ELSE 0)]
  BY EscribeEs DEF InvCod
<1>2. Sale \/ Cae
  BY EscribeEs DEF InvCod
<1>3. /\ u \in Usuarios /\ r.leidos \in TablaCodigos /\ r.codes \in TablaCodigos
      /\ r.fallido \in QuizaCodigo /\ r.usado \in QuizaCodigo /\ r.emite \in QuizaCodigo
      /\ r # Nadie /\ r.en = "set_resets"
  BY <1>1 DEF DeCodigos, En
<1>4. NingunCodigo \notin Codigos /\ \A k \in Codigos : k \in Nat
  BY DEF NingunCodigo, Codigos
<1>5. /\ codes \in TablaCodigos /\ emitidos.n \in Nat
      /\ probados \in [Codigos -> Nat] /\ usados \in [Codigos -> Nat]
  BY DEF FormaAuth, AuthTypeOK, TablaCodigos
<1>6. /\ emitidos'.n = emitidos.n
      /\ \A v \in Usuarios : \/ emitidos'.de[v] = emitidos.de[v]
                             \/ /\ v = u /\ emitidos'.de[v] = r.emite
                                /\ r.emite # NingunCodigo
  BY <1>2, <1>3 DEF FormaAuth, AuthTypeOK
<1>7. \A d \in Conts \ {c} : peticion'[d] = peticion[d] /\ Emite(d)' = Emite(d)
  BY <1>1 DEF FormaAuth, Emite, En
<1>8. peticion'[c] = Nadie /\ Emite(c)' = NingunCodigo /\ Emite(c) = r.emite /\ ~Lleva(c)'
  BY <1>1 DEF FormaAuth, Emite, En, Lleva
<1>9. \A v \in Usuarios, k \in Codigos : Tiene(r.leidos, v, k) => Posee(v, k)
  BY <1>3 DEF Posee, Lleva
<1>10. /\ r.fallido # NingunCodigo => Posee(u, r.fallido) /\ r.fallido \in Codigos
       /\ r.usado # NingunCodigo => Posee(u, r.usado) /\ r.usado \in Codigos
  BY <1>1, <1>3, <1>9 DEF Escritura, QuizaCodigo
<1>11. r.emite # NingunCodigo =>
         /\ r.emite \in Codigos /\ r.emite <= emitidos.n /\ Intacto(r.emite)
         /\ \A v \in Usuarios : ~Posee(v, r.emite)
         /\ \A d \in Conts \ {c} : Emite(d) # r.emite
  <2>1. Emite(c) # NingunCodigo =>
         /\ Emite(c) <= emitidos.n /\ Intacto(Emite(c))
         /\ \A v \in Usuarios : ~Posee(v, Emite(c))
         /\ \A d \in Conts \ {c} : Emite(d) # Emite(c)
    BY DEF InvCod, Frescos
  <2>2. r.emite # NingunCodigo => r.emite \in Codigos
    BY <1>3 DEF QuizaCodigo
  <2> QED
    BY <1>8, <2>1, <2>2
<1>12. \A v \in Usuarios, k \in Codigos :
         Tiene(r.codes, v, k) => Posee(v, k) \/ (v = u /\ k = r.emite /\ r.emite # NingunCodigo)
  <2> SUFFICES ASSUME NEW v \in Usuarios, NEW k \in Codigos, Tiene(r.codes, v, k)
               PROVE  Posee(v, k) \/ (v = u /\ k = r.emite /\ r.emite # NingunCodigo)
    OBVIOUS
  <2>1. CASE v # u
    BY <1>1, <1>9, <2>1 DEF Escritura, Tiene
  <2>2. CASE v = u
    <3>1. r.emite # NingunCodigo => k = r.emite
      BY <1>1, <2>2 DEF Escritura, Tiene
    <3>2. r.emite = NingunCodigo => k = r.fallido /\ Tiene(r.leidos, u, r.fallido)
      BY <1>1, <2>2 DEF Escritura, Tiene
    <3> QED
      BY <1>9, <2>2, <3>1, <3>2
  <2> QED
    BY <2>1, <2>2
<1>13. \A v \in Usuarios, k \in Codigos :
         Posee(v, k)' => Posee(v, k) \/ (v = u /\ k = r.emite /\ r.emite # NingunCodigo)
  <2> SUFFICES ASSUME NEW v \in Usuarios, NEW k \in Codigos, Posee(v, k)'
               PROVE  Posee(v, k) \/ (v = u /\ k = r.emite /\ r.emite # NingunCodigo)
    OBVIOUS
  <2>1. CASE Tiene(codes, v, k)'
    <3>1. Tiene(codes', v, k)
      BY <2>1 DEF Tiene
    <3>2. codes' = codes \/ codes' = r.codes
      BY <1>2
    <3> QED
      BY <1>12, <3>1, <3>2 DEF Posee
  <2>2. CASE (emitidos.de[v] = k)'
    BY <1>6, <2>2 DEF Posee
  <2>3. ASSUME NEW d \in Conts, Lleva(d)', Tiene(peticion[d].leidos, v, k)'
        PROVE  Posee(v, k)
    <3>1. d # c
      BY <1>8, <2>3
    <3>2. peticion'[d] = peticion[d]
      BY <1>7, <3>1
    <3> QED
      BY <2>3, <3>2 DEF Posee, Tiene, Lleva
  <2> QED
    BY <2>1, <2>2, <2>3 DEF Posee
<1>14. \A k \in Codigos : k # r.fallido => probados'[k] = probados[k]
  BY <1>1, <1>5
<1>15. \A k \in Codigos : k # r.usado => usados'[k] = usados[k]
  BY <1>1, <1>5
<1> HIDE DEF r
<1>16. EnCurso'
  BY <1>7, <1>8 DEF InvCod, EnCurso, En
<1>17. Duenos'
  BY <1>6, <1>11, <1>13 DEF InvCod, Duenos
<1>18. Frescos'
  <2>1. \A k \in Codigos : Intacto(k) /\ (\A v \in Usuarios : ~Posee(v, k)) => Intacto(k)'
    <3> SUFFICES ASSUME NEW k \in Codigos, Intacto(k), \A v \in Usuarios : ~Posee(v, k)
                 PROVE  Intacto(k)'
      OBVIOUS
    <3>1. k # r.fallido /\ k # r.usado
      BY <1>3, <1>4, <1>10
    <3> QED
      BY <1>1, <1>14, <1>15, <3>1 DEF Intacto
  <2>2. \A k \in Codigos : k > emitidos'.n => Intacto(k)'
    <3> SUFFICES ASSUME NEW k \in Codigos, k > emitidos.n PROVE Intacto(k)'
      BY <1>6
    <3>1. \A v \in Usuarios : ~Posee(v, k)
      BY <1>4, <1>5 DEF InvCod, Duenos
    <3> QED
      BY <2>1, <3>1 DEF InvCod, Frescos
  <2>3. \A d \in Conts : Emite(d) \in Codigos \cup {NingunCodigo}
    BY PeticionDe DEF Emite, En, FormaAuth, DeCodigos, QuizaCodigo
  <2> SUFFICES ASSUME NEW d \in Conts, Emite(d)' # NingunCodigo
               PROVE  /\ Emite(d)' <= emitidos'.n /\ Intacto(Emite(d))'
                      /\ \A v \in Usuarios : ~Posee(v, Emite(d))'
                      /\ \A e \in Conts \ {d} : Emite(e)' # Emite(d)'
    BY <2>2 DEF Frescos
  <2>4. d # c
    BY <1>8
  <2>5. PICK m \in Codigos : m = Emite(d) /\ m = Emite(d)'
    BY <1>7, <2>3, <2>4
  <2>6. m <= emitidos.n /\ Intacto(m) /\ \A v \in Usuarios : ~Posee(v, m)
    BY <1>4, <2>5 DEF InvCod, Frescos
  <2>7. Intacto(m)'
    BY <2>1, <2>6
  <2>8. r.emite # NingunCodigo => m # r.emite
    BY <1>11, <2>4, <2>5
  <2>9. \A v \in Usuarios : ~Posee(v, m)'
    BY <1>13, <2>6, <2>8
  <2>10. \A e \in Conts \ {d} : Emite(e)' # m
    <3> SUFFICES ASSUME NEW e \in Conts \ {d} PROVE Emite(e)' # m
      OBVIOUS
    <3>1. CASE e = c
      BY <1>4, <1>8, <2>5, <3>1
    <3>2. CASE e # c
      <4>1. Emite(e)' = Emite(e)
        BY <1>7, <3>2
      <4> QED
        BY <1>4, <2>5, <4>1 DEF InvCod, Frescos
    <3> QED
      BY <3>1, <3>2
  <2> QED
    BY <1>6, <2>5, <2>6, <2>7, <2>9, <2>10 DEF Intacto, Posee, Tiene

<1>19. CASE Cae
  <2>1. \A k \in Codigos \ pisados' : k \notin pisados /\ k # r.fallido /\ k # r.usado
    BY <1>1, <1>4, <1>19 DEF Escritura, Tiene, CodigoDe
  <2>2. Vigor'
    <3> SUFFICES ASSUME NEW v \in Usuarios, NEW k \in Codigos \ pisados', Tiene(codes, v, k)
                 PROVE  /\ probados'[k] = codes[v].attempts /\ usados'[k] = 0
                        /\ emitidos'.de[v] = k
      BY <1>19 DEF Vigor, Tiene
    <3> QED
      BY <1>14, <1>15, <1>19, <2>1 DEF InvCod, Vigor
  <2>3. CodigoAcotado'
    BY <1>1, <1>14, <1>15, <2>1 DEF InvCod, CodigoAcotado
  <2> QED
    BY <1>16, <1>17, <1>18, <2>2, <2>3 DEF InvCod
<1>20. CASE Sale
  \* what was read is still there, if the write spares the code
  <2>1. \A v \in Usuarios, k \in Codigos \ pisados' :
          Tiene(r.leidos, v, k) =>
            /\ codes[v] = r.leidos[v] /\ k \in Codigos \ pisados /\ Tiene(codes, v, k)
            /\ probados[k] = codes[v].attempts /\ usados[k] = 0 /\ emitidos.de[v] = k
    <3> SUFFICES ASSUME NEW v \in Usuarios, NEW k \in Codigos \ pisados', Tiene(r.leidos, v, k)
                 PROVE  /\ codes[v] = r.leidos[v] /\ k \in Codigos \ pisados /\ Tiene(codes, v, k)
                        /\ probados[k] = codes[v].attempts /\ usados[k] = 0 /\ emitidos.de[v] = k
      OBVIOUS
    <3>1. k \notin pisados /\ k \notin Pisa(r.leidos)
      BY <1>20
    <3>2. codes[v] = r.leidos[v]
      BY <3>1, VigenteAlEscribir
    <3>3. Tiene(codes, v, k)
      BY <3>2 DEF Tiene
    <3> QED
      BY <3>1, <3>2, <3>3 DEF InvCod, Vigor
  <2>2. Vigor'
    <3> SUFFICES ASSUME NEW v \in Usuarios, NEW k \in Codigos \ pisados', Tiene(r.codes, v, k)
                 PROVE  /\ probados'[k] = r.codes[v].attempts /\ usados'[k] = 0
                        /\ emitidos'.de[v] = k
      BY <1>20 DEF Vigor, Tiene
    <3>1. CASE v # u
      <4>1. r.codes[v] = r.leidos[v]
        BY <1>1, <3>1 DEF Escritura
      <4>2. Tiene(r.leidos, v, k)
        BY <4>1 DEF Tiene
      <4>3. Posee(v, k) /\ ~Posee(u, k)
        BY <1>3, <1>9, <3>1, <4>2 DEF InvCod, Duenos
      <4>4. k # r.fallido /\ k # r.usado
        BY <1>4, <1>10, <4>3
      <4>5. emitidos'.de[v] = emitidos.de[v]
        BY <1>6, <3>1
      <4> QED
        BY <1>14, <1>15, <2>1, <4>1, <4>2, <4>4, <4>5
    <3>2. CASE v = u /\ r.emite = NingunCodigo
      <4>1. r.fallido # NingunCodigo
        BY <1>1, <3>2 DEF Escritura, Tiene
      <4>2. /\ k = r.fallido /\ Tiene(r.leidos, u, k) /\ r.usado = NingunCodigo
            /\ r.codes[u].attempts = r.leidos[u].attempts + 1
        BY <1>1, <3>2, <4>1 DEF Escritura, Tiene
      <4>3. probados'[k] = probados[k] + 1 /\ usados'[k] = usados[k]
        BY <1>1, <1>4, <1>15, <4>2
      <4>4. emitidos'.de[u] = emitidos.de[u]
        BY <1>20, <3>2
      <4> QED
        BY <2>1, <3>2, <4>2, <4>3, <4>4
    <3>3. CASE v = u /\ r.emite # NingunCodigo
      <4>1. /\ k = r.emite /\ r.codes[u].attempts = 0 /\ r.fallido = NingunCodigo
            /\ r.usado = NingunCodigo
        BY <1>1, <3>3 DEF Escritura, Tiene
      <4>2. probados[k] = 0 /\ usados[k] = 0
        BY <1>11, <3>3, <4>1 DEF Intacto
      <4>3. probados'[k] = 0 /\ usados'[k] = 0
        BY <1>4, <1>14, <1>15, <4>1, <4>2
      <4>4. emitidos'.de[u] = k
        BY <1>3, <1>20, <3>3, <4>1 DEF FormaAuth, AuthTypeOK
      <4> QED
        BY <3>3, <4>1, <4>3, <4>4
    <3> QED
      BY <3>1, <3>2, <3>3
  <2>3. CodigoAcotado'
    <3> SUFFICES ASSUME NEW k \in Codigos \ pisados'
                 PROVE  probados'[k] <= MaxIntentos /\ usados'[k] <= 1 /\ k \notin superados'
      BY DEF CodigoAcotado
    <3>1. k \in Codigos \ pisados
      BY <1>20
    <3>2. probados[k] <= MaxIntentos /\ usados[k] <= 1 /\ k \notin superados
      BY <3>1 DEF InvCod, CodigoAcotado
    <3>3. probados'[k] <= MaxIntentos
      <4>1. CASE k # r.fallido
        BY <1>14, <3>2, <4>1
      <4>2. CASE k = r.fallido
        <5>1. Tiene(r.leidos, u, k) /\ Tiene(r.codes, u, k)
              /\ r.codes[u].attempts = r.leidos[u].attempts + 1
          BY <1>1, <1>4, <4>2 DEF Escritura
        <5>2. r.codes[u] \in Reset
          BY <1>3, <5>1 DEF TablaCodigos, Tiene
        <5>3. r.codes[u].attempts <= MaxIntentos
          BY <5>2, SonConstantes DEF Reset
        <5>4. probados[k] = r.leidos[u].attempts
          BY <1>3, <2>1, <5>1
        <5>5. probados'[k] = probados[k] + 1
          BY <1>1, <4>2
        <5> QED
          BY <5>1, <5>3, <5>4, <5>5
      <4> QED
        BY <4>1, <4>2
    <3>4. usados'[k] <= 1
      <4>1. CASE k # r.usado
        BY <1>15, <3>2, <4>1
      <4>2. CASE k = r.usado
        <5>1. Tiene(r.leidos, u, k)
          BY <1>1, <1>4, <4>2 DEF Escritura
        <5>2. usados[k] = 0
          BY <1>3, <2>1, <5>1
        <5> QED
          BY <1>1, <4>2, <5>2
      <4> QED
        BY <4>1, <4>2
    <3> QED
      BY <1>1, <3>2, <3>3, <3>4
  <2> QED
    BY <1>16, <1>17, <1>18, <2>2, <2>3 DEF InvCod
<1> QED
  BY <1>2, <1>19, <1>20

\* Steps that neither read nor write codes.
LEMMA AjenoCod ==
  ASSUME FormaAuth, InvCod, NEW c \in Conts, NEW r \in Peticiones \cup {Nadie},
         r = Nadie \/ r.en \notin {"reset", "clave nueva", "set_resets"},
         peticion' = [peticion EXCEPT ![c] = r],
         UNCHANGED <<codes, emitidos, probados, usados, superados, pisados>>
  PROVE  InvCod'
<1>1. Trae(c, r) /\ EmiteDe(r) = NingunCodigo
  BY DEF Trae, EmiteDe
<1> QED
  BY <1>1, Callado

\* What leaves codes, requests and history alone breaks nothing.
LEMMA NadaCod ==
  ASSUME InvCod, UNCHANGED <<codes, emitidos, probados, usados, superados, pisados, peticion>>
  PROVE  InvCod'
<1>1. EnCurso'
  BY DEF InvCod, EnCurso, En
<1>2. \A u \in Usuarios : \A k \in Codigos : Posee(u, k)' <=> Posee(u, k)
  BY DEF Posee, Tiene, Lleva
<1>3. Duenos'
  BY <1>2 DEF InvCod, Duenos
<1>4. Frescos'
  BY DEF InvCod, Frescos, Intacto, Emite, En, Posee, Tiene, Lleva
<1> QED
  BY <1>1, <1>3, <1>4 DEF InvCod, Vigor, CodigoAcotado, Tiene

\* Nor do the requests about users, which carry no code.
LEMMA UsuariosCod ==
  ASSUME FormaAuth, InvCod, NEW c \in Conts, FormaAuth',
         _autorizado(c) \/ Comprueba(c) \/ LeeUsuarios(c) \/ set_users(c) \/ PideForgot(c)
  PROVE  InvCod'
<1>1. UNCHANGED <<codes, emitidos, probados, usados, superados, pisados>>
  BY DEF _autorizado, Comprueba, LeeUsuarios, set_users, PideForgot, historiaAuth
<1>2. CASE UNCHANGED peticion
  BY <1>1, <1>2, NadaCod
<1>3. CASE ~UNCHANGED peticion
  <2>1. PICK r : /\ peticion' = [peticion EXCEPT ![c] = r]
                 /\ r = Nadie \/ r.en \notin {"reset", "clave nueva", "set_resets"}
    <3>1. CASE _autorizado(c)
      <4>1. PICK yo \in Usuarios, clave \in Claves, op \in Operaciones, sobre \in Usuarios,
                 nueva \in Validas, rol \in Roles \ {"sin"} :
              Pasa_a(c, [en |-> IF op \in SoloAdmin THEN "rol"
                                ELSE IF op = "patterns" THEN "lee" ELSE "clave",
                         op |-> op, yo |-> yo, clave |-> clave, sobre |-> sobre,
                         nueva |-> nueva, rol |-> rol])
        BY <1>3, <3>1 DEF _autorizado
      <4> DEFINE en == IF op \in SoloAdmin THEN "rol" ELSE IF op = "patterns" THEN "lee" ELSE "clave"
                 r == [en |-> en, op |-> op, yo |-> yo, clave |-> clave, sobre |-> sobre,
                       nueva |-> nueva, rol |-> rol]
      <4>2. peticion' = [peticion EXCEPT ![c] = r] /\ r.en = en
        BY <4>1 DEF Pasa_a
      <4>3. en \notin {"reset", "clave nueva", "set_resets"}
        OBVIOUS
      <4> HIDE DEF en, r
      <4> QED
        BY <4>2, <4>3
    <3>2. CASE Comprueba(c)
      <4>1. \/ peticion' = [peticion EXCEPT ![c] = Nadie]
            \/ peticion' = [peticion EXCEPT ![c] = [peticion[c] EXCEPT !.en = "lee"]]
        BY <3>2 DEF Comprueba, Pasa_a, Termina
      <4>2. peticion[c] \in DeSesion
        BY <3>2, PeticionDe DEF Comprueba, En, FormaAuth
      <4>3. [peticion[c] EXCEPT !.en = "lee"].en = "lee"
        BY <4>2 DEF DeSesion
      <4> QED
        BY <4>1, <4>3
    <3>3. CASE LeeUsuarios(c)
      <4>1. \/ peticion' = [peticion EXCEPT ![c] = Nadie]
            \/ peticion' = [peticion EXCEPT ![c] =
                 [en |-> "set_users", users |-> Cambiados(peticion[c], users),
                  sobre |-> peticion[c].sobre]]
        BY <3>3 DEF LeeUsuarios, Pasa_a, Termina
      <4> DEFINE r == [en |-> "set_users", users |-> Cambiados(peticion[c], users),
                       sobre |-> peticion[c].sobre]
      <4>2. r.en = "set_users"
        OBVIOUS
      <4>3. peticion' = [peticion EXCEPT ![c] = Nadie] \/ peticion' = [peticion EXCEPT ![c] = r]
        BY <4>1
      <4> HIDE DEF r
      <4> QED
        BY <4>2, <4>3
    <3>4. CASE set_users(c)
      BY <3>4 DEF set_users, Termina
    <3>5. CASE PideForgot(c)
      <4>1. PICK u \in Usuarios : peticion' = [peticion EXCEPT ![c] = [en |-> "forgot", sobre |-> u]]
        BY <1>3, <3>5 DEF PideForgot, Pasa_a
      <4> DEFINE r == [en |-> "forgot", sobre |-> u]
      <4>2. peticion' = [peticion EXCEPT ![c] = r] /\ r.en = "forgot"
        BY <4>1
      <4> HIDE DEF r
      <4> QED
        BY <4>2
    <3> QED
      BY <3>1, <3>2, <3>3, <3>4, <3>5
  <2>2. r \in Peticiones \cup {Nadie}
    <3>1. peticion'[c] = r
      BY <2>1 DEF FormaAuth
    <3> QED
      BY <3>1 DEF FormaAuth
  <2> QED
    BY <1>1, <2>1, <2>2, AjenoCod
<1> QED
  BY <1>2, <1>3

\* A reset reads the codes: right, wrong or spent.
LEMMA ResetCod ==
  ASSUME FormaAuth, InvCod, NEW c \in Conts, PideReset(c)
  PROVE  InvCod'
<1>1. UNCHANGED <<ahora, users, codes, auth, emitidos, probados, usados, superados, pisados>>
  BY ResetEs
<1>2. codes \in TablaCodigos /\ NingunCodigo \in QuizaCodigo
      /\ \A x \in Reset : x.code \in QuizaCodigo /\ x.code # NingunCodigo
  BY DEF FormaAuth, AuthTypeOK, TablaCodigos, QuizaCodigo, Reset, Codigos, NingunCodigo
<1>3. CASE UNCHANGED peticion
  BY <1>1, <1>3, NadaCod
<1>4. ASSUME NEW u \in Usuarios, codes[u] \in Reset, NEW x \in Reset \cup {Nadie},
             NEW fallido \in QuizaCodigo,
             IF x = Nadie THEN fallido = NingunCodigo
             ELSE /\ fallido = codes[u].code /\ x.code = codes[u].code
                  /\ x.attempts = codes[u].attempts + 1,
             peticion' = [peticion EXCEPT ![c] =
               [en |-> "set_resets", sobre |-> u, leidos |-> codes,
                codes |-> [codes EXCEPT ![u] = x], fallido |-> fallido,
                usado |-> NingunCodigo, emite |-> NingunCodigo]]
      PROVE  InvCod'
  <2> DEFINE tabla == [codes EXCEPT ![u] = x]
             r == [en |-> "set_resets", sobre |-> u, leidos |-> codes, codes |-> tabla,
                   fallido |-> fallido, usado |-> NingunCodigo, emite |-> NingunCodigo]
  <2>1. /\ tabla \in TablaCodigos /\ tabla[u] = x
        /\ \A v \in Usuarios \ {u} : tabla[v] = codes[v]
    BY <1>2 DEF TablaCodigos
  <2>2. peticion' = [peticion EXCEPT ![c] = r]
    BY <1>4
  <2> HIDE DEF tabla
  <2>3. /\ r \in Peticiones /\ r.en = "set_resets" /\ r.sobre = u
        /\ r.leidos = codes /\ r.codes = tabla /\ r.fallido = fallido
        /\ r.usado = NingunCodigo /\ r.emite = NingunCodigo
    BY <1>2, <2>1, EscrituraTipo
  <2> HIDE DEF r
  <2>4. codes[u] # Nadie
    BY <1>4, ResetNoEsNadie
  <2>5. Escritura(r)
    BY <1>2, <1>4, <2>1, <2>3, <2>4 DEF Escritura, Tiene
  <2>6. Trae(c, r) /\ EmiteDe(r) = NingunCodigo
    BY <2>3, <2>5 DEF Trae, EmiteDe
  <2> QED
    BY <1>1, <2>2, <2>3, <2>6, Callado
<1>5. ASSUME NEW u \in Usuarios, codes[u] \in Reset, NEW nueva \in Validas,
             peticion' = [peticion EXCEPT ![c] =
               [en |-> "reset", sobre |-> u, leidos |-> codes, nueva |-> nueva]]
      PROVE  InvCod'
  <2> DEFINE r == [en |-> "reset", sobre |-> u, leidos |-> codes, nueva |-> nueva]
  <2>1. r \in Peticiones /\ r.en = "reset" /\ r.sobre = u /\ r.leidos = codes
    BY <1>2, SonConstantes DEF Peticiones, DeReset
  <2>2. peticion' = [peticion EXCEPT ![c] = r]
    BY <1>5
  <2> HIDE DEF r
  <2>3. codes[u] # Nadie
    BY <1>5, ResetNoEsNadie
  <2>4. Trae(c, r) /\ EmiteDe(r) = NingunCodigo
    BY <2>1, <2>3 DEF Trae, EmiteDe
  <2> QED
    BY <1>1, <2>1, <2>2, <2>4, Callado
<1>6. PICK u \in Usuarios :
        \/ UNCHANGED peticion
        \/ /\ codes[u] \in Reset
           /\ peticion' = [peticion EXCEPT ![c] =
                [en |-> "set_resets", sobre |-> u, leidos |-> codes,
                 codes |-> [codes EXCEPT ![u] = Nadie], fallido |-> NingunCodigo,
                 usado |-> NingunCodigo, emite |-> NingunCodigo]]
        \/ /\ codes[u] \in Reset
           /\ \E x \in Reset :
                /\ x.code = codes[u].code /\ x.attempts = codes[u].attempts + 1
                /\ peticion' = [peticion EXCEPT ![c] =
                     [en |-> "set_resets", sobre |-> u, leidos |-> codes,
                      codes |-> [codes EXCEPT ![u] = x], fallido |-> codes[u].code,
                      usado |-> NingunCodigo, emite |-> NingunCodigo]]
        \/ /\ codes[u] \in Reset
           /\ \E nueva \in Validas :
                peticion' = [peticion EXCEPT ![c] =
                  [en |-> "reset", sobre |-> u, leidos |-> codes, nueva |-> nueva]]
  BY ResetEs, SonConstantes
<1>7. CASE /\ codes[u] \in Reset
           /\ peticion' = [peticion EXCEPT ![c] =
                [en |-> "set_resets", sobre |-> u, leidos |-> codes,
                 codes |-> [codes EXCEPT ![u] = Nadie], fallido |-> NingunCodigo,
                 usado |-> NingunCodigo, emite |-> NingunCodigo]]
  BY <1>2, <1>4, <1>7, NadieSirve
<1>8. CASE /\ codes[u] \in Reset
           /\ \E x \in Reset :
                /\ x.code = codes[u].code /\ x.attempts = codes[u].attempts + 1
                /\ peticion' = [peticion EXCEPT ![c] =
                     [en |-> "set_resets", sobre |-> u, leidos |-> codes,
                      codes |-> [codes EXCEPT ![u] = x], fallido |-> codes[u].code,
                      usado |-> NingunCodigo, emite |-> NingunCodigo]]
  BY <1>2, <1>4, <1>8, ResetNoEsNadie
<1> QED
  BY <1>3, <1>5, <1>6, <1>7, <1>8

\* A password is changed after a newer code was sent only by a stale reading.
LEMMA ClaveNuevaCod ==
  ASSUME FormaAuth, InvCod, NEW c \in Conts, _auth_reset(c)
  PROVE  InvCod'
<1> DEFINE r == peticion[c]
           u == r.sobre
           k == r.leidos[u].code
<1>1. /\ UNCHANGED <<codes, emitidos, probados, usados>>
      /\ r \in DeReset \cup DeClave /\ r.leidos[u] \in Reset
  BY ClaveNuevaEs DEF InvCod
<1>2. /\ u \in Usuarios /\ r.leidos \in TablaCodigos /\ k \in Codigos
      /\ r.leidos[u] # Nadie /\ r \in Peticiones
  BY <1>1, ResetNoEsNadie DEF DeReset, DeClave, Reset, Peticiones
<1>3. Lleva(c)
  BY <1>1, <1>2, NoEsNadie DEF Lleva, DeReset, DeClave
<1>4. Tiene(r.leidos, u, k) /\ Posee(u, k)
  BY <1>2, <1>3 DEF Tiene, Posee
<1>5. CASE UNCHANGED <<superados, pisados>> /\ peticion' = [peticion EXCEPT ![c] = Nadie]
  BY <1>1, <1>5, AjenoCod, NadieSirve
<1>6. ASSUME NEW tabla \in TablaUsuarios, UNCHANGED <<superados, pisados>>,
             peticion' = [peticion EXCEPT ![c] =
                [en |-> "clave nueva", sobre |-> u, leidos |-> r.leidos, users |-> tabla]]
      PROVE  InvCod'
  <2> DEFINE s == [en |-> "clave nueva", sobre |-> u, leidos |-> r.leidos, users |-> tabla]
  <2>1. s \in Peticiones /\ s.en = "clave nueva" /\ s.leidos = r.leidos /\ s.sobre = u
    BY <1>2 DEF Peticiones, DeClave
  <2>2. peticion' = [peticion EXCEPT ![c] = s]
    BY <1>6
  <2> HIDE DEF s
  <2>3. Trae(c, s) /\ EmiteDe(s) = NingunCodigo
    BY <1>2, <1>3, <2>1 DEF Trae, EmiteDe
  <2> QED
    BY <1>1, <1>6, <2>1, <2>2, <2>3, Callado
<1>7. CASE /\ superados' = superados \cup (IF emitidos.de[u] # k THEN {k} ELSE {})
           /\ pisados' = pisados \cup (IF codes[u] # r.leidos[u] THEN {k} ELSE {})
           /\ peticion' = [peticion EXCEPT ![c] =
                [en |-> "set_resets", sobre |-> u, leidos |-> r.leidos,
                 codes |-> [r.leidos EXCEPT ![u] = Nadie],
                 fallido |-> NingunCodigo, usado |-> k, emite |-> NingunCodigo]]
  <2> DEFINE tabla == [r.leidos EXCEPT ![u] = Nadie]
             s == [en |-> "set_resets", sobre |-> u, leidos |-> r.leidos, codes |-> tabla,
                   fallido |-> NingunCodigo, usado |-> k, emite |-> NingunCodigo]
  <2>1. /\ tabla \in TablaCodigos /\ tabla[u] = Nadie
        /\ \A v \in Usuarios \ {u} : tabla[v] = r.leidos[v]
    BY <1>2 DEF TablaCodigos
  <2>2. k \in QuizaCodigo /\ NingunCodigo \in QuizaCodigo
    BY <1>2 DEF QuizaCodigo
  <2>3. k \in superados' => k \in superados \/ k \in pisados'
    <3> SUFFICES ASSUME k \notin pisados' PROVE emitidos.de[u] = k
      BY <1>7
    <3>1. codes[u] = r.leidos[u] /\ k \in Codigos \ pisados
      BY <1>2, <1>7
    <3>2. Tiene(codes, u, k)
      BY <1>4, <3>1 DEF Tiene
    <3> QED
      BY <1>2, <3>1, <3>2 DEF InvCod, Vigor
  <2>4. \A j \in superados' : \/ j \in superados
                              \/ j \in pisados' /\ \E v \in Usuarios : Posee(v, j)
    BY <1>2, <1>4, <1>7, <2>3
  <2>5. pisados \subseteq pisados'
    BY <1>7
  <2>6. peticion' = [peticion EXCEPT ![c] = s]
    BY <1>7
  <2> HIDE DEF tabla
  <2>7. /\ s \in Peticiones /\ s.en = "set_resets" /\ s.sobre = u
        /\ s.leidos = r.leidos /\ s.codes = tabla /\ s.fallido = NingunCodigo
        /\ s.usado = k /\ s.emite = NingunCodigo
    BY <1>2, <2>1, <2>2, EscrituraTipo
  <2> HIDE DEF s
  <2>8. Escritura(s)
    BY <1>4, <2>1, <2>7 DEF Escritura
  <2>9. Trae(c, s) /\ EmiteDe(s) = NingunCodigo
    BY <1>3, <2>7, <2>8 DEF Trae, EmiteDe
  <2> HIDE DEF k
  <2> QED
    BY <1>1, <2>4, <2>5, <2>6, <2>7, <2>9, Callado
<1> QED
  BY <1>5, <1>6, <1>7, ClaveNuevaEs DEF InvCod

\* FormaAuth and InvCod together are inductive.
InvAuth == FormaAuth /\ InvCod

\* There is no code at the start.
LEMMA AuthInicio == InitAuth => InvAuth
<1> SUFFICES ASSUME InitAuth PROVE InvAuth
  OBVIOUS
<1>1. FormaAuth
  BY FormaInicio
<1>2. \A c \in Conts : peticion[c] = Nadie
  BY DEF InitAuth
<1>3. EnCurso
  BY <1>2 DEF EnCurso, En
<1>4. \A u \in Usuarios : codes[u] = Nadie /\ emitidos.de[u] = 0
  BY DEF InitAuth
<1>5. \A u \in Usuarios, k \in Codigos : ~Posee(u, k)
  <2>1. \A k \in Codigos : k # 0
    BY DEF Codigos
  <2> QED
    BY <1>2, <1>4, <2>1 DEF Posee, Tiene, Lleva
<1>6. Duenos
  BY <1>5 DEF Duenos
<1>7. \A k \in Codigos : Intacto(k)
  BY DEF InitAuth, Intacto
<1>8. Frescos
  BY <1>2, <1>7 DEF Frescos, Emite, En
<1>9. Vigor /\ CodigoAcotado
  BY <1>4, SonConstantes DEF InitAuth, Vigor, Tiene, CodigoAcotado
<1> QED
  BY <1>1, <1>3, <1>6, <1>8, <1>9 DEF InvAuth, InvCod

\* No request of the panel, of any front, breaks the invariant.
LEMMA AuthPaso ==
  ASSUME InvAuth, [Next]_vars
  PROVE  InvAuth'
<1>1. CASE NextAuth
  <2>1. FormaAuth'
    BY <1>1, FormaPaso DEF InvAuth, InvCod
  <2>2. InvCod'
    <3>1. CASE PasaAhora
      BY <3>1, NadaCod DEF PasaAhora, historiaAuth, InvAuth
    <3>2. ASSUME NEW c \in Conts,
                 \/ _autorizado(c) \/ Comprueba(c) \/ LeeUsuarios(c) \/ set_users(c)
                 \/ PideForgot(c) \/ _auth_forgot(c) \/ PideReset(c) \/ _auth_reset(c)
                 \/ set_resets(c)
          PROVE  InvCod'
      BY <2>1, <3>2, UsuariosCod, ForgotCod, ResetCod, ClaveNuevaCod, EscribeCod DEF InvAuth
    <3> QED
      BY <1>1, <3>1, <3>2 DEF NextAuth
  <2> QED
    BY <2>1, <2>2 DEF InvAuth
<1>2. CASE UNCHANGED varsAuth
  <2>1. InvCod'
    BY <1>2, NadaCod DEF varsAuth, InvAuth
  <2>2. FormaAuth'
    BY <1>2 DEF varsAuth, InvAuth, FormaAuth, AuthTypeOK, PidenCodigo, En
  <2> QED
    BY <2>1, <2>2 DEF InvAuth
<1> QED
  BY <1>1, <1>2 DEF Next, EnSesion, vars

-----------------------------------------------------------------------------
\* A code is tried wrongly at most MaxIntentos times, changes one password at most and
\* none after a newer one was sent (auth_forgot, auth_reset over the item __reset__), with
\* any number of containers, users and requests at once, except where its record was
\* written from a stale reading or a call that wrote it failed.
THEOREM CodesBounded == Spec => []CodigoAcotado
<1>1. Init => InvAuth
  BY AuthInicio DEF Init
<1>2. InvAuth /\ [Next]_vars => InvAuth'
  BY AuthPaso
<1>3. InvAuth => CodigoAcotado
  BY DEF InvAuth, InvCod
<1> QED
  BY <1>1, <1>2, <1>3, PTL DEF Spec

-----------------------------------------------------------------------------
(* The configuration and the account: types.                               *)

Libres == {"no", "poll", "contactos", "cuenta"}
DeTelegram == {"listar", "set_contacts", "estado", "previo", "put_status"}
Procesos == [en : DeTelegram, session : Logins \cup {SinSesion}, connected : {"si", "no"},
             me : CuentasSin]
PollerBien(r) == r.en \in Libres \/ r \in Procesos
PedidoBien(r) ==
  \/ r \in Procesos
  \/ r.en \in {"no", "cuenta", "clear_login_temp"}
  \/ r.en = "set" /\ Cabe(r.cambios)
  \/ r.en \in {"set_login_temp", "update_login_session"} /\ r.session \in Logins

FormaSesion ==
  /\ SesionTypeOK
  /\ PollerBien(poller)
  /\ pedido = [s \in Sesiones |-> pedido[s]] /\ \A s \in Sesiones : PedidoBien(pedido[s])

\* What a request carries at the point where it is.
LEMMA PedidoDe ==
  ASSUME NEW r, PedidoBien(r)
  PROVE  /\ r.en = "set" => Cabe(r.cambios)
         /\ r.en \in {"set_login_temp", "update_login_session"} => r.session \in Logins
         /\ r.en \in DeTelegram => r \in Procesos
<1>1. r \in Procesos => r.en \in DeTelegram
  BY DEF Procesos
<1> QED
  BY <1>1 DEF PedidoBien, DeTelegram

\* Every login has its account.
LEMMA LosLogins ==
  /\ \A n \in Logins : n # SinSesion /\ Cuentas[n] \in CuentasSin
  /\ Ninguna \in CuentasSin /\ SinSesion = 0
  /\ \A c \in CasosSesion : c \in CupoSesion
BY PanelSessionAssumption DEF SinSesion, CuentasSin

\* What fits leaves a configuration.
LEMMA AplicadosTipo ==
  ASSUME cfg \in Config, NEW cambios, Cabe(cambios)
  PROVE  Aplicados(cambios) \in Config
<1>1. PICK c \in Config : \A k \in DOMAIN cambios \cap Editables : cambios[k] = c[k]
  BY DEF Cabe
<1>0. PICK f : f = Aplicados(cambios)
  OBVIOUS
<1>2. f = [k \in Editables |-> IF k \in DOMAIN cambios THEN c[k] ELSE cfg[k]]
  BY <1>0, <1>1 DEF Aplicados
<1>3. f.capture_enabled \in BOOLEAN /\ f.sending_enabled \in BOOLEAN
      /\ f.whatsapp_enabled \in BOOLEAN
  BY <1>2 DEF Config, Editables
<1>4. f.auto_telegram_list \in {"", "lista"} /\ f.auto_whatsapp_list \in {"", "lista"}
  BY <1>2 DEF Config, Editables
<1>5. f.send_mode \in {"bot", "userbot"} /\ f.telethon_session \in Logins \cup {SinSesion}
  BY <1>2 DEF Config, Editables
<1>6. f = [k \in Editables |-> f[k]]
  BY <1>2
<1>7. f \in Config
  BY <1>3, <1>4, <1>5, <1>6 DEF Config, Editables
<1> QED
  BY <1>0, <1>7

\* What the panel drops of a body leaves values a configuration may have.
LEMMA SaneadoCabe ==
  ASSUME NEW cambios, Cabe(cambios)
  PROVE  Cabe(_sanea_config(cambios))
BY DEF Cabe, _sanea_config

\* So are those a login that ends well writes,
LEMMA ConectaCabe ==
  ASSUME NEW n \in Logins
  PROVE  Cabe(Conecta(n).cambios)
<1> DEFINE c == [_defaults EXCEPT !.telethon_session = n, !.send_mode = "userbot"]
<1>1. c \in Config /\ c.telethon_session = n /\ c.send_mode = "userbot"
  BY DEF Config, _defaults
<1> HIDE DEF c
<1> QED
  BY <1>1 DEF Conecta, Cabe

\* and the one a logout writes.
LEMMA SalirCabe == Cabe([k \in {"telethon_session"} |-> SinSesion])
<1> DEFINE c == [_defaults EXCEPT !.telethon_session = SinSesion]
<1>1. c \in Config /\ c.telethon_session = SinSesion
  BY DEF Config, _defaults
<1> HIDE DEF c
<1> QED
  BY <1>1 DEF Cabe

\* What is spent leaves bounds.
LEMMA MargenBaja ==
  ASSUME NEW m \in CupoSesion
  PROVE  /\ m.fallos > 0 => [m EXCEPT !.fallos = m.fallos - 1] \in CupoSesion
         /\ \A que \in {"logins", "peticiones", "cambios", "bajas"} :
              m[que] > 0 => [m EXCEPT ![que] = m[que] - 1] \in CupoSesion
<1>1. m.fallos > 0 => [m EXCEPT !.fallos = m.fallos - 1] \in CupoSesion
  BY DEF CupoSesion
<1>2. m.logins > 0 => [m EXCEPT !.logins = m.logins - 1] \in CupoSesion
  BY DEF CupoSesion
<1>3. m.peticiones > 0 => [m EXCEPT !.peticiones = m.peticiones - 1] \in CupoSesion
  BY DEF CupoSesion
<1>4. m.cambios > 0 => [m EXCEPT !.cambios = m.cambios - 1] \in CupoSesion
  BY DEF CupoSesion
<1>5. m.bajas > 0 => [m EXCEPT !.bajas = m.bajas - 1] \in CupoSesion
  BY DEF CupoSesion
<1> QED
  BY <1>1, <1>2, <1>3, <1>4, <1>5

\* Each step spends at most its own.
LEMMA MargenTipo ==
  ASSUME margen \in CupoSesion,
         BienS \/ FallaS \/ \E que \in {"logins", "peticiones", "cambios", "bajas"} : Gasta(que)
  PROVE  margen' \in CupoSesion
BY MargenBaja DEF BienS, FallaS, Gasta

\* The session in use is that of a login, or none.
LEMMA UsadaTipo ==
  ASSUME SesionTypeOK
  PROVE  Usada(cfg.telethon_session) \in Logins \cup {SinSesion}
<1>1. cfg.telethon_session \in Logins \cup {SinSesion} /\ entorno \in Logins \cup {SinSesion}
  BY PanelSessionAssumption DEF SesionTypeOK, Config
<1> QED
  BY <1>1 DEF Usada

\* What Telegram answers, and what is kept of it.
LEMMA ProcesosQuedan ==
  ASSUME SesionTypeOK, NEW r \in Procesos
  PROVE  /\ estado(r) \in Procesos /\ LeePrevio(r) \in Procesos
         /\ Autorizada(r.session) => listar(r) \in Procesos
         /\ \A paso \in DeTelegram : Proceso(paso) \in Procesos
<1>1. /\ r.session \in Logins \cup {SinSesion} /\ r.me \in CuentasSin
      /\ cfg.telethon_session \in Logins \cup {SinSesion} /\ tg_status.me \in CuentasSin
  BY DEF Procesos, SesionTypeOK, Config
<1>2. Autorizada(r.session) => Cuentas[r.session] \in CuentasSin
  BY <1>1, LosLogins DEF Autorizada
<1>3. estado(r) \in Procesos
  <2>1. ASSUME NEW x \in {"si", "no"}, NEW y \in CuentasSin
        PROVE  [r EXCEPT !.en = "previo", !.connected = x, !.me = y] \in Procesos
    BY DEF Procesos, DeTelegram
  <2> DEFINE x == IF Autorizada(r.session) THEN "si" ELSE "no"
             y == IF Autorizada(r.session) THEN Cuentas[r.session] ELSE Ninguna
  <2>2. x \in {"si", "no"} /\ y \in CuentasSin
    BY <1>2, LosLogins
  <2>3. estado(r) = [r EXCEPT !.en = "previo", !.connected = x, !.me = y]
    BY DEF estado
  <2> HIDE DEF x, y
  <2> QED
    BY <2>1, <2>2, <2>3
<1>4. LeePrevio(r) \in Procesos
  <2>1. ASSUME NEW y \in CuentasSin
        PROVE  [r EXCEPT !.en = "put_status", !.me = y] \in Procesos
    BY DEF Procesos, DeTelegram
  <2> DEFINE y == IF r.me = Ninguna THEN tg_status.me ELSE r.me
  <2>2. y \in CuentasSin
    BY <1>1
  <2>3. LeePrevio(r) = [r EXCEPT !.en = "put_status", !.me = y]
    BY DEF LeePrevio
  <2> HIDE DEF y
  <2> QED
    BY <2>1, <2>2, <2>3
<1>5. Autorizada(r.session) => listar(r) \in Procesos
  BY <1>2 DEF listar, Procesos, DeTelegram
<1>6. \A paso \in DeTelegram : Proceso(paso) \in Procesos
  BY <1>1, LosLogins, UsadaTipo DEF Proceso, Procesos
<1> QED
  BY <1>3, <1>4, <1>5, <1>6

\* What is kept of an answer has its types: the status and the contacts.
LEMMA EstadoGuardado ==
  ASSUME SesionTypeOK, NEW r, r.en = "put_status" => r \in Procesos,
         \/ UNCHANGED tg_status
         \/ /\ r.en = "put_status"
            /\ tg_status' = [connected |-> r.connected, me |-> r.me, vigente |-> TRUE]
  PROVE  tg_status' \in [connected : {"nunca", "si", "no"}, me : CuentasSin, vigente : BOOLEAN]
<1>1. CASE UNCHANGED tg_status
  BY <1>1 DEF SesionTypeOK
<1>2. CASE /\ r.en = "put_status"
           /\ tg_status' = [connected |-> r.connected, me |-> r.me, vigente |-> TRUE]
  <2>1. r.connected \in {"nunca", "si", "no"} /\ r.me \in CuentasSin
    BY <1>2 DEF Procesos
  <2> QED
    BY <1>2, <2>1
<1> QED
  BY <1>1, <1>2

\* And the contacts.
LEMMA ContactosGuardados ==
  ASSUME SesionTypeOK, NEW r, r.en = "set_contacts" => r \in Procesos,
         \/ UNCHANGED contactos
         \/ r.en = "set_contacts" /\ contactos' = [de |-> r.me, vigente |-> TRUE]
  PROVE  contactos' \in [de : CuentasSin, vigente : BOOLEAN]
<1>1. CASE UNCHANGED contactos
  BY <1>1 DEF SesionTypeOK
<1>2. CASE r.en = "set_contacts" /\ contactos' = [de |-> r.me, vigente |-> TRUE]
  <2>1. r.me \in CuentasSin
    BY <1>2 DEF Procesos
  <2> QED
    BY <1>2, <2>1
<1> QED
  BY <1>1, <1>2

\* The store starts with its defaults, and nobody logged in.
LEMMA SesionInicio == InitSesion => FormaSesion
<1> SUFFICES ASSUME InitSesion PROVE FormaSesion
  OBVIOUS
<1>1. cfg \in Config
  BY PanelSessionAssumption DEF InitSesion, _defaults, Config
<1>2. margen \in CupoSesion
  BY LosLogins DEF InitSesion
<1>3. SesionTypeOK
  BY <1>1, <1>2, LosLogins DEF InitSesion, SesionTypeOK, SinLogin
<1>4. PollerBien(poller)
  BY DEF InitSesion, PollerBien, Libres
<1>5. pedido = [s \in Sesiones |-> pedido[s]] /\ \A s \in Sesiones : PedidoBien(pedido[s])
  BY DEF InitSesion, PedidoBien, SinPedidoS
<1> QED
  BY <1>3, <1>4, <1>5 DEF FormaSesion

\* A run of the poller.
LEMMA PollerForma ==
  ASSUME FormaSesion, Poller, UNCHANGED entorno
  PROVE  FormaSesion'
<1>1. UNCHANGED <<cfg, login, telegram, pedido>>
  BY DEF Poller
<1>2. SesionTypeOK
  BY DEF FormaSesion
<1>3. poller.en \in DeTelegram => poller \in Procesos
  BY DEF FormaSesion, PollerBien, Libres, DeTelegram, Procesos
<1>4. \A r \in Procesos : r.en \in DeTelegram
  BY DEF Procesos
<1>5. margen' \in CupoSesion
  <2>1. BienS \/ FallaS
    BY DEF Poller, lambda_handler, _refresh_contacts, _refresh_tg_status, Llama, set_contacts,
           set_tg_status
  <2> QED
    BY <1>2, <2>1, MargenTipo DEF SesionTypeOK
<1>6. PollerBien(poller')
  <2>1. CASE lambda_handler
    BY <2>1 DEF lambda_handler, Va, TrasLaCaptura, PollerBien, Libres
  <2>2. CASE _refresh_contacts
    <3>1. Proceso("listar") \in Procesos
      BY <1>2, LosLogins, UsadaTipo DEF Proceso, Procesos, DeTelegram
    <3>2. poller.en = "listar" /\ Autorizada(poller.session) => listar(poller) \in Procesos
      BY <1>2, <1>3, ProcesosQuedan DEF DeTelegram
    <3>3. \/ poller' = Proceso("listar") \/ poller' = [en |-> "cuenta"]
          \/ poller.en = "listar" /\ Autorizada(poller.session) /\ poller' = listar(poller)
      BY <2>2 DEF _refresh_contacts, Va, Llama
    <3> QED
      BY <3>1, <3>2, <3>3 DEF PollerBien, Libres
  <2>3. CASE _refresh_tg_status
    <3>1. Proceso("estado") \in Procesos
      BY <1>2, LosLogins, UsadaTipo DEF Proceso, Procesos, DeTelegram
    <3>2. poller.en \in {"estado", "previo"} =>
            estado(poller) \in Procesos /\ LeePrevio(poller) \in Procesos
      BY <1>2, <1>3, ProcesosQuedan DEF DeTelegram
    <3>3. \/ poller' = Proceso("estado") \/ poller' = [en |-> "no"]
          \/ poller.en = "estado" /\ poller' = estado(poller)
          \/ poller.en = "previo" /\ poller' = LeePrevio(poller)
      BY <2>3 DEF _refresh_tg_status, Va
    <3> QED
      BY <3>1, <3>2, <3>3 DEF PollerBien, Libres
  <2> QED
    BY <2>1, <2>2, <2>3 DEF Poller
<1>7. tg_status' \in [connected : {"nunca", "si", "no"}, me : CuentasSin, vigente : BOOLEAN]
      /\ contactos' \in [de : CuentasSin, vigente : BOOLEAN]
  <2>1. \/ UNCHANGED tg_status
        \/ /\ poller.en = "put_status"
           /\ tg_status' = [connected |-> poller.connected, me |-> poller.me, vigente |-> TRUE]
    BY DEF Poller, lambda_handler, _refresh_contacts, _refresh_tg_status, set_tg_status
  <2>2. \/ UNCHANGED contactos
        \/ poller.en = "set_contacts" /\ contactos' = [de |-> poller.me, vigente |-> TRUE]
    BY DEF Poller, lambda_handler, _refresh_contacts, _refresh_tg_status, set_contacts
  <2>3. poller.en \in {"put_status", "set_contacts"} => poller \in Procesos
    BY <1>3 DEF DeTelegram
  <2>4. tg_status' \in [connected : {"nunca", "si", "no"}, me : CuentasSin, vigente : BOOLEAN]
    BY <1>2, <2>1, <2>3, EstadoGuardado
  <2>5. contactos' \in [de : CuentasSin, vigente : BOOLEAN]
    BY <1>2, <2>2, <2>3, ContactosGuardados
  <2> QED
    BY <2>4, <2>5
<1>8. poller'.en \in Libres \cup DeTelegram
  BY <1>4, <1>6 DEF PollerBien
<1>9. SesionTypeOK'
  BY <1>1, <1>2, <1>5, <1>7, <1>8 DEF SesionTypeOK, Libres, DeTelegram
<1> QED
  BY <1>1, <1>6, <1>9 DEF FormaSesion, PedidoBien

\* The request of the panel goes on to a point where it is well formed.
LEMMA SiguePedido ==
  ASSUME FormaSesion, NEW s \in Sesiones, NEW r, PedidoBien(r), Sigue(s, r), SesionTypeOK',
         UNCHANGED poller
  PROVE  FormaSesion'
<1>1. pedido' = [x \in Sesiones |-> pedido'[x]]
      /\ \A x \in Sesiones : pedido'[x] = IF x = s THEN r ELSE pedido[x]
  BY DEF FormaSesion, Sigue
<1>2. \A x \in Sesiones : PedidoBien(pedido'[x])
  BY <1>1 DEF FormaSesion
<1> QED
  BY <1>1, <1>2 DEF FormaSesion, PollerBien

\* No request is well formed.
LEMMA NadieSesion == PedidoBien(SinPedidoS)
BY DEF PedidoBien, SinPedidoS

\* The configuration: read, changed over and written back whole.
LEMMA GuardaForma ==
  ASSUME FormaSesion, NEW s \in Sesiones, GuardaConfig(s), UNCHANGED <<poller, entorno>>,
         UNCHANGED <<login, tg_status, contactos, telegram>>
  PROVE  FormaSesion'
<1>1. SesionTypeOK /\ PedidoBien(pedido[s])
  BY DEF FormaSesion
<1>2. margen' \in CupoSesion
  <2>1. BienS \/ FallaS \/ Gasta("cambios")
    BY DEF GuardaConfig
  <2> QED
    BY <1>1, <2>1, MargenTipo DEF SesionTypeOK
<1>3. cfg' \in Config
  <2>1. \/ UNCHANGED cfg
        \/ Esta(s, "set") /\ cfg' = Aplicados(pedido[s].cambios)
    BY DEF GuardaConfig
  <2>2. Esta(s, "set") => Cabe(pedido[s].cambios)
    BY <1>1, PedidoDe DEF Esta
  <2> QED
    BY <1>1, <2>1, <2>2, AplicadosTipo DEF SesionTypeOK
<1>4. SesionTypeOK'
  BY <1>1, <1>2, <1>3 DEF SesionTypeOK
<1>5. CASE UNCHANGED pedido
  BY <1>4, <1>5 DEF FormaSesion, PollerBien, PedidoBien
<1>6. CASE ~UNCHANGED pedido
  <2>1. PICK r : Sigue(s, r) /\ PedidoBien(r)
    <3>1. CASE Atiende(s) /\ ~Esta(s, "set")
      <4>1. PICK cuerpo \in Cambios :
              Sigue(s, [en |-> "set", cambios |-> _sanea_config(cuerpo), borra |-> FALSE])
        BY <1>6, <3>1 DEF GuardaConfig
      <4>2. Cabe(_sanea_config(cuerpo))
        BY CambiosAssumption, SaneadoCabe
      <4> DEFINE r == [en |-> "set", cambios |-> _sanea_config(cuerpo), borra |-> FALSE]
      <4>3. PedidoBien(r)
        BY <4>2 DEF PedidoBien
      <4>4. Sigue(s, r)
        BY <4>1
      <4> HIDE DEF r
      <4> QED
        BY <4>3, <4>4
    <3>2. CASE Esta(s, "set")
      <4>1. Sigue(s, [en |-> "clear_login_temp"]) \/ Sigue(s, SinPedidoS)
        BY <1>6, <3>2 DEF GuardaConfig, Responde, Atiende, Esta, SinPedidoS
      <4> DEFINE r == [en |-> "clear_login_temp"]
      <4>2. PedidoBien(r)
        BY DEF PedidoBien
      <4>3. Sigue(s, r) \/ Sigue(s, SinPedidoS)
        BY <4>1
      <4> HIDE DEF r
      <4> QED
        BY <4>2, <4>3, NadieSesion
    <3> QED
      BY <1>6, <3>1, <3>2 DEF GuardaConfig
  <2> QED
    BY <1>4, <2>1, SiguePedido
<1> QED
  BY <1>5, <1>6

\* The first half of a login.
LEMMA CodigoForma ==
  ASSUME FormaSesion, NEW s \in Sesiones, enviar_codigo(s), UNCHANGED <<poller, entorno>>,
         UNCHANGED <<cfg, tg_status, contactos>>
  PROVE  FormaSesion'
<1>1. SesionTypeOK /\ PedidoBien(pedido[s])
  BY DEF FormaSesion
<1>2. margen' \in CupoSesion
  <2>1. BienS \/ FallaS \/ Gasta("logins")
    BY DEF enviar_codigo
  <2> QED
    BY <1>1, <2>1, MargenTipo DEF SesionTypeOK
<1>3. telegram' \in [Logins -> {"nuevo", "codigo", "2fa", "valida", "revocada"}]
  BY <1>1 DEF enviar_codigo, SesionTypeOK
<1>4. login' \in [session : Logins \cup {SinSesion}, phone_code_hash : Logins \cup {SinSesion}]
  <2>1. Esta(s, "set_login_temp") => pedido[s].session \in Logins
    BY <1>1, PedidoDe DEF Esta
  <2> QED
    BY <1>1, <2>1 DEF enviar_codigo, SesionTypeOK
<1>5. SesionTypeOK'
  BY <1>1, <1>2, <1>3, <1>4 DEF SesionTypeOK
<1>6. PICK r : Sigue(s, r) /\ PedidoBien(r)
  <2>1. CASE Sigue(s, SinPedidoS)
    BY <2>1, NadieSesion
  <2>2. ASSUME NEW n \in Logins, Sigue(s, [en |-> "set_login_temp", session |-> n])
        PROVE  \E r : Sigue(s, r) /\ PedidoBien(r)
    <3> DEFINE r == [en |-> "set_login_temp", session |-> n]
    <3>1. PedidoBien(r) /\ Sigue(s, r)
      BY <2>2 DEF PedidoBien
    <3> HIDE DEF r
    <3> QED
      BY <3>1
  <2> QED
    BY <2>1, <2>2 DEF enviar_codigo, Responde
<1> QED
  BY <1>5, <1>6, SiguePedido

\* The second half, which goes on with what the first one left, if it is there.
LEMMA SignInForma ==
  ASSUME FormaSesion, NEW s \in Sesiones, sign_in(s), UNCHANGED <<poller, entorno>>,
         UNCHANGED <<cfg, tg_status, contactos>>
  PROVE  FormaSesion'
<1>1. SesionTypeOK /\ PedidoBien(pedido[s])
  BY DEF FormaSesion
<1>2. margen' \in CupoSesion
  <2>1. BienS \/ FallaS \/ Gasta("peticiones")
    BY DEF sign_in
  <2> QED
    BY <1>1, <2>1, MargenTipo DEF SesionTypeOK
<1>3. CASE /\ Atiende(s) /\ login.session # SinSesion /\ UNCHANGED login
           /\ \E clave \in BOOLEAN :
                LET res == confirmar(login, clave)
                    n == login.session
                IN  /\ telegram' = [telegram EXCEPT ![n] = CASE res = "ok" -> "valida"
                                                           [] res = "needs_password" -> "2fa"
                                                           [] OTHER -> telegram[n]]
                    /\ CASE res = "ok" -> Sigue(s, Conecta(n))
                         [] res = "needs_password" ->
                              Sigue(s, [en |-> "update_login_session", session |-> n])
                         [] OTHER -> UNCHANGED pedido
  <2> DEFINE n == login.session
  <2>1. n \in Logins
    BY <1>1, <1>3 DEF SesionTypeOK
  <2>2. telegram' \in [Logins -> {"nuevo", "codigo", "2fa", "valida", "revocada"}]
    BY <1>1, <1>3, <2>1 DEF SesionTypeOK
  <2>3. SesionTypeOK'
    BY <1>1, <1>2, <1>3, <2>2 DEF SesionTypeOK
  <2>4. CASE UNCHANGED pedido
    BY <2>3, <2>4 DEF FormaSesion, PollerBien, PedidoBien
  <2>5. CASE ~UNCHANGED pedido
    <3>1. Sigue(s, Conecta(n)) \/ Sigue(s, [en |-> "update_login_session", session |-> n])
      BY <1>3, <2>5
    <3>2. PedidoBien(Conecta(n))
      BY <2>1, ConectaCabe DEF PedidoBien, Conecta
    <3>3. PedidoBien([en |-> "update_login_session", session |-> n])
      BY <2>1 DEF PedidoBien
    <3> QED
      BY <2>3, <3>1, <3>2, <3>3, SiguePedido
  <2> QED
    BY <2>4, <2>5
<1>4. CASE /\ Esta(s, "update_login_session") \/ Esta(s, "clear_login_temp")
           /\ Responde(s) /\ UNCHANGED telegram
           /\ \/ UNCHANGED login
              \/ login' = SinLogin
              \/ /\ Esta(s, "update_login_session")
                 /\ login' = [login EXCEPT !.session = pedido[s].session]
  <2>1. Esta(s, "update_login_session") => pedido[s].session \in Logins
    BY <1>1, PedidoDe DEF Esta
  <2>2. login' \in [session : Logins \cup {SinSesion}, phone_code_hash : Logins \cup {SinSesion}]
    BY <1>1, <1>4, <2>1 DEF SesionTypeOK, SinLogin
  <2>3. SesionTypeOK'
    BY <1>1, <1>2, <1>4, <2>2 DEF SesionTypeOK
  <2> QED
    BY <1>4, <2>3, SiguePedido, NadieSesion DEF Responde
<1> QED
  BY <1>3, <1>4 DEF sign_in

\* A logout.
LEMMA LogoutForma ==
  ASSUME FormaSesion, NEW s \in Sesiones, logout(s), UNCHANGED <<poller, entorno>>,
         UNCHANGED <<cfg, login, tg_status, contactos, telegram>>
  PROVE  FormaSesion'
<1>1. margen' \in CupoSesion
  BY MargenTipo DEF FormaSesion, SesionTypeOK, logout
<1>2. SesionTypeOK'
  BY <1>1 DEF FormaSesion, SesionTypeOK
<1> DEFINE c == [k \in {"telethon_session"} |-> SinSesion]
           r == [en |-> "set", borra |-> TRUE, cambios |-> c]
<1>3. PedidoBien(r)
  BY SalirCabe DEF PedidoBien
<1>4. Sigue(s, r)
  BY DEF logout
<1> HIDE DEF r
<1> QED
  BY <1>2, <1>3, <1>4, SiguePedido

\* The status and the contacts, asked for by the panel.
LEMMA CuentaForma ==
  ASSUME FormaSesion, NEW s \in Sesiones, UNCHANGED <<entorno, poller, cfg, login, telegram>>,
         \/ account(s) /\ UNCHANGED contactos
         \/ refresh_contacts(s) /\ UNCHANGED tg_status
  PROVE  FormaSesion'
<1>1. SesionTypeOK /\ PedidoBien(pedido[s])
  BY DEF FormaSesion
<1>2. margen' \in CupoSesion
  <2>1. BienS \/ FallaS \/ Gasta("peticiones")
    BY DEF account, refresh_contacts, Llama, set_tg_status, set_contacts
  <2> QED
    BY <1>1, <2>1, MargenTipo DEF SesionTypeOK
<1> DEFINE r == pedido[s]
<1>3. r.en \in DeTelegram => r \in Procesos
  BY <1>1, PedidoDe
<1>4. PICK t : Sigue(s, t) /\ PedidoBien(t)
  <2>1. /\ Proceso("estado") \in Procesos /\ Proceso("listar") \in Procesos
        /\ Proceso("previo") \in Procesos
    BY <1>1, LosLogins, UsadaTipo DEF Proceso, Procesos, DeTelegram
  <2>2. r.en \in {"estado", "previo"} => estado(r) \in Procesos /\ LeePrevio(r) \in Procesos
    BY <1>1, <1>3, ProcesosQuedan DEF DeTelegram
  <2>3. r.en = "listar" /\ Autorizada(r.session) => listar(r) \in Procesos
    BY <1>1, <1>3, ProcesosQuedan DEF DeTelegram
  <2>4. \/ Sigue(s, SinPedidoS) \/ Sigue(s, [en |-> "cuenta"])
        \/ Sigue(s, Proceso("estado")) \/ Sigue(s, Proceso("listar")) \/ Sigue(s, Proceso("previo"))
        \/ r.en = "estado" /\ Sigue(s, estado(r))
        \/ r.en = "previo" /\ Sigue(s, LeePrevio(r))
        \/ r.en = "listar" /\ Autorizada(r.session) /\ Sigue(s, listar(r))
    BY DEF account, refresh_contacts, Llama, Responde, Esta
  <2>5. PedidoBien([en |-> "cuenta"]) /\ \A t \in Procesos : PedidoBien(t)
    BY DEF PedidoBien
  <2> QED
    BY <2>1, <2>2, <2>3, <2>4, <2>5, NadieSesion
<1>5. \/ UNCHANGED tg_status
      \/ /\ r.en = "put_status"
         /\ tg_status' = [connected |-> r.connected, me |-> r.me, vigente |-> TRUE]
  BY DEF account, set_tg_status, Esta
<1>6. \/ UNCHANGED contactos
      \/ r.en = "set_contacts" /\ contactos' = [de |-> r.me, vigente |-> TRUE]
  BY DEF refresh_contacts, set_contacts, Esta
<1>7. r.en \in {"put_status", "set_contacts"} => r \in Procesos
  BY <1>3 DEF DeTelegram
<1> HIDE DEF r
<1>8. tg_status' \in [connected : {"nunca", "si", "no"}, me : CuentasSin, vigente : BOOLEAN]
  BY <1>1, <1>5, <1>7, EstadoGuardado
<1>9. contactos' \in [de : CuentasSin, vigente : BOOLEAN]
  BY <1>1, <1>6, <1>7, ContactosGuardados
<1>10. SesionTypeOK'
  BY <1>1, <1>2, <1>8, <1>9 DEF SesionTypeOK
<1> QED
  BY <1>4, <1>10, SiguePedido

\* No request, run of the poller or revocation breaks the invariant.
LEMMA SesionPaso ==
  ASSUME FormaSesion, [Next]_vars
  PROVE  FormaSesion'
<1>0. UNCHANGED entorno
  BY DEF Next, EnSesion, NextSesion, vars, varsSesion
<1>1. CASE Poller
  BY <1>0, <1>1, PollerForma
<1>2. CASE PanelSesion
  BY <1>0, <1>2, GuardaForma, CodigoForma, SignInForma, LogoutForma, CuentaForma DEF PanelSesion
<1>3. CASE Revoca
  <2>1. margen' \in CupoSesion
    BY <1>3, MargenTipo DEF FormaSesion, SesionTypeOK, Revoca
  <2>2. SesionTypeOK'
    BY <1>0, <1>3, <2>1 DEF FormaSesion, SesionTypeOK, Revoca
  <2> QED
    BY <1>3, <2>2 DEF FormaSesion, Revoca, PollerBien, PedidoBien
<1>4. CASE CaducaStatus
  BY <1>0, <1>4 DEF CaducaStatus, FormaSesion, SesionTypeOK, PollerBien, PedidoBien
<1>5. CASE CaducanContactos
  BY <1>0, <1>5 DEF CaducanContactos, FormaSesion, SesionTypeOK, PollerBien, PedidoBien
<1>6. CASE UNCHANGED varsSesion
  BY <1>6 DEF varsSesion, FormaSesion, SesionTypeOK, PollerBien, PedidoBien
<1> QED
  BY <1>1, <1>2, <1>3, <1>4, <1>5, <1>6 DEF Next, EnSesion, NextSesion, vars

-----------------------------------------------------------------------------
(* The types of the three fronts.                                          *)

\* Only ids of sendings are sent directly, or met a failure or a crossing.
LEMMA HistoriaJobs ==
  ASSUME InvJobs, causas \subseteq Bids, directos \subseteq Bids, [Next]_vars
  PROVE  causas' \subseteq Bids /\ directos' \subseteq Bids
<1>1. cupo.ids \subseteq Bids
  BY DEF InvJobs, FormaJobs, CupoJobs
<1>2. borrado # SinPedido => borrado.cola \subseteq Bids
  BY DEF InvJobs, FormaJobs, Pedidos
<1>3. envio # SinPedido => envio.bid \in Bids
  BY DEF InvJobs, FormaJobs
<1>4. borrado # SinPedido /\ borrado.fase = "job" => borrado.bid \in Bids
  BY DEF InvJobs, BorraParados
<1>5. CASE _registrar
  BY <1>1, <1>5 DEF _registrar, Cruza
<1>6. CASE Captura
  BY <1>1, <1>6 DEF Captura, Cruza
<1>7. CASE _crear_plan
  BY <1>3, <1>7 DEF _crear_plan
<1>8. CASE Despacha \/ cancelar \/ incr_telegram \/ set_whatsapp_total \/ incr_whatsapp
  BY <1>8 DEF Despacha, cancelar, incr_telegram, set_whatsapp_total, incr_whatsapp
<1>9. CASE activos
  BY <1>9 DEF activos
<1>10. CASE borrar_terminados \/ PideBorrar \/ PasaReloj
  BY <1>10 DEF borrar_terminados, PideBorrar, PasaReloj
<1>11. CASE BorraTerminado
  BY <1>2, <1>11 DEF BorraTerminado
<1>12. CASE _borrar_difusion
  BY <1>2, <1>4, <1>12 DEF _borrar_difusion, Desencola
<1>13. CASE UNCHANGED varsJobs
  BY <1>13 DEF varsJobs
<1> QED
  BY <1>5, <1>6, <1>7, <1>8, <1>9, <1>10, <1>11, <1>12, <1>13
  DEF Next, NextJobs, EnSesion, vars

InvPanel ==
  /\ InvJobs /\ causas \subseteq Bids /\ directos \subseteq Bids
  /\ InvAuth /\ FormaSesion /\ frente \in Frentes

\* The three invariants give the types.
LEMMA InvPanelTipos == InvPanel => TypeOK
<1> SUFFICES ASSUME InvPanel PROVE TypeOK
  OBVIOUS
<1>1. JobsTypeOK
  BY DEF InvPanel, InvJobs, FormaJobs, JobsTypeOK, Planes, Pedidos
<1>2. AuthTypeOK /\ SesionTypeOK
  BY DEF InvPanel, InvAuth, FormaAuth, FormaSesion
<1> QED
  BY <1>1, <1>2 DEF InvPanel, TypeOK

\* Every item, request and counter of the panel keeps its type, whatever the requests of
\* its three fronts and the runs of the poller: a record written back from what a request
\* carried between its calls (users, codes, configuration, login, status, contacts, job)
\* has the fields of that item and values they may have, and no bound is overrun.
THEOREM PanelTypes == Spec => []TypeOK
<1>1. Init => InvPanel
  BY JobsInicio, AuthInicio, SesionInicio DEF Init, InvPanel, InitJobs
<1>2. InvPanel /\ [Next]_vars => InvPanel'
  <2> SUFFICES ASSUME InvPanel, [Next]_vars PROVE InvPanel'
    OBVIOUS
  <2>1. InvJobs' /\ causas' \subseteq Bids /\ directos' \subseteq Bids
    BY JobsPaso, HistoriaJobs DEF InvPanel
  <2>2. InvAuth' /\ FormaSesion'
    BY AuthPaso, SesionPaso DEF InvPanel
  <2>3. frente' = frente
    BY DEF Next, EnSesion, vars
  <2> QED
    BY <2>1, <2>2, <2>3 DEF InvPanel
<1>3. InvPanel => TypeOK
  BY InvPanelTipos
<1> QED
  BY <1>1, <1>2, <1>3, PTL DEF Spec
=============================================================================
