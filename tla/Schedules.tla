------------------------------- MODULE Schedules -------------------------------
(***************************************************************************)
(* The scheduled messages: DynamoDbScheduleStore, the ticks of the         *)
(* dispatcher that materialize what is due (MaterializeSchedules), each    *)
(* call of DynamoDB a step of its own, and the panel that creates, edits,  *)
(* toggles and deletes, reading the item before it writes. No write of     *)
(* the store has a condition, and ticks may overlap.                       *)
(***************************************************************************)
EXTENDS Calendario, Sequences

CONSTANTS
  Sids,          \* schedules, numbered as they are created; each at most once (uuid)
  Plantillas,    \* what the panel may ask for: [type, at, days, run_at]
  Zonas,         \* values of window_tz to start from
  Ticks,         \* invocations of the dispatcher
  Inicio, Fin,   \* first and last instant
  Casos          \* bounds, one of them: creations, failures (calls, answers, deaths),
                 \* changes from the panel after a creation, and ticks at once

Plantilla == [type : Tipos, at : Horas, days : SUBSET (0..(DiasSem - 1)), run_at : 0..Fin]
ASSUME SchedulesAssumption ==
  /\ Sids \subseteq Nat /\ IsFiniteSet(Sids) /\ Zonas \subseteq Int /\ Plantillas \subseteq Plantilla
  /\ Inicio \in Nat \ {0} /\ Fin \in Nat /\ Inicio <= Fin
  /\ Casos \subseteq [creaciones : Nat, fallos : Nat, cambios : Nat, aLaVez : Nat]

VARIABLES
  ahora,        \* the clock
  activos,      \* sending_enabled
  tz,           \* window_tz; it does not change
  items,        \* [sid -> item of the Schedules table, as _norm reads it]
  tick,         \* local state of each tick
  panel,        \* request of the panel between its read and its write
  enviado,      \* [sid -> instants it was sent for, each with how many times]
  calculado,    \* history: instant from which next_run was last worked out
  cruzados,     \* history: sids written from a reading no longer current
  perdidos,     \* history: sids with an occurrence let go by a failure or a stale pause
  tocados,      \* history: sids the panel is changing, or has disabled or deleted
  quedan        \* what is left of the bounds

vars == <<ahora, activos, tz, items, tick, panel, enviado, calculado, cruzados, perdidos,
          tocados, quedan>>
mundo == <<ahora, activos, tz>>
historia == <<calculado, cruzados, perdidos, tocados>>
-----------------------------------------------------------------------------
Instantes == Inicio..(Fin + (DiasSem + 1) * Dia)
\* There is no item: it was not created yet, or it was deleted.
Falta(est) ==
  [est |-> est, type |-> Once, at |-> SinHora, days |-> {}, next_run |-> SinRun,
   enabled |-> FALSE]
\* est "fantasma": recreated by a partial update after its deletion, without text or
\* channels.
Item == [est : {"nuevo", "si", "borrado", "fantasma"}, type : Tipos, at : Horas,
         days : SUBSET (0..(DiasSem - 1)), next_run : {SinRun} \cup Instantes,
         enabled : BOOLEAN]
Existe(s) == items[s].est \in {"si", "fantasma"}

Parado == [en |-> "no", pend |-> <<>>, activos |-> FALSE, ahora |-> 0]
SinPedido == <<>>

TypeOK ==
  /\ ahora \in Inicio..Fin /\ activos \in BOOLEAN /\ tz \in Zonas
  /\ items \in [Sids -> Item]
  /\ tick \in [Ticks -> [en : {"no", "config", "avanza", "envia"},
                         pend : Seq([sid : Sids, item : Item]), activos : BOOLEAN,
                         ahora : Nat]]
  /\ \A d \in Ticks : tick[d].en # "no" => tick[d].pend # <<>>
  /\ panel \in Seq([sid : Sids, leido : Item, desde : Nat, todo : BOOLEAN, campos : Item,
                    activa : SUBSET BOOLEAN])
  /\ Len(panel) <= 1
  /\ enviado \in [Sids -> [Instantes -> 0..2]]
  /\ calculado \in [Sids -> Nat]
  /\ cruzados \subseteq Sids /\ perdidos \subseteq Sids /\ tocados \subseteq Sids
  /\ quedan \in [creaciones : Nat, fallos : Nat, cambios : Nat, aLaVez : Nat]

Init ==
  /\ ahora = Inicio /\ activos \in BOOLEAN /\ tz \in Zonas
  /\ items = [s \in Sids |-> Falta("nuevo")]
  /\ tick = [d \in Ticks |-> Parado] /\ panel = SinPedido
  /\ enviado = [s \in Sids |-> [t \in Instantes |-> 0]]
  /\ calculado = [s \in Sids |-> 0]
  /\ cruzados = {} /\ perdidos = {} /\ tocados = {}
  /\ quedan \in Casos

Bien == UNCHANGED quedan
Falla == quedan.fallos > 0 /\ quedan' = [quedan EXCEPT !.fallos = @ - 1]
Cambia == quedan.cambios > 0 /\ quedan' = [quedan EXCEPT !.cambios = @ - 1]
-----------------------------------------------------------------------------
(* DynamoDbScheduleStore.                                                  *)

Mut_Vence(it, t) == it.enabled /\ 0 < it.next_run /\ it.next_run < t
Vence(it, t) == it.enabled /\ 0 < it.next_run /\ it.next_run <= t
PorHora(a, b) == \/ items[a].next_run < items[b].next_run
                 \/ items[a].next_run = items[b].next_run /\ a < b
\* What the scan finds due, sorted: there is just one such order.
EnOrden(S) == {o \in [1..Cardinality(S) -> S] :
                 \A i, j \in 1..Cardinality(S) : i < j => PorHora(o[i], o[j])}
vencidos(t) ==
  {[i \in DOMAIN o |-> [sid |-> o[i], item |-> items[o[i]]]] :
     o \in EnOrden({s \in Sids : Vence(items[s], t)})}

\* An update without condition: over no item it creates one with those fields only.
Actualizado(it) == [it EXCEPT !.est = IF it.est = "borrado" THEN "fantasma"
                                           ELSE it.est]
actualizar(s, leido, it, desde) ==
  /\ items' = [items EXCEPT ![s] = Actualizado(it)]
  /\ calculado' = [calculado EXCEPT ![s] = desde]
  /\ cruzados' = IF items[s] = leido THEN cruzados ELSE cruzados \cup {s}
-----------------------------------------------------------------------------
(* MaterializeSchedules, in a tick of the dispatcher.                      *)

Empieza(d) ==
  /\ tick[d].en = "no"
  /\ Cardinality({e \in Ticks : tick[e].en # "no"}) < quedan.aLaVez
  /\ \E pend \in vencidos(ahora) :
       /\ pend # <<>>
       /\ tick' = [tick EXCEPT ![d] = [en |-> "config", pend |-> pend, activos |-> FALSE,
                                       ahora |-> ahora]]
  /\ UNCHANGED <<mundo, items, panel, enviado, historia, quedan>>

\* The state of a tick that goes on to a point of its code.
Punto(en, pend, act, d) ==
  [en |-> en, pend |-> pend, activos |-> act, ahora |-> tick[d].ahora]
LeeConfig(d) ==
  /\ tick[d].en = "config"
  /\ \/ Bien /\ tick' = [tick EXCEPT ![d] = Punto("avanza", tick[d].pend, activos, d)]
     \/ Falla /\ tick' = [tick EXCEPT ![d] = Parado]
  /\ UNCHANGED <<mundo, items, panel, enviado, historia>>

EnMano(d) == Head(tick[d].pend)
Mut_Sigue(d) ==
  tick' = [tick EXCEPT ![d] = Punto("avanza", Tail(tick[d].pend), tick[d].activos, d)]
\* The next schedule of the run, or its end.
Sigue(d) ==
  tick' = [tick EXCEPT ![d] =
             IF Len(tick[d].pend) = 1 THEN Parado
             ELSE Punto("avanza", Tail(tick[d].pend), tick[d].activos, d)]

Mut_Avance(d) ==
  LET it == EnMano(d).item
      hoy == items[EnMano(d).sid]
      nxt == proximo_run(it.type, it.at, it.days, tz, tick[d].ahora)
  IN  IF nxt = SinRun THEN hoy ELSE [hoy EXCEPT !.next_run = nxt]
Mut_AvanceDeSuHora(d) ==
  LET it == EnMano(d).item
      hoy == items[EnMano(d).sid]
      nxt == proximo_run(it.type, it.at, it.days, tz, it.next_run)
  IN  IF it.type = Once \/ nxt = SinRun THEN [hoy EXCEPT !.enabled = FALSE]
                                        ELSE [hoy EXCEPT !.next_run = nxt]
\* _avanzar: the fields it writes over the item there is now.
Avance(d) ==
  LET it == EnMano(d).item
      hoy == items[EnMano(d).sid]
      nxt == proximo_run(it.type, it.at, it.days, tz, tick[d].ahora)
  IN  IF it.type = Once \/ nxt = SinRun THEN [hoy EXCEPT !.enabled = FALSE]
                                        ELSE [hoy EXCEPT !.next_run = nxt]

\* A2: advance before sending. While paused a "once" stays as it is, and the others
\* advance without being sent. A failed update (applied or not) sends nothing.
NoAvanza(d) == EnMano(d).item.type = Once /\ ~tick[d].activos
Avanza(d) ==
  LET s == EnMano(d).sid
  IN  /\ tick[d].en = "avanza"
      /\ \/ NoAvanza(d) /\ Bien /\ Sigue(d) /\ UNCHANGED <<items, calculado, cruzados, perdidos>>
         \/ /\ ~NoAvanza(d) /\ Bien
            /\ actualizar(s, EnMano(d).item, Avance(d), tick[d].ahora)
            /\ IF tick[d].activos
                 THEN /\ tick' = [tick EXCEPT ![d] = Punto("envia", tick[d].pend, TRUE, d)]
                      /\ UNCHANGED perdidos
                 ELSE /\ Sigue(d)
                      /\ perdidos' = IF activos THEN perdidos \cup {s} ELSE perdidos
         \/ /\ ~NoAvanza(d) /\ Falla /\ Sigue(d)
            /\ \/ actualizar(s, EnMano(d).item, Avance(d), tick[d].ahora)
                  /\ perdidos' = perdidos \cup {s}
               \/ UNCHANGED <<items, calculado, cruzados, perdidos>>
      /\ UNCHANGED <<mundo, panel, enviado, tocados>>

Suma(s, n) ==
  LET veces == [enviado[s] EXCEPT ![n] = IF @ = 2 THEN 2 ELSE @ + 1]
  IN  enviado' = [enviado EXCEPT ![s] = veces]
\* enviar_manual, of what the tick read: it raises when nothing is left to send (a
\* phantom has no channels), and may fail before or after the plan is there.
Envia(d) ==
  LET s == EnMano(d).sid
      n == EnMano(d).item.next_run
      vacio == EnMano(d).item.est = "fantasma"
  IN  /\ tick[d].en = "envia" /\ Sigue(d)
      /\ \/ ~vacio /\ Bien /\ Suma(s, n) /\ UNCHANGED perdidos
         \/ vacio /\ Bien /\ UNCHANGED <<enviado, perdidos>>
         \/ ~vacio /\ Falla /\ Suma(s, n) /\ UNCHANGED perdidos
         \/ ~vacio /\ Falla /\ perdidos' = perdidos \cup {s} /\ UNCHANGED enviado
      /\ UNCHANGED <<mundo, items, panel, calculado, cruzados, tocados>>

\* The invocation dies: what it had advanced and not sent is lost.
Muere(d) ==
  /\ tick[d].en # "no" /\ Falla
  /\ tick' = [tick EXCEPT ![d] = Parado]
  /\ perdidos' = IF tick[d].en = "envia" THEN perdidos \cup {EnMano(d).sid} ELSE perdidos
  /\ UNCHANGED <<mundo, items, panel, enviado, calculado, cruzados, tocados>>
-----------------------------------------------------------------------------
(* The panel: /api/schedules, /update, /toggle, /delete.                   *)

\* _campos_schedule: a "once" must lie ahead, a recurrent one have a next run.
Proximo(p) == IF p.type = Once THEN p.run_at
              ELSE proximo_run(p.type, p.at, p.days, tz, ahora)
Vale(p) == IF p.type = Once THEN p.run_at > ahora
           ELSE /\ p.at # SinHora
                /\ p.type = "weekly" => p.days # {}
                /\ Proximo(p) # SinRun
Campos(p, est, enabled) ==
  [est |-> est, type |-> p.type, at |-> IF p.type = Once THEN SinHora ELSE p.at,
   days |-> IF p.type = "weekly" THEN p.days ELSE {}, next_run |-> Proximo(p),
   enabled |-> enabled]

crear(s, p) ==
  /\ items[s].est = "nuevo" /\ \A r \in Sids : r < s => items[r].est # "nuevo"
  /\ Vale(p) /\ quedan.creaciones > 0
  /\ quedan' = [quedan EXCEPT !.creaciones = @ - 1]
  /\ items' = [items EXCEPT ![s] = Campos(p, "si", TRUE)]
  /\ calculado' = [calculado EXCEPT ![s] = ahora]
  /\ UNCHANGED <<mundo, tick, panel, enviado, cruzados, perdidos, tocados>>

\* What the body does not bring is inherited: the date of a "once" is its next_run.
Heredado(it) == [type |-> it.type, at |-> it.at, days |-> it.days, run_at |-> it.next_run]
\* The body may also bring `enabled`: `activa` holds its value, if it came. The fields are
\* worked out from what was read.
PideUpdate(s, p, activa) ==
  /\ panel = SinPedido /\ Existe(s) /\ Vale(p) /\ Cambia
  /\ panel' = <<[sid |-> s, leido |-> items[s], desde |-> ahora, todo |-> TRUE,
                 campos |-> Campos(p, "si", TRUE \in activa),
                 activa |-> activa]>>
  /\ tocados' = tocados \cup {s}
  /\ UNCHANGED <<mundo, items, tick, enviado, calculado, cruzados, perdidos>>

\* Only a recurrent schedule, or a "once" still ahead, can be enabled again. One that
\* the list no longer has is not refused.
Reactivable(it) == it.type # Once \/ it.next_run > ahora
PideActivar(s) ==
  /\ panel = SinPedido /\ items[s].est # "nuevo" /\ Cambia
  /\ Existe(s) => Reactivable(items[s])
  /\ LET it == items[s]
         nr == proximo_run(it.type, it.at, it.days, tz, ahora)
     IN  panel' = <<[sid |-> s, leido |-> it, desde |-> ahora, todo |-> FALSE,
                     campos |-> [it EXCEPT !.enabled = TRUE,
                                           !.next_run = IF nr = SinRun THEN it.next_run
                                                        ELSE nr],
                     activa |-> {TRUE}]>>
  /\ tocados' = tocados \cup {s}
  /\ UNCHANGED <<mundo, items, tick, enviado, calculado, cruzados, perdidos>>

\* The write: an update sets every field of the form, and `enabled` if it came; a
\* toggle sets `enabled`, and the next run of a recurrent schedule.
Activo(r, hoy) == IF r.activa = {} THEN hoy.enabled ELSE TRUE \in r.activa
Escrito(r) ==
  LET hoy == items[r.sid]
  IN  IF r.todo THEN [r.campos EXCEPT !.enabled = Activo(r, hoy)]
      ELSE [hoy EXCEPT !.enabled = TRUE,
                       !.next_run = IF r.leido.type = Once THEN hoy.next_run
                                    ELSE r.campos.next_run]
Escribe ==
  /\ panel # SinPedido
  /\ LET r == Head(panel)
     IN  /\ actualizar(r.sid, r.leido, Escrito(r), r.desde)
         /\ tocados' = IF items'[r.sid].enabled THEN tocados \ {r.sid} ELSE tocados
  /\ panel' = SinPedido
  /\ UNCHANGED <<mundo, tick, enviado, perdidos, quedan>>

Desactiva(s) ==
  /\ items[s].est # "nuevo" /\ Cambia
  /\ actualizar(s, items[s], [items[s] EXCEPT !.enabled = FALSE], calculado[s])
  /\ tocados' = tocados \cup {s}
  /\ UNCHANGED <<mundo, tick, panel, enviado, perdidos>>

borrar(s) ==
  /\ Existe(s) /\ Cambia
  /\ items' = [items EXCEPT ![s] = Falta("borrado")]
  /\ tocados' = tocados \cup {s}
  /\ UNCHANGED <<mundo, tick, panel, enviado, calculado, cruzados, perdidos>>

\* The master switch, and the clock.
Conmuta ==
  /\ Cambia /\ activos' = ~activos
  /\ UNCHANGED <<ahora, tz, items, tick, panel, enviado, historia>>
Pasa ==
  /\ ahora < Fin /\ ahora' = ahora + 1
  /\ UNCHANGED <<activos, tz, items, tick, panel, enviado, historia, quedan>>

TickPaso(d) == Empieza(d) \/ LeeConfig(d) \/ Avanza(d) \/ Envia(d)
Panel ==
  \/ \E s \in Sids, p \in Plantillas : crear(s, p)
  \/ \E s \in Sids, activa \in {{}, {FALSE}, {TRUE}} :
       \E p \in Plantillas \cup {Heredado(items[s])} : PideUpdate(s, p, activa)
  \/ \E s \in Sids : PideActivar(s) \/ Desactiva(s) \/ borrar(s)
  \/ Escribe
Next == \/ \E d \in Ticks : TickPaso(d) \/ Muere(d)
        \/ Panel \/ Conmuta \/ Pasa
Spec == Init /\ [][Next]_vars
\* EventBridge starts a tick every minute, and Lambda runs what is started.
FairSpec == Spec /\ \A d \in Ticks : WF_vars(TickPaso(d))
-----------------------------------------------------------------------------
\* No occurrence is sent twice: failures, deaths, pauses, edits and reactivations
\* repeat nothing (materialize_schedules.py, A2). Unless a write was made from a reading
\* no longer current: two ticks that overlap, or a tick and a request of the panel.
UnaVez == \A s \in Sids \ cruzados, t \in Instantes : enviado[s][t] <= 1

\* The next run of a recurrent schedule is the first instant of its calendar, by its
\* local clock, after the instant it was worked out from: none is skipped, none is
\* repeated, whatever was created, advanced, edited or reactivated.
EnHora ==
  \A s \in Sids \ cruzados :
    LET it == items[s]
    IN  it.est = "si" /\ it.type # Once =>
          it.next_run = Primero(it.type, it.at, it.days, tz, calculado[s])

\* What is due is sent, while the sending stays on and the panel does not touch the
\* schedule. At most lost: an occurrence whose sending failed or died after the
\* advance, or a pause that was read before it was lifted.
Pendiente(s, n) == /\ items[s].est = "si" /\ items[s].enabled /\ activos
                   /\ items[s].next_run = n /\ n <= ahora
TodoSale ==
  \A s \in Sids : \A n \in (Inicio + 1)..Fin :
    Pendiente(s, n) ~> \/ enviado[s][n] > 0 \/ ~activos
                       \/ s \in cruzados \cup perdidos \cup tocados
=============================================================================
