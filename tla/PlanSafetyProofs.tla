-------------------------- MODULE PlanSafetyProofs --------------------------
(***************************************************************************)
(* The safety theorems of PlanDispatch, for every set of plans, every      *)
(* number of overlapping ticks, every batch size and every bound.          *)
(***************************************************************************)
EXTENDS PlanDispatchProofs

(* What one step may do to one plan.                                       *)

\* The claim a tick makes with the cursor and the count of its snapshot.
ReclamaCon(p, d, c) ==
  LET i == tick[d].m.next[c]
  IN  /\ tick[d].en # "libre" /\ tick[d].pid = p
      /\ Reclamable(meta[p], c, i)
      /\ meta'[p] = registrar_dispatch(meta[p], c, i, tick[d].m.disp[c] + Tam(tick[d].m.total[c], i))

\* The updates that claim nothing, creation and deletion.
Actualiza(p) ==
  \/ meta'[p] \in {limpiar_inflight(meta[p]), finalizar(meta[p]), cancelar(meta[p]),
                   [meta[p] EXCEPT !.viejo = TRUE]}
  \/ \E total \in Nat : meta'[p] = resolver_wa(meta[p], total)
NaceEn(p) ==
  meta[p].status = "nuevo" /\ \E wa \in Nat, r \in BOOLEAN : meta'[p] = crear(p, wa, r)
BorradoEn(p) == meta[p].status # "nuevo" /\ meta'[p] = [Vacio EXCEPT !.status = "borrado"]

CambioMeta(p) ==
  \/ meta'[p] = meta[p]
  \/ NaceEn(p) \/ Actualiza(p) \/ BorradoEn(p)
  \/ \E d \in Ticks, c \in Canal : ReclamaCon(p, d, c)

\* A step of a tick changes a plan only by an update of the store.
LEMMA CambioAvanza ==
  ASSUME TypeOK, NEW d \in Ticks, Avanza(d), NEW p \in Planes
  PROVE  CambioMeta(p)
<1>1. meta \in [Planes -> Meta]
  BY DEF TypeOK
<1>2. CASE UNCHANGED meta
  BY <1>2 DEF CambioMeta
<1>3. CASE LimpiaVuelo(d) \/ SueltaVuelo(d)
  BY <1>1, <1>3 DEF LimpiaVuelo, SueltaVuelo, CambioMeta, Actualiza
<1>4. ASSUME NEW c \in Canal, tick[d].en = "elige", Reclama(d, c)
      PROVE  CambioMeta(p)
  <2>1. \/ UNCHANGED meta
        \/ p # tick[d].pid /\ meta'[p] = meta[p]
        \/ p = tick[d].pid /\ ReclamaCon(p, d, c)
    BY <1>1, <1>4 DEF Reclama, ReclamaCon
  <2>. QED  BY <2>1 DEF CambioMeta
<1>5. CASE ReclamaTg(d) \/ ReclamaWa(d)
  BY <1>4, <1>5 DEF ReclamaTg, ReclamaWa, EligeWa, Canal
<1>6. CASE ResuelveWa(d)
  <2>1. tick[d].m.total["wa"] \in Nat
    BY TickType DEF Meta, Canal
  <2>. QED  BY <1>1, <1>6, <2>1 DEF ResuelveWa, CambioMeta, Actualiza
<1>7. CASE Finaliza(d)
  BY <1>1, <1>7 DEF Finaliza, CambioMeta, Actualiza
<1>. QED
  BY <1>2, <1>3, <1>5, <1>6, <1>7
  DEF Avanza, Inicia, MideVuelo, CuentaWa, EsperaWa, EncolaOk, EncolaFalla, ReenviaOk, ReenviaFalla, Difiere

\* No step changes a plan in any other way.
LEMMA CambioNext ==
  ASSUME TypeOK, [Next]_vars, NEW p \in Planes
  PROVE  CambioMeta(p)
<1>1. meta \in [Planes -> Meta]
  BY DEF TypeOK
<1>2. CASE UNCHANGED meta
  BY <1>2 DEF CambioMeta
<1>3. ASSUME NEW q \in Planes, Crear(q)
      PROVE  CambioMeta(p)
  <2>1. \A t \in WaConteos[q] : t \in Nat
    BY PlanDispatchAssumption
  <2>2. \E wa \in Nat, r \in BOOLEAN : meta' = [meta EXCEPT ![q] = crear(q, wa, r)]
    BY <1>3, <2>1 DEF Crear
  <2>. QED  BY <1>1, <1>3, <2>2 DEF Crear, CambioMeta, NaceEn
<1>4. ASSUME NEW q \in Planes, Cancela(q) \/ Borra(q) \/ Envejece(q)
      PROVE  CambioMeta(p)
  BY <1>1, <1>4 DEF Cancela, Borra, Envejece, CambioMeta, Actualiza, BorradoEn, SinItem
<1>5. ASSUME NEW d \in Ticks, Avanza(d)
      PROVE  CambioMeta(p)
  BY <1>5, CambioAvanza
<1>6. CASE UNCHANGED vars
  BY <1>2, <1>6 DEF vars
<1>7. ASSUME NEW k \in DOMAIN envios, Entrega(k) \/ Vuelve(k)
      PROVE  UNCHANGED meta
  BY <1>7 DEF Entrega, Descarta, TomaTg, TomaWa, Cuenta, Recuenta, Pierde, Vuelve
<1>. QED
  BY <1>2, <1>3, <1>4, <1>5, <1>6, <1>7
  DEF Next, BorraTrabajo, Vence, Muere, Cierra, Abre, Pausa, Reanuda, WaCae, WaVuelve, ConEntorno

(* Cancel wins.                                                            *)

\* No step takes a plan out of "canceled", short of deleting it, nor moves its
\* cursors: the condition of registrar_dispatch and that of finalizar.
LEMMA CanceladoPaso ==
  ASSUME TypeOK, [Next]_vars, NEW p \in Planes, meta[p].status = "canceled"
  PROVE  \/ meta'[p].status = "borrado"
         \/ meta'[p].status = "canceled" /\ meta'[p].next = meta[p].next
<1>1. meta[p] \in Meta
  BY DEF TypeOK
<1>2. CambioMeta(p)
  BY CambioNext
<1>3. meta'[p] = meta[p] \/ Actualiza(p) \/ BorradoEn(p)
  BY <1>2 DEF CambioMeta, NaceEn, ReclamaCon, Reclamable, Despachable
<1>. QED
  BY <1>1, <1>3
  DEF Actualiza, BorradoEn, Meta, Vacio, limpiar_inflight, finalizar, cancelar, resolver_wa, Resuelto,
      Upsert, SinItem

\* Cancel wins over every tick, however stale its snapshot.
THEOREM CancelWins == Spec => CanceladoCongela
<1>1. TypeOK /\ [Next]_vars =>
        [\A p \in Planes :
           meta[p].status = "canceled" =>
             \/ meta'[p].status = "borrado"
             \/ meta'[p].status = "canceled" /\ meta'[p].next = meta[p].next]_vars
  BY CanceladoPaso
<1>. QED  BY <1>1, TypeCorrect, PTL DEF Spec, CanceladoCongela

(* in_flight names the last lot claimed.                                   *)

\* An item whose in_flight names the last lot claimed on its channel.
Coherente(m) ==
  m.vuelo # SinVuelo => /\ m.next[m.vuelo.ch] = m.vuelo.idx + 1
                        /\ m.target = m.disp[m.vuelo.ch]

\* Every update of the store keeps it so, a claim whatever its arguments.
LEMMA CoherenteUpdate ==
  ASSUME NEW m \in Meta, Coherente(m)
  PROVE  /\ Coherente(limpiar_inflight(m)) /\ Coherente(finalizar(m)) /\ Coherente(cancelar(m))
         /\ \A total \in Nat : Coherente(resolver_wa(m, total))
         /\ \A c \in Canal, i \in Nat, n \in Nat : Coherente(registrar_dispatch(m, c, i, n))
         /\ Coherente([m EXCEPT !.viejo = TRUE])
<1>. USE DEF Coherente, Meta
<1>1. Coherente(limpiar_inflight(m)) /\ Coherente(finalizar(m)) /\ Coherente(cancelar(m))
  BY DEF limpiar_inflight, finalizar, cancelar
<1>2. ASSUME NEW total \in Nat
      PROVE  Coherente(resolver_wa(m, total))
  BY DEF resolver_wa, Resuelto
<1>3. ASSUME NEW c \in Canal, NEW i \in Nat, NEW n \in Nat
      PROVE  Coherente(registrar_dispatch(m, c, i, n))
  <2>. DEFINE r == registrar_dispatch(m, c, i, n)
  <2>1. r.vuelo = [ch |-> c, idx |-> i] /\ r.target = n
    BY DEF registrar_dispatch
  <2>2. r.next = [m.next EXCEPT ![c] = i + 1] /\ r.disp = [m.disp EXCEPT ![c] = n]
    BY DEF registrar_dispatch
  <2>3. r.next[c] = i + 1 /\ r.disp[c] = n
    BY <2>2
  <2>. HIDE DEF r
  <2>4. Coherente(r)
    BY <2>1, <2>3
  <2>. QED  BY <2>4 DEF r
<1>4. Coherente([m EXCEPT !.viejo = TRUE])
  OBVIOUS
<1>. QED  BY <1>1, <1>2, <1>3, <1>4

\* What the tick compares with the counters of the job is the lot it names.
THEOREM FlightCoherent == Spec => []VueloCoherente
<1>. DEFINE Inv == \A p \in Planes : Coherente(meta[p])
<1>1. Init => Inv
  BY DEF Init, Coherente, Vacio
<1>2. TypeOK /\ Inv /\ [Next]_vars => Inv'
  <2>. SUFFICES ASSUME TypeOK, Inv, [Next]_vars, NEW p \in Planes
                PROVE  Coherente(meta'[p])
    OBVIOUS
  <2>1. meta[p] \in Meta /\ Coherente(meta[p])
    BY DEF TypeOK
  <2>2. \A wa, r : Coherente(crear(p, wa, r))
    BY DEF Coherente, crear, Vacio
  <2>3. Coherente([Vacio EXCEPT !.status = "borrado"])
    BY DEF Coherente, Vacio
  <2>4. ASSUME NEW d \in Ticks, NEW c \in Canal, ReclamaCon(p, d, c)
        PROVE  Coherente(meta'[p])
    <3>. DEFINE i == tick[d].m.next[c]
                n == tick[d].m.disp[c] + Tam(tick[d].m.total[c], i)
    <3>1. tick[d].m.next[c] \in Nat /\ tick[d].m.disp[c] \in Nat /\ tick[d].m.total[c] \in Nat
      BY TickType DEF Meta
    <3>2. Tam(tick[d].m.total[c], tick[d].m.next[c]) \in Nat
      BY <3>1, TamType
    <3>3. i \in Nat /\ n \in Nat
      BY <3>1, <3>2
    <3>4. meta'[p] = registrar_dispatch(meta[p], c, i, n)
      BY <2>4 DEF ReclamaCon
    <3>. HIDE DEF i, n
    <3>. QED  BY <2>1, <3>3, <3>4, CoherenteUpdate
  <2>5. CambioMeta(p)
    BY CambioNext
  <2>6. ASSUME Actualiza(p)
        PROVE  Coherente(meta'[p])
    BY <2>1, <2>6, CoherenteUpdate DEF Actualiza
  <2>. QED  BY <2>1, <2>2, <2>3, <2>4, <2>5, <2>6 DEF CambioMeta, NaceEn, BorradoEn
<1>3. Inv => VueloCoherente
  BY DEF VueloCoherente, Coherente
<1>. QED  BY <1>1, <1>2, <1>3, TypeCorrect, PTL DEF Spec

(* A lot is handed over at most once.                                      *)

\* An update that claims nothing keeps the cursors and creates nothing that can
\* be claimed from; only cancelar brings a plan to "canceled".
LEMMA UpdateVida ==
  ASSUME NEW m \in Meta, NEW n,
         \/ n \in {m, limpiar_inflight(m), finalizar(m), cancelar(m), [m EXCEPT !.viejo = TRUE]}
         \/ \E total \in Nat : n = resolver_wa(m, total)
  PROVE  /\ n.next = m.next
         /\ m.status # "nuevo" => n.status # "nuevo"
         /\ n.status \in Despachable => m.status \in Despachable \cup {"nuevo"}
         /\ n # cancelar(m) /\ m.status # "nuevo" => Vida(n.status) = Vida(m.status)
<1>0. m.status \in Estado
  BY DEF Meta
<1>. USE DEF Vida, Estado, SinItem, Despachable
<1>1. n.next = m.next
  BY DEF Meta, limpiar_inflight, finalizar, cancelar, resolver_wa, Resuelto
<1>2. \/ n.status = m.status
      \/ n.status = Upsert(m.status)
      \/ m.status # "canceled" /\ n.status = IF m.status \in Despachable THEN "done" ELSE "fantasma"
      \/ n = cancelar(m) /\ n.status = "canceled"
  BY DEF Meta, limpiar_inflight, finalizar, cancelar, resolver_wa, Resuelto
<1>. QED  BY <1>0, <1>1, <1>2 DEF Upsert

\* Once created a plan stays created, one that can no longer be claimed from
\* stays so, and as long as it can, its cursors do not go back.
Avance(p) ==
  meta[p].status # "nuevo" =>
    /\ meta'[p].status # "nuevo"
    /\ meta'[p].status \in Despachable =>
         /\ meta[p].status \in Despachable
         /\ \A c \in Canal : meta[p].next[c] <= meta'[p].next[c]
\* No step takes a plan back.
LEMMA AvancePaso ==
  ASSUME TypeOK, [Next]_vars, NEW p \in Planes
  PROVE  Avance(p)
<1>1. meta[p] \in Meta
  BY DEF TypeOK
<1>2. CambioMeta(p)
  BY CambioNext
<1>3. ASSUME NEW d \in Ticks, NEW c \in Canal, ReclamaCon(p, d, c)
      PROVE  Avance(p)
  <2>1. meta[p].status \in Despachable /\ meta[p].next[c] = tick[d].m.next[c]
    BY <1>3 DEF ReclamaCon, Reclamable
  <2>2. meta'[p].next = [meta[p].next EXCEPT ![c] = meta[p].next[c] + 1] /\ meta'[p].status = "running"
    BY <1>1, <1>3, <2>1 DEF ReclamaCon, registrar_dispatch, Meta
  <2>3. meta[p].next \in [Canal -> Nat]
    BY <1>1 DEF Meta
  <2>. QED  BY <2>1, <2>2, <2>3 DEF Avance
<1>4. CASE meta'[p] = meta[p] \/ Actualiza(p)
  <2>1. /\ meta'[p].next = meta[p].next
        /\ meta[p].status # "nuevo" => meta'[p].status # "nuevo"
        /\ meta'[p].status \in Despachable => meta[p].status \in Despachable \cup {"nuevo"}
    BY <1>1, <1>4, UpdateVida DEF Actualiza
  <2>2. meta[p].next \in [Canal -> Nat]
    BY <1>1 DEF Meta
  <2>. QED  BY <2>1, <2>2 DEF Avance
<1>5. CASE meta'[p] = [Vacio EXCEPT !.status = "borrado"]
  BY <1>5 DEF Avance, Vacio, Despachable
<1>. QED  BY <1>2, <1>3, <1>4, <1>5 DEF CambioMeta, NaceEn, BorradoEn, Avance

(* What one step may do to the lots that the ticks hold.                   *)

MismoLote(x) == (TieneLote(x)' <=> TieneLote(x)) /\ (TieneLote(x) => LoteDe(x)' = LoteDe(x))
MismosEnvios ==
  /\ envios' \in Seq(Envio) /\ Len(envios') = Len(envios)
  /\ \A k \in 1..Len(envios) : LoteEnvio(envios'[k]) = LoteEnvio(envios[k])
SoloTick(d) == \A x \in Ticks \ {d} : MismoLote(x)
SoloPlan(p) == \A q \in Planes \ {p} : meta'[q] = meta[q]

\* One plan is created, or ages, or is updated without a claim, or deleted.
CambioQuieto(p) ==
  \/ NaceEn(p)
  \/ meta'[p] = [meta[p] EXCEPT !.viejo = TRUE]
  \/ meta[p].status # "nuevo" /\ (Actualiza(p) \/ BorradoEn(p))

Queda == /\ \A x \in Ticks : MismoLote(x)
         /\ MismosEnvios
         /\ UNCHANGED meta \/ \E p \in Planes : SoloPlan(p) /\ CambioQuieto(p)
Coge(d, c) == /\ ~TieneLote(d) /\ TieneLote(d)'
              /\ LoteDe(d)' = <<tick[d].pid, c, tick[d].m.next[c]>>
              /\ ReclamaCon(tick[d].pid, d, c)
              /\ SoloTick(d) /\ MismosEnvios /\ SoloPlan(tick[d].pid)
Da(d) == /\ TieneLote(d) /\ ~TieneLote(d)' /\ SoloTick(d)
         /\ \E e \in Envio : envios' = Append(envios, e) /\ LoteEnvio(e) = LoteDe(d)
         /\ UNCHANGED meta
Deja(d) == TieneLote(d) /\ ~TieneLote(d)' /\ SoloTick(d) /\ MismosEnvios /\ UNCHANGED meta

\* A step of one tick leaves alone the lots that the other ticks hold.
LEMMA PasoAjeno ==
  ASSUME TypeOK, NEW d \in Ticks
  PROVE  /\ Volver(d) => SoloTick(d) /\ tick'[d].en = "libre"
         /\ \A paso : Ir(d, paso) => /\ SoloTick(d) /\ tick'[d].en = paso
                                    /\ tick'[d].pid = tick[d].pid /\ tick'[d].m = tick[d].m
<1>1. tick \in [Ticks -> Tick]
  BY DEF TypeOK
<1>2. ASSUME \A x \in Ticks \ {d} : tick'[x] = tick[x]
      PROVE  SoloTick(d)
  BY <1>2 DEF SoloTick, MismoLote, TieneLote, LoteDe, CanalDe
<1>3. Volver(d) => SoloTick(d) /\ tick'[d].en = "libre"
  BY <1>1, <1>2 DEF Volver, Libre
<1>4. ASSUME NEW paso, Ir(d, paso)
      PROVE  /\ SoloTick(d) /\ tick'[d].en = paso
             /\ tick'[d].pid = tick[d].pid /\ tick'[d].m = tick[d].m
  <2>1. tick' = [tick EXCEPT ![d] = [tick[d] EXCEPT !.en = paso]]
    BY <1>4 DEF Ir
  <2>2. tick[d] \in Tick
    BY <1>1
  <2>. QED  BY <1>1, <1>2, <2>1, <2>2 DEF Tick
<1>. QED  BY <1>3, <1>4

\* The lot that a tick hands over is the one it holds.
LEMMA EmiteLote ==
  ASSUME TypeOK, NEW d \in Ticks, TieneLote(d), Emite(d, CanalDe(d))
  PROVE  \E e \in Envio : envios' = Append(envios, e) /\ LoteEnvio(e) = LoteDe(d)
<1>. DEFINE c == CanalDe(d)
            e == [pid |-> tick[d].pid, ch |-> c, idx |-> tick[d].m.next[c],
                  n |-> Tam(tick[d].m.total[c], tick[d].m.next[c]), est |-> "cola"]
<1>1. c \in Canal /\ tick[d].pid \in Planes
  BY TickType DEF CanalDe, Canal, TieneLote
<1>2. tick[d].m.next[c] \in Nat /\ tick[d].m.total[c] \in Nat
  BY <1>1, TickType DEF Meta
<1>3. Tam(tick[d].m.total[c], tick[d].m.next[c]) \in Nat
  BY <1>2, TamType
<1>4. e \in Envio
  BY <1>1, <1>2, <1>3 DEF Envio
<1>5. LoteEnvio(e) = LoteDe(d)
  BY DEF LoteEnvio, LoteDe
<1>6. envios' = Append(envios, e)
  BY DEF Emite
<1>. HIDE DEF e
<1>. QED  BY <1>4, <1>5, <1>6

\* The log keeps its lots when the log stays, and when a lot changes state.
LEMMA MismosEnviosPaso ==
  ASSUME TypeOK
  PROVE  /\ UNCHANGED envios => MismosEnvios
         /\ \A k \in DOMAIN envios, est \in {"cola", "enviando", "entregado", "descartado", "perdido"} :
              Pasa(k, est) => MismosEnvios
<1>1. envios \in Seq(Envio)
  BY DEF TypeOK
<1>2. ASSUME NEW k \in DOMAIN envios,
             NEW est \in {"cola", "enviando", "entregado", "descartado", "perdido"}, Pasa(k, est)
      PROVE  MismosEnvios
  <2>1. k \in 1..Len(envios) /\ envios[k] \in Envio
    BY <1>1
  <2>2. [envios[k] EXCEPT !.est = est] \in Envio
    BY <2>1 DEF Envio
  <2>3. envios' = [envios EXCEPT ![k] = [envios[k] EXCEPT !.est = est]]
    BY <1>2 DEF Pasa
  <2>4. LoteEnvio([envios[k] EXCEPT !.est = est]) = LoteEnvio(envios[k])
    BY <2>1 DEF LoteEnvio, Envio
  <2>. QED  BY <1>1, <2>1, <2>2, <2>3, <2>4, ExceptSeq DEF MismosEnvios
<1>. QED  BY <1>1, <1>2 DEF MismosEnvios

\* One step of a tick: it claims a lot, hands one over, drops one, or none.
LEMMA LotesAvanza ==
  ASSUME TypeOK, Nacidos, NEW d \in Ticks, Avanza(d)
  PROVE  Queda \/ Da(d) \/ Deja(d) \/ \E c \in Canal : Coge(d, c)
<1>1. meta \in [Planes -> Meta] /\ tick \in [Ticks -> Tick]
  BY DEF TypeOK
<1>2. UNCHANGED envios => MismosEnvios
  BY MismosEnviosPaso
<1>3. CASE Inicia(d)
  <2>1. tick[d].en = "libre" /\ tick'[d].en \in {"elige", "vuelo"} /\ \A x \in Ticks \ {d} : tick'[x] = tick[x]
    BY <1>1, <1>3 DEF Inicia
  <2>2. \A x \in Ticks : MismoLote(x)
    BY <2>1 DEF MismoLote, TieneLote, LoteDe, CanalDe
  <2>. QED  BY <1>2, <1>3, <2>2 DEF Inicia, Queda
<1>4. CASE MideVuelo(d) \/ LimpiaVuelo(d) \/ ResuelveWa(d) \/ EsperaWa(d) \/ SueltaVuelo(d) \/ Difiere(d) \/ Finaliza(d)
  <2>1. SoloTick(d) /\ ~TieneLote(d) /\ tick'[d].en \in {"libre", "limpia", "elige"}
    BY <1>1, <1>4, PasoAjeno
    DEF MideVuelo, LimpiaVuelo, ResuelveWa, EsperaWa, EligeWa, SueltaVuelo, Difiere, Finaliza, TieneLote
  <2>2. \A x \in Ticks : MismoLote(x)
    BY <2>1 DEF SoloTick, MismoLote, TieneLote
  <2>3. UNCHANGED meta \/ \E p \in Planes : SoloPlan(p) /\ CambioQuieto(p)
    <3>1. \/ UNCHANGED meta
          \/ /\ tick[d].en # "libre"
             /\ \/ meta' = [meta EXCEPT ![tick[d].pid] = limpiar_inflight(@)]
                \/ meta' = [meta EXCEPT ![tick[d].pid] = resolver_wa(@, tick[d].m.total["wa"])]
                \/ meta' = [meta EXCEPT ![tick[d].pid] = finalizar(@)]
      BY <1>4 DEF MideVuelo, LimpiaVuelo, ResuelveWa, EsperaWa, SueltaVuelo, Difiere, Finaliza
    <3>2. tick[d].m.total["wa"] \in Nat
      BY TickType DEF Meta, Canal
    <3>3. tick[d].en # "libre" => tick[d].pid \in Planes /\ meta[tick[d].pid].status # "nuevo"
      BY TickType DEF Nacidos
    <3>. QED  BY <1>1, <3>1, <3>2, <3>3 DEF SoloPlan, CambioQuieto, Actualiza
  <2>4. UNCHANGED envios
    BY <1>4 DEF MideVuelo, LimpiaVuelo, ResuelveWa, EsperaWa, SueltaVuelo, Difiere, Finaliza
  <2>. QED  BY <1>2, <2>2, <2>3, <2>4 DEF Queda
<1>5. CASE CuentaWa(d)
  <2>1. tick[d].en = "elige" /\ tick'[d].en = "resuelve" /\ \A x \in Ticks \ {d} : tick'[x] = tick[x]
    BY <1>1, <1>5 DEF CuentaWa, EligeWa, Tick
  <2>2. \A x \in Ticks : MismoLote(x)
    BY <2>1 DEF MismoLote, TieneLote, LoteDe, CanalDe
  <2>. QED  BY <1>2, <1>5, <2>2 DEF CuentaWa, Queda
<1>6. ASSUME NEW c \in Canal, tick[d].en = "elige", Reclama(d, c)
      PROVE  Queda \/ Coge(d, c)
  <2>0. MismosEnvios /\ ~TieneLote(d)
    BY <1>2, <1>6 DEF Reclama, TieneLote
  <2>1. CASE Reclamable(meta[tick[d].pid], c, tick[d].m.next[c])
    <3>1. /\ ReclamaCon(tick[d].pid, d, c) /\ SoloPlan(tick[d].pid)
          /\ Ir(d, IF c = "tg" THEN "encola" ELSE "reenvia")
      BY <1>1, <1>6, <2>1, TickType DEF Reclama, ReclamaCon, SoloPlan
    <3>2. SoloTick(d)
      BY <3>1, PasoAjeno
    <3>3. /\ tick'[d].en = IF c = "tg" THEN "encola" ELSE "reenvia"
          /\ tick'[d].pid = tick[d].pid /\ tick'[d].m = tick[d].m
      BY <3>1, PasoAjeno
    <3>4. TieneLote(d)' /\ CanalDe(d)' = c
      BY <3>3 DEF TieneLote, CanalDe, Canal
    <3>5. LoteDe(d)' = <<tick[d].pid, c, tick[d].m.next[c]>>
      BY <3>3, <3>4 DEF LoteDe
    <3>. QED  BY <2>0, <3>1, <3>2, <3>4, <3>5 DEF Coge
  <2>2. CASE ~Reclamable(meta[tick[d].pid], c, tick[d].m.next[c])
    <3>1. Volver(d) /\ UNCHANGED meta
      BY <1>6, <2>2 DEF Reclama
    <3>2. SoloTick(d) /\ ~TieneLote(d)'
      BY <3>1, PasoAjeno DEF TieneLote
    <3>. QED  BY <2>0, <3>1, <3>2 DEF Queda, SoloTick, MismoLote
  <2>. QED  BY <2>1, <2>2
<1>7. CASE ReclamaTg(d) \/ ReclamaWa(d)
  BY <1>6, <1>7 DEF ReclamaTg, ReclamaWa, EligeWa, Canal
<1>8. CASE EncolaOk(d) \/ EncolaFalla(d) \/ ReenviaOk(d) \/ ReenviaFalla(d)
  <2>1. TieneLote(d) /\ (Emite(d, CanalDe(d)) \/ UNCHANGED envios) /\ UNCHANGED meta
    BY <1>8 DEF EncolaOk, EncolaFalla, ReenviaOk, ReenviaFalla, TieneLote, CanalDe
  <2>2. SoloTick(d) /\ tick'[d].en \in {"libre", "suelta"}
    BY <1>8, PasoAjeno DEF EncolaOk, EncolaFalla, ReenviaOk, ReenviaFalla
  <2>3. ~TieneLote(d)'
    BY <2>2 DEF TieneLote
  <2>. QED  BY <1>2, <2>1, <2>2, <2>3, EmiteLote DEF Da, Deja
<1>. QED  BY <1>3, <1>4, <1>5, <1>7, <1>8 DEF Avanza

\* And one step of the whole system.
LEMMA LotesNext ==
  ASSUME TypeOK, Nacidos, [Next]_vars
  PROVE  Queda \/ \E d \in Ticks : Da(d) \/ Deja(d) \/ \E c \in Canal : Coge(d, c)
<1>1. meta \in [Planes -> Meta] /\ tick \in [Ticks -> Tick]
  BY DEF TypeOK
<1>2. UNCHANGED tick => \A x \in Ticks : MismoLote(x)
  BY DEF MismoLote, TieneLote, LoteDe, CanalDe
<1>3. UNCHANGED envios => MismosEnvios
  BY MismosEnviosPaso
<1>4. ASSUME NEW p \in Planes, Crear(p) \/ Cancela(p) \/ Borra(p) \/ BorraTrabajo(p) \/ Envejece(p) \/ Vence(p)
      PROVE  Queda
  <2>1. UNCHANGED meta \/ (SoloPlan(p) /\ CambioQuieto(p))
    <3>1. CASE Crear(p)
      <4>1. \A t \in WaConteos[p] : t \in Nat
        BY PlanDispatchAssumption
      <4>2. \E wa \in Nat, r \in BOOLEAN : meta' = [meta EXCEPT ![p] = crear(p, wa, r)]
        BY <3>1, <4>1 DEF Crear
      <4>. QED  BY <1>1, <3>1, <4>2 DEF Crear, SoloPlan, CambioQuieto, NaceEn
    <3>2. CASE Envejece(p)
      BY <1>1, <3>2 DEF Envejece, SoloPlan, CambioQuieto
    <3>3. CASE Cancela(p) \/ Borra(p)
      BY <1>1, <3>3 DEF Cancela, Borra, SinItem, SoloPlan, CambioQuieto, Actualiza, BorradoEn
    <3>4. CASE BorraTrabajo(p) \/ Vence(p)
      BY <3>4 DEF BorraTrabajo, Vence
    <3>. QED  BY <1>4, <3>1, <3>2, <3>3, <3>4
  <2>2. UNCHANGED <<tick, envios>>
    BY <1>4 DEF Crear, Cancela, Borra, BorraTrabajo, Envejece, Vence
  <2>. QED  BY <1>2, <1>3, <2>1, <2>2 DEF Queda
<1>5. ASSUME NEW d \in Ticks, Muere(d)
      PROVE  Queda \/ Deja(d)
  <2>1. SoloTick(d) /\ ~TieneLote(d)'
    BY <1>5, PasoAjeno DEF Muere, TieneLote
  <2>2. UNCHANGED <<meta, envios>>
    BY <1>5 DEF Muere
  <2>. QED  BY <1>3, <2>1, <2>2 DEF Queda, Deja, SoloTick, MismoLote
<1>6. ASSUME NEW k \in DOMAIN envios, Entrega(k) \/ Vuelve(k)
      PROVE  Queda
  <2>1. UNCHANGED <<meta, tick>>
    BY <1>6 DEF Entrega, Descarta, TomaTg, TomaWa, Cuenta, Recuenta, Pierde, Vuelve
  <2>2. MismosEnvios
    BY <1>6, MismosEnviosPaso DEF Entrega, Descarta, TomaTg, TomaWa, Cuenta, Recuenta, Pierde, Vuelve
  <2>. QED  BY <1>2, <2>1, <2>2 DEF Queda
<1>7. CASE UNCHANGED <<meta, tick, envios>>
  BY <1>2, <1>3, <1>7 DEF Queda
<1>. QED
  BY <1>4, <1>5, <1>6, <1>7, LotesAvanza
  DEF Next, Cierra, Abre, Pausa, Reanuda, WaCae, WaVuelve, ConEntorno, vars

\* What a step does to the ticks: one starts, counts, moves on or ends.
LEMMA TicksPaso ==
  ASSUME [Next]_vars
  PROVE  \/ UNCHANGED tick
         \/ \E d \in Ticks : \/ Inicia(d) \/ CuentaWa(d) \/ Volver(d)
                             \/ tick[d].en # "libre" /\ \E paso : Ir(d, paso)
<1>1. ASSUME NEW d \in Ticks, Avanza(d) \/ Muere(d)
      PROVE  \/ Inicia(d) \/ CuentaWa(d) \/ Volver(d)
             \/ tick[d].en # "libre" /\ \E paso : Ir(d, paso)
  BY <1>1
  DEF Avanza, Muere, MideVuelo, LimpiaVuelo, ReclamaTg, ReclamaWa, EligeWa, Reclama, ResuelveWa, EsperaWa,
      EncolaOk, EncolaFalla, ReenviaOk, ReenviaFalla, SueltaVuelo, Difiere, Finaliza
<1>2. (\E d \in Ticks : Avanza(d) \/ Muere(d)) \/ UNCHANGED tick
  BY DEF Next, vars, Crear, Cancela, Borra, BorraTrabajo, Envejece, Vence, Entrega, Descarta, TomaTg, TomaWa,
      Cuenta, Recuenta, Pierde, Vuelve, Cierra, Abre, Pausa, Reanuda, WaCae, WaVuelve, ConEntorno
<1>. QED  BY <1>1, <1>2

\* Ticks only start on plans that exist, and stay on theirs.
LEMMA NacidosPaso ==
  ASSUME TypeOK, Nacidos, [Next]_vars
  PROVE  Nacidos'
<1>1. \A p \in Planes : meta[p].status # "nuevo" => meta'[p].status # "nuevo"
  BY AvancePaso DEF Avance
<1>2. tick \in [Ticks -> Tick] /\ envios \in Seq(Envio) /\ \A k \in 1..Len(envios) : envios[k].pid \in Planes
  <2>1. envios \in Seq(Envio) /\ \A k \in 1..Len(envios) : envios[k] \in Envio
    BY DEF TypeOK
  <2>. QED  BY <2>1 DEF TypeOK, Envio
<1>3. ASSUME NEW x \in Ticks, tick'[x].en # "libre"
      PROVE  tick'[x].pid \in Planes /\ meta[tick'[x].pid].status # "nuevo"
  <2>1. ASSUME NEW d \in Ticks, Inicia(d)
        PROVE  tick'[x].pid \in Planes /\ meta[tick'[x].pid].status # "nuevo"
    BY <1>2, <1>3, <2>1, TickType DEF Inicia, Listos, Nacidos
  <2>2. ASSUME NEW d \in Ticks,
               Volver(d) \/ (tick[d].en # "libre" /\ \E paso : Ir(d, paso)) \/ UNCHANGED tick
        PROVE  tick'[x].pid \in Planes /\ meta[tick'[x].pid].status # "nuevo"
    <3>1. CASE tick'[x] = tick[x]
      BY <1>3, <3>1, TickType DEF Nacidos
    <3>2. CASE tick'[x] # tick[x]
      <4>1. x = d
        BY <1>2, <2>2, <3>2 DEF Volver, Ir
      <4>2. tick'[x].pid = tick[x].pid /\ tick[x].en # "libre"
        BY <1>3, <2>2, <3>2, <4>1, PasoAjeno
      <4>. QED  BY <4>2, TickType DEF Nacidos
    <3>. QED  BY <3>1, <3>2
  <2>3. ASSUME NEW d \in Ticks, CuentaWa(d)
        PROVE  tick'[x].pid \in Planes /\ meta[tick'[x].pid].status # "nuevo"
    <3>1. tick'[x].pid = tick[x].pid /\ tick[x].en # "libre"
      BY <1>2, <1>3, <2>3 DEF CuentaWa, EligeWa, Tick
    <3>. QED  BY <3>1, TickType DEF Nacidos
  <2>. QED  BY <2>1, <2>2, <2>3, TicksPaso
<1>4. ASSUME NEW k \in DOMAIN envios'
      PROVE  envios'[k].pid \in Planes /\ meta[envios'[k].pid].status # "nuevo"
  <2>1. CASE MismosEnvios
    <3>1. k \in 1..Len(envios) /\ envios'[k].pid = envios[k].pid
      BY <2>1 DEF MismosEnvios, LoteEnvio
    <3>. QED  BY <1>2, <3>1 DEF Nacidos
  <2>2. ASSUME NEW d \in Ticks, Da(d)
        PROVE  envios'[k].pid \in Planes /\ meta[envios'[k].pid].status # "nuevo"
    <3>1. PICK e \in Envio : envios' = Append(envios, e) /\ LoteEnvio(e) = LoteDe(d)
      BY <2>2 DEF Da
    <3>2. e.pid = tick[d].pid /\ tick[d].en # "libre"
      BY <2>2, <3>1 DEF LoteEnvio, LoteDe, Da, TieneLote
    <3>3. e.pid \in Planes /\ meta[e.pid].status # "nuevo"
      BY <3>2, TickType DEF Nacidos
    <3>4. \/ k \in 1..Len(envios) /\ envios'[k] = envios[k]
          \/ envios'[k] = e
      BY <1>2, <3>1, AppendProperties
    <3>. QED  BY <1>2, <3>3, <3>4 DEF Nacidos
  <2>. QED  BY <2>1, <2>2, LotesNext DEF Queda, Deja, Coge
<1>. QED  BY <1>1, <1>3, <1>4 DEF Nacidos

\* A lot that a cursor is past stays so: the plan may stop being claimable, and
\* otherwise its cursors only advance.
Lotes == Planes \X Canal \X Nat
\* A lot whose index the cursor has passed stays passed.
LEMMA PasaPaso ==
  ASSUME TypeOK, TypeOK', [Next]_vars, NEW l \in Lotes, meta[l[1]].status # "nuevo", PasaCursor(l)
  PROVE  PasaCursor(l)'
<1>1. l[1] \in Planes /\ l[2] \in Canal /\ l[3] \in Nat
  BY DEF Lotes
<1>2. Avance(l[1])
  BY <1>1, AvancePaso
<1>3. meta[l[1]] \in Meta /\ meta'[l[1]] \in Meta
  BY <1>1 DEF TypeOK
<1>4. meta[l[1]].next[l[2]] \in Nat /\ meta'[l[1]].next[l[2]] \in Nat
  BY <1>1, <1>3 DEF Meta
<1>. QED  BY <1>1, <1>2, <1>4 DEF Avance, PasaCursor

\* Lots in a hand, and lots of the log, are lots.
LEMMA LoteTipo ==
  ASSUME TypeOK
  PROVE  /\ \A x \in Ticks : TieneLote(x) => LoteDe(x) \in Lotes /\ LoteDe(x)[1] = tick[x].pid
         /\ \A e \in Envio : LoteEnvio(e) \in Lotes /\ LoteEnvio(e)[1] = e.pid
         /\ envios \in Seq(Envio) /\ \A k \in 1..Len(envios) : envios[k] \in Envio
<1>1. ASSUME NEW x \in Ticks, TieneLote(x)
      PROVE  LoteDe(x) \in Lotes /\ LoteDe(x)[1] = tick[x].pid
  <2>1. tick[x].pid \in Planes /\ tick[x].m \in Meta /\ CanalDe(x) \in Canal
    BY <1>1, TickType DEF TieneLote, CanalDe, Canal
  <2>2. tick[x].m.next[CanalDe(x)] \in Nat
    BY <2>1 DEF Meta
  <2>. QED  BY <2>1, <2>2 DEF LoteDe, Lotes
<1>2. \A e \in Envio : LoteEnvio(e) \in Lotes /\ LoteEnvio(e)[1] = e.pid
  BY DEF LoteEnvio, Envio, Lotes
<1>. QED  BY <1>1, <1>2 DEF TypeOK

\* The cursors stay past the lots in a hand and the lots of the log: a claim
\* advances the cursor past the lot it takes.
LEMMA CursorPaso ==
  ASSUME TypeOK, TypeOK', Nacidos, CursorPasado, [Next]_vars
  PROVE  CursorPasado'
<1>1. ASSUME NEW x \in Ticks, TieneLote(x), NEW l, l = LoteDe(x)
      PROVE  PasaCursor(l)'
  <2>1. l \in Lotes /\ meta[l[1]].status # "nuevo" /\ PasaCursor(l)
    BY <1>1, LoteTipo DEF Nacidos, CursorPasado, TieneLote
  <2>. QED  BY <2>1, PasaPaso
<1>2. ASSUME NEW k \in 1..Len(envios), NEW l, l = LoteEnvio(envios[k])
      PROVE  PasaCursor(l)'
  <2>1. envios[k] \in Envio /\ DOMAIN envios = 1..Len(envios)
    BY LoteTipo
  <2>2. l \in Lotes /\ meta[l[1]].status # "nuevo" /\ PasaCursor(l)
    BY <1>2, <2>1, LoteTipo DEF Nacidos, CursorPasado
  <2>. QED  BY <2>2, PasaPaso
<1>3. ASSUME NEW x \in Ticks, TieneLote(x)'
      PROVE  PasaCursor(LoteDe(x))'
  <2>1. CASE MismoLote(x)
    <3>1. TieneLote(x) /\ LoteDe(x)' = LoteDe(x)
      BY <1>3, <2>1 DEF MismoLote
    <3>. QED  BY <1>1, <3>1 DEF PasaCursor
  <2>2. ASSUME NEW c \in Canal, Coge(x, c)
        PROVE  PasaCursor(LoteDe(x))'
    <3>. DEFINE p == tick[x].pid
                i == tick[x].m.next[c]
    <3>1. LoteDe(x)' = <<p, c, i>> /\ meta[p].next[c] = i /\ tick[x].en # "libre"
      BY <2>2 DEF Coge, ReclamaCon, Reclamable
    <3>2. p \in Planes /\ meta[p] \in Meta /\ i \in Nat
      BY <3>1, TickType DEF TypeOK, Meta
    <3>3. meta'[p].next = [meta[p].next EXCEPT ![c] = i + 1]
      BY <2>2, <3>2 DEF Coge, ReclamaCon, registrar_dispatch, Meta
    <3>4. meta'[p].next[c] = i + 1
      BY <3>2, <3>3 DEF Meta
    <3>. HIDE DEF p, i
    <3>. QED  BY <3>1, <3>2, <3>4 DEF PasaCursor
  <2>. QED
    BY <1>3, <2>1, <2>2, LotesNext DEF Queda, Da, Deja, Coge, SoloTick
<1>4. ASSUME NEW k \in DOMAIN envios'
      PROVE  PasaCursor(LoteEnvio(envios[k]))'
  <2>1. CASE MismosEnvios
    <3>1. k \in 1..Len(envios) /\ LoteEnvio(envios'[k]) = LoteEnvio(envios[k])
      BY <2>1 DEF MismosEnvios
    <3>. QED  BY <1>2, <3>1 DEF PasaCursor, LoteEnvio
  <2>2. ASSUME NEW d \in Ticks, Da(d)
        PROVE  PasaCursor(LoteEnvio(envios[k]))'
    <3>1. PICK e \in Envio : envios' = Append(envios, e) /\ LoteEnvio(e) = LoteDe(d)
      BY <2>2 DEF Da
    <3>2. \/ k \in 1..Len(envios) /\ envios'[k] = envios[k]
          \/ envios'[k] = e
      BY <3>1, LoteTipo, AppendProperties
    <3>3. CASE k \in 1..Len(envios) /\ envios'[k] = envios[k]
      BY <1>2, <3>3 DEF PasaCursor, LoteEnvio
    <3>4. CASE envios'[k] = e
      BY <1>1, <2>2, <3>1, <3>4 DEF PasaCursor, LoteEnvio, Da
    <3>. QED  BY <3>2, <3>3, <3>4
  <2>. QED  BY <2>1, <2>2, LotesNext DEF Queda, Deja, Coge
<1>. QED  BY <1>3, <1>4 DEF CursorPasado

\* No two hands hold one lot: the lot just claimed is the one the cursor was at,
\* and every other lot of the plan is behind the cursor.
LEMMA ManosPaso ==
  ASSUME TypeOK, Nacidos, CursorPasado, ManosDistintas, [Next]_vars
  PROVE  ManosDistintas'
<1>1. envios \in Seq(Envio) /\ DOMAIN envios = 1..Len(envios)
  BY DEF TypeOK
<1>2. CASE Queda
  <2>1. \A x \in Ticks : TieneLote(x)' => TieneLote(x) /\ LoteDe(x)' = LoteDe(x)
    BY <1>2 DEF Queda, MismoLote
  <2>2. DOMAIN envios' = DOMAIN envios /\ \A k \in DOMAIN envios : LoteEnvio(envios[k])' = LoteEnvio(envios[k])
    BY <1>1, <1>2 DEF Queda, MismosEnvios, LoteEnvio
  <2>. QED  BY <2>1, <2>2 DEF ManosDistintas, LoteUnaVez
<1>3. ASSUME NEW d \in Ticks, Deja(d)
      PROVE  ManosDistintas'
  <2>1. \A x \in Ticks : TieneLote(x)' => TieneLote(x) /\ LoteDe(x)' = LoteDe(x)
    BY <1>3 DEF Deja, SoloTick, MismoLote
  <2>2. DOMAIN envios' = DOMAIN envios /\ \A k \in DOMAIN envios : LoteEnvio(envios[k])' = LoteEnvio(envios[k])
    BY <1>1, <1>3 DEF Deja, MismosEnvios, LoteEnvio
  <2>. QED  BY <2>1, <2>2 DEF ManosDistintas, LoteUnaVez
<1>4. ASSUME NEW d \in Ticks, Da(d)
      PROVE  ManosDistintas'
  <2>1. PICK e \in Envio : envios' = Append(envios, e) /\ LoteEnvio(e) = LoteDe(d)
    BY <1>4 DEF Da
  <2>2. \A x \in Ticks : TieneLote(x)' => x # d /\ TieneLote(x) /\ LoteDe(x)' = LoteDe(x)
    BY <1>4 DEF Da, SoloTick, MismoLote
  <2>3. /\ DOMAIN envios' = 1..Len(envios) + 1 /\ envios'[Len(envios) + 1] = e
        /\ \A k \in DOMAIN envios : envios'[k] = envios[k]
    BY <1>1, <2>1, AppendProperties
  <2>4. TieneLote(d)
    BY <1>4 DEF Da
  <2>5. \A k \in DOMAIN envios' : \/ k = Len(envios) + 1 /\ LoteEnvio(envios[k])' = LoteDe(d)
                                  \/ k \in DOMAIN envios /\ LoteEnvio(envios[k])' = LoteEnvio(envios[k])
    BY <1>1, <2>1, <2>3 DEF LoteEnvio
  <2>. QED  BY <2>2, <2>4, <2>5 DEF ManosDistintas, LoteUnaVez
<1>5. ASSUME NEW d \in Ticks, NEW c \in Canal, Coge(d, c)
      PROVE  ManosDistintas'
  <2>. DEFINE l == <<tick[d].pid, c, tick[d].m.next[c]>>
  <2>1. LoteDe(d)' = l /\ ~PasaCursor(l)
    <3>1. LoteDe(d)' = l /\ Reclamable(meta[l[1]], l[2], l[3]) /\ tick[d].en # "libre"
      BY <1>5 DEF Coge, ReclamaCon
    <3>2. tick[d].m.next[c] \in Nat
      BY TickType DEF Meta
    <3>. QED  BY <3>1, <3>2 DEF Reclamable, PasaCursor
  <2>2. \A x \in Ticks : TieneLote(x)' => x = d \/ (TieneLote(x) /\ LoteDe(x)' = LoteDe(x))
    BY <1>5 DEF Coge, SoloTick, MismoLote
  <2>3. DOMAIN envios' = DOMAIN envios /\ \A k \in DOMAIN envios : LoteEnvio(envios[k])' = LoteEnvio(envios[k])
    BY <1>1, <1>5 DEF Coge, MismosEnvios, LoteEnvio
  <2>4. \A x \in Ticks : TieneLote(x) => LoteDe(x) # l
    BY <2>1 DEF CursorPasado
  <2>5. \A k \in DOMAIN envios : LoteEnvio(envios[k]) # l
    BY <2>1 DEF CursorPasado
  <2>. HIDE DEF l
  <2>. QED  BY <2>1, <2>2, <2>3, <2>4, <2>5 DEF ManosDistintas, LoteUnaVez
<1>. QED  BY <1>2, <1>3, <1>4, <1>5, LotesNext

\* The invariant behind the promise holds of every behaviour.
THEOREM HandsApart == Spec => []ManoUnica
<1>1. Init => ManoUnica
  BY DEF Init, ManoUnica, Nacidos, CursorPasado, ManosDistintas, LoteUnaVez, TieneLote, Libre
<1>2. TypeOK /\ ManoUnica /\ [Next]_vars => ManoUnica'
  BY TypeNext, NacidosPaso, CursorPaso, ManosPaso DEF ManoUnica
<1>. QED  BY <1>1, <1>2, TypeCorrect, PTL DEF Spec

\* No lot of a plan is ever handed over twice, however many ticks overlap, die
\* or find SQS and WhatsApp failing.
THEOREM LotOnce == Spec => []LoteUnaVez
<1>1. ManoUnica => LoteUnaVez
  BY DEF ManoUnica, ManosDistintas
<1>. QED  BY <1>1, HandsApart, PTL

(* What was dispatched on Telegram is exact.                               *)

\* One more lot: the first n lots and lot n are the first n + 1 lots.
LEMMA AcumuladoSigue ==
  ASSUME NEW total \in Nat, NEW n \in Nat
  PROVE  Acumulado(total, n + 1) = Acumulado(total, n) + Tam(total, n)
<1>. DEFINE x == n * BatchSize
<1>1. x \in Int /\ BatchSize \in Nat \ {0} /\ (n + 1) * BatchSize = x + BatchSize
  BY PlanDispatchAssumption
<1>2. /\ Acumulado(total, n + 1) = IF x + BatchSize <= total THEN x + BatchSize ELSE total
      /\ Acumulado(total, n) = IF x <= total THEN x ELSE total
      /\ Tam(total, n) = IF total - x <= 0 THEN 0 ELSE IF total - x < BatchSize THEN total - x ELSE BatchSize
  BY <1>1 DEF Acumulado, Tam
<1>. HIDE DEF x
<1>. QED  BY <1>1, <1>2

\* No lot dispatched, nobody reached.
LEMMA AcumuladoCero ==
  ASSUME NEW total \in Nat
  PROVE  Acumulado(total, 0) = 0
<1>1. 0 * BatchSize = 0
  BY PlanDispatchAssumption
<1>. QED  BY <1>1 DEF Acumulado

\* An update that claims nothing leaves the Telegram count and total alone.
LEMMA ExactoUpdate ==
  ASSUME NEW m \in Meta, NEW n \in Meta,
         \/ n \in {m, limpiar_inflight(m), finalizar(m), cancelar(m), [m EXCEPT !.viejo = TRUE]}
         \/ \E total \in Nat : n = resolver_wa(m, total)
         \/ \E total \in Nat : n = Resuelto(m, total)
  PROVE  n.next["tg"] = m.next["tg"] /\ n.disp["tg"] = m.disp["tg"] /\ n.total["tg"] = m.total["tg"]
<1>1. CASE n \in {m, [m EXCEPT !.viejo = TRUE], limpiar_inflight(m), finalizar(m), cancelar(m)}
  <2>1. n.next = m.next /\ n.disp = m.disp /\ n.total = m.total
    BY <1>1 DEF Meta, limpiar_inflight, finalizar, cancelar
  <2>. QED  BY <2>1
<1>2. ASSUME NEW total \in Nat, n = Resuelto(m, total) \/ n = resolver_wa(m, total)
      PROVE  n.next["tg"] = m.next["tg"] /\ n.disp["tg"] = m.disp["tg"] /\ n.total["tg"] = m.total["tg"]
  <2>1. n.next = m.next /\ n.disp = m.disp /\ n.total = [m.total EXCEPT !["wa"] = total]
    BY <1>2 DEF Meta, resolver_wa, Resuelto
  <2>. QED  BY <2>1 DEF Meta, Canal
<1>. QED  BY <1>1, <1>2

\* A plan keeps its count exact, and its total while it can be claimed from.
LEMMA ExactoPaso ==
  ASSUME TypeOK, TypeOK', FotoExacta, [Next]_vars, NEW p \in Planes
  PROVE  /\ Exacto(meta'[p])
         /\ meta[p].status # "nuevo" /\ meta'[p].status \in Despachable =>
              meta'[p].total["tg"] = meta[p].total["tg"]
<1>1. meta[p] \in Meta /\ meta'[p] \in Meta /\ Exacto(meta[p])
  BY DEF TypeOK, FotoExacta, DespachadoExacto
<1>2. CambioMeta(p)
  BY CambioNext
<1>3. CASE meta'[p] = meta[p] \/ Actualiza(p)
  BY <1>1, <1>3, ExactoUpdate DEF Exacto, Actualiza
<1>4. ASSUME meta[p].status = "nuevo", NEW wa \in Nat, NEW r \in BOOLEAN, meta'[p] = crear(p, wa, r)
      PROVE  Exacto(meta'[p])
  <2>1. meta'[p].next["tg"] = 0 /\ meta'[p].disp["tg"] = 0 /\ meta'[p].total["tg"] \in Nat
    BY <1>4, PlanDispatchAssumption DEF crear, Vacio, Canal
  <2>. QED  BY <2>1, AcumuladoCero DEF Exacto
<1>5. CASE meta'[p] = [Vacio EXCEPT !.status = "borrado"]
  <2>1. /\ meta'[p].next["tg"] = 0 /\ meta'[p].disp["tg"] = 0 /\ meta'[p].total["tg"] = 0
        /\ meta'[p].status \notin Despachable
    BY <1>5 DEF Vacio, Canal, Despachable
  <2>. QED  BY <2>1, AcumuladoCero DEF Exacto
<1>6. ASSUME NEW d \in Ticks, NEW c \in Canal, ReclamaCon(p, d, c)
      PROVE  Exacto(meta'[p]) /\ meta'[p].total["tg"] = meta[p].total["tg"]
  <2>. DEFINE m == tick[d].m
              i == m.next[c]
              n == m.disp[c] + Tam(m.total[c], i)
  <2>1. meta'[p] = registrar_dispatch(meta[p], c, i, n) /\ tick[d].pid = p
        /\ meta[p].status \in Despachable /\ meta[p].next[c] = i /\ tick[d].en # "libre"
    BY <1>6 DEF ReclamaCon, Reclamable
  <2>2. m \in Meta /\ Exacto(m) /\ m.total["tg"] = meta[p].total["tg"]
    BY <2>1, TickType DEF FotoExacta
  <2>. HIDE DEF m
  <2>3. m.disp["tg"] \in Nat /\ m.total["tg"] \in Nat /\ m.next["tg"] \in Nat
    BY <2>2 DEF Meta, Canal
  <2>4. /\ meta'[p].next = [meta[p].next EXCEPT ![c] = i + 1]
        /\ meta'[p].disp = [meta[p].disp EXCEPT ![c] = n]
        /\ meta'[p].total = meta[p].total
    BY <1>1, <2>1 DEF registrar_dispatch, Meta
  <2>5. CASE c = "tg"
    <3>1. meta'[p].next["tg"] = i + 1 /\ meta'[p].disp["tg"] = n /\ i \in Nat
      BY <1>1, <2>3, <2>4, <2>5 DEF Meta
    <3>2. n = Acumulado(m.total["tg"], i) + Tam(m.total["tg"], i)
      BY <2>2, <2>5 DEF Exacto
    <3>. HIDE DEF i, n
    <3>. QED  BY <2>2, <2>3, <2>4, <3>1, <3>2, AcumuladoSigue DEF Exacto
  <2>6. CASE c # "tg"
    <3>1. meta'[p].next["tg"] = meta[p].next["tg"] /\ meta'[p].disp["tg"] = meta[p].disp["tg"]
      BY <1>1, <2>4, <2>6 DEF Meta, Canal
    <3>. QED  BY <1>1, <2>4, <3>1 DEF Exacto
  <2>. QED  BY <2>4, <2>5, <2>6
<1>. QED  BY <1>2, <1>3, <1>4, <1>5, <1>6 DEF CambioMeta, NaceEn, BorradoEn

\* A snapshot is a plan as it was, with its WhatsApp total perhaps resolved.
LEMMA FotoPaso ==
  ASSUME TypeOK, FotoExacta, [Next]_vars, NEW x \in Ticks, tick'[x].en # "libre"
  PROVE  \/ /\ tick'[x].pid \in Planes /\ meta[tick'[x].pid].status # "nuevo"
            /\ tick'[x].m = meta[tick'[x].pid]
         \/ /\ tick[x].en # "libre" /\ tick'[x].pid = tick[x].pid
            /\ Exacto(tick'[x].m) /\ tick'[x].m.total["tg"] = tick[x].m.total["tg"]
<1>1. tick \in [Ticks -> Tick]
  BY DEF TypeOK
<1>. DEFINE Foto == \/ /\ tick'[x].pid \in Planes /\ meta[tick'[x].pid].status # "nuevo"
                       /\ tick'[x].m = meta[tick'[x].pid]
                    \/ /\ tick[x].en # "libre" /\ tick'[x].pid = tick[x].pid
                       /\ Exacto(tick'[x].m) /\ tick'[x].m.total["tg"] = tick[x].m.total["tg"]
<1>2. CASE tick'[x] = tick[x]
  BY <1>2 DEF FotoExacta
<1>3. ASSUME NEW d \in Ticks, Inicia(d), tick'[x] # tick[x]
      PROVE  Foto
  BY <1>1, <1>3 DEF Inicia, Listos
<1>4. ASSUME NEW d \in Ticks, CuentaWa(d), tick'[x] # tick[x]
      PROVE  Foto
  <2>1. PICK total \in WaConteos[tick[d].pid] :
          tick' = [tick EXCEPT ![d] = [@ EXCEPT !.en = "resuelve", !.m = Resuelto(tick[d].m, total)]]
    BY <1>4 DEF CuentaWa
  <2>2. x = d /\ tick[x].en # "libre"
    BY <1>1, <1>4, <2>1 DEF CuentaWa, EligeWa
  <2>3. tick'[x].m = Resuelto(tick[x].m, total) /\ tick'[x].pid = tick[x].pid
    BY <1>1, <2>1, <2>2 DEF Tick
  <2>4. total \in Nat /\ tick[x].m \in Meta
    BY <2>2, TickType, PlanDispatchAssumption
  <2>5. Resuelto(tick[x].m, total) \in Meta
    BY <2>4, ResueltoType
  <2>. QED  BY <2>2, <2>3, <2>4, <2>5, ExactoUpdate DEF Exacto, FotoExacta
<1>5. ASSUME NEW d \in Ticks, Volver(d) \/ (tick[d].en # "libre" /\ \E paso : Ir(d, paso)), tick'[x] # tick[x]
      PROVE  Foto
  <2>1. x = d
    BY <1>1, <1>5 DEF Volver, Ir
  <2>2. tick[x].en # "libre" /\ tick'[x].pid = tick[x].pid /\ tick'[x].m = tick[x].m
    BY <1>5, <2>1, PasoAjeno
  <2>. QED  BY <2>2 DEF FotoExacta
<1>. QED  BY <1>2, <1>3, <1>4, <1>5, TicksPaso

\* tg_dispatched never drifts from the lots claimed, though every tick computes
\* it from a snapshot that another tick may have made stale.
THEOREM DispatchedExact == Spec => []DespachadoExacto
<1>1. Init => FotoExacta
  BY PlanDispatchAssumption, AcumuladoCero
  DEF Init, FotoExacta, DespachadoExacto, Exacto, Vacio, Libre, Canal
<1>2. TypeOK /\ Nacidos /\ FotoExacta /\ [Next]_vars => FotoExacta'
  <2>. SUFFICES ASSUME TypeOK, Nacidos, FotoExacta, [Next]_vars
                PROVE  FotoExacta'
    OBVIOUS
  <2>1. TypeOK'
    BY TypeNext
  <2>2. \A p \in Planes : /\ Exacto(meta'[p])
                          /\ meta[p].status # "nuevo" /\ meta'[p].status \in Despachable =>
                               meta'[p].total["tg"] = meta[p].total["tg"]
    BY <2>1, ExactoPaso
  <2>3. ASSUME NEW x \in Ticks, tick'[x].en # "libre"
        PROVE  /\ Exacto(tick'[x].m)
               /\ meta'[tick'[x].pid].status \in Despachable =>
                    tick'[x].m.total["tg"] = meta'[tick'[x].pid].total["tg"]
    <3>1. CASE /\ tick'[x].pid \in Planes /\ meta[tick'[x].pid].status # "nuevo"
               /\ tick'[x].m = meta[tick'[x].pid]
      BY <2>2, <3>1 DEF FotoExacta, DespachadoExacto
    <3>2. CASE /\ tick[x].en # "libre" /\ tick'[x].pid = tick[x].pid
               /\ Exacto(tick'[x].m) /\ tick'[x].m.total["tg"] = tick[x].m.total["tg"]
      <4>1. tick[x].pid \in Planes /\ meta[tick[x].pid].status # "nuevo"
        BY <3>2, TickType DEF Nacidos
      <4>2. meta'[tick[x].pid].status \in Despachable => meta[tick[x].pid].status \in Despachable
        BY <4>1, AvancePaso DEF Avance
      <4>. QED  BY <2>2, <3>2, <4>1, <4>2 DEF FotoExacta
    <3>. QED  BY <2>3, <3>1, <3>2, FotoPaso
  <2>. QED  BY <2>2, <2>3 DEF FotoExacta, DespachadoExacto, Exacto
<1>3. ManoUnica => Nacidos
  BY DEF ManoUnica
<1>4. FotoExacta => DespachadoExacto
  BY DEF FotoExacta
<1>. QED  BY <1>1, <1>2, <1>3, <1>4, TypeCorrect, HandsApart, PTL DEF Spec

(* The dispatcher implements the contract of the plan store.               *)

\* What a step does to the sets of lots of the contract.
LEMMA ManosContrato ==
  ASSUME TypeOK, ManoUnica, [Next]_vars
  PROVE  /\ Queda => EnMano' = EnMano /\ Emitido' = Emitido
         /\ \A d \in Ticks : Deja(d) => EnMano' = EnMano \ {LoteDe(d)} /\ Emitido' = Emitido
         /\ \A d \in Ticks : Da(d) => EnMano' = EnMano \ {LoteDe(d)} /\ Emitido' = Emitido \cup {LoteDe(d)}
         /\ \A d \in Ticks, c \in Canal : Coge(d, c) =>
              EnMano' = EnMano \cup {<<tick[d].pid, c, tick[d].m.next[c]>>} /\ Emitido' = Emitido
<1>1. envios \in Seq(Envio) /\ DOMAIN envios = 1..Len(envios)
  BY DEF TypeOK
<1>2. MismosEnvios => Emitido' = Emitido
  <2>1. ASSUME MismosEnvios
        PROVE  DOMAIN envios' = DOMAIN envios /\ \A k \in DOMAIN envios : LoteEnvio(envios[k])' = LoteEnvio(envios[k])
    BY <1>1, <2>1 DEF MismosEnvios, LoteEnvio
  <2>. QED  BY <2>1 DEF Emitido
<1>3. ASSUME Queda
      PROVE  EnMano' = EnMano /\ Emitido' = Emitido
  BY <1>2, <1>3 DEF Queda, MismoLote, EnMano
<1>4. ASSUME NEW d \in Ticks, TieneLote(d), ~TieneLote(d)', SoloTick(d)
      PROVE  EnMano' = EnMano \ {LoteDe(d)}
  <2>1. \A x \in Ticks : TieneLote(x) /\ LoteDe(x) = LoteDe(d) => x = d
    BY <1>4 DEF ManoUnica, ManosDistintas
  <2>2. \A x \in Ticks : TieneLote(x)' <=> TieneLote(x) /\ x # d
    BY <1>4 DEF SoloTick, MismoLote
  <2>3. \A x \in Ticks : TieneLote(x)' => LoteDe(x)' = LoteDe(x)
    BY <1>4 DEF SoloTick, MismoLote
  <2>. QED  BY <2>1, <2>2, <2>3 DEF EnMano
<1>5. ASSUME NEW d \in Ticks, Da(d)
      PROVE  Emitido' = Emitido \cup {LoteDe(d)}
  <2>1. PICK e \in Envio : envios' = Append(envios, e) /\ LoteEnvio(e) = LoteDe(d)
    BY <1>5 DEF Da
  <2>2. DOMAIN envios' = 1..(Len(envios) + 1) /\ envios'[Len(envios) + 1] = e
        /\ \A k \in DOMAIN envios : envios'[k] = envios[k]
    BY <1>1, <2>1, AppendProperties
  <2>3. PICK n \in Nat : n = Len(envios)
    <3>1. Len(envios) \in Nat
      BY <1>1, LenProperties
    <3>. QED  BY <3>1
  <2>4. 1..(n + 1) = 1..n \cup {n + 1}
    OBVIOUS
  <2>5. DOMAIN envios' = DOMAIN envios \cup {n + 1}
    BY <1>1, <2>2, <2>3, <2>4
  <2>6. \A k \in DOMAIN envios : LoteEnvio(envios[k])' = LoteEnvio(envios[k])
    BY <2>2 DEF LoteEnvio
  <2>7. LoteEnvio(envios[n + 1])' = LoteDe(d)
    BY <2>1, <2>2, <2>3 DEF LoteEnvio
  <2>. QED  BY <2>5, <2>6, <2>7 DEF Emitido
<1>6. ASSUME NEW d \in Ticks, NEW c \in Canal, Coge(d, c)
      PROVE  EnMano' = EnMano \cup {<<tick[d].pid, c, tick[d].m.next[c]>>}
  <2>1. \A x \in Ticks : TieneLote(x)' <=> TieneLote(x) \/ x = d
    BY <1>6 DEF Coge, SoloTick, MismoLote
  <2>2. \A x \in Ticks : TieneLote(x) => x # d /\ LoteDe(x)' = LoteDe(x)
    BY <1>6 DEF Coge, SoloTick, MismoLote
  <2>3. LoteDe(d)' = <<tick[d].pid, c, tick[d].m.next[c]>>
    BY <1>6 DEF Coge
  <2>. QED  BY <2>1, <2>2, <2>3 DEF EnMano
<1>. QED  BY <1>2, <1>3, <1>4, <1>5, <1>6 DEF Deja, Da, Coge

\* What a step that claims nothing does to the life and cursors of its plan.
LEMMA VidaPaso ==
  ASSUME TypeOK, NEW p \in Planes, CambioQuieto(p)
  PROVE  LET v == Vida(meta[p].status)
             w == Vida(meta'[p].status)
             cero == [c \in Canal |-> 0]
         IN  \/ v = "nuevo" /\ w = "vivo" /\ meta'[p].next = cero
             \/ v # "nuevo" /\ w = "borrado" /\ meta'[p].next = cero
             \/ v \in {"vivo", "borrado"} /\ w = "cancelado" /\ meta'[p].next = meta[p].next
             \/ v = w /\ meta'[p].next = meta[p].next
<1>1. meta[p] \in Meta
  BY DEF TypeOK
<1>. USE DEF Vida, Despachable
<1>2. CASE NaceEn(p)
  BY <1>2 DEF NaceEn, crear, Vacio
<1>3. CASE meta'[p] = [meta[p] EXCEPT !.viejo = TRUE]
  BY <1>1, <1>3 DEF Meta
<1>4. CASE meta[p].status # "nuevo" /\ BorradoEn(p)
  BY <1>1, <1>4 DEF BorradoEn, Vacio, Meta, Estado, SinItem
<1>5. CASE meta[p].status # "nuevo" /\ Actualiza(p)
  <2>1. CASE meta'[p] = cancelar(meta[p])
    BY <1>1, <1>5, <2>1 DEF cancelar, Meta, Estado, SinItem
  <2>2. CASE meta'[p] # cancelar(meta[p])
    BY <1>1, <1>5, <2>2, UpdateVida DEF Actualiza
  <2>. QED  BY <1>5, <2>1, <2>2 DEF Actualiza
<1>. QED  BY <1>2, <1>3, <1>4, <1>5 DEF CambioQuieto

\* Overlapping ticks, stale snapshots, failures and deaths and all, what happens
\* to a plan is what its contract allows: every step of the dispatcher, of the
\* panel and of the workers is a step of PlanContract or none.
THEOREM ImplementsContract == Spec => CumpleContrato
<1>1. Init => Contrato!CInit
  <2>1. ASSUME Init
        PROVE  EnMano = {} /\ Emitido = {}
    BY <2>1 DEF Init, EnMano, Emitido, TieneLote, Libre
  <2>2. ASSUME Init
        PROVE  /\ [p \in Planes |-> Vida(meta[p].status)] = [p \in Planes |-> "nuevo"]
               /\ [p \in Planes |-> meta[p].next] = [p \in Planes |-> [c \in Canal |-> 0]]
    <3>1. \A p \in Planes : Vida(meta[p].status) = "nuevo" /\ meta[p].next = [c \in Canal |-> 0]
      BY <2>2 DEF Init, Vacio, Vida, Despachable
    <3>. QED  BY <3>1
  <2>. QED  BY <2>1, <2>2 DEF Contrato!CInit
<1>2. TypeOK /\ ManoUnica /\ [Next]_vars => [Contrato!CNext]_(Contrato!cvars)
  <2>. SUFFICES ASSUME TypeOK, ManoUnica, [Next]_vars
                PROVE  Contrato!CNext \/ UNCHANGED Contrato!cvars
    OBVIOUS
  <2>. DEFINE estado == [p \in Planes |-> Vida(meta[p].status)]
              cursor == [p \in Planes |-> meta[p].next]
  <2>1. Nacidos /\ meta \in [Planes -> Meta]
    BY DEF ManoUnica, TypeOK
  <2>2. UNCHANGED meta => UNCHANGED <<estado, cursor>>
    OBVIOUS
  <2>3. CASE Queda
    <3>1. UNCHANGED <<EnMano, Emitido>>
      BY <2>3, ManosContrato
    <3>2. ASSUME NEW p \in Planes, SoloPlan(p), CambioQuieto(p)
          PROVE  Contrato!CNext \/ UNCHANGED Contrato!cvars
      <4>1. /\ estado' = [estado EXCEPT ![p] = Vida(meta'[p].status)]
            /\ cursor' = [cursor EXCEPT ![p] = meta'[p].next]
        BY <3>2 DEF SoloPlan
      <4>2. estado[p] = Vida(meta[p].status) /\ cursor[p] = meta[p].next
        OBVIOUS
      <4>3. CASE Vida(meta[p].status) = "nuevo" /\ Vida(meta'[p].status) = "vivo"
                 /\ meta'[p].next = [c \in Canal |-> 0]
        <5>1. Contrato!Nace(p)
          BY <3>1, <4>1, <4>2, <4>3 DEF Contrato!Nace
        <5>. QED  BY <5>1 DEF Contrato!CNext
      <4>4. CASE Vida(meta[p].status) # "nuevo" /\ Vida(meta'[p].status) = "borrado"
                 /\ meta'[p].next = [c \in Canal |-> 0]
        <5>1. Contrato!Borra(p)
          BY <3>1, <4>1, <4>2, <4>4 DEF Contrato!Borra
        <5>. QED  BY <5>1 DEF Contrato!CNext
      <4>5. CASE Vida(meta[p].status) \in {"vivo", "borrado"} /\ Vida(meta'[p].status) = "cancelado"
                 /\ meta'[p].next = meta[p].next
        <5>1. cursor' = cursor
          BY <4>1, <4>2, <4>5
        <5>2. Contrato!Cancela(p)
          BY <3>1, <4>1, <4>2, <4>5, <5>1 DEF Contrato!Cancela
        <5>. QED  BY <5>2 DEF Contrato!CNext
      <4>6. CASE Vida(meta[p].status) = Vida(meta'[p].status) /\ meta'[p].next = meta[p].next
        <5>1. UNCHANGED <<estado, cursor>>
          BY <4>1, <4>2, <4>6
        <5>. QED  BY <3>1, <5>1 DEF Contrato!cvars
      <4>. QED  BY <3>2, <4>3, <4>4, <4>5, <4>6, VidaPaso
    <3>3. CASE UNCHANGED meta
      BY <2>2, <3>1, <3>3 DEF Contrato!cvars
    <3>. QED  BY <2>3, <3>2, <3>3 DEF Queda
  <2>4. ASSUME NEW d \in Ticks, Deja(d)
        PROVE  Contrato!CNext
    <3>1. LoteDe(d) \in EnMano /\ EnMano' = EnMano \ {LoteDe(d)} /\ Emitido' = Emitido
      BY <2>4, ManosContrato DEF Deja, EnMano
    <3>2. Contrato!Pierde(LoteDe(d))
      BY <2>2, <2>4, <3>1 DEF Contrato!Pierde, Deja
    <3>. QED  BY <3>1, <3>2 DEF Contrato!CNext
  <2>5. ASSUME NEW d \in Ticks, Da(d)
        PROVE  Contrato!CNext
    <3>1. /\ LoteDe(d) \in EnMano /\ EnMano' = EnMano \ {LoteDe(d)}
          /\ Emitido' = Emitido \cup {LoteDe(d)}
      BY <2>5, ManosContrato DEF Da, EnMano
    <3>2. LoteDe(d) \notin Emitido
      BY <2>5 DEF ManoUnica, ManosDistintas, Da, Emitido
    <3>3. Contrato!EntregaLote(LoteDe(d))
      BY <2>2, <2>5, <3>1, <3>2 DEF Contrato!EntregaLote, Da
    <3>. QED  BY <3>1, <3>3 DEF Contrato!CNext
  <2>6. ASSUME NEW d \in Ticks, NEW c \in Canal, Coge(d, c)
        PROVE  Contrato!CNext
    <3>. DEFINE p == tick[d].pid
                i == tick[d].m.next[c]
    <3>1. /\ EnMano' = EnMano \cup {<<p, c, i>>} /\ Emitido' = Emitido
          /\ ReclamaCon(p, d, c) /\ SoloPlan(p)
      BY <2>6, ManosContrato DEF Coge
    <3>2. p \in Planes /\ meta[p] \in Meta /\ i \in Nat
      BY <2>1, <3>1, TickType DEF ReclamaCon, Meta
    <3>3. meta[p].status \in Despachable /\ meta[p].next[c] = i
      BY <3>1 DEF ReclamaCon, Reclamable
    <3>4. meta'[p].status = "running" /\ meta'[p].next = [meta[p].next EXCEPT ![c] = i + 1]
      BY <3>1, <3>2 DEF ReclamaCon, registrar_dispatch, Meta
    <3>5. ~PasaCursor(<<p, c, i>>)
      BY <3>2, <3>3 DEF PasaCursor
    <3>6. <<p, c, i>> \notin EnMano \cup Emitido
      BY <3>5 DEF ManoUnica, CursorPasado, EnMano, Emitido
    <3>. HIDE DEF p, i
    <3>7. estado[p] = "vivo" /\ estado' = estado
      BY <3>1, <3>2, <3>3, <3>4 DEF SoloPlan, Vida, Despachable
    <3>8. cursor[p][c] = i /\ cursor' = [cursor EXCEPT ![p] = [cursor[p] EXCEPT ![c] = i + 1]]
      BY <3>1, <3>2, <3>3, <3>4 DEF SoloPlan
    <3>9. cursor' = [cursor EXCEPT ![p][c] = @ + 1]
      BY <3>8
    <3>10. Contrato!Toma(p, c)
      BY <3>1, <3>6, <3>7, <3>8, <3>9 DEF Contrato!Toma
    <3>. QED  BY <3>2, <3>10 DEF Contrato!CNext
  <2>. QED  BY <2>1, <2>3, <2>4, <2>5, <2>6, LotesNext
<1>. QED  BY <1>1, <1>2, TypeCorrect, HandsApart, PTL DEF Spec, CumpleContrato, Contrato!CSpec

(* One lot at a time, however many ticks overlap.                          *)

\* The lot in flight of an item m is lot i of channel c, of n recipients, and
\* the counters h of its job still leave room for it.
EnVuelo(m, h, c, i, n) ==
  /\ m.vuelo = [ch |-> c, idx |-> i]
  /\ 0 < n /\ h[c] + n <= m.disp[c]

\* What the snapshot of a tick t still says of the item m: its cursors are not
\* ahead, and one that has not moved has the same count; a WhatsApp total that it
\* has resolved is the one there is; the lot it measures is not a later one; a lot
\* in flight that it does not know of was claimed after it read; and the lot that
\* it holds is the one in flight.
CanalEn(t) == IF t.en = "encola" THEN "tg" ELSE "wa"
Atras(t, m) ==
  /\ t.m.total["tg"] = m.total["tg"]
  /\ \A c \in Canal : /\ t.m.next[c] <= m.next[c]
                      /\ t.m.next[c] = m.next[c] => t.m.disp[c] = m.disp[c]
MismoTotal(t, m) == t.m.resuelto => m.resuelto /\ t.m.total = m.total
Mide(t, m) ==
  /\ t.m.vuelo # SinVuelo
  /\ \A c \in Canal : t.m.vuelo.ch = c => t.m.vuelo.idx < m.next[c]
Posterior(t, m) == \A c \in Canal : m.vuelo.ch = c => t.m.next[c] < m.next[c]
EnMarcha(t) == t.en \in {"vuelo", "limpia", "elige", "resuelve"}
Sigue(p, t, m, h) ==
  /\ EnMarcha(t) => Atras(t, m)
  /\ EnMarcha(t) /\ t.en # "resuelve" => MismoTotal(t, m)
  /\ t.en \in {"vuelo", "limpia"} => Mide(t, m)
  /\ t.en = "vuelo" /\ m.vuelo = t.m.vuelo => t.m.target = m.target
  /\ t.en = "limpia" /\ m.vuelo = t.m.vuelo => m.disp[m.vuelo.ch] <= h[m.vuelo.ch]
  /\ t.en \in {"elige", "resuelve"} => Posterior(t, m)
  /\ t.en = "resuelve" => t.m.resuelto /\ p \in ConWa
  /\ t.en \in {"encola", "reenvia"} =>
       EnVuelo(m, h, CanalEn(t), t.m.next[CanalEn(t)],
               Tam(t.m.total[CanalEn(t)], t.m.next[CanalEn(t)]))

\* So it is with every tick at work on plan p.
Seguido(p) ==
  \A d \in Ticks : tick[d].en # "libre" /\ tick[d].pid = p => Sigue(p, tick[d], meta[p], bc[p].hecho)

\* The lots that may still be delivered: outstanding, or lost or discarded and
\* bound to come back, by a redrive or by themselves.
SinEntregar == {k \in DOMAIN envios : envios[k].est # "entregado"}

\* Whatever may still be delivered of plan p is its lot in flight, not counted yet.
Acotado(p) ==
  /\ \A c \in Canal : bc[p].hecho[c] <= meta[p].disp[c]
  /\ \A k \in SinEntregar :
       envios[k].pid = p => EnVuelo(meta[p], bc[p].hecho, envios[k].ch, envios[k].idx, envios[k].n)

\* Every lot claimed was delivered, or is in flight and not counted whole.
Entregado(p, c, i) ==
  \E k \in DOMAIN envios :
    envios[k].pid = p /\ envios[k].ch = c /\ envios[k].idx = i /\ envios[k].est = "entregado"
Cumplido(p) ==
  /\ p \notin ConWa \/ ~meta[p].resuelto => meta[p].total["wa"] = 0
  /\ meta[p].vuelo = SinVuelo \/ meta[p].vuelo.ch \in Canal
  /\ \A c \in Canal : meta[p].next[c] <= TotalLotes(meta[p].total[c])
  /\ \A c \in Canal : \A i \in 0..meta[p].next[c] - 1 :
       \/ Entregado(p, c, i)
       \/ meta[p].vuelo = [ch |-> c, idx |-> i] /\ bc[p].hecho[c] < meta[p].disp[c]
  /\ meta[p].status = "done" =>
       /\ meta[p].vuelo = SinVuelo /\ (p \in ConWa => meta[p].resuelto)
       /\ \A c \in Canal : TotalLotes(meta[p].total[c]) <= meta[p].next[c]

\* One lot of plan p may still be delivered at most, and none while a tick holds
\* one: lost lots included, for a lot that comes back is outstanding again. And
\* one tick at most holds one.
UnoSolo(p) ==
  /\ \A d, e \in Ticks :
       TieneLote(d) /\ TieneLote(e) /\ tick[d].pid = p /\ tick[e].pid = p => d = e
  /\ \A j, k \in SinEntregar : envios[j].pid = p /\ envios[k].pid = p => j = k
  /\ \A d \in Ticks, k \in SinEntregar : TieneLote(d) /\ tick[d].pid = p => envios[k].pid # p

\* A plan starts with nothing counted; a deleted one cannot be claimed from.
Origen(p) ==
  /\ meta[p].status = "nuevo" => \A c \in Canal : bc[p].hecho[c] = 0
  /\ p \in borrados => meta[p].status \notin Despachable \cup {"nuevo"}

\* The inductive invariant behind UnLoteALaVez and TerminadoEntregado.
EnOrden(p) ==
  /\ Origen(p)
  /\ p \notin anomalos \cup pisados =>
       /\ UnoSolo(p)
       /\ meta[p].status \in Despachable => Acotado(p) /\ Cumplido(p) /\ Seguido(p)
EnSecuencia == \A p \in Planes : EnOrden(p)

\* What a step leaves alone of plan p: its item (but for the age of its lot),
\* the counters of its job, its lots, and the tick at work on it, which may end.
MismaFicha(p) ==
  /\ meta'[p].status = meta[p].status /\ meta'[p].next = meta[p].next
  /\ meta'[p].disp = meta[p].disp /\ meta'[p].total = meta[p].total
  /\ meta'[p].resuelto = meta[p].resuelto
  /\ meta'[p].vuelo = meta[p].vuelo /\ meta'[p].target = meta[p].target
MismoHecho(p) == bc'[p].hecho = bc[p].hecho
MismaEntrega(p) ==
  \A k \in DOMAIN envios :
    envios[k].pid = p /\ envios[k].est = "entregado" => k \in DOMAIN envios' /\ envios'[k] = envios[k]
MismaPendencia(p) ==
  \A k \in SinEntregar' :
    envios'[k].pid = p =>
      /\ k \in SinEntregar /\ envios[k].pid = p
      /\ envios'[k].ch = envios[k].ch /\ envios'[k].idx = envios[k].idx /\ envios'[k].n = envios[k].n
MismosTicks(p) ==
  \A d \in Ticks : tick'[d].en # "libre" /\ tick'[d].pid = p => tick'[d] = tick[d]
MismoTodo(p) ==
  MismaFicha(p) /\ MismoHecho(p) /\ MismaEntrega(p) /\ MismaPendencia(p) /\ MismosTicks(p)

\* What is to be shown of a plan that no lot was let go of.
Bien(p) == /\ UnoSolo(p)
           /\ meta[p].status \in Despachable => Acotado(p) /\ Cumplido(p) /\ Seguido(p)

\* Each part of the invariant holds after a step that leaves alone what it reads.
LEMMA UnoMarco ==
  ASSUME NEW p \in Planes, UnoSolo(p), MismaPendencia(p),
         \A d \in Ticks : TieneLote(d)' /\ tick'[d].pid = p => TieneLote(d) /\ tick[d].pid = p
  PROVE  UnoSolo(p)'
BY DEF UnoSolo, MismaPendencia

\* Bounds stay when the item, the counters and the undelivered lots stay.
LEMMA AcotadoMarco ==
  ASSUME NEW p \in Planes, Acotado(p), MismaFicha(p), MismoHecho(p), MismaPendencia(p)
  PROVE  Acotado(p)'
BY DEF Acotado, MismaFicha, MismoHecho, MismaPendencia, EnVuelo

\* A lot delivered stays delivered.
LEMMA EntregadoMarco ==
  ASSUME NEW p \in Planes, MismaEntrega(p), NEW c, NEW i, Entregado(p, c, i)
  PROVE  Entregado(p, c, i)'
BY DEF Entregado, MismaEntrega

\* So does the account of the lots claimed.
LEMMA CumplidoMarco ==
  ASSUME NEW p \in Planes, Cumplido(p), MismaFicha(p), MismoHecho(p), MismaEntrega(p)
  PROVE  Cumplido(p)'
<1>1. \A c \in Canal : \A i \in 0..meta'[p].next[c] - 1 :
        \/ Entregado(p, c, i)'
        \/ meta'[p].vuelo = [ch |-> c, idx |-> i] /\ bc'[p].hecho[c] < meta'[p].disp[c]
  BY EntregadoMarco DEF Cumplido, MismaFicha, MismoHecho
<1>. QED  BY <1>1 DEF Cumplido, MismaFicha

\* What a tick sees of an item is what it sees of any other with the same fields.
LEMMA SigueIgual ==
  ASSUME NEW p \in Planes, NEW t, NEW m, NEW n, NEW h, Sigue(p, t, m, h),
         n.next = m.next, n.disp = m.disp, n.total = m.total, n.resuelto = m.resuelto,
         n.vuelo = m.vuelo, n.target = m.target
  PROVE  Sigue(p, t, n, h)
BY DEF Sigue, Atras, MismoTotal, Mide, Posterior, EnVuelo

\* A tick that is left alone, or ends, goes on seeing its plan as it is.
LEMMA SeguidoMarco ==
  ASSUME NEW p \in Planes, Seguido(p), MismaFicha(p), MismoHecho(p), MismosTicks(p)
  PROVE  Seguido(p)'
<1>1. \A t : Sigue(p, t, meta[p], bc[p].hecho) => Sigue(p, t, meta'[p], bc'[p].hecho)
  BY SigueIgual DEF MismaFicha, MismoHecho
<1>. QED  BY <1>1 DEF Seguido, MismosTicks

\* All of them together.
LEMMA Marco ==
  ASSUME NEW p \in Planes, Bien(p), MismoTodo(p)
  PROVE  Bien(p)'
<1>1. UnoSolo(p)'
  BY UnoMarco DEF Bien, MismoTodo, MismosTicks, TieneLote
<1>2. ASSUME meta'[p].status \in Despachable
      PROVE  Acotado(p)' /\ Cumplido(p)' /\ Seguido(p)'
  BY <1>2, AcotadoMarco, CumplidoMarco, SeguidoMarco DEF Bien, MismoTodo, MismaFicha
<1>. QED  BY <1>1, <1>2 DEF Bien

\* The types that the parts of the invariant rest on.
LEMMA TiposDe ==
  ASSUME TypeOK, NEW p \in Planes
  PROVE  /\ meta[p] \in Meta
         /\ bc[p] \in Trabajo /\ bc[p].hecho \in [Canal -> Nat]
         /\ DOMAIN envios = 1..Len(envios) /\ \A k \in DOMAIN envios : envios[k] \in Envio
         /\ SinEntregar \subseteq DOMAIN envios
         /\ BatchSize \in Nat \ {0}
<1>1. envios \in Seq(Envio)
  BY DEF TypeOK
<1>. QED  BY <1>1, PlanDispatchAssumption DEF TypeOK, Trabajo, SinEntregar

\* A plan begins uncounted, and one that was deleted does not come back.
LEMMA OrigenPaso ==
  ASSUME TypeOK, Nacidos, [Next]_vars, NEW p \in Planes, Origen(p)
  PROVE  Origen(p)'
<1>1. Avance(p)
  BY AvancePaso
<1>2. ASSUME meta'[p].status = "nuevo", NEW c \in Canal
      PROVE  bc'[p].hecho[c] = 0
  <2>1. meta[p].status = "nuevo" /\ bc[p].hecho[c] = 0
    BY <1>1, <1>2 DEF Avance, Origen
  <2>2. ASSUME NEW k \in DOMAIN envios, Entrega(k)
        PROVE  bc'[p] = bc[p]
    <3>1. envios[k].pid # p
      BY <2>1 DEF Nacidos
    <3>. QED  BY <2>2, <3>1, TiposDe
              DEF Entrega, Descarta, TomaTg, TomaWa, Cuenta, Recuenta, Pierde, TypeOK
  <2>3. ASSUME NEW q \in Planes, Crear(q)
        PROVE  bc'[p].hecho = bc[p].hecho
    BY <2>3, TiposDe DEF Crear, TypeOK, Trabajo
  <2>4. ASSUME NEW q \in Planes, BorraTrabajo(q)
        PROVE  bc'[p] = bc[p] \/ bc'[p] = SinTrabajo
    BY <2>4 DEF BorraTrabajo, TypeOK
  <2>5. CASE bc'[p] = bc[p]
    BY <2>1, <2>5
  <2>6. CASE bc'[p] = SinTrabajo
    BY <2>6 DEF SinTrabajo
  <2>7. UNCHANGED bc \/ (\E k \in DOMAIN envios : Entrega(k)) \/ (\E q \in Planes : Crear(q) \/ BorraTrabajo(q))
    BY DEF Next, vars, Avanza, Inicia, MideVuelo, LimpiaVuelo, ReclamaTg, ReclamaWa, Reclama, EncolaOk,
           EncolaFalla, CuentaWa, ResuelveWa, EsperaWa, ReenviaOk, ReenviaFalla, SueltaVuelo, Difiere, Finaliza,
           Muere, Vuelve, Cancela, Borra, Envejece, Vence, Cierra, Abre, Pausa, Reanuda, WaCae, WaVuelve,
           ConEntorno
  <2>. QED  BY <2>1, <2>2, <2>3, <2>4, <2>5, <2>6, <2>7
<1>3. ASSUME p \in borrados'
      PROVE  meta'[p].status \notin Despachable \cup {"nuevo"}
  <2>1. CASE p \in borrados
    BY <1>1, <2>1 DEF Origen, Avance
  <2>2. CASE p \notin borrados
    <3>1. Borra(p)
      BY <1>3, <2>2
      DEF Next, vars, Avanza, Inicia, MideVuelo, LimpiaVuelo, ReclamaTg, ReclamaWa, Reclama, EncolaOk,
          EncolaFalla, CuentaWa, ResuelveWa, EsperaWa, ReenviaOk, ReenviaFalla, SueltaVuelo, Difiere, Finaliza,
          Muere, Crear, Cancela, Borra, BorraTrabajo, Envejece, Vence, Cierra, Abre, Pausa, Reanuda, WaCae,
          WaVuelve, ConEntorno, Entrega, Descarta, TomaTg, TomaWa, Cuenta, Recuenta, Pierde, Vuelve
    <3>2. meta'[p] = [Vacio EXCEPT !.status = "borrado"]
      BY <3>1 DEF Borra, TypeOK
    <3>. QED  BY <3>2 DEF Vacio, Despachable
  <2>. QED  BY <2>1, <2>2
<1>. QED  BY <1>2, <1>3 DEF Origen

\* What becomes of the log when a lot changes state, or is handed over.
LEMMA PasaDe ==
  ASSUME TypeOK, NEW k \in DOMAIN envios,
         NEW est \in {"cola", "enviando", "entregado", "descartado", "perdido"}, Pasa(k, est)
  PROVE  /\ DOMAIN envios' = DOMAIN envios
         /\ \A j \in DOMAIN envios : j # k => envios'[j] = envios[j]
         /\ envios'[k].pid = envios[k].pid /\ envios'[k].ch = envios[k].ch
         /\ envios'[k].idx = envios[k].idx /\ envios'[k].n = envios[k].n /\ envios'[k].est = est
<1>1. envios[k] \in Envio
  BY TiposDe DEF TypeOK
<1>2. envios' = [envios EXCEPT ![k] = [envios[k] EXCEPT !.est = est]]
  BY DEF Pasa
<1>. QED  BY <1>1, <1>2 DEF Envio

\* The lot handed over is appended to the log as the tick holds it.
LEMMA EmiteDe ==
  ASSUME TypeOK, NEW d \in Ticks, TieneLote(d), Emite(d, CanalDe(d))
  PROVE  LET n == Len(envios) + 1  c == CanalDe(d)
         IN  /\ DOMAIN envios' = DOMAIN envios \cup {n}
             /\ \A j \in DOMAIN envios : j # n /\ envios'[j] = envios[j]
             /\ envios'[n].pid = tick[d].pid /\ envios'[n].ch = c
             /\ envios'[n].idx = tick[d].m.next[c]
             /\ envios'[n].n = Tam(tick[d].m.total[c], tick[d].m.next[c])
             /\ envios'[n].est = "cola"
<1>. DEFINE c == CanalDe(d)
            e == [pid |-> tick[d].pid, ch |-> c, idx |-> tick[d].m.next[c],
                  n |-> Tam(tick[d].m.total[c], tick[d].m.next[c]), est |-> "cola"]
<1>1. c \in Canal /\ tick[d].pid \in Planes
  BY TickType DEF CanalDe, Canal, TieneLote
<1>2. tick[d].m.next[c] \in Nat /\ tick[d].m.total[c] \in Nat
  BY <1>1, TickType DEF Meta
<1>3. Tam(tick[d].m.total[c], tick[d].m.next[c]) \in Nat
  BY <1>2, TamType
<1>4. e \in Envio
  BY <1>1, <1>2, <1>3 DEF Envio
<1>5. /\ e.pid = tick[d].pid /\ e.ch = c /\ e.idx = tick[d].m.next[c]
      /\ e.n = Tam(tick[d].m.total[c], tick[d].m.next[c]) /\ e.est = "cola"
  OBVIOUS
<1>6. envios' = Append(envios, e) /\ envios \in Seq(Envio)
  BY DEF Emite, TypeOK
<1>. HIDE DEF e
<1>7. /\ Len(envios') = Len(envios) + 1 /\ envios' \in Seq(Envio)
      /\ \A j \in 1..Len(envios) : envios'[j] = envios[j]
      /\ envios'[Len(envios) + 1] = e
  BY <1>4, <1>6, AppendProperties
<1>8. DOMAIN envios' = 1..(Len(envios) + 1) /\ DOMAIN envios = 1..Len(envios) /\ Len(envios) \in Nat
  BY <1>6, <1>7
<1>. QED  BY <1>5, <1>7, <1>8

\* Nobody, no lots.
LEMMA LotesCero == TotalLotes(0) = 0
BY PlanDispatchAssumption DEF TotalLotes

\* As many lots as a number can be.
LEMMA LotesNat ==
  ASSUME NEW total \in Nat
  PROVE  TotalLotes(total) \in Nat
BY PlanDispatchAssumption DEF TotalLotes

\* A new plan has no lot handed over, nothing counted and no tick at work.
LEMMA BienCrear ==
  ASSUME TypeOK, Nacidos, NEW p \in Planes, Crear(p), Origen(p), Bien(p)
  PROVE  Bien(p)'
<1>1. meta[p].status = "nuevo" /\ (\A c \in Canal : bc[p].hecho[c] = 0) /\ UNCHANGED <<tick, envios>>
  BY DEF Crear, Origen
<1>2. (\A k \in DOMAIN envios : envios[k].pid # p) /\ \A d \in Ticks : tick[d].en # "libre" => tick[d].pid # p
  BY <1>1 DEF Nacidos
<1>3. \E wa \in Nat, r \in BOOLEAN :
        meta' = [meta EXCEPT ![p] = crear(p, wa, r)] /\ (p \notin ConWa \/ ~r => wa = 0)
  BY PlanDispatchAssumption DEF Crear
<1>4. PICK wa \in Nat, r \in BOOLEAN : meta'[p] = crear(p, wa, r) /\ (p \notin ConWa \/ ~r => wa = 0)
  BY <1>3 DEF TypeOK
<1>5. /\ meta'[p].status = "pending" /\ meta'[p].next = [c \in Canal |-> 0]
      /\ meta'[p].disp = [c \in Canal |-> 0] /\ meta'[p].resuelto = r /\ meta'[p].vuelo = SinVuelo
      /\ meta'[p].total["wa"] = wa /\ \A c \in Canal : meta'[p].total[c] \in Nat
  BY <1>4, PlanDispatchAssumption DEF crear, Vacio, Canal
<1>6. bc'[p].hecho = bc[p].hecho
  BY TiposDe DEF Crear, TypeOK, Trabajo
<1>7. UnoSolo(p)'
  BY <1>1 DEF Bien, UnoSolo, SinEntregar, TieneLote
<1>8. Acotado(p)'
  BY <1>1, <1>2, <1>5, <1>6 DEF Acotado, SinEntregar
<1>9. Cumplido(p)'
  BY <1>4, <1>5, LotesNat DEF Cumplido
<1>10. Seguido(p)'
  BY <1>1, <1>2 DEF Seguido
<1>. QED  BY <1>7, <1>8, <1>9, <1>10 DEF Bien

\* The panel, the clock, the environment and the death of a tick.
LEMMA BienEntorno ==
  ASSUME TypeOK, Nacidos, NEW p \in Planes, Origen(p), Bien(p),
         \/ \E q \in Planes : Crear(q) \/ Cancela(q) \/ Borra(q) \/ BorraTrabajo(q) \/ Envejece(q) \/ Vence(q)
         \/ \E d \in Ticks : Muere(d)
         \/ \E c \in Canal : Cierra(c) \/ Abre(c)
         \/ Pausa \/ Reanuda \/ WaCae \/ WaVuelve \/ UNCHANGED vars
  PROVE  Bien(p)'
<1>0. meta \in [Planes -> Meta] /\ tick \in [Ticks -> Tick] /\ bc \in [Planes -> Trabajo]
  BY DEF TypeOK
<1>1. UNCHANGED envios => MismaEntrega(p) /\ MismaPendencia(p)
  BY DEF MismaEntrega, MismaPendencia, SinEntregar
<1>2. UNCHANGED tick => MismosTicks(p)
  BY DEF MismosTicks
<1>3. ASSUME UNCHANGED <<envios, tick, bc>>, NEW q \in Planes, q # p \/ MismaFicha(p),
             \A x \in Planes \ {q} : meta'[x] = meta[x]
      PROVE  Bien(p)'
  <2>1. MismaFicha(p)
    BY <1>3 DEF MismaFicha
  <2>2. MismoTodo(p)
    BY <1>1, <1>2, <1>3, <2>1 DEF MismoTodo, MismoHecho
  <2>. QED  BY <2>2, Marco
<1>4. ASSUME UNCHANGED <<envios, tick>>, meta'[p].status \notin Despachable
      PROVE  Bien(p)'
  BY <1>4 DEF Bien, UnoSolo, SinEntregar, TieneLote
<1>5. ASSUME NEW q \in Planes, Crear(q)
      PROVE  Bien(p)'
  <2>1. CASE q = p
    BY <1>5, <2>1, BienCrear
  <2>2. CASE q # p
    <3>1. meta'[p] = meta[p] /\ bc'[p] = bc[p] /\ UNCHANGED <<envios, tick>>
      BY <1>0, <1>5, <2>2 DEF Crear
    <3>2. MismoTodo(p)
      BY <1>1, <1>2, <3>1 DEF MismoTodo, MismaFicha, MismoHecho
    <3>. QED  BY <3>2, Marco
  <2>. QED  BY <2>1, <2>2
<1>6. ASSUME NEW q \in Planes, Cancela(q) \/ Borra(q)
      PROVE  Bien(p)'
  <2>0. UNCHANGED <<envios, tick, bc>>
    BY <1>6 DEF Cancela, Borra
  <2>1. CASE q = p
    <3>1. meta'[p] \in {cancelar(meta[p]), [Vacio EXCEPT !.status = "borrado"]}
      BY <1>0, <1>6, <2>1 DEF Cancela, Borra
    <3>2. cancelar(meta[p]).status = "canceled"
      BY <1>0 DEF cancelar, Meta
    <3>3. [Vacio EXCEPT !.status = "borrado"].status = "borrado"
      BY DEF Vacio
    <3>4. meta'[p].status \in {"canceled", "borrado"}
      BY <3>1, <3>2, <3>3
    <3>. QED  BY <1>4, <2>0, <3>4 DEF Despachable
  <2>2. CASE q # p
    BY <1>0, <1>3, <1>6, <2>0, <2>2 DEF Cancela, Borra
  <2>. QED  BY <2>1, <2>2
<1>7. ASSUME NEW q \in Planes, BorraTrabajo(q)
      PROVE  Bien(p)'
  <2>1. UNCHANGED <<envios, tick, meta>>
    BY <1>7 DEF BorraTrabajo
  <2>2. CASE q = p
    BY <1>4, <1>7, <2>1, <2>2 DEF BorraTrabajo, Origen
  <2>3. CASE q # p
    <3>1. bc'[p] = bc[p]
      BY <1>0, <1>7, <2>3 DEF BorraTrabajo
    <3>2. MismoTodo(p)
      BY <1>1, <1>2, <2>1, <3>1 DEF MismoTodo, MismaFicha, MismoHecho
    <3>. QED  BY <3>2, Marco
  <2>. QED  BY <2>2, <2>3
<1>8. ASSUME NEW q \in Planes, Envejece(q)
      PROVE  Bien(p)'
  <2>1. meta' = [meta EXCEPT ![q] = [meta[q] EXCEPT !.viejo = TRUE]] /\ UNCHANGED <<envios, tick, bc>>
    BY <1>8 DEF Envejece
  <2>2. q = p => MismaFicha(p)
    BY <1>0, <2>1 DEF MismaFicha, Meta
  <2>. QED  BY <1>0, <1>3, <2>1, <2>2
<1>9. ASSUME NEW d \in Ticks, Muere(d)
      PROVE  Bien(p)'
  <2>1. UNCHANGED <<meta, bc, envios>> /\ MismosTicks(p)
    BY <1>0, <1>9 DEF Muere, Volver, Libre, MismosTicks
  <2>2. MismoTodo(p)
    BY <1>1, <2>1 DEF MismoTodo, MismaFicha, MismoHecho
  <2>. QED  BY <2>2, Marco
<1>10. ASSUME UNCHANGED <<meta, bc, envios, tick>>
       PROVE  Bien(p)'
  BY <1>3, <1>10 DEF MismaFicha
<1>. QED
  BY <1>5, <1>6, <1>7, <1>8, <1>9, <1>10
  DEF Vence, Cierra, Abre, Pausa, Reanuda, WaCae, WaVuelve, ConEntorno, vars

\* The worker and the WhatsApp service: what they take, throw away or lose, and
\* what comes back, stays uncounted; what they count fits in the lot in flight.
LEMMA BienPasa ==
  ASSUME TypeOK, NEW p \in Planes, Bien(p), NEW k \in SinEntregar,
         NEW est \in {"cola", "enviando", "descartado", "perdido"}, Pasa(k, est), UNCHANGED <<meta, tick, bc>>
  PROVE  Bien(p)'
<1>1. k \in DOMAIN envios /\ envios[k].est # "entregado"
  BY DEF SinEntregar
<1>2. MismaEntrega(p) /\ MismaPendencia(p)
  BY <1>1, PasaDe DEF MismaEntrega, MismaPendencia, SinEntregar
<1>3. MismoTodo(p)
  BY <1>2 DEF MismoTodo, MismaFicha, MismoHecho, MismosTicks
<1>. QED  BY <1>3, Marco

\* What is counted belongs to the lot in flight, and fits in it.
LEMMA BienCuenta ==
  ASSUME TypeOK, NEW p \in Planes, Bien(p), NEW k \in DOMAIN envios, Cuenta(k)
  PROVE  Bien(p)'
<1>. DEFINE e == envios[k]  c == e.ch
<1>1. /\ e.est = "enviando" /\ k \in SinEntregar /\ Pasa(k, "entregado")
      /\ UNCHANGED <<meta, tick>>
  BY DEF Cuenta, SinEntregar
<1>2. PICK hechos \in 0..e.n : bc' = [bc EXCEPT ![e.pid] = Suma(bc[e.pid], c, hechos)]
  BY DEF Cuenta
<1>3. e \in Envio /\ c \in Canal /\ e.n \in Nat /\ hechos \in Nat /\ hechos <= e.n
  BY <1>2, TiposDe DEF Envio
<1>4. /\ DOMAIN envios' = DOMAIN envios /\ \A j \in DOMAIN envios : j # k => envios'[j] = envios[j]
      /\ envios'[k].pid = e.pid /\ envios'[k].ch = e.ch /\ envios'[k].idx = e.idx
      /\ envios'[k].est = "entregado"
  BY <1>1, PasaDe
<1>5. MismaEntrega(p) /\ MismaPendencia(p) /\ MismaFicha(p) /\ MismosTicks(p)
  BY <1>1, <1>4 DEF MismaEntrega, MismaPendencia, SinEntregar, MismaFicha, MismosTicks
<1>6. CASE e.pid # p
  <2>1. bc'[p] = bc[p]
    BY <1>2, <1>6 DEF TypeOK
  <2>2. MismoTodo(p)
    BY <1>5, <2>1 DEF MismoTodo, MismoHecho
  <2>. QED  BY <2>2, Marco
<1>7. CASE e.pid = p
  <2>. DEFINE h == bc[p].hecho  g == bc'[p].hecho  m == meta[p]
  <2>1. h \in [Canal -> Nat] /\ m \in Meta
    BY TiposDe
  <2>2. g \in [Canal -> Nat] /\ \A x \in Canal : h[x] <= g[x] /\ g[x] <= h[x] + IF x = c THEN hechos ELSE 0
    <3>1. bc[p] \in Trabajo /\ bc'[p] = Suma(bc[p], c, hechos)
      BY <1>2, <1>7 DEF TypeOK
    <3>2. g = IF bc[p].vivo THEN [h EXCEPT ![c] = h[c] + hechos] ELSE h
      BY <3>1 DEF Suma, Trabajo
    <3>. QED  BY <1>3, <2>1, <3>2
  <2>3. UnoSolo(p)'
    BY <1>1, <1>5, UnoMarco DEF Bien, TieneLote
  <2>4. \A j \in SinEntregar' : envios'[j].pid # p
    BY <1>1, <1>4, <1>5, <1>7 DEF MismaPendencia, Bien, UnoSolo, SinEntregar
  <2>5. \A d \in Ticks : tick[d].pid = p => ~TieneLote(d)
    BY <1>1, <1>7 DEF Bien, UnoSolo
  <2>. HIDE DEF h, g, m, c, e
  <2>6. ASSUME m.status \in Despachable
        PROVE  Acotado(p)' /\ Cumplido(p)' /\ Seguido(p)'
    <3>1. Acotado(p) /\ Cumplido(p) /\ Seguido(p)
      BY <2>6 DEF Bien, m
    <3>2. EnVuelo(m, h, c, e.idx, e.n)
      BY <1>1, <1>7, <3>1 DEF Acotado, m, h, c, e
    <3>3. m.disp \in [Canal -> Nat] /\ \A x \in Canal : h[x] <= m.disp[x]
      BY <2>1, <3>1 DEF Acotado, Meta, m, h
    <3>4. \A x \in Canal : g[x] <= m.disp[x]
      BY <1>3, <2>1, <2>2, <3>2, <3>3 DEF EnVuelo
    <3>5. Acotado(p)'
      BY <1>1, <2>4, <3>4 DEF Acotado, g, m
    <3>6. ASSUME NEW x \in Canal, NEW i \in 0..m.next[x] - 1
          PROVE  Entregado(p, x, i)'
      <4>1. CASE Entregado(p, x, i)
        BY <1>5, <4>1, EntregadoMarco
      <4>2. CASE m.vuelo = [ch |-> x, idx |-> i]
        <5>1. x = c /\ i = e.idx
          BY <3>2, <4>2 DEF EnVuelo
        <5>. QED  BY <1>4, <1>7, <5>1 DEF Entregado, c, e
      <4>. QED  BY <3>1, <4>1, <4>2 DEF Cumplido, m
    <3>7. Cumplido(p)'
      BY <1>1, <3>1, <3>6 DEF Cumplido, m
    <3>8. ASSUME NEW d \in Ticks, tick[d].en # "libre", tick[d].pid = p
          PROVE  Sigue(p, tick[d], m, g)
      <4>1. Sigue(p, tick[d], m, h) /\ tick[d].en \notin {"encola", "reenvia"}
        BY <2>5, <3>1, <3>8 DEF Seguido, TieneLote, m, h
      <4>2. m.vuelo.ch \in Canal
        BY <1>3, <3>2 DEF EnVuelo, c
      <4>3. tick[d].en = "limpia" /\ m.vuelo = tick[d].m.vuelo => m.disp[m.vuelo.ch] <= g[m.vuelo.ch]
        BY <2>1, <2>2, <3>3, <4>1, <4>2 DEF Sigue
      <4>. HIDE DEF EnVuelo
      <4>. QED  BY <4>1, <4>3 DEF Sigue
    <3>9. Seguido(p)'
      BY <1>1, <3>8 DEF Seguido, m, g
    <3>. QED  BY <3>5, <3>7, <3>9
  <2>. QED  BY <1>1, <2>3, <2>6 DEF Bien, m
<1>. QED  BY <1>6, <1>7

\* Every step of the worker and of the service; a lot counted twice is noted.
LEMMA BienEntrega ==
  ASSUME TypeOK, NEW p \in Planes, Bien(p), NEW k \in DOMAIN envios, Entrega(k), p \notin anomalos'
  PROVE  Bien(p)'
<1>1. CASE Descarta(k)
  BY <1>1, BienPasa DEF Descarta, SinEntregar
<1>2. CASE TomaTg(k) \/ TomaWa(k)
  BY <1>2, BienPasa DEF TomaTg, TomaWa, SinEntregar
<1>3. CASE Pierde(k)
  BY <1>3, BienPasa DEF Pierde, SinEntregar
<1>4. CASE Cuenta(k)
  BY <1>4, BienCuenta
<1>5. CASE Recuenta(k)
  <2>1. bc'[p] = bc[p] /\ UNCHANGED <<meta, tick, envios>>
    BY <1>5 DEF Recuenta, TypeOK
  <2>2. MismoTodo(p)
    BY <2>1 DEF MismoTodo, MismaFicha, MismoHecho, MismaEntrega, MismaPendencia, SinEntregar, MismosTicks
  <2>. QED  BY <2>2, Marco
<1>. QED  BY <1>1, <1>2, <1>3, <1>4, <1>5 DEF Entrega

\* A lot that comes back is still the lot in flight of its plan.
LEMMA BienRegresa ==
  ASSUME TypeOK, NEW p \in Planes, Bien(p), NEW k \in DOMAIN envios, Vuelve(k)
  PROVE  Bien(p)'
<1>1. k \in SinEntregar /\ Pasa(k, "cola") /\ UNCHANGED <<meta, tick, bc>>
  BY DEF Vuelve, SinEntregar
<1>. QED  BY <1>1, BienPasa

(* The tick at work.                                                       *)

\* A lot whose index is below the number of lots has somebody in it.
LEMMA TamPositivo ==
  ASSUME NEW total \in Nat, NEW i \in Nat, i < TotalLotes(total)
  PROVE  Tam(total, i) \in Nat /\ 0 < Tam(total, i)
<1>. DEFINE q == TotalLotes(total)
<1>1. BatchSize \in Nat \ {0}
  BY PlanDispatchAssumption
<1>2. q \in Nat /\ q * BatchSize <= total + BatchSize - 1
  BY <1>1 DEF TotalLotes
<1>3. (i + 1) * BatchSize <= q * BatchSize
  <2>1. i + 1 <= q
    BY <1>2
  <2>. HIDE DEF q
  <2>2. PICK x \in Nat : q = i + 1 + x
    <3>1. q - (i + 1) \in Nat /\ q = i + 1 + (q - (i + 1))
      BY <1>2, <2>1
    <3>. QED  BY <3>1
  <2>3. q * BatchSize = (i + 1) * BatchSize + x * BatchSize
    BY <1>1, <2>2
  <2>4. x * BatchSize \in Nat
    BY <1>1, <2>2
  <2>. QED  BY <1>1, <2>3, <2>4
<1>4. (i + 1) * BatchSize = i * BatchSize + BatchSize /\ i * BatchSize \in Nat
  BY <1>1
<1>. HIDE DEF q
<1>5. q * BatchSize \in Int
  BY <1>1, <1>2
<1>6. i * BatchSize < total
  BY <1>1, <1>2, <1>3, <1>4, <1>5
<1>. QED  BY <1>1, <1>4, <1>6 DEF Tam

\* A step of a tick touches its own plan only, and hands over its own lot only.
LEMMA AvanzaForma ==
  ASSUME TypeOK, NEW d \in Ticks, Avanza(d)
  PROVE  /\ UNCHANGED bc
         /\ \A x \in Ticks : x # d => tick'[x] = tick[x]
         /\ \A q \in Planes : tick[d].en = "libre" \/ tick[d].pid # q => meta'[q] = meta[q]
         /\ UNCHANGED envios \/ (TieneLote(d) /\ Emite(d, CanalDe(d)))
<1>0. meta \in [Planes -> Meta] /\ tick \in [Ticks -> Tick]
  BY DEF TypeOK
<1>. USE DEF Volver, Ir
<1>1. CASE Inicia(d)
  BY <1>0, <1>1 DEF Inicia
<1>2. CASE MideVuelo(d)
  BY <1>0, <1>2 DEF MideVuelo
<1>3. CASE LimpiaVuelo(d)
  BY <1>0, <1>3 DEF LimpiaVuelo
<1>4. ASSUME NEW c, Reclama(d, c), tick[d].en = "elige"
      PROVE  /\ UNCHANGED <<bc, envios>>
             /\ \A x \in Ticks : x # d => tick'[x] = tick[x]
             /\ \A q \in Planes : tick[d].en = "libre" \/ tick[d].pid # q => meta'[q] = meta[q]
  BY <1>0, <1>4 DEF Reclama
<1>5. CASE ReclamaTg(d) \/ ReclamaWa(d)
  BY <1>4, <1>5 DEF ReclamaTg, ReclamaWa, EligeWa
<1>6. CASE CuentaWa(d)
  BY <1>0, <1>6 DEF CuentaWa
<1>7. CASE ResuelveWa(d) \/ EsperaWa(d)
  BY <1>0, <1>7 DEF ResuelveWa, EsperaWa
<1>8. CASE EncolaOk(d) \/ EncolaFalla(d) \/ ReenviaOk(d) \/ ReenviaFalla(d)
  BY <1>0, <1>8 DEF EncolaOk, EncolaFalla, ReenviaOk, ReenviaFalla, TieneLote, CanalDe
<1>9. CASE SueltaVuelo(d) \/ Difiere(d) \/ Finaliza(d)
  BY <1>0, <1>9 DEF SueltaVuelo, Difiere, Finaliza
<1>. QED  BY <1>1, <1>2, <1>3, <1>5, <1>6, <1>7, <1>8, <1>9 DEF Avanza

\* What a tick hands over of another plan is no lot of this one.
LEMMA BienAjeno ==
  ASSUME TypeOK, NEW p \in Planes, Bien(p), NEW d \in Ticks, Avanza(d),
         tick[d].en = "libre" \/ tick[d].pid # p,
         tick'[d].en = "libre" \/ tick'[d].pid # p
  PROVE  Bien(p)'
<1>1. MismaEntrega(p) /\ MismaPendencia(p)
  <2>1. CASE UNCHANGED envios
    BY <2>1 DEF MismaEntrega, MismaPendencia, SinEntregar
  <2>2. CASE TieneLote(d) /\ Emite(d, CanalDe(d))
    <3>. DEFINE n == Len(envios) + 1
    <3>1. /\ DOMAIN envios' = DOMAIN envios \cup {n}
          /\ \A j \in DOMAIN envios : envios'[j] = envios[j]
          /\ envios'[n].pid # p
      BY <2>2, EmiteDe DEF TieneLote
    <3>. HIDE DEF n
    <3>. QED  BY <3>1 DEF MismaEntrega, MismaPendencia, SinEntregar
  <2>. QED  BY <2>1, <2>2, AvanzaForma
<1>2. MismosTicks(p) /\ meta'[p] = meta[p] /\ UNCHANGED bc
  BY AvanzaForma DEF MismosTicks
<1>3. MismoTodo(p)
  BY <1>1, <1>2 DEF MismoTodo, MismaFicha, MismoHecho
<1>. QED  BY <1>3, Marco

\* A step of one tick: it goes on seeing its plan, and so do those that see what
\* the step has made of it.
LEMMA SeguidoPor ==
  ASSUME TypeOK, NEW p \in Planes, NEW d \in Ticks, Avanza(d),
         tick'[d].en # "libre" /\ tick'[d].pid = p => Sigue(p, tick'[d], meta'[p], bc[p].hecho),
         \A e \in Ticks \ {d} :
           tick[e].en # "libre" /\ tick[e].pid = p => Sigue(p, tick[e], meta'[p], bc[p].hecho)
  PROVE  Seguido(p)'
BY AvanzaForma DEF Seguido

\* A step of one tick that leaves the plan alone.
LEMMA SeguidoQuieto ==
  ASSUME TypeOK, NEW p \in Planes, NEW d \in Ticks, Avanza(d), Seguido(p), UNCHANGED meta,
         tick'[d].en # "libre" /\ tick'[d].pid = p => Sigue(p, tick'[d], meta[p], bc[p].hecho)
  PROVE  Seguido(p)'
BY SeguidoPor DEF Seguido

\* A step after which the tick holds no lot, and no lot is handed over.
LEMMA UnoAvanza ==
  ASSUME TypeOK, NEW p \in Planes, Bien(p), NEW d \in Ticks, Avanza(d), UNCHANGED envios,
         tick'[d].en \notin {"encola", "reenvia"}
  PROVE  UnoSolo(p)'
<1>1. MismaPendencia(p)
  BY DEF MismaPendencia, SinEntregar
<1>2. \A x \in Ticks : TieneLote(x)' /\ tick'[x].pid = p => TieneLote(x) /\ tick[x].pid = p
  BY AvanzaForma DEF TieneLote
<1>. QED  BY <1>1, <1>2, UnoMarco DEF Bien

\* An empty mark names no channel.
LEMMA VueloVacio == SinVuelo.ch \notin Canal
<1>1. SinVuelo.ch = ""
  BY DEF SinVuelo
<1>. QED  BY <1>1 DEF Canal

\* A tick begins with the plan as it is.
LEMMA BienInicia ==
  ASSUME TypeOK, VueloCoherente, NEW p \in Planes, Bien(p), NEW d \in Ticks, Inicia(d), tick'[d].pid = p
  PROVE  Bien(p)'
<1>. DEFINE m == meta[p]  u == tick'[d]  h == bc[p].hecho
<1>1. tick \in [Ticks -> Tick] /\ UNCHANGED <<meta, envios, bc>> /\ Avanza(d)
  BY DEF TypeOK, Inicia, Avanza
<1>2. /\ m.status \in {"pending", "running"} /\ u.m = m
      /\ u.en = IF m.vuelo = SinVuelo THEN "elige" ELSE "vuelo"
  BY <1>1 DEF Inicia, Listos
<1>3. MismaFicha(p) /\ MismoHecho(p) /\ MismaEntrega(p) /\ MismaPendencia(p)
  BY <1>1 DEF MismaFicha, MismoHecho, MismaEntrega, MismaPendencia, SinEntregar
<1>4. UnoSolo(p)'
  BY <1>1, <1>2, UnoAvanza
<1>5. Acotado(p) /\ Cumplido(p) /\ Seguido(p)
  BY <1>2 DEF Bien, Despachable
<1>6. /\ m \in Meta /\ m.next \in [Canal -> Nat] /\ m.vuelo.idx \in Nat
      /\ m.vuelo # SinVuelo => m.next[m.vuelo.ch] = m.vuelo.idx + 1
  BY TiposDe DEF VueloCoherente, Meta, Lote
<1>. HIDE DEF m, u, h
<1>7. Atras(u, m) /\ MismoTotal(u, m)
  BY <1>2, <1>6 DEF Atras, MismoTotal
<1>8. Sigue(p, u, m, h)
  <2>1. CASE m.vuelo = SinVuelo
    <3>1. u.en = "elige" /\ Posterior(u, m)
      BY <1>2, <2>1, VueloVacio DEF Posterior
    <3>. QED  BY <1>7, <3>1 DEF Sigue
  <2>2. CASE m.vuelo # SinVuelo
    <3>1. u.en = "vuelo" /\ Mide(u, m)
      BY <1>2, <1>6, <2>2 DEF Mide
    <3>. QED  BY <1>2, <1>7, <3>1 DEF Sigue
  <2>. QED  BY <2>1, <2>2
<1>9. Seguido(p)'
  BY <1>1, <1>5, <1>8, SeguidoQuieto DEF u, m, h
<1>10. Acotado(p)' /\ Cumplido(p)'
  BY <1>3, <1>5, AcotadoMarco, CumplidoMarco
<1>. QED  BY <1>4, <1>9, <1>10 DEF Bien

\* A tick that only ends leaves all as it was.
LEMMA BienVuelve ==
  ASSUME TypeOK, NEW p \in Planes, Bien(p), NEW d \in Ticks, Volver(d), UNCHANGED <<meta, envios, bc>>
  PROVE  Bien(p)'
<1>1. MismosTicks(p)
  BY DEF TypeOK, Volver, Libre, MismosTicks
<1>2. MismoTodo(p)
  BY <1>1 DEF MismoTodo, MismaFicha, MismoHecho, MismaEntrega, MismaPendencia, SinEntregar
<1>. QED  BY <1>2, Marco

\* The lot in flight is cleared only when it was counted whole, or is let go.
LEMMA BienMide ==
  ASSUME TypeOK, VueloCoherente, NEW p \in Planes, Bien(p), NEW d \in Ticks, MideVuelo(d),
         tick[d].pid = p, p \notin anomalos'
  PROVE  Bien(p)'
<1>1. UNCHANGED <<meta, envios, bc>> /\ tick[d].en = "vuelo" /\ Avanza(d)
  BY DEF MideVuelo, Avanza
<1>2. CASE Volver(d)
  BY <1>1, <1>2, BienVuelve
<1>3. CASE Completo(d) /\ Ir(d, "limpia")
  <2>. DEFINE t == tick[d]  u == tick'[d]  m == meta[p]  h == bc[p].hecho
  <2>1. u.en = "limpia" /\ u.pid = p /\ u.m = t.m
    BY <1>3, PasoAjeno
  <2>2. MismaFicha(p) /\ MismoHecho(p) /\ MismaEntrega(p) /\ MismaPendencia(p)
    BY <1>1 DEF MismaFicha, MismoHecho, MismaEntrega, MismaPendencia, SinEntregar
  <2>3. UnoSolo(p)'
    BY <1>1, <2>1, UnoAvanza
  <2>4. m.vuelo # SinVuelo => m.target = m.disp[m.vuelo.ch]
    BY DEF VueloCoherente
  <2>5. h[t.m.vuelo.ch] >= t.m.target
    BY <1>3 DEF Completo
  <2>6. m.target \in Nat /\ t.m.target \in Nat
    BY TiposDe, TickType DEF Meta
  <2>. HIDE DEF t, u, m, h
  <2>7. ASSUME m.status \in Despachable
        PROVE  Sigue(p, u, m, h)
    <3>1. Sigue(p, t, m, h)
      BY <1>1, <2>7 DEF Bien, Seguido, t, m, h
    <3>2. t.en = "vuelo"
      BY <1>1 DEF t
    <3>3. Atras(u, m) /\ MismoTotal(u, m) /\ Mide(u, m)
      BY <2>1, <3>1, <3>2 DEF Sigue, EnMarcha, Atras, MismoTotal, Mide
    <3>4. ASSUME m.vuelo = u.m.vuelo
          PROVE  m.disp[m.vuelo.ch] <= h[m.vuelo.ch]
      <4>1. m.vuelo # SinVuelo
        BY <3>3, <3>4 DEF Mide
      <4>2. t.m.target = m.target /\ m.vuelo = t.m.vuelo
        BY <2>1, <3>1, <3>2, <3>4 DEF Sigue
      <4>3. m.disp[m.vuelo.ch] = t.m.target
        BY <2>4, <4>1, <4>2
      <4>. QED  BY <2>5, <2>6, <4>2, <4>3
    <3>. QED  BY <2>1, <3>3, <3>4 DEF Sigue
  <2>8. ASSUME m.status \in Despachable
        PROVE  Acotado(p)' /\ Cumplido(p)' /\ Seguido(p)'
    <3>1. Acotado(p) /\ Cumplido(p) /\ Seguido(p)
      BY <2>8 DEF Bien, m
    <3>2. Seguido(p)'
      BY <1>1, <2>7, <2>8, <3>1, SeguidoQuieto DEF u, m, h
    <3>. QED  BY <2>2, <3>1, <3>2, AcotadoMarco, CumplidoMarco
  <2>. QED  BY <1>1, <2>3, <2>8 DEF Bien, m
<1>. QED  BY <1>2, <1>3 DEF MideVuelo

\* What a tick at work on plan p, as long as it can be claimed from, rests on.
LEMMA Trabajando ==
  ASSUME TypeOK, Nacidos, [Next]_vars, NEW p \in Planes, Bien(p), NEW d \in Ticks,
         tick[d].en # "libre", tick[d].pid = p, meta'[p].status \in Despachable
  PROVE  /\ meta[p].status \in Despachable
         /\ Acotado(p) /\ Cumplido(p) /\ Sigue(p, tick[d], meta[p], bc[p].hecho)
<1>1. meta[p].status # "nuevo"
  BY DEF Nacidos
<1>2. meta[p].status \in Despachable
  BY <1>1, AvancePaso DEF Avance
<1>. QED  BY <1>2 DEF Bien, Seguido

\* Nothing is left to deliver of a plan without a lot in flight, or with one counted.
LEMMA NadaPorEntregar ==
  ASSUME TypeOK, NEW p \in Planes, Acotado(p),
         meta[p].vuelo = SinVuelo \/ meta[p].disp[meta[p].vuelo.ch] <= bc[p].hecho[meta[p].vuelo.ch]
  PROVE  \A k \in SinEntregar : envios[k].pid # p
<1>. SUFFICES ASSUME NEW k \in SinEntregar, envios[k].pid = p
              PROVE  FALSE
  OBVIOUS
<1>1. envios[k] \in Envio /\ meta[p] \in Meta /\ bc[p].hecho \in [Canal -> Nat]
  BY TiposDe
<1>. DEFINE c == envios[k].ch  n == envios[k].n  hc == bc[p].hecho[c]  dc == meta[p].disp[c]
<1>2. c \in Canal /\ n \in Nat /\ hc \in Nat /\ dc \in Nat
  BY <1>1 DEF Envio, Meta
<1>3. EnVuelo(meta[p], bc[p].hecho, c, envios[k].idx, n)
  BY DEF Acotado
<1>4. meta[p].vuelo.ch = c /\ 0 < n /\ hc + n <= dc
  BY <1>3 DEF EnVuelo
<1>5. meta[p].vuelo # SinVuelo
  BY <1>2, <1>4, VueloVacio
<1>6. dc <= hc
  BY <1>4, <1>5
<1>. HIDE DEF c, n, hc, dc
<1>. QED  BY <1>2, <1>4, <1>6

\* Nor is any lot of it undelivered.
LEMMA TodoEntregado ==
  ASSUME NEW p \in Planes, TypeOK, Cumplido(p),
         meta[p].vuelo = SinVuelo \/ meta[p].disp[meta[p].vuelo.ch] <= bc[p].hecho[meta[p].vuelo.ch],
         NEW c \in Canal, NEW i \in 0..meta[p].next[c] - 1
  PROVE  Entregado(p, c, i)
<1>1. CASE Entregado(p, c, i)
  BY <1>1
<1>2. CASE meta[p].vuelo = [ch |-> c, idx |-> i] /\ bc[p].hecho[c] < meta[p].disp[c]
  <2>1. meta[p].vuelo.ch = c
    BY <1>2
  <2>2. meta[p].vuelo # SinVuelo
    BY <2>1, VueloVacio
  <2>3. bc[p].hecho[c] \in Nat /\ meta[p].disp[c] \in Nat
    BY TiposDe DEF Meta
  <2>. QED  BY <1>2, <2>1, <2>2, <2>3
<1>. QED  BY <1>1, <1>2 DEF Cumplido

\* And no tick holds one.
LEMMA NadieTiene ==
  ASSUME TypeOK, NEW p \in Planes, Seguido(p),
         meta[p].vuelo = SinVuelo \/ meta[p].disp[meta[p].vuelo.ch] <= bc[p].hecho[meta[p].vuelo.ch],
         NEW e \in Ticks, tick[e].pid = p
  PROVE  tick[e].en \notin {"encola", "reenvia"}
<1>. DEFINE t == tick[e]  c == CanalEn(t)  m == meta[p]  h == bc[p].hecho
            n == Tam(t.m.total[c], t.m.next[c])
<1>. SUFFICES ASSUME t.en \in {"encola", "reenvia"}
              PROVE  FALSE
  OBVIOUS
<1>1. c \in Canal
  BY DEF CanalEn, Canal
<1>2. t.m \in Meta /\ m \in Meta /\ h \in [Canal -> Nat]
  BY TickType, TiposDe
<1>3. n \in Nat
  <2>1. t.m.total[c] \in Nat /\ t.m.next[c] \in Nat
    BY <1>1, <1>2 DEF Meta
  <2>. QED  BY <2>1, TamType
<1>4. h[c] \in Nat /\ m.disp[c] \in Nat
  BY <1>1, <1>2 DEF Meta
<1>5. EnVuelo(m, h, c, t.m.next[c], n)
  BY DEF Seguido, Sigue
<1>. HIDE DEF t, c, m, h, n
<1>6. m.vuelo.ch = c /\ 0 < n /\ h[c] + n <= m.disp[c]
  BY <1>5 DEF EnVuelo
<1>7. m.vuelo # SinVuelo
  BY <1>1, <1>6, VueloVacio
<1>8. m.disp[c] <= h[c]
  BY <1>6, <1>7 DEF m, h
<1>. QED  BY <1>3, <1>4, <1>6, <1>8

\* A clearing that writes over nothing forgets nothing: there was no lot in
\* flight, or it is the lot that the tick saw counted whole.
LEMMA BienLimpia ==
  ASSUME TypeOK, Nacidos, [Next]_vars, NEW p \in Planes, Bien(p), NEW d \in Ticks, LimpiaVuelo(d),
         tick[d].pid = p, p \notin pisados'
  PROVE  Bien(p)'
<1>. DEFINE t == tick[d]  u == tick'[d]  m == meta[p]  n == meta'[p]  h == bc[p].hecho
<1>1. UNCHANGED <<envios, bc>> /\ t.en = "limpia" /\ Avanza(d)
  BY DEF LimpiaVuelo, Avanza
<1>2. u.en = "elige" /\ u.pid = p /\ u.m = t.m
  BY PasoAjeno DEF LimpiaVuelo
<1>3. n = limpiar_inflight(m) /\ m \in Meta
  BY TiposDe DEF LimpiaVuelo, TypeOK
<1>4. /\ n.next = m.next /\ n.disp = m.disp /\ n.total = m.total /\ n.resuelto = m.resuelto
      /\ n.vuelo = SinVuelo /\ n.status = Upsert(m.status)
  BY <1>3 DEF limpiar_inflight, Meta
<1>5. MismaEntrega(p)
  BY <1>1 DEF MismaEntrega
<1>6. UnoSolo(p)'
  BY <1>1, <1>2, UnoAvanza
<1>7. m.vuelo \in {SinVuelo, t.m.vuelo}
  BY DEF LimpiaVuelo, Pisa
<1>8. ASSUME n.status \in Despachable
      PROVE  Acotado(p)' /\ Cumplido(p)' /\ Seguido(p)'
  <2>1. m.status \in Despachable /\ Acotado(p) /\ Cumplido(p) /\ Sigue(p, t, m, h) /\ Seguido(p)
    BY <1>1, <1>8, Trabajando DEF Bien
  <2>2. n.status = m.status
    BY <1>4, <2>1 DEF Upsert, SinItem, Despachable
  <2>3. m.vuelo = SinVuelo \/ m.disp[m.vuelo.ch] <= h[m.vuelo.ch]
    BY <1>1, <1>7, <2>1 DEF Sigue
  <2>4. Acotado(p)'
    BY <1>1, <1>4, <2>1, <2>3, NadaPorEntregar DEF Acotado, SinEntregar
  <2>5. \A c \in Canal : \A i \in 0..m.next[c] - 1 : Entregado(p, c, i)
    BY <2>1, <2>3, TodoEntregado
  <2>6. Cumplido(p)'
    BY <1>1, <1>4, <2>1, <2>2, <2>5, <1>5, EntregadoMarco DEF Cumplido
  <2>7. ASSUME NEW e \in Ticks, tick[e].en # "libre", tick[e].pid = p
        PROVE  /\ Sigue(p, tick[e], n, h)
               /\ tick[e].en = "limpia" => Atras(tick[e], n) /\ MismoTotal(tick[e], n)
    <3>1. Sigue(p, tick[e], m, h) /\ tick[e].en \notin {"encola", "reenvia"}
      BY <2>1, <2>3, <2>7, NadieTiene DEF Seguido
    <3>. HIDE DEF m, n, h
    <3>2. Posterior(tick[e], n)
      BY <1>4, VueloVacio DEF Posterior
    <3>3. Mide(tick[e], m) => n.vuelo # tick[e].m.vuelo
      BY <1>4 DEF Mide
    <3>. QED  BY <1>4, <3>1, <3>2, <3>3 DEF Sigue, EnMarcha, Atras, MismoTotal, Mide
  <2>8. Sigue(p, u, n, h)
    <3>1. Posterior(u, n)
      BY <1>4, VueloVacio DEF Posterior
    <3>2. Atras(t, n) /\ MismoTotal(t, n)
      BY <1>1, <2>7
    <3>3. Atras(u, n) /\ MismoTotal(u, n)
      BY <1>2, <3>2 DEF Atras, MismoTotal
    <3>. QED  BY <1>2, <3>1, <3>3 DEF Sigue
  <2>9. Seguido(p)'
    BY <1>1, <2>7, <2>8, SeguidoPor
  <2>. QED  BY <2>4, <2>6, <2>9
<1>. QED  BY <1>6, <1>8 DEF Bien

\* Resolving WhatsApp changes no lot already claimed: it was not resolved, and
\* then no lot of it was, or it was resolved with the same count.
LEMMA BienResuelve ==
  ASSUME TypeOK, Nacidos, [Next]_vars, NEW p \in Planes, Bien(p), NEW d \in Ticks, ResuelveWa(d),
         tick[d].pid = p, p \notin pisados'
  PROVE  Bien(p)'
<1>. DEFINE t == tick[d]  u == tick'[d]  m == meta[p]  n == meta'[p]  h == bc[p].hecho
<1>1. UNCHANGED <<envios, bc>> /\ t.en = "resuelve" /\ Avanza(d)
  BY DEF ResuelveWa, Avanza
<1>2. u.en = "elige" /\ u.pid = p /\ u.m = t.m
  BY PasoAjeno DEF ResuelveWa
<1>3. n = resolver_wa(m, t.m.total["wa"]) /\ m \in Meta /\ t.m \in Meta
  BY TiposDe, TickType DEF ResuelveWa, TypeOK
<1>4. /\ n.next = m.next /\ n.disp = m.disp /\ n.resuelto = TRUE
      /\ n.total = [m.total EXCEPT !["wa"] = t.m.total["wa"]]
      /\ n.vuelo = m.vuelo /\ n.target = m.target /\ n.status = Upsert(m.status)
  BY <1>3 DEF resolver_wa, Resuelto, Meta
<1>5. MismaEntrega(p) /\ MismaPendencia(p)
  BY <1>1 DEF MismaEntrega, MismaPendencia, SinEntregar
<1>6. UnoSolo(p)'
  BY <1>1, <1>2, UnoAvanza
<1>7. m.resuelto => m.total["wa"] = t.m.total["wa"]
  BY DEF ResuelveWa, Pisa
<1>8. /\ m.total \in [Canal -> Nat] /\ t.m.total \in [Canal -> Nat] /\ m.next \in [Canal -> Nat]
      /\ m.resuelto \in BOOLEAN
  BY <1>3 DEF Meta
<1>9. ASSUME n.status \in Despachable
      PROVE  Acotado(p)' /\ Cumplido(p)' /\ Seguido(p)'
  <2>1. m.status \in Despachable /\ Acotado(p) /\ Cumplido(p) /\ Sigue(p, t, m, h) /\ Seguido(p)
    BY <1>1, <1>9, Trabajando DEF Bien
  <2>2. /\ n.status = m.status /\ t.m.resuelto /\ p \in ConWa
        /\ Atras(t, m) /\ Posterior(t, m)
    BY <1>1, <1>4, <2>1 DEF Upsert, SinItem, Despachable, Sigue, EnMarcha
  <2>. HIDE DEF t, u, m, n, h
  <2>3. n.total["tg"] = m.total["tg"] /\ n.total["wa"] = t.m.total["wa"] /\ n.total \in [Canal -> Nat]
    BY <1>4, <1>8 DEF Canal
  <2>4. n.total = t.m.total
    <3>1. \A c \in Canal : n.total[c] = t.m.total[c]
      BY <2>2, <2>3 DEF Atras, Canal
    <3>. QED  BY <1>8, <2>3, <3>1
  <2>5. m.resuelto => n.total = m.total
    <3>1. m.resuelto => \A c \in Canal : n.total[c] = m.total[c]
      BY <1>7, <2>3 DEF Canal
    <3>. QED  BY <1>8, <2>3, <3>1
  <2>6. Acotado(p)'
    BY <1>1, <1>4, <1>5, <2>1 DEF Acotado, MismaPendencia, EnVuelo, m, n
  <2>7. Cumplido(p)'
    <3>1. \A c \in Canal : m.next[c] <= TotalLotes(m.total[c])
      BY <2>1 DEF Cumplido, m
    <3>2. ASSUME NEW c \in Canal
          PROVE  n.next[c] <= TotalLotes(n.total[c])
      <4>1. CASE n.total[c] = m.total[c]
        BY <1>4, <3>1, <4>1
      <4>2. CASE n.total[c] # m.total[c]
        <5>1. c = "wa" /\ ~m.resuelto
          BY <2>3, <2>5, <4>2 DEF Canal
        <5>2. m.total[c] = 0
          BY <2>1, <5>1 DEF Cumplido, m
        <5>3. m.next[c] = 0
          BY <1>8, <3>1, <5>2, LotesCero
        <5>. QED  BY <1>4, <2>3, <5>3, LotesNat
      <4>. QED  BY <4>1, <4>2
    <3>3. m.status = "done" => m.resuelto
      BY <2>1, <2>2 DEF Cumplido, m
    <3>4. n.status = "done" =>
            n.vuelo = SinVuelo /\ \A c \in Canal : TotalLotes(n.total[c]) <= n.next[c]
      BY <1>4, <2>1, <2>2, <2>5, <3>3 DEF Cumplido, m
    <3>5. \A c \in Canal : \A i \in 0..n.next[c] - 1 :
            \/ Entregado(p, c, i)'
            \/ n.vuelo = [ch |-> c, idx |-> i] /\ h[c] < n.disp[c]
      BY <1>4, <1>5, <2>1, EntregadoMarco DEF Cumplido, m, h
    <3>6. n.vuelo = SinVuelo \/ n.vuelo.ch \in Canal
      BY <1>4, <2>1 DEF Cumplido, m
    <3>. QED  BY <1>1, <1>4, <2>2, <3>2, <3>4, <3>5, <3>6 DEF Cumplido, n, h
  <2>8. ASSUME NEW e \in Ticks, tick[e].en # "libre", tick[e].pid = p
        PROVE  Sigue(p, tick[e], n, h)
    <3>1. Sigue(p, tick[e], m, h)
      BY <2>1, <2>8 DEF Seguido, m, h
    <3>2. Atras(tick[e], m) => Atras(tick[e], n)
      BY <1>4, <2>3 DEF Atras
    <3>3. MismoTotal(tick[e], m) => MismoTotal(tick[e], n)
      BY <1>4, <2>5 DEF MismoTotal
    <3>. QED  BY <1>4, <3>1, <3>2, <3>3 DEF Sigue, Mide, Posterior, EnVuelo
  <2>9. Sigue(p, u, n, h)
    <3>1. Atras(u, n) /\ Posterior(u, n)
      BY <1>2, <1>4, <2>2, <2>3 DEF Atras, Posterior
    <3>2. MismoTotal(u, n)
      BY <1>2, <1>4, <2>4 DEF MismoTotal
    <3>. QED  BY <1>2, <3>1, <3>2 DEF Sigue
  <2>10. Seguido(p)'
    BY <1>1, <2>8, <2>9, SeguidoPor DEF u, n, h
  <2>. QED  BY <2>6, <2>7, <2>10
<1>. QED  BY <1>6, <1>9 DEF Bien

\* Counting the WhatsApp targets changes only the snapshot of the tick.
LEMMA BienCuentaWa ==
  ASSUME TypeOK, NEW p \in Planes, Bien(p), NEW d \in Ticks, CuentaWa(d), tick[d].pid = p
  PROVE  Bien(p)'
<1>. DEFINE t == tick[d]  u == tick'[d]  m == meta[p]  h == bc[p].hecho
<1>1. UNCHANGED <<meta, envios, bc>> /\ t.en = "elige" /\ p \in ConWa /\ Avanza(d)
  BY DEF CuentaWa, EligeWa, Abierto, Pendiente, Avanza
<1>2. PICK total \in WaConteos[p] :
        tick' = [tick EXCEPT ![d] = [tick[d] EXCEPT !.en = "resuelve", !.m = Resuelto(tick[d].m, total)]]
  BY DEF CuentaWa
<1>3. u.en = "resuelve" /\ u.pid = p /\ u.m = Resuelto(t.m, total) /\ t.m \in Meta
  BY <1>2, TickType DEF TypeOK, Tick
<1>4. u.m.next = t.m.next /\ u.m.disp = t.m.disp /\ u.m.total["tg"] = t.m.total["tg"] /\ u.m.resuelto = TRUE
  BY <1>3 DEF Resuelto, Meta, Canal
<1>5. MismaFicha(p) /\ MismoHecho(p) /\ MismaEntrega(p) /\ MismaPendencia(p)
  BY <1>1 DEF MismaFicha, MismoHecho, MismaEntrega, MismaPendencia, SinEntregar
<1>6. UnoSolo(p)'
  BY <1>1, <1>3, UnoAvanza
<1>7. ASSUME m.status \in Despachable
      PROVE  Acotado(p)' /\ Cumplido(p)' /\ Seguido(p)'
  <2>1. Acotado(p) /\ Cumplido(p) /\ Seguido(p) /\ Sigue(p, t, m, h)
    BY <1>1, <1>7 DEF Bien, Seguido
  <2>2. Atras(t, m) /\ Posterior(t, m)
    BY <1>1, <2>1 DEF Sigue, EnMarcha
  <2>. HIDE DEF t, u, m, h
  <2>3. Atras(u, m) /\ Posterior(u, m)
    BY <1>4, <2>2 DEF Atras, Posterior
  <2>4. Sigue(p, u, m, h)
    BY <1>1, <1>3, <1>4, <2>3 DEF Sigue
  <2>5. Seguido(p)'
    BY <1>1, <2>1, <2>4, SeguidoQuieto DEF u, m, h
  <2>. QED  BY <1>5, <2>1, <2>5, AcotadoMarco, CumplidoMarco
<1>. QED  BY <1>1, <1>6, <1>7 DEF Bien

\* A claim that writes over nothing is made with all delivered: its lot becomes
\* the one in flight, and every other tick at work on the plan is left behind.
LEMMA BienReclama ==
  ASSUME TypeOK, Nacidos, [Next]_vars, NEW p \in Planes, Bien(p), NEW d \in Ticks, NEW c \in Canal,
         tick[d].en = "elige", Abierto(tick[d], c), c = "wa" => tick[d].m.resuelto, Reclama(d, c),
         tick[d].pid = p, Avanza(d), p \notin pisados'
  PROVE  Bien(p)'
<1>. DEFINE t == tick[d]  u == tick'[d]  m == meta[p]  n == meta'[p]  h == bc[p].hecho
            i == t.m.next[c]  s == Tam(t.m.total[c], i)
<1>1. UNCHANGED <<envios, bc>>
  BY DEF Reclama
<1>2. CASE Volver(d) /\ UNCHANGED meta
  BY <1>1, <1>2, BienVuelve
<1>3. CASE Reclamable(m, c, i)
  <2>1. /\ n = registrar_dispatch(m, c, i, t.m.disp[c] + s) /\ Ir(d, IF c = "tg" THEN "encola" ELSE "reenvia")
        /\ m.vuelo = SinVuelo
    BY <1>3 DEF Reclama, Pisa, TypeOK
  <2>2. u.en = (IF c = "tg" THEN "encola" ELSE "reenvia") /\ u.pid = p /\ u.m = t.m
    BY <2>1, PasoAjeno
  <2>3. /\ m \in Meta /\ t.m \in Meta /\ h \in [Canal -> Nat]
        /\ m.next \in [Canal -> Nat] /\ m.disp \in [Canal -> Nat] /\ m.total \in [Canal -> Nat]
    BY TiposDe, TickType DEF Meta
  <2>4. i \in Nat /\ s \in Nat /\ 0 < s /\ i < TotalLotes(t.m.total[c])
    <3>1. i \in Nat /\ t.m.total[c] \in Nat
      BY <2>3 DEF Meta
    <3>2. i < TotalLotes(t.m.total[c])
      BY DEF Abierto, Pendiente
    <3>. QED  BY <3>1, <3>2, TamPositivo
  <2>5. /\ n.status = "running" /\ n.total = m.total /\ n.resuelto = m.resuelto
        /\ n.next = [m.next EXCEPT ![c] = i + 1] /\ n.disp = [m.disp EXCEPT ![c] = t.m.disp[c] + s]
        /\ n.vuelo = [ch |-> c, idx |-> i]
    BY <2>1, <2>3 DEF registrar_dispatch, Meta
  <2>6. m.status \in Despachable /\ Acotado(p) /\ Cumplido(p) /\ Sigue(p, t, m, h) /\ Seguido(p)
    <3>1. n.status \in Despachable
      BY <2>5 DEF Despachable
    <3>. QED  BY <3>1, Trabajando DEF Bien
  <2>7. i = m.next[c] /\ t.m.disp[c] = m.disp[c] /\ t.m.total[c] = m.total[c]
    <3>1. Atras(t, m) /\ MismoTotal(t, m)
      BY <2>6 DEF Sigue, EnMarcha
    <3>2. i = m.next[c]
      BY <1>3 DEF Reclamable
    <3>. HIDE DEF t, m
    <3>. QED  BY <3>1, <3>2 DEF Atras, MismoTotal, Canal, i, t
  <2>8. \A k \in SinEntregar : envios[k].pid # p
    BY <2>1, <2>6, NadaPorEntregar
  <2>9. \A x \in Canal : \A j \in 0..m.next[x] - 1 : Entregado(p, x, j)
    BY <2>1, <2>6, TodoEntregado
  <2>10. MismaEntrega(p)
    BY <1>1 DEF MismaEntrega
  <2>11. \A e \in Ticks : tick[e].pid = p => tick[e].en \notin {"encola", "reenvia"}
    BY <2>1, <2>6, NadieTiene
  <2>12. \A e \in Ticks \ {d} : tick'[e] = tick[e]
    BY AvanzaForma
  <2>13. UnoSolo(p)'
    <3>1. \A e \in Ticks : TieneLote(e)' /\ tick'[e].pid = p => e = d
      BY <2>11, <2>12 DEF TieneLote
    <3>2. \A k \in SinEntregar' : envios'[k].pid # p
      BY <1>1, <2>8 DEF SinEntregar
    <3>. QED  BY <3>1, <3>2 DEF UnoSolo
  <2>14. \A x \in Canal : h[x] <= m.disp[x]
    BY <2>6 DEF Acotado
  <2>. HIDE DEF t, u, m, n, h, i, s
  <2>15. /\ h[c] + s <= n.disp[c]
         /\ \A x \in Canal : h[x] <= n.disp[x] /\ (x # c => n.next[x] = m.next[x] /\ n.disp[x] = m.disp[x])
    BY <2>3, <2>4, <2>5, <2>7, <2>14
  <2>16. n.next[c] = i + 1
    BY <2>3, <2>5
  <2>17. \A x \in Canal : m.next[x] \in Nat /\ n.next[x] \in Nat /\ m.next[x] <= n.next[x]
    BY <2>3, <2>4, <2>7, <2>15, <2>16
  <2>18. Acotado(p)'
    BY <1>1, <2>8, <2>15 DEF Acotado, SinEntregar, n, h
  <2>19. ASSUME NEW x \in Canal, NEW j \in 0..n.next[x] - 1
         PROVE  \/ Entregado(p, x, j)'
                \/ n.vuelo = [ch |-> x, idx |-> j] /\ h[x] < n.disp[x]
    <3>1. CASE j \in 0..m.next[x] - 1
      BY <2>9, <2>10, <3>1, EntregadoMarco
    <3>2. CASE j \notin 0..m.next[x] - 1
      <4>1. x = c
        BY <2>15, <2>19, <3>2
      <4>2. j = i
        BY <2>3, <2>4, <2>7, <2>16, <2>19, <3>2, <4>1
      <4>3. h[c] < n.disp[c]
        <5>1. h[c] \in Nat /\ n.disp[c] \in Nat
          BY <2>3, <2>4, <2>5, <2>7
        <5>. QED  BY <2>4, <2>15, <5>1
      <4>. QED  BY <2>5, <4>1, <4>2, <4>3
    <3>. QED  BY <3>1, <3>2
  <2>20. Cumplido(p)'
    <3>1. n.status # "done"
      BY <2>5
    <3>2. p \notin ConWa \/ ~n.resuelto => n.total["wa"] = 0
      BY <2>5, <2>6 DEF Cumplido, m
    <3>3. n.vuelo.ch \in Canal
      BY <2>5
    <3>4. ASSUME NEW x \in Canal
          PROVE  n.next[x] <= TotalLotes(n.total[x])
      <4>1. m.next[x] <= TotalLotes(m.total[x])
        BY <2>6 DEF Cumplido, m
      <4>2. CASE x # c
        BY <2>5, <2>15, <4>1, <4>2
      <4>3. CASE x = c
        <5>1. TotalLotes(m.total[c]) \in Nat
          BY <2>3, LotesNat
        <5>. QED  BY <2>4, <2>5, <2>7, <2>16, <4>3, <5>1
      <4>. QED  BY <4>2, <4>3
    <3>. QED  BY <1>1, <2>19, <3>1, <3>2, <3>3, <3>4 DEF Cumplido, n, h
  <2>21. Sigue(p, u, n, h)
    <3>1. CanalEn(u) = c /\ u.en \in {"encola", "reenvia"}
      BY <2>2 DEF CanalEn, Canal
    <3>2. EnVuelo(n, h, c, u.m.next[c], Tam(u.m.total[c], u.m.next[c]))
      BY <2>2, <2>4, <2>5, <2>15 DEF EnVuelo, i, s
    <3>. QED  BY <3>1, <3>2 DEF Sigue, EnMarcha
  <2>22. ASSUME NEW e \in Ticks, tick[e].en # "libre", tick[e].pid = p
         PROVE  Sigue(p, tick[e], n, h)
    <3>. DEFINE v == tick[e]
    <3>1. Sigue(p, v, m, h) /\ v.en \notin {"encola", "reenvia"}
      BY <2>6, <2>11, <2>22 DEF Seguido, m, h
    <3>2. v.m.next \in [Canal -> Nat] /\ v.m.vuelo.idx \in Nat
      BY <2>22, TickType DEF Meta, Lote
    <3>. HIDE DEF v
    <3>3. ASSUME Atras(v, m)
          PROVE  Atras(v, n) /\ v.m.next[c] < n.next[c]
      <4>1. \A x \in Canal : v.m.next[x] <= m.next[x] /\ v.m.next[x] \in Nat
        BY <3>2, <3>3 DEF Atras
      <4>2. v.m.next[c] < n.next[c]
        BY <2>4, <2>7, <2>16, <4>1
      <4>3. \A x \in Canal : v.m.next[x] <= n.next[x]
        BY <2>17, <4>1
      <4>4. \A x \in Canal : v.m.next[x] = n.next[x] => v.m.disp[x] = n.disp[x]
        BY <2>15, <2>17, <3>3, <4>1, <4>2 DEF Atras
      <4>. QED  BY <2>5, <3>3, <4>2, <4>3, <4>4 DEF Atras
    <3>4. MismoTotal(v, m) => MismoTotal(v, n)
      BY <2>5 DEF MismoTotal
    <3>5. ASSUME Mide(v, m)
          PROVE  Mide(v, n) /\ n.vuelo # v.m.vuelo
      <4>1. Mide(v, n)
        BY <2>17, <3>2, <3>5 DEF Mide
      <4>2. ASSUME n.vuelo = v.m.vuelo
            PROVE  FALSE
        <5>1. v.m.vuelo.ch = c /\ v.m.vuelo.idx = i
          BY <2>5, <4>2
        <5>2. i < m.next[c]
          BY <3>5, <5>1 DEF Mide
        <5>. QED  BY <2>4, <2>7, <5>2
      <4>. QED  BY <4>1, <4>2
    <3>6. Atras(v, m) => Posterior(v, n)
      BY <2>5, <3>3 DEF Posterior
    <3>7. Sigue(p, v, n, h)
      BY <3>1, <3>3, <3>4, <3>5, <3>6 DEF Sigue, EnMarcha
    <3>. QED  BY <3>7 DEF v
  <2>23. Seguido(p)'
    BY <1>1, <2>21, <2>22, SeguidoPor DEF u, n, h
  <2>. QED  BY <2>13, <2>18, <2>20, <2>23 DEF Bien
<1>. QED  BY <1>2, <1>3 DEF Reclama

\* The lot handed over is the lot in flight.
LEMMA BienEmite ==
  ASSUME TypeOK, NEW p \in Planes, Bien(p), NEW d \in Ticks, TieneLote(d), tick[d].pid = p,
         Emite(d, CanalDe(d)) \/ UNCHANGED envios, UNCHANGED <<meta, bc>>,
         Volver(d) \/ Ir(d, "suelta"), Avanza(d)
  PROVE  Bien(p)'
<1>. DEFINE t == tick[d]  u == tick'[d]  m == meta[p]  h == bc[p].hecho
            c == CanalDe(d)  n == Len(envios) + 1
<1>1. u.en \in {"libre", "suelta"}
  BY PasoAjeno
<1>2. m.status \in Despachable => Acotado(p) /\ Cumplido(p) /\ Sigue(p, t, m, h) /\ Seguido(p)
  BY DEF Bien, Seguido, TieneLote
<1>3. \A k \in SinEntregar : envios[k].pid # p
  BY DEF Bien, UnoSolo
<1>4. MismaEntrega(p)
  BY EmiteDe DEF MismaEntrega
<1>5. \A k \in SinEntregar' :
        envios'[k].pid = p => /\ k = n /\ envios'[k].ch = c /\ envios'[k].idx = t.m.next[c]
                              /\ envios'[k].n = Tam(t.m.total[c], t.m.next[c])
  <2>1. CASE UNCHANGED envios
    BY <1>3, <2>1 DEF SinEntregar
  <2>2. CASE Emite(d, c)
    <3>1. /\ DOMAIN envios' = DOMAIN envios \cup {n}
          /\ \A j \in DOMAIN envios : envios'[j] = envios[j]
          /\ envios'[n].ch = c /\ envios'[n].idx = t.m.next[c]
          /\ envios'[n].n = Tam(t.m.total[c], t.m.next[c])
      BY <2>2, EmiteDe
    <3>. HIDE DEF n, c, t
    <3>. QED  BY <1>3, <3>1 DEF SinEntregar
  <2>. QED  BY <2>1, <2>2
<1>6. UnoSolo(p)'
  <2>1. \A x \in Ticks : tick'[x].pid = p => ~TieneLote(x)'
    <3>1. \A x \in Ticks \ {d} : tick'[x] = tick[x]
      BY AvanzaForma
    <3>2. \A x \in Ticks \ {d} : tick[x].pid = p => ~TieneLote(x)
      BY DEF Bien, UnoSolo
    <3>. QED  BY <1>1, <3>1, <3>2 DEF TieneLote
  <2>. QED  BY <1>5, <2>1 DEF UnoSolo
<1>7. CanalEn(t) = c /\ t.en \in {"encola", "reenvia"}
  BY DEF CanalEn, CanalDe, TieneLote
<1>. HIDE DEF t, u, m, h, c, n
<1>8. ASSUME m.status \in Despachable
      PROVE  Acotado(p)' /\ Cumplido(p)' /\ Seguido(p)'
  <2>1. EnVuelo(m, h, c, t.m.next[c], Tam(t.m.total[c], t.m.next[c]))
    BY <1>2, <1>7, <1>8 DEF Sigue
  <2>2. Acotado(p)'
    BY <1>2, <1>5, <1>8, <2>1 DEF Acotado, m, h
  <2>3. Cumplido(p)'
    BY <1>2, <1>4, <1>8, CumplidoMarco DEF MismaFicha, MismoHecho
  <2>4. u.en # "libre" => Sigue(p, u, m, h)
    BY <1>1, <2>1 DEF Sigue, EnMarcha
  <2>5. Seguido(p)'
    BY <1>2, <1>8, <2>4, SeguidoQuieto DEF u, m, h
  <2>. QED  BY <2>2, <2>3, <2>5
<1>. QED  BY <1>6, <1>8 DEF Bien, m

\* A plan is closed when nothing is left of either channel: a tick that sees so
\* is behind in none, and no lot is in flight.
LEMMA BienFinaliza ==
  ASSUME TypeOK, Nacidos, [Next]_vars, NEW p \in Planes, Bien(p), NEW d \in Ticks, Finaliza(d),
         tick[d].pid = p
  PROVE  Bien(p)'
<1>. DEFINE t == tick[d]  u == tick'[d]  m == meta[p]  n == meta'[p]  h == bc[p].hecho
<1>1. UNCHANGED <<envios, bc>> /\ t.en = "elige" /\ u.en = "libre" /\ Avanza(d)
  BY PasoAjeno DEF Finaliza, Avanza
<1>2. n = finalizar(m) /\ m \in Meta /\ t.m \in Meta
  BY TiposDe, TickType DEF Finaliza, TypeOK
<1>3. MismaEntrega(p) /\ MismaPendencia(p)
  BY <1>1 DEF MismaEntrega, MismaPendencia, SinEntregar
<1>4. UnoSolo(p)'
  BY <1>1, UnoAvanza
<1>5. ASSUME n.status \in Despachable
      PROVE  Acotado(p)' /\ Cumplido(p)' /\ Seguido(p)'
  <2>1. m.status \in Despachable /\ Acotado(p) /\ Cumplido(p) /\ Sigue(p, t, m, h) /\ Seguido(p)
    BY <1>1, <1>5, Trabajando DEF Bien
  <2>2. /\ n.next = m.next /\ n.disp = m.disp /\ n.total = m.total /\ n.resuelto = m.resuelto
        /\ n.vuelo = SinVuelo /\ n.target = m.target
    BY <1>2, <2>1 DEF finalizar, Meta, Despachable
  <2>3. /\ Atras(t, m) /\ MismoTotal(t, m) /\ Posterior(t, m)
    BY <1>1, <2>1 DEF Sigue, EnMarcha
  <2>4. \A c \in Canal : ~Pendiente(t, c)
    BY DEF Finaliza
  <2>5. t.pid = p /\ m.next \in [Canal -> Nat] /\ t.m.next \in [Canal -> Nat] /\ m.total \in [Canal -> Nat]
    BY <1>2 DEF Meta
  <2>. HIDE DEF t, u, m, n, h
  <2>6. p \in ConWa => t.m.resuelto /\ m.resuelto
    BY <2>3, <2>4, <2>5 DEF Pendiente, MismoTotal, Canal
  <2>7. ASSUME NEW c \in Canal
        PROVE  TotalLotes(m.total[c]) <= m.next[c] /\ m.next[c] = t.m.next[c]
    <3>1. TotalLotes(m.total[c]) \in Nat /\ m.next[c] \in Nat /\ t.m.next[c] \in Nat
      BY <2>5, LotesNat
    <3>2. t.m.next[c] <= m.next[c] /\ m.next[c] <= TotalLotes(m.total[c])
      BY <2>1, <2>3 DEF Atras, Cumplido, m
    <3>3. TotalLotes(m.total[c]) <= t.m.next[c]
      <4>1. CASE c = "wa" /\ p \notin ConWa
        <5>1. m.total[c] = 0
          BY <2>1, <4>1 DEF Cumplido, m
        <5>. QED  BY <3>1, <5>1, LotesCero
      <4>2. CASE ~(c = "wa" /\ p \notin ConWa)
        <5>1. t.m.total[c] = m.total[c]
          BY <2>3, <2>6, <4>2 DEF Atras, MismoTotal, Canal
        <5>2. ~(t.m.next[c] < TotalLotes(t.m.total[c]))
          BY <2>4, <2>5, <4>2 DEF Pendiente
        <5>. QED  BY <3>1, <5>1, <5>2
      <4>. QED  BY <4>1, <4>2
    <3>. QED  BY <3>1, <3>2, <3>3
  <2>8. m.vuelo = SinVuelo
    <3>1. m.vuelo.ch \notin Canal
      BY <2>3, <2>5, <2>7 DEF Posterior
    <3>. QED  BY <2>1, <3>1 DEF Cumplido, m
  <2>9. Acotado(p)'
    BY <1>1, <2>1, <2>2, <2>8, NadaPorEntregar DEF Acotado, SinEntregar, m, n
  <2>10. \A c \in Canal : \A i \in 0..m.next[c] - 1 : Entregado(p, c, i)
    BY <2>1, <2>8, TodoEntregado DEF m
  <2>11. Cumplido(p)'
    BY <1>3, <2>1, <2>2, <2>6, <2>7, <2>10, EntregadoMarco DEF Cumplido, m, n
  <2>12. ASSUME NEW e \in Ticks, tick[e].en # "libre", tick[e].pid = p
         PROVE  Sigue(p, tick[e], n, h)
    <3>1. Sigue(p, tick[e], m, h)
      BY <2>1, <2>12 DEF Seguido, m, h
    <3>. QED  BY <2>2, <2>8, <3>1, SigueIgual
  <2>13. Seguido(p)'
    BY <1>1, <2>12, SeguidoPor DEF u, n, h
  <2>. QED  BY <2>9, <2>11, <2>13
<1>. QED  BY <1>4, <1>5 DEF Bien

\* Every step of a tick that writes over nothing keeps the plan in order.
LEMMA BienAvanza ==
  ASSUME TypeOK, Nacidos, VueloCoherente, [Next]_vars, NEW p \in Planes, Bien(p),
         NEW d \in Ticks, Avanza(d), p \notin anomalos' \cup pisados'
  PROVE  Bien(p)'
<1>1. CASE (tick[d].en = "libre" \/ tick[d].pid # p) /\ (tick'[d].en = "libre" \/ tick'[d].pid # p)
  BY <1>1, BienAjeno
<1>2. CASE tick[d].en # "libre" /\ tick[d].pid = p
  <2>1. CASE MideVuelo(d)
    BY <1>2, <2>1, BienMide
  <2>2. CASE LimpiaVuelo(d) \/ ResuelveWa(d) \/ CuentaWa(d)
    BY <1>2, <2>2, BienLimpia, BienResuelve, BienCuentaWa
  <2>3. CASE ReclamaTg(d) \/ ReclamaWa(d)
    BY <1>2, <2>3, BienReclama DEF ReclamaTg, ReclamaWa, EligeWa, Canal
  <2>4. CASE EsperaWa(d) \/ Difiere(d)
    BY <2>4, BienVuelve DEF EsperaWa, Difiere
  <2>5. CASE EncolaOk(d) \/ EncolaFalla(d) \/ ReenviaOk(d) \/ ReenviaFalla(d)
    BY <1>2, <2>5, BienEmite DEF EncolaOk, EncolaFalla, ReenviaOk, ReenviaFalla, TieneLote, CanalDe
  <2>6. CASE Finaliza(d)
    BY <1>2, <2>6, BienFinaliza
  <2>7. ~SueltaVuelo(d) /\ ~Inicia(d)
    BY <1>2 DEF SueltaVuelo, Inicia
  <2>. QED  BY <2>1, <2>2, <2>3, <2>4, <2>5, <2>6, <2>7 DEF Avanza
<1>3. CASE tick[d].en = "libre" /\ tick'[d].pid = p
  <2>1. Inicia(d)
    BY <1>3
    DEF Avanza, MideVuelo, LimpiaVuelo, ResuelveWa, CuentaWa, ReclamaTg, ReclamaWa, EligeWa, EsperaWa, Difiere,
        EncolaOk, EncolaFalla, ReenviaOk, ReenviaFalla, Finaliza, SueltaVuelo
  <2>. QED  BY <1>3, <2>1, BienInicia
<1>4. CASE tick[d].en # "libre" /\ tick[d].pid # p /\ tick'[d].en # "libre" /\ tick'[d].pid = p
  <2>1. ~Inicia(d)
    BY <1>4 DEF Inicia
  <2>2. Volver(d) \/ (\E paso : Ir(d, paso)) \/ CuentaWa(d)
    BY <2>1 DEF Avanza, MideVuelo, LimpiaVuelo, ResuelveWa, ReclamaTg, ReclamaWa, Reclama, EsperaWa, Difiere,
        EncolaOk, EncolaFalla, ReenviaOk, ReenviaFalla, Finaliza, SueltaVuelo
  <2>3. CASE CuentaWa(d)
    BY <1>4, <2>3 DEF CuentaWa, TypeOK, Tick
  <2>. QED  BY <1>4, <2>2, <2>3, PasoAjeno
<1>. QED  BY <1>1, <1>2, <1>3, <1>4

\* Every plan stays in order, however many ticks overlap, until a lot of it is let
\* go or a tick writes over what it has not read.
THEOREM PlansInOrder == Spec => []EnSecuencia
<1>1. Init => EnSecuencia
  <2>. SUFFICES ASSUME Init, NEW p \in Planes
                PROVE  EnOrden(p)
    BY DEF EnSecuencia
  <2>1. meta[p].status = "nuevo" /\ (\A c \in Canal : bc[p].hecho[c] = 0) /\ borrados = {}
    BY DEF Init, Vacio, SinTrabajo
  <2>2. SinEntregar = {}
    <3>1. envios = <<>>
      BY DEF Init
    <3>2. DOMAIN envios = {}
      BY <3>1
    <3>. QED  BY <3>2 DEF SinEntregar
  <2>3. \A d \in Ticks : ~TieneLote(d)
    BY DEF Init, Libre, TieneLote
  <2>. QED  BY <2>1, <2>2, <2>3 DEF EnOrden, Origen, UnoSolo, Despachable
<1>2. TypeOK /\ ManoUnica /\ VueloCoherente /\ EnSecuencia /\ [Next]_vars => EnSecuencia'
  <2>. SUFFICES ASSUME TypeOK, ManoUnica, VueloCoherente, EnSecuencia, [Next]_vars, NEW p \in Planes
                PROVE  EnOrden(p)'
    BY DEF EnSecuencia
  <2>1. EnOrden(p) /\ Nacidos
    BY DEF EnSecuencia, ManoUnica
  <2>2. Origen(p)'
    BY <2>1, OrigenPaso DEF EnOrden
  <2>3. ASSUME p \notin anomalos' \cup pisados'
        PROVE  Bien(p)'
    <3>1. p \notin anomalos \cup pisados
      BY <2>3
      DEF Next, vars, Avanza, Inicia, MideVuelo, LimpiaVuelo, ReclamaTg, ReclamaWa, Reclama, EncolaOk,
          EncolaFalla, CuentaWa, ResuelveWa, EsperaWa, ReenviaOk, ReenviaFalla, SueltaVuelo, Difiere, Finaliza,
          Muere, Crear, Cancela, Borra, BorraTrabajo, Envejece, Vence, Cierra, Abre, Pausa, Reanuda, WaCae,
          WaVuelve, ConEntorno, Entrega, Descarta, TomaTg, TomaWa, Cuenta, Recuenta, Pierde, Vuelve, Pisa
    <3>2. Bien(p)
      BY <2>1, <3>1 DEF EnOrden, Bien
    <3>3. ASSUME NEW d \in Ticks, Avanza(d)
          PROVE  Bien(p)'
      BY <2>1, <2>3, <3>2, <3>3, BienAvanza
    <3>4. ASSUME NEW k \in DOMAIN envios, Entrega(k)
          PROVE  Bien(p)'
      BY <2>3, <3>2, <3>4, BienEntrega
    <3>6. ASSUME NEW k \in DOMAIN envios, Vuelve(k)
          PROVE  Bien(p)'
      BY <3>2, <3>6, BienRegresa
    <3>5. CASE \/ \E q \in Planes : Crear(q) \/ Cancela(q) \/ Borra(q) \/ BorraTrabajo(q) \/ Envejece(q) \/ Vence(q)
               \/ \E d \in Ticks : Muere(d)
               \/ \E c \in Canal : Cierra(c) \/ Abre(c)
               \/ Pausa \/ Reanuda \/ WaCae \/ WaVuelve \/ UNCHANGED vars
      BY <2>1, <3>2, <3>5, BienEntorno DEF EnOrden
    <3>. QED  BY <3>3, <3>4, <3>5, <3>6 DEF Next
  <2>. QED  BY <2>2, <2>3 DEF EnOrden, Bien
<1>. QED  BY <1>1, <1>2, TypeCorrect, HandsApart, FlightCoherent, PTL DEF Spec

\* Two lots of a plan are outstanding only when one was let go unfinished or
\* counted twice, or a tick wrote over what another had written: however many
\* ticks overlap, LimpiaVuelo, Reclama and ResuelveWa are the only places for it.
THEOREM OneLotAtATime == Spec => []UnLoteALaVez
<1>1. TypeOK /\ EnSecuencia => UnLoteALaVez
  <2>. SUFFICES ASSUME TypeOK, EnSecuencia, NEW j \in Pendientes, NEW k \in Pendientes,
                       envios[j].pid = envios[k].pid, envios[j].pid \notin anomalos \cup pisados
                PROVE  j = k
    BY DEF UnLoteALaVez
  <2>. DEFINE p == envios[j].pid
  <2>1. DOMAIN envios = 1..Len(envios) /\ \A x \in DOMAIN envios : envios[x] \in Envio
    BY DEF TypeOK
  <2>2. p \in Planes
    BY <2>1 DEF Pendientes, Envio
  <2>3. UnoSolo(p)
    BY <2>2 DEF EnSecuencia, EnOrden
  <2>4. j \in SinEntregar /\ k \in SinEntregar
    BY DEF Pendientes, SinEntregar
  <2>. QED  BY <2>3, <2>4 DEF UnoSolo
<1>. QED  BY <1>1, TypeCorrect, PlansInOrder, PTL

\* A plan reported "done" was delivered whole, with the same exceptions, however
\* many ticks overlap: an older snapshot that finds nothing left closes no plan
\* that another tick is still sending.
THEOREM DoneMeansDelivered == Spec => []TerminadoEntregado
<1>1. TypeOK /\ EnSecuencia => TerminadoEntregado
  <2>. SUFFICES ASSUME TypeOK, EnSecuencia, NEW p \in Planes \ (anomalos \cup pisados), meta[p].status = "done",
                       NEW c \in Canal, NEW i \in 0..TotalLotes(meta[p].total[c]) - 1
                PROVE  Entregado(p, c, i)
    BY DEF TerminadoEntregado, Entregado
  <2>1. Cumplido(p)
    BY DEF EnSecuencia, EnOrden, Despachable
  <2>2. meta[p].next[c] \in Nat /\ meta[p].total[c] \in Nat
    BY TiposDe DEF Meta
  <2>3. TotalLotes(meta[p].total[c]) \in Int /\ TotalLotes(meta[p].total[c]) <= meta[p].next[c]
    BY <2>1, <2>2, PlanDispatchAssumption DEF Cumplido, TotalLotes
  <2>4. i \in 0..meta[p].next[c] - 1
    BY <2>2, <2>3
  <2>5. meta[p].vuelo = SinVuelo
    BY <2>1 DEF Cumplido
  <2>. QED  BY <2>1, <2>4, <2>5, TodoEntregado
<1>. QED  BY <1>1, TypeCorrect, PlansInOrder, PTL
=============================================================================
