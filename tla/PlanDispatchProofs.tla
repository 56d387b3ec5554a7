------------------------- MODULE PlanDispatchProofs -------------------------
(***************************************************************************)
(* Theorems of PlanDispatch for every set of plans, every number of ticks, *)
(* every batch size and every bound.                                       *)
(***************************************************************************)
EXTENDS PlanDispatch, SequenceTheorems, TLAPS

(* Types of the updates of the plan store.                                 *)

\* An in_flight mark is a lot.
LEMMA LoteType ==
  /\ SinVuelo \in Lote
  /\ \A c \in Canal, i \in Nat : [ch |-> c, idx |-> i] \in Lote
BY DEF SinVuelo, Lote

\* A plan that does not exist yet has the shape of an item.
LEMMA VacioType == Vacio \in Meta
BY LoteType DEF Vacio, Meta, Estado, SinItem, Canal

\* The size of a lot is a number.
LEMMA TamType ==
  ASSUME NEW total \in Nat, NEW i \in Nat
  PROVE  Tam(total, i) \in Nat
BY PlanDispatchAssumption DEF Tam

\* Neither has a plan that has just been created.
LEMMA CrearType ==
  ASSUME NEW p \in Planes, NEW wa \in Nat, NEW r \in BOOLEAN
  PROVE  crear(p, wa, r) \in Meta
<1>1. [c \in Canal |-> IF c = "tg" THEN TgTotal[p] ELSE wa] \in [Canal -> Nat]
  BY PlanDispatchAssumption
<1>. QED  BY <1>1, VacioType DEF crear, Meta, Estado, Despachable

\* So does an item, or a snapshot, whose WhatsApp total is now known.
LEMMA ResueltoType ==
  ASSUME NEW m \in Meta, NEW total \in Nat
  PROVE  Resuelto(m, total) \in Meta
<1>1. [m.total EXCEPT !["wa"] = total] \in [Canal -> Nat]
  BY DEF Meta, Canal
<1>. QED  BY <1>1 DEF Resuelto, Meta

\* Every update leaves an item that is a plan item.
LEMMA UpdateType ==
  ASSUME NEW m \in Meta
  PROVE  /\ limpiar_inflight(m) \in Meta
         /\ \A total \in Nat : resolver_wa(m, total) \in Meta
         /\ \A c \in Canal, i \in Nat, n \in Nat : registrar_dispatch(m, c, i, n) \in Meta
         /\ finalizar(m) \in Meta
         /\ cancelar(m) \in Meta
<1>1. limpiar_inflight(m) \in Meta
  BY LoteType DEF limpiar_inflight, Upsert, Meta, Estado, SinItem, Despachable
<1>2. ASSUME NEW total \in Nat
      PROVE  resolver_wa(m, total) \in Meta
  <2>1. Resuelto(m, total) \in Meta
    BY ResueltoType
  <2>2. \A st \in Estado : Upsert(st) \in Estado
    BY DEF Upsert, Estado, SinItem, Despachable
  <2>. QED  BY <2>1, <2>2 DEF resolver_wa, Meta
<1>3. ASSUME NEW c \in Canal, NEW i \in Nat, NEW n \in Nat
      PROVE  registrar_dispatch(m, c, i, n) \in Meta
  <2>1. [m.next EXCEPT ![c] = i + 1] \in [Canal -> Nat]
    BY DEF Meta
  <2>2. [m.disp EXCEPT ![c] = n] \in [Canal -> Nat]
    BY DEF Meta
  <2>3. "running" \in Estado /\ [ch |-> c, idx |-> i] \in Lote
    BY LoteType DEF Estado, Despachable
  <2>. QED  BY <2>1, <2>2, <2>3 DEF registrar_dispatch, Meta
<1>4. finalizar(m) \in Meta
  BY LoteType DEF finalizar, Meta, Estado, SinItem, Despachable
<1>5. cancelar(m) \in Meta
  BY LoteType DEF cancelar, Meta, Estado
<1>. QED  BY <1>1, <1>2, <1>3, <1>4, <1>5

(* Type correctness.                                                       *)

\* A tick that is under way works on a plan, and on a well-formed snapshot.
LEMMA TickType ==
  ASSUME TypeOK, NEW d \in Ticks
  PROVE  /\ tick[d] \in Tick /\ tick[d].m \in Meta
         /\ tick[d].en # "libre" => tick[d].pid \in Planes
BY DEF TypeOK, Tick

\* A tick that changes step, or ends, keeps the type of the ticks.
TickOK == /\ tick \in [Ticks -> Tick]
          /\ \A d \in Ticks : tick[d].en # "libre" => tick[d].pid \in Planes
\* A tick that ends, or moves on with its snapshot, keeps the types of the ticks.
LEMMA PasoType ==
  ASSUME TypeOK, NEW d \in Ticks
  PROVE  /\ Volver(d) => TickOK'
         /\ \A paso \in {"vuelo", "limpia", "elige", "resuelve", "encola", "reenvia", "suelta"} :
              tick[d].en # "libre" /\ Ir(d, paso) => TickOK'
<1>. USE DEF TickOK, TypeOK
<1>1. ASSUME Volver(d) PROVE TickOK'
  <2>1. Libre \in Tick
    BY VacioType DEF Libre, Tick, Canal
  <2>. QED  BY <1>1, <2>1 DEF Volver, Libre
<1>2. ASSUME NEW paso \in {"vuelo", "limpia", "elige", "resuelve", "encola", "reenvia", "suelta"},
             tick[d].en # "libre", Ir(d, paso)
      PROVE  TickOK'
  <2>1. [tick[d] EXCEPT !.en = paso] \in Tick
    BY TickType DEF Tick
  <2>2. tick' = [tick EXCEPT ![d] = [tick[d] EXCEPT !.en = paso]]
    BY <1>2 DEF Ir
  <2>. QED  BY <1>2, <2>1, <2>2 DEF Tick
<1>. QED  BY <1>1, <1>2

\* A lot of the log that changes its state is still a lot.
LEMMA PasaType ==
  ASSUME TypeOK, NEW k \in DOMAIN envios,
         NEW est \in {"cola", "enviando", "entregado", "descartado", "perdido"}, Pasa(k, est)
  PROVE  envios' \in Seq(Envio)
<1>1. envios \in Seq(Envio) /\ k \in 1..Len(envios)
  BY DEF TypeOK
<1>2. envios[k] \in Envio
  BY <1>1
<1>3. [envios[k] EXCEPT !.est = est] \in Envio
  BY <1>2 DEF Envio
<1>4. envios' = [envios EXCEPT ![k] = [envios[k] EXCEPT !.est = est]]
  BY DEF Pasa
<1>. QED  BY <1>1, <1>3, <1>4, ExceptSeq

\* A lot handed over by a tick is a lot of the log.
LEMMA EmiteType ==
  ASSUME TypeOK, NEW d \in Ticks, NEW c \in Canal, tick[d].en # "libre", Emite(d, c)
  PROVE  envios' \in Seq(Envio)
<1>1. tick[d].m.next[c] \in Nat /\ tick[d].m.total[c] \in Nat /\ tick[d].pid \in Planes
  BY TickType DEF Meta
<1>2. Tam(tick[d].m.total[c], tick[d].m.next[c]) \in Nat
  BY <1>1, TamType
<1>. DEFINE e == [pid |-> tick[d].pid, ch |-> c, idx |-> tick[d].m.next[c],
                  n |-> Tam(tick[d].m.total[c], tick[d].m.next[c]), est |-> "cola"]
<1>3. e \in Envio
  BY <1>1, <1>2 DEF Envio
<1>4. envios' = Append(envios, e)
  BY DEF Emite
<1>. HIDE DEF e
<1>. QED  BY <1>3, <1>4, AppendProperties DEF TypeOK

\* Counting a lot leaves the counters of the job natural numbers.
LEMMA HechoType ==
  ASSUME NEW b \in Trabajo, NEW c \in Canal, NEW h \in Nat
  PROVE  Suma(b, c, h) \in Trabajo
<1>1. [b.hecho EXCEPT ![c] = @ + h] \in [Canal -> Nat]
  BY DEF Trabajo
<1>. QED  BY <1>1 DEF Suma, Trabajo

\* One step of a tick of the dispatcher keeps the types.
LEMMA AvanzaType ==
  ASSUME TypeOK, NEW d \in Ticks, Avanza(d)
  PROVE  TypeOK'
<1>. USE DEF intacto, entorno
<1>1. CASE Inicia(d)
  <2>1. PICK p \in Planes : tick' = [tick EXCEPT ![d] =
            [en |-> IF meta[p].vuelo = SinVuelo THEN "elige" ELSE "vuelo", pid |-> p,
             m |-> meta[p], abierta |-> [c \in Canal |-> SaltaVentana(p) \/ cfg.abierta[c]]]]
    BY <1>1 DEF Inicia, Listos
  <2>2. \A c \in Canal : SaltaVentana(p) \/ cfg.abierta[c] \in BOOLEAN
    BY DEF TypeOK, SaltaVentana
  <2>3. [en |-> IF meta[p].vuelo = SinVuelo THEN "elige" ELSE "vuelo", pid |-> p,
         m |-> meta[p], abierta |-> [c \in Canal |-> SaltaVentana(p) \/ cfg.abierta[c]]] \in Tick
    BY <2>2, PlanDispatchAssumption DEF TypeOK, Tick
  <2>. QED  BY <1>1, <2>1, <2>3 DEF Inicia, TypeOK
<1>2. CASE MideVuelo(d)
  <2>1. TickOK'
    BY <1>2, PasoType DEF MideVuelo
  <2>2. anomalos' \in SUBSET Planes
    BY <1>2, TickType DEF MideVuelo, TypeOK
  <2>. QED  BY <1>2, <2>1, <2>2 DEF MideVuelo, TypeOK, TickOK
<1>3. CASE LimpiaVuelo(d)
  <2>1. TickOK'
    BY <1>3, PasoType DEF LimpiaVuelo
  <2>2. meta' \in [Planes -> Meta]
    BY <1>3, UpdateType DEF LimpiaVuelo, TypeOK
  <2>3. pisados' \in SUBSET Planes
    BY <1>3, TickType DEF LimpiaVuelo, Pisa, TypeOK
  <2>. QED  BY <1>3, <2>1, <2>2, <2>3 DEF LimpiaVuelo, TypeOK, TickOK
<1>4. ASSUME NEW c \in Canal, tick[d].en = "elige", Reclama(d, c)
      PROVE  TypeOK'
  <2>1. tick[d].m.next[c] \in Nat /\ tick[d].m.disp[c] \in Nat /\ tick[d].m.total[c] \in Nat
    BY TickType DEF Meta
  <2>. DEFINE i == tick[d].m.next[c]
              n == tick[d].m.disp[c] + Tam(tick[d].m.total[c], i)
  <2>2. i \in Nat /\ n \in Nat
    <3>1. Tam(tick[d].m.total[c], i) \in Nat
      BY <2>1, TamType
    <3>. QED  BY <2>1, <3>1
  <2>3. TickOK'
    BY <1>4, PasoType DEF Reclama
  <2>4. meta' \in [Planes -> Meta]
    <3>1. \/ UNCHANGED meta
          \/ meta' = [meta EXCEPT ![tick[d].pid] = registrar_dispatch(@, c, i, n)]
      BY <1>4 DEF Reclama
    <3>. HIDE DEF i, n
    <3>2. tick[d].pid \in Planes /\ meta[tick[d].pid] \in Meta
      BY <1>4, TickType DEF TypeOK
    <3>3. registrar_dispatch(meta[tick[d].pid], c, i, n) \in Meta
      BY <2>2, <3>2, UpdateType
    <3>. QED  BY <3>1, <3>2, <3>3 DEF TypeOK
  <2>5. pisados' \in SUBSET Planes
    BY <1>4, TickType DEF Reclama, Pisa, TypeOK
  <2>. QED  BY <1>4, <2>3, <2>4, <2>5 DEF Reclama, TypeOK, TickOK
<1>5. CASE ReclamaTg(d)
  BY <1>4, <1>5 DEF ReclamaTg, Canal
<1>6. CASE ReclamaWa(d)
  BY <1>4, <1>6 DEF ReclamaWa, EligeWa, Canal
<1>7. CASE CuentaWa(d)
  <2>1. PICK total \in WaConteos[tick[d].pid] :
          tick' = [tick EXCEPT ![d] = [@ EXCEPT !.en = "resuelve", !.m = Resuelto(tick[d].m, total)]]
    BY <1>7 DEF CuentaWa
  <2>2. total \in Nat
    BY <1>7, TickType, PlanDispatchAssumption DEF CuentaWa, EligeWa
  <2>3. Resuelto(tick[d].m, total) \in Meta
    BY <2>2, TickType, ResueltoType
  <2>7. TickOK'
    <3>. DEFINE t == [tick[d] EXCEPT !.en = "resuelve", !.m = Resuelto(tick[d].m, total)]
    <3>1. t \in Tick /\ t.pid = tick[d].pid
      BY <2>3, TickType DEF Tick
    <3>2. tick' = [tick EXCEPT ![d] = t]
      BY <2>1
    <3>3. tick[d].pid \in Planes
      BY <1>7, TickType DEF CuentaWa, EligeWa
    <3>. HIDE DEF t
    <3>. QED  BY <3>1, <3>2, <3>3 DEF TypeOK, TickOK
  <2>. QED  BY <1>7, <2>7 DEF CuentaWa, TypeOK, TickOK
<1>8. CASE ResuelveWa(d)
  <2>1. TickOK'
    BY <1>8, PasoType DEF ResuelveWa
  <2>2. tick[d].m.total["wa"] \in Nat
    BY TickType DEF Meta, Canal
  <2>3. meta' \in [Planes -> Meta]
    BY <1>8, <2>2, TickType, UpdateType DEF ResuelveWa, TypeOK
  <2>4. pisados' \in SUBSET Planes
    BY <1>8, TickType DEF ResuelveWa, Pisa, TypeOK
  <2>. QED  BY <1>8, <2>1, <2>3, <2>4 DEF ResuelveWa, TypeOK, TickOK
<1>9. CASE EsperaWa(d)
  <2>1. TickOK'
    BY <1>9, PasoType DEF EsperaWa, EligeWa
  <2>2. fallos' = fallos \/ (fallos < MaxFallos /\ fallos' = fallos + 1)
    BY <1>9 DEF EsperaWa
  <2>3. fallos' \in 0..MaxFallos
    BY <2>2, PlanDispatchAssumption DEF TypeOK
  <2>. QED  BY <1>9, <2>1, <2>3 DEF EsperaWa, TypeOK, TickOK
<1>10. CASE EncolaOk(d)
  BY <1>10, PasoType, EmiteType DEF EncolaOk, TypeOK, TickOK, Canal
<1>11. CASE EncolaFalla(d)
  <2>1. TickOK' /\ envios' \in Seq(Envio)
    BY <1>11, PasoType, EmiteType DEF EncolaFalla, TypeOK, Canal
  <2>. QED  BY <1>11, <2>1, PlanDispatchAssumption DEF EncolaFalla, TypeOK, TickOK
<1>12. CASE ReenviaOk(d)
  BY <1>12, PasoType, EmiteType DEF ReenviaOk, TypeOK, TickOK, Canal
<1>13. CASE ReenviaFalla(d)
  <2>1. TickOK' /\ envios' \in Seq(Envio)
    BY <1>13, PasoType, EmiteType DEF ReenviaFalla, TypeOK, Canal
  <2>. QED  BY <1>13, <2>1, PlanDispatchAssumption DEF ReenviaFalla, TypeOK, TickOK
<1>14. CASE SueltaVuelo(d)
  <2>1. TickOK'
    BY <1>14, PasoType DEF SueltaVuelo
  <2>2. meta' \in [Planes -> Meta] /\ anomalos' \in SUBSET Planes
    BY <1>14, TickType, UpdateType DEF SueltaVuelo, TypeOK
  <2>. QED  BY <1>14, <2>1, <2>2 DEF SueltaVuelo, TypeOK, TickOK
<1>15. CASE Difiere(d)
  BY <1>15, PasoType DEF Difiere, TypeOK, TickOK
<1>16. CASE Finaliza(d)
  <2>1. TickOK'
    BY <1>16, PasoType DEF Finaliza
  <2>2. meta' \in [Planes -> Meta]
    BY <1>16, TickType, UpdateType DEF Finaliza, TypeOK
  <2>. QED  BY <1>16, <2>1, <2>2 DEF Finaliza, TypeOK, TickOK
<1>. QED
  BY <1>1, <1>2, <1>3, <1>5, <1>6, <1>7, <1>8, <1>9, <1>10, <1>11, <1>12, <1>13, <1>14, <1>15, <1>16
  DEF Avanza

\* One step of the worker or of the WhatsApp service keeps the types.
LEMMA EntregaType ==
  ASSUME TypeOK, NEW k \in DOMAIN envios, Entrega(k)
  PROVE  TypeOK'
<1>. USE PlanDispatchAssumption DEF intacto, entorno
<1>0. envios[k] \in Envio
  BY DEF TypeOK
<1>1. CASE Descarta(k)
  BY <1>1, PasaType DEF Descarta, TypeOK
<1>2. CASE TomaTg(k)
  BY <1>2, PasaType DEF TomaTg, TypeOK
<1>3. CASE TomaWa(k)
  BY <1>3, PasaType DEF TomaWa, TypeOK
<1>4. CASE Cuenta(k)
  <2>1. envios' \in Seq(Envio)
    BY <1>4, PasaType DEF Cuenta
  <2>2. PICK hechos \in 0..envios[k].n :
          /\ bc' = [bc EXCEPT ![envios[k].pid] = Suma(@, envios[k].ch, hechos)]
          /\ \/ UNCHANGED fallos
             \/ fallos < MaxFallos /\ fallos' = fallos + 1
    BY <1>4 DEF Cuenta
  <2>. DEFINE b == bc[envios[k].pid]
  <2>3. b \in Trabajo /\ envios[k].ch \in Canal /\ hechos \in Nat
    <3>1. envios[k].pid \in Planes /\ envios[k].ch \in Canal /\ envios[k].n \in Nat
      BY <1>0 DEF Envio
    <3>2. hechos \in Nat
      BY <3>1
    <3>3. b \in Trabajo
      BY <3>1 DEF TypeOK
    <3>. QED  BY <3>1, <3>2, <3>3
  <2>4. Suma(b, envios[k].ch, hechos) \in Trabajo
    BY <2>3, HechoType
  <2>5. bc' \in [Planes -> Trabajo]
    BY <2>2, <2>4 DEF TypeOK
  <2>6. fallos' \in 0..MaxFallos
    BY <2>2 DEF TypeOK
  <2>. QED  BY <1>4, <2>1, <2>5, <2>6 DEF Cuenta, TypeOK
<1>5. CASE Recuenta(k)
  <2>1. bc' \in [Planes -> Trabajo]
    <3>. DEFINE b == bc[envios[k].pid]
    <3>1. b \in Trabajo /\ "tg" \in Canal /\ envios[k].n \in Nat
      BY <1>0 DEF TypeOK, Envio, Canal
    <3>2. Suma(b, "tg", envios[k].n) \in Trabajo
      BY <3>1, HechoType
    <3>. QED  BY <1>5, <3>2 DEF Recuenta, TypeOK
  <2>2. anomalos' \in SUBSET Planes
    BY <1>0, <1>5 DEF Recuenta, TypeOK, Envio
  <2>3. fallos' \in 0..MaxFallos
    BY <1>5 DEF Recuenta, TypeOK
  <2>. QED  BY <1>5, <2>1, <2>2, <2>3 DEF Recuenta, TypeOK
<1>6. CASE Pierde(k)
  <2>1. envios' \in Seq(Envio)
    BY <1>6, PasaType DEF Pierde
  <2>. QED  BY <1>6, <2>1 DEF Pierde, TypeOK
<1>. QED  BY <1>1, <1>2, <1>3, <1>4, <1>5, <1>6 DEF Entrega

\* So does a lot that comes back.
LEMMA VuelveType ==
  ASSUME TypeOK, NEW k \in DOMAIN envios, Vuelve(k)
  PROVE  TypeOK'
<1>. USE PlanDispatchAssumption DEF entorno
<1>1. envios' \in Seq(Envio)
  BY PasaType DEF Vuelve
<1>2. fallos' \in 0..MaxFallos /\ cambios' \in 0..MaxCambios
  BY DEF Vuelve, Gasta, TypeOK
<1>. QED  BY <1>1, <1>2 DEF Vuelve, TypeOK

\* The panel, the clock and the environment keep the types.
LEMMA EntornoType ==
  ASSUME TypeOK,
         \/ \E p \in Planes : Crear(p) \/ Cancela(p) \/ Borra(p) \/ BorraTrabajo(p) \/ Envejece(p) \/ Vence(p)
         \/ \E c \in Canal : Cierra(c) \/ Abre(c)
         \/ Pausa \/ Reanuda \/ WaCae \/ WaVuelve
  PROVE  TypeOK'
<1>. USE PlanDispatchAssumption DEF intacto, entorno
<1>1. ASSUME NEW p \in Planes, Crear(p)
      PROVE  TypeOK'
  <2>1. \A wa \in Nat, r \in BOOLEAN : crear(p, wa, r) \in Meta
    BY CrearType
  <2>2. \A t \in WaConteos[p] : t \in Nat
    OBVIOUS
  <2>3. PICK wa \in Nat, r \in BOOLEAN : meta' = [meta EXCEPT ![p] = crear(p, wa, r)]
    BY <1>1, <2>2 DEF Crear
  <2>5. meta' \in [Planes -> Meta]
    BY <2>1, <2>3 DEF TypeOK
  <2>6. bc' \in [Planes -> Trabajo]
    <3>1. bc[p] \in Trabajo
      BY DEF TypeOK
    <3>2. [bc[p] EXCEPT !.vivo = TRUE] \in Trabajo
      BY <3>1 DEF Trabajo
    <3>. QED  BY <1>1, <3>2 DEF Crear, TypeOK
  <2>. QED  BY <1>1, <2>5, <2>6 DEF Crear, TypeOK
<1>2. ASSUME NEW p \in Planes, Cancela(p)
      PROVE  TypeOK'
  <2>1. meta' \in [Planes -> Meta]
    BY <1>2, UpdateType DEF Cancela, TypeOK
  <2>. QED  BY <1>2, <2>1 DEF Cancela, Gasta, TypeOK
<1>3. ASSUME NEW p \in Planes, Borra(p)
      PROVE  TypeOK'
  <2>1. [Vacio EXCEPT !.status = "borrado"] \in Meta
    BY VacioType DEF Meta, Estado, SinItem
  <2>2. meta' \in [Planes -> Meta]
    BY <1>3, <2>1 DEF Borra, TypeOK
  <2>. QED  BY <1>3, <2>2 DEF Borra, Gasta, TypeOK
<1>4. ASSUME NEW p \in Planes, BorraTrabajo(p)
      PROVE  TypeOK'
  BY <1>4 DEF BorraTrabajo, TypeOK, Trabajo, SinTrabajo
<1>5. ASSUME NEW p \in Planes, Envejece(p)
      PROVE  TypeOK'
  <2>1. [meta[p] EXCEPT !.viejo = TRUE] \in Meta
    <3>1. meta[p] \in Meta
      BY DEF TypeOK
    <3>. QED  BY <3>1 DEF Meta
  <2>2. meta' = [meta EXCEPT ![p] = [meta[p] EXCEPT !.viejo = TRUE]]
    BY <1>5 DEF Envejece
  <2>. QED  BY <1>5, <2>1, <2>2 DEF Envejece, TypeOK
<1>6. ASSUME NEW p \in Planes, Vence(p)
      PROVE  TypeOK'
  BY <1>6 DEF Vence, TypeOK
<1>7. ASSUME NEW c \in Canal, Cierra(c) \/ Abre(c)
      PROVE  TypeOK'
  <2>1. \A b \in BOOLEAN : [cfg.abierta EXCEPT ![c] = b] \in [Canal -> BOOLEAN]
    BY DEF TypeOK
  <2>2. cfg' \in [activo : BOOLEAN, abierta : [Canal -> BOOLEAN]]
    BY <1>7, <2>1 DEF Cierra, Abre, TypeOK
  <2>. QED  BY <1>7, <2>2 DEF Cierra, Abre, ConEntorno, Gasta, TypeOK
<1>8. CASE Pausa \/ Reanuda
  <2>1. cfg' \in [activo : BOOLEAN, abierta : [Canal -> BOOLEAN]]
    BY <1>8 DEF Pausa, Reanuda, TypeOK
  <2>. QED  BY <1>8, <2>1 DEF Pausa, Reanuda, ConEntorno, Gasta, TypeOK
<1>9. CASE WaCae \/ WaVuelve
  <2>1. waArriba' \in BOOLEAN
    BY <1>9 DEF WaCae, WaVuelve
  <2>2. cambios' = cambios \/ (cambios < MaxCambios /\ cambios' = cambios + 1)
    BY <1>9 DEF WaCae, WaVuelve, Gasta
  <2>3. cambios' \in 0..MaxCambios
    BY <2>2 DEF TypeOK
  <2>. QED  BY <1>9, <2>1, <2>3 DEF WaCae, WaVuelve, ConEntorno, TypeOK
<1>. QED  BY <1>1, <1>2, <1>3, <1>4, <1>5, <1>6, <1>7, <1>8, <1>9

\* And so does every step.
LEMMA TypeNext ==
  ASSUME TypeOK, [Next]_vars
  PROVE  TypeOK'
<1>1. ASSUME NEW d \in Ticks, Muere(d)
      PROVE  TypeOK'
  BY <1>1, PasoType, PlanDispatchAssumption DEF Muere, TypeOK, TickOK, intacto, entorno
<1>2. CASE UNCHANGED vars
  BY <1>2 DEF vars, TypeOK
<1>. QED  BY <1>1, <1>2, AvanzaType, EntregaType, VuelveType, EntornoType DEF Next

\* The variables of the store, the ticks, the queue and the environment never
\* leave their types, however the ticks overlap and whatever fails.
THEOREM TypeCorrect == Spec => []TypeOK
<1>1. Init => TypeOK
  BY VacioType, PlanDispatchAssumption
  DEF Init, TypeOK, Libre, Tick, Trabajo, SinTrabajo, Canal
<1>2. TypeOK /\ [Next]_vars => TypeOK'
  BY TypeNext
<1>. QED  BY <1>1, <1>2, PTL DEF Spec
=============================================================================
