-------------------------- MODULE LotDeliveryProofs --------------------------
(***************************************************************************)
(* Theorems of LotDelivery for every number of workers, lots, recipients,  *)
(* receptions, failures and changes.                                       *)
(***************************************************************************)
EXTENDS LotDelivery, TLAPS

(* Types.                                                                  *)

\* The keys of a lot: its count, and the pieces of each of its recipients.
LEMMA ClaveType ==
  ASSUME NEW l \in Lotes
  PROVE  /\ <<l, 0, "lote">> \in Clave(l)
         /\ \A i \in 1..Dests[l], z \in Pieza : <<l, i, z>> \in Clave(l)
         /\ Clave(l) \subseteq Claves
BY DEF Clave, Claves

\* A worker that is busy has a lot.
Paso == {"puerta", "dest", "manda", "marca", "cuenta", "cierra", "reinicia",
         "confirma", "strike", "pausa", "devuelve"}
Trabajador == [Workers -> Ocupado \cup {Libre}]
\* A busy worker holds a lot, a recipient and a piece, and counters of its own.
LEMMA OcupadoType ==
  ASSUME worker \in Trabajador, NEW w \in Workers, worker[w].en # "libre"
  PROVE  /\ worker[w] \in Ocupado
         /\ worker[w].l \in Lotes /\ worker[w].i \in Nat \ {0} /\ worker[w].z \in Pieza
         /\ worker[w].en \in Paso
         /\ worker[w].sent \in Nat /\ worker[w].failed \in Nat /\ worker[w].blocked \in Nat
<1>1. worker[w] \in Ocupado
  BY DEF Libre, Trabajador
<1>. QED  BY <1>1 DEF Ocupado, Paso

\* A busy worker only moves inside its lot when it sends or marks a piece.
EnRango ==
  \A w \in Workers :
    worker[w].en \in {"manda", "marca"} => worker[w].i <= Dests[worker[w].l]
Sitio == worker \in Trabajador /\ EnRango

\* A busy worker that changes step keeps its place, and one that lets go has none.
LEMMA VaType ==
  ASSUME Sitio, NEW w \in Workers, Ocupa(w)
  PROVE  /\ \A paso \in Paso :
              Va(w, paso) /\ (paso \in {"manda", "marca"} => worker[w].i <= Dests[worker[w].l])
                => Sitio'
         /\ \A cuenta \in {"sent", "failed", "blocked"} : Pasa(w, cuenta) => Sitio'
         /\ \A est : Suelta(w, est) => Sitio'
<1>. USE DEF Sitio, Ocupa
<1>1. worker[w] \in Ocupado
  BY OcupadoType
<1>2. ASSUME NEW paso \in Paso, Va(w, paso),
             paso \in {"manda", "marca"} => worker[w].i <= Dests[worker[w].l]
      PROVE  Sitio'
  <2>1. [worker[w] EXCEPT !.en = paso] \in Ocupado
    BY <1>1 DEF Ocupado, Paso
  <2>2. worker' = [worker EXCEPT ![w] = [worker[w] EXCEPT !.en = paso]]
    BY <1>2 DEF Va
  <2>3. worker' \in Trabajador
    BY <2>1, <2>2 DEF Trabajador
  <2>4. [worker[w] EXCEPT !.en = paso].en = paso
        /\ [worker[w] EXCEPT !.en = paso].i = worker[w].i
        /\ [worker[w] EXCEPT !.en = paso].l = worker[w].l
    BY <1>1 DEF Ocupado
  <2>. QED  BY <1>2, <2>2, <2>3, <2>4 DEF EnRango, Trabajador
<1>3. ASSUME NEW cuenta \in {"sent", "failed", "blocked"}, Pasa(w, cuenta)
      PROVE  Sitio'
  <2>. DEFINE t == Siguiente(worker[w], cuenta)
  <2>1. t \in Ocupado /\ t.en = "dest"
    <3>1. /\ worker[w].i + 1 \in Nat \ {0}
          /\ worker[w].sent + 1 \in Nat /\ worker[w].failed + 1 \in Nat /\ worker[w].blocked + 1 \in Nat
      BY OcupadoType
    <3>2. CASE cuenta = "sent"
      <4>1. t = [worker[w] EXCEPT !.sent = @ + 1, !.i = @ + 1, !.en = "dest"]
        BY <1>1, <3>2 DEF Ocupado, Siguiente
      <4>. QED  BY <1>1, <3>1, <4>1 DEF Ocupado
    <3>3. CASE cuenta = "failed"
      <4>1. t = [worker[w] EXCEPT !.failed = @ + 1, !.i = @ + 1, !.en = "dest"]
        BY <1>1, <3>3 DEF Ocupado, Siguiente
      <4>. QED  BY <1>1, <3>1, <4>1 DEF Ocupado
    <3>4. CASE cuenta = "blocked"
      <4>1. t = [worker[w] EXCEPT !.blocked = @ + 1, !.i = @ + 1, !.en = "dest"]
        BY <1>1, <3>4 DEF Ocupado, Siguiente
      <4>. QED  BY <1>1, <3>1, <4>1 DEF Ocupado
    <3>. QED  BY <3>2, <3>3, <3>4
  <2>2. worker' = [worker EXCEPT ![w] = t]
    BY <1>3 DEF Pasa
  <2>. HIDE DEF t
  <2>. QED  BY <2>1, <2>2 DEF EnRango, Trabajador
<1>4. ASSUME NEW est, Suelta(w, est)
      PROVE  Sitio'
  BY <1>4 DEF Suelta, EnRango, Trabajador, Libre
<1>. QED  BY <1>2, <1>3, <1>4

\* The rest of the state, action by action.
IType == TypeOK /\ EnRango

\* Messages stay messages.
Estados == {"visible", "oculto", "borrado", "dlq", "purgado"}
ColaOK == cola \in [Lotes -> [est : Estados, recibos : 0..MaxRecibe]]
\* A message that changes state, or is received once more, stays a message.
LEMMA ColaType ==
  ASSUME ColaOK, NEW l \in Lotes
  PROVE  /\ \A est \in Estados : cola' = [cola EXCEPT ![l].est = est] => ColaOK'
         /\ ~Agotado(l) /\ cola' = [cola EXCEPT ![l] = Recibido(@)] => ColaOK'
<1>. USE DEF ColaOK
<1>1. ASSUME NEW est \in Estados, cola' = [cola EXCEPT ![l].est = est]
      PROVE  ColaOK'
  <2>1. [cola[l] EXCEPT !.est = est] \in [est : Estados, recibos : 0..MaxRecibe]
    OBVIOUS
  <2>2. cola' = [cola EXCEPT ![l] = [cola[l] EXCEPT !.est = est]]
    BY <1>1
  <2>. QED  BY <2>1, <2>2
<1>2. ASSUME ~Agotado(l), cola' = [cola EXCEPT ![l] = Recibido(@)]
      PROVE  ColaOK'
  <2>1. cola[l].recibos + 1 \in 0..MaxRecibe
    BY <1>2, LotDeliveryAssumption DEF Agotado
  <2>2. Recibido(cola[l]) \in [est : Estados, recibos : 0..MaxRecibe]
    BY <2>1 DEF Recibido, Estados
  <2>. QED  BY <1>2, <2>2
<1>. QED  BY <1>1, <1>2

\* Marks and history speak of keys.
DedupOK == marcas \subseteq Claves /\ riesgo \subseteq Claves /\ hechas \in [Claves -> Nat]
\* A mark and a delivery are always of a piece of work.
LEMMA DedupType ==
  ASSUME DedupOK, NEW k \in Claves
  PROVE  /\ marcar(k) /\ UNCHANGED hechas => DedupOK'
         /\ hechas' = [hechas EXCEPT ![k] = @ + 1] /\ UNCHANGED marcas
              /\ (UNCHANGED riesgo \/ riesgo' = riesgo \cup {k}) => DedupOK'
BY DEF DedupOK, marcar

\* The key a worker has in hand.
LEMMA EnManoType ==
  ASSUME IType, NEW w \in Workers, Ocupa(w)
  PROVE  /\ worker[w].l \in Lotes
         /\ <<worker[w].l, 0, "lote">> \in Claves
         /\ \A i \in 1..Dests[worker[w].l], z \in Pieza : <<worker[w].l, i, z>> \in Claves
         /\ worker[w].en \in {"manda", "marca"} =>
              <<worker[w].l, worker[w].i, worker[w].z>> \in Claves
         /\ PorMarcar(worker[w]) \subseteq Claves
<1>1. /\ worker[w].l \in Lotes /\ worker[w].i \in Nat \ {0} /\ worker[w].z \in Pieza
      /\ Dests[worker[w].l] \in Nat
  BY OcupadoType, LotDeliveryAssumption DEF IType, TypeOK, Trabajador, Ocupa
<1>2. /\ <<worker[w].l, 0, "lote">> \in Claves
      /\ \A i \in 1..Dests[worker[w].l], z \in Pieza : <<worker[w].l, i, z>> \in Claves
  BY <1>1, ClaveType
<1>3. worker[w].en \in {"manda", "marca"} => <<worker[w].l, worker[w].i, worker[w].z>> \in Claves
  BY <1>1, <1>2 DEF IType, EnRango
<1>4. PorMarcar(worker[w]) \subseteq Claves
  BY <1>2, <1>3 DEF PorMarcar
<1>. QED  BY <1>1, <1>2, <1>3, <1>4

\* Spending one of the failures keeps within their bound.
LEMMA FallaType ==
  ASSUME fallos \in 0..MaxFallos
  PROVE  Falla \/ Bien => fallos' \in 0..MaxFallos
BY LotDeliveryAssumption DEF Falla, Bien

\* The type invariant, in parts.
RestoOK ==
  /\ entro \subseteq Lotes /\ fallidos \subseteq Lotes
  /\ bc \in [Planes -> [vivo : BOOLEAN, sent : Nat, failed : Nat]]
  /\ plan \in [Planes -> {"vivo", "cancelado", "borrado"}]
  /\ activo \in BOOLEAN /\ strikes \in Nat /\ racha \in Nat
  /\ fallos \in 0..MaxFallos /\ cambios \in 0..MaxCambios
\* The typing invariant is its parts, in this state and in the next.
LEMMA Partes ==
  /\ IType <=> ColaOK /\ Sitio /\ DedupOK /\ RestoOK
  /\ IType' <=> ColaOK' /\ Sitio' /\ DedupOK' /\ RestoOK'
BY DEF IType, TypeOK, ColaOK, Estados, Sitio, Trabajador, DedupOK, RestoOK

\* Counting a lot keeps the counters of the jobs.
LEMMA SumaType ==
  ASSUME NEW b \in [vivo : BOOLEAN, sent : Nat, failed : Nat], NEW t \in Ocupado
  PROVE  incr_telegram(b, t) \in [vivo : BOOLEAN, sent : Nat, failed : Nat]
<1>1. b.sent + t.sent \in Nat /\ b.failed + t.failed + t.blocked \in Nat
  BY DEF Ocupado
<1>. QED  BY <1>1 DEF incr_telegram

\* A step of a worker keeps the types.
LEMMA AvanzaType ==
  ASSUME IType, NEW w \in Workers, Avanza(w)
  PROVE  IType'
<1>. USE DEF historia, config, dedup
<1>0. ColaOK /\ Sitio /\ DedupOK /\ RestoOK
  BY Partes
<1>1. ASSUME NEW l \in Lotes, Recibe(w, l) PROVE IType'
  <2>. DEFINE t(pausado) == [en |-> "puerta", l |-> l, pausado |-> pausado, i |-> 1, z |-> "texto",
                             sent |-> 0, failed |-> 0, blocked |-> 0]
  <2>1. PICK pausado \in BOOLEAN : worker' = [worker EXCEPT ![w] = t(pausado)]
    BY <1>0, <1>1 DEF Recibe, RestoOK
  <2>2. t(pausado) \in Ocupado /\ t(pausado).en = "puerta"
    BY DEF Ocupado, Pieza
  <2>. HIDE DEF t
  <2>3. Sitio'
    BY <1>0, <2>1, <2>2 DEF Sitio, Trabajador, EnRango
  <2>4. ColaOK'
    BY <1>0, <1>1, ColaType DEF Recibe
  <2>5. DedupOK' /\ RestoOK'
    BY <1>0, <1>1, FallaType DEF Recibe, DedupOK, RestoOK
  <2>. QED  BY <2>3, <2>4, <2>5, Partes
<1>2. ASSUME Ocupa(w), Descarta(w) \/ YaEntregado(w) \/ Confirma(w) \/ Devuelve(w) PROVE IType'
  <2>1. PICK est \in {"borrado", "visible"} : Suelta(w, est)
    BY <1>2 DEF Descarta, YaEntregado, Confirma, Devuelve
  <2>2. Sitio'
    BY <1>0, <1>2, <2>1, VaType
  <2>3. ColaOK'
    BY <1>0, <1>2, <2>1, ColaType, EnManoType DEF Suelta, Estados
  <2>4. DedupOK' /\ RestoOK'
    BY <1>0, <1>2 DEF Descarta, YaEntregado, Confirma, Devuelve, DedupOK, RestoOK
  <2>. QED  BY <2>2, <2>3, <2>4, Partes
<1>3. ASSUME Ocupa(w), Entra(w) PROVE IType'
  <2>1. Sitio'
    BY <1>0, <1>3, VaType DEF Entra, Paso
  <2>2. ColaOK'
    BY <1>0, <1>3 DEF Entra, ColaOK
  <2>3. DedupOK'
    BY <1>0, <1>3, EnManoType DEF Entra, DedupOK
  <2>4. RestoOK'
    BY <1>0, <1>3, EnManoType, FallaType DEF Entra, RestoOK
  <2>. QED  BY <2>1, <2>2, <2>3, <2>4, Partes
<1>4. ASSUME Ocupa(w), FirmaFalla(w) \/ PausaAuto(w) \/ Strike(w) \/ Reinicia(w) PROVE IType'
  <2>1. PICK paso \in {"devuelve", "pausa", "confirma"} : Va(w, paso)
    BY <1>4 DEF FirmaFalla, PausaAuto, Strike, Reinicia
  <2>2. Sitio'
    BY <1>0, <1>4, <2>1, VaType DEF Paso
  <2>3. ColaOK' /\ DedupOK'
    BY <1>0, <1>4 DEF FirmaFalla, PausaAuto, Strike, Reinicia, ColaOK, DedupOK
  <2>4. /\ UNCHANGED <<bc, plan, cambios, entro, fallidos>>
        /\ activo' \in BOOLEAN /\ strikes' \in Nat /\ racha' \in Nat
    <3>1. CASE FirmaFalla(w)
      BY <1>0, <3>1 DEF FirmaFalla, RestoOK
    <3>2. CASE PausaAuto(w)
      BY <1>0, <3>2 DEF PausaAuto, RestoOK
    <3>3. CASE Strike(w)
      BY <1>0, <3>3 DEF Strike, RestoOK
    <3>4. CASE Reinicia(w)
      BY <1>0, <3>4 DEF Reinicia, RestoOK
    <3>. QED  BY <1>4, <3>1, <3>2, <3>3, <3>4
  <2>5. Falla \/ Bien
    BY <1>4 DEF FirmaFalla, PausaAuto, Strike, Reinicia
  <2>6. RestoOK'
    BY <1>0, <2>4, <2>5, FallaType DEF RestoOK
  <2>. QED  BY <2>2, <2>3, <2>6, Partes
<1>5. ASSUME Ocupa(w), Salta(w) \/ Bloquea(w) PROVE IType'
  <2>1. PICK cuenta \in {"sent", "failed", "blocked"} : Pasa(w, cuenta)
    BY <1>5 DEF Salta, Bloquea
  <2>2. Sitio'
    BY <1>0, <1>5, <2>1, VaType
  <2>3. ColaOK' /\ DedupOK' /\ RestoOK'
    BY <1>0, <1>5 DEF Salta, Bloquea, ColaOK, DedupOK, RestoOK
  <2>. QED  BY <2>2, <2>3, Partes
<1>6. ASSUME Ocupa(w), Empieza(w) PROVE IType'
  <2>1. PICK z \in Pieza : worker' = [worker EXCEPT ![w] = [@ EXCEPT !.en = "manda", !.z = z]]
    BY <1>6 DEF Empieza, Pieza
  <2>2. [worker[w] EXCEPT !.en = "manda", !.z = z] \in Ocupado
        /\ [worker[w] EXCEPT !.en = "manda", !.z = z].i = worker[w].i
        /\ [worker[w] EXCEPT !.en = "manda", !.z = z].l = worker[w].l
    BY <1>0, <1>6, OcupadoType DEF Ocupado, Sitio, Ocupa
  <2>3. worker[w].i <= Dests[worker[w].l]
    BY <1>6 DEF Empieza
  <2>4. Sitio'
    BY <1>0, <2>1, <2>2, <2>3 DEF Sitio, Trabajador, EnRango
  <2>5. {<<worker[w].l, worker[w].i, "texto">>, <<worker[w].l, worker[w].i, "foto">>} \subseteq Claves
    <3>1. worker[w].l \in Lotes /\ worker[w].i \in 1..Dests[worker[w].l]
      BY <1>0, <1>6, <2>3, OcupadoType, LotDeliveryAssumption DEF Sitio, Ocupa
    <3>. QED  BY <1>6, <3>1, EnManoType DEF Pieza
  <2>6. riesgo' \subseteq Claves /\ UNCHANGED <<marcas, hechas>>
    BY <1>0, <1>6, <2>5 DEF Empieza, DedupOK
  <2>7. ColaOK' /\ RestoOK'
    BY <1>0, <1>6, FallaType DEF Empieza, ColaOK, RestoOK
  <2>. QED  BY <1>0, <2>4, <2>6, <2>7, Partes DEF DedupOK
<1>7. ASSUME Ocupa(w), Llega(w) PROVE IType'
  <2>1. Sitio'
    BY <1>0, <1>7, VaType DEF Llega, Paso, Sitio, EnRango
  <2>2. DedupOK'
    BY <1>0, <1>7, EnManoType, DedupType DEF Llega
  <2>3. ColaOK' /\ RestoOK'
    BY <1>0, <1>7 DEF Llega, ColaOK, RestoOK
  <2>. QED  BY <2>1, <2>2, <2>3, Partes
<1>8. ASSUME Ocupa(w), Lanza(w) PROVE IType'
  <2>1. Sitio'
    BY <1>0, <1>8, VaType DEF Lanza
  <2>2. DedupOK'
    BY <1>0, <1>8, EnManoType, DedupType DEF Lanza, DedupOK
  <2>3. ColaOK' /\ RestoOK'
    BY <1>0, <1>8, FallaType DEF Lanza, ColaOK, RestoOK
  <2>. QED  BY <2>1, <2>2, <2>3, Partes
<1>9. ASSUME Ocupa(w), Marca(w) PROVE IType'
  <2>1. Sitio'
    <3>1. CASE worker[w].z = "foto"
      <4>1. worker' = [worker EXCEPT ![w] = [worker[w] EXCEPT !.en = "manda", !.z = "texto"]]
        BY <1>9, <3>1 DEF Marca
      <4>2. [worker[w] EXCEPT !.en = "manda", !.z = "texto"] \in Ocupado
            /\ [worker[w] EXCEPT !.en = "manda", !.z = "texto"].i = worker[w].i
            /\ [worker[w] EXCEPT !.en = "manda", !.z = "texto"].l = worker[w].l
        BY <1>0, <1>9, OcupadoType DEF Ocupado, Sitio, Ocupa, Pieza
      <4>3. worker[w].en = "marca"
        BY <1>9 DEF Marca
      <4>. QED  BY <1>0, <4>1, <4>2, <4>3 DEF Sitio, Trabajador, EnRango
    <3>2. CASE worker[w].z # "foto"
      BY <1>0, <1>9, <3>2, VaType DEF Marca
    <3>. QED  BY <3>1, <3>2
  <2>2. DedupOK'
    BY <1>0, <1>9, EnManoType, DedupType DEF Marca
  <2>3. ColaOK' /\ RestoOK'
    BY <1>0, <1>9, FallaType DEF Marca, marcar, ColaOK, RestoOK
  <2>. QED  BY <2>1, <2>2, <2>3, Partes
<1>10. ASSUME Ocupa(w), Termina(w) PROVE IType'
  <2>1. PICK paso \in {"strike", "devuelve", "cuenta"} : Va(w, paso)
    BY <1>10 DEF Termina
  <2>2. Sitio'
    BY <1>0, <1>10, <2>1, VaType DEF Paso
  <2>3. ColaOK' /\ DedupOK'
    BY <1>0, <1>10 DEF Termina, ColaOK, DedupOK
  <2>4. fallidos' \subseteq Lotes
    <3>1. fallidos' = fallidos \/ fallidos' = fallidos \cup {worker[w].l}
      BY <1>10 DEF Termina
    <3>2. worker[w].l \in Lotes
      BY <1>10, EnManoType
    <3>. QED  BY <1>0, <3>1, <3>2 DEF RestoOK
  <2>5. racha' \in {racha + 1, racha, 0}
    <3>1. CASE FalloTotal(worker[w])
      BY <1>10, <3>1 DEF Termina
    <3>2. CASE ~FalloTotal(worker[w])
      BY <1>10, <3>2 DEF Termina
    <3>. QED  BY <3>1, <3>2
  <2>6. RestoOK'
    BY <1>0, <1>10, <2>4, <2>5 DEF Termina, RestoOK
  <2>. QED  BY <2>2, <2>3, <2>6, Partes
<1>11. ASSUME Ocupa(w), Cuenta(w) PROVE IType'
  <2>1. Sitio'
    BY <1>0, <1>11, VaType DEF Cuenta, Paso
  <2>2. DedupOK'
    BY <1>0, <1>11, EnManoType, DedupType DEF Cuenta
  <2>3. PlanDe[worker[w].l] \in Planes /\ worker[w] \in Ocupado
    BY <1>0, <1>11, EnManoType, OcupadoType, LotDeliveryAssumption DEF Sitio, Ocupa
  <2>4. bc' \in [Planes -> [vivo : BOOLEAN, sent : Nat, failed : Nat]]
    BY <1>0, <1>11, <2>3, SumaType DEF Cuenta, RestoOK
  <2>5. ColaOK' /\ RestoOK'
    BY <1>0, <1>11, <2>4, FallaType DEF Cuenta, ColaOK, RestoOK
  <2>. QED  BY <2>1, <2>2, <2>5, Partes
<1>12. ASSUME Ocupa(w), Cierra(w) PROVE IType'
  <2>1. PICK paso \in {"reinicia", "confirma"} : Va(w, paso)
    BY <1>12 DEF Cierra
  <2>2. Sitio'
    BY <1>0, <1>12, <2>1, VaType DEF Paso
  <2>3. DedupOK'
    BY <1>0, <1>12, EnManoType, DedupType DEF Cierra
  <2>4. ColaOK' /\ RestoOK'
    BY <1>0, <1>12, FallaType DEF Cierra, marcar, ColaOK, RestoOK
  <2>. QED  BY <2>2, <2>3, <2>4, Partes
<1>13. ASSUME Ocupa(w), Repite(w) PROVE IType'
  <2>1. ColaOK' /\ Sitio' /\ RestoOK'
    BY <1>0, <1>13, FallaType DEF Repite, ColaOK, Sitio, EnRango, RestoOK
  <2>2. DedupOK'
    BY <1>0, <1>13, EnManoType, DedupType DEF Repite
  <2>. QED  BY <2>1, <2>2, Partes
<1>14. (\E l \in Lotes : Recibe(w, l)) \/ Ocupa(w)
  BY DEF Avanza, Ocupa, Descarta, YaEntregado, Entra, FirmaFalla, Salta, Empieza, Llega, Repite, Bloquea,
         Lanza, Marca, Termina, Cuenta, Cierra, Reinicia, Confirma, Strike, PausaAuto, Devuelve
<1>. QED
  BY <1>1, <1>2, <1>3, <1>4, <1>5, <1>6, <1>7, <1>8, <1>9, <1>10, <1>11, <1>12, <1>13, <1>14 DEF Avanza

\* So does the death of a worker.
LEMMA MuereType ==
  ASSUME IType, NEW w \in Workers, Muere(w)
  PROVE  IType'
<1>. USE DEF historia, config, dedup
<1>0. ColaOK /\ Sitio /\ DedupOK /\ RestoOK /\ Ocupa(w)
  BY Partes DEF Muere, Ocupa
<1>1. Sitio'
  BY <1>0, VaType DEF Muere
<1>2. ColaOK'
  BY <1>0, ColaType, EnManoType DEF Muere, Suelta, Estados
<1>3. DedupOK'
  BY <1>0, EnManoType DEF Muere, DedupOK
<1>4. RestoOK'
  BY <1>0, FallaType DEF Muere, RestoOK
<1>. QED  BY <1>1, <1>2, <1>3, <1>4, Partes

\* Spending one of the changes keeps within their bound.
LEMMA GastaType ==
  ASSUME cambios \in 0..MaxCambios, Gasta
  PROVE  cambios' \in 0..MaxCambios
BY LotDeliveryAssumption DEF Gasta

\* What the queues, the panel and the clock do keeps the types.
LEMMA EntornoType ==
  ASSUME IType,
         \/ \E l \in Lotes : ADlq(l) \/ Reaparece(l) \/ Caduca(l)
         \/ \E p \in Planes : Cancela(p) \/ Borra(p) \/ BorraTrabajo(p)
         \/ dlq_redrive \/ Purga("visible") \/ Purga("dlq") \/ Pausa \/ Reanuda
  PROVE  IType'
<1>. USE DEF historia, config, dedup
<1>0. ColaOK /\ Sitio /\ DedupOK /\ RestoOK
  BY Partes
<1>1. UNCHANGED worker => Sitio'
  BY <1>0 DEF Sitio, EnRango, Trabajador
<1>2. ASSUME NEW l \in Lotes, ADlq(l) \/ Reaparece(l) PROVE IType'
  <2>1. ColaOK'
    BY <1>0, <1>2, ColaType DEF ADlq, Reaparece, Estados
  <2>2. Sitio' /\ DedupOK'
    BY <1>0, <1>1, <1>2 DEF ADlq, Reaparece, DedupOK
  <2>3. RestoOK'
    BY <1>0, <1>2, FallaType DEF ADlq, Reaparece, RestoOK
  <2>. QED  BY <2>1, <2>2, <2>3, Partes
<1>3. ASSUME NEW l \in Lotes, Caduca(l) PROVE IType'
  <2>1. ColaOK' /\ Sitio'
    BY <1>0, <1>1, <1>3 DEF Caduca, ColaOK
  <2>2. DedupOK'
    BY <1>0, <1>3 DEF Caduca, DedupOK
  <2>3. RestoOK'
    BY <1>0, <1>3, FallaType DEF Caduca, RestoOK
  <2>. QED  BY <2>1, <2>2, <2>3, Partes
<1>4. ASSUME NEW p \in Planes, Cancela(p) \/ Borra(p) PROVE IType'
  <2>1. ColaOK' /\ Sitio' /\ DedupOK'
    BY <1>0, <1>1, <1>4 DEF Cancela, Borra, ColaOK, DedupOK
  <2>2. RestoOK'
    BY <1>0, <1>4, GastaType DEF Cancela, Borra, RestoOK
  <2>. QED  BY <2>1, <2>2, Partes
<1>5. ASSUME NEW p \in Planes, BorraTrabajo(p) PROVE IType'
  <2>1. ColaOK' /\ Sitio' /\ DedupOK'
    BY <1>0, <1>1, <1>5 DEF BorraTrabajo, ColaOK, DedupOK
  <2>2. RestoOK'
    BY <1>0, <1>5, GastaType DEF BorraTrabajo, RestoOK
  <2>. QED  BY <2>1, <2>2, Partes
<1>6. ASSUME dlq_redrive \/ Purga("visible") \/ Purga("dlq") PROVE IType'
  <2>1. ColaOK'
    <3>1. 0 \in 0..MaxRecibe
      BY LotDeliveryAssumption
    <3>2. CASE dlq_redrive
      BY <1>0, <3>1, <3>2 DEF dlq_redrive, ColaOK, Estados
    <3>3. ASSUME NEW est \in Estados, Purga(est) PROVE ColaOK'
      <4>1. \A l \in Lotes : [cola[l] EXCEPT !.est = "purgado"] \in [est : Estados, recibos : 0..MaxRecibe]
        BY <1>0 DEF ColaOK, Estados
      <4>. QED  BY <1>0, <3>3, <4>1 DEF Purga, ColaOK
    <3>. QED  BY <1>6, <3>2, <3>3 DEF Estados
  <2>2. Sitio' /\ DedupOK' /\ RestoOK'
    BY <1>0, <1>1, <1>6, GastaType DEF dlq_redrive, Purga, SinTocar, DedupOK, RestoOK
  <2>. QED  BY <2>1, <2>2, Partes
<1>7. ASSUME Pausa \/ Reanuda PROVE IType'
  <2>1. ColaOK' /\ Sitio' /\ DedupOK'
    BY <1>0, <1>1, <1>7 DEF Pausa, Reanuda, ColaOK, DedupOK
  <2>2. RestoOK'
    <3>1. CASE Pausa
      BY <1>0, <3>1, GastaType DEF Pausa, RestoOK
    <3>2. CASE Reanuda
      BY <1>0, <3>2 DEF Reanuda, RestoOK
    <3>. QED  BY <1>7, <3>1, <3>2
  <2>. QED  BY <2>1, <2>2, Partes
<1>. QED  BY <1>2, <1>3, <1>4, <1>5, <1>6, <1>7

\* IType is inductive: every step keeps it, and it holds at the start.
LEMMA TypeNext ==
  ASSUME IType, [Next]_vars
  PROVE  IType'
<1>1. CASE UNCHANGED vars
  BY <1>1 DEF IType, TypeOK, EnRango, vars
<1>2. CASE Next
  BY <1>2, AvanzaType, MuereType, EntornoType DEF Next
<1>. QED  BY <1>1, <1>2

\* The queue starts full, and nothing else has happened.
LEMMA TypeInit == Init => IType
<1>. SUFFICES ASSUME Init PROVE IType
  OBVIOUS
<1>. USE LotDeliveryAssumption DEF Init
<1>1. ColaOK
  BY DEF ColaOK, Estados
<1>2. Sitio
  BY DEF Sitio, Trabajador, EnRango, Libre
<1>3. DedupOK /\ RestoOK
  BY DEF DedupOK, RestoOK
<1>. QED  BY <1>1, <1>2, <1>3, Partes

\* Every state of the worker, of the queue and of the stores is well formed; a
\* worker that sends or marks works on a recipient of its lot (worker.py,
\* deliver_batch.py).
THEOREM TypeCorrect == Spec => []TypeOK
<1>1. Spec => []IType
  BY TypeInit, TypeNext, PTL DEF Spec
<1>. QED  BY <1>1, PTL DEF IType
=============================================================================
