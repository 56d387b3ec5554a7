--------------------------- MODULE LotSafetyProofs ---------------------------
(***************************************************************************)
(* The safety of LotDelivery. Why a redelivered lot repeats nothing whose  *)
(* mark was kept: every step either does a piece of work its worker had to *)
(* do, or marks one it has done, or only makes pieces riskier, and no two  *)
(* workers share a lot. What follows from that: a job never counts more    *)
(* than was reached, and a lot lives as LotContract says. And how far the  *)
(* account can go before the strikes, which every worker shares, stop it.  *)
(***************************************************************************)
EXTENDS LotDeliveryProofs, FiniteSetTheorems

(* The kinds of steps.                                                     *)

\* Only the worker w moves.
Solo(w) == \A v \in Workers \ {w} : worker'[v] = worker[v]

\* Nothing is done nor marked; w leaves nothing unmarked that is not at risk.
Aparta(w) ==
  /\ UNCHANGED <<marcas, hechas>> /\ riesgo \subseteq riesgo'
  /\ PorMarcar(worker[w]) \subseteq riesgo' /\ PorMarcar(worker'[w]) = {}
  /\ PorHacer(worker'[w]) \cap marcas \subseteq riesgo' \cup PorHacer(worker[w])

\* A piece that w had to do is done; w will mark it, or it is at risk.
Hace(w, k) ==
  /\ k \in PorHacer(worker[w]) /\ PorHacer(worker'[w]) \subseteq PorHacer(worker[w])
  /\ PorMarcar(worker[w]) = {}
  /\ hechas' = [hechas EXCEPT ![k] = @ + 1] /\ UNCHANGED marcas
  /\ \/ UNCHANGED riesgo /\ PorMarcar(worker'[w]) = {k}
     \/ riesgo' = riesgo \cup {k} /\ PorMarcar(worker'[w]) = {}

\* What w had just done is marked, or is at risk.
Anota(w, k) ==
  /\ PorMarcar(worker[w]) = {k} /\ PorMarcar(worker'[w]) = {}
  /\ PorHacer(worker'[w]) \subseteq PorHacer(worker[w]) /\ k \notin PorHacer(worker'[w])
  /\ UNCHANGED hechas
  /\ \/ marcas' = marcas \cup {k} /\ UNCHANGED riesgo
     \/ riesgo' = riesgo \cup {k} /\ UNCHANGED marcas

\* No worker moves; a mark that is lost leaves its piece at risk.
Olvida ==
  /\ UNCHANGED <<worker, hechas>>
  /\ marcas' \subseteq marcas /\ riesgo \subseteq riesgo' /\ marcas \ marcas' \subseteq riesgo'

Mueve(w) == Aparta(w) \/ \E k \in Claves : Hace(w, k) \/ Anota(w, k)

\* What the three ways of changing a worker leave.
LEMMA Efecto ==
  ASSUME Sitio, NEW w \in Workers, Ocupa(w)
  PROVE  /\ \A paso : Va(w, paso) =>
              /\ Solo(w) /\ worker'[w].en = paso
              /\ worker'[w].l = worker[w].l /\ worker'[w].i = worker[w].i /\ worker'[w].z = worker[w].z
         /\ \A cuenta \in {"sent", "failed", "blocked"} : Pasa(w, cuenta) =>
              Solo(w) /\ worker'[w].en = "dest" /\ worker'[w].l = worker[w].l
         /\ \A est : Suelta(w, est) => Solo(w) /\ worker'[w] = Libre
<1>. USE DEF Solo
<1>1. worker \in Trabajador /\ worker[w] \in Ocupado
  BY OcupadoType DEF Sitio, Ocupa
<1>2. ASSUME NEW paso, Va(w, paso)
      PROVE  /\ Solo(w) /\ worker'[w].en = paso
             /\ worker'[w].l = worker[w].l /\ worker'[w].i = worker[w].i /\ worker'[w].z = worker[w].z
  <2>1. worker' = [worker EXCEPT ![w] = [worker[w] EXCEPT !.en = paso]]
    BY <1>2 DEF Va
  <2>. QED  BY <1>1, <2>1 DEF Trabajador, Ocupado
<1>3. ASSUME NEW cuenta \in {"sent", "failed", "blocked"}, Pasa(w, cuenta)
      PROVE  Solo(w) /\ worker'[w].en = "dest" /\ worker'[w].l = worker[w].l
  <2>1. Siguiente(worker[w], cuenta).en = "dest" /\ Siguiente(worker[w], cuenta).l = worker[w].l
    BY <1>1 DEF Siguiente, Ocupado
  <2>. QED  BY <1>1, <1>3, <2>1 DEF Pasa, Trabajador
<1>4. ASSUME NEW est, Suelta(w, est)
      PROVE  Solo(w) /\ worker'[w] = Libre
  BY <1>1, <1>4 DEF Suelta, Trabajador
<1>. QED  BY <1>2, <1>3, <1>4

\* The work of a worker, by its step.
LEMMA Trabajo ==
  ASSUME NEW t
  PROVE  /\ t.en \notin {"dest", "manda", "marca", "cuenta"} => PorHacer(t) = {}
         /\ t.en \in {"dest", "cuenta"} => PorHacer(t) = {<<t.l, 0, "lote">>}
         /\ t.en = "manda" => PorHacer(t) = {<<t.l, 0, "lote">>, <<t.l, t.i, t.z>>}
                                \cup (IF t.z = "foto" THEN {<<t.l, t.i, "texto">>} ELSE {})
         /\ t.en = "marca" => PorHacer(t) = {<<t.l, 0, "lote">>}
                                \cup (IF t.z = "foto" THEN {<<t.l, t.i, "texto">>} ELSE {})
         /\ t.en \notin {"marca", "cierra"} => PorMarcar(t) = {}
         /\ t.en = "marca" => PorMarcar(t) = {<<t.l, t.i, t.z>>}
         /\ t.en = "cierra" => PorMarcar(t) = {<<t.l, 0, "lote">>}
BY DEF PorHacer, PorMarcar

\* An idle worker has nothing to do and nothing to mark.
LEMMA TrabajoLibre == PorHacer(Libre) = {} /\ PorMarcar(Libre) = {}
BY DEF PorHacer, PorMarcar, Libre

\* The steps of a worker that do nothing and mark nothing.
LEMMA ApartaPaso ==
  ASSUME IType, NEW w \in Workers,
         \/ \E l \in Lotes : Recibe(w, l)
         \/ Descarta(w) \/ YaEntregado(w) \/ Entra(w) \/ FirmaFalla(w) \/ Salta(w) \/ Bloquea(w)
         \/ Termina(w) \/ Reinicia(w) \/ Confirma(w) \/ Strike(w) \/ PausaAuto(w) \/ Devuelve(w)
         \/ Muere(w)
  PROVE  Solo(w) /\ Aparta(w)
<1>. USE DEF dedup, historia, config, Aparta
<1>0. Sitio
  BY Partes
<1>1. ASSUME NEW l \in Lotes, Recibe(w, l) PROVE Solo(w) /\ Aparta(w)
  <2>1. /\ Solo(w) /\ worker'[w].en = "puerta" /\ worker[w].en = "libre"
        /\ UNCHANGED <<marcas, hechas, riesgo>>
    BY <1>0, <1>1 DEF Recibe, Sitio, Trabajador, Solo
  <2>2. PorHacer(worker'[w]) = {} /\ PorMarcar(worker'[w]) = {} /\ PorMarcar(worker[w]) = {}
    BY <2>1, Trabajo
  <2>. QED  BY <2>1, <2>2
<1>2. ASSUME Ocupa(w), Descarta(w) \/ YaEntregado(w) \/ Confirma(w) \/ Devuelve(w)
      PROVE  Solo(w) /\ Aparta(w)
  <2>1. /\ (\E est : Suelta(w, est)) /\ UNCHANGED <<marcas, hechas, riesgo>>
        /\ worker[w].en \in {"puerta", "confirma", "devuelve"}
    BY <1>2 DEF Descarta, YaEntregado, Confirma, Devuelve
  <2>2. Solo(w) /\ PorHacer(worker'[w]) = {} /\ PorMarcar(worker'[w]) = {} /\ PorMarcar(worker[w]) = {}
    BY <1>0, <1>2, <2>1, Efecto, Trabajo, TrabajoLibre
  <2>. QED  BY <2>1, <2>2
<1>3. ASSUME Ocupa(w), Entra(w) PROVE Solo(w) /\ Aparta(w)
  <2>1. Va(w, "dest") /\ worker[w].en = "puerta" /\ UNCHANGED <<marcas, hechas>>
    BY <1>3 DEF Entra
  <2>2. riesgo' = IF <<worker[w].l, 0, "lote">> \in marcas THEN riesgo \cup {<<worker[w].l, 0, "lote">>} ELSE riesgo
    BY <1>3 DEF Entra, procesado
  <2>3. /\ Solo(w) /\ PorHacer(worker'[w]) = {<<worker[w].l, 0, "lote">>}
        /\ PorMarcar(worker'[w]) = {} /\ PorMarcar(worker[w]) = {}
    BY <1>0, <1>3, <2>1, Efecto, Trabajo
  <2>. QED  BY <2>1, <2>2, <2>3
<1>4. ASSUME Ocupa(w), FirmaFalla(w) \/ Reinicia(w) \/ Strike(w) \/ PausaAuto(w)
      PROVE  Solo(w) /\ Aparta(w)
  <2>1. PICK paso \in {"devuelve", "confirma", "pausa"} : Va(w, paso)
    BY <1>4 DEF FirmaFalla, Reinicia, Strike, PausaAuto
  <2>2. UNCHANGED <<marcas, hechas, riesgo>> /\ worker[w].en \notin {"marca", "cierra"}
    BY <1>4 DEF FirmaFalla, Reinicia, Strike, PausaAuto
  <2>3. Solo(w) /\ PorHacer(worker'[w]) = {} /\ PorMarcar(worker'[w]) = {} /\ PorMarcar(worker[w]) = {}
    BY <1>0, <1>4, <2>1, <2>2, Efecto, Trabajo
  <2>. QED  BY <2>2, <2>3
<1>5. ASSUME Ocupa(w), Salta(w) \/ Bloquea(w) PROVE Solo(w) /\ Aparta(w)
  <2>1. PICK cuenta \in {"sent", "failed", "blocked"} : Pasa(w, cuenta)
    BY <1>5 DEF Salta, Bloquea
  <2>2. UNCHANGED <<marcas, hechas, riesgo>> /\ worker[w].en \in {"dest", "manda"}
    BY <1>5 DEF Salta, Bloquea
  <2>3. /\ Solo(w) /\ PorHacer(worker'[w]) = {<<worker[w].l, 0, "lote">>}
        /\ PorMarcar(worker'[w]) = {} /\ PorMarcar(worker[w]) = {}
    BY <1>0, <1>5, <2>1, <2>2, Efecto, Trabajo
  <2>4. <<worker[w].l, 0, "lote">> \in PorHacer(worker[w])
    BY <2>2, Trabajo
  <2>. QED  BY <2>2, <2>3, <2>4
<1>6. ASSUME Ocupa(w), Termina(w) PROVE Solo(w) /\ Aparta(w)
  <2>1. PICK paso \in {"strike", "devuelve", "cuenta"} : Va(w, paso)
    BY <1>6 DEF Termina
  <2>2. UNCHANGED <<marcas, hechas, riesgo>> /\ worker[w].en = "dest"
    BY <1>6 DEF Termina
  <2>3. /\ Solo(w) /\ PorHacer(worker'[w]) \subseteq {<<worker[w].l, 0, "lote">>}
        /\ PorMarcar(worker'[w]) = {} /\ PorMarcar(worker[w]) = {}
    BY <1>0, <1>6, <2>1, <2>2, Efecto, Trabajo
  <2>4. <<worker[w].l, 0, "lote">> \in PorHacer(worker[w])
    BY <2>2, Trabajo
  <2>. QED  BY <2>2, <2>3, <2>4
<1>7. ASSUME Ocupa(w), Muere(w) PROVE Solo(w) /\ Aparta(w)
  <2>1. Suelta(w, "visible") /\ UNCHANGED <<marcas, hechas>> /\ riesgo' = riesgo \cup PorMarcar(worker[w])
    BY <1>7 DEF Muere
  <2>2. Solo(w) /\ worker'[w] = Libre
    BY <1>0, <1>7, <2>1, Efecto
  <2>. QED  BY <2>1, <2>2, TrabajoLibre
<1>. QED
  BY <1>1, <1>2, <1>3, <1>4, <1>5, <1>6, <1>7
     DEF Ocupa, Descarta, YaEntregado, Entra, FirmaFalla, Salta, Bloquea, Termina, Reinicia,
         Confirma, Strike, PausaAuto, Devuelve, Muere

\* So does a worker that reads the marks of a recipient: what it is going to
\* send has no mark, or its mark could not be read.
LEMMA EmpiezaPaso ==
  ASSUME IType, NEW w \in Workers, Empieza(w)
  PROVE  Solo(w) /\ Aparta(w)
<1>. DEFINE t == worker[w]
            k == <<t.l, t.i, "texto">>
            f == <<t.l, t.i, "foto">>
            marcadas == {x \in {k, f} : x \in marcas}
<1>1. Sitio /\ Ocupa(w) /\ t.en = "dest"
  BY Partes DEF Empieza, Ocupa
<1>2. worker \in Trabajador /\ t \in Ocupado
  BY <1>1, OcupadoType DEF Sitio, Ocupa
<1>3. PICK leidas \in SUBSET marcadas :
        /\ k \notin leidas /\ riesgo' = riesgo \cup (marcadas \ leidas)
        /\ worker' = [worker EXCEPT ![w] =
             [t EXCEPT !.en = "manda", !.z = IF t.l \in ConFoto /\ f \notin leidas THEN "foto" ELSE "texto"]]
  BY DEF Empieza, procesado
<1>4. /\ worker'[w].en = "manda" /\ worker'[w].l = t.l /\ worker'[w].i = t.i
      /\ worker'[w].z = IF t.l \in ConFoto /\ f \notin leidas THEN "foto" ELSE "texto"
  BY <1>2, <1>3 DEF Trabajador, Ocupado
<1>5. Solo(w) /\ UNCHANGED <<marcas, hechas>>
  BY <1>2, <1>3 DEF Solo, Trabajador, Empieza
<1>6. PorMarcar(t) = {} /\ PorMarcar(worker'[w]) = {} /\ <<t.l, 0, "lote">> \in PorHacer(t)
  BY <1>1, <1>4, Trabajo
<1>7. PorHacer(worker'[w]) \subseteq
        {<<t.l, 0, "lote">>, k} \cup (IF f \notin leidas THEN {f} ELSE {})
  BY <1>4, Trabajo
<1>. QED  BY <1>3, <1>5, <1>6, <1>7 DEF Aparta

\* Telegram takes a piece, or the counters take a lot.
LEMMA HacePaso ==
  ASSUME IType, NEW w \in Workers, Llega(w) \/ Repite(w) \/ Cuenta(w) \/ Lanza(w)
  PROVE  Solo(w) /\ Mueve(w)
<1>. DEFINE t == worker[w]
            k == <<t.l, t.i, t.z>>
            c == <<t.l, 0, "lote">>
<1>. USE DEF dedup
<1>1. Sitio /\ Ocupa(w) /\ t \in Ocupado
  BY Partes, OcupadoType DEF Llega, Repite, Cuenta, Lanza, Ocupa, Sitio
<1>2. CASE Llega(w)
  <2>1. /\ Solo(w) /\ worker'[w].en = "marca" /\ t.en = "manda"
        /\ worker'[w].l = t.l /\ worker'[w].i = t.i /\ worker'[w].z = t.z
    BY <1>1, <1>2, Efecto DEF Llega
  <2>2. /\ k \in PorHacer(t) /\ PorHacer(worker'[w]) \subseteq PorHacer(t)
        /\ PorMarcar(t) = {} /\ PorMarcar(worker'[w]) = {k}
    BY <2>1, Trabajo
  <2>3. Hace(w, k) /\ k \in Claves
    BY <1>1, <1>2, <2>1, <2>2, EnManoType DEF Hace, Llega
  <2>. QED  BY <2>1, <2>3 DEF Mueve
<1>3. CASE Cuenta(w)
  <2>1. /\ Solo(w) /\ worker'[w].en = "cierra" /\ t.en = "cuenta" /\ worker'[w].l = t.l
    BY <1>1, <1>3, Efecto DEF Cuenta
  <2>2. /\ c \in PorHacer(t) /\ PorHacer(worker'[w]) \subseteq PorHacer(t)
        /\ PorMarcar(t) = {} /\ PorMarcar(worker'[w]) = {c}
    BY <2>1, Trabajo
  <2>3. Hace(w, c) /\ c \in Claves
    BY <1>1, <1>3, <2>1, <2>2, EnManoType DEF Hace, Cuenta
  <2>. QED  BY <2>1, <2>3 DEF Mueve
<1>4. CASE Lanza(w)
  <2>1. Solo(w) /\ worker'[w].en = "dest" /\ t.en = "manda" /\ worker'[w].l = t.l
    BY <1>1, <1>4, Efecto DEF Lanza
  <2>2. /\ {k, c} \subseteq PorHacer(t) /\ PorHacer(worker'[w]) = {c}
        /\ PorMarcar(t) = {} /\ PorMarcar(worker'[w]) = {}
    BY <2>1, Trabajo
  <2>3. CASE UNCHANGED <<hechas, riesgo>>
    BY <1>4, <2>1, <2>2, <2>3 DEF Mueve, Aparta, Lanza
  <2>4. CASE hechas' = [hechas EXCEPT ![k] = @ + 1] /\ riesgo' = riesgo \cup {k}
    <3>1. Hace(w, k) /\ k \in Claves
      BY <1>1, <1>4, <2>1, <2>2, <2>4, EnManoType DEF Hace, Lanza
    <3>. QED  BY <2>1, <3>1 DEF Mueve
  <2>. QED  BY <1>4, <2>3, <2>4 DEF Lanza
<1>5. CASE Repite(w)
  <2>1. Solo(w) /\ worker' = worker /\ t.en = "manda"
    BY <1>5 DEF Repite, Solo
  <2>2. k \in PorHacer(t) /\ PorMarcar(t) = {}
    BY <2>1, Trabajo
  <2>3. Hace(w, k) /\ k \in Claves
    BY <1>1, <1>5, <2>1, <2>2, EnManoType DEF Hace, Repite
  <2>. QED  BY <2>1, <2>3 DEF Mueve
<1>. QED  BY <1>2, <1>3, <1>4, <1>5

\* What was done is marked, or its mark fails.
LEMMA AnotaPaso ==
  ASSUME IType, NEW w \in Workers, Marca(w) \/ Cierra(w)
  PROVE  Solo(w) /\ Mueve(w)
<1>. DEFINE t == worker[w]
            k == <<t.l, t.i, t.z>>
            c == <<t.l, 0, "lote">>
<1>1. Sitio /\ Ocupa(w) /\ t \in Ocupado /\ worker \in Trabajador
  BY Partes, OcupadoType DEF Marca, Cierra, Ocupa, Sitio
<1>2. ASSUME Marca(w) PROVE Solo(w) /\ Mueve(w)
  <2>1. t.en = "marca" /\ PorMarcar(t) = {k} /\ c \in PorHacer(t) /\ k \in Claves /\ t.i # 0
    BY <1>1, <1>2, Trabajo, EnManoType, OcupadoType DEF Marca, Sitio
  <2>2. /\ Solo(w) /\ PorMarcar(worker'[w]) = {}
        /\ PorHacer(worker'[w]) \subseteq PorHacer(t) /\ k \notin PorHacer(worker'[w])
    <3>1. CASE t.z = "foto"
      <4>1. worker' = [worker EXCEPT ![w] = [t EXCEPT !.en = "manda", !.z = "texto"]]
        BY <1>2, <3>1 DEF Marca
      <4>2. /\ Solo(w) /\ worker'[w].en = "manda" /\ worker'[w].l = t.l
            /\ worker'[w].i = t.i /\ worker'[w].z = "texto"
        BY <1>1, <4>1 DEF Solo, Trabajador, Ocupado
      <4>3. PorHacer(worker'[w]) = {c, <<t.l, t.i, "texto">>} /\ PorMarcar(worker'[w]) = {}
        BY <4>2, Trabajo
      <4>4. <<t.l, t.i, "texto">> \in PorHacer(t)
        BY <2>1, <3>1, Trabajo
      <4>. QED  BY <2>1, <3>1, <4>2, <4>3, <4>4
    <3>2. CASE t.z # "foto"
      <4>1. Solo(w) /\ worker'[w].en = "dest" /\ worker'[w].l = t.l
        BY <1>1, <1>2, <3>2, Efecto DEF Marca
      <4>2. PorHacer(worker'[w]) = {c} /\ PorMarcar(worker'[w]) = {}
        BY <4>1, Trabajo
      <4>. QED  BY <2>1, <4>1, <4>2
    <3>. QED  BY <3>1, <3>2
  <2>3. Anota(w, k)
    BY <1>2, <2>1, <2>2 DEF Anota, Marca, marcar
  <2>. QED  BY <2>1, <2>2, <2>3 DEF Mueve
<1>3. ASSUME Cierra(w) PROVE Solo(w) /\ Mueve(w)
  <2>1. t.en = "cierra" /\ PorMarcar(t) = {c} /\ c \in Claves
    BY <1>1, <1>3, Trabajo, EnManoType DEF Cierra
  <2>2. PICK paso \in {"reinicia", "confirma"} : Va(w, paso)
    BY <1>3 DEF Cierra
  <2>3. Solo(w) /\ PorMarcar(worker'[w]) = {} /\ PorHacer(worker'[w]) = {}
    BY <1>1, <2>2, Efecto, Trabajo
  <2>4. Anota(w, c)
    BY <1>3, <2>1, <2>3 DEF Anota, Cierra, marcar
  <2>. QED  BY <2>1, <2>3, <2>4 DEF Mueve
<1>. QED  BY <1>2, <1>3

\* Every step is of one of those kinds.
LEMMA Pasos ==
  ASSUME IType, [Next]_vars
  PROVE  Olvida \/ \E w \in Workers : Solo(w) /\ Mueve(w)
<1>. USE DEF dedup, historia, config, Olvida
<1>1. CASE UNCHANGED vars
  BY <1>1 DEF vars
<1>2. ASSUME NEW w \in Workers, Avanza(w) \/ Muere(w) PROVE Solo(w) /\ Mueve(w)
  BY <1>2, ApartaPaso, EmpiezaPaso, HacePaso, AnotaPaso DEF Avanza, Mueve
<1>3. ASSUME NEW l \in Lotes, ADlq(l) \/ Reaparece(l) \/ Caduca(l) PROVE Olvida
  BY <1>3 DEF ADlq, Reaparece, Caduca
<1>4. ASSUME NEW p \in Planes, Cancela(p) \/ Borra(p) \/ BorraTrabajo(p) PROVE Olvida
  BY <1>4 DEF Cancela, Borra, BorraTrabajo
<1>5. ASSUME dlq_redrive \/ Purga("visible") \/ Purga("dlq") \/ Pausa \/ Reanuda PROVE Olvida
  BY <1>5 DEF dlq_redrive, Purga, SinTocar, Pausa, Reanuda
<1>. QED  BY <1>1, <1>2, <1>3, <1>4, <1>5 DEF Next

(* Who holds which message.                                                *)

Sigue(w) ==
  /\ Solo(w) /\ UNCHANGED cola /\ Ocupa(w) /\ worker'[w].l = worker[w].l
Deja(w) ==
  /\ Solo(w) /\ Ocupa(w) /\ worker'[w] = Libre
  /\ \A l \in Lotes \ {worker[w].l} : cola'[l] = cola[l]
Toma(w, l) ==
  /\ Solo(w) /\ cola[l].est = "visible" /\ cola'[l].est = "oculto" /\ worker'[w].l = l
  /\ \A m \in Lotes \ {l} : cola'[m] = cola[m]
Quieta ==
  /\ UNCHANGED worker
  /\ \A l \in Lotes : cola[l].est = "oculto" => cola'[l].est = "oculto"

\* A step of a worker keeps its lot, lets it go, or takes one that was visible.
LEMMA ManosPaso ==
  ASSUME IType, NEW w \in Workers, Avanza(w) \/ Muere(w)
  PROVE  Sigue(w) \/ Deja(w) \/ \E l \in Lotes : Toma(w, l)
<1>1. Sitio /\ ColaOK /\ worker \in Trabajador
  BY Partes DEF Sitio
<1>2. ASSUME NEW l \in Lotes, Recibe(w, l) PROVE Toma(w, l)
  BY <1>1, <1>2 DEF Recibe, Recibido, Toma, Solo, Trabajador, ColaOK
<1>3. ASSUME Ocupa(w), \/ Descarta(w) \/ YaEntregado(w) \/ Confirma(w) \/ Devuelve(w) \/ Muere(w)
      PROVE  Deja(w)
  <2>1. PICK est \in Estados : Suelta(w, est)
    BY <1>3 DEF Descarta, YaEntregado, Confirma, Devuelve, Muere, Estados
  <2>2. cola' = [cola EXCEPT ![worker[w].l].est = est]
    BY <2>1 DEF Suelta
  <2>. QED  BY <1>1, <1>3, <2>1, <2>2, Efecto DEF Deja, ColaOK
<1>4. ASSUME Ocupa(w), \/ Entra(w) \/ FirmaFalla(w) \/ Llega(w) \/ Termina(w) \/ Cuenta(w) \/ Cierra(w)
                       \/ Reinicia(w) \/ Strike(w) \/ PausaAuto(w)
      PROVE  Sigue(w)
  <2>1. (\E paso : Va(w, paso)) /\ UNCHANGED cola
    BY <1>4 DEF Entra, FirmaFalla, Llega, Termina, Cuenta, Cierra, Reinicia, Strike, PausaAuto
  <2>. QED  BY <1>1, <1>4, <2>1, Efecto DEF Sigue
<1>5. ASSUME Ocupa(w), Salta(w) \/ Bloquea(w) \/ Lanza(w) \/ (Marca(w) /\ worker[w].z # "foto")
      PROVE  Sigue(w)
  <2>1. (\E cuenta \in {"sent", "failed", "blocked"} : Pasa(w, cuenta)) /\ UNCHANGED cola
    BY <1>5 DEF Salta, Bloquea, Lanza, Marca
  <2>. QED  BY <1>1, <1>5, <2>1, Efecto DEF Sigue
<1>6. ASSUME Ocupa(w), Empieza(w) \/ (Marca(w) /\ worker[w].z = "foto")
      PROVE  Sigue(w)
  <2>1. PICK z : worker' = [worker EXCEPT ![w] = [worker[w] EXCEPT !.en = "manda", !.z = z]]
    BY <1>6 DEF Empieza, Marca
  <2>2. worker[w] \in Ocupado /\ UNCHANGED cola
    BY <1>1, <1>6, OcupadoType DEF Ocupa, Empieza, Marca
  <2>. QED  BY <1>1, <1>6, <2>1, <2>2 DEF Sigue, Solo, Trabajador, Ocupado
<1>7. ASSUME Ocupa(w), Repite(w) PROVE Sigue(w)
  BY <1>7 DEF Repite, Sigue, Solo
<1>. QED
  BY <1>2, <1>3, <1>4, <1>5, <1>6, <1>7
     DEF Avanza, Ocupa, Descarta, YaEntregado, Entra, FirmaFalla, Salta, Empieza, Llega, Repite, Bloquea,
         Lanza, Marca, Termina, Cuenta, Cierra, Reinicia, Confirma, Strike, PausaAuto, Devuelve, Muere

\* The rest only moves messages that nobody holds.
LEMMA EntornoManos ==
  ASSUME IType,
         \/ \E l \in Lotes : ADlq(l) \/ Reaparece(l) \/ Caduca(l)
         \/ \E p \in Planes : Cancela(p) \/ Borra(p) \/ BorraTrabajo(p)
         \/ dlq_redrive \/ Purga("visible") \/ Purga("dlq") \/ Pausa \/ Reanuda
  PROVE  Quieta
<1>1. ColaOK
  BY Partes
<1>2. ASSUME NEW l \in Lotes, ADlq(l) \/ Reaparece(l) PROVE Quieta
  BY <1>1, <1>2 DEF ADlq, Reaparece, Quieta, ColaOK
<1>3. ASSUME \/ \E l \in Lotes : Caduca(l)
             \/ \E p \in Planes : Cancela(p) \/ Borra(p) \/ BorraTrabajo(p)
             \/ Pausa \/ Reanuda
      PROVE  Quieta
  BY <1>3 DEF Caduca, Cancela, Borra, BorraTrabajo, Pausa, Reanuda, Quieta
<1>4. ASSUME dlq_redrive \/ Purga("visible") \/ Purga("dlq") PROVE Quieta
  BY <1>1, <1>4 DEF dlq_redrive, Purga, EnDlq, SinTocar, Quieta, ColaOK
<1>. QED  BY <1>2, <1>3, <1>4

\* A message is hidden while one worker, and only one, holds it.
LEMMA UnaManoNext ==
  ASSUME IType, UnaMano, [Next]_vars
  PROVE  UnaMano'
<1>0. Sitio /\ ColaOK
  BY Partes
<1>00. \A w \in Workers : Ocupa(w) => worker[w].l \in Lotes
  BY <1>0, OcupadoType DEF Sitio, Ocupa
<1>1. CASE UNCHANGED vars
  BY <1>1 DEF vars, UnaMano, Ocupa
<1>2. ASSUME Quieta PROVE UnaMano'
  BY <1>2, <1>00 DEF Quieta, UnaMano, Ocupa
<1>3. ASSUME NEW w \in Workers, Sigue(w) PROVE UnaMano'
  <2>1. \A v \in Workers : Ocupa(v)' => Ocupa(v) /\ worker'[v].l = worker[v].l
    BY <1>3 DEF Sigue, Solo, Ocupa
  <2>. QED  BY <1>3, <2>1 DEF Sigue, UnaMano
<1>4. ASSUME NEW w \in Workers, Deja(w) PROVE UnaMano'
  <2>1. \A v \in Workers : Ocupa(v)' => v # w /\ Ocupa(v) /\ worker'[v].l = worker[v].l
    BY <1>4 DEF Deja, Solo, Ocupa, Libre
  <2>2. \A v \in Workers : Ocupa(v)' => cola'[worker[v].l] = cola[worker[v].l]
    BY <1>00, <1>4, <2>1 DEF Deja, UnaMano
  <2>. QED  BY <2>1, <2>2 DEF UnaMano
<1>5. ASSUME NEW w \in Workers, NEW l \in Lotes, Toma(w, l) PROVE UnaMano'
  <2>1. \A v \in Workers \ {w} : Ocupa(v)' =>
           Ocupa(v) /\ worker'[v].l = worker[v].l /\ worker[v].l # l
    BY <1>5 DEF Toma, Solo, Ocupa, UnaMano
  <2>2. \A v \in Workers \ {w} : Ocupa(v)' => cola'[worker[v].l] = cola[worker[v].l]
    BY <1>00, <1>5, <2>1 DEF Toma
  <2>. QED  BY <1>5, <2>1, <2>2 DEF UnaMano, Toma
<1>. QED  BY <1>1, <1>2, <1>3, <1>4, <1>5, ManosPaso, EntornoManos DEF Next

(* The dedup.                                                              *)

\* What two workers have in hand is never the same.
LEMMA Ajenas ==
  ASSUME IType, UnaMano, NEW w \in Workers, NEW v \in Workers \ {w}
  PROVE  /\ PorMarcar(worker[w]) \cap PorMarcar(worker[v]) = {}
         /\ PorHacer(worker[w]) \cap PorMarcar(worker[v]) = {}
         /\ PorMarcar(worker[w]) \cap PorHacer(worker[v]) = {}
         /\ PorHacer(worker[w]) \cap PorHacer(worker[v]) = {}
<1>1. \A u \in Workers : ~Ocupa(u) => PorHacer(worker[u]) = {} /\ PorMarcar(worker[u]) = {}
  BY Trabajo DEF Ocupa
<1>2. \A u \in Workers : \A k \in PorHacer(worker[u]) \cup PorMarcar(worker[u]) : k[1] = worker[u].l
  BY DEF PorHacer, PorMarcar
<1>3. CASE Ocupa(w) /\ Ocupa(v)
  <2>1. worker[w].l # worker[v].l
    BY <1>3 DEF UnaMano
  <2>. QED  BY <1>2, <2>1
<1>4. CASE ~(Ocupa(w) /\ Ocupa(v))
  BY <1>1, <1>4
<1>. QED  BY <1>3, <1>4

\* What has been done stays done.
LEMMA HechasCrece ==
  ASSUME IType, [Next]_vars
  PROVE  \A k \in Claves : hechas[k] \in Nat /\ hechas'[k] \in Nat /\ hechas'[k] >= hechas[k]
<1>1. hechas \in [Claves -> Nat] /\ hechas' \in [Claves -> Nat]
  BY TypeNext DEF IType, TypeOK
<1>2. CASE UNCHANGED hechas
  BY <1>1, <1>2
<1>3. ASSUME NEW k \in Claves, hechas' = [hechas EXCEPT ![k] = @ + 1]
      PROVE  \A j \in Claves : hechas'[j] >= hechas[j]
  BY <1>1, <1>3
<1>. QED  BY <1>1, <1>2, <1>3, Pasos DEF Olvida, Mueve, Aparta, Hace, Anota

\* What a worker is about to do has no mark that could still be trusted.
LEMMA SinMarcaNext ==
  ASSUME IType, UnaMano, SinMarca, [Next]_vars
  PROVE  SinMarca'
<1>1. CASE Olvida
  BY <1>1 DEF Olvida, SinMarca
<1>2. ASSUME NEW w \in Workers, Solo(w), Mueve(w) PROVE SinMarca'
  <2>0. riesgo \subseteq riesgo'
    BY <1>2 DEF Mueve, Aparta, Hace, Anota
  <2>1. ASSUME NEW v \in Workers \ {w} PROVE (PorHacer(worker[v]) \cap marcas \subseteq riesgo)'
    <3>1. worker'[v] = worker[v] /\ PorHacer(worker[v]) \cap marcas \subseteq riesgo
      BY <1>2 DEF Solo, SinMarca
    <3>2. \A k \in marcas' \ marcas : k \in PorMarcar(worker[w])
      BY <1>2 DEF Mueve, Aparta, Hace, Anota
    <3>. QED  BY <2>0, <3>1, <3>2, Ajenas
  <2>2. (PorHacer(worker[w]) \cap marcas \subseteq riesgo)'
    <3>1. PorHacer(worker[w]) \cap marcas \subseteq riesgo
      BY DEF SinMarca
    <3>. QED  BY <1>2, <2>0, <3>1 DEF Mueve, Aparta, Hace, Anota
  <2>. QED  BY <2>1, <2>2 DEF SinMarca
<1>. QED  BY <1>1, <1>2, Pasos

\* What was done has its mark, or will get it, or is at risk.
LEMMA AnotadoNext ==
  ASSUME IType, UnaMano, Anotado, [Next]_vars
  PROVE  Anotado'
<1>0. hechas \in [Claves -> Nat]
  BY DEF IType, TypeOK
<1>1. CASE Olvida
  BY <1>1 DEF Olvida, Anotado
<1>2. ASSUME NEW w \in Workers, Solo(w), Mueve(w), NEW k \in Claves, hechas'[k] > 0
      PROVE  k \in marcas' \cup riesgo' \/ \E v \in Workers : k \in PorMarcar(worker'[v])
  <2>1. CASE hechas[k] > 0
    <3>1. k \in marcas \cup riesgo \/ \E v \in Workers : k \in PorMarcar(worker[v])
      BY <2>1 DEF Anotado
    <3>2. marcas \subseteq marcas' /\ riesgo \subseteq riesgo'
      BY <1>2 DEF Mueve, Aparta, Hace, Anota
    <3>3. PorMarcar(worker[w]) \subseteq marcas' \cup riesgo'
      BY <1>2 DEF Mueve, Aparta, Hace, Anota
    <3>. QED  BY <1>2, <3>1, <3>2, <3>3 DEF Solo
  <2>2. CASE ~(hechas[k] > 0)
    <3>1. Hace(w, k)
      BY <1>0, <1>2, <2>2 DEF Mueve, Aparta, Hace, Anota
    <3>. QED  BY <3>1 DEF Hace
  <2>. QED  BY <2>1, <2>2
<1>. QED  BY <1>1, <1>2, Pasos DEF Anotado

\* Nothing done is done again, unless it is at risk.
LEMMA AloSumoNext ==
  ASSUME IType, UnaMano, SinMarca, Anotado, AloSumoUnaVez, [Next]_vars
  PROVE  AloSumoUnaVez'
<1>0. hechas \in [Claves -> Nat]
  BY DEF IType, TypeOK
<1>1. CASE Olvida
  BY <1>1 DEF Olvida, AloSumoUnaVez
<1>2. ASSUME NEW w \in Workers, Solo(w), Mueve(w), NEW k \in Claves, hechas'[k] > 1
      PROVE  k \in riesgo'
  <2>0. riesgo \subseteq riesgo'
    BY <1>2 DEF Mueve, Aparta, Hace, Anota
  <2>1. CASE hechas[k] > 1
    BY <2>0, <2>1 DEF AloSumoUnaVez
  <2>2. CASE ~(hechas[k] > 1)
    <3>1. Hace(w, k) /\ hechas[k] > 0
      BY <1>0, <1>2, <2>2 DEF Mueve, Aparta, Hace, Anota
    <3>2. k \in PorHacer(worker[w]) /\ PorMarcar(worker[w]) = {}
      BY <3>1 DEF Hace
    <3>3. k \in marcas \cup riesgo \/ \E v \in Workers : k \in PorMarcar(worker[v])
      BY <3>1 DEF Anotado
    <3>4. k \in marcas \cup riesgo
      BY <3>2, <3>3, Ajenas
    <3>. QED  BY <2>0, <3>2, <3>4 DEF SinMarca
  <2>. QED  BY <2>1, <2>2
<1>. QED  BY <1>1, <1>2, Pasos DEF AloSumoUnaVez

\* A worker that is about to let a lot go has closed it.
LEMMA Llegada ==
  ASSUME IType, [Next]_vars, NEW w \in Workers, worker'[w].en \in {"reinicia", "confirma"}
  PROVE  worker'[w].l = worker[w].l /\ worker[w].en \in {"cierra", "reinicia", "confirma"}
<1>0. Sitio /\ worker \in Trabajador
  BY Partes DEF Sitio
<1>1. CASE UNCHANGED worker
  BY <1>1
<1>2. ASSUME NEW v \in Workers \ {w}, Solo(v) PROVE worker'[w] = worker[w]
  BY <1>2 DEF Solo
<1>3. CASE Reinicia(w) \/ Cierra(w)
  <2>1. (\E paso : Va(w, paso)) /\ worker[w].en \in {"cierra", "reinicia"}
    BY <1>3 DEF Reinicia, Cierra
  <2>. QED  BY <1>0, <2>1, Efecto DEF Ocupa
<1>4. ASSUME Ocupa(w), \/ Descarta(w) \/ YaEntregado(w) \/ Confirma(w) \/ Devuelve(w) \/ Muere(w)
      PROVE  FALSE
  <2>1. \E est : Suelta(w, est)
    BY <1>4 DEF Descarta, YaEntregado, Confirma, Devuelve, Muere
  <2>. QED  BY <1>0, <1>4, <2>1, Efecto DEF Libre
<1>5. ASSUME Ocupa(w), \/ Entra(w) \/ FirmaFalla(w) \/ Llega(w) \/ Termina(w) \/ Cuenta(w)
                       \/ Strike(w) \/ PausaAuto(w)
      PROVE  FALSE
  <2>1. \E paso : Va(w, paso) /\ paso \notin {"reinicia", "confirma"}
    BY <1>5 DEF Entra, FirmaFalla, Llega, Termina, Cuenta, Strike, PausaAuto
  <2>. QED  BY <1>0, <1>5, <2>1, Efecto
<1>6. ASSUME Ocupa(w), Salta(w) \/ Bloquea(w) \/ Lanza(w) \/ (Marca(w) /\ worker[w].z # "foto")
      PROVE  FALSE
  <2>1. \E cuenta \in {"sent", "failed", "blocked"} : Pasa(w, cuenta)
    BY <1>6 DEF Salta, Bloquea, Lanza, Marca
  <2>. QED  BY <1>0, <1>6, <2>1, Efecto
<1>7. ASSUME Ocupa(w), Empieza(w) \/ (Marca(w) /\ worker[w].z = "foto")
      PROVE  FALSE
  <2>1. PICK z : worker' = [worker EXCEPT ![w] = [worker[w] EXCEPT !.en = "manda", !.z = z]]
    BY <1>7 DEF Empieza, Marca
  <2>2. worker[w] \in Ocupado
    BY <1>0, <1>7, OcupadoType DEF Ocupa
  <2>. QED  BY <1>0, <2>1, <2>2 DEF Trabajador, Ocupado
<1>8. ASSUME NEW l \in Lotes, Recibe(w, l) PROVE FALSE
  BY <1>0, <1>8 DEF Recibe, Trabajador
<1>9. ASSUME Repite(w) PROVE FALSE
  BY <1>9 DEF Repite
<1>10. CASE Avanza(w) \/ Muere(w)
  BY <1>3, <1>4, <1>5, <1>6, <1>7, <1>8, <1>9, <1>10
     DEF Avanza, Ocupa, Descarta, YaEntregado, Entra, FirmaFalla, Salta, Empieza, Llega, Repite, Bloquea,
         Lanza, Marca, Termina, Cuenta, Confirma, Strike, PausaAuto, Devuelve, Muere
<1>11. ASSUME NEW v \in Workers, Avanza(v) \/ Muere(v) PROVE Solo(v)
  BY <1>11, ManosPaso DEF Sigue, Deja, Toma
<1>. QED
  BY <1>1, <1>2, <1>10, <1>11, EntornoManos DEF Next, vars, Quieta

\* A worker has done what it is about to mark, and counted what it closes.
LEMMA DentroNext ==
  ASSUME IType, Dentro, [Next]_vars
  PROVE  Dentro'
<1>1. IType'
  BY TypeNext
<1>2. ASSUME NEW w \in Workers, NEW k \in PorMarcar(worker'[w]) PROVE hechas'[k] > 0
  <2>1. k \in Claves
    <3>1. Ocupa(w)'
      BY DEF PorMarcar, Ocupa
    <3>2. Sitio' /\ worker'[w] \in Ocupado
      BY <1>1, <3>1, Partes DEF Sitio, Trabajador, Ocupa, Libre
    <3>3. /\ worker'[w].l \in Lotes /\ worker'[w].i \in Nat \ {0} /\ worker'[w].z \in Pieza
          /\ Dests[worker'[w].l] \in Nat
      BY <3>2, LotDeliveryAssumption DEF Ocupado
    <3>4. worker'[w].en = "marca" => worker'[w].i <= Dests[worker'[w].l]
      BY <1>1 DEF IType, EnRango
    <3>5. CASE worker'[w].en = "marca"
      <4>1. worker'[w].i \in 1..Dests[worker'[w].l]
        BY <3>3, <3>4, <3>5
      <4>2. k = <<worker'[w].l, worker'[w].i, worker'[w].z>>
        BY <3>5, Trabajo
      <4>. QED  BY <3>3, <4>1, <4>2, ClaveType
    <3>6. CASE worker'[w].en = "cierra"
      <4>1. k = <<worker'[w].l, 0, "lote">>
        BY <3>6, Trabajo
      <4>. QED  BY <3>3, <4>1, ClaveType
    <3>. QED  BY <1>2, <3>5, <3>6, Trabajo
  <2>2. hechas[k] > 0 => hechas'[k] > 0
    BY <2>1, HechasCrece
  <2>3. CASE k \in PorMarcar(worker[w])
    BY <2>2, <2>3 DEF Dentro
  <2>4. CASE k \notin PorMarcar(worker[w])
    <3>1. PICK v \in Workers : Solo(v) /\ Mueve(v)
      BY <1>2, <2>4, Pasos DEF Olvida
    <3>2. v = w
      BY <1>2, <2>4, <3>1 DEF Solo
    <3>3. Hace(w, k)
      BY <1>2, <3>1, <3>2 DEF Mueve, Aparta, Hace, Anota
    <3>. QED  BY <2>1, <3>3, HechasCrece DEF Hace, IType, TypeOK
  <2>. QED  BY <2>3, <2>4
<1>3. ASSUME NEW w \in Workers, worker'[w].en \in {"reinicia", "confirma"}
      PROVE  hechas'[<<worker'[w].l, 0, "lote">>] > 0
  <2>. DEFINE c == <<worker[w].l, 0, "lote">>
  <2>1. worker'[w].l = worker[w].l /\ worker[w].en \in {"cierra", "reinicia", "confirma"}
    BY <1>3, Llegada
  <2>2. hechas[c] > 0
    <3>1. CASE worker[w].en = "cierra"
      BY <3>1, Trabajo DEF Dentro
    <3>. QED  BY <2>1, <3>1 DEF Dentro
  <2>3. c \in Claves
    BY <2>1, EnManoType DEF Ocupa
  <2>. QED  BY <2>1, <2>2, <2>3, HechasCrece
<1>. QED  BY <1>1, <1>2, <1>3 DEF Dentro, IType, EnRango

\* A mark is only written for what was done.
LEMMA MarcadoNext ==
  ASSUME IType, Dentro, MarcadoHecho, [Next]_vars
  PROVE  MarcadoHecho'
<1>1. ASSUME NEW k \in marcas' PROVE hechas'[k] > 0
  <2>1. k \in Claves
    BY TypeNext DEF IType, TypeOK
  <2>2. hechas[k] > 0
    BY Pasos DEF Olvida, Mueve, Aparta, Hace, Anota, Dentro, MarcadoHecho
  <2>. QED  BY <2>1, <2>2, HechasCrece
<1>. QED  BY <1>1 DEF MarcadoHecho

\* The panel never brings a plan back.
LEMMA DescartarQueda ==
  ASSUME IType, [Next]_vars, NEW l \in Lotes, descartar(l)
  PROVE  descartar(l)'
<1>1. \A p \in Planes : plan[p] # "vivo" => plan'[p] # "vivo"
  <2>1. CASE UNCHANGED plan
    BY <2>1
  <2>2. ASSUME NEW p \in Planes, Cancela(p) \/ Borra(p)
        PROVE  \A q \in Planes : plan[q] # "vivo" => plan'[q] # "vivo"
    BY <2>2 DEF Cancela, Borra, IType, TypeOK
  <2>3. UNCHANGED plan \/ \E p \in Planes : Cancela(p) \/ Borra(p)
    <3>1. ASSUME NEW w \in Workers, Avanza(w) \/ Muere(w) PROVE UNCHANGED plan
      BY <3>1 DEF Avanza, Muere, Recibe, Descarta, YaEntregado, Entra, FirmaFalla, Salta, Empieza,
           Llega, Repite, Bloquea, Lanza, Marca, Termina, Cuenta, Cierra, Reinicia, Confirma, Strike,
           PausaAuto, Devuelve
    <3>2. ASSUME \/ \E l1 \in Lotes : ADlq(l1) \/ Reaparece(l1) \/ Caduca(l1)
                 \/ \E p \in Planes : BorraTrabajo(p)
                 \/ dlq_redrive \/ Purga("visible") \/ Purga("dlq") \/ Pausa \/ Reanuda
          PROVE  UNCHANGED plan
      BY <3>2 DEF ADlq, Reaparece, Caduca, BorraTrabajo, dlq_redrive, Purga, SinTocar, Pausa, Reanuda
    <3>. QED  BY <3>1, <3>2 DEF Next, vars
  <2>. QED  BY <2>1, <2>2, <2>3
<1>. QED  BY <1>1, LotDeliveryAssumption DEF descartar

\* A message is deleted by a worker that discards it, has counted it, or reads
\* that it was counted.
LEMMA Borrado ==
  ASSUME IType, [Next]_vars, NEW l \in Lotes, cola'[l].est = "borrado", cola[l].est # "borrado"
  PROVE  \E w \in Workers : worker[w].l = l /\ (Descarta(w) \/ YaEntregado(w) \/ Confirma(w))
<1>0. Sitio /\ ColaOK /\ cola' # cola
  BY Partes
<1>1. ASSUME NEW w \in Workers, Avanza(w) \/ Muere(w)
      PROVE  worker[w].l = l /\ (Descarta(w) \/ YaEntregado(w) \/ Confirma(w))
  <2>1. Deja(w)
    BY <1>0, <1>1, ManosPaso DEF Sigue, Toma, ColaOK
  <2>2. worker[w].l = l
    BY <1>0, <2>1 DEF Deja
  <2>3. ASSUME Devuelve(w) \/ Muere(w) PROVE FALSE
    BY <1>0, <2>2, <2>3 DEF Devuelve, Muere, Suelta, ColaOK
  <2>4. ASSUME NEW m \in Lotes, Recibe(w, m) PROVE FALSE
    BY <2>1, <2>4 DEF Deja, Recibe, Ocupa
  <2>5. ASSUME \/ Entra(w) \/ FirmaFalla(w) \/ Salta(w) \/ Empieza(w) \/ Llega(w) \/ Repite(w) \/ Bloquea(w)
               \/ Lanza(w) \/ Marca(w) \/ Termina(w) \/ Cuenta(w) \/ Cierra(w) \/ Reinicia(w)
               \/ Strike(w) \/ PausaAuto(w)
        PROVE  FALSE
    BY <1>0, <2>5 DEF Entra, FirmaFalla, Salta, Empieza, Llega, Repite, Bloquea, Lanza, Marca, Termina,
         Cuenta, Cierra, Reinicia, Strike, PausaAuto
  <2>. QED  BY <1>1, <2>2, <2>3, <2>4, <2>5 DEF Avanza
<1>2. ASSUME NEW m \in Lotes, ADlq(m) \/ Reaparece(m) \/ Caduca(m) PROVE FALSE
  BY <1>0, <1>2 DEF ADlq, Reaparece, Caduca, ColaOK
<1>3. ASSUME \/ \E p \in Planes : Cancela(p) \/ Borra(p) \/ BorraTrabajo(p)
             \/ Pausa \/ Reanuda
      PROVE  FALSE
  BY <1>0, <1>3 DEF Cancela, Borra, BorraTrabajo, Pausa, Reanuda
<1>4. ASSUME dlq_redrive \/ Purga("visible") \/ Purga("dlq") PROVE FALSE
  BY <1>0, <1>4 DEF dlq_redrive, Purga, EnDlq, ColaOK
<1>. QED  BY <1>0, <1>1, <1>2, <1>3, <1>4 DEF Next, vars

\* So a manual lot leaves the queue counted, unless its plan is gone.
LEMMA ManualNext ==
  ASSUME IType, Dentro, MarcadoHecho, ManualNoSePierde, [Next]_vars
  PROVE  ManualNoSePierde'
<1>1. ASSUME NEW l \in Lotes, PlanDe[l] \in Manual \ SinPlan, cola'[l].est = "borrado"
      PROVE  hechas'[<<l, 0, "lote">>] > 0 \/ descartar(l)'
  <2>. DEFINE c == <<l, 0, "lote">>
  <2>1. c \in Claves
    BY ClaveType
  <2>2. hechas[c] > 0 \/ descartar(l)
    <3>1. CASE cola[l].est = "borrado"
      BY <1>1, <3>1 DEF ManualNoSePierde, Sale
    <3>2. CASE cola[l].est # "borrado"
      <4>1. PICK w \in Workers :
              worker[w].l = l /\ (Descarta(w) \/ YaEntregado(w) \/ Confirma(w))
        BY <1>1, <3>2, Borrado
      <4>2. CASE Descarta(w)
        BY <1>1, <4>1, <4>2 DEF Descarta, Automatico
      <4>3. CASE YaEntregado(w)
        BY <4>1, <4>3 DEF YaEntregado, procesado, MarcadoHecho
      <4>4. CASE Confirma(w)
        BY <4>1, <4>4 DEF Confirma, Dentro
      <4>. QED  BY <4>1, <4>2, <4>3, <4>4
    <3>. QED  BY <3>1, <3>2
  <2>. QED  BY <2>1, <2>2, HechasCrece, DescartarQueda
<1>. QED  BY <1>1 DEF ManualNoSePierde, Sale

(* The invariant.                                                          *)

\* Idempotencia holds at the start.
LEMMA IdempotenciaInit == Init => Idempotencia
<1>. SUFFICES ASSUME Init PROVE Idempotencia
  OBVIOUS
<1>1. \A w \in Workers :
        /\ ~Ocupa(w) /\ PorHacer(worker[w]) = {} /\ PorMarcar(worker[w]) = {}
        /\ worker[w].en = "libre"
  BY TrabajoLibre DEF Init, Ocupa, Libre
<1>2. UnaMano /\ SinMarca /\ Dentro
  BY <1>1 DEF UnaMano, SinMarca, Dentro
<1>3. Anotado /\ AloSumoUnaVez /\ MarcadoHecho
  BY DEF Init, Anotado, AloSumoUnaVez, MarcadoHecho
<1>4. ManualNoSePierde
  BY DEF Init, ManualNoSePierde, Sale
<1>. QED  BY <1>2, <1>3, <1>4 DEF Idempotencia

\* The inductive invariant: one worker to a message, nothing trusted is about to
\* be done again, everything done is marked, about to be, or at risk (worker.py,
\* deliver_batch.py, DynamoDbDedupStore).
THEOREM Idempotent == Spec => []Idempotencia
<1>1. IType /\ Idempotencia /\ [Next]_vars => Idempotencia'
  BY UnaManoNext, SinMarcaNext, AnotadoNext, DentroNext, AloSumoNext, MarcadoNext, ManualNext
     DEF Idempotencia
<1>2. IType /\ [Next]_vars => IType'
  BY TypeNext
<1>. QED  BY <1>1, <1>2, TypeInit, IdempotenciaInit, PTL DEF Spec

\* However often the queue delivers a lot and wherever the worker dies, a piece
\* is sent or counted twice only if its mark was not written, was lost or could
\* not be read.
THEOREM AtMostOnce == Spec => []AloSumoUnaVez
<1>1. Idempotencia => AloSumoUnaVez
  BY DEF Idempotencia
<1>. QED  BY <1>1, Idempotent, PTL

\* A recipient marked as served was served: a lot that resumes skips nobody who
\* got nothing.
THEOREM MarksAreDone == Spec => []MarcadoHecho
<1>1. Idempotencia => MarcadoHecho
  BY DEF Idempotencia
<1>. QED  BY <1>1, Idempotent, PTL

\* A lot of a manual plan that nobody canceled or deleted never leaves the queue
\* uncounted, paused or not, except to the DLQ or by a purge.
THEOREM ManualKept == Spec => []ManualNoSePierde
<1>1. Idempotencia => ManualNoSePierde
  BY DEF Idempotencia
<1>. QED  BY <1>1, Idempotent, PTL

(* What is counted as sent.                                                *)

\* The recipients reached: of a lot, up to n; of the lots of p already counted.
Hechas == {k \in Claves : hechas[k] > 0}
Servidos(l, n) == {k \in Hechas : k[1] = l /\ k[2] <= n /\ k[3] = "texto"}
Contados(p) ==
  {k \in Hechas : PlanDe[k[1]] = p /\ k[3] = "texto" /\ hechas[<<k[1], 0, "lote">>] > 0}
\* A worker has reached those it has counted; a job, those of the lots it counted.
InvEnviado ==
  /\ IsFiniteSet(Hechas)
  /\ \A w \in Workers : Ocupa(w) =>
       worker[w].sent <= Cardinality(Servidos(worker[w].l, worker[w].i - 1))
  /\ \A p \in Planes : (\A l \in LotesDe(p) : hechas[<<l, 0, "lote">>] <= 1) =>
       bc[p].sent <= Cardinality(Contados(p))

\* What was done stays done, and only ever finitely much of it.
LEMMA Alcanzados ==
  ASSUME IType, InvEnviado, [Next]_vars
  PROVE  /\ IsFiniteSet(Hechas')
         /\ \A k \in Claves : hechas[k] \in Nat /\ hechas'[k] \in Nat /\ hechas[k] <= hechas'[k]
         /\ \A l, n : Servidos(l, n) \subseteq Servidos(l, n)'
         /\ \A p : Contados(p) \subseteq Contados(p)'
<1>1. hechas \in [Claves -> Nat]
  BY Partes DEF DedupOK
<1>2. \/ UNCHANGED hechas
      \/ \E k \in Claves : hechas' = [hechas EXCEPT ![k] = @ + 1]
  BY Pasos DEF Olvida, Mueve, Aparta, Hace, Anota
<1>3. \A k \in Claves : hechas[k] \in Nat /\ hechas'[k] \in Nat /\ hechas[k] <= hechas'[k]
  BY <1>1, <1>2
<1>4. Hechas \subseteq Hechas'
  BY <1>3 DEF Hechas
<1>5. IsFiniteSet(Hechas')
  <2>1. CASE UNCHANGED hechas
    <3>1. Hechas' = Hechas
      BY <2>1 DEF Hechas
    <3>. QED  BY <3>1 DEF InvEnviado
  <2>2. ASSUME NEW k \in Claves, hechas' = [hechas EXCEPT ![k] = @ + 1]
        PROVE  IsFiniteSet(Hechas')
    <3>1. Hechas' = Hechas \cup {k}
      BY <1>1, <2>2 DEF Hechas
    <3>2. IsFiniteSet(Hechas \cup {k})
      BY FS_AddElement DEF InvEnviado
    <3>. QED  BY <3>1, <3>2
  <2>. QED  BY <1>2, <2>1, <2>2
<1>6. \A l, n : Servidos(l, n) \subseteq Servidos(l, n)'
  BY <1>4 DEF Servidos
<1>7. \A p : Contados(p) \subseteq Contados(p)'
  <2>1. \A k \in Claves : <<k[1], 0, "lote">> \in Claves
    BY ClaveType DEF Claves, Clave
  <2>2. \A k \in Hechas : hechas[<<k[1], 0, "lote">>] > 0 => hechas'[<<k[1], 0, "lote">>] > 0
    BY <1>3, <2>1 DEF Hechas
  <2>. QED  BY <1>4, <2>2 DEF Contados
<1>. QED  BY <1>3, <1>5, <1>6, <1>7

\* How a step moves what a worker has counted as sent.
Reparte(v) ==
  \/ ~Ocupa(v)' \/ worker'[v].sent = 0
  \/ /\ Ocupa(v) /\ worker'[v].l = worker[v].l /\ worker'[v].sent = worker[v].sent
     /\ worker'[v].i \in {worker[v].i, worker[v].i + 1}
  \/ /\ Ocupa(v) /\ worker'[v].l = worker[v].l /\ worker'[v].sent = worker[v].sent + 1
     /\ worker'[v].i = worker[v].i + 1
     /\ <<worker[v].l, worker[v].i, "texto">> \in Hechas

\* A recipient counted as sent has been reached, now or by an earlier attempt.
LEMMA RepartePaso ==
  ASSUME IType, Idempotencia, NEW w \in Workers, Avanza(w) \/ Muere(w)
  PROVE  Solo(w) /\ Reparte(w)
<1>1. Sitio /\ worker \in Trabajador /\ hechas \in [Claves -> Nat]
  BY Partes DEF Sitio, DedupOK
<1>2. ASSUME NEW l \in Lotes, Recibe(w, l) PROVE Solo(w) /\ Reparte(w)
  BY <1>1, <1>2 DEF Recibe, Trabajador, Solo, Reparte
<1>3. CASE Ocupa(w)
  <2>1. worker[w] \in Ocupado /\ worker[w].l \in Lotes
    BY <1>1, <1>3, OcupadoType DEF Ocupa
  <2>2. ASSUME NEW est, Suelta(w, est) PROVE Solo(w) /\ Reparte(w)
    BY <1>1, <1>3, <2>2, Efecto DEF Reparte, Ocupa, Libre
  <2>3. ASSUME NEW paso, NEW z, worker' = [worker EXCEPT ![w] = [worker[w] EXCEPT !.en = paso, !.z = z]]
        PROVE  Solo(w) /\ Reparte(w)
    BY <1>1, <1>3, <2>1, <2>3 DEF Reparte, Trabajador, Ocupado, Solo
  <2>4. ASSUME NEW paso, Va(w, paso) PROVE Solo(w) /\ Reparte(w)
    BY <1>1, <1>3, <2>1, <2>4 DEF Va, Reparte, Trabajador, Ocupado, Solo
  <2>5. ASSUME Pasa(w, "failed") \/ Pasa(w, "blocked") PROVE Solo(w) /\ Reparte(w)
    <3>1. PICK cuenta \in {"failed", "blocked"} : Pasa(w, cuenta)
      BY <2>5
    <3>2. /\ Siguiente(worker[w], cuenta).sent = worker[w].sent
          /\ Siguiente(worker[w], cuenta).l = worker[w].l
          /\ Siguiente(worker[w], cuenta).i = worker[w].i + 1
      BY <2>1 DEF Siguiente, Ocupado
    <3>. QED  BY <1>1, <1>3, <3>1, <3>2, Efecto DEF Pasa, Reparte, Trabajador
  <2>6. ASSUME Pasa(w, "sent"), <<worker[w].l, worker[w].i, "texto">> \in Hechas
        PROVE  Solo(w) /\ Reparte(w)
    <3>1. /\ Siguiente(worker[w], "sent").sent = worker[w].sent + 1
          /\ Siguiente(worker[w], "sent").l = worker[w].l
          /\ Siguiente(worker[w], "sent").i = worker[w].i + 1
      BY <2>1 DEF Siguiente, Ocupado
    <3>. QED  BY <1>1, <1>3, <2>6, <3>1, Efecto DEF Pasa, Reparte, Trabajador
  <2>7. CASE Salta(w)
    <3>1. /\ Pasa(w, "sent") /\ <<worker[w].l, worker[w].i, "texto">> \in marcas
          /\ worker[w].i <= Dests[worker[w].l]
      BY <2>7 DEF Salta, procesado
    <3>2. <<worker[w].l, worker[w].i, "texto">> \in Hechas
      BY <1>1, <3>1, Partes DEF Idempotencia, MarcadoHecho, Hechas, DedupOK
    <3>. QED  BY <2>6, <3>1, <3>2
  <2>8. CASE Marca(w)
    <3>1. CASE worker[w].z = "foto"
      BY <2>3, <2>8, <3>1 DEF Marca
    <3>2. CASE worker[w].z # "foto"
      <4>1. worker[w].z = "texto" /\ worker[w].en = "marca" /\ Pasa(w, "sent")
        BY <2>1, <2>8, <3>2 DEF Marca, Ocupado, Pieza
      <4>2. <<worker[w].l, worker[w].i, "texto">> \in PorMarcar(worker[w])
        BY <4>1, Trabajo
      <4>3. <<worker[w].l, worker[w].i, "texto">> \in Claves
        BY <1>3, <4>2, EnManoType
      <4>4. <<worker[w].l, worker[w].i, "texto">> \in Hechas
        BY <1>1, <4>2, <4>3 DEF Idempotencia, Dentro, Hechas
      <4>. QED  BY <2>6, <4>1, <4>4
    <3>. QED  BY <3>1, <3>2
  <2>9. CASE Empieza(w)
    BY <2>3, <2>9 DEF Empieza
  <2>10. CASE Bloquea(w) \/ Lanza(w)
    BY <2>5, <2>10 DEF Bloquea, Lanza
  <2>11. CASE Descarta(w) \/ YaEntregado(w) \/ Confirma(w) \/ Devuelve(w) \/ Muere(w)
    BY <2>2, <2>11 DEF Descarta, YaEntregado, Confirma, Devuelve, Muere
  <2>12. CASE \/ Entra(w) \/ FirmaFalla(w) \/ Llega(w) \/ Termina(w) \/ Cuenta(w) \/ Cierra(w)
              \/ Reinicia(w) \/ Strike(w) \/ PausaAuto(w)
    BY <2>4, <2>12
       DEF Entra, FirmaFalla, Llega, Termina, Cuenta, Cierra, Reinicia, Strike, PausaAuto
  <2>13. CASE Repite(w)
    BY <1>3, <2>13 DEF Repite, Solo, Reparte, Ocupa
  <2>. QED  BY <1>2, <2>7, <2>8, <2>9, <2>10, <2>11, <2>12, <2>13 DEF Avanza
<1>4. CASE ~Ocupa(w)
  BY <1>2, <1>4
     DEF Avanza, Ocupa, Descarta, YaEntregado, Entra, FirmaFalla, Salta, Empieza, Llega, Repite, Bloquea,
         Lanza, Marca, Termina, Cuenta, Cierra, Reinicia, Confirma, Strike, PausaAuto, Devuelve, Muere
<1>. QED  BY <1>3, <1>4

\* Each worker has reached the recipients it has counted.
LEMMA EnviadoTrabajo ==
  ASSUME IType, Idempotencia, InvEnviado, [Next]_vars, NEW v \in Workers, Ocupa(v)'
  PROVE  (worker[v].sent <= Cardinality(Servidos(worker[v].l, worker[v].i - 1)))'
<1>1. /\ IsFiniteSet(Hechas') /\ IType' /\ \A l, n : Servidos(l, n) \subseteq Servidos(l, n)'
  BY Alcanzados, TypeNext
<1>2. /\ worker'[v].i \in Nat \ {0} /\ worker'[v].sent \in Nat /\ worker'[v].l \in Lotes
  <2>1. worker' \in Trabajador /\ worker'[v].en # "libre"
    BY <1>1, Partes DEF Sitio, Ocupa
  <2>2. worker'[v] \in Ocupado
    BY <2>1 DEF Trabajador, Libre
  <2>. QED  BY <2>2 DEF Ocupado
<1>3. Reparte(v)
  <2>1. CASE UNCHANGED worker
    <3>1. Ocupa(v)
      BY <2>1 DEF Ocupa
    <3>. QED  BY <2>1, <3>1 DEF Reparte
  <2>2. ASSUME NEW w \in Workers, Avanza(w) \/ Muere(w) PROVE Reparte(v)
    <3>1. Solo(w) /\ Reparte(w)
      BY <2>2, RepartePaso
    <3>2. CASE v # w
      <4>1. worker'[v] = worker[v]
        BY <3>1, <3>2 DEF Solo
      <4>. QED  BY <4>1 DEF Reparte, Ocupa
    <3>. QED  BY <3>1, <3>2
  <2>3. CASE UNCHANGED vars
    BY <2>1, <2>3 DEF vars
  <2>4. ASSUME NEW l \in Lotes, ADlq(l) \/ Reaparece(l) \/ Caduca(l) PROVE UNCHANGED worker
    BY <2>4 DEF ADlq, Reaparece, Caduca
  <2>5. ASSUME NEW p \in Planes, Cancela(p) \/ Borra(p) \/ BorraTrabajo(p) PROVE UNCHANGED worker
    BY <2>5 DEF Cancela, Borra, BorraTrabajo
  <2>6. ASSUME dlq_redrive \/ Purga("visible") \/ Purga("dlq") \/ Pausa \/ Reanuda
        PROVE  UNCHANGED worker
    BY <2>6 DEF dlq_redrive, Purga, SinTocar, Pausa, Reanuda
  <2>. QED  BY <2>1, <2>2, <2>3, <2>4, <2>5, <2>6 DEF Next
<1>4. PICK l, n, m : l = worker'[v].l /\ n = worker'[v].i /\ m = worker'[v].sent
  OBVIOUS
<1>5. Servidos(l, n - 1)' \in SUBSET Hechas'
  BY DEF Servidos
<1>6. IsFiniteSet(Servidos(l, n - 1)') /\ Cardinality(Servidos(l, n - 1)') \in Nat
  BY <1>1, <1>5, FS_Subset, FS_CardinalityType
<1>7. m <= Cardinality(Servidos(l, n - 1)')
  <2>1. CASE m = 0
    BY <1>6, <2>1
  <2>2. CASE /\ Ocupa(v) /\ l = worker[v].l /\ m = worker[v].sent
             /\ n \in {worker[v].i, worker[v].i + 1}
    <3>1. worker[v].i \in Nat
      BY <2>2, Partes, OcupadoType DEF Sitio, Ocupa
    <3>2. Servidos(l, worker[v].i - 1) \subseteq Servidos(l, n - 1)
      <4>1. CASE n = worker[v].i
        BY <4>1
      <4>2. CASE n = worker[v].i + 1
        <5>1. \A k \in Hechas : k[2] \in Nat
          BY LotDeliveryAssumption DEF Hechas, Claves, Clave
        <5>. QED  BY <3>1, <4>2, <5>1 DEF Servidos
      <4>. QED  BY <2>2, <4>1, <4>2
    <3>3. Servidos(l, worker[v].i - 1) \in SUBSET Servidos(l, n - 1)'
      BY <1>1, <3>2
    <3>4. Cardinality(Servidos(l, worker[v].i - 1)) <= Cardinality(Servidos(l, n - 1)')
      BY <1>6, <3>3, FS_Subset
    <3>5. Cardinality(Servidos(l, worker[v].i - 1)) \in Nat
      BY <1>6, <3>3, FS_Subset, FS_CardinalityType
    <3>6. m <= Cardinality(Servidos(l, worker[v].i - 1))
      BY <2>2 DEF InvEnviado
    <3>. QED  BY <1>2, <1>4, <1>6, <3>4, <3>5, <3>6
  <2>3. CASE /\ Ocupa(v) /\ l = worker[v].l /\ m = worker[v].sent + 1 /\ n = worker[v].i + 1
             /\ <<l, worker[v].i, "texto">> \in Hechas
    <3>. DEFINE k == <<l, worker[v].i, "texto">>
                S == Servidos(l, worker[v].i - 1)
    <3>1. worker[v].i \in Nat /\ worker[v].sent \in Nat
      BY <2>3, Partes, OcupadoType DEF Sitio, Ocupa
    <3>2. \A x \in Hechas : x[2] \in Nat
      BY LotDeliveryAssumption DEF Hechas, Claves, Clave
    <3>3. k \notin S /\ S \cup {k} \subseteq Servidos(l, n - 1)
      BY <2>3, <3>1, <3>2 DEF Servidos
    <3>4. IsFiniteSet(S)
      <4>1. S \in SUBSET Hechas
        BY DEF Servidos
      <4>. QED  BY <4>1, FS_Subset DEF InvEnviado
    <3>5. Cardinality(S \cup {k}) = Cardinality(S) + 1 /\ Cardinality(S) \in Nat
      BY <3>3, <3>4, FS_AddElement, FS_CardinalityType
    <3>6. S \cup {k} \in SUBSET Servidos(l, n - 1)'
      BY <1>1, <3>3
    <3>7. Cardinality(S \cup {k}) <= Cardinality(Servidos(l, n - 1)')
      BY <1>6, <3>6, FS_Subset
    <3>8. worker[v].sent <= Cardinality(S)
      BY <2>3 DEF InvEnviado
    <3>. HIDE DEF S, k
    <3>. QED  BY <1>6, <2>3, <3>1, <3>5, <3>7, <3>8
  <2>. QED  BY <1>3, <1>4, <2>1, <2>2, <2>3 DEF Reparte
<1>. QED  BY <1>4, <1>7 DEF Servidos

\* Each job has counted recipients of its lots, once each.
LEMMA EnviadoCuenta ==
  ASSUME IType, Idempotencia, InvEnviado, [Next]_vars, NEW p \in Planes,
         \A l \in LotesDe(p) : hechas'[<<l, 0, "lote">>] <= 1
  PROVE  bc'[p].sent <= Cardinality(Contados(p)')
<1>1. /\ IsFiniteSet(Hechas') /\ Contados(p) \subseteq Contados(p)'
      /\ \A k \in Claves : hechas[k] \in Nat /\ hechas'[k] \in Nat /\ hechas[k] <= hechas'[k]
  BY Alcanzados
<1>2. Contados(p)' \in SUBSET Hechas'
  BY DEF Contados
<1>3. IsFiniteSet(Contados(p)') /\ Cardinality(Contados(p)') \in Nat
  BY <1>1, <1>2, FS_Subset, FS_CardinalityType
<1>4. Contados(p) \in SUBSET Contados(p)'
  BY <1>1
<1>5. /\ IsFiniteSet(Contados(p)) /\ Cardinality(Contados(p)) \in Nat
      /\ Cardinality(Contados(p)) <= Cardinality(Contados(p)')
  BY <1>3, <1>4, FS_Subset, FS_CardinalityType
<1>6. bc \in [Planes -> [vivo : BOOLEAN, sent : Nat, failed : Nat]]
      /\ bc[p].sent \in Nat
  BY Partes DEF RestoOK
<1>7. \A l \in LotesDe(p) : hechas[<<l, 0, "lote">>] <= 1
  <2>1. \A l \in LotesDe(p) : <<l, 0, "lote">> \in Claves
    BY ClaveType DEF LotesDe, Claves
  <2>2. ASSUME NEW l \in LotesDe(p) PROVE hechas[<<l, 0, "lote">>] <= 1
    <3>. DEFINE c == <<l, 0, "lote">>
    <3>1. c \in Claves /\ hechas'[c] <= 1
      BY <2>1
    <3>. HIDE DEF c
    <3>2. hechas[c] <= 1
      BY <1>1, <3>1
    <3>. QED  BY <3>2 DEF c
  <2>. QED  BY <2>2
<1>8. bc[p].sent <= Cardinality(Contados(p))
  BY <1>7 DEF InvEnviado
<1>9. CASE bc'[p].sent \in {0, bc[p].sent}
  BY <1>3, <1>5, <1>6, <1>8, <1>9
<1>10. ASSUME NEW w \in Workers, Cuenta(w) PROVE bc'[p].sent <= Cardinality(Contados(p)')
  <2>1. /\ Ocupa(w) /\ worker[w] \in Ocupado /\ worker[w].l \in Lotes
        /\ worker[w].sent \in Nat /\ worker[w].i \in Nat /\ PlanDe[worker[w].l] \in Planes
    BY <1>10, Partes, OcupadoType, LotDeliveryAssumption DEF Cuenta, Ocupa, Sitio
  <2>2. PICK l \in Lotes, m \in Nat, n \in Nat : l = worker[w].l /\ m = worker[w].sent /\ n = worker[w].i
    BY <2>1
  <2>3. CASE PlanDe[l] # p
    <3>1. bc'[p] = bc[p]
      BY <1>6, <1>10, <2>2, <2>3 DEF Cuenta
    <3>. QED  BY <1>9, <3>1
  <2>4. CASE PlanDe[l] = p
    <3>. DEFINE c == <<l, 0, "lote">>
                S == Servidos(l, n - 1)
    <3>1. bc'[p].sent \in {bc[p].sent, bc[p].sent + m}
      BY <1>6, <1>10, <2>1, <2>2, <2>4 DEF Cuenta, incr_telegram
    <3>2. c \in Claves /\ hechas'[c] = hechas[c] + 1 /\ hechas'[c] <= 1
      <4>1. c \in Claves /\ hechas \in [Claves -> Nat]
        BY <2>1, <2>2, EnManoType, Partes DEF DedupOK
      <4>2. hechas' = [hechas EXCEPT ![c] = @ + 1]
        BY <1>10, <2>2 DEF Cuenta
      <4>3. l \in LotesDe(p)
        BY <2>4 DEF LotesDe
      <4>. QED  BY <4>1, <4>2, <4>3
    <3>3. hechas[c] = 0 /\ hechas'[c] = 1
      BY <1>1, <3>2
    <3>4. S \cap Contados(p) = {}
      BY <3>3 DEF Servidos, Contados
    <3>5. S \subseteq Contados(p)'
      <4>1. S \subseteq Servidos(l, n - 1)'
        BY Alcanzados
      <4>2. \A k \in Servidos(l, n - 1)' : k \in Contados(p)'
        BY <2>4, <3>3 DEF Servidos, Contados
      <4>. QED  BY <4>1, <4>2
    <3>6. IsFiniteSet(S) /\ Cardinality(S) \in Nat
      BY <1>3, <3>5, FS_Subset, FS_CardinalityType
    <3>7. Cardinality(S \cup Contados(p)) = Cardinality(S) + Cardinality(Contados(p))
      <4>1. Cardinality(S \cap Contados(p)) = 0
        BY <3>4, FS_EmptySet
      <4>. HIDE DEF S
      <4>2. Cardinality(S \cup Contados(p))
              = Cardinality(S) + Cardinality(Contados(p)) - Cardinality(S \cap Contados(p))
        BY <1>5, <3>6, FS_Union
      <4>. QED  BY <1>5, <3>6, <4>1, <4>2
    <3>8. Cardinality(S \cup Contados(p)) <= Cardinality(Contados(p)')
      <4>1. S \cup Contados(p) \in SUBSET Contados(p)'
        BY <1>1, <3>5
      <4>. QED  BY <1>3, <4>1, FS_Subset
    <3>9. m <= Cardinality(S)
      BY <2>1, <2>2 DEF InvEnviado
    <3>. HIDE DEF S
    <3>. QED  BY <1>3, <1>5, <1>6, <1>8, <3>1, <3>6, <3>7, <3>8, <3>9
  <2>. QED  BY <2>2, <2>3, <2>4
<1>11. ASSUME NEW w \in Workers, Avanza(w) \/ Muere(w), ~Cuenta(w) PROVE bc' = bc
  BY <1>11 DEF Avanza, Muere, Recibe, Descarta, YaEntregado, Entra, FirmaFalla, Salta, Empieza, Llega, Repite,
     Bloquea, Lanza, Marca, Termina, Cierra, Reinicia, Confirma, Strike, PausaAuto, Devuelve
<1>12. ASSUME NEW l \in Lotes, ADlq(l) \/ Reaparece(l) \/ Caduca(l) PROVE bc' = bc
  BY <1>12 DEF ADlq, Reaparece, Caduca
<1>13. ASSUME NEW q \in Planes, Cancela(q) \/ Borra(q) \/ BorraTrabajo(q)
       PROVE  bc'[p].sent \in {0, bc[p].sent}
  BY <1>6, <1>13 DEF Cancela, Borra, BorraTrabajo
<1>14. ASSUME dlq_redrive \/ Purga("visible") \/ Purga("dlq") \/ Pausa \/ Reanuda PROVE bc' = bc
  BY <1>14 DEF dlq_redrive, Purga, SinTocar, Pausa, Reanuda
<1>15. UNCHANGED vars => bc' = bc
  BY DEF vars
<1>. QED  BY <1>9, <1>10, <1>11, <1>12, <1>13, <1>14, <1>15 DEF Next

\* tg_sent of a job never exceeds the recipients that got the message (deliver_batch.py,
\* what a resumed lot adds again; incr_telegram), unless one of its lots was counted twice:
\* for any number of lots, recipients, workers, receptions and failures.
THEOREM SentArrived == Spec => []EnviadoLlego
<1>1. Init => InvEnviado
  <2>. SUFFICES ASSUME Init PROVE InvEnviado
    OBVIOUS
  <2>1. Hechas = {}
    BY DEF Init, Hechas
  <2>2. \A p : Contados(p) = {}
    BY <2>1 DEF Contados
  <2>3. \A p \in Planes : bc[p].sent <= Cardinality(Contados(p))
    <3>1. \A p \in Planes : bc[p].sent = 0
      BY DEF Init
    <3>2. \A p : Cardinality(Contados(p)) = 0
      BY <2>2, FS_EmptySet
    <3>. QED  BY <3>1, <3>2
  <2>4. IsFiniteSet(Hechas)
    BY <2>1, FS_EmptySet
  <2>. QED  BY <2>3, <2>4 DEF Init, InvEnviado, Ocupa, Libre
<1>2. IType /\ Idempotencia /\ InvEnviado /\ [Next]_vars => InvEnviado'
  BY Alcanzados, EnviadoTrabajo, EnviadoCuenta DEF InvEnviado
<1>3. IType /\ InvEnviado => EnviadoLlego
  <2>. SUFFICES ASSUME IType, InvEnviado, NEW p \in Planes,
                       \A l \in LotesDe(p) : hechas[<<l, 0, "lote">>] <= 1
                PROVE  bc[p].sent <= Cardinality({k \in Claves : PlanDe[k[1]] = p /\ k[3] = "texto" /\ hechas[k] > 0})
    BY DEF EnviadoLlego
  <2>. DEFINE T == {k \in Claves : PlanDe[k[1]] = p /\ k[3] = "texto" /\ hechas[k] > 0}
  <2>1. T \in SUBSET Hechas /\ Contados(p) \in SUBSET T
    BY DEF Hechas, Contados
  <2>2. IsFiniteSet(T) /\ Cardinality(T) \in Nat
    BY <2>1, FS_Subset, FS_CardinalityType DEF InvEnviado
  <2>3. Cardinality(Contados(p)) <= Cardinality(T) /\ Cardinality(Contados(p)) \in Nat
    BY <2>1, <2>2, FS_Subset, FS_CardinalityType
  <2>4. bc[p].sent <= Cardinality(Contados(p))
    BY DEF InvEnviado
  <2>. HIDE DEF T
  <2>5. bc[p].sent \in Nat
    BY Partes DEF RestoOK
  <2>6. bc[p].sent <= Cardinality(T)
    BY <2>2, <2>3, <2>4, <2>5
  <2>. QED  BY <2>6 DEF T
<1>. QED  BY <1>1, <1>2, <1>3, Idempotent, TypeInit, TypeNext, PTL DEF Spec

(* The strikes.                                                            *)

\* With a lot that reached somebody, and the strikes still to clear; with a lot failed
\* whole, and the strike or the pause still to write; with a lot that may go out although
\* the sending is off.
Gana(t) == t.en \in {"cuenta", "cierra", "reinicia"} /\ t.sent > 0
Pierde(t) == t.en \in {"strike", "pausa"}
Suelto(t) == t.en \in {"puerta", "dest", "manda", "marca"} /\ ~t.pausado
Pendientes == {w \in Workers : ~Gana(worker[w])}
Perdiendo == {w \in Workers : Pierde(worker[w])}
Sueltos == {w \in Workers : Suelto(worker[w])}
Contado == IF strikes = 0 THEN 0 ELSE 1
\* What a worker read as paused and let in all the same is not automatic; the strikes are
\* only cleared for a lot that reached somebody.
EnRegla(t) ==
  /\ t.en \in {"dest", "manda", "marca"} /\ t.pausado => ~Automatico(t.l)
  /\ t.en = "reinicia" => t.sent > 0

\* While the sending is on, each worker may have added one failure to the row that no
\* strike shows, because another cleared the strikes after it, and one more that it has
\* not written yet; once it is off, only the lots already let in may add to it.
InvRacha ==
  /\ activo => \/ racha = 0
               \/ racha + 1 <= Contado + Cardinality(Pendientes) + Cardinality(Perdiendo) + fallos
  /\ ~activo => racha + Cardinality(Sueltos) <= Umbral * Cardinality(Workers) + fallos
  /\ \A w \in Workers : EnRegla(worker[w])

Uno(b) == IF b THEN 1 ELSE 0
\* Two sets of workers that only differ in one differ by it in size.
LEMMA Cambia ==
  ASSUME IsFiniteSet(Workers), NEW w \in Workers,
         NEW A \in SUBSET Workers, NEW B \in SUBSET Workers, A \ {w} = B \ {w}
  PROVE  /\ Cardinality(A) \in Nat /\ Cardinality(B) \in Nat
         /\ Cardinality(B) = Cardinality(A) + Uno(w \in B) - Uno(w \in A)
<1>1. /\ IsFiniteSet(A) /\ IsFiniteSet(B)
      /\ Cardinality(A) \in Nat /\ Cardinality(B) \in Nat
  BY FS_Subset, FS_CardinalityType
<1>2. Cardinality(A \ {w}) = IF w \in A THEN Cardinality(A) - 1 ELSE Cardinality(A)
  BY <1>1, FS_RemoveElement
<1>3. Cardinality(B \ {w}) = IF w \in B THEN Cardinality(B) - 1 ELSE Cardinality(B)
  BY <1>1, FS_RemoveElement
<1>. QED  BY <1>1, <1>2, <1>3 DEF Uno

\* A step of one worker changes each count by what that worker was and is.
LEMMA Recuento ==
  ASSUME IsFiniteSet(Workers), NEW w \in Workers, Solo(w)
  PROVE  /\ Cardinality(Pendientes') = Cardinality(Pendientes) + Uno(~Gana(worker'[w])) - Uno(~Gana(worker[w]))
         /\ Cardinality(Perdiendo') = Cardinality(Perdiendo) + Uno(Pierde(worker'[w])) - Uno(Pierde(worker[w]))
         /\ Cardinality(Sueltos') = Cardinality(Sueltos) + Uno(Suelto(worker'[w])) - Uno(Suelto(worker[w]))
<1>1. Cardinality(Pendientes') = Cardinality(Pendientes) + Uno(~Gana(worker'[w])) - Uno(~Gana(worker[w]))
  <2>1. /\ Pendientes \in SUBSET Workers /\ Pendientes' \in SUBSET Workers
        /\ Pendientes \ {w} = Pendientes' \ {w}
    BY DEF Pendientes, Solo, Gana
  <2>2. w \in Pendientes <=> ~Gana(worker[w])
    BY DEF Pendientes
  <2>3. w \in Pendientes' <=> ~Gana(worker'[w])
    BY DEF Pendientes, Gana
  <2>. QED  BY <2>1, <2>2, <2>3, Cambia DEF Uno
<1>2. Cardinality(Perdiendo') = Cardinality(Perdiendo) + Uno(Pierde(worker'[w])) - Uno(Pierde(worker[w]))
  <2>1. /\ Perdiendo \in SUBSET Workers /\ Perdiendo' \in SUBSET Workers
        /\ Perdiendo \ {w} = Perdiendo' \ {w}
    BY DEF Perdiendo, Solo, Pierde
  <2>2. w \in Perdiendo <=> Pierde(worker[w])
    BY DEF Perdiendo
  <2>3. w \in Perdiendo' <=> Pierde(worker'[w])
    BY DEF Perdiendo, Pierde
  <2>. QED  BY <2>1, <2>2, <2>3, Cambia DEF Uno
<1>3. Cardinality(Sueltos') = Cardinality(Sueltos) + Uno(Suelto(worker'[w])) - Uno(Suelto(worker[w]))
  <2>1. /\ Sueltos \in SUBSET Workers /\ Sueltos' \in SUBSET Workers
        /\ Sueltos \ {w} = Sueltos' \ {w}
    BY DEF Sueltos, Solo, Suelto
  <2>2. w \in Sueltos <=> Suelto(worker[w])
    BY DEF Sueltos
  <2>3. w \in Sueltos' <=> Suelto(worker'[w])
    BY DEF Sueltos, Suelto
  <2>. QED  BY <2>1, <2>2, <2>3, Cambia DEF Uno
<1>. QED  BY <1>1, <1>2, <1>3

\* The sizes, and how they bound each other: who holds a failure or is free to send has
\* no success in hand.
LEMMA Tamano ==
  ASSUME IType, IsFiniteSet(Workers)
  PROVE  /\ Cardinality(Pendientes) \in Nat /\ Cardinality(Perdiendo) \in Nat
         /\ Cardinality(Sueltos) \in Nat /\ Cardinality(Workers) \in Nat
         /\ Cardinality(Pendientes) <= Cardinality(Workers)
         /\ Cardinality(Perdiendo) + Cardinality(Sueltos) <= Cardinality(Pendientes)
         /\ racha \in Nat /\ strikes \in Nat /\ fallos \in Nat /\ activo \in BOOLEAN
         /\ Contado \in {0, 1}
<1>1. /\ Pendientes \in SUBSET Workers /\ Perdiendo \in SUBSET Workers /\ Sueltos \in SUBSET Workers
      /\ Perdiendo \cup Sueltos \in SUBSET Pendientes /\ Perdiendo \cap Sueltos = {}
  BY DEF Pendientes, Perdiendo, Sueltos, Gana, Pierde, Suelto
<1>2. /\ IsFiniteSet(Pendientes) /\ IsFiniteSet(Perdiendo) /\ IsFiniteSet(Sueltos)
      /\ Cardinality(Pendientes) <= Cardinality(Workers)
  BY <1>1, FS_Subset
<1>3. /\ Cardinality(Pendientes) \in Nat /\ Cardinality(Perdiendo) \in Nat
      /\ Cardinality(Sueltos) \in Nat /\ Cardinality(Workers) \in Nat
  BY <1>2, FS_CardinalityType
<1>4. Cardinality(Perdiendo \cap Sueltos) = 0
  BY <1>1, FS_EmptySet
<1>5. Cardinality(Perdiendo \cup Sueltos)
        = Cardinality(Perdiendo) + Cardinality(Sueltos) - Cardinality(Perdiendo \cap Sueltos)
  BY <1>2, FS_Union
<1>6. Cardinality(Perdiendo \cup Sueltos) <= Cardinality(Pendientes)
  BY <1>1, <1>2, FS_Subset
<1>7. racha \in Nat /\ strikes \in Nat /\ fallos \in Nat /\ activo \in BOOLEAN
  BY Partes DEF RestoOK
<1>8. Contado \in {0, 1}
  BY DEF Contado
<1>9. Cardinality(Perdiendo) + Cardinality(Sueltos) <= Cardinality(Pendientes)
  BY <1>3, <1>4, <1>5, <1>6
<1>. QED  BY <1>2, <1>3, <1>7, <1>8, <1>9

\* After the step, the counts are counts.
LEMMA TamanoPrima ==
  ASSUME IsFiniteSet(Workers)
  PROVE  /\ Cardinality(Pendientes') \in Nat /\ Cardinality(Perdiendo') \in Nat
         /\ Cardinality(Sueltos') \in Nat /\ Cardinality(Sueltos') <= Cardinality(Workers)
<1>1. /\ Pendientes' \in SUBSET Workers /\ Perdiendo' \in SUBSET Workers /\ Sueltos' \in SUBSET Workers
  BY DEF Pendientes, Perdiendo, Sueltos
<1>. QED  BY <1>1, FS_Subset, FS_CardinalityType

\* What fails is counted.
LEMMA FallosPaso ==
  ASSUME IType
  PROVE  /\ Bien => fallos' \in Nat /\ fallos' = fallos
         /\ Falla => fallos' \in Nat /\ fallos' = fallos + 1
BY DEF IType, TypeOK, Bien, Falla

\* Whatever the strikes, turning the sending off leaves room for the lots let in.
LEMMA RachaPara ==
  ASSUME IType, IsFiniteSet(Workers), InvRacha
  PROVE  racha + Cardinality(Sueltos) <= Umbral * Cardinality(Workers) + fallos
<1>. DEFINE p == Cardinality(Pendientes)
            d == Cardinality(Perdiendo)
            s == Cardinality(Sueltos)
            n == Cardinality(Workers)
<1>1. /\ p \in Nat /\ d \in Nat /\ s \in Nat /\ n \in Nat /\ p <= n /\ d + s <= p
      /\ racha \in Nat /\ fallos \in Nat /\ Contado \in {0, 1} /\ activo \in BOOLEAN
  BY Tamano
<1>2. activo => racha = 0 \/ racha + 1 <= Contado + p + d + fallos
  BY DEF InvRacha
<1>3. ~activo => racha + s <= 2 * n + fallos
  BY DEF InvRacha, Umbral
<1>. HIDE DEF p, d, s, n
<1>4. racha + s <= 2 * n + fallos
  BY <1>1, <1>2, <1>3
<1>. QED  BY <1>4 DEF s, n, Umbral

(* What a step of a worker does to the row.                                *)

\* It neither adds to the row nor to who may add to it, unless a call failed.
Calla(w) ==
  /\ UNCHANGED config /\ (Bien \/ Falla)
  /\ Gana(worker'[w]) => Gana(worker[w])
  /\ Bien => /\ Pierde(worker[w]) => Pierde(worker'[w])
             /\ Suelto(worker'[w]) => Suelto(worker[w]) \/ activo
\* An automatic lot fails whole.
Cae(w) ==
  /\ UNCHANGED <<activo, strikes>> /\ racha' = racha + 1 /\ Bien
  /\ Suelto(worker[w]) /\ Pierde(worker'[w])
\* A lot reached somebody.
Corta == UNCHANGED activo /\ racha' = 0 /\ Bien
\* The strikes are cleared, or one more is written; at the threshold comes the pause.
Limpia(w) ==
  /\ UNCHANGED <<activo, racha>> /\ strikes' = 0 /\ Bien
  /\ Gana(worker[w]) /\ worker'[w].en = "confirma"
Suma(w) ==
  /\ UNCHANGED <<activo, racha>> /\ strikes' = strikes + 1 /\ Bien
  /\ Pierde(worker[w]) /\ worker'[w].en = IF Alcanza(strikes + 1) THEN "pausa" ELSE "devuelve"
Apaga(w) ==
  /\ UNCHANGED <<strikes, racha>> /\ activo' = FALSE /\ Bien
  /\ Pierde(worker[w]) /\ worker'[w].en = "devuelve"

\* What the ways of changing a worker leave of what the row depends on.
LEMMA EfectoRacha ==
  ASSUME Sitio, NEW w \in Workers, Ocupa(w)
  PROVE  /\ \A paso : Va(w, paso) =>
              /\ worker'[w].en = paso /\ worker'[w].l = worker[w].l
              /\ worker'[w].sent = worker[w].sent /\ worker'[w].pausado = worker[w].pausado
         /\ \A cuenta \in {"sent", "failed", "blocked"} : Pasa(w, cuenta) =>
              /\ worker'[w].en = "dest" /\ worker'[w].l = worker[w].l
              /\ worker'[w].pausado = worker[w].pausado
         /\ \A z : worker' = [worker EXCEPT ![w] = [worker[w] EXCEPT !.en = "manda", !.z = z]] =>
              /\ worker'[w].en = "manda" /\ worker'[w].l = worker[w].l
              /\ worker'[w].pausado = worker[w].pausado
<1>1. worker \in Trabajador /\ worker[w] \in Ocupado
  BY OcupadoType DEF Sitio, Ocupa
<1>2. ASSUME NEW paso, Va(w, paso)
      PROVE  /\ worker'[w].en = paso /\ worker'[w].l = worker[w].l
             /\ worker'[w].sent = worker[w].sent /\ worker'[w].pausado = worker[w].pausado
  <2>1. worker' = [worker EXCEPT ![w] = [worker[w] EXCEPT !.en = paso]]
    BY <1>2 DEF Va
  <2>. QED  BY <1>1, <2>1 DEF Trabajador, Ocupado
<1>3. ASSUME NEW cuenta \in {"sent", "failed", "blocked"}, Pasa(w, cuenta)
      PROVE  /\ worker'[w].en = "dest" /\ worker'[w].l = worker[w].l
             /\ worker'[w].pausado = worker[w].pausado
  <2>1. /\ Siguiente(worker[w], cuenta).en = "dest" /\ Siguiente(worker[w], cuenta).l = worker[w].l
        /\ Siguiente(worker[w], cuenta).pausado = worker[w].pausado
    BY <1>1 DEF Siguiente, Ocupado
  <2>. QED  BY <1>1, <1>3, <2>1 DEF Pasa, Trabajador
<1>4. ASSUME NEW z, worker' = [worker EXCEPT ![w] = [worker[w] EXCEPT !.en = "manda", !.z = z]]
      PROVE  /\ worker'[w].en = "manda" /\ worker'[w].l = worker[w].l
             /\ worker'[w].pausado = worker[w].pausado
  BY <1>1, <1>4 DEF Trabajador, Ocupado
<1>. QED  BY <1>2, <1>3, <1>4

\* Every step of a worker is of one of those kinds, and lets in what is paused only if it
\* is not automatic.
LEMMA RachaTrabajo ==
  ASSUME IType, NEW w \in Workers, EnRegla(worker[w]), Avanza(w) \/ Muere(w)
  PROVE  /\ Calla(w) \/ Cae(w) \/ Corta \/ Limpia(w) \/ Suma(w) \/ Apaga(w)
         /\ EnRegla(worker'[w])
<1>. DEFINE t == worker[w]
            u == worker'[w]
            Clase == Calla(w) \/ Cae(w) \/ Corta \/ Limpia(w) \/ Suma(w) \/ Apaga(w)
<1>0. Sitio /\ worker \in Trabajador
  BY Partes DEF Sitio
<1>1. ASSUME NEW l \in Lotes, Recibe(w, l) PROVE Calla(w) /\ EnRegla(u)
  <2>1. PICK pausado \in {~activo, FALSE} :
          /\ worker' = [worker EXCEPT ![w] =
               [en |-> "puerta", l |-> l, pausado |-> pausado, i |-> 1, z |-> "texto",
                sent |-> 0, failed |-> 0, blocked |-> 0]]
          /\ IF pausado = ~activo THEN Bien ELSE Falla
    BY <1>1 DEF Recibe
  <2>2. t.en = "libre" /\ UNCHANGED config /\ u.en = "puerta" /\ u.pausado = pausado
    BY <1>0, <1>1, <2>1 DEF Recibe, Trabajador
  <2>3. Falla \/ (Bien /\ (u.pausado \/ activo))
    BY <2>1, <2>2
  <2>4. Falla => ~Bien
    BY DEF Falla, Bien, IType, TypeOK
  <2>. QED  BY <2>2, <2>3, <2>4 DEF Calla, Gana, Pierde, Suelto, EnRegla
<1>2. ASSUME Ocupa(w), Descarta(w) \/ YaEntregado(w) \/ Confirma(w) \/ Devuelve(w)
      PROVE  Calla(w) /\ EnRegla(u)
  <2>1. (\E est : Suelta(w, est)) /\ UNCHANGED config /\ Bien /\ t.en \notin {"strike", "pausa"}
    BY <1>2 DEF Descarta, YaEntregado, Confirma, Devuelve, Bien
  <2>2. u = Libre
    BY <1>0, <1>2, <2>1, Efecto
  <2>. QED  BY <2>1, <2>2 DEF Calla, Gana, Pierde, Suelto, EnRegla, Libre
<1>3. ASSUME Ocupa(w), Muere(w) PROVE Calla(w) /\ EnRegla(u)
  <2>1. u = Libre /\ Falla /\ UNCHANGED config
    BY <1>0, <1>3, Efecto DEF Muere
  <2>2. ~Bien
    BY <2>1 DEF Falla, Bien, IType, TypeOK
  <2>. QED  BY <2>1, <2>2 DEF Calla, Gana, EnRegla, Libre
<1>4. ASSUME Ocupa(w), Entra(w) PROVE Calla(w) /\ EnRegla(u)
  <2>1. /\ t.en = "puerta" /\ ~(t.pausado /\ Automatico(t.l)) /\ Va(w, "dest")
        /\ UNCHANGED config /\ (Bien \/ Falla)
    BY <1>4 DEF Entra
  <2>2. u.en = "dest" /\ u.l = t.l /\ u.pausado = t.pausado
    BY <1>0, <1>4, <2>1, EfectoRacha
  <2>. QED  BY <2>1, <2>2 DEF Calla, Gana, Pierde, Suelto, EnRegla
<1>5. ASSUME Ocupa(w), Salta(w) \/ Bloquea(w) \/ Lanza(w) \/ (Marca(w) /\ t.z # "foto")
      PROVE  Calla(w) /\ EnRegla(u)
  <2>1. /\ \E cuenta \in {"sent", "failed", "blocked"} : Pasa(w, cuenta)
        /\ t.en \in {"dest", "manda", "marca"} /\ UNCHANGED config /\ (Bien \/ Falla)
    BY <1>5 DEF Salta, Bloquea, Lanza, Marca, marcar, Bien
  <2>2. u.en = "dest" /\ u.l = t.l /\ u.pausado = t.pausado
    BY <1>0, <1>5, <2>1, EfectoRacha
  <2>. QED  BY <2>1, <2>2 DEF Calla, Gana, Pierde, Suelto, EnRegla
<1>6. ASSUME Ocupa(w), Empieza(w) \/ (Marca(w) /\ t.z = "foto")
      PROVE  Calla(w) /\ EnRegla(u)
  <2>1. \E z : worker' = [worker EXCEPT ![w] = [worker[w] EXCEPT !.en = "manda", !.z = z]]
    BY <1>6 DEF Empieza, Marca
  <2>2. t.en \in {"dest", "manda", "marca"} /\ UNCHANGED config /\ (Bien \/ Falla)
    BY <1>6 DEF Empieza, Marca, marcar
  <2>3. u.en = "manda" /\ u.l = t.l /\ u.pausado = t.pausado
    BY <1>0, <1>6, <2>1, EfectoRacha
  <2>. QED  BY <2>2, <2>3 DEF Calla, Gana, Pierde, Suelto, EnRegla
<1>7. ASSUME Ocupa(w), Llega(w) PROVE Calla(w) /\ EnRegla(u)
  <2>1. t.en = "manda" /\ Va(w, "marca") /\ UNCHANGED config /\ Bien
    BY <1>7 DEF Llega, Bien
  <2>2. u.en = "marca" /\ u.l = t.l /\ u.pausado = t.pausado
    BY <1>0, <1>7, <2>1, EfectoRacha
  <2>. QED  BY <2>1, <2>2 DEF Calla, Gana, Pierde, Suelto, EnRegla
<1>8. ASSUME Ocupa(w), Repite(w) PROVE Calla(w) /\ EnRegla(u)
  <2>1. u = t /\ UNCHANGED config /\ Falla
    BY <1>8 DEF Repite
  <2>. QED  BY <2>1 DEF Calla
<1>9. ASSUME Ocupa(w), FirmaFalla(w) \/ Cuenta(w) \/ Cierra(w) PROVE Calla(w) /\ EnRegla(u)
  <2>1. PICK paso \in {"devuelve", "cierra", "reinicia", "confirma"} :
          /\ Va(w, paso)
          /\ paso \in {"cierra", "reinicia"} => t.en \in {"cuenta", "cierra"}
          /\ paso = "reinicia" => t.sent > 0
    BY <1>9 DEF FirmaFalla, Cuenta, Cierra
  <2>2. t.en \in {"dest", "cuenta", "cierra"} /\ UNCHANGED config /\ (Bien \/ Falla)
    BY <1>9 DEF FirmaFalla, Cuenta, Cierra, marcar
  <2>3. u.en = paso /\ u.sent = t.sent
    BY <1>0, <1>9, <2>1, EfectoRacha
  <2>. QED  BY <2>1, <2>2, <2>3 DEF Calla, Gana, Pierde, Suelto, EnRegla
<1>10. ASSUME Ocupa(w), Termina(w) PROVE Clase /\ EnRegla(u)
  <2>0. \A paso : Va(w, paso) => u.en = paso /\ u.sent = t.sent
    BY <1>0, <1>10, EfectoRacha
  <2>1. t.en = "dest" /\ UNCHANGED <<activo, strikes>> /\ Bien
    BY <1>10 DEF Termina, Bien
  <2>2. CASE FalloTotal(t) /\ Automatico(t.l)
    <3>1. Va(w, "strike") /\ racha' = racha + 1
      BY <1>10, <2>2 DEF Termina
    <3>2. u.en = "strike"
      BY <2>0, <3>1
    <3>3. ~t.pausado
      BY <2>1, <2>2 DEF EnRegla
    <3>. QED  BY <2>1, <3>1, <3>2, <3>3 DEF Cae, Suelto, Pierde, EnRegla
  <2>3. CASE FalloTotal(t) /\ ~Automatico(t.l)
    <3>1. Va(w, "devuelve") /\ racha' = racha
      BY <1>10, <2>3 DEF Termina
    <3>2. u.en = "devuelve"
      BY <2>0, <3>1
    <3>. QED  BY <2>1, <3>1, <3>2 DEF Calla, config, Gana, Pierde, Suelto, EnRegla
  <2>4. CASE ~FalloTotal(t)
    <3>1. Va(w, "cuenta") /\ racha' = IF t.sent > 0 THEN 0 ELSE racha
      BY <1>10, <2>4 DEF Termina
    <3>2. u.en = "cuenta" /\ u.sent = t.sent
      BY <2>0, <3>1
    <3>3. CASE t.sent > 0
      BY <2>1, <3>1, <3>2, <3>3 DEF Corta, EnRegla
    <3>4. CASE ~(t.sent > 0)
      BY <2>1, <3>1, <3>2, <3>4 DEF Calla, config, Gana, Pierde, Suelto, EnRegla
    <3>. QED  BY <3>3, <3>4
  <2>. QED  BY <2>2, <2>3, <2>4
<1>11. ASSUME Ocupa(w), Reinicia(w) PROVE Clase /\ EnRegla(u)
  <2>0. Gana(t)
    BY <1>11 DEF Reinicia, Gana, EnRegla
  <2>1. Va(w, "confirma") /\ t.en = "reinicia" /\ UNCHANGED <<activo, racha>>
    BY <1>11 DEF Reinicia
  <2>2. u.en = "confirma"
    BY <1>0, <1>11, <2>1, EfectoRacha
  <2>3. (Bien /\ strikes' = 0) \/ (Falla /\ UNCHANGED strikes)
    BY <1>11 DEF Reinicia
  <2>. QED  BY <2>0, <2>1, <2>2, <2>3 DEF Limpia, Calla, config, Gana, Pierde, Suelto, EnRegla
<1>12. ASSUME Ocupa(w), Strike(w) PROVE Clase /\ EnRegla(u)
  <2>0. \A paso : Va(w, paso) => u.en = paso /\ u.sent = t.sent
    BY <1>0, <1>12, EfectoRacha
  <2>1. t.en = "strike" /\ UNCHANGED <<activo, racha>>
    BY <1>12 DEF Strike
  <2>2. CASE Bien /\ strikes' = strikes + 1 /\ Va(w, IF Alcanza(strikes + 1) THEN "pausa" ELSE "devuelve")
    <3>1. u.en = IF Alcanza(strikes + 1) THEN "pausa" ELSE "devuelve"
      BY <2>0, <2>2
    <3>. QED  BY <2>1, <2>2, <3>1 DEF Suma, Pierde, EnRegla
  <2>3. CASE Falla /\ UNCHANGED strikes /\ Va(w, "devuelve")
    <3>1. u.en = "devuelve"
      BY <2>0, <2>3
    <3>2. ~Bien
      BY <2>3 DEF Falla, Bien, IType, TypeOK
    <3>. QED  BY <2>1, <2>3, <3>1, <3>2 DEF Calla, config, Gana, EnRegla
  <2>. QED  BY <1>12, <2>2, <2>3 DEF Strike
<1>13. ASSUME Ocupa(w), PausaAuto(w) PROVE Clase /\ EnRegla(u)
  <2>1. Va(w, "devuelve") /\ t.en = "pausa" /\ UNCHANGED <<strikes, racha>>
    BY <1>13 DEF PausaAuto
  <2>2. u.en = "devuelve"
    BY <1>0, <1>13, <2>1, EfectoRacha
  <2>3. CASE Bien /\ activo' = FALSE
    BY <2>1, <2>2, <2>3 DEF Apaga, Pierde, EnRegla
  <2>4. CASE Falla /\ UNCHANGED activo
    <3>1. ~Bien
      BY <2>4 DEF Falla, Bien, IType, TypeOK
    <3>. QED  BY <2>1, <2>2, <2>4, <3>1 DEF Calla, config, Gana, EnRegla
  <2>. QED  BY <1>13, <2>3, <2>4 DEF PausaAuto
<1>. QED
  BY <1>1, <1>2, <1>3, <1>4, <1>5, <1>6, <1>7, <1>8, <1>9, <1>10, <1>11, <1>12, <1>13
     DEF Avanza, Ocupa, Descarta, YaEntregado, Entra, FirmaFalla, Salta, Empieza, Llega, Repite, Bloquea,
         Lanza, Marca, Termina, Cuenta, Cierra, Reinicia, Confirma, Strike, PausaAuto, Devuelve, Muere

\* A kind of step keeps the bound on the row: the counts move by one worker.
LEMMA RachaCuenta ==
  ASSUME IType, IsFiniteSet(Workers), InvRacha, NEW w \in Workers, Solo(w),
         Calla(w) \/ Cae(w) \/ Corta \/ Limpia(w) \/ Suma(w) \/ Apaga(w)
  PROVE  /\ activo' => \/ racha' = 0
                       \/ racha' + 1 <= Contado' + Cardinality(Pendientes') + Cardinality(Perdiendo') + fallos'
         /\ ~activo' => racha' + Cardinality(Sueltos') <= Umbral * Cardinality(Workers) + fallos'
<1>. DEFINE p == Cardinality(Pendientes)
            d == Cardinality(Perdiendo)
            s == Cardinality(Sueltos)
            n == Cardinality(Workers)
            pp == Cardinality(Pendientes')
            dd == Cardinality(Perdiendo')
            ss == Cardinality(Sueltos')
            t == worker[w]
            u == worker'[w]
            pt == Uno(~Gana(t))
            pu == Uno(~Gana(u))
            dt == Uno(Pierde(t))
            du == Uno(Pierde(u))
            st == Uno(Suelto(t))
            su == Uno(Suelto(u))
<1>1. /\ p \in Nat /\ d \in Nat /\ s \in Nat /\ n \in Nat /\ p <= n /\ d + s <= p
      /\ racha \in Nat /\ strikes \in Nat /\ fallos \in Nat /\ Contado \in {0, 1} /\ activo \in BOOLEAN
  BY Tamano
<1>2. pp = p + pu - pt /\ dd = d + du - dt /\ ss = s + su - st
  BY Recuento
<1>3. /\ activo => racha = 0 \/ racha + 1 <= Contado + p + d + fallos
      /\ ~activo => racha + s <= 2 * n + fallos
  BY DEF InvRacha, Umbral
<1>4. /\ pt \in {0, 1} /\ pu \in {0, 1} /\ dt \in {0, 1}
      /\ du \in {0, 1} /\ st \in {0, 1} /\ su \in {0, 1}
  BY DEF Uno
<1>5. /\ (pt = 0 <=> Gana(t)) /\ (pu = 0 <=> Gana(u))
      /\ (dt = 1 <=> Pierde(t)) /\ (du = 1 <=> Pierde(u))
      /\ (st = 1 <=> Suelto(t)) /\ (su = 1 <=> Suelto(u))
  BY DEF Uno
<1>6. /\ Bien => fallos' = fallos
      /\ Falla => fallos' = fallos + 1
  BY FallosPaso
<1>7. /\ Pierde(u) => ~Suelto(u) /\ ~Gana(u)
      /\ Pierde(t) => ~Suelto(t) /\ ~Gana(t)
      /\ Suelto(t) => ~Gana(t)
      /\ Suelto(u) => ~Gana(u)
  BY DEF Pierde, Suelto, Gana
<1>. SUFFICES /\ activo' => racha' = 0 \/ racha' + 1 <= Contado' + pp + dd + fallos'
              /\ ~activo' => racha' + ss <= 2 * n + fallos'
  BY DEF Umbral
<1>8. /\ pp \in Nat /\ dd \in Nat /\ ss \in Nat /\ ss <= n
  BY <1>2, TamanoPrima
<1>. HIDE DEF p, d, s, n, pp, dd, ss, pt, pu, dt, du, st, su
<1>9. CASE Calla(w)
  <2>1. UNCHANGED <<activo, racha>> /\ Contado' = Contado
    BY <1>9 DEF Calla, config, Contado
  <2>2. pp >= p
    <3>1. pt <= pu
      BY <1>4, <1>5, <1>9 DEF Calla
    <3>. QED  BY <1>1, <1>2, <1>4, <3>1
  <2>3. CASE Bien
    <3>1. dd >= d
      <4>1. dt <= du
        BY <1>4, <1>5, <1>9, <2>3 DEF Calla
      <4>. QED  BY <1>1, <1>2, <1>4, <4>1
    <3>2. ss <= s \/ activo
      <4>1. su <= st \/ activo
        BY <1>4, <1>5, <1>9, <2>3 DEF Calla
      <4>. QED  BY <1>1, <1>2, <1>4, <4>1
    <3>. QED  BY <1>1, <1>3, <1>6, <1>8, <2>1, <2>2, <2>3, <3>1, <3>2
  <2>4. CASE Falla
    <3>1. dd + 1 >= d /\ ss <= s + 1
      BY <1>1, <1>2, <1>4
    <3>. QED  BY <1>1, <1>3, <1>6, <1>8, <2>1, <2>2, <2>4, <3>1
  <2>. QED  BY <1>9, <2>3, <2>4 DEF Calla
<1>10. CASE Cae(w)
  <2>1. /\ activo' = activo /\ racha' = racha + 1 /\ fallos' = fallos /\ Contado' = Contado
        /\ Suelto(t) /\ Pierde(u)
    BY <1>6, <1>10 DEF Cae, Contado
  <2>2. ~Suelto(u) /\ ~Gana(u) /\ ~Gana(t) /\ ~Pierde(t)
    BY <1>7, <2>1
  <2>3. pp = p /\ dd = d + 1 /\ ss = s - 1
    <3>1. pt = 1 /\ pu = 1 /\ dt = 0 /\ du = 1 /\ st = 1 /\ su = 0
      BY <1>4, <1>5, <2>1, <2>2
    <3>. QED  BY <1>1, <1>2, <3>1
  <2>. QED  BY <1>1, <1>3, <1>8, <2>1, <2>3
<1>11. CASE Corta
  BY <1>1, <1>6, <1>8, <1>11 DEF Corta
<1>12. CASE Limpia(w)
  <2>1. /\ UNCHANGED <<activo, racha>> /\ fallos' = fallos /\ Contado' = 0
        /\ Gana(t) /\ u.en = "confirma"
    BY <1>6, <1>12 DEF Limpia, Contado
  <2>2. ~Gana(u) /\ ~Pierde(u) /\ ~Suelto(u) /\ ~Pierde(t) /\ ~Suelto(t)
    BY <1>7, <2>1 DEF Gana, Pierde, Suelto
  <2>3. pp = p + 1 /\ dd = d /\ ss = s
    <3>1. pt = 0 /\ pu = 1 /\ dt = 0 /\ du = 0 /\ st = 0 /\ su = 0
      BY <1>4, <1>5, <2>1, <2>2
    <3>. QED  BY <1>1, <1>2, <3>1
  <2>. QED  BY <1>1, <1>3, <2>1, <2>3
<1>13. CASE Suma(w)
  <2>1. /\ UNCHANGED <<activo, racha>> /\ fallos' = fallos /\ strikes' = strikes + 1
        /\ Pierde(t) /\ u.en = IF Alcanza(strikes + 1) THEN "pausa" ELSE "devuelve"
    BY <1>6, <1>13 DEF Suma
  <2>2. ~Gana(u) /\ ~Gana(t) /\ ~Suelto(u) /\ ~Suelto(t)
    BY <1>7, <2>1 DEF Gana, Suelto
  <2>3. Contado' = 1
    BY <1>1, <2>1 DEF Contado
  <2>4. CASE strikes = 0
    <3>0. pt = 1 /\ pu = 1 /\ st = 0 /\ su = 0
      BY <1>4, <1>5, <2>2
    <3>1. Contado = 0 /\ pp = p /\ dd >= d - 1 /\ ss = s
      BY <1>1, <1>2, <1>4, <2>4, <3>0 DEF Contado
    <3>. QED  BY <1>1, <1>3, <1>8, <2>1, <2>3, <3>1
  <2>5. CASE strikes # 0
    <3>1. Alcanza(strikes + 1)
      BY <1>1, <2>5 DEF Alcanza, Umbral
    <3>2. Pierde(u)
      BY <2>1, <3>1 DEF Pierde
    <3>3. pp = p /\ dd = d /\ ss = s
      <4>1. pt = 1 /\ pu = 1 /\ dt = 1 /\ du = 1 /\ st = 0 /\ su = 0
        BY <1>4, <1>5, <2>1, <2>2, <3>2
      <4>. QED  BY <1>1, <1>2, <4>1
    <3>. QED  BY <1>1, <1>3, <2>1, <2>3, <3>3
  <2>. QED  BY <2>4, <2>5
<1>14. CASE Apaga(w)
  <2>1. UNCHANGED racha /\ ~activo' /\ fallos' = fallos /\ Pierde(t) /\ u.en = "devuelve"
    BY <1>6, <1>14 DEF Apaga
  <2>2. ~Suelto(t) /\ ~Suelto(u)
    BY <1>7, <2>1 DEF Suelto
  <2>3. ss = s
    <3>1. st = 0 /\ su = 0
      BY <1>4, <1>5, <2>2
    <3>. QED  BY <1>1, <1>2, <3>1
  <2>4. racha + s <= 2 * n + fallos
    BY RachaPara DEF s, n, Umbral
  <2>. QED  BY <2>1, <2>3, <2>4
<1>. QED  BY <1>9, <1>10, <1>11, <1>12, <1>13, <1>14

\* So no step breaks the invariant: the queue's and the panel's do not add to the row.
LEMMA RachaPaso ==
  ASSUME IType, IsFiniteSet(Workers), InvRacha, [Next]_vars
  PROVE  InvRacha'
<1>1. ASSUME NEW w \in Workers, Avanza(w) \/ Muere(w) PROVE InvRacha'
  <2>1. Solo(w)
    BY <1>1, ManosPaso DEF Sigue, Deja, Toma
  <2>2. /\ Calla(w) \/ Cae(w) \/ Corta \/ Limpia(w) \/ Suma(w) \/ Apaga(w)
        /\ EnRegla(worker'[w])
    BY <1>1, RachaTrabajo DEF InvRacha
  <2>3. \A v \in Workers : EnRegla(worker'[v])
    BY <2>1, <2>2 DEF Solo, InvRacha
  <2>. QED  BY <2>1, <2>2, <2>3, RachaCuenta DEF InvRacha, EnRegla, Automatico
<1>2. racha \in Nat /\ strikes \in Nat /\ fallos \in Nat /\ activo \in BOOLEAN
  BY Partes DEF RestoOK
<1>3. UNCHANGED worker => /\ UNCHANGED <<Pendientes, Perdiendo, Sueltos>>
                          /\ \A w \in Workers : EnRegla(worker[w])'
  BY DEF Pendientes, Perdiendo, Sueltos, Gana, Pierde, Suelto, EnRegla, Automatico, InvRacha
<1>4. ASSUME UNCHANGED <<worker, config>>, Falla \/ Bien PROVE InvRacha'
  <2>1. fallos' \in Nat /\ fallos' >= fallos
    BY <1>2, <1>4, FallosPaso
  <2>2. Cardinality(Pendientes) \in Nat /\ Cardinality(Perdiendo) \in Nat
        /\ Cardinality(Sueltos) \in Nat /\ Cardinality(Workers) \in Nat /\ Contado \in {0, 1}
    BY Tamano
  <2>3. UNCHANGED <<activo, racha, Contado>>
    BY <1>4 DEF config, Contado
  <2>. QED  BY <1>2, <1>3, <1>4, <2>1, <2>2, <2>3 DEF InvRacha, Umbral
<1>5. ASSUME NEW l \in Lotes, ADlq(l) \/ Reaparece(l) \/ Caduca(l) PROVE InvRacha'
  BY <1>4, <1>5 DEF ADlq, Reaparece, Caduca, Bien
<1>6. ASSUME NEW q \in Planes, Cancela(q) \/ Borra(q) \/ BorraTrabajo(q) PROVE InvRacha'
  BY <1>4, <1>6 DEF Cancela, Borra, BorraTrabajo, Bien
<1>7. CASE dlq_redrive \/ Purga("visible") \/ Purga("dlq")
  BY <1>4, <1>7 DEF dlq_redrive, Purga, SinTocar, Bien
<1>8. CASE Pausa
  <2>1. UNCHANGED <<worker, racha, fallos>> /\ ~activo'
    BY <1>8 DEF Pausa
  <2>. QED  BY <1>3, <2>1, RachaPara DEF InvRacha
<1>9. CASE Reanuda
  <2>1. racha' = 0 /\ UNCHANGED worker /\ activo'
    BY <1>9 DEF Reanuda
  <2>. QED  BY <1>3, <2>1 DEF InvRacha
<1>10. CASE UNCHANGED vars
  BY <1>4, <1>10 DEF vars, config, Bien
<1>. QED  BY <1>1, <1>5, <1>6, <1>7, <1>8, <1>9, <1>10 DEF Next

\* However many invocations of the worker overlap on the one counter of strikes, the account
\* suffers at most Umbral automatic lots failed whole in a row for each of them before the
\* sending is paused, but for what a failing update or reading of the configuration, or a
\* worker that died, let through (_detectar_baneo, incr_ban_strikes, reset_ban_strikes): for
\* any lots, broadcasts, receptions, failures and changes of the panel.
THEOREM StrikesBounded ==
  ASSUME IsFiniteSet(Workers)
  PROVE  Spec => []RachaAcotada
<1>1. Init => InvRacha
  BY DEF Init, InvRacha, EnRegla, Libre
<1>2. IType /\ InvRacha /\ [Next]_vars => InvRacha'
  BY RachaPaso
<1>3. IType /\ InvRacha => RachaAcotada
  <2>. SUFFICES ASSUME IType, InvRacha PROVE RachaAcotada
    OBVIOUS
  <2>1. racha + Cardinality(Sueltos) <= Umbral * Cardinality(Workers) + fallos
    BY RachaPara
  <2>2. Cardinality(Sueltos) \in Nat /\ Cardinality(Workers) \in Nat /\ racha \in Nat /\ fallos \in Nat
    BY Tamano
  <2>. QED  BY <2>1, <2>2 DEF RachaAcotada, Umbral
<1>. QED  BY <1>1, <1>2, <1>3, TypeInit, TypeNext, PTL DEF Spec

(* What a lot does, as its contract sees it.                               *)

\* Inside a lot, the recipients a worker has been through are those it has
\* counted one way or another; it gets to the counters through all of them, and
\* past the gate.
EnLote == {"puerta", "dest", "manda", "marca", "cuenta"}
Cuadra(t) ==
  t.en \in EnLote =>
    /\ t.sent + t.failed + t.blocked + 1 = t.i /\ t.i <= Dests[t.l] + 1
    /\ t.en = "cuenta" => t.i = Dests[t.l] + 1
    /\ t.en # "puerta" => t.l \in entro
InvCuenta == \A w \in Workers : Cuadra(worker[w])

\* A step of a worker keeps the count of its lot, and lets no lot out of entro.
LEMMA CuadraPaso ==
  ASSUME IType, NEW w \in Workers, Cuadra(worker[w]), Avanza(w) \/ Muere(w)
  PROVE  Solo(w) /\ entro \subseteq entro' /\ Cuadra(worker[w])'
<1>1. Sitio /\ worker \in Trabajador /\ \A l \in Lotes : Dests[l] \in Nat
  BY Partes, LotDeliveryAssumption DEF Sitio
<1>2. ASSUME NEW l \in Lotes, Recibe(w, l) PROVE Solo(w) /\ entro' = entro /\ Cuadra(worker[w])'
  <2>1. /\ Solo(w) /\ entro' = entro /\ worker'[w].en = "puerta" /\ worker'[w].i = 1 /\ worker'[w].l = l
        /\ worker'[w].sent = 0 /\ worker'[w].failed = 0 /\ worker'[w].blocked = 0
    BY <1>1, <1>2 DEF Recibe, Trabajador, Solo, historia
  <2>. QED  BY <1>1, <2>1 DEF Cuadra
<1>3. CASE Ocupa(w)
  <2>1. /\ worker[w] \in Ocupado /\ worker[w].l \in Lotes /\ worker[w].i \in Nat
        /\ worker[w].sent \in Nat /\ worker[w].failed \in Nat /\ worker[w].blocked \in Nat
    BY <1>1, <1>3, OcupadoType DEF Ocupa
  <2>2. ASSUME NEW est, Suelta(w, est) PROVE Solo(w) /\ Cuadra(worker[w])'
    BY <1>1, <1>3, <2>2, Efecto DEF Cuadra, Libre, EnLote
  <2>3. ASSUME NEW paso, NEW z, worker' = [worker EXCEPT ![w] = [worker[w] EXCEPT !.en = paso, !.z = z]],
               worker[w].en \in EnLote \ {"puerta"}, paso \in EnLote \ {"puerta", "cuenta"}, entro' = entro
        PROVE  Solo(w) /\ Cuadra(worker[w])'
    <3>1. /\ Solo(w) /\ worker'[w].en = paso /\ worker'[w].i = worker[w].i /\ worker'[w].l = worker[w].l
          /\ worker'[w].sent = worker[w].sent /\ worker'[w].failed = worker[w].failed
          /\ worker'[w].blocked = worker[w].blocked
      BY <1>1, <1>3, <2>1, <2>3 DEF Trabajador, Ocupado, Solo
    <3>. QED  BY <2>1, <2>3, <3>1 DEF Cuadra
  <2>4. ASSUME NEW paso, Va(w, paso), entro \subseteq entro',
               paso \in EnLote => worker[w].en \in EnLote /\ worker[w].l \in entro',
               paso = "cuenta" => worker[w].i > Dests[worker[w].l]
        PROVE  Solo(w) /\ Cuadra(worker[w])'
    <3>1. /\ Solo(w) /\ worker'[w].en = paso /\ worker'[w].i = worker[w].i /\ worker'[w].l = worker[w].l
          /\ worker'[w].sent = worker[w].sent /\ worker'[w].failed = worker[w].failed
          /\ worker'[w].blocked = worker[w].blocked
      BY <1>1, <1>3, <2>1, <2>4 DEF Va, Trabajador, Ocupado, Solo
    <3>2. Dests[worker[w].l] \in Nat
      BY <1>1, <2>1
    <3>3. CASE paso \notin EnLote
      BY <3>1, <3>3 DEF Cuadra
    <3>4. CASE paso \in EnLote
      <4>1. /\ worker[w].sent + worker[w].failed + worker[w].blocked + 1 = worker[w].i
            /\ worker[w].i <= Dests[worker[w].l] + 1 /\ worker[w].l \in entro'
        BY <2>4, <3>4 DEF Cuadra
      <4>2. paso = "cuenta" => worker[w].i = Dests[worker[w].l] + 1
        BY <2>1, <2>4, <3>2, <4>1
      <4>. QED  BY <3>1, <4>1, <4>2 DEF Cuadra
    <3>. QED  BY <3>3, <3>4
  <2>5. ASSUME NEW cuenta \in {"sent", "failed", "blocked"}, Pasa(w, cuenta), entro' = entro,
               worker[w].en \in {"dest", "manda", "marca"}, worker[w].i <= Dests[worker[w].l]
        PROVE  Solo(w) /\ Cuadra(worker[w])'
    <3>. DEFINE t == Siguiente(worker[w], cuenta)
    <3>1. t.en = "dest" /\ t.i = worker[w].i + 1 /\ t.l = worker[w].l
      BY <2>1, <2>5 DEF Siguiente, Ocupado
    <3>2. t.sent + t.failed + t.blocked = worker[w].sent + worker[w].failed + worker[w].blocked + 1
      <4>1. CASE cuenta = "sent"
        <5>1. t.sent = worker[w].sent + 1 /\ t.failed = worker[w].failed /\ t.blocked = worker[w].blocked
          BY <2>1, <4>1 DEF Siguiente, Ocupado
        <5>. HIDE DEF t
        <5>. QED  BY <2>1, <5>1
      <4>2. CASE cuenta = "failed"
        <5>1. t.sent = worker[w].sent /\ t.failed = worker[w].failed + 1 /\ t.blocked = worker[w].blocked
          BY <2>1, <4>2 DEF Siguiente, Ocupado
        <5>. HIDE DEF t
        <5>. QED  BY <2>1, <5>1
      <4>3. CASE cuenta = "blocked"
        <5>1. t.sent = worker[w].sent /\ t.failed = worker[w].failed /\ t.blocked = worker[w].blocked + 1
          BY <2>1, <4>3 DEF Siguiente, Ocupado
        <5>. HIDE DEF t
        <5>. QED  BY <2>1, <5>1
      <4>. QED  BY <2>5, <4>1, <4>2, <4>3
    <3>3. Solo(w) /\ worker'[w] = t
      BY <1>1, <1>3, <2>5, Efecto DEF Pasa, Trabajador
    <3>. HIDE DEF t
    <3>4. /\ worker[w].sent + worker[w].failed + worker[w].blocked + 1 = worker[w].i
          /\ worker[w].l \in entro /\ Dests[worker[w].l] \in Nat
      BY <1>1, <2>1, <2>5 DEF Cuadra, EnLote
    <3>5. t.sent + t.failed + t.blocked + 1 = t.i /\ t.i <= Dests[t.l] + 1
      BY <2>1, <2>5, <3>1, <3>2, <3>4
    <3>. QED  BY <2>5, <3>1, <3>3, <3>4, <3>5 DEF Cuadra
  <2>6. ASSUME worker[w].en \in {"manda", "marca"} PROVE worker[w].i <= Dests[worker[w].l]
    BY <1>1, <2>6 DEF Sitio, EnRango
  <2>7. CASE Salta(w) \/ Bloquea(w) \/ Lanza(w) \/ (Marca(w) /\ worker[w].z # "foto")
    <3>1. PICK cuenta \in {"sent", "failed", "blocked"} : Pasa(w, cuenta)
      BY <2>7 DEF Salta, Bloquea, Lanza, Marca
    <3>2. /\ entro' = entro /\ worker[w].en \in {"dest", "manda", "marca"}
          /\ worker[w].i <= Dests[worker[w].l]
      BY <2>6, <2>7 DEF Salta, Bloquea, Lanza, Marca, historia
    <3>. QED  BY <2>5, <3>1, <3>2
  <2>8. CASE Empieza(w) \/ (Marca(w) /\ worker[w].z = "foto")
    <3>1. PICK z : worker' = [worker EXCEPT ![w] = [worker[w] EXCEPT !.en = "manda", !.z = z]]
      BY <2>8 DEF Empieza, Marca
    <3>2. entro' = entro /\ worker[w].en \in {"dest", "marca"}
      BY <2>8 DEF Empieza, Marca, historia
    <3>. QED  BY <2>3, <3>1, <3>2 DEF EnLote
  <2>9. CASE Descarta(w) \/ YaEntregado(w) \/ Confirma(w) \/ Devuelve(w) \/ Muere(w)
    BY <2>2, <2>9 DEF Descarta, YaEntregado, Confirma, Devuelve, Muere, historia
  <2>10. CASE \/ FirmaFalla(w) \/ Cuenta(w) \/ Cierra(w) \/ Reinicia(w) \/ Strike(w) \/ PausaAuto(w)
    <3>1. PICK paso \in {"devuelve", "cierra", "reinicia", "confirma", "pausa"} : Va(w, paso)
      BY <2>10 DEF FirmaFalla, Cuenta, Cierra, Reinicia, Strike, PausaAuto
    <3>2. entro' = entro
      BY <2>10 DEF FirmaFalla, Cuenta, Cierra, Reinicia, Strike, PausaAuto, historia
    <3>. QED  BY <2>4, <3>1, <3>2 DEF EnLote
  <2>11. CASE Entra(w)
    BY <2>4, <2>11 DEF Entra, EnLote
  <2>12. CASE Llega(w)
    <3>1. Va(w, "marca") /\ entro' = entro /\ worker[w].en = "manda"
      BY <2>12 DEF Llega, historia
    <3>2. worker[w].l \in entro
      BY <3>1 DEF Cuadra, EnLote
    <3>. QED  BY <2>4, <3>1, <3>2 DEF EnLote
  <2>13. CASE Termina(w)
    <3>1. /\ entro' = entro /\ worker[w].en = "dest" /\ worker[w].i > Dests[worker[w].l]
          /\ \E paso \in {"strike", "devuelve", "cuenta"} : Va(w, paso)
      BY <2>13 DEF Termina
    <3>2. worker[w].l \in entro
      BY <3>1 DEF Cuadra, EnLote
    <3>. QED  BY <2>4, <3>1, <3>2 DEF EnLote
  <2>14. CASE Repite(w)
    BY <2>14 DEF Repite, Solo, Cuadra, historia
  <2>. QED  BY <1>2, <2>7, <2>8, <2>9, <2>10, <2>11, <2>12, <2>13, <2>14 DEF Avanza
<1>4. CASE ~Ocupa(w)
  BY <1>2, <1>4
     DEF Avanza, Ocupa, Descarta, YaEntregado, Entra, FirmaFalla, Salta, Empieza, Llega, Repite, Bloquea,
         Lanza, Marca, Termina, Cuenta, Cierra, Reinicia, Confirma, Strike, PausaAuto, Devuelve, Muere
<1>. QED  BY <1>3, <1>4

\* Nothing else touches the workers or who was let in.
LEMMA EntornoLotes ==
  ASSUME \/ \E l \in Lotes : ADlq(l) \/ Reaparece(l) \/ Caduca(l)
         \/ \E p \in Planes : Cancela(p) \/ Borra(p) \/ BorraTrabajo(p)
         \/ dlq_redrive \/ Purga("visible") \/ Purga("dlq") \/ Pausa \/ Reanuda
  PROVE  UNCHANGED <<worker, entro, hechas>>
BY DEF ADlq, Reaparece, Caduca, Cancela, Borra, BorraTrabajo, dlq_redrive, Purga, SinTocar, Pausa,
       Reanuda, historia, dedup

\* So the count of every lot in hand is kept.
LEMMA CuentaNext ==
  ASSUME IType, InvCuenta, [Next]_vars
  PROVE  InvCuenta'
<1>1. CASE UNCHANGED <<worker, entro>>
  BY <1>1 DEF InvCuenta, Cuadra
<1>2. ASSUME NEW w \in Workers, Avanza(w) \/ Muere(w) PROVE InvCuenta'
  <2>1. Solo(w) /\ entro \subseteq entro' /\ Cuadra(worker[w])'
    BY <1>2, CuadraPaso DEF InvCuenta
  <2>2. ASSUME NEW v \in Workers \ {w} PROVE Cuadra(worker[v])'
    <3>1. worker'[v] = worker[v] /\ Cuadra(worker[v])
      BY <2>1 DEF Solo, InvCuenta
    <3>. QED  BY <2>1, <3>1 DEF Cuadra
  <2>. QED  BY <2>1, <2>2 DEF InvCuenta
<1>. QED  BY <1>1, <1>2, EntornoLotes DEF Next, vars

\* The life of a lot depends on whether it was counted, where it is, and whether
\* it was let in.
LEMMA VidaIgual ==
  ASSUME NEW l \in Lotes,
         hechas'[<<l, 0, "lote">>] > 0 <=> hechas[<<l, 0, "lote">>] > 0,
         \/ hechas[<<l, 0, "lote">>] > 0
         \/ /\ l \in entro' <=> l \in entro
            /\ \/ cola'[l].est = cola[l].est
               \/ {cola'[l].est, cola[l].est} \subseteq {"visible", "oculto"}
               \/ {cola'[l].est, cola[l].est} \subseteq {"dlq", "purgado"}
  PROVE  Vida(l)' = Vida(l)
BY DEF Vida, EnCola

\* Only the counters count a lot.
LEMMA HechasLote ==
  ASSUME IType, NEW w \in Workers, Avanza(w) \/ Muere(w), ~Cuenta(w), NEW l \in Lotes
  PROVE  hechas'[<<l, 0, "lote">>] = hechas[<<l, 0, "lote">>]
<1>1. Sitio /\ hechas \in [Claves -> Nat] /\ <<l, 0, "lote">> \in Claves
  BY Partes, ClaveType DEF DedupOK
<1>2. ASSUME Llega(w) \/ Repite(w) \/ Lanza(w) PROVE hechas'[<<l, 0, "lote">>] = hechas[<<l, 0, "lote">>]
  <2>1. worker[w].en = "manda"
    BY <1>2 DEF Llega, Repite, Lanza
  <2>2. worker[w].i # 0
    BY <1>1, <2>1, OcupadoType DEF Sitio
  <2>3. \/ UNCHANGED hechas
        \/ hechas' = [hechas EXCEPT ![<<worker[w].l, worker[w].i, worker[w].z>>] = @ + 1]
    BY <1>2 DEF Llega, Repite, Lanza
  <2>. QED  BY <1>1, <2>2, <2>3
<1>3. ASSUME \/ \E m \in Lotes : Recibe(w, m)
             \/ Descarta(w) \/ YaEntregado(w) \/ Entra(w) \/ FirmaFalla(w) \/ Salta(w) \/ Empieza(w)
             \/ Bloquea(w) \/ Marca(w) \/ Termina(w) \/ Cierra(w) \/ Reinicia(w) \/ Confirma(w)
             \/ Strike(w) \/ PausaAuto(w) \/ Devuelve(w) \/ Muere(w)
      PROVE  UNCHANGED hechas
  BY <1>3 DEF Recibe, Descarta, YaEntregado, Entra, FirmaFalla, Salta, Empieza, Bloquea, Marca, Termina,
     Cierra, Reinicia, Confirma, Strike, PausaAuto, Devuelve, Muere, dedup
<1>. QED  BY <1>2, <1>3 DEF Avanza

\* A worker that neither lets a lot in, nor discards it, nor counts it, changes
\* no life.
LEMMA VidaTrabajo ==
  ASSUME IType, Idempotencia, NEW w \in Workers, Avanza(w) \/ Muere(w),
         ~Entra(w), ~Descarta(w), ~Cuenta(w)
  PROVE  bc' = bc /\ \A l \in Lotes : Vida(l)' = Vida(l)
<1>0. bc' = bc
  BY DEF Avanza, Muere, Recibe, YaEntregado, FirmaFalla, Salta, Empieza, Llega, Repite,
     Bloquea, Lanza, Marca, Termina, Cierra, Reinicia, Confirma, Strike, PausaAuto, Devuelve
<1>. SUFFICES ASSUME NEW l \in Lotes PROVE Vida(l)' = Vida(l)
  BY <1>0
<1>1. Sitio /\ ColaOK
  BY Partes
<1>2. hechas'[<<l, 0, "lote">>] = hechas[<<l, 0, "lote">>]
  BY HechasLote
<1>3. ASSUME UNCHANGED cola, UNCHANGED entro PROVE Vida(l)' = Vida(l)
  BY <1>2, <1>3, VidaIgual
<1>4. ASSUME NEW m \in Lotes, Recibe(w, m) PROVE Vida(l)' = Vida(l)
  <2>1. entro' = entro /\ cola' = [cola EXCEPT ![m] = Recibido(@)] /\ cola[m].est = "visible"
    BY <1>4 DEF Recibe, historia
  <2>2. \/ cola'[l] = cola[l]
        \/ cola[l].est = "visible" /\ cola'[l].est = "oculto"
    BY <1>1, <2>1 DEF Recibido, ColaOK
  <2>3. \/ cola'[l].est = cola[l].est
        \/ {cola'[l].est, cola[l].est} \subseteq {"visible", "oculto"}
    BY <2>2
  <2>. QED  BY <1>2, <2>1, <2>3, VidaIgual
<1>5. ASSUME Confirma(w) \/ YaEntregado(w) \/ Devuelve(w) \/ Muere(w) PROVE Vida(l)' = Vida(l)
  <2>1. PICK est \in {"visible", "borrado"} :
          /\ Suelta(w, est)
          /\ est = "borrado" => Confirma(w) \/ YaEntregado(w)
    BY <1>5 DEF Confirma, YaEntregado, Devuelve, Muere
  <2>2. Ocupa(w) /\ entro' = entro /\ cola' = [cola EXCEPT ![worker[w].l].est = est]
    BY <1>5, <2>1 DEF Confirma, YaEntregado, Devuelve, Muere, Ocupa, Suelta, historia
  <2>3. CASE l # worker[w].l
    <3>1. cola'[l] = cola[l]
      BY <1>1, <2>2, <2>3 DEF ColaOK
    <3>. QED  BY <1>2, <2>2, <3>1, VidaIgual
  <2>4. CASE l = worker[w].l
    <3>1. cola[l].est = "oculto" /\ cola'[l].est = est
      BY <1>1, <2>2, <2>4 DEF ColaOK, Idempotencia, UnaMano
    <3>2. est = "borrado" => hechas[<<l, 0, "lote">>] > 0
      BY <2>1, <2>4 DEF Confirma, YaEntregado, procesado, Idempotencia, Dentro, MarcadoHecho
    <3>. QED  BY <1>2, <2>1, <2>2, <3>1, <3>2, VidaIgual
  <2>. QED  BY <2>3, <2>4
<1>6. ASSUME \/ FirmaFalla(w) \/ Salta(w) \/ Empieza(w) \/ Llega(w) \/ Repite(w) \/ Bloquea(w) \/ Lanza(w) \/ Marca(w)
             \/ Termina(w) \/ Cierra(w) \/ Reinicia(w) \/ Strike(w) \/ PausaAuto(w)
      PROVE  UNCHANGED cola /\ UNCHANGED entro
  BY <1>6 DEF FirmaFalla, Salta, Empieza, Llega, Repite, Bloquea, Lanza, Marca, Termina, Cierra, Reinicia,
     Strike, PausaAuto, historia
<1>. QED  BY <1>3, <1>4, <1>5, <1>6 DEF Avanza

\* Letting a lot in, discarding it and counting it.
LEMMA VidaPropia ==
  ASSUME IType, Idempotencia, InvCuenta, NEW w \in Workers, Entra(w) \/ Descarta(w) \/ Cuenta(w),
         NEW l \in Lotes, l = worker[w].l
  PROVE  /\ \A m \in Lotes \ {l} : Vida(m)' = Vida(m)
         /\ \/ bc' = bc /\ Vida(l)' = Vida(l)
            \/ bc' = bc /\ Vida(l) = "cola" /\ Vida(l)' \in {"enviando", "descartado"}
            \/ bc' = bc /\ Vida(l) = "enviando" /\ Vida(l)' = "perdido"
            \/ Cuenta(w) /\ Vida(l) \in {"enviando", "entregado"} /\ Vida(l)' = "entregado"
<1>1. Sitio /\ ColaOK /\ hechas \in [Claves -> Nat]
  BY Partes DEF DedupOK
<1>2. Ocupa(w) /\ worker[w].en \in {"puerta", "cuenta"}
  BY DEF Entra, Descarta, Cuenta, Ocupa
<1>3. l = worker[w].l
  OBVIOUS
<1>4. cola[l].est = "oculto" /\ EnCola(l)
  BY <1>2, <1>3 DEF Idempotencia, UnaMano, EnCola
<1>. DEFINE c(m) == <<m, 0, "lote">>
<1>5. \A m \in Lotes : c(m) \in Claves
  BY ClaveType
<1>6. CASE Entra(w)
  <2>1. cola' = cola /\ hechas' = hechas /\ bc' = bc /\ entro' = entro \cup {l}
    BY <1>3, <1>6 DEF Entra
  <2>2. \A m \in Lotes \ {l} : Vida(m)' = Vida(m)
    BY <2>1, VidaIgual
  <2>3. \/ Vida(l)' = Vida(l)
        \/ Vida(l) = "cola" /\ Vida(l)' = "enviando"
    BY <1>4, <2>1 DEF Vida, EnCola
  <2>. QED  BY <2>1, <2>2, <2>3
<1>7. CASE Descarta(w)
  <2>1. /\ cola' = [cola EXCEPT ![l].est = "borrado"] /\ hechas' = hechas /\ bc' = bc /\ entro' = entro
    BY <1>3, <1>7 DEF Descarta, Suelta, dedup, historia
  <2>2. cola'[l].est = "borrado" /\ \A m \in Lotes \ {l} : cola'[m] = cola[m]
    BY <1>1, <2>1 DEF ColaOK
  <2>3. \A m \in Lotes \ {l} : Vida(m)' = Vida(m)
    BY <2>1, <2>2, VidaIgual
  <2>4. \/ Vida(l)' = Vida(l)
        \/ Vida(l) = "cola" /\ Vida(l)' = "descartado"
        \/ Vida(l) = "enviando" /\ Vida(l)' = "perdido"
    BY <1>4, <2>1, <2>2 DEF Vida, EnCola
  <2>. QED  BY <2>1, <2>3, <2>4
<1>8. CASE Cuenta(w)
  <2>1. cola' = cola /\ entro' = entro /\ hechas' = [hechas EXCEPT ![c(l)] = @ + 1]
    BY <1>3, <1>8 DEF Cuenta, historia
  <2>2. \A m \in Lotes \ {l} : hechas'[c(m)] = hechas[c(m)]
    BY <1>1, <1>5, <2>1
  <2>3. \A m \in Lotes \ {l} : Vida(m)' = Vida(m)
    BY <2>1, <2>2, VidaIgual
  <2>4. hechas'[c(l)] > 0
    BY <1>1, <1>5, <2>1
  <2>5. l \in entro
    BY <1>3, <1>8 DEF Cuenta, InvCuenta, Cuadra, EnLote
  <2>6. Vida(l)' = "entregado" /\ Vida(l) \in {"enviando", "entregado"}
    BY <1>4, <2>4, <2>5 DEF Vida
  <2>. QED  BY <1>8, <2>3, <2>6
<1>. QED  BY <1>6, <1>7, <1>8

\* Counting a lot adds all its recipients to its job, or nothing.
LEMMA SumaTodo ==
  ASSUME IType, InvCuenta, NEW w \in Workers, Cuenta(w), NEW p \in Planes
  PROVE  \/ bc' = bc
         \/ /\ p = PlanDe[worker[w].l] =>
                 bc'[p].sent + bc'[p].failed = bc[p].sent + bc[p].failed + Dests[worker[w].l]
            /\ p # PlanDe[worker[w].l] => bc'[p] = bc[p]
<1>. DEFINE t == worker[w]
            q == PlanDe[t.l]
            b == bc[q]
<1>1. /\ t.sent \in Nat /\ t.failed \in Nat /\ t.blocked \in Nat /\ t.l \in Lotes /\ t.en = "cuenta"
      /\ Dests[t.l] \in Nat /\ q \in Planes /\ t.i \in Nat
  BY Partes, OcupadoType, LotDeliveryAssumption DEF Sitio, Cuenta
<1>2. bc \in [Planes -> [vivo : BOOLEAN, sent : Nat, failed : Nat]]
  BY Partes DEF RestoOK
<1>3. t.sent + t.failed + t.blocked + 1 = t.i /\ t.i = Dests[t.l] + 1
  BY <1>1 DEF InvCuenta, Cuadra, EnLote
<1>4. bc' = bc \/ bc' = [bc EXCEPT ![q] = incr_telegram(b, t)]
  BY DEF Cuenta
<1>5. CASE ~b.vivo
  BY <1>2, <1>4, <1>5 DEF incr_telegram
<1>6. CASE b.vivo
  <2>1. b \in [vivo : BOOLEAN, sent : Nat, failed : Nat]
    BY <1>1, <1>2
  <2>2. PICK n : n = incr_telegram(b, t)
    OBVIOUS
  <2>3. n.sent = b.sent + t.sent /\ n.failed = b.failed + t.failed + t.blocked
    BY <1>6, <2>1, <2>2 DEF incr_telegram
  <2>4. b.sent \in Nat /\ b.failed \in Nat
    BY <2>1
  <2>. HIDE DEF b, q, t
  <2>5. n.sent + n.failed = b.sent + b.failed + Dests[t.l]
    BY <1>1, <1>3, <2>3, <2>4
  <2>. QED  BY <1>1, <1>2, <1>4, <1>6, <2>2, <2>5 DEF b, q, t
<1>. QED  BY <1>5, <1>6

\* Several lots are lost, or several come back.
Pierden == \A l \in Lotes :
  \/ Vida(l)' = Vida(l)
  \/ Vida(l) \in {"cola", "enviando"} /\ Vida(l)' = "perdido"
Vuelven == \A l \in Lotes :
  \/ Vida(l)' = Vida(l)
  \/ Vida(l) \in {"perdido", "descartado"} /\ Vida(l)' \in {"cola", "enviando"}
\* What the queues and the panel do to lots: lose several at once, or bring
\* several back.
LEMMA VidaEntorno ==
  ASSUME IType,
         \/ \E l \in Lotes : ADlq(l) \/ Reaparece(l) \/ Caduca(l)
         \/ \E p \in Planes : Cancela(p) \/ Borra(p)
         \/ dlq_redrive \/ Purga("visible") \/ Purga("dlq") \/ Pausa \/ Reanuda
  PROVE  bc' = bc /\ (Pierden \/ Vuelven)
<1>1. ColaOK /\ UNCHANGED <<entro, hechas>>
  BY Partes, EntornoLotes
<1>2. bc' = bc
  BY DEF ADlq, Reaparece, Caduca, Cancela, Borra, dlq_redrive, Purga, SinTocar, Pausa, Reanuda
<1>3. ASSUME NEW l \in Lotes, cola'[l] = cola[l] PROVE Vida(l)' = Vida(l)
  BY <1>1, <1>3, VidaIgual
<1>4. ASSUME NEW l \in Lotes, cola[l].est \in {"visible", "dlq"}, cola'[l].est \in {"dlq", "purgado"}
      PROVE  \/ Vida(l)' = Vida(l)
             \/ Vida(l) \in {"cola", "enviando"} /\ Vida(l)' = "perdido"
  BY <1>1, <1>4 DEF Vida, EnCola
<1>5. ASSUME NEW l \in Lotes, cola[l].est \in {"borrado", "dlq"}, cola'[l].est = "visible"
      PROVE  \/ Vida(l)' = Vida(l)
             \/ Vida(l) \in {"perdido", "descartado"} /\ Vida(l)' \in {"cola", "enviando"}
  BY <1>1, <1>5 DEF Vida, EnCola
<1>6. ASSUME NEW m \in Lotes, ADlq(m) PROVE Pierden
  <2>1. \A l \in Lotes \ {m} : cola'[l] = cola[l]
    BY <1>1, <1>6 DEF ADlq, ColaOK
  <2>2. cola[m].est = "visible" /\ cola'[m].est = "dlq"
    BY <1>1, <1>6 DEF ADlq, ColaOK
  <2>. QED  BY <1>3, <1>4, <2>1, <2>2 DEF Pierden
<1>7. ASSUME NEW m \in Lotes, Reaparece(m) PROVE Vuelven
  <2>1. \A l \in Lotes \ {m} : cola'[l] = cola[l]
    BY <1>1, <1>7 DEF Reaparece, ColaOK
  <2>2. cola[m].est = "borrado" /\ cola'[m].est = "visible"
    BY <1>1, <1>7 DEF Reaparece, ColaOK
  <2>. QED  BY <1>3, <1>5, <2>1, <2>2 DEF Vuelven
<1>8. ASSUME NEW est \in {"visible", "dlq"}, Purga(est) PROVE Pierden
  <2>1. \A l \in Lotes : \/ cola'[l] = cola[l]
                         \/ cola[l].est = est /\ cola'[l].est = "purgado"
    BY <1>1, <1>8 DEF Purga, ColaOK
  <2>. QED  BY <1>3, <1>4, <2>1 DEF Pierden
<1>9. ASSUME dlq_redrive PROVE Vuelven
  <2>1. \A l \in Lotes : \/ cola'[l] = cola[l]
                         \/ cola[l].est = "dlq" /\ cola'[l].est = "visible"
    BY <1>1, <1>9 DEF dlq_redrive, EnDlq, ColaOK
  <2>. QED  BY <1>3, <1>5, <2>1 DEF Vuelven
<1>10. ASSUME \/ \E l \in Lotes : Caduca(l)
              \/ \E p \in Planes : Cancela(p) \/ Borra(p)
              \/ Pausa \/ Reanuda
       PROVE  Pierden
  <2>1. cola' = cola
    BY <1>10 DEF Caduca, Cancela, Borra, Pausa, Reanuda
  <2>. QED  BY <1>3, <2>1 DEF Pierden
<1>. QED  BY <1>2, <1>6, <1>7, <1>8, <1>9, <1>10

\* However often the queue delivers, wherever a worker dies and whatever the panel
\* and the clock do, a lot lives as its contract says (sqs_publisher.py, worker.py):
\* it is let in or discarded, counted whole or not at all, lost, brought back; that
\* is what PlanDispatch takes for granted once it has handed a lot over.
THEOREM ImplementsLotContract == Spec => CumpleContrato
<1>1. Init => Contrato!LInit
  <2>. SUFFICES ASSUME Init PROVE Contrato!LInit
    OBVIOUS
  <2>1. ASSUME NEW l \in Lotes PROVE Vida(l) = "cola"
    <3>. DEFINE n == hechas[<<l, 0, "lote">>]
    <3>1. n = 0
      BY ClaveType DEF Init
    <3>2. ~(n > 0)
      BY ONLY <3>1
    <3>3. cola[l].est = "visible" /\ l \notin entro
      BY DEF Init
    <3>4. EnCola(l)
      BY <3>3 DEF EnCola
    <3>. QED  BY <3>2, <3>3, <3>4 DEF Vida
  <2>2. \A p \in Planes : bc[p].sent + bc[p].failed = 0
    BY DEF Init
  <2>. QED  BY <2>1, <2>2 DEF Contrato!LInit
<1>2. IType /\ Idempotencia /\ InvCuenta /\ [Next]_vars => [Contrato!LNext]_(Contrato!lvars)
  <2>. SUFFICES ASSUME IType, Idempotencia, InvCuenta, [Next]_vars
                PROVE  Contrato!LNext \/ UNCHANGED Contrato!lvars
    OBVIOUS
  <2>. DEFINE vidas == [l \in Lotes |-> Vida(l)]
              hechos == [p \in Planes |-> bc[p].sent + bc[p].failed]
  <2>1. bc' = bc => UNCHANGED hechos
    OBVIOUS
  <2>2. ASSUME \A l \in Lotes : Vida(l)' = Vida(l), bc' = bc PROVE UNCHANGED Contrato!lvars
    BY <2>1, <2>2 DEF Contrato!lvars
  <2>3. ASSUME NEW l \in Lotes, \A m \in Lotes \ {l} : Vida(m)' = Vida(m)
        PROVE  vidas' = [vidas EXCEPT ![l] = Vida(l)'] /\ vidas[l] = Vida(l)
    BY <2>3
  <2>4. ASSUME bc' = bc, Pierden PROVE Contrato!LNext
    <3>. DEFINE S == {l \in Lotes : Vida(l)' # Vida(l)}
    <3>1. \A l \in S : vidas[l] \in {"cola", "enviando"}
      BY <2>4 DEF Pierden
    <3>2. vidas' = [l \in Lotes |-> IF l \in S THEN "perdido" ELSE vidas[l]]
      BY <2>4 DEF Pierden
    <3>3. Contrato!Pierde(S)
      BY <2>1, <2>4, <3>1, <3>2 DEF Contrato!Pierde
    <3>. QED  BY <3>3 DEF Contrato!LNext
  <2>5. ASSUME bc' = bc, Vuelven PROVE Contrato!LNext
    <3>. DEFINE S == {l \in Lotes : Vida(l)' # Vida(l)}
                vida == [l \in S |-> Vida(l)']
    <3>1. \A l \in S : vidas[l] \in {"perdido", "descartado"}
      BY <2>5 DEF Vuelven
    <3>2. vida \in [S -> {"cola", "enviando"}]
      BY <2>5 DEF Vuelven
    <3>3. vidas' = [l \in Lotes |-> IF l \in S THEN vida[l] ELSE vidas[l]]
      OBVIOUS
    <3>4. Contrato!Vuelve(S)
      BY <2>1, <2>5, <3>1, <3>2, <3>3 DEF Contrato!Vuelve
    <3>. QED  BY <3>4 DEF Contrato!LNext
  <2>6. ASSUME NEW w \in Workers, Entra(w) \/ Descarta(w) \/ Cuenta(w)
        PROVE  Contrato!LNext \/ UNCHANGED Contrato!lvars
    <3>1. PICK l \in Lotes : l = worker[w].l
      BY <2>6, Partes, OcupadoType DEF Sitio, Entra, Descarta, Cuenta
    <3>2. /\ \A m \in Lotes \ {l} : Vida(m)' = Vida(m)
          /\ \/ bc' = bc /\ Vida(l)' = Vida(l)
             \/ bc' = bc /\ Vida(l) = "cola" /\ Vida(l)' \in {"enviando", "descartado"}
             \/ bc' = bc /\ Vida(l) = "enviando" /\ Vida(l)' = "perdido"
             \/ Cuenta(w) /\ Vida(l) \in {"enviando", "entregado"} /\ Vida(l)' = "entregado"
      BY <2>6, <3>1, VidaPropia
    <3>3. vidas' = [vidas EXCEPT ![l] = Vida(l)'] /\ vidas[l] = Vida(l)
      BY <2>3, <3>2
    <3>4. CASE bc' = bc /\ Vida(l)' = Vida(l)
      BY <2>2, <3>2, <3>4
    <3>5. CASE bc' = bc /\ Vida(l) = "cola" /\ Vida(l)' \in {"enviando", "descartado"}
      <4>1. Contrato!Toma(l) \/ Contrato!Descarta(l)
        BY <2>1, <3>3, <3>5 DEF Contrato!Toma, Contrato!Descarta
      <4>. QED  BY <4>1 DEF Contrato!LNext
    <3>6. CASE bc' = bc /\ Vida(l) = "enviando" /\ Vida(l)' = "perdido"
      <4>1. Pierden
        BY <3>2, <3>6 DEF Pierden
      <4>. QED  BY <2>4, <3>6, <4>1
    <3>7. CASE Cuenta(w) /\ Vida(l) \in {"enviando", "entregado"} /\ Vida(l)' = "entregado"
      <4>1. \/ hechos' = [hechos EXCEPT ![PlanDe[l]] = @ + Dests[l]]
            \/ UNCHANGED hechos
        <5>1. CASE bc' = bc
          BY <2>1, <5>1
        <5>2. CASE \A p \in Planes :
                     /\ p = PlanDe[l] =>
                          bc'[p].sent + bc'[p].failed = bc[p].sent + bc[p].failed + Dests[l]
                     /\ p # PlanDe[l] => bc'[p] = bc[p]
          BY <5>2
        <5>. QED  BY <3>1, <3>7, <5>1, <5>2, SumaTodo
      <4>2. Contrato!Suma(l)
        BY <4>1 DEF Contrato!Suma
      <4>3. Contrato!Cuenta(l)
        BY <3>3, <3>7, <4>2 DEF Contrato!Cuenta
      <4>. QED  BY <4>3 DEF Contrato!LNext
    <3>. QED  BY <3>2, <3>4, <3>5, <3>6, <3>7
  <2>7. ASSUME NEW p \in Planes, BorraTrabajo(p) PROVE Contrato!LNext
    <3>1. \A l \in Lotes : Vida(l)' = Vida(l)
      <4>1. UNCHANGED <<cola, entro, hechas>>
        BY <2>7 DEF BorraTrabajo, dedup, historia
      <4>. QED  BY <4>1, VidaIgual
    <3>2. hechos' = [hechos EXCEPT ![p] = 0]
      <4>1. bc \in [Planes -> [vivo : BOOLEAN, sent : Nat, failed : Nat]]
        BY Partes DEF RestoOK
      <4>2. /\ \A q \in Planes \ {p} : bc'[q] = bc[q]
            /\ bc'[p].sent = 0 /\ bc'[p].failed = 0
        BY <2>7, <4>1 DEF BorraTrabajo
      <4>3. bc'[p].sent + bc'[p].failed = 0
        BY <4>2
      <4>. QED  BY <4>2, <4>3
    <3>3. Contrato!BorraTrabajo(p)
      BY <3>1, <3>2 DEF Contrato!BorraTrabajo
    <3>. QED  BY <3>3 DEF Contrato!LNext
  <2>8. ASSUME NEW w \in Workers, Avanza(w) \/ Muere(w), ~Entra(w), ~Descarta(w), ~Cuenta(w)
        PROVE  UNCHANGED Contrato!lvars
    <3>1. bc' = bc /\ \A l \in Lotes : Vida(l)' = Vida(l)
      BY <2>8, VidaTrabajo
    <3>. QED  BY <2>2, <3>1
  <2>9. CASE UNCHANGED vars
    <3>1. \A l \in Lotes : Vida(l)' = Vida(l)
      BY <2>9, VidaIgual DEF vars
    <3>. QED  BY <2>2, <2>9, <3>1 DEF vars
  <2>. QED  BY <2>4, <2>5, <2>6, <2>7, <2>8, <2>9, VidaEntorno DEF Next
<1>3. Init => InvCuenta
  BY DEF Init, InvCuenta, Cuadra, EnLote, Libre
<1>4. IType /\ InvCuenta /\ [Next]_vars => InvCuenta'
  BY CuentaNext
<1>. QED  BY <1>1, <1>2, <1>3, <1>4, Idempotent, TypeInit, TypeNext, PTL DEF Spec, CumpleContrato, Contrato!LSpec
=============================================================================
