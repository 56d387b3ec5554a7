----------------------------- MODULE IngestProofs ------------------------------
(***************************************************************************)
(* Theorems of Ingest, for any number of posts, requests, invocations,     *)
(* lots, failures and changes of the switches.                             *)
(***************************************************************************)
EXTENDS Ingest, SequenceTheorems, TLAPS

(* Sequences.                                                              *)

\* s is the end of t.
Final(s, t) == Len(s) <= Len(t) /\ \A j \in 1..Len(s) : s[j] = t[Len(t) - Len(s) + j]
\* Posts one after another.
Seguidos(s) == \A j \in 1..Len(s) : s[j] \in Posts /\ s[j] = s[1] + j - 1

\* What is left of a sequence without its first element.
LEMMA Cola ==
  ASSUME NEW S, NEW s \in Seq(S), s # <<>>
  PROVE  /\ Len(s) \in Nat \ {0} /\ Head(s) = s[1] /\ Head(s) \in S
         /\ Tail(s) \in Seq(S) /\ Len(Tail(s)) = Len(s) - 1
         /\ \A j \in 1..(Len(s) - 1) : Tail(s)[j] = s[j + 1]
         /\ Len(s) = 1 <=> Tail(s) = <<>>
<1>1. Len(s) \in Nat \ {0}
  BY EmptySeq, LenProperties
<1>2. /\ Head(s) = s[1] /\ Head(s) \in S /\ Tail(s) \in Seq(S) /\ Len(Tail(s)) = Len(s) - 1
      /\ \A j \in 1..(Len(s) - 1) : Tail(s)[j] = s[j + 1]
  BY <1>1, HeadTailProperties, ElementOfSeq
<1>3. Tail(s) = <<>> <=> Len(Tail(s)) = 0
  BY <1>2, EmptySeq
<1> QED
  BY <1>1, <1>2, <1>3

\* The tail of the end of t is an end of t.
LEMMA ColaFinal ==
  ASSUME NEW S, NEW s \in Seq(S), s # <<>>, NEW t \in Seq(S), Final(s, t)
  PROVE  Final(Tail(s), t)
<1>1. Len(s) \in Nat \ {0} /\ Len(t) \in Nat
  BY Cola
<1> QED
  BY <1>1, Cola DEF Final

\* The head of the end of t is an element of t.
LEMMA FinalCabeza ==
  ASSUME NEW S, NEW T, NEW s \in Seq(S), s # <<>>, NEW t \in Seq(T), Final(s, t)
  PROVE  /\ Len(t) - Len(s) + 1 \in 1..Len(t) /\ s[1] = t[Len(t) - Len(s) + 1]
         /\ s[1] \in T
<1>1. Len(s) \in Nat \ {0} /\ Len(t) \in Nat /\ Len(s) <= Len(t)
  BY Cola, LenProperties DEF Final
<1>2. 1 \in 1..Len(s) /\ Len(t) - Len(s) + 1 \in 1..Len(t)
  BY <1>1
<1>3. s[1] = t[Len(t) - Len(s) + 1]
  BY <1>2 DEF Final
<1> QED
  BY <1>2, <1>3, ElementOfSeq

\* Posts one after another stay so without the first.
LEMMA ColaSeguidos ==
  ASSUME NEW S, NEW s \in Seq(S), s # <<>>, Seguidos(s)
  PROVE  Seguidos(Tail(s))
<1>1. Len(s) \in Nat \ {0}
  BY Cola
<1>2. ASSUME NEW j \in 1..(Len(s) - 1)
      PROVE  Tail(s)[j] \in Posts /\ Tail(s)[j] = Tail(s)[1] + j - 1
  <2>1. Tail(s)[j] = s[j + 1] /\ Tail(s)[1] = s[2]
    BY <1>1, Cola
  <2>2. s[j + 1] = s[1] + j /\ s[2] = s[1] + 1 /\ s[j + 1] \in Posts /\ s[1] \in Posts
    BY <1>1 DEF Seguidos
  <2> QED
    BY <2>1, <2>2, IngestAssumption DEF Posts
<1> QED
  BY <1>1, <1>2, Cola DEF Seguidos

\* The bodies are sequences of keys of the hub, or one update.
LEMMA CuerpoTipo ==
  ASSUME NEW e \in Envios
  PROVE  /\ Cuerpo[e] \in Seq(Hub \cup Updates) /\ Cuerpo[e] # <<>>
         /\ Cuerpo[e] \in Seq(Claves) /\ Len(Cuerpo[e]) \in Nat \ {0}
<1>1. Seq(Hub) \subseteq Seq(Hub \cup Updates) /\ Seq(Hub \cup Updates) \subseteq Seq(Claves)
  BY SeqMonotonic DEF Claves
<1>2. \A u \in Updates : <<u>> \in Seq(Hub \cup Updates) /\ <<u>> # <<>>
  OBVIOUS
<1>3. Cuerpo[e] \in Seq(Hub \cup Updates) /\ Cuerpo[e] # <<>>
  BY <1>1, <1>2, IngestAssumption
<1> QED
  BY <1>1, <1>3, Cola

-----------------------------------------------------------------------------
(* What an invocation may be.                                              *)

Procesos == Corridas \cup Peticiones
Sale == {"plan", "lotes", "encola"}

Forma(p, r) ==
  /\ r \in Proceso
  /\ r.en \notin {"libre", "responde"} => r.pend # <<>>
  /\ p \in Corridas => /\ r.en \in {"libre", "mira", "siembra", "guarda"} \cup EnDifusion
                       /\ Seguidos(r.pend)
  /\ p \in Peticiones =>
       /\ r.en \in {"libre", "dedup", "revierte", "responde"} \cup EnDifusion
       /\ r.en # "libre" =>
            \E e \in Envios : r.envio = <<e>> /\ Final(r.pend, Cuerpo[e])
  /\ r.en = "responde" => r.pend = <<>>
  /\ r.en \notin {"encola", "revierte"} => r.i = 0
  /\ r.en = "encola" => r.i < Lotes[Head(r.pend)]
  /\ r.en = "revierte" => Head(r.pend) \in Updates
  /\ r.en \in Sale => Head(r.pend) \notin Hub

Formas == proc = [p \in Procesos |-> proc[p]] /\ \A p \in Procesos : Forma(p, proc[p])

\* The key in hand.
LEMMA ClaveTipo ==
  ASSUME NEW p \in Procesos, Formas, proc[p].en \notin {"libre", "responde"}
  PROVE  /\ clave(p) \in Claves /\ clave(p) = proc[p].pend[1]
         /\ p \in Corridas => clave(p) \in Posts
         /\ p \in Peticiones => clave(p) \in Hub \cup Updates
<1>1. proc[p] \in Proceso /\ Forma(p, proc[p])
  BY DEF Formas, Forma
<1>2. proc[p].pend \in Seq(Claves) /\ proc[p].pend # <<>>
  BY <1>1 DEF Forma, Proceso
<1>3. /\ Len(proc[p].pend) \in Nat \ {0} /\ Head(proc[p].pend) = proc[p].pend[1]
      /\ Head(proc[p].pend) \in Claves
  BY <1>2, Cola
<1>4. p \in Corridas => clave(p) \in Posts
  BY <1>1, <1>3 DEF Forma, Seguidos, clave
<1>5. ASSUME p \in Peticiones PROVE clave(p) \in Hub \cup Updates
  <2>1. PICK e \in Envios : Final(proc[p].pend, Cuerpo[e])
    BY <1>1, <1>5 DEF Forma
  <2>2. Cuerpo[e] \in Seq(Hub \cup Updates) /\ Len(Cuerpo[e]) \in Nat
    BY CuerpoTipo
  <2>3. proc[p].pend[1] \in Hub \cup Updates
    BY <1>2, <2>1, <2>2, FinalCabeza
  <2> QED
    BY <1>3, <2>3 DEF clave
<1> QED
  BY <1>3, <1>4, <1>5 DEF clave

\* An invocation that goes on with a well-formed state.
LEMMA IrForma ==
  ASSUME Formas, NEW p \in Procesos, NEW r, Ir(p, r), Forma(p, r)
  PROVE  Formas' /\ proc'[p] = r /\ \A q \in Procesos \ {p} : proc'[q] = proc[q]
BY DEF Formas, Ir, Forma

\* No post between the first and another of them is missing.
LEMMA SinHuecos ==
  ASSUME NEW s \in Seq(Claves), Seguidos(s), NEW j \in 1..Len(s), NEW y \in Posts,
         s[1] <= y, y < s[j]
  PROVE  \E i \in 1..Len(s) : i < j /\ s[i] = y
<1> DEFINE a == s[1]
           n == Len(s)
           i == y - a + 1
<1>1. n \in Nat /\ j \in Nat /\ 1 <= j /\ j <= n /\ MaxPosts \in Nat
  BY LenProperties, IngestAssumption
<1>2. \A x \in 1..n : s[x] \in Posts /\ s[x] = a + x - 1
  BY DEF Seguidos
<1>3. a \in Int /\ y \in Int /\ s[j] = a + j - 1
  BY <1>1, <1>2 DEF Posts
<1>4. a <= y /\ y < a + j - 1
  BY <1>3
<1> HIDE DEF a, n
<1>5. i \in 1..n /\ i < j /\ i \in Int /\ a + i - 1 = y
  BY <1>1, <1>3, <1>4
<1>6. s[i] = a + i - 1
  BY <1>2, <1>5
<1> QED
  BY <1>5, <1>6 DEF n

\* An invocation is its four fields, and may have others of the same sorts.
Puntos == EnDifusion \cup {"libre", "mira", "siembra", "guarda", "dedup", "revierte", "responde"}

\* An invocation is the record of its four fields.
LEMMA Campos ==
  ASSUME NEW r \in Proceso
  PROVE  /\ r = [en |-> r.en, envio |-> r.envio, pend |-> r.pend, i |-> r.i]
         /\ r.en \in Puntos /\ r.pend \in Seq(Claves) /\ r.i \in Nat
BY DEF Proceso, Puntos

\* Fields of the right sorts make an invocation.
LEMMA Monta ==
  ASSUME NEW r \in Proceso, NEW en \in Puntos, NEW s \in Seq(Claves), NEW i \in Nat
  PROVE  [en |-> en, envio |-> r.envio, pend |-> s, i |-> i] \in Proceso
BY DEF Proceso, Puntos

\* The fields after an assignment to some of them.
LEMMA Unico ==
  ASSUME NEW a, NEW b, NEW c, NEW d, NEW x \in [en : {a}, envio : {b}, pend : {c}, i : {d}]
  PROVE  x = [en |-> a, envio |-> b, pend |-> c, i |-> d]
OBVIOUS

\* What each assignment to fields of an invocation leaves.
LEMMA Cambios ==
  ASSUME NEW r \in Proceso, NEW en, NEW s, NEW i
  PROVE  /\ [r EXCEPT !.en = en] = [en |-> en, envio |-> r.envio, pend |-> r.pend, i |-> r.i]
         /\ [[r EXCEPT !.en = en] EXCEPT !.i = i]
              = [en |-> en, envio |-> r.envio, pend |-> r.pend, i |-> i]
         /\ [[r EXCEPT !.en = en] EXCEPT !.pend = s]
              = [en |-> en, envio |-> r.envio, pend |-> s, i |-> r.i]
         /\ [r EXCEPT !.en = en, !.pend = s, !.i = i]
              = [en |-> en, envio |-> r.envio, pend |-> s, i |-> i]
         /\ [r EXCEPT !.i = i] = [en |-> r.en, envio |-> r.envio, pend |-> r.pend, i |-> i]
<1>1. [r EXCEPT !.en = en] \in [en : {en}, envio : {r.envio}, pend : {r.pend}, i : {r.i}]
  BY DEF Proceso
<1>2. [[r EXCEPT !.en = en] EXCEPT !.i = i]
        \in [en : {en}, envio : {r.envio}, pend : {r.pend}, i : {i}]
  BY DEF Proceso
<1>3. [[r EXCEPT !.en = en] EXCEPT !.pend = s]
        \in [en : {en}, envio : {r.envio}, pend : {s}, i : {r.i}]
  BY DEF Proceso
<1>4. [r EXCEPT !.en = en, !.pend = s, !.i = i]
        \in [en : {en}, envio : {r.envio}, pend : {s}, i : {i}]
  BY DEF Proceso
<1>5. [r EXCEPT !.i = i] \in [en : {r.en}, envio : {r.envio}, pend : {r.pend}, i : {i}]
  BY DEF Proceso
<1>6. /\ [r EXCEPT !.en = en] = [en |-> en, envio |-> r.envio, pend |-> r.pend, i |-> r.i]
      /\ [r EXCEPT !.i = i] = [en |-> r.en, envio |-> r.envio, pend |-> r.pend, i |-> i]
  BY <1>1, <1>5, Unico
<1>7. /\ [[r EXCEPT !.en = en] EXCEPT !.i = i]
           = [en |-> en, envio |-> r.envio, pend |-> r.pend, i |-> i]
      /\ [[r EXCEPT !.en = en] EXCEPT !.pend = s]
           = [en |-> en, envio |-> r.envio, pend |-> s, i |-> r.i]
  BY <1>2, <1>3, Unico
<1>8. [r EXCEPT !.en = en, !.pend = s, !.i = i]
        = [en |-> en, envio |-> r.envio, pend |-> s, i |-> i]
  BY <1>4, Unico
<1> QED
  BY <1>6, <1>7, <1>8

\* Formas gives the form of each invocation, with its fields apart.
LEMMA FormaDe ==
  ASSUME Formas, NEW p \in Procesos
  PROVE  /\ proc[p] \in Proceso /\ Forma(p, proc[p])
         /\ proc[p].pend \in Seq(Claves) /\ proc[p].i \in Nat
         /\ proc[p] = [en |-> proc[p].en, envio |-> proc[p].envio,
                       pend |-> proc[p].pend, i |-> proc[p].i]
         /\ proc[p].en \notin {"libre", "responde"} =>
              proc[p].pend # <<>> /\ Len(proc[p].pend) \in Nat \ {0}
<1>1. proc[p] \in Proceso /\ Forma(p, proc[p])
  BY DEF Formas, Forma
<1>2. /\ proc[p].pend \in Seq(Claves) /\ proc[p].i \in Nat
      /\ proc[p] = [en |-> proc[p].en, envio |-> proc[p].envio,
                    pend |-> proc[p].pend, i |-> proc[p].i]
  BY <1>1, Campos
<1>3. proc[p].en \notin {"libre", "responde"} => proc[p].pend # <<>>
  BY <1>1 DEF Forma
<1> QED
  BY <1>1, <1>2, <1>3, Cola

\* Nothing at work is well formed.
LEMMA LibreForma ==
  ASSUME NEW p \in Procesos
  PROVE  Forma(p, Libre) /\ Libre.en = "libre" /\ Libre.envio = <<>>
<1>1. Libre \in Proceso
  BY DEF Libre, Proceso, Claves
<1>2. Seguidos(Libre.pend)
  BY DEF Libre, Seguidos
<1> QED
  BY <1>1, <1>2 DEF Forma, Libre, EnDifusion, Sale

\* Another point of the code with the same key in hand.
LEMMA AForma ==
  ASSUME Formas, NEW p \in Procesos, proc[p].en \notin {"libre", "responde"},
         NEW en \in EnDifusion \cup {"revierte"},
         p \in Corridas => en # "revierte",
         en = "revierte" => clave(p) \in Updates,
         en \in Sale => clave(p) \notin Hub,
         en # "revierte" => proc[p].i = 0
  PROVE  /\ Forma(p, A(p, en)) /\ A(p, en).en = en /\ A(p, en).pend = proc[p].pend
         /\ A(p, en).i = proc[p].i /\ A(p, en).envio = proc[p].envio
<1>1. A(p, en) = [en |-> en, envio |-> proc[p].envio, pend |-> proc[p].pend, i |-> proc[p].i]
  <2>1. proc[p] \in Proceso
    BY FormaDe
  <2> QED
    BY <2>1, Cambios DEF A
<1>2. A(p, en) \in Proceso
  <2>1. proc[p] \in Proceso /\ proc[p].pend \in Seq(Claves) /\ proc[p].i \in Nat
    BY FormaDe
  <2>2. en \in Puntos
    BY DEF Puntos
  <2> QED
    BY <1>1, <2>1, <2>2, Monta
<1>3. /\ A(p, en).en = en /\ A(p, en).pend = proc[p].pend
      /\ A(p, en).i = proc[p].i /\ A(p, en).envio = proc[p].envio
  BY <1>1
<1>4. en \notin {"libre", "responde"} /\ proc[p].pend # <<>>
  BY FormaDe DEF EnDifusion
<1>5. Forma(p, proc[p])
  BY FormaDe
<1>6. Lotes[clave(p)] \in Nat \ {0}
  BY ClaveTipo, IngestAssumption
<1>7. Forma(p, A(p, en))
  BY <1>2, <1>3, <1>4, <1>5, <1>6 DEF Forma, EnDifusion, clave
<1> QED
  BY <1>3, <1>7

\* The loop of a request goes on with the rest of its body.
LEMMA SigueForma ==
  ASSUME Formas, NEW p \in Procesos, p \in Peticiones,
         proc[p].en \in EnDifusion \cup {"dedup"}
  PROVE  /\ Forma(p, SigueMensaje(proc[p]))
         /\ SigueMensaje(proc[p]).en \in {"dedup", "responde"}
         /\ SigueMensaje(proc[p]).envio = proc[p].envio
         /\ SigueMensaje(proc[p]).pend = Tail(proc[p].pend)
<1> DEFINE r == SigueMensaje(proc[p])
<1>0. proc[p].en \notin {"libre", "responde"} /\ p \notin Corridas
  BY IngestAssumption DEF EnDifusion
<1>1. r = [en |-> IF Len(proc[p].pend) = 1 THEN "responde" ELSE "dedup",
           envio |-> proc[p].envio, pend |-> Tail(proc[p].pend), i |-> 0]
  <2>1. proc[p] \in Proceso
    BY FormaDe
  <2>2. r \in [en : {IF Len(proc[p].pend) = 1 THEN "responde" ELSE "dedup"},
               envio : {proc[p].envio}, pend : {Tail(proc[p].pend)}, i : {0}]
    BY <2>1 DEF SigueMensaje, Proceso
  <2> QED
    BY <2>2, Unico
<1>2. /\ proc[p].pend \in Seq(Claves) /\ proc[p].pend # <<>>
      /\ Tail(proc[p].pend) \in Seq(Claves)
      /\ Len(proc[p].pend) = 1 <=> Tail(proc[p].pend) = <<>>
  BY <1>0, FormaDe, Cola
<1>3. r \in Proceso
  <2>1. 0 \in Nat /\ {"responde", "dedup"} \subseteq Puntos
    BY DEF Puntos
  <2>2. proc[p] \in Proceso
    BY FormaDe
  <2> QED
    BY <1>1, <1>2, <2>1, <2>2, Monta
<1>4. PICK e \in Envios : proc[p].envio = <<e>> /\ Final(proc[p].pend, Cuerpo[e])
  BY <1>0, FormaDe DEF Forma
<1>5. Final(Tail(proc[p].pend), Cuerpo[e])
  BY <1>2, <1>4, ColaFinal, CuerpoTipo
<1>6. /\ r.en \in {"dedup", "responde"} /\ r.pend = Tail(proc[p].pend)
      /\ r.envio = proc[p].envio /\ r.i = 0
  BY <1>1
<1>7. /\ r.en = "responde" => r.pend = <<>>
      /\ r.en = "dedup" => r.pend # <<>>
  BY <1>1, <1>2
<1>8. Forma(p, r)
  BY <1>0, <1>3, <1>4, <1>5, <1>6, <1>7 DEF Forma, Sale, EnDifusion
<1> QED
  BY <1>6, <1>8

\* BroadcastList returns.
LEMMA VuelveForma ==
  ASSUME Formas, NEW p \in Procesos, proc[p].en \in EnDifusion
  PROVE  /\ Forma(p, Vuelve(p))
         /\ p \in Corridas => /\ Vuelve(p).en = "guarda" /\ Vuelve(p).pend = proc[p].pend
         /\ p \in Peticiones => Vuelve(p) = SigueMensaje(proc[p])
<1>0. proc[p].en \notin {"libre", "responde"}
  BY DEF EnDifusion
<1>1. CASE p \in Corridas
  <2>1. Vuelve(p) = [en |-> "guarda", envio |-> proc[p].envio, pend |-> proc[p].pend, i |-> 0]
    <3>1. Vuelve(p) = [[proc[p] EXCEPT !.en = "guarda"] EXCEPT !.i = 0]
      BY <1>1 DEF Vuelve, A
    <3>2. proc[p] \in Proceso
      BY FormaDe
    <3> QED
      BY <3>1, <3>2, Cambios
  <2>2. Vuelve(p).en = "guarda" /\ Vuelve(p).pend = proc[p].pend /\ Vuelve(p).i = 0
    BY <2>1
  <2>3. proc[p] \in Proceso /\ proc[p].pend \in Seq(Claves)
    BY FormaDe
  <2>4. "guarda" \in Puntos /\ 0 \in Nat
    BY DEF Puntos
  <2>5. Vuelve(p) \in Proceso
    BY <2>1, <2>3, <2>4, Monta
  <2> QED
    BY <1>0, <1>1, <2>2, <2>5, FormaDe, IngestAssumption DEF Forma, Sale
<1>2. CASE p \in Peticiones
  <2>1. Vuelve(p) = SigueMensaje(proc[p]) /\ p \notin Corridas
    BY <1>2, IngestAssumption DEF Vuelve
  <2> QED
    BY <1>2, <2>1, SigueForma
<1> QED
  BY <1>1, <1>2 DEF Procesos

\* BroadcastList raises.
LEMMA LanzaForma ==
  ASSUME Formas, NEW p \in Procesos, proc[p].en \in EnDifusion
  PROVE  /\ Forma(p, Lanza(p))
         /\ p \in Corridas => Lanza(p) = Libre
         /\ p \in Peticiones => Lanza(p) = IF clave(p) \in Updates THEN A(p, "revierte") ELSE Libre
<1>1. proc[p].en \notin {"libre", "responde"} /\ (p \in Corridas => p \notin Peticiones)
  BY IngestAssumption DEF EnDifusion
<1>2. CASE p \in Peticiones /\ clave(p) \in Updates
  <2>1. Forma(p, A(p, "revierte"))
    BY <1>1, <1>2, AForma DEF EnDifusion, Sale
  <2> QED
    BY <1>1, <1>2, <2>1 DEF Lanza
<1>3. CASE ~(p \in Peticiones /\ clave(p) \in Updates)
  BY <1>1, <1>3, LibreForma DEF Lanza
<1> QED
  BY <1>2, <1>3
-----------------------------------------------------------------------------
(* Types, and the forms of the invocations.                                *)

\* A plan in progress has a lot left, and one not created is untouched.
PlanVivo == \A k \in Claves : /\ plan[k].est = "pending" => plan[k].next < Lotes[k]
                              /\ plan[k].est = "no" => plan[k] = Ninguno
\* What is being served was sent.
Enviadas == \A p \in Peticiones : proc[p].en # "libre" =>
              \E e \in escenario.envios : proc[p].envio = <<e>>
\* A plan whose lots are being written exists.
Empezado == \A p \in Procesos : proc[p].en = "lotes" => plan[clave(p)].est # "no"
IInv == TypeOK /\ Formas /\ PlanVivo /\ Enviadas /\ Empezado

\* What the readers return is well formed.
LEMMA LeidosForma ==
  ASSUME TypeOK, NEW n \in Visibles, publicados > 0
  PROVE  /\ Leidos(n) \in Seq(Claves) /\ Leidos(n) # <<>> /\ Seguidos(Leidos(n))
         /\ Leidos(n) \in Seq(Nat)
<1> DEFINE s == Leidos(n)
           m == IF publicados <= n THEN publicados ELSE n
           d == IF publicados <= n THEN 0 ELSE publicados - n
<1>1. publicados \in Nat \ {0} /\ publicados <= MaxPosts /\ n \in Nat \ {0} /\ MaxPosts \in Nat
  BY IngestAssumption DEF TypeOK
<1>2. m \in Nat \ {0} /\ d \in Nat /\ m + d = publicados
  BY <1>1
<1>3. s = [j \in 1..m |-> d + j]
  BY <1>1 DEF Leidos
<1> HIDE DEF m, d, s
<1>4. \A j \in 1..m : d + j \in Posts /\ d + j \in Claves /\ d + j \in Nat
  BY <1>1, <1>2 DEF Posts, Claves
<1>5. s \in Seq(Claves) /\ s \in Seq(Nat)
  <2>1. s \in [1..m -> Claves] /\ s \in [1..m -> Nat]
    BY <1>3, <1>4
  <2> QED
    BY <1>2, <2>1, SeqDef
<1>6. Len(s) = m
  BY <1>2, <1>3, <1>5, LenProperties
<1>7. s # <<>>
  BY <1>2, <1>5, <1>6, EmptySeq
<1>8. Seguidos(s)
  <2>1. \A j \in 1..m : s[j] = d + j
    BY <1>3
  <2> QED
    BY <1>2, <1>4, <1>6, <2>1 DEF Seguidos
<1> QED
  BY <1>5, <1>7, <1>8 DEF s

\* An end of a sequence of posts is one too.
LEMMA SubSeguidos ==
  ASSUME NEW s \in Seq(Claves), Seguidos(s), NEW j \in 1..Len(s)
  PROVE  /\ SubSeq(s, j, Len(s)) \in Seq(Claves) /\ SubSeq(s, j, Len(s)) # <<>>
         /\ Seguidos(SubSeq(s, j, Len(s))) /\ Head(SubSeq(s, j, Len(s))) = s[j]
         /\ Len(SubSeq(s, j, Len(s))) = Len(s) - j + 1
         /\ \A i \in 1..(Len(s) - j + 1) : SubSeq(s, j, Len(s))[i] = s[j + i - 1]
<1> DEFINE t == SubSeq(s, j, Len(s))
<1>1. Len(s) \in Nat /\ j \in Nat \ {0} /\ j <= Len(s)
  BY LenProperties
<1>2. /\ t \in Seq(Claves) /\ Len(t) = Len(s) - j + 1
      /\ \A i \in 1..(Len(s) - j + 1) : t[i] = s[j + i - 1]
  BY <1>1, SubSeqProperties
<1> HIDE DEF t
<1>3. t # <<>>
  BY <1>1, <1>2, EmptySeq
<1>4. Head(t) = s[j]
  BY <1>1, <1>2, <1>3, HeadTailProperties
<1>5. Seguidos(t)
  <2>1. \A x \in 1..Len(s) : s[x] \in Posts /\ s[x] = s[1] + x - 1
    BY DEF Seguidos
  <2>2. s[1] \in Int
    BY <1>1, <2>1, IngestAssumption DEF Posts
  <2>3. \A i \in 1..(Len(s) - j + 1) : j + i - 1 \in 1..Len(s)
    BY <1>1
  <2>4. \A i \in 1..(Len(s) - j + 1) : t[i] \in Posts /\ t[i] = s[1] + (j + i - 1) - 1
    BY <1>2, <2>1, <2>3
  <2>5. 1 \in 1..(Len(s) - j + 1)
    BY <1>1
  <2>6. t[1] = s[1] + j - 1
    <3>1. t[1] = s[1] + (j + 1 - 1) - 1
      BY <2>4, <2>5
    <3> QED
      BY <1>1, <2>2, <3>1
  <2>7. ASSUME NEW i \in 1..(Len(s) - j + 1) PROVE t[i] = t[1] + i - 1
    <3>1. t[i] = s[1] + (j + i - 1) - 1
      BY <2>4
    <3> QED
      BY <1>1, <2>2, <2>6, <3>1
  <2> QED
    BY <1>2, <2>4, <2>7 DEF Seguidos
<1> QED
  BY <1>2, <1>3, <1>4, <1>5 DEF t

\* A run of the poller goes on with other posts.
LEMMA PendForma ==
  ASSUME Formas, NEW p \in Corridas, NEW en \in {"mira", "difunde"},
         NEW s \in Seq(Claves), s # <<>>, Seguidos(s), proc[p].i = 0
  PROVE  /\ Forma(p, [A(p, en) EXCEPT !.pend = s])
         /\ [A(p, en) EXCEPT !.pend = s].en = en /\ [A(p, en) EXCEPT !.pend = s].pend = s
<1> DEFINE r == [A(p, en) EXCEPT !.pend = s]
<1>1. p \in Procesos /\ proc[p] \in Proceso /\ p \notin Peticiones
  BY FormaDe, IngestAssumption DEF Procesos
<1>2. r = [en |-> en, envio |-> proc[p].envio, pend |-> s, i |-> proc[p].i]
  BY <1>1, Cambios DEF A
<1>3. proc[p].i \in Nat /\ en \in Puntos
  BY <1>1, FormaDe DEF Puntos, EnDifusion
<1>4. r \in Proceso
  BY <1>1, <1>2, <1>3, Monta
<1>5. r.en = en /\ r.pend = s /\ r.i = 0
  BY <1>2
<1> HIDE DEF r
<1>6. Forma(p, r)
  BY <1>1, <1>4, <1>5 DEF Forma, EnDifusion, Sale
<1> QED
  BY <1>5, <1>6 DEF r

\* Every step leaves every invocation well formed.
LEMMA SondeaForma ==
  ASSUME IInv, NEW p \in Corridas, Sondea(p)
  PROVE  Formas'
<1>0. /\ p \in Procesos /\ p \notin Peticiones /\ Formas /\ TypeOK
      /\ proc[p] \in Proceso /\ Forma(p, proc[p])
  BY FormaDe, IngestAssumption DEF Procesos, IInv
<1>1. CASE Corre(p)
  <2>1. PICK n \in Visibles : Ir(p, [A(p, "mira") EXCEPT !.pend = Leidos(n)])
    BY <1>1 DEF Corre
  <2>2. publicados > 0
    BY <1>1 DEF Corre
  <2>3. Leidos(n) \in Seq(Claves) /\ Leidos(n) # <<>> /\ Seguidos(Leidos(n))
    BY <1>0, <2>2, LeidosForma
  <2>4. Forma(p, [A(p, "mira") EXCEPT !.pend = Leidos(n)])
    BY <1>0, <1>1, <2>3, PendForma DEF Corre, Forma
  <2> QED
    BY <1>0, <2>1, <2>4, IrForma
<1>2. CASE Siembra(p)
  BY <1>0, <1>2, IrForma, LibreForma DEF Siembra
<1>5. CASE Primera(p)
  <2>1. Ir(p, A(p, "siembra")) /\ proc[p].en = "mira"
    BY <1>5 DEF Primera
  <2>2. A(p, "siembra") = [en |-> "siembra", envio |-> proc[p].envio,
                           pend |-> proc[p].pend, i |-> proc[p].i]
    BY <1>0, Cambios DEF A
  <2>3. A(p, "siembra") \in Proceso
    <3>1. proc[p].i \in Nat /\ proc[p].pend \in Seq(Claves) /\ "siembra" \in Puntos
      BY <1>0, FormaDe DEF Puntos
    <3> QED
      BY <1>0, <2>2, <3>1, Monta
  <2>4. /\ A(p, "siembra").en = "siembra" /\ A(p, "siembra").pend = proc[p].pend
        /\ A(p, "siembra").i = proc[p].i
    BY <2>2
  <2>5. Forma(p, A(p, "siembra"))
    BY <1>0, <2>1, <2>3, <2>4 DEF Forma, EnDifusion, Sale
  <2> QED
    BY <1>0, <2>1, <2>5, IrForma
<1>3. CASE Mira(p)
  <2> DEFINE s == proc[p].pend
  <2>1. PICK j \in 1..(Len(s) + 1) :
          Ir(p, IF j > Len(s) THEN Libre
                ELSE [A(p, "difunde") EXCEPT !.pend = SubSeq(s, j, Len(s))])
    BY <1>3 DEF Mira
  <2>2. s \in Seq(Claves) /\ Len(s) \in Nat /\ Seguidos(s)
    <3>1. s \in Seq(Claves)
      BY <1>0, FormaDe
    <3> QED
      BY <1>0, <3>1, LenProperties DEF Forma
  <2>3. CASE j > Len(s)
    BY <1>0, <2>1, <2>3, IrForma, LibreForma
  <2>4. CASE ~(j > Len(s))
    <3>1. j \in 1..Len(s)
      BY <2>2, <2>4
    <3>2. /\ SubSeq(s, j, Len(s)) \in Seq(Claves) /\ SubSeq(s, j, Len(s)) # <<>>
          /\ Seguidos(SubSeq(s, j, Len(s)))
      BY <2>2, <3>1, SubSeguidos
    <3>3. Forma(p, [A(p, "difunde") EXCEPT !.pend = SubSeq(s, j, Len(s))])
      <4>1. proc[p].i = 0
        BY <1>0, <1>3 DEF Mira, Forma
      <4> QED
        BY <1>0, <3>2, <4>1, PendForma
    <3> QED
      BY <1>0, <2>1, <2>4, <3>3, IrForma
  <2> QED
    BY <2>3, <2>4
<1>4. CASE Guarda(p)
  <2>1. Ir(p, IF Len(proc[p].pend) = 1 THEN Libre
              ELSE [A(p, "difunde") EXCEPT !.pend = Tail(@)])
    BY <1>4 DEF Guarda
  <2>2. A(p, "difunde").pend = proc[p].pend
    <3>1. A(p, "difunde") = [en |-> "difunde", envio |-> proc[p].envio,
                             pend |-> proc[p].pend, i |-> proc[p].i]
      BY <1>0, Cambios DEF A
    <3> QED
      BY <3>1
  <2>3. proc[p].en = "guarda"
    BY <1>4 DEF Guarda
  <2>4. /\ proc[p].pend \in Seq(Claves) /\ proc[p].pend # <<>> /\ Seguidos(proc[p].pend)
        /\ Tail(proc[p].pend) \in Seq(Claves)
        /\ Len(proc[p].pend) = 1 <=> Tail(proc[p].pend) = <<>>
    <3>1. proc[p].pend \in Seq(Claves) /\ proc[p].pend # <<>>
      BY <1>0, <2>3, FormaDe
    <3> QED
      BY <1>0, <3>1, Cola DEF Forma
  <2>5. CASE Len(proc[p].pend) = 1
    BY <1>0, <2>1, <2>5, IrForma, LibreForma
  <2>6. CASE Len(proc[p].pend) # 1
    <3>1. Ir(p, [A(p, "difunde") EXCEPT !.pend = Tail(proc[p].pend)])
      BY <2>1, <2>2, <2>6
    <3>2. Seguidos(Tail(proc[p].pend)) /\ Tail(proc[p].pend) # <<>>
      BY <2>4, <2>6, ColaSeguidos
    <3>3. Forma(p, [A(p, "difunde") EXCEPT !.pend = Tail(proc[p].pend)])
      <4>1. proc[p].i = 0
        BY <1>0, <2>3 DEF Forma
      <4> QED
        BY <1>0, <2>4, <3>2, <4>1, PendForma
    <3> QED
      BY <1>0, <3>1, <3>3, IrForma
  <2> QED
    BY <2>5, <2>6
<1> QED
  BY <1>1, <1>2, <1>3, <1>4, <1>5 DEF Sondea

\* The receiver leaves an invocation well formed.
LEMMA AtiendeForma ==
  ASSUME IInv, NEW p \in Peticiones, Atiende(p)
  PROVE  Formas'
<1>0. /\ p \in Procesos /\ p \notin Corridas /\ Formas /\ TypeOK
      /\ proc[p] \in Proceso /\ Forma(p, proc[p])
  BY FormaDe, IngestAssumption DEF Procesos, IInv
<1>1. ASSUME NEW e \in Envios, Llega(p, e) PROVE Formas'
  <2> DEFINE r == [en |-> "dedup", envio |-> <<e>>, pend |-> Cuerpo[e], i |-> 0]
  <2>1. Ir(p, r)
    BY <1>1 DEF Llega
  <2>2. Cuerpo[e] \in Seq(Claves) /\ Cuerpo[e] # <<>> /\ Len(Cuerpo[e]) \in Nat
    BY CuerpoTipo
  <2>3. r \in Proceso
    BY <2>2 DEF Proceso
  <2>4. Final(Cuerpo[e], Cuerpo[e])
    BY <2>2 DEF Final
  <2>5. Forma(p, r)
    BY <1>0, <2>2, <2>3, <2>4 DEF Forma, EnDifusion, Sale
  <2> QED
    BY <1>0, <2>1, <2>5, IrForma
<1>2. CASE Salta(p)
  BY <1>0, <1>2, IrForma, SigueForma DEF Salta
<1>3. CASE Marca(p)
  <2>1. proc[p].en = "dedup"
    BY <1>3 DEF Marca
  <2>2. Forma(p, A(p, "difunde"))
    BY <1>0, <2>1, AForma DEF EnDifusion, Sale, Forma
  <2>3. Forma(p, SigueMensaje(proc[p]))
    BY <1>0, <2>1, SigueForma
  <2> QED
    BY <1>0, <1>3, <2>2, <2>3, IrForma DEF Marca
<1>4. CASE Ejecuta(p)
  BY <1>0, <1>4, IrForma, SigueForma DEF Ejecuta, EnDifusion
<1>5. CASE Revierte(p)
  BY <1>0, <1>5, IrForma, LibreForma DEF Revierte
<1>6. CASE Responde(p)
  BY <1>0, <1>6, IrForma, LibreForma DEF Responde
<1> QED
  BY <1>1, <1>2, <1>3, <1>4, <1>5, <1>6 DEF Atiende

\* So does BroadcastList when it goes well.
LEMMA EmiteForma ==
  ASSUME IInv, NEW p \in Procesos, Emite(p)
  PROVE  Formas'
<1>0. Formas /\ TypeOK /\ proc[p] \in Proceso /\ Forma(p, proc[p])
  BY FormaDe DEF IInv
<1>1. CASE DescartaVacio(p)
  BY <1>0, <1>1, IrForma, VuelveForma DEF DescartaVacio, Difunde, EnDifusion
<1>2. CASE Captura(p)
  BY <1>0, <1>2, IrForma, VuelveForma DEF Captura, Difunde, EnDifusion
<1>3. CASE CapturaSinLista(p)
  BY <1>0, <1>3, IrForma, VuelveForma DEF CapturaSinLista, Difunde, EnDifusion
<1>4. CASE Registra(p)
  <2>1. proc[p].en = "difunde" /\ clave(p) \notin Hub
    BY <1>4 DEF Registra, Difunde, SoloCapturar
  <2>2. Ir(p, A(p, IF cfg.fraccionar THEN "plan" ELSE "encola"))
    BY <1>4 DEF Registra
  <2>3. proc[p].i = 0
    BY <1>0, <2>1 DEF Forma
  <2> QED
    BY <1>0, <2>1, <2>2, <2>3, IrForma, AForma DEF EnDifusion, Sale
<1>5. CASE CreaPlan(p)
  <2>1. proc[p].en = "plan" /\ clave(p) \notin Hub /\ proc[p].i = 0
    BY <1>0, <1>5 DEF CreaPlan, Forma, Sale, clave
  <2>2. \/ Ir(p, Vuelve(p))
        \/ Ir(p, A(p, "lotes"))
    BY <1>5 DEF CreaPlan
  <2>3. Forma(p, Vuelve(p))
    BY <1>0, <2>1, VuelveForma DEF EnDifusion
  <2>4. Forma(p, A(p, "lotes"))
    BY <1>0, <2>1, AForma DEF EnDifusion, Sale
  <2> QED
    BY <1>0, <2>2, <2>3, <2>4, IrForma
<1>6. CASE EscribeLotes(p)
  BY <1>0, <1>6, IrForma, VuelveForma DEF EscribeLotes, EnDifusion
<1>7. CASE EncolaLote(p)
  <2> DEFINE r == [proc[p] EXCEPT !.i = proc[p].i + 1]
  <2>1. proc[p].en = "encola" /\ clave(p) \in Claves /\ proc[p].i < Lotes[clave(p)]
    BY <1>0, <1>7, ClaveTipo DEF EncolaLote, Forma, clave
  <2>2. Ir(p, IF proc[p].i = Lotes[clave(p)] - 1 THEN Vuelve(p) ELSE r)
    BY <1>7 DEF EncolaLote
  <2>3. Forma(p, Vuelve(p))
    BY <1>0, <2>1, VuelveForma DEF EnDifusion
  <2>4. r = [en |-> "encola", envio |-> proc[p].envio, pend |-> proc[p].pend, i |-> proc[p].i + 1]
    <3>1. r = [en |-> proc[p].en, envio |-> proc[p].envio, pend |-> proc[p].pend,
               i |-> proc[p].i + 1]
      BY <1>0, Cambios
    <3> QED
      BY <2>1, <3>1
  <2>5. proc[p].i + 1 \in Nat /\ "encola" \in Puntos /\ proc[p].pend \in Seq(Claves)
    <3>1. proc[p].i \in Nat /\ proc[p].pend \in Seq(Claves)
      BY <1>0, FormaDe
    <3> QED
      BY <3>1 DEF Puntos, EnDifusion
  <2>6. r \in Proceso
    BY <1>0, <2>4, <2>5, Monta
  <2>7. ASSUME proc[p].i # Lotes[clave(p)] - 1 PROVE Forma(p, r)
    <3>1. proc[p].i + 1 < Lotes[clave(p)]
      <4>1. proc[p].i \in Nat /\ Lotes[clave(p)] \in Nat
        BY <1>0, <2>1, FormaDe, IngestAssumption
      <4> QED
        BY <2>1, <2>7, <4>1
    <3>2. /\ r.en = "encola" /\ r.pend = proc[p].pend /\ r.envio = proc[p].envio
          /\ r.i = proc[p].i + 1
      BY <2>4
    <3> HIDE DEF r
    <3> QED
      BY <1>0, <2>1, <2>6, <3>1, <3>2 DEF Forma, EnDifusion, Sale, clave
  <2> QED
    BY <1>0, <2>2, <2>3, <2>7, IrForma
<1> QED
  BY <1>1, <1>2, <1>3, <1>4, <1>5, <1>6, <1>7 DEF Emite

\* And so does what fails, and a death.
LEMMA TropiezaForma ==
  ASSUME IInv, NEW p \in Procesos, Tropieza(p)
  PROVE  Formas'
<1>0. Formas /\ TypeOK /\ proc[p] \in Proceso /\ Forma(p, proc[p])
  BY FormaDe DEF IInv
<1>1. CASE GuardaFalla(p)
  BY <1>0, <1>1, IrForma, LibreForma DEF GuardaFalla
<1>2. CASE MarcaFalla(p)
  <2>1. proc[p].en = "dedup" /\ Ir(p, A(p, "difunde"))
    BY <1>2 DEF MarcaFalla, SinConfirmar
  <2>2. Forma(p, A(p, "difunde"))
    BY <1>0, <2>1, AForma DEF EnDifusion, Sale, Forma
  <2> QED
    BY <1>0, <2>1, <2>2, IrForma
<1>3. CASE DifundeFalla(p)
  BY <1>0, <1>3, IrForma, LanzaForma DEF DifundeFalla, EnDifusion
<1>4. CASE CreaFalla(p)
  BY <1>0, <1>4, IrForma, LanzaForma DEF CreaFalla, EnDifusion
<1>5. CASE EncolaFalla(p)
  BY <1>0, <1>5, IrForma, LanzaForma DEF EncolaFalla, EnDifusion
<1>6. CASE Muere(p)
  BY <1>0, <1>6, IrForma, LibreForma DEF Muere
<1> QED
  BY <1>1, <1>2, <1>3, <1>4, <1>5, <1>6 DEF Tropieza

\* Every step keeps the invocations well formed.
LEMMA FormasPaso == IInv /\ [Next]_vars => Formas'
<1> SUFFICES ASSUME IInv, [Next]_vars PROVE Formas'
  OBVIOUS
<1>0. Formas
  BY DEF IInv
<1>1. CASE UNCHANGED proc
  BY <1>0, <1>1 DEF Formas
<1>2. CASE Publica \/ CambiaConfig \/ \E k \in Claves : Despacha(k)
  BY <1>1, <1>2 DEF Publica, CambiaConfig, Despacha
<1> QED
  BY <1>1, <1>2, SondeaForma, AtiendeForma, EmiteForma, TropiezaForma DEF Next, vars, Procesos

\* A step of an invocation keeps the request it serves, or leaves it.
LEMMA MismoEnvio ==
  ASSUME IInv, NEW p \in Procesos,
         \/ p \in Peticiones /\ (Salta(p) \/ Marca(p) \/ Ejecuta(p) \/ Revierte(p) \/ Responde(p))
         \/ Emite(p)
         \/ Tropieza(p)
  PROVE  p \in Peticiones => proc'[p].en = "libre" \/ proc'[p].envio = proc[p].envio
<1> SUFFICES ASSUME p \in Peticiones
             PROVE  proc'[p].en = "libre" \/ proc'[p].envio = proc[p].envio
  OBVIOUS
<1> DEFINE Bueno(r) == r.en = "libre" \/ r.envio = proc[p].envio
<1>0. /\ Formas /\ proc[p] \in Proceso /\ Forma(p, proc[p])
      /\ \A r : Ir(p, r) => proc'[p] = r
      /\ p \notin Corridas
  BY FormaDe, IngestAssumption DEF IInv, Ir, Formas
<1>1. /\ proc[p].en \in EnDifusion \cup {"dedup"} => Bueno(SigueMensaje(proc[p]))
      /\ proc[p].en \in EnDifusion => Bueno(Vuelve(p))
  BY <1>0, SigueForma, VuelveForma
<1>2. \A en : Bueno(A(p, en))
  <2>1. \A en : A(p, en) = [en |-> en, envio |-> proc[p].envio,
                            pend |-> proc[p].pend, i |-> proc[p].i]
    BY <1>0, Cambios DEF A
  <2> QED
    BY <2>1
<1>3. Bueno(Libre) /\ Bueno(Lanza(p))
  BY <1>2, LibreForma DEF Lanza
<1>4. \A i : Bueno([proc[p] EXCEPT !.i = i])
  <2>1. \A i : [proc[p] EXCEPT !.i = i] = [en |-> proc[p].en, envio |-> proc[p].envio,
                                           pend |-> proc[p].pend, i |-> i]
    BY <1>0, Cambios
  <2> QED
    BY <2>1
<1> SUFFICES Bueno(proc'[p])
  OBVIOUS
<1> HIDE DEF Bueno
<1>5. Salta(p) \/ Marca(p) \/ Ejecuta(p) \/ Revierte(p) \/ Responde(p) => Bueno(proc'[p])
  <2>1. Salta(p) => Bueno(proc'[p])
    BY <1>0, <1>1 DEF Salta
  <2>2. Marca(p) => Bueno(proc'[p])
    BY <1>0, <1>1, <1>2 DEF Marca
  <2>3. Ejecuta(p) => Bueno(proc'[p])
    BY <1>0, <1>1 DEF Ejecuta, EnDifusion
  <2>4. Revierte(p) => Bueno(proc'[p])
    BY <1>0, <1>3 DEF Revierte
  <2>5. Responde(p) => Bueno(proc'[p])
    BY <1>0, <1>3 DEF Responde
  <2> QED
    BY <2>1, <2>2, <2>3, <2>4, <2>5
<1>6. Emite(p) => Bueno(proc'[p])
  <2>1. DescartaVacio(p) \/ Captura(p) \/ CapturaSinLista(p) => Bueno(proc'[p])
    BY <1>0, <1>1 DEF DescartaVacio, Captura, CapturaSinLista, Difunde, EnDifusion
  <2>2. Registra(p) => Bueno(proc'[p])
    BY <1>0, <1>2 DEF Registra
  <2>3. CreaPlan(p) => Bueno(proc'[p])
    BY <1>0, <1>1, <1>2 DEF CreaPlan, EnDifusion
  <2>4. EscribeLotes(p) => Bueno(proc'[p])
    BY <1>0, <1>1 DEF EscribeLotes, EnDifusion
  <2>5. EncolaLote(p) => Bueno(proc'[p])
    BY <1>0, <1>1, <1>4 DEF EncolaLote, EnDifusion
  <2> QED
    BY <2>1, <2>2, <2>3, <2>4, <2>5 DEF Emite
<1>7. Tropieza(p) => Bueno(proc'[p])
  BY <1>0, <1>2, <1>3
  DEF Tropieza, GuardaFalla, MarcaFalla, SinConfirmar, DifundeFalla, CreaFalla, EncolaFalla, Muere
<1> QED
  BY <1>5, <1>6, <1>7

\* Every step keeps the requests in service among those that are sent.
LEMMA EnviadasPaso == IInv /\ [Next]_vars => Enviadas'
<1> SUFFICES ASSUME IInv, [Next]_vars PROVE Enviadas'
  OBVIOUS
<1> USE DEF Enviadas
<1>0. Formas /\ Enviadas /\ Corridas \cap Peticiones = {}
  BY IngestAssumption DEF IInv
<1>1. CASE UNCHANGED <<proc, escenario>>
  BY <1>0, <1>1
<1>2. ASSUME NEW p \in Procesos, UNCHANGED escenario, \E r : Ir(p, r),
             p \in Peticiones => \/ proc'[p].en = "libre"
                                 \/ proc[p].en # "libre" /\ proc'[p].envio = proc[p].envio
      PROVE  Enviadas'
  BY <1>0, <1>2 DEF Formas, Ir
<1>3. ASSUME NEW p \in Corridas, Sondea(p) PROVE Enviadas'
  <2>1. UNCHANGED escenario /\ \E r : Ir(p, r)
    BY <1>3 DEF Sondea, Corre, Primera, Siembra, Mira, Guarda, entrada
  <2> QED
    BY <1>0, <1>2, <2>1 DEF Procesos
<1>4. ASSUME NEW p \in Peticiones, NEW e \in Envios, Llega(p, e) PROVE Enviadas'
  <2>1. UNCHANGED escenario /\ e \in escenario.envios
    BY <1>4 DEF Llega, entrada
  <2>2. proc'[p].envio = <<e>> /\ \A q \in Peticiones \ {p} : proc'[q] = proc[q]
    BY <1>0, <1>4 DEF Llega, Ir, Formas, Procesos
  <2> QED
    BY <1>0, <2>1, <2>2
<1>5. ASSUME NEW p \in Procesos,
             \/ p \in Peticiones /\ (Salta(p) \/ Marca(p) \/ Ejecuta(p) \/ Revierte(p) \/ Responde(p))
             \/ Emite(p)
             \/ Tropieza(p)
      PROVE  Enviadas'
  <2>1. p \in Peticiones => proc'[p].en = "libre" \/ proc'[p].envio = proc[p].envio
    BY <1>5, MismoEnvio
  <2>2. /\ UNCHANGED escenario /\ \E r : Ir(p, r)
        /\ proc[p].en # "libre"
    BY <1>5 DEF Salta, Marca, Ejecuta, Revierte, Responde, Emite, Tropieza, DescartaVacio, Captura,
         CapturaSinLista, Registra, CreaPlan, EscribeLotes, EncolaLote, GuardaFalla, MarcaFalla,
         DifundeFalla, CreaFalla, EncolaFalla, Muere, entrada, Difunde, EnDifusion
  <2> QED
    BY <1>2, <2>1, <2>2
<1>6. CASE Publica \/ CambiaConfig \/ \E k \in Claves : Despacha(k)
  BY <1>1, <1>6 DEF Publica, CambiaConfig, Despacha, entrada
<1>7. ASSUME NEW p \in Peticiones, Atiende(p) PROVE Enviadas'
  BY <1>4, <1>5, <1>7 DEF Atiende, Procesos
<1> QED
  BY <1>1, <1>3, <1>5, <1>6, <1>7 DEF Next, vars, Procesos

\* The types, in the parts that steps change together.
TiposCanal == /\ publicados \in 0..MaxPosts
              /\ hwm \in {SinMarca, 0} \cup Posts /\ semilla \in {SinMarca, 0} \cup Posts
TiposRegistro == /\ trabajo \in [Claves -> {"no", "capture", "channel"}]
                 /\ sueltas \in SUBSET Claves
TiposEntrada == /\ marcas \in SUBSET (Hub \cup Updates) /\ ejecutados \in SUBSET Comandos
                /\ escenario \in Escenarios /\ acusados \in SUBSET escenario.envios
TiposSalida == /\ DOMAIN plan = Claves /\ \A k \in Claves : plan[k] \in Plan(k)
               /\ DOMAIN emitido = Claves /\ \A k \in Claves : emitido[k] \in [Indices(k) -> 0..2]
TiposResto == /\ cfg \in Config
              /\ perdible \in SUBSET Claves /\ repetible \in SUBSET Claves
              /\ fallos \in 0..MaxFallos /\ cambios \in 0..MaxCambios

\* The types, apart for each group of variables.
LEMMA Partes ==
  TypeOK <=> /\ TiposCanal /\ TiposRegistro /\ TiposEntrada /\ TiposSalida /\ TiposResto
             /\ proc \in [Procesos -> Proceso]
BY DEF TypeOK, TiposCanal, TiposRegistro, TiposEntrada, TiposSalida, TiposResto, Procesos

\* What the assumption on the constants says of the keys.
LEMMA ClavesTipo ==
  /\ \A k \in Claves : Lotes[k] \in Nat \ {0} /\ Indices(k) \subseteq Nat
  /\ Posts \cap (Hub \cup Updates) = {} /\ Hub \cap Updates = {}
  /\ Corridas \cap Peticiones = {}
<1>1. \A k \in Claves : Lotes[k] \in Nat \ {0}
  BY IngestAssumption
<1>2. Posts \cap (Hub \cup Updates) = {} /\ Hub \cap Updates = {} /\ Corridas \cap Peticiones = {}
  BY IngestAssumption
<1> QED
  BY <1>1, <1>2 DEF Indices

\* The key in hand of an invocation at work, with the index of its loop.
LEMMA EnMano ==
  ASSUME IInv, NEW p \in Procesos, proc[p].en \notin {"libre", "responde"}
  PROVE  /\ clave(p) \in Claves /\ proc[p].i \in Nat /\ Lotes[clave(p)] \in Nat \ {0}
         /\ p \in Corridas => clave(p) \in Posts /\ clave(p) \notin Hub \cup Updates
         /\ p \in Peticiones => clave(p) \in Hub \cup Updates
         /\ proc[p].en \in Sale => clave(p) \notin Hub
         /\ proc[p].en = "encola" => proc[p].i \in Indices(clave(p))
<1>1. Formas /\ Forma(p, proc[p]) /\ proc[p].i \in Nat
  BY FormaDe DEF IInv
<1>2. /\ clave(p) \in Claves
      /\ p \in Corridas => clave(p) \in Posts
      /\ p \in Peticiones => clave(p) \in Hub \cup Updates
  BY <1>1, ClaveTipo
<1>3. Lotes[clave(p)] \in Nat \ {0}
  BY <1>2, ClavesTipo
<1>4. proc[p].en \in Sale => clave(p) \notin Hub
  BY <1>1 DEF Forma, clave
<1>5. proc[p].en = "encola" => proc[p].i < Lotes[clave(p)]
  BY <1>1 DEF Forma, clave
<1> QED
  BY <1>1, <1>2, <1>3, <1>4, <1>5, ClavesTipo DEF Indices

\* One more time out for a lot.
LEMMA SumaTipo ==
  ASSUME TiposSalida, NEW k \in Claves, NEW i \in Indices(k), Suma(k, i)
  PROVE  /\ DOMAIN emitido' = Claves /\ \A x \in Claves : emitido'[x] \in [Indices(x) -> 0..2]
         /\ \A x \in Claves \ {k} : emitido'[x] = emitido[x]
         /\ \A j \in Indices(k) \ {i} : emitido'[k][j] = emitido[k][j]
         /\ emitido'[k][i] = IF emitido[k][i] = 2 THEN 2 ELSE emitido[k][i] + 1
         /\ emitido'[k][i] > 0
<1>1. emitido[k] \in [Indices(k) -> 0..2] /\ emitido[k][i] \in 0..2
  BY DEF TiposSalida
<1> DEFINE n == IF emitido[k][i] = 2 THEN 2 ELSE emitido[k][i] + 1
<1>2. n \in 0..2 /\ n > 0
  BY <1>1
<1>3. emitido' = [emitido EXCEPT ![k] = [emitido[k] EXCEPT ![i] = n]]
  BY DEF Suma
<1> HIDE DEF n
<1>4. [emitido[k] EXCEPT ![i] = n] \in [Indices(k) -> 0..2]
  BY <1>1, <1>2
<1>5. /\ emitido'[k] = [emitido[k] EXCEPT ![i] = n]
      /\ DOMAIN emitido' = Claves
      /\ \A x \in Claves \ {k} : emitido'[x] = emitido[x]
  BY <1>3 DEF TiposSalida
<1>6. /\ emitido'[k][i] = n
      /\ \A j \in Indices(k) \ {i} : emitido'[k][j] = emitido[k][j]
  BY <1>1, <1>5
<1>7. \A x \in Claves : emitido'[x] \in [Indices(x) -> 0..2]
  BY <1>4, <1>5 DEF TiposSalida
<1> QED
  BY <1>2, <1>5, <1>6, <1>7 DEF n

\* The plans and what has gone out, after each step that touches them.
LEMMA EmiteSalida ==
  ASSUME IInv, NEW p \in Procesos, Emite(p)
  PROVE  TiposSalida' /\ PlanVivo'
<1>0. TiposSalida /\ PlanVivo
  BY Partes DEF IInv
<1>1. CASE UNCHANGED salida
  BY <1>0, <1>1 DEF TiposSalida, PlanVivo, salida
<1>2. ASSUME proc[p].en \in {"plan", "lotes"},
             NEW m \in Plan(clave(p)), plan' = [plan EXCEPT ![clave(p)] = m],
             UNCHANGED emitido,
             /\ m.est = "pending" => m.next < Lotes[clave(p)]
             /\ m.est = "no" => m = Ninguno
      PROVE  TiposSalida' /\ PlanVivo'
  <2>1. clave(p) \in Claves
    BY <1>2, EnMano
  <2>2. TiposSalida'
    BY <1>0, <1>2, <2>1 DEF TiposSalida
  <2>3. PlanVivo'
    BY <1>0, <1>2, <2>1 DEF TiposSalida, PlanVivo
  <2> QED
    BY <2>2, <2>3
<1>3. CASE CreaPlan(p)
  <2>1. PICK s \in SUBSET Indices(clave(p)) :
          plan' = [plan EXCEPT ![clave(p)] = NuevoPlan(clave(p), s)]
    BY <1>3 DEF CreaPlan, LotesDelPlan
  <2>2. proc[p].en = "plan" /\ UNCHANGED emitido
    BY <1>3 DEF CreaPlan
  <2>3. clave(p) \in Claves /\ Lotes[clave(p)] \in Nat \ {0}
    BY <2>2, EnMano
  <2>4. plan[clave(p)].escritos \in SUBSET Indices(clave(p))
    BY <1>0, <2>3 DEF TiposSalida, Plan
  <2>5. NuevoPlan(clave(p), s) \in Plan(clave(p))
    BY <2>3, <2>4 DEF NuevoPlan, Plan
  <2>6. /\ NuevoPlan(clave(p), s).est = "pending" /\ NuevoPlan(clave(p), s).next = 0
        /\ 0 < Lotes[clave(p)]
    BY <2>3 DEF NuevoPlan
  <2> QED
    BY <1>2, <2>1, <2>2, <2>5, <2>6
<1>4. CASE EscribeLotes(p)
  <2> DEFINE m == plan[clave(p)]
             n == [m EXCEPT !.escritos = m.escritos \cup Indices(clave(p))]
  <2>1. plan' = [plan EXCEPT ![clave(p)] = n] /\ proc[p].en = "lotes" /\ UNCHANGED emitido
    BY <1>4 DEF EscribeLotes, LotesDelPlan
  <2>2. clave(p) \in Claves
    BY <2>1, EnMano
  <2>3. m \in Plan(clave(p)) /\ n \in Plan(clave(p)) /\ n.est = m.est /\ n.next = m.next
    BY <1>0, <2>2 DEF TiposSalida, Plan
  <2>4. m.est # "no" /\ (m.est = "pending" => m.next < Lotes[clave(p)])
    BY <1>0, <2>1, <2>2 DEF IInv, Empezado, PlanVivo
  <2> HIDE DEF n
  <2> QED
    BY <1>2, <2>1, <2>3, <2>4
<1>5. CASE EncolaLote(p)
  <2>1. proc[p].en = "encola" /\ Suma(clave(p), proc[p].i) /\ UNCHANGED plan
    BY <1>5 DEF EncolaLote
  <2>2. clave(p) \in Claves /\ proc[p].i \in Indices(clave(p))
    BY <2>1, EnMano
  <2>3. TiposSalida'
    BY <1>0, <2>1, <2>2, SumaTipo DEF TiposSalida
  <2> QED
    BY <1>0, <2>1, <2>3 DEF PlanVivo
<1> QED
  BY <1>1, <1>3, <1>4, <1>5 DEF Emite, DescartaVacio, Captura, CapturaSinLista, Registra

\* What the dispatcher does to the plan of the lot it claims, and to no other.
LEMMA DespachaSalida ==
  ASSUME IInv, NEW k \in Claves, Despacha(k)
  PROVE  /\ TiposSalida' /\ PlanVivo'
         /\ plan[k].est = "pending" /\ plan[k].next \in Indices(k)
         /\ plan'[k].est # "no" /\ plan'[k].next = plan[k].next + 1
         /\ plan'[k].escritos = plan[k].escritos
         /\ \A x \in Claves \ {k} : plan'[x] = plan[x]
<1> DEFINE m == plan[k]
           est == IF Cierra(k, m.next + 1) THEN "done" ELSE m.est
           n == [m EXCEPT !.next = m.next + 1, !.est = est]
<1>0. TiposSalida /\ PlanVivo /\ m \in Plan(k) /\ Lotes[k] \in Nat \ {0}
  BY Partes, ClavesTipo DEF IInv, TiposSalida
<1>1. m.est = "pending" /\ plan' = [plan EXCEPT ![k] = n]
  BY DEF Despacha
<1>2. m.next \in Nat /\ m.next < Lotes[k] /\ m.next \in Indices(k)
  BY <1>0, <1>1 DEF PlanVivo, Plan, Indices
<1>3. /\ n \in [est : {"pending", "done"}, next : {m.next + 1}, escritos : {m.escritos}]
      /\ n.est = "pending" => n.next < Lotes[k]
  <2>1. n \in [est : {est}, next : {m.next + 1}, escritos : {m.escritos}]
    BY <1>0 DEF Plan
  <2>2. est \in {"pending", "done"} /\ (est = "pending" => m.next + 1 < Lotes[k])
    BY <1>0, <1>1, <1>2 DEF Cierra
  <2> HIDE DEF est, n
  <2> QED
    BY <2>1, <2>2
<1> HIDE DEF n
<1>4. n \in Plan(k) /\ n.est # "no"
  <2>1. m.next + 1 \in 0..Lotes[k] /\ m.escritos \in SUBSET Indices(k)
    BY <1>0, <1>2 DEF Plan
  <2> QED
    BY <1>3, <2>1 DEF Plan
<1>5. plan'[k] = n /\ DOMAIN plan' = Claves /\ \A x \in Claves \ {k} : plan'[x] = plan[x]
  BY <1>0, <1>1 DEF TiposSalida
<1>6. DOMAIN emitido' = Claves /\ \A x \in Claves : emitido'[x] \in [Indices(x) -> 0..2]
  <2>1. CASE m.next \in m.escritos
    BY <1>0, <1>2, <2>1, SumaTipo DEF Despacha
  <2>2. CASE m.next \notin m.escritos
    BY <1>0, <2>2 DEF Despacha, TiposSalida
  <2> QED
    BY <2>1, <2>2
<1>7. TiposSalida'
  BY <1>0, <1>4, <1>5, <1>6 DEF TiposSalida
<1>8. PlanVivo'
  BY <1>0, <1>3, <1>4, <1>5 DEF PlanVivo
<1> QED
  BY <1>1, <1>2, <1>3, <1>4, <1>5, <1>7, <1>8

\* A plan, once there, stays, and the ones of the others are not touched.
LEMMA EmitePlan ==
  ASSUME IInv, NEW p \in Procesos, Emite(p)
  PROVE  \A k \in Claves : /\ plan[k].est # "no" => plan'[k].est # "no"
                           /\ plan'[k] # plan[k] => /\ proc[p].en \in {"plan", "lotes"}
                                                    /\ clave(p) = k
<1>0. TiposSalida
  BY Partes DEF IInv
<1>1. CASE UNCHANGED plan
  BY <1>1
<1>2. CASE CreaPlan(p)
  <2>1. PICK s : plan' = [plan EXCEPT ![clave(p)] = NuevoPlan(clave(p), s)]
    BY <1>2 DEF CreaPlan
  <2>2. NuevoPlan(clave(p), s).est = "pending" /\ proc[p].en = "plan"
    BY <1>2 DEF NuevoPlan, CreaPlan
  <2> QED
    BY <1>0, <2>1, <2>2 DEF TiposSalida
<1>3. CASE EscribeLotes(p)
  <2> DEFINE n == [plan[clave(p)] EXCEPT !.escritos =
                     plan[clave(p)].escritos \cup Indices(clave(p))]
  <2>1. plan' = [plan EXCEPT ![clave(p)] = n] /\ proc[p].en = "lotes"
    BY <1>3 DEF EscribeLotes, LotesDelPlan
  <2>2. clave(p) \in Claves
    BY <2>1, EnMano
  <2>3. n.est = plan[clave(p)].est
    BY <1>0, <2>2 DEF TiposSalida, Plan
  <2> HIDE DEF n
  <2> QED
    BY <1>0, <2>1, <2>2, <2>3 DEF TiposSalida
<1> QED
  BY <1>1, <1>2, <1>3 DEF Emite, DescartaVacio, Captura, CapturaSinLista, Registra, EncolaLote, salida

\* The kinds of step.
LEMMA Casos ==
  ASSUME [Next]_vars
  PROVE  \/ UNCHANGED vars
         \/ Publica
         \/ CambiaConfig
         \/ \E p \in Corridas : Sondea(p)
         \/ \E p \in Peticiones : Atiende(p)
         \/ \E p \in Procesos : Emite(p)
         \/ \E p \in Procesos : Tropieza(p)
         \/ \E k \in Claves : Despacha(k)
BY DEF Next, Procesos

\* What each of those an invocation moves with does to the others.
Mueve(p) == \/ p \in Corridas /\ Sondea(p)
            \/ p \in Peticiones /\ Atiende(p)
            \/ Emite(p)
            \/ Tropieza(p)

\* An invocation moves only itself.
LEMMA MueveUno ==
  ASSUME IInv, NEW p \in Procesos, Mueve(p)
  PROVE  \A q \in Procesos \ {p} : proc'[q] = proc[q]
<1>1. \E r : Ir(p, r)
  <2>1. Sondea(p) => \E r : Ir(p, r)
    BY DEF Sondea, Corre, Primera, Siembra, Mira, Guarda
  <2>2. Atiende(p) => \E r : Ir(p, r)
    BY DEF Atiende, Llega, Salta, Marca, Ejecuta, Revierte, Responde
  <2>3. Emite(p) => \E r : Ir(p, r)
    BY DEF Emite, DescartaVacio, Captura, CapturaSinLista, Registra, CreaPlan, EscribeLotes,
         EncolaLote
  <2>4. Tropieza(p) => \E r : Ir(p, r)
    BY DEF Tropieza, GuardaFalla, MarcaFalla, DifundeFalla, CreaFalla, EncolaFalla, Muere
  <2> QED
    BY <2>1, <2>2, <2>3, <2>4 DEF Mueve
<1> QED
  BY <1>1 DEF Ir, IInv, Formas

\* An invocation that changes has moved.
LEMMA QuienMueve ==
  ASSUME IInv, [Next]_vars, NEW p \in Procesos, proc'[p] # proc[p]
  PROVE  Mueve(p)
<1>1. ASSUME UNCHANGED proc PROVE FALSE
  BY <1>1
<1>2. UNCHANGED vars \/ Publica \/ CambiaConfig \/ (\E k \in Claves : Despacha(k)) => UNCHANGED proc
  BY DEF vars, Publica, CambiaConfig, Despacha
<1>3. ASSUME NEW q \in Procesos, Mueve(q) PROVE Mueve(p)
  BY <1>3, MueveUno
<1> QED
  BY <1>1, <1>2, <1>3, Casos DEF Mueve, Procesos

\* Where an invocation may be after an assignment.
LEMMA Puestos ==
  ASSUME Formas, NEW p \in Procesos
  PROVE  /\ SigueMensaje(proc[p]).en \in {"dedup", "responde"}
         /\ Vuelve(p).en \in {"guarda", "dedup", "responde"}
         /\ Lanza(p).en \in {"libre", "revierte"} /\ Libre.en = "libre"
         /\ \A en : A(p, en).en = en /\ A(p, en).pend = proc[p].pend /\ A(p, en).i = proc[p].i
         /\ \A en, s : [A(p, en) EXCEPT !.pend = s].en = en /\ [A(p, en) EXCEPT !.pend = s].pend = s
         /\ \A i : /\ [proc[p] EXCEPT !.i = i].en = proc[p].en
                   /\ [proc[p] EXCEPT !.i = i].pend = proc[p].pend
                   /\ [proc[p] EXCEPT !.i = i].i = i
         /\ \A r : Ir(p, r) => proc'[p] = r
<1>0. proc[p] \in Proceso
  BY FormaDe
<1>1. \A en : A(p, en) = [en |-> en, envio |-> proc[p].envio, pend |-> proc[p].pend, i |-> proc[p].i]
  BY <1>0, Cambios DEF A
<1>2. \A en, s : [A(p, en) EXCEPT !.pend = s] =
        [en |-> en, envio |-> proc[p].envio, pend |-> s, i |-> proc[p].i]
  BY <1>0, Cambios DEF A
<1>3. \A i : [proc[p] EXCEPT !.i = i] =
        [en |-> proc[p].en, envio |-> proc[p].envio, pend |-> proc[p].pend, i |-> i]
  BY <1>0, Cambios
<1>4. SigueMensaje(proc[p]).en \in {"dedup", "responde"}
  <2>1. SigueMensaje(proc[p])
          \in [en : {"dedup", "responde"}, envio : {proc[p].envio}, pend : {Tail(proc[p].pend)}, i : {0}]
    BY <1>0 DEF SigueMensaje, Proceso
  <2> QED
    BY <2>1
<1>5. Vuelve(p).en \in {"guarda", "dedup", "responde"}
  <2>1. p \in Corridas => Vuelve(p) = [[proc[p] EXCEPT !.en = "guarda"] EXCEPT !.i = 0]
    BY DEF Vuelve, A
  <2>2. [[proc[p] EXCEPT !.en = "guarda"] EXCEPT !.i = 0]
          \in [en : {"guarda"}, envio : {proc[p].envio}, pend : {proc[p].pend}, i : {0}]
    BY <1>0 DEF Proceso
  <2>3. p \in Corridas => Vuelve(p).en = "guarda"
    BY <2>1, <2>2
  <2> QED
    BY <1>4, <2>3 DEF Vuelve
<1>6. Lanza(p).en \in {"libre", "revierte"} /\ Libre.en = "libre"
  BY <1>1 DEF Lanza, Libre
<1>7. \A r : Ir(p, r) => proc'[p] = r
  BY DEF Ir, Formas
<1>8. /\ \A en : A(p, en).en = en /\ A(p, en).pend = proc[p].pend /\ A(p, en).i = proc[p].i
      /\ \A en, s : [A(p, en) EXCEPT !.pend = s].en = en /\ [A(p, en) EXCEPT !.pend = s].pend = s
      /\ \A i : /\ [proc[p] EXCEPT !.i = i].en = proc[p].en
                /\ [proc[p] EXCEPT !.i = i].pend = proc[p].pend
                /\ [proc[p] EXCEPT !.i = i].i = i
  BY <1>1, <1>2, <1>3
<1> QED
  BY <1>4, <1>5, <1>6, <1>7, <1>8

\* The same, with other posts or another index.
LEMMA IrPend ==
  ASSUME Formas, NEW p \in Procesos, NEW en, NEW s, Ir(p, [A(p, en) EXCEPT !.pend = s])
  PROVE  proc'[p].en = en /\ proc'[p].pend = s
<1>1. proc'[p] = [A(p, en) EXCEPT !.pend = s]
  BY DEF Ir, Formas
<1> QED
  BY <1>1, Puestos

\* The same for the index of the loop.
LEMMA IrIndice ==
  ASSUME Formas, NEW p \in Procesos, NEW i, Ir(p, [proc[p] EXCEPT !.i = i])
  PROVE  proc'[p].en = proc[p].en /\ proc'[p].pend = proc[p].pend /\ proc'[p].i = i
<1>1. proc'[p] = [proc[p] EXCEPT !.i = i]
  BY DEF Ir, Formas
<1> QED
  BY <1>1, Puestos

\* A plan, once created, is never without a state again.
LEMMA PlanSigue ==
  ASSUME IInv, [Next]_vars
  PROVE  \A k \in Claves : plan[k].est # "no" => plan'[k].est # "no"
<1>2. ASSUME NEW k \in Claves, Despacha(k)
      PROVE  \A x \in Claves : plan[x].est # "no" => plan'[x].est # "no"
  BY <1>2, DespachaSalida
<1>3. ASSUME NEW p \in Procesos, Emite(p)
      PROVE  \A x \in Claves : plan[x].est # "no" => plan'[x].est # "no"
  BY <1>3, EmitePlan
<1>4. ASSUME NEW p, Sondea(p) \/ Atiende(p) \/ Tropieza(p)
      PROVE  UNCHANGED plan
  BY <1>4 DEF Sondea, Corre, Primera, Siembra, Mira, Guarda, Atiende, Llega, Salta, Marca, Ejecuta, Revierte,
       Responde, Tropieza, GuardaFalla, MarcaFalla, DifundeFalla, CreaFalla, EncolaFalla, Muere, salida
<1>5. UNCHANGED vars \/ Publica \/ CambiaConfig => UNCHANGED plan
  BY DEF vars, Publica, CambiaConfig, salida
<1> QED
  BY <1>2, <1>3, <1>4, <1>5, Casos

\* BroadcastList returns, or goes on with the key.
LEMMA EmiteEfecto ==
  ASSUME IInv, NEW p \in Procesos, Emite(p)
  PROVE  /\ proc[p].en \in EnDifusion
         /\ \/ proc'[p] = Vuelve(p) /\ ~Registra(p)
            \/ /\ proc'[p].en \in Sale /\ proc'[p].pend = proc[p].pend
               /\ \/ /\ Registra(p) /\ proc[p].en = "difunde" /\ proc'[p].en \in {"plan", "encola"}
                     /\ proc'[p].i = 0
                  \/ CreaPlan(p) /\ proc[p].en = "plan" /\ proc'[p].en = "lotes"
                  \/ /\ EncolaLote(p) /\ proc[p].en = "encola" /\ proc'[p].en = "encola"
                     /\ proc'[p].i = proc[p].i + 1
<1>0. Formas /\ Forma(p, proc[p])
  BY FormaDe DEF IInv
<1>1. CASE DescartaVacio(p) \/ Captura(p) \/ CapturaSinLista(p)
  <2>1. Ir(p, Vuelve(p)) /\ proc[p].en = "difunde"
    BY <1>1 DEF DescartaVacio, Captura, CapturaSinLista, Difunde
  <2>2. ~Registra(p)
    BY <1>1 DEF DescartaVacio, Captura, CapturaSinLista, Registra
  <2> QED
    BY <1>0, <2>1, <2>2, Puestos DEF EnDifusion
<1>2. CASE Registra(p)
  <2>1. /\ Ir(p, A(p, IF cfg.fraccionar THEN "plan" ELSE "encola")) /\ proc[p].en = "difunde"
    BY <1>2 DEF Registra, Difunde
  <2>2. proc[p].i = 0
    BY <1>0, <2>1 DEF Forma
  <2>3. PICK en \in {"plan", "encola"} : Ir(p, A(p, en))
    BY <2>1
  <2>4. proc'[p] = A(p, en)
    BY <1>0, <2>3, Puestos
  <2>5. proc'[p].en = en /\ proc'[p].pend = proc[p].pend /\ proc'[p].i = 0
    BY <1>0, <2>2, <2>4, Puestos
  <2> QED
    BY <1>2, <2>1, <2>5 DEF EnDifusion, Sale
<1>3. CASE CreaPlan(p)
  <2>1. Ir(p, Vuelve(p)) \/ Ir(p, A(p, "lotes"))
    BY <1>3 DEF CreaPlan
  <2>2. proc[p].en = "plan" /\ ~Registra(p)
    BY <1>3 DEF CreaPlan, Registra, Difunde
  <2>3. proc'[p] = Vuelve(p) \/ proc'[p] = A(p, "lotes")
    BY <1>0, <2>1, Puestos
  <2>4. A(p, "lotes").en = "lotes" /\ A(p, "lotes").pend = proc[p].pend
    BY <1>0, Puestos
  <2> QED
    BY <1>3, <2>2, <2>3, <2>4 DEF EnDifusion, Sale
<1>4. CASE EscribeLotes(p)
  <2>1. Ir(p, Vuelve(p)) /\ proc[p].en = "lotes" /\ ~Registra(p)
    BY <1>4 DEF EscribeLotes, Registra, Difunde
  <2> QED
    BY <1>0, <2>1, Puestos DEF EnDifusion
<1>5. CASE EncolaLote(p)
  <2>1. proc[p].en = "encola" /\ ~Registra(p)
    BY <1>5 DEF EncolaLote, Registra, Difunde
  <2>2. Ir(p, Vuelve(p)) \/ Ir(p, [proc[p] EXCEPT !.i = proc[p].i + 1])
    BY <1>5 DEF EncolaLote
  <2>3. CASE Ir(p, Vuelve(p))
    BY <1>0, <2>1, <2>3, Puestos DEF EnDifusion
  <2>4. CASE Ir(p, [proc[p] EXCEPT !.i = proc[p].i + 1])
    BY <1>0, <1>5, <2>1, <2>4, IrIndice DEF EnDifusion, Sale
  <2> QED
    BY <2>2, <2>3, <2>4
<1> QED
  BY <1>1, <1>2, <1>3, <1>4, <1>5 DEF Emite

\* Only BroadcastList comes to the sending.
LEMMA ASale ==
  ASSUME IInv, NEW p \in Procesos, Mueve(p), proc'[p].en \in Sale
  PROVE  /\ Emite(p) /\ proc'[p].pend = proc[p].pend
         /\ \/ /\ Registra(p) /\ proc[p].en = "difunde" /\ proc'[p].en \in {"plan", "encola"}
               /\ proc'[p].i = 0
            \/ CreaPlan(p) /\ proc[p].en = "plan" /\ proc'[p].en = "lotes"
            \/ /\ EncolaLote(p) /\ proc[p].en = "encola" /\ proc'[p].en = "encola"
               /\ proc'[p].i = proc[p].i + 1
<1>0. Formas
  BY DEF IInv
<1> USE DEF Sale
<1>1. CASE Sondea(p)
  <2>1. Corre(p) => FALSE
    <3>1. Corre(p) => \E s : Ir(p, [A(p, "mira") EXCEPT !.pend = s])
      BY DEF Corre
    <3> QED
      BY <1>0, <3>1, IrPend DEF Procesos
  <2>2. Primera(p) \/ Siembra(p) => FALSE
    BY <1>0, Puestos DEF Primera, Siembra
  <2>3. Mira(p) => FALSE
    <3>1. Mira(p) => Ir(p, Libre) \/ \E s : Ir(p, [A(p, "difunde") EXCEPT !.pend = s])
      BY DEF Mira
    <3> QED
      BY <1>0, <3>1, IrPend, Puestos
  <2>4. Guarda(p) => FALSE
    <3>1. Guarda(p) => Ir(p, Libre) \/ \E s : Ir(p, [A(p, "difunde") EXCEPT !.pend = s])
      BY DEF Guarda
    <3> QED
      BY <1>0, <3>1, IrPend, Puestos
  <2> QED
    BY <1>1, <2>1, <2>2, <2>3, <2>4 DEF Sondea
<1>2. CASE Atiende(p)
  <2>1. (\E e \in Envios : Llega(p, e)) => FALSE
    BY <1>0, Puestos DEF Llega
  <2>2. Salta(p) \/ Marca(p) \/ Ejecuta(p) => FALSE
    BY <1>0, Puestos DEF Salta, Marca, Ejecuta
  <2>3. Revierte(p) \/ Responde(p) => FALSE
    BY <1>0, Puestos DEF Revierte, Responde
  <2> QED
    BY <1>2, <2>1, <2>2, <2>3 DEF Atiende
<1>3. CASE Tropieza(p)
  BY <1>0, <1>3, Puestos DEF Tropieza, GuardaFalla, MarcaFalla, SinConfirmar, DifundeFalla,
     CreaFalla, EncolaFalla, Muere
<1>4. CASE Emite(p)
  <2>1. Vuelve(p).en \notin Sale
    BY <1>0, Puestos
  <2> QED
    BY <1>4, <2>1, EmiteEfecto
<1> QED
  BY <1>1, <1>2, <1>3, <1>4 DEF Mueve

\* The lots of a plan are written after its first write.
LEMMA EmpezadoPaso == IInv /\ [Next]_vars => Empezado'
<1> SUFFICES ASSUME IInv, [Next]_vars, NEW p \in Procesos, proc'[p].en = "lotes"
             PROVE  plan'[Head(proc'[p].pend)].est # "no"
  BY DEF Empezado, clave
<1>0. Empezado /\ TiposSalida
  BY Partes DEF IInv
<1>1. CASE proc'[p] = proc[p]
  <2>1. clave(p) \in Claves /\ plan[clave(p)].est # "no"
    BY <1>0, <1>1, EnMano DEF Empezado
  <2> QED
    BY <1>1, <2>1, PlanSigue DEF clave
<1>2. CASE proc'[p] # proc[p]
  <2>1. CreaPlan(p) /\ proc[p].en = "plan" /\ proc'[p].pend = proc[p].pend
    BY <1>2, QuienMueve, ASale DEF Sale
  <2>2. PICK s : plan' = [plan EXCEPT ![clave(p)] = NuevoPlan(clave(p), s)]
    BY <2>1 DEF CreaPlan
  <2>3. clave(p) \in Claves
    BY <2>1, EnMano
  <2>4. plan'[clave(p)].est = "pending"
    BY <1>0, <2>2, <2>3 DEF TiposSalida, NuevoPlan
  <2> QED
    BY <2>1, <2>4 DEF clave
<1> QED
  BY <1>1, <1>2

\* The poller keeps the types of what it writes.
LEMMA SondeaTipos ==
  ASSUME IInv, NEW p \in Corridas, Sondea(p)
  PROVE  TiposCanal' /\ TiposResto'
<1>0. TiposCanal /\ TiposResto /\ Formas /\ p \in Procesos
  BY Partes DEF IInv, Procesos
<1>1. CASE Corre(p)
  BY <1>0, <1>1 DEF Corre, TiposCanal, TiposResto, canal, entorno, riesgos
<1>2. CASE Siembra(p)
  <2>1. proc[p].pend \in Seq(Claves) /\ Len(proc[p].pend) \in 1..Len(proc[p].pend) /\ Seguidos(proc[p].pend)
    <3>1. proc[p].en = "siembra" /\ Forma(p, proc[p])
      BY <1>0, <1>2, FormaDe DEF Siembra
    <3>2. proc[p].pend \in Seq(Claves) /\ Len(proc[p].pend) \in Nat \ {0}
      BY <1>0, <3>1, FormaDe
    <3> QED
      BY <3>1, <3>2 DEF Forma
  <2>2. hwm' \in Posts /\ semilla' \in {hwm', semilla}
    BY <1>2, <2>1 DEF Siembra, Seguidos
  <2>3. repetible' \in SUBSET Claves /\ perdible' = perdible
    BY <1>0, <1>2 DEF Siembra, Retrocede, TiposResto, Claves
  <2> QED
    BY <1>0, <1>2, <2>2, <2>3 DEF Siembra, TiposCanal, TiposResto, entorno, Bien
<1>5. CASE Primera(p)
  BY <1>0, <1>5 DEF Primera, TiposCanal, TiposResto, canal, entorno, riesgos, Bien
<1>3. CASE Mira(p)
  <2> DEFINE s == proc[p].pend
  <2>1. PICK j \in 1..(Len(s) + 1) :
          repetible' = repetible \cup
            {s[i] : i \in {i \in j..Len(s) : \E q \in Corridas \ {p} : Lleva(q, s[i])}}
    BY <1>3 DEF Mira
  <2>2. s \in Seq(Claves) /\ Len(s) \in Nat
    BY <1>0, FormaDe, LenProperties
  <2>3. \A i \in 1..Len(s) : s[i] \in Claves
    BY <2>2, ElementOfSeq
  <2>4. \A i \in j..Len(s) : i \in 1..Len(s)
    BY <2>2
  <2>5. repetible' \in SUBSET Claves
    BY <1>0, <2>1, <2>3, <2>4 DEF TiposResto
  <2>6. perdible' = perdible \cup {x \in Posts : hwm < x /\ x < Head(s)}
    BY <1>3 DEF Mira
  <2>7. perdible' \in SUBSET Claves
    BY <1>0, <2>6 DEF TiposResto, Claves
  <2> QED
    BY <1>0, <1>3, <2>5, <2>7 DEF Mira, TiposCanal, TiposResto, canal, entorno, Bien
<1>4. CASE Guarda(p)
  <2>1. proc[p].en = "guarda" /\ hwm' = clave(p)
    BY <1>4 DEF Guarda, PorGuardar, clave
  <2>2. clave(p) \in Posts
    BY <1>0, <2>1, EnMano
  <2>3. repetible' = repetible \cup {x \in Posts : PorGuardar(proc[p]) < x /\ x <= hwm}
    BY <1>4 DEF Guarda, Retrocede
  <2>4. repetible' \in SUBSET Claves
    BY <1>0, <2>3 DEF TiposResto, Claves
  <2> QED
    BY <1>0, <1>4, <2>1, <2>2, <2>4 DEF Guarda, TiposCanal, TiposResto, entorno, Bien
<1> QED
  BY <1>1, <1>2, <1>3, <1>4, <1>5 DEF Sondea

\* So does the receiver.
LEMMA AtiendeTipos ==
  ASSUME IInv, NEW p \in Peticiones, Atiende(p)
  PROVE  TiposEntrada' /\ TiposResto'
<1>0. TiposEntrada /\ TiposResto /\ Formas /\ p \in Procesos /\ Enviadas
  BY Partes DEF IInv, Procesos
<1>1. CASE (\E e \in Envios : Llega(p, e)) \/ Salta(p)
  BY <1>0, <1>1 DEF Llega, Salta, TiposEntrada, TiposResto, entrada, entorno, riesgos
<1>2. CASE Marca(p)
  <2>1. clave(p) \in Hub \cup Updates
    BY <1>0, <1>2, EnMano DEF Marca
  <2> QED
    BY <1>0, <1>2, <2>1 DEF Marca, TiposEntrada, TiposResto, entorno, riesgos, Bien
<1>3. CASE Ejecuta(p)
  BY <1>0, <1>3 DEF Ejecuta, TiposEntrada, TiposResto, entorno, riesgos, Bien
<1>4. CASE Revierte(p)
  <2>1. clave(p) \in Claves
    BY <1>0, <1>4, EnMano DEF Revierte
  <2>2. perdible' \in SUBSET Claves /\ marcas' \in SUBSET (Hub \cup Updates)
    BY <1>0, <1>4, <2>1 DEF Revierte, TiposEntrada, TiposResto
  <2>3. fallos' \in 0..MaxFallos
    BY <1>0, <1>4, IngestAssumption DEF Revierte, Falla, Bien, TiposResto
  <2> QED
    BY <1>0, <1>4, <2>2, <2>3 DEF Revierte, TiposEntrada, TiposResto, entorno
<1>5. CASE Responde(p)
  <2>1. PICK e \in escenario.envios : proc[p].envio = <<e>>
    BY <1>0, <1>5 DEF Responde, Enviadas
  <2>2. acusados' \in SUBSET escenario.envios
    BY <1>0, <1>5, <2>1 DEF Responde, TiposEntrada
  <2>3. fallos' \in 0..MaxFallos
    BY <1>0, <1>5, IngestAssumption DEF Responde, Falla, Bien, TiposResto
  <2> QED
    BY <1>0, <1>5, <2>2, <2>3 DEF Responde, TiposEntrada, TiposResto, entorno, riesgos
<1> QED
  BY <1>1, <1>2, <1>3, <1>4, <1>5 DEF Atiende

\* So does BroadcastList.
LEMMA EmiteTipos ==
  ASSUME IInv, NEW p \in Procesos, Emite(p)
  PROVE  TiposRegistro' /\ TiposResto'
<1>0. TiposRegistro /\ TiposResto /\ MaxFallos \in Nat
  BY Partes, IngestAssumption DEF IInv
<1>1. CASE DescartaVacio(p) \/ CreaPlan(p) \/ EscribeLotes(p) \/ EncolaLote(p)
  BY <1>0, <1>1 DEF DescartaVacio, CreaPlan, EscribeLotes, EncolaLote, TiposRegistro, TiposResto,
     registro, entorno, riesgos, Bien
<1>2. CASE Captura(p) \/ CapturaSinLista(p) \/ Registra(p)
  <2>1. clave(p) \in Claves
    BY <1>2, EnMano DEF Captura, CapturaSinLista, Registra, Difunde
  <2>2. TiposRegistro'
    BY <1>0, <1>2, <2>1 DEF Captura, CapturaSinLista, Registra, TiposRegistro
  <2>3. fallos' \in 0..MaxFallos
    BY <1>0, <1>2 DEF Captura, CapturaSinLista, Registra, Falla, Bien, TiposResto
  <2>4. perdible' \in SUBSET Claves /\ UNCHANGED <<cfg, repetible, cambios>>
    BY <1>0, <1>2, <2>1 DEF Captura, CapturaSinLista, Registra, TiposResto, entorno
  <2> QED
    BY <1>0, <2>2, <2>3, <2>4 DEF TiposResto
<1> QED
  BY <1>1, <1>2 DEF Emite

\* So do failures and deaths.
LEMMA TropiezaTipos ==
  ASSUME IInv, NEW p \in Procesos, Tropieza(p)
  PROVE  TiposEntrada' /\ TiposResto'
<1>0. TiposEntrada /\ TiposResto /\ MaxFallos \in Nat
  BY Partes, IngestAssumption DEF IInv
<1>1. proc[p].en \notin {"libre", "responde"} /\ Falla /\ UNCHANGED <<escenario, ejecutados, acusados, cfg, cambios>>
  BY DEF Tropieza, GuardaFalla, MarcaFalla, DifundeFalla, CreaFalla, EncolaFalla, Muere, EnDifusion,
     entrada, entorno
<1>2. clave(p) \in Claves
  BY <1>1, EnMano
<1>3. fallos' \in 0..MaxFallos
  BY <1>0, <1>1 DEF Falla, TiposResto
<1>4. repetible' \in SUBSET Claves
  BY <1>0, <1>2 DEF Tropieza, GuardaFalla, MarcaFalla, DifundeFalla, CreaFalla, EncolaFalla, Muere,
     TiposResto
<1>5. perdible' \in SUBSET Claves
  BY <1>0, <1>2 DEF Tropieza, GuardaFalla, MarcaFalla, DifundeFalla, CreaFalla, EncolaFalla, Muere,
     TiposResto, LanzaPerdible, QuedaMarcado
<1>6. marcas' \in SUBSET (Hub \cup Updates)
  <2>1. CASE MarcaFalla(p)
    <3>1. p \in Peticiones
      <4>1. proc[p].en = "dedup" /\ Forma(p, proc[p])
        BY <2>1, FormaDe DEF MarcaFalla, IInv
      <4> QED
        BY <4>1 DEF Forma, EnDifusion, Procesos
    <3>2. clave(p) \in Hub \cup Updates
      BY <1>1, <3>1, EnMano
    <3> QED
      BY <1>0, <2>1, <3>2 DEF MarcaFalla, TiposEntrada
  <2>2. CASE ~MarcaFalla(p)
    BY <1>0, <2>2 DEF Tropieza, GuardaFalla, DifundeFalla, CreaFalla, EncolaFalla, Muere, TiposEntrada,
       entrada
  <2> QED
    BY <2>1, <2>2
<1> QED
  BY <1>0, <1>1, <1>3, <1>4, <1>5, <1>6 DEF TiposEntrada, TiposResto

\* Every step keeps the types.
LEMMA TiposPaso == IInv /\ [Next]_vars => TypeOK' /\ PlanVivo'
<1> SUFFICES ASSUME IInv, [Next]_vars PROVE TypeOK' /\ PlanVivo'
  OBVIOUS
<1> DEFINE T == TiposCanal /\ TiposRegistro /\ TiposEntrada /\ TiposSalida /\ TiposResto /\ PlanVivo
<1>0. T
  BY Partes DEF IInv
<1>a. UNCHANGED salida => TiposSalida' /\ PlanVivo'
  BY <1>0 DEF salida, TiposSalida, PlanVivo
<1>b. UNCHANGED registro => TiposRegistro'
  BY <1>0 DEF registro, TiposRegistro
<1>c. UNCHANGED entrada => TiposEntrada'
  BY <1>0 DEF entrada, TiposEntrada
<1>d. UNCHANGED canal => TiposCanal'
  BY <1>0 DEF canal, TiposCanal
<1>1. ASSUME UNCHANGED vars PROVE T'
  <2>1. UNCHANGED <<canal, registro, entrada, salida>>
    BY <1>1 DEF vars, canal, registro, entrada, salida
  <2>2. TiposResto'
    BY <1>0, <1>1 DEF vars, TiposResto
  <2> QED
    BY <1>a, <1>b, <1>c, <1>d, <2>1, <2>2
<1>2. ASSUME Publica PROVE T'
  <2>1. publicados' \in 0..MaxPosts
    <3>1. escenario.posts \in 0..MaxPosts
      BY <1>0, IngestAssumption DEF TiposEntrada
    <3> QED
      BY <1>0, <1>2, <3>1, IngestAssumption DEF Publica, TiposCanal
  <2> QED
    <3>1. UNCHANGED <<hwm, semilla, registro, salida, entrada, entorno, riesgos, fallos>>
      BY <1>2 DEF Publica
    <3>2. TiposCanal' /\ TiposResto'
      BY <1>0, <2>1, <3>1 DEF TiposCanal, TiposResto, entorno, riesgos
    <3> QED
      BY <1>a, <1>b, <1>c, <3>1, <3>2
<1>3. ASSUME CambiaConfig PROVE T'
  <2>1. cfg' \in Config
    <3>1. cfg \in Config
      BY <1>0 DEF TiposResto
    <3>2. PICK c \in DOMAIN cfg : cfg' = [cfg EXCEPT ![c] = ~cfg[c]]
      BY <1>3 DEF CambiaConfig
    <3>3. c \in {"capturar", "enviar", "lista", "fraccionar", "token"}
      BY <3>1, <3>2 DEF Config
    <3> QED
      BY <3>1, <3>2, <3>3 DEF Config
  <2>2. cambios' \in 0..MaxCambios
    BY <1>0, <1>3, IngestAssumption DEF CambiaConfig, TiposResto
  <2> QED
    <3>1. UNCHANGED <<canal, registro, salida, entrada, riesgos, fallos>>
      BY <1>3 DEF CambiaConfig
    <3>2. TiposResto'
      BY <1>0, <2>1, <2>2, <3>1 DEF TiposResto, riesgos
    <3> QED
      BY <1>a, <1>b, <1>c, <1>d, <3>1, <3>2
<1>4. ASSUME NEW p \in Corridas, Sondea(p) PROVE T'
  <2>1. TiposCanal' /\ TiposResto'
    BY <1>4, SondeaTipos
  <2>2. UNCHANGED <<registro, entrada, salida>>
    BY <1>4 DEF Sondea, Corre, Primera, Siembra, Mira, Guarda
  <2> QED
    BY <1>a, <1>b, <1>c, <2>1, <2>2
<1>5. ASSUME NEW p \in Peticiones, Atiende(p) PROVE T'
  <2>1. TiposEntrada' /\ TiposResto'
    BY <1>5, AtiendeTipos
  <2>2. UNCHANGED <<registro, canal, salida>>
    BY <1>5 DEF Atiende, Llega, Salta, Marca, Ejecuta, Revierte, Responde
  <2> QED
    BY <1>a, <1>b, <1>d, <2>1, <2>2
<1>6. ASSUME NEW p \in Procesos, Emite(p) PROVE T'
  <2>1. TiposRegistro' /\ TiposResto' /\ TiposSalida' /\ PlanVivo'
    BY <1>6, EmiteTipos, EmiteSalida
  <2>2. UNCHANGED <<canal, entrada>>
    BY <1>6 DEF Emite, DescartaVacio, Captura, CapturaSinLista, Registra, CreaPlan, EscribeLotes,
       EncolaLote
  <2> QED
    BY <1>c, <1>d, <2>1, <2>2
<1>7. ASSUME NEW p \in Procesos, Tropieza(p) PROVE T'
  <2>1. TiposEntrada' /\ TiposResto'
    BY <1>7, TropiezaTipos
  <2>2. UNCHANGED <<canal, registro, salida>>
    BY <1>7 DEF Tropieza, GuardaFalla, MarcaFalla, DifundeFalla, CreaFalla, EncolaFalla, Muere
  <2> QED
    BY <1>a, <1>b, <1>d, <2>1, <2>2
<1>8. ASSUME NEW k \in Claves, Despacha(k) PROVE T'
  <2>1. TiposSalida' /\ PlanVivo'
    BY <1>8, DespachaSalida
  <2>2. UNCHANGED <<canal, registro, entrada, entorno, riesgos, fallos>>
    BY <1>8 DEF Despacha
  <2> QED
    <3>1. TiposResto'
      BY <1>0, <2>2 DEF entorno, riesgos, TiposResto
    <3> QED
      BY <1>b, <1>c, <1>d, <2>1, <2>2, <3>1
<1> HIDE DEF T
<1>9. T'
  BY <1>1, <1>2, <1>3, <1>4, <1>5, <1>6, <1>7, <1>8, Casos
<1>10. proc' \in [Procesos -> Proceso]
  BY FormasPaso DEF Formas, Forma
<1>11. TypeOK'
  BY <1>9, <1>10 DEF T, TypeOK, TiposCanal, TiposRegistro, TiposEntrada, TiposSalida, TiposResto, Procesos
<1> QED
  BY <1>9, <1>11 DEF T

\* What holds at the start.
LEMMA IInvInicio == Init => IInv
<1> SUFFICES ASSUME Init PROVE IInv
  OBVIOUS
<1> USE DEF Init
<1>1. Formas
  BY LibreForma DEF Formas, Procesos
<1>2. proc \in [Procesos -> Proceso] /\ \A p \in Procesos : proc[p].en = "libre"
  BY <1>1, LibreForma DEF Formas, Forma, Procesos
<1>3. TiposCanal
  BY IngestAssumption DEF TiposCanal
<1>4. TiposRegistro /\ TiposEntrada
  BY DEF TiposRegistro, TiposEntrada
<1>5. TiposSalida
  <2>1. \A k \in Claves : Ninguno \in Plan(k)
    BY ClavesTipo DEF Ninguno, Plan
  <2>2. \A k \in Claves : [i \in Indices(k) |-> 0] \in [Indices(k) -> 0..2]
    OBVIOUS
  <2> QED
    BY <2>1, <2>2 DEF TiposSalida
<1>6. TiposResto
  BY IngestAssumption DEF TiposResto
<1>7. TypeOK
  BY <1>2, <1>3, <1>4, <1>5, <1>6, Partes
<1>8. PlanVivo
  BY DEF PlanVivo, Ninguno
<1>9. Enviadas /\ Empezado
  BY <1>2 DEF Enviadas, Empezado, Procesos
<1> QED
  BY <1>1, <1>7, <1>8, <1>9 DEF IInv

\* The inductive invariant: the types, and what an invocation may hold at each point of
\* its code (what is left of its request or of the posts it has read, and which key).
THEOREM Tipos == Spec => []IInv
<1>1. IInv /\ [Next]_vars => IInv'
  BY TiposPaso, FormasPaso, EnviadasPaso, EmpezadoPaso DEF IInv
<1> QED
  BY IInvInicio, <1>1, PTL DEF Spec

\* Every variable keeps its type.
THEOREM TiposIngest == Spec => []TypeOK
<1>1. IInv => TypeOK
  BY DEF IInv
<1> QED
  BY Tipos, <1>1, PTL
-----------------------------------------------------------------------------
(* What comes from the groups is never sent.                               *)

\* An invocation never sends what came through wa-hub, whatever the switches say and
\* whenever they change (BroadcastList with solo_capturar, hub_entrada.py).
THEOREM NadaDelHubSale == Spec => []HubNuncaDifunde
<1>1. Init => HubNuncaDifunde
  BY DEF Init, HubNuncaDifunde, Claves, Ninguno
<1>2. IInv /\ HubNuncaDifunde /\ [Next]_vars => HubNuncaDifunde'
  <2> SUFFICES ASSUME IInv, HubNuncaDifunde, [Next]_vars, NEW k \in Hub
               PROVE  /\ trabajo'[k] # "channel" /\ plan'[k] = Ninguno
                      /\ \A i \in Indices(k) : emitido'[k][i] = 0
    BY DEF HubNuncaDifunde
  <2>0. /\ k \in Claves /\ trabajo[k] # "channel" /\ plan[k] = Ninguno
        /\ \A i \in Indices(k) : emitido[k][i] = 0
        /\ TiposRegistro /\ TiposSalida
    BY Partes DEF HubNuncaDifunde, Claves, IInv
  <2>1. UNCHANGED <<registro, salida>> => trabajo'[k] = trabajo[k] /\ plan'[k] = plan[k] /\ emitido'[k] = emitido[k]
    BY DEF registro, salida
  <2>2. UNCHANGED vars \/ Publica \/ CambiaConfig => UNCHANGED <<registro, salida>>
    BY DEF vars, Publica, CambiaConfig, registro, salida
  <2>3. ASSUME NEW p, Sondea(p) \/ Atiende(p) \/ Tropieza(p)
        PROVE  UNCHANGED <<registro, salida>>
    BY <2>3 DEF Sondea, Corre, Primera, Siembra, Mira, Guarda, Atiende, Llega, Salta, Marca, Ejecuta, Revierte,
         Responde, Tropieza, GuardaFalla, MarcaFalla, DifundeFalla, CreaFalla, EncolaFalla, Muere
  <2>4. ASSUME NEW x \in Claves, Despacha(x)
        PROVE  trabajo'[k] = trabajo[k] /\ plan'[k] = plan[k] /\ emitido'[k] = emitido[k]
    <3>1. x # k
      BY <2>0, <2>4, DespachaSalida DEF Ninguno
    <3>2. plan'[k] = plan[k] /\ UNCHANGED trabajo
      BY <2>0, <2>4, <3>1, DespachaSalida DEF Despacha, registro
    <3>3. emitido'[k] = emitido[k]
      BY <2>0, <2>4, <3>1 DEF Despacha, Suma, TiposSalida
    <3> QED
      BY <3>2, <3>3
  <2>5. ASSUME NEW p \in Procesos, Emite(p)
        PROVE  /\ trabajo'[k] # "channel" /\ plan'[k] = plan[k] /\ emitido'[k] = emitido[k]
    <3>1. proc[p].en \in Sale => clave(p) # k /\ clave(p) \in Claves
      BY EnMano DEF Sale
    <3>2. plan'[k] = plan[k]
      BY <2>0, <2>5, <3>1, EmitePlan DEF Sale
    <3>3. emitido'[k] = emitido[k]
      <4>1. CASE EncolaLote(p)
        BY <2>0, <3>1, <4>1 DEF EncolaLote, Suma, Sale, TiposSalida
      <4>2. CASE ~EncolaLote(p)
        BY <2>5, <4>2 DEF Emite, DescartaVacio, Captura, CapturaSinLista, Registra, CreaPlan,
             EscribeLotes, salida
      <4> QED
        BY <4>1, <4>2
    <3>4. trabajo'[k] # "channel"
      <4>1. CASE Captura(p)
        BY <2>0, <4>1 DEF Captura, TiposRegistro
      <4>2. CASE Registra(p)
        BY <2>0, <4>2 DEF Registra, SoloCapturar, TiposRegistro
      <4>3. CASE ~(Captura(p) \/ Registra(p))
        BY <2>0, <2>5, <4>3 DEF Emite, DescartaVacio, CapturaSinLista, CreaPlan, EscribeLotes,
             EncolaLote, registro
      <4> QED
        BY <4>1, <4>2, <4>3
    <3> QED
      BY <3>2, <3>3, <3>4
  <2> QED
    BY <2>0, <2>1, <2>2, <2>3, <2>4, <2>5, Casos
<1> QED
  BY <1>1, <1>2, Tipos, PTL DEF Spec
-----------------------------------------------------------------------------
(* The mark never passes what is not attended.                             *)

\* Attended, or at a weak spot of the code.
Resuelto(k) == Atendido(k) \/ k \in perdible
\* The lots before the index have gone out.
Avance == \A p \in Procesos : proc[p].en = "encola" =>
            \A j \in Indices(clave(p)) : j < proc[p].i => emitido[clave(p)][j] > 0

\* What has gone out does not come back.
LEMMA EmiteCrece ==
  ASSUME IInv, NEW p \in Procesos, Emite(p), NEW k \in Claves, NEW j \in Indices(k),
         emitido[k][j] > 0
  PROVE  emitido'[k][j] > 0
<1>0. TiposSalida
  BY Partes DEF IInv
<1>1. CASE EncolaLote(p)
  <2>1. Suma(clave(p), proc[p].i) /\ proc[p].en = "encola"
    BY <1>1 DEF EncolaLote
  <2>2. clave(p) \in Claves /\ proc[p].i \in Indices(clave(p))
    BY <2>1, EnMano
  <2>3. /\ \A x \in Claves \ {clave(p)} : emitido'[x] = emitido[x]
        /\ \A i \in Indices(clave(p)) \ {proc[p].i} : emitido'[clave(p)][i] = emitido[clave(p)][i]
        /\ emitido'[clave(p)][proc[p].i] > 0
    BY <1>0, <2>1, <2>2, SumaTipo
  <2> QED
    BY <2>3
<1>2. CASE ~EncolaLote(p)
  BY <1>2 DEF Emite, DescartaVacio, Captura, CapturaSinLista, Registra, CreaPlan, EscribeLotes, salida
<1> QED
  BY <1>1, <1>2

\* What has gone out stays out.
LEMMA EmitidoCrece ==
  ASSUME IInv, [Next]_vars, NEW k \in Claves, NEW j \in Indices(k), emitido[k][j] > 0
  PROVE  emitido'[k][j] > 0
<1>0. TiposSalida
  BY Partes DEF IInv
<1>1. UNCHANGED vars \/ Publica \/ CambiaConfig => UNCHANGED emitido
  BY DEF vars, Publica, CambiaConfig, salida
<1>2. ASSUME NEW p, Sondea(p) \/ Atiende(p) \/ Tropieza(p)
      PROVE  UNCHANGED emitido
  BY <1>2 DEF Sondea, Corre, Primera, Siembra, Mira, Guarda, Atiende, Llega, Salta, Marca, Ejecuta, Revierte,
       Responde, Tropieza, GuardaFalla, MarcaFalla, DifundeFalla, CreaFalla, EncolaFalla, Muere, salida
<1>3. ASSUME NEW x \in Claves, Despacha(x) PROVE emitido'[k][j] > 0
  <2>1. plan[x].next \in Indices(x)
    BY <1>3, DespachaSalida
  <2>2. CASE plan[x].next \in plan[x].escritos
    <3>1. Suma(x, plan[x].next)
      BY <1>3, <2>2 DEF Despacha
    <3>2. /\ \A y \in Claves \ {x} : emitido'[y] = emitido[y]
          /\ \A i \in Indices(x) \ {plan[x].next} : emitido'[x][i] = emitido[x][i]
          /\ emitido'[x][plan[x].next] > 0
      BY <1>0, <2>1, <3>1, SumaTipo
    <3> QED
      BY <3>2
  <2>3. CASE plan[x].next \notin plan[x].escritos
    BY <1>3, <2>3 DEF Despacha
  <2> QED
    BY <2>2, <2>3
<1> QED
  BY <1>1, <1>2, <1>3, EmiteCrece, Casos

\* What is resolved stays so.
LEMMA ResueltoSigue ==
  ASSUME IInv, [Next]_vars, NEW k \in Claves, Resuelto(k)
  PROVE  Resuelto(k)'
<1>1. k \in perdible => k \in perdible'
  <2>1. UNCHANGED vars \/ Publica \/ CambiaConfig \/ (\E x \in Claves : Despacha(x)) => UNCHANGED perdible
    BY DEF vars, Publica, CambiaConfig, Despacha, riesgos
  <2>2. ASSUME NEW p, Sondea(p) PROVE perdible \subseteq perdible'
    BY <2>2 DEF Sondea, Corre, Primera, Siembra, Mira, Guarda, riesgos
  <2>3. ASSUME NEW p, Atiende(p) PROVE perdible \subseteq perdible'
    BY <2>3 DEF Atiende, Llega, Salta, Marca, Ejecuta, Revierte, Responde, riesgos
  <2>4. ASSUME NEW p, Emite(p) PROVE perdible \subseteq perdible'
    BY <2>4 DEF Emite, DescartaVacio, Captura, CapturaSinLista, Registra, CreaPlan, EscribeLotes,
       EncolaLote, riesgos
  <2>5. ASSUME NEW p, Tropieza(p) PROVE perdible \subseteq perdible'
    BY <2>5 DEF Tropieza, GuardaFalla, MarcaFalla, DifundeFalla, CreaFalla, EncolaFalla, Muere,
       LanzaPerdible
  <2> QED
    BY <2>1, <2>2, <2>3, <2>4, <2>5, Casos
<1>2. sueltas \subseteq sueltas' /\ ejecutados \subseteq ejecutados'
  <2>1. UNCHANGED vars \/ Publica \/ CambiaConfig \/ (\E x \in Claves : Despacha(x))
          => UNCHANGED <<sueltas, ejecutados>>
    BY DEF vars, Publica, CambiaConfig, Despacha, registro, entrada
  <2>2. ASSUME NEW p, Sondea(p) \/ Tropieza(p) PROVE UNCHANGED <<sueltas, ejecutados>>
    BY <2>2 DEF Sondea, Corre, Primera, Siembra, Mira, Guarda, Tropieza, GuardaFalla, MarcaFalla, DifundeFalla,
         CreaFalla, EncolaFalla, Muere, registro, entrada
  <2>3. ASSUME NEW p, Atiende(p) PROVE UNCHANGED sueltas /\ ejecutados \subseteq ejecutados'
    BY <2>3 DEF Atiende, Llega, Salta, Marca, Ejecuta, Revierte, Responde, registro, entrada
  <2>4. ASSUME NEW p, Emite(p) PROVE UNCHANGED ejecutados /\ sueltas \subseteq sueltas'
    BY <2>4 DEF Emite, DescartaVacio, Captura, CapturaSinLista, Registra, CreaPlan, EscribeLotes,
       EncolaLote, registro, entrada
  <2> QED
    BY <2>1, <2>2, <2>3, <2>4, Casos
<1>3. trabajo[k] = "capture" => trabajo'[k] = "capture" \/ k \in perdible'
  <2>0. TiposRegistro
    BY Partes DEF IInv
  <2>1. UNCHANGED vars \/ Publica \/ CambiaConfig \/ (\E x \in Claves : Despacha(x)) => UNCHANGED trabajo
    BY DEF vars, Publica, CambiaConfig, Despacha, registro
  <2>2. ASSUME NEW p, Sondea(p) \/ Atiende(p) \/ Tropieza(p) PROVE UNCHANGED trabajo
    BY <2>2 DEF Sondea, Corre, Primera, Siembra, Mira, Guarda, Atiende, Llega, Salta, Marca, Ejecuta, Revierte,
         Responde, Tropieza, GuardaFalla, MarcaFalla, DifundeFalla, CreaFalla, EncolaFalla, Muere,
         registro
  <2>3. ASSUME NEW p, Emite(p), trabajo[k] = "capture"
        PROVE  trabajo'[k] = "capture" \/ k \in perdible'
    <3>1. CASE Captura(p)
      BY <2>0, <2>3, <3>1 DEF Captura, TiposRegistro
    <3>2. CASE Registra(p)
      BY <2>0, <2>3, <3>2 DEF Registra, TiposRegistro
    <3>3. CASE ~(Captura(p) \/ Registra(p))
      BY <2>3, <3>3 DEF Emite, DescartaVacio, CapturaSinLista, CreaPlan, EscribeLotes, EncolaLote,
         registro
    <3> QED
      BY <3>1, <3>2, <3>3
  <2> QED
    BY <2>1, <2>2, <2>3, Casos
<1>4. plan[k].est # "no" => plan'[k].est # "no"
  BY PlanSigue
<1>5. (\A i \in Indices(k) : emitido[k][i] > 0) => \A i \in Indices(k) : emitido'[k][i] > 0
  BY EmitidoCrece
<1> QED
  BY <1>1, <1>2, <1>3, <1>4, <1>5 DEF Resuelto, Atendido

\* Of what is being queued, the lots before the index have gone out.
LEMMA AvancePaso == IInv /\ Avance /\ [Next]_vars => Avance'
<1> SUFFICES ASSUME IInv, Avance, [Next]_vars, NEW p \in Procesos, proc'[p].en = "encola",
                    NEW j \in Indices(Head(proc'[p].pend)), j < proc'[p].i
             PROVE  emitido'[Head(proc'[p].pend)][j] > 0
  BY DEF Avance, clave
<1>0. Formas /\ TiposSalida
  BY Partes DEF IInv
<1>1. CASE proc'[p] = proc[p]
  <2>1. clave(p) \in Claves /\ emitido[clave(p)][j] > 0
    BY <1>1, EnMano DEF Avance, clave
  <2> QED
    BY <1>1, <2>1, EmitidoCrece DEF clave
<1>2. CASE proc'[p] # proc[p]
  <2>1. /\ proc'[p].pend = proc[p].pend /\ proc[p].en \notin {"libre", "responde"}
        /\ \/ proc'[p].i = 0
           \/ EncolaLote(p) /\ proc[p].en = "encola" /\ proc'[p].i = proc[p].i + 1
    BY <1>2, QuienMueve, ASale DEF Sale
  <2>2. CASE proc'[p].i = 0
    <3>1. clave(p) \in Claves /\ Indices(clave(p)) \subseteq Nat
      BY <2>1, EnMano, ClavesTipo
    <3> QED
      BY <2>1, <2>2, <3>1 DEF clave
  <2>3. CASE EncolaLote(p) /\ proc[p].en = "encola" /\ proc'[p].i = proc[p].i + 1
    <3>1. /\ clave(p) \in Claves /\ proc[p].i \in Indices(clave(p))
          /\ Indices(clave(p)) \subseteq Nat
      BY <2>3, EnMano, ClavesTipo
    <3>2. Suma(clave(p), proc[p].i)
      BY <2>3 DEF EncolaLote
    <3>3. emitido'[clave(p)][proc[p].i] > 0
      BY <1>0, <3>1, <3>2, SumaTipo
    <3>4. j < proc[p].i \/ j = proc[p].i
      BY <2>1, <2>3, <3>1 DEF clave
    <3>5. j < proc[p].i => emitido'[clave(p)][j] > 0
      BY <2>1, <2>3, <3>1, EmitidoCrece DEF Avance, clave
    <3> QED
      BY <2>1, <3>3, <3>4, <3>5 DEF clave
  <2> QED
    BY <2>1, <2>2, <2>3
<1> QED
  BY <1>1, <1>2

\* When BroadcastList returns, the key is resolved.
LEMMA VuelveResuelto ==
  ASSUME IInv, Avance, NEW p \in Procesos, Emite(p), proc'[p] = Vuelve(p),
         NEW k, k = clave(p)
  PROVE  Resuelto(k)'
<1>0. /\ Formas /\ TiposSalida /\ TiposRegistro /\ Empezado
      /\ proc[p].en \in EnDifusion /\ ~Registra(p) /\ k \in Claves
  <2>1. Formas /\ TiposSalida /\ TiposRegistro /\ Empezado
    BY Partes DEF IInv
  <2>2. proc[p].en \in EnDifusion
    BY EmiteEfecto
  <2>3. k \in Claves
    BY <2>2, EnMano DEF EnDifusion
  <2>4. Vuelve(p).en \notin Sale
    BY <2>1, Puestos DEF Sale
  <2> QED
    BY <2>1, <2>2, <2>3, <2>4, EmiteEfecto
<1>1. CASE DescartaVacio(p)
  BY <1>1 DEF DescartaVacio, Resuelto, Atendido
<1>2. CASE Captura(p)
  BY <1>0, <1>2 DEF Captura, Resuelto, Atendido, TiposRegistro
<1>3. CASE CapturaSinLista(p)
  BY <1>3 DEF CapturaSinLista, Resuelto, Atendido
<1>4. CASE CreaPlan(p)
  <2>1. PICK s : plan' = [plan EXCEPT ![k] = NuevoPlan(k, s)]
    BY <1>4 DEF CreaPlan
  <2>2. plan'[k].est = "pending"
    BY <1>0, <2>1 DEF TiposSalida, NuevoPlan
  <2> QED
    BY <2>2 DEF Resuelto, Atendido
<1>5. CASE EscribeLotes(p)
  <2>1. plan[k].est # "no"
    BY <1>0, <1>5 DEF EscribeLotes, Empezado
  <2>2. plan'[k].est # "no"
    BY <1>0, <2>1, EmitePlan
  <2> QED
    BY <2>2 DEF Resuelto, Atendido
<1>6. CASE EncolaLote(p)
  <2>1. proc[p].en = "encola" /\ Suma(k, proc[p].i)
    BY <1>6 DEF EncolaLote
  <2>2. proc[p].i \in Indices(k) /\ Lotes[k] \in Nat \ {0} /\ proc[p].i \in Nat
    BY <2>1, EnMano
  <2>3. proc[p].i = Lotes[k] - 1
    <3>1. ASSUME proc[p].i # Lotes[k] - 1 PROVE FALSE
      <4>1. Ir(p, [proc[p] EXCEPT !.i = proc[p].i + 1])
        BY <1>6, <3>1 DEF EncolaLote
      <4>2. proc'[p].en = "encola"
        BY <1>0, <2>1, <4>1, IrIndice
      <4>3. Vuelve(p).en # "encola"
        BY <1>0, Puestos
      <4> QED
        BY <4>2, <4>3
    <3> QED
      BY <3>1
  <2>4. emitido'[k][proc[p].i] > 0
    BY <1>0, <2>1, <2>2, SumaTipo
  <2>5. ASSUME NEW j \in Indices(k) PROVE emitido'[k][j] > 0
    <3>1. j < proc[p].i \/ j = proc[p].i
      BY <2>2, <2>3 DEF Indices
    <3>2. j < proc[p].i => emitido[k][j] > 0
      BY <2>1 DEF Avance
    <3> QED
      BY <1>0, <2>4, <3>1, <3>2, EmiteCrece
  <2> QED
    BY <2>5 DEF Resuelto, Atendido
<1> QED
  BY <1>0, <1>1, <1>2, <1>3, <1>4, <1>5, <1>6 DEF Emite

\* The posts a run has passed are resolved, as is the one whose mark it saves.
Pasa(r, y) == /\ r.en \in EnDifusion \cup {"guarda"}
              /\ y < Head(r.pend) \/ (y = Head(r.pend) /\ r.en = "guarda")
Pasados == \A p \in Corridas : \A y \in Posts :
             semilla < y /\ Pasa(proc[p], y) => Resuelto(y)
MInv == MarcaNoSalta /\ Pasados

\* A run at a failure, or dead, leaves its posts.
LEMMA TropiezaCorrida ==
  ASSUME IInv, NEW p \in Corridas, Tropieza(p)
  PROVE  proc'[p] = Libre
<1>0. p \in Procesos /\ Formas /\ Forma(p, proc[p]) /\ p \notin Peticiones
  BY FormaDe, ClavesTipo DEF IInv, Procesos
<1>1. proc[p].en # "dedup" /\ Lanza(p) = Libre
  BY <1>0 DEF Forma, EnDifusion, Lanza
<1>2. Ir(p, Libre)
  BY <1>1 DEF Tropieza, GuardaFalla, MarcaFalla, DifundeFalla, CreaFalla, EncolaFalla, Muere
<1> QED
  BY <1>0, <1>2, Puestos

\* A run that is done with a post has resolved it.
LEMMA EmitePasa ==
  ASSUME IInv, Avance, MInv, NEW p \in Corridas, Emite(p), NEW y \in Posts,
         semilla < y, Pasa(proc'[p], y)
  PROVE  Resuelto(y)'
<1>0. p \in Procesos /\ Formas /\ y \in Claves /\ [Next]_vars /\ semilla' = semilla
  <2>1. p \in Procesos /\ Formas /\ y \in Claves
    BY DEF IInv, Procesos, Claves
  <2>2. [Next]_vars
    BY DEF Next
  <2>3. semilla' = semilla
    BY DEF Emite, DescartaVacio, Captura, CapturaSinLista, Registra, CreaPlan, EscribeLotes,
       EncolaLote, canal
  <2> QED
    BY <2>1, <2>2, <2>3
<1>1. proc[p].en \in EnDifusion /\ proc'[p].pend = proc[p].pend
  BY <1>0, EmiteEfecto, VuelveForma
<1>2. CASE y < clave(p)
  <2>1. Resuelto(y)
    BY <1>1, <1>2 DEF MInv, Pasados, Pasa, clave
  <2> QED
    BY <1>0, <2>1, ResueltoSigue
<1>3. CASE y = clave(p) /\ proc'[p].en = "guarda"
  <2>1. proc'[p] = Vuelve(p)
    BY <1>0, <1>3, EmiteEfecto DEF Sale
  <2> QED
    BY <1>0, <1>3, <2>1, VuelveResuelto
<1> QED
  BY <1>1, <1>2, <1>3 DEF Pasa, clave

\* Every step keeps what the mark promises.
LEMMA MInvPaso == IInv /\ Avance /\ MInv /\ [Next]_vars => MInv'
<1> SUFFICES ASSUME IInv, Avance, MInv, [Next]_vars PROVE MInv'
  OBVIOUS
<1>0. /\ Formas /\ TiposCanal /\ MaxPosts \in Nat
      /\ \A y \in Posts : y \in Claves /\ y \in Int
      /\ semilla \in Int /\ hwm \in Int
  BY Partes, IngestAssumption DEF IInv, Posts, Claves, TiposCanal, SinMarca
<1>1. \A y \in Posts : Resuelto(y) => Resuelto(y)'
  BY <1>0, ResueltoSigue
<1>2. /\ MarcaNoSalta <=> \A y \in Posts : semilla < y /\ y <= hwm => Resuelto(y)
      /\ MarcaNoSalta' <=> \A y \in Posts : semilla' < y /\ y <= hwm' => Resuelto(y)'
  BY DEF MarcaNoSalta, Resuelto
<1>3. ASSUME UNCHANGED <<hwm, semilla>>,
             \A p \in Corridas, y \in Posts : semilla < y /\ Pasa(proc'[p], y) => Resuelto(y)'
      PROVE  MInv'
  <2>1. MarcaNoSalta'
    BY <1>1, <1>2, <1>3 DEF MInv
  <2>2. Pasados'
    BY <1>3 DEF Pasados, Pasa
  <2> QED
    BY <1>3, <2>1, <2>2 DEF MInv, SinMarca
<1>4. ASSUME NEW p \in Corridas, proc'[p] = proc[p]
      PROVE  \A y \in Posts : semilla < y /\ Pasa(proc'[p], y) => Resuelto(y)'
  BY <1>1, <1>4 DEF MInv, Pasados, Pasa
<1>5. UNCHANGED vars \/ Publica \/ CambiaConfig \/ (\E k \in Claves : Despacha(k))
        => UNCHANGED <<hwm, semilla, proc>>
  BY DEF vars, Publica, CambiaConfig, Despacha, canal
<1>6. ASSUME NEW p \in Peticiones, Atiende(p) PROVE MInv'
  <2>1. UNCHANGED <<hwm, semilla>>
    BY <1>6 DEF Atiende, Llega, Salta, Marca, Ejecuta, Revierte, Responde, canal
  <2>2. \A q \in Corridas : proc'[q] = proc[q]
    BY <1>6, MueveUno, ClavesTipo DEF Mueve, Procesos
  <2> QED
    BY <1>3, <1>4, <2>1, <2>2
<1>7. ASSUME NEW p \in Procesos, Emite(p) PROVE MInv'
  <2>1. UNCHANGED <<hwm, semilla>>
    BY <1>7 DEF Emite, DescartaVacio, Captura, CapturaSinLista, Registra, CreaPlan, EscribeLotes,
       EncolaLote, canal
  <2>2. \A q \in Corridas : q # p => proc'[q] = proc[q]
    BY <1>7, MueveUno DEF Mueve, Procesos
  <2>3. p \in Corridas => \A y \in Posts : semilla < y /\ Pasa(proc'[p], y) => Resuelto(y)'
    BY <1>7, EmitePasa
  <2> QED
    BY <1>3, <1>4, <2>1, <2>2, <2>3
<1>8. ASSUME NEW p \in Procesos, Tropieza(p) PROVE MInv'
  <2>1. UNCHANGED <<hwm, semilla>>
    BY <1>8 DEF Tropieza, GuardaFalla, MarcaFalla, DifundeFalla, CreaFalla, EncolaFalla, Muere, canal
  <2>2. \A q \in Corridas : q # p => proc'[q] = proc[q]
    BY <1>8, MueveUno DEF Mueve, Procesos
  <2>3. p \in Corridas => ~\E y \in Posts : Pasa(proc'[p], y)
    BY <1>8, TropiezaCorrida DEF Pasa, Libre, EnDifusion
  <2> QED
    BY <1>3, <1>4, <2>1, <2>2, <2>3
<1>9. ASSUME NEW p \in Corridas, Sondea(p) PROVE MInv'
  <2>0. /\ p \in Procesos /\ Forma(p, proc[p])
        /\ \A q \in Corridas : q # p => proc'[q] = proc[q]
    BY <1>0, <1>9, MueveUno, FormaDe DEF Mueve, Procesos
  <2>1. CASE Corre(p)
    <3>1. UNCHANGED <<hwm, semilla>> /\ \E s : Ir(p, [A(p, "mira") EXCEPT !.pend = s])
      BY <2>1 DEF Corre, canal
    <3>2. proc'[p].en = "mira"
      BY <1>0, <2>0, <3>1, IrPend
    <3> QED
      BY <1>3, <1>4, <2>0, <3>1, <3>2 DEF Pasa, EnDifusion
  <2>5. CASE Primera(p)
    <3>1. UNCHANGED <<hwm, semilla>> /\ Ir(p, A(p, "siembra"))
      BY <2>5 DEF Primera, canal
    <3>2. proc'[p].en = "siembra"
      BY <1>0, <2>0, <3>1, Puestos
    <3> QED
      BY <1>3, <1>4, <2>0, <3>1, <3>2 DEF Pasa, EnDifusion
  <2>2. CASE Siembra(p)
    <3>1. semilla' = (IF semilla < hwm' THEN hwm' ELSE semilla) /\ Ir(p, Libre)
      BY <2>2 DEF Siembra
    <3>2. proc'[p] = Libre
      BY <1>0, <2>0, <3>1, Puestos
    <3>3. hwm' \in Int /\ hwm' <= semilla' /\ semilla <= semilla' /\ semilla' \in Int
      <4>1. hwm' \in Int
        BY SondeaTipos, <1>9, IngestAssumption DEF TiposCanal, Posts, SinMarca
      <4> QED
        BY <1>0, <3>1, <4>1
    <3>4. MarcaNoSalta'
      BY <1>0, <1>2, <3>3
    <3>5. Pasados'
      <4>1. \A y \in Posts : semilla' < y => semilla < y
        BY <1>0, <3>3
      <4>2. \A y \in Posts : ~Pasa(proc'[p], y)
        BY <3>2 DEF Pasa, Libre, EnDifusion
      <4>3. \A q \in Corridas, y \in Posts : semilla' < y /\ Pasa(proc'[q], y) => Resuelto(y)'
        BY <1>4, <2>0, <4>1, <4>2
      <4> QED
        BY <4>3 DEF Pasados, Pasa
    <3> QED
      BY <3>4, <3>5 DEF MInv
  <2>3. CASE Mira(p)
    <3> DEFINE s == proc[p].pend
    <3>1. UNCHANGED <<hwm, semilla>> /\ perdible' = perdible \cup {x \in Posts : hwm < x /\ x < Head(s)}
      BY <2>3 DEF Mira, canal
    <3>2. PICK j \in 1..(Len(s) + 1) :
            /\ \A i \in 1..Len(s) : Nuevo(s[i], hwm) <=> i >= j
            /\ Ir(p, IF j > Len(s) THEN Libre
                     ELSE [A(p, "difunde") EXCEPT !.pend = SubSeq(s, j, Len(s))])
      BY <2>3 DEF Mira
    <3>3. s \in Seq(Claves) /\ Len(s) \in Nat \ {0} /\ Seguidos(s) /\ Head(s) = s[1]
      <4>1. proc[p].en = "mira"
        BY <2>3 DEF Mira
      <4>2. s \in Seq(Claves) /\ s # <<>>
        BY <1>0, <2>0, <4>1, FormaDe
      <4> QED
        BY <2>0, <4>2, Cola DEF Forma
    <3>4. ASSUME NEW y \in Posts, semilla < y, Pasa(proc'[p], y)
          PROVE  Resuelto(y)'
      <4>1. CASE j > Len(s)
        <5>1. proc'[p] = Libre
          BY <1>0, <2>0, <3>2, <4>1, Puestos
        <5> QED
          BY <3>4, <5>1 DEF Pasa, Libre, EnDifusion
      <4>2. CASE ~(j > Len(s))
        <5>1. j \in 1..Len(s)
          BY <3>3, <4>2
        <5>2. proc'[p].en = "difunde" /\ proc'[p].pend = SubSeq(s, j, Len(s))
          BY <1>0, <2>0, <3>2, <4>2, IrPend
        <5>3. y < s[j]
          BY <3>3, <3>4, <5>1, <5>2, SubSeguidos DEF Pasa
        <5>4. \A i \in 1..Len(s) : s[i] \in Posts /\ s[i] = s[1] + i - 1
          BY <3>3 DEF Seguidos
        <5>5. CASE y <= hwm
          BY <1>1, <1>2, <3>4, <5>5 DEF MInv
        <5>6. CASE hwm < y /\ y < s[1]
          BY <3>1, <3>3, <5>6 DEF Resuelto
        <5>7. CASE s[1] <= y /\ hwm < y
          <6>1. PICK i \in 1..Len(s) : i < j /\ s[i] = y
            BY <3>3, <5>1, <5>3, <5>7, SinHuecos
          <6>2. ~(y > hwm)
            BY <3>2, <3>3, <5>1, <6>1 DEF Nuevo
          <6> QED
            BY <1>0, <5>7, <6>2
        <5> QED
          BY <1>0, <3>3, <5>4, <5>5, <5>6, <5>7
      <4> QED
        BY <4>1, <4>2
    <3> QED
      BY <1>3, <1>4, <2>0, <3>1, <3>4
  <2>4. CASE Guarda(p)
    <3> DEFINE s == proc[p].pend
    <3>1. /\ UNCHANGED semilla /\ hwm' = Head(s) /\ proc[p].en = "guarda"
          /\ Ir(p, IF Len(s) = 1 THEN Libre ELSE [A(p, "difunde") EXCEPT !.pend = Tail(s)])
      <4>1. /\ UNCHANGED semilla /\ hwm' = Head(s) /\ proc[p].en = "guarda"
            /\ Ir(p, IF Len(s) = 1 THEN Libre
                     ELSE [A(p, "difunde") EXCEPT !.pend = Tail(A(p, "difunde").pend)])
        BY <2>4 DEF Guarda, PorGuardar
      <4>2. A(p, "difunde").pend = s
        BY <1>0, <2>0, Puestos
      <4> QED
        BY <4>1, <4>2
    <3>2. /\ s \in Seq(Claves) /\ s # <<>> /\ Seguidos(s) /\ Len(s) \in Nat \ {0} /\ Head(s) = s[1]
          /\ s[1] \in Posts
      <4>1. s \in Seq(Claves) /\ s # <<>> /\ Seguidos(s)
        BY <1>0, <2>0, <3>1, FormaDe DEF Forma
      <4>2. Len(s) \in Nat \ {0} /\ Head(s) = s[1]
        BY <4>1, Cola
      <4> QED
        BY <4>1, <4>2 DEF Seguidos
    <3>3. ASSUME NEW y \in Posts, semilla < y, y <= Head(s) PROVE Resuelto(y)'
      <4>1. y < Head(s) \/ y = Head(s)
        BY <1>0, <3>2, <3>3
      <4> QED
        BY <1>1, <3>1, <3>3, <4>1 DEF MInv, Pasados, Pasa
    <3>4. MarcaNoSalta'
      BY <1>2, <3>1, <3>3
    <3>5. ASSUME NEW y \in Posts, semilla < y, Pasa(proc'[p], y) PROVE Resuelto(y)'
      <4>1. CASE Len(s) = 1
        <5>1. proc'[p] = Libre
          BY <1>0, <2>0, <3>1, <4>1, Puestos
        <5> QED
          BY <3>5, <5>1 DEF Pasa, Libre, EnDifusion
      <4>2. CASE Len(s) # 1
        <5>1. proc'[p].en = "difunde" /\ proc'[p].pend = Tail(s)
          BY <1>0, <2>0, <3>1, <4>2, IrPend
        <5>2. Head(Tail(s)) = s[2] /\ 2 \in 1..Len(s)
          <6>1. Tail(s) \in Seq(Claves) /\ Tail(s) # <<>> /\ Tail(s)[1] = s[2]
            BY <3>2, <4>2, Cola
          <6> QED
            BY <3>2, <4>2, <6>1, Cola
        <5>3. s[2] = s[1] + 1
          BY <3>2, <5>2, IngestAssumption DEF Seguidos, Posts
        <5>4. y < s[1] + 1
          BY <3>5, <5>1, <5>2, <5>3 DEF Pasa
        <5> QED
          BY <1>0, <3>2, <3>3, <3>5, <5>4
      <4> QED
        BY <4>1, <4>2
    <3>6. Pasados'
      <4>1. \A q \in Corridas, y \in Posts : semilla < y /\ Pasa(proc'[q], y) => Resuelto(y)'
        BY <1>4, <2>0, <3>5
      <4> QED
        BY <3>1, <4>1 DEF Pasados, Pasa
    <3>7. hwm' # SinMarca
      BY <1>0, <3>1, <3>2 DEF SinMarca, Posts
    <3> QED
      BY <3>4, <3>6, <3>7 DEF MInv, SinMarca
  <2> QED
    BY <1>9, <2>1, <2>2, <2>3, <2>4, <2>5 DEF Sondea
<1> QED
  BY <1>3, <1>4, <1>5, <1>6, <1>7, <1>8, <1>9, Casos

\* The mark of the channel never passes a post of its time that is not attended, or lost
\* at one of the weak spots: the posts in hand, and those a run passed, tell why.
THEOREM MarcaSinSaltos == Spec => []MarcaNoSalta
<1>1. Init => Avance /\ MInv
  BY DEF Init, Avance, MInv, MarcaNoSalta, Pasados, Pasa, Procesos, Libre, EnDifusion, SinMarca, Posts
<1>2. MInv => MarcaNoSalta
  BY DEF MInv
<1> QED
  BY <1>1, <1>2, Tipos, AvancePaso, MInvPaso, PTL DEF Spec
-----------------------------------------------------------------------------
(* Nothing answered with a 200 is lost.                                    *)

\* An invocation with the key in hand; a request whose loop has left it behind.
Tiene(r, k) == r.en \in EnDifusion \cup {"guarda", "revierte"} /\ Head(r.pend) = k
Pasada(r, k) ==
  /\ r.en # "libre"
  /\ \E e \in Envios : /\ r.envio = <<e>>
                       /\ \E j \in 1..(Len(Cuerpo[e]) - Len(r.pend)) : Cuerpo[e][j] = k
\* A key with a mark is resolved or in hand, and one the sender need not repeat is
\* resolved or has its mark.
MarcasVivas == \A k \in marcas : Resuelto(k) \/ \E p \in Procesos : Tiene(proc[p], k)
Debida(k) == \/ \E e \in acusados : Trae(e, k)
             \/ \E p \in Peticiones : Pasada(proc[p], k)
DebidasVivas == \A k \in Claves : Debida(k) => Resuelto(k) \/ k \in marcas
NInv == MarcasVivas /\ DebidasVivas

\* The loop leaves behind the key in hand, and no other.
LEMMA PasadaSigue ==
  ASSUME IInv, NEW p \in Peticiones, proc[p].en \in EnDifusion \cup {"dedup"}, NEW k,
         Pasada(SigueMensaje(proc[p]), k)
  PROVE  Pasada(proc[p], k) \/ k = clave(p)
<1> DEFINE s == proc[p].pend
<1>0. /\ p \in Procesos /\ Formas /\ Forma(p, proc[p]) /\ p \notin Corridas
      /\ proc[p].en \notin {"libre", "responde"}
      /\ SigueMensaje(proc[p]).envio = proc[p].envio /\ SigueMensaje(proc[p]).pend = Tail(s)
  BY FormaDe, SigueForma, ClavesTipo DEF IInv, Procesos, EnDifusion
<1>1. PICK e \in Envios : /\ proc[p].envio = <<e>>
                          /\ \E j \in 1..(Len(Cuerpo[e]) - Len(Tail(s))) : Cuerpo[e][j] = k
  BY <1>0 DEF Pasada
<1>2. PICK j \in 1..(Len(Cuerpo[e]) - Len(Tail(s))) : Cuerpo[e][j] = k
  BY <1>1
<1>3. PICK f \in Envios : proc[p].envio = <<f>> /\ Final(s, Cuerpo[f])
  BY <1>0 DEF Forma
<1>4. Final(s, Cuerpo[e])
  BY <1>1, <1>3
<1>5. /\ s \in Seq(Claves) /\ s # <<>> /\ Len(s) \in Nat \ {0} /\ Len(Tail(s)) = Len(s) - 1
      /\ Head(s) = s[1]
  <2>1. s \in Seq(Claves) /\ s # <<>>
    BY <1>0, FormaDe
  <2> QED
    BY <2>1, Cola
<1>6. s[1] = Cuerpo[e][Len(Cuerpo[e]) - Len(s) + 1] /\ Len(Cuerpo[e]) \in Nat
  <2>1. Cuerpo[e] \in Seq(Claves) /\ Len(Cuerpo[e]) \in Nat
    BY CuerpoTipo
  <2> DEFINE t == Cuerpo[e]
  <2> HIDE DEF s, t
  <2>2. s[1] = t[Len(t) - Len(s) + 1]
    BY <1>4, <1>5, <2>1, FinalCabeza DEF t
  <2> QED
    BY <2>1, <2>2 DEF t
<1>7. j \in 1..(Len(Cuerpo[e]) - Len(s)) \/ j = Len(Cuerpo[e]) - Len(s) + 1
  BY <1>5, <1>6
<1> QED
  BY <1>0, <1>1, <1>2, <1>5, <1>6, <1>7 DEF Pasada, clave

\* The rest of the body in hand and the body decide what is left behind.
LEMMA PasadaIgual ==
  ASSUME NEW r, NEW t, NEW k, t.envio = r.envio, t.pend = r.pend, r.en # "libre", Pasada(t, k)
  PROVE  Pasada(r, k)
BY DEF Pasada

\* The key of a mark is in the hands of a request, never of a run.
LEMMA TieneMarca ==
  ASSUME IInv, NEW k \in Hub \cup Updates, NEW p \in Procesos, Tiene(proc[p], k)
  PROVE  p \in Peticiones /\ p \notin Corridas /\ k = clave(p)
<1>1. proc[p].en \notin {"libre", "responde"} /\ k = clave(p)
  BY DEF Tiene, EnDifusion, clave
<1>2. p \notin Corridas
  BY <1>1, EnMano
<1> QED
  BY <1>1, <1>2 DEF Procesos

\* A step of p keeps the invariant if what it takes and leaves is accounted for.
LEMMA NInvDe ==
  ASSUME IInv, NInv, [Next]_vars, NEW p \in Procesos,
         \A q \in Procesos \ {p} : proc'[q] = proc[q],
         marcas \subseteq marcas',
         \A k \in marcas' : k \notin marcas => Tiene(proc'[p], k) \/ Resuelto(k)',
         \A k \in marcas : Tiene(proc[p], k) => Tiene(proc'[p], k) \/ Resuelto(k)',
         p \in Peticiones => \A k \in Claves : Pasada(proc'[p], k) =>
            Pasada(proc[p], k) \/ Resuelto(k)' \/ k \in marcas',
         \A e \in acusados' : e \notin acusados =>
            p \in Peticiones /\ \A k : Trae(e, k) => Pasada(proc[p], k)
  PROVE  NInv'
<1>0. \A k \in Claves : Resuelto(k) => Resuelto(k)'
  BY ResueltoSigue
<1>1. marcas \subseteq Claves
  BY DEF IInv, TypeOK, Claves
<1>2. ASSUME NEW k \in marcas' PROVE Resuelto(k)' \/ \E q \in Procesos : Tiene(proc'[q], k)
  <2>1. CASE k \notin marcas
    BY <1>2, <2>1
  <2>2. CASE k \in marcas
    <3>1. Resuelto(k) \/ \E q \in Procesos : Tiene(proc[q], k)
      BY <2>2 DEF NInv, MarcasVivas
    <3>2. Resuelto(k) => Resuelto(k)'
      BY <1>0, <1>1, <2>2
    <3>3. ASSUME NEW q \in Procesos, Tiene(proc[q], k)
          PROVE  Resuelto(k)' \/ \E x \in Procesos : Tiene(proc'[x], k)
      BY <2>2, <3>3
    <3> QED
      BY <3>1, <3>2, <3>3
  <2> QED
    BY <2>1, <2>2
<1>3. MarcasVivas'
  BY <1>2 DEF MarcasVivas, Tiene
<1>4. ASSUME NEW k \in Claves,
             \/ \E e \in acusados' : Trae(e, k)
             \/ \E q \in Peticiones : Pasada(proc'[q], k)
      PROVE  Resuelto(k)' \/ k \in marcas'
  <2>1. Debida(k) => Resuelto(k)' \/ k \in marcas'
    BY <1>0 DEF NInv, DebidasVivas
  <2>2. ASSUME NEW e \in acusados', Trae(e, k) PROVE Resuelto(k)' \/ k \in marcas'
    BY <2>1, <2>2 DEF Debida
  <2>3. ASSUME NEW q \in Peticiones, Pasada(proc'[q], k) PROVE Resuelto(k)' \/ k \in marcas'
    BY <2>1, <2>3 DEF Debida, Procesos
  <2> QED
    BY <1>4, <2>2, <2>3
<1>5. DebidasVivas'
  BY <1>4 DEF DebidasVivas, Debida, Pasada
<1> QED
  BY <1>3, <1>5 DEF NInv

\* BroadcastList keeps what is owed to the marked and to the answered.
LEMMA EmiteNada ==
  ASSUME IInv, Avance, NInv, NEW p \in Procesos, Emite(p)
  PROVE  NInv'
<1>0. /\ Formas /\ [Next]_vars /\ UNCHANGED <<marcas, acusados>> /\ marcas \subseteq Hub \cup Updates
      /\ \A q \in Procesos \ {p} : proc'[q] = proc[q]
      /\ proc[p].en \in EnDifusion
  <2>1. [Next]_vars /\ Mueve(p)
    BY DEF Next, Procesos, Mueve
  <2>2. UNCHANGED <<marcas, acusados>>
    BY DEF Emite, DescartaVacio, Captura, CapturaSinLista, Registra, CreaPlan, EscribeLotes,
       EncolaLote, entrada
  <2> QED
    BY <2>1, <2>2, MueveUno, EmiteEfecto DEF IInv, TypeOK
<1>1. ASSUME NEW k \in marcas, Tiene(proc[p], k) PROVE Tiene(proc'[p], k) \/ Resuelto(k)'
  <2>1. p \in Peticiones /\ p \notin Corridas /\ k = clave(p)
    BY <1>0, <1>1, TieneMarca
  <2>2. CASE proc'[p] = Vuelve(p)
    BY <2>1, <2>2, VuelveResuelto
  <2>3. CASE proc'[p].en \in Sale /\ proc'[p].pend = proc[p].pend
    BY <2>1, <2>3 DEF Tiene, EnDifusion, Sale, clave
  <2> QED
    BY <2>2, <2>3, EmiteEfecto
<1>2. ASSUME p \in Peticiones, NEW k \in Claves, Pasada(proc'[p], k)
      PROVE  Pasada(proc[p], k) \/ Resuelto(k)'
  <2>1. CASE proc'[p] = Vuelve(p)
    <3>1. Vuelve(p) = SigueMensaje(proc[p])
      BY <1>0, <1>2, VuelveForma
    <3>2. Pasada(proc[p], k) \/ k = clave(p)
      BY <1>0, <1>2, <2>1, <3>1, PasadaSigue
    <3> QED
      BY <2>1, <3>2, VuelveResuelto
  <2>2. CASE proc'[p].en \in Sale /\ proc'[p].pend = proc[p].pend
    <3>1. proc'[p].envio = proc[p].envio
      BY <1>2, <2>2, MismoEnvio DEF Sale
    <3> QED
      BY <1>0, <1>2, <2>2, <3>1, PasadaIgual DEF EnDifusion
  <2> QED
    BY <2>1, <2>2, EmiteEfecto
<1> QED
  BY <1>0, <1>1, <1>2, NInvDe

\* A failure names what it puts at stake.
LEMMA TropiezaNada ==
  ASSUME IInv, NInv, NEW p \in Procesos, Tropieza(p)
  PROVE  NInv'
<1>0. /\ Formas /\ [Next]_vars /\ UNCHANGED acusados /\ marcas \subseteq Hub \cup Updates
      /\ \A q \in Procesos \ {p} : proc'[q] = proc[q]
      /\ proc[p].en \notin {"libre", "responde"}
  <2>1. [Next]_vars /\ Mueve(p)
    BY DEF Next, Procesos, Mueve
  <2>2. UNCHANGED acusados /\ proc[p].en \notin {"libre", "responde"}
    BY DEF Tropieza, GuardaFalla, MarcaFalla, DifundeFalla, CreaFalla, EncolaFalla, Muere, entrada,
       EnDifusion
  <2> QED
    BY <2>1, <2>2, MueveUno DEF IInv, TypeOK
<1>1. marcas \subseteq marcas' /\ \A k \in marcas' : k \notin marcas => Tiene(proc'[p], k)
  <2>1. CASE MarcaFalla(p)
    <3>1. proc'[p] = A(p, "difunde") /\ \E m \in {{}, {clave(p)}} : marcas' = marcas \cup m
      BY <1>0, <2>1, Puestos DEF MarcaFalla, SinConfirmar
    <3>2. Tiene(proc'[p], clave(p))
      BY <1>0, <3>1, Puestos DEF Tiene, EnDifusion, clave
    <3> QED
      BY <3>1, <3>2
  <2>2. CASE ~MarcaFalla(p)
    BY <2>2 DEF Tropieza, GuardaFalla, DifundeFalla, CreaFalla, EncolaFalla, Muere, entrada
  <2> QED
    BY <2>1, <2>2
<1>2. CASE p \in Corridas
  <2>1. proc'[p] = Libre
    BY <1>2, TropiezaCorrida
  <2>2. p \notin Peticiones
    BY <1>2, ClavesTipo
  <2>3. \A k \in marcas : ~Tiene(proc[p], k)
    BY <1>0, <2>2, TieneMarca
  <2> QED
    BY <1>0, <1>1, <2>2, <2>3, NInvDe
<1>3. CASE p \in Peticiones
  <2>1. ASSUME NEW k \in marcas, Tiene(proc[p], k) PROVE Tiene(proc'[p], k) \/ Resuelto(k)'
    <3>0. k = clave(p)
      BY <1>0, <2>1, TieneMarca
    <3>1. A(p, "revierte").pend = proc[p].pend /\ A(p, "revierte").en = "revierte"
      BY <1>0, Puestos
    <3>2. Lanza(p) = (IF k \in Updates THEN A(p, "revierte") ELSE Libre)
      BY <1>3, <3>0 DEF Lanza
    <3>3. CASE DifundeFalla(p)
      <4>1. proc'[p] = Lanza(p) /\ perdible' = LanzaPerdible(p)
        BY <1>0, <3>3, Puestos DEF DifundeFalla
      <4>2. CASE k \in Updates
        BY <3>0, <3>1, <3>2, <4>1, <4>2 DEF Tiene, clave
      <4>3. CASE k \in Hub
        BY <1>3, <2>1, <3>0, <4>1, <4>3 DEF LanzaPerdible, QuedaMarcado, Resuelto
      <4> QED
        BY <1>0, <4>2, <4>3
    <3>4. CASE CreaFalla(p) \/ EncolaFalla(p)
      <4>1. proc'[p] = Lanza(p) /\ proc[p].en \in Sale
        BY <1>0, <3>4, Puestos DEF CreaFalla, EncolaFalla, Sale
      <4>2. k \in Updates
        BY <1>0, <3>0, <4>1, EnMano
      <4> QED
        BY <3>0, <3>1, <3>2, <4>1, <4>2 DEF Tiene, clave
    <3>5. CASE Muere(p)
      BY <2>1, <3>0, <3>5 DEF Muere, Resuelto
    <3>6. CASE GuardaFalla(p) \/ MarcaFalla(p)
      <4>1. proc[p].en \in {"guarda", "dedup"} /\ proc[p].en # "dedup" /\ proc[p].en # "guarda"
        <5>1. Forma(p, proc[p]) /\ p \in Peticiones
          BY <1>0, <1>3, FormaDe
        <5> QED
          BY <2>1, <3>6, <5>1 DEF GuardaFalla, MarcaFalla, Forma, Tiene, EnDifusion
      <4> QED
        BY <4>1
    <3> QED
      BY <3>3, <3>4, <3>5, <3>6 DEF Tropieza
  <2>2. ASSUME NEW k \in Claves, Pasada(proc'[p], k) PROVE Pasada(proc[p], k)
    <3>1. proc'[p].en # "libre"
      BY <2>2 DEF Pasada
    <3>2. proc'[p].envio = proc[p].envio
      BY <1>3, <3>1, MismoEnvio
    <3>3. proc'[p].pend = proc[p].pend
      <4>1. \/ Ir(p, Libre) \/ Ir(p, A(p, "difunde")) \/ Ir(p, A(p, "revierte"))
        BY DEF Tropieza, GuardaFalla, MarcaFalla, SinConfirmar, DifundeFalla, CreaFalla, EncolaFalla,
           Muere, Lanza
      <4> QED
        BY <1>0, <3>1, <4>1, Puestos
    <3> QED
      BY <1>0, <2>2, <3>2, <3>3, PasadaIgual
  <2> QED
    BY <1>0, <1>1, <2>1, <2>2, NInvDe
<1> QED
  BY <1>2, <1>3 DEF Procesos

\* The receiver marks what it takes, and answers after its last message.
LEMMA AtiendeNada ==
  ASSUME IInv, NInv, NEW p \in Peticiones, Atiende(p)
  PROVE  NInv'
<1>0. /\ Formas /\ [Next]_vars /\ marcas \subseteq Hub \cup Updates /\ Forma(p, proc[p])
      /\ \A q \in Procesos \ {p} : proc'[q] = proc[q]
      /\ p \in Procesos /\ p \notin Corridas
  <2>1. [Next]_vars /\ Mueve(p) /\ p \in Procesos
    BY DEF Next, Procesos, Mueve
  <2> QED
    BY <2>1, MueveUno, FormaDe, ClavesTipo DEF IInv, TypeOK
<1>1. \A k \in Claves : Resuelto(k) => Resuelto(k)'
  BY <1>0, ResueltoSigue
<1>h. PICK h : h = clave(p)
  OBVIOUS
<1> DEFINE r == SigueMensaje(proc[p])
<1>2. ASSUME NEW k, proc[p].en \in EnDifusion \cup {"dedup"}, Pasada(r, k)
      PROVE  Pasada(proc[p], k) \/ k = h
  BY <1>2, <1>h, PasadaSigue
<1> HIDE DEF r
<1>3. ASSUME NEW e \in Envios, Llega(p, e) PROVE NInv'
  <2>1. /\ proc'[p] = [en |-> "dedup", envio |-> <<e>>, pend |-> Cuerpo[e], i |-> 0]
        /\ proc[p].en = "libre" /\ UNCHANGED <<marcas, acusados>>
    BY <1>0, <1>3, Puestos DEF Llega, entrada
  <2>2. \A k : ~Tiene(proc[p], k)
    BY <2>1 DEF Tiene, EnDifusion
  <2>3. ASSUME NEW k, Pasada(proc'[p], k) PROVE FALSE
    <3>1. PICK f \in Envios : /\ proc'[p].envio = <<f>>
                              /\ \E j \in 1..(Len(Cuerpo[f]) - Len(proc'[p].pend)) : Cuerpo[f][j] = k
      BY <2>3 DEF Pasada
    <3>2. f = e /\ proc'[p].pend = Cuerpo[e] /\ Len(Cuerpo[e]) \in Nat
      BY <2>1, <3>1, CuerpoTipo
    <3> QED
      BY <3>1, <3>2
  <2> QED
    BY <1>0, <2>1, <2>2, <2>3, NInvDe
<1>4. CASE Salta(p)
  <2>1. proc'[p] = r /\ h \in SinTexto /\ proc[p].en = "dedup" /\ UNCHANGED <<marcas, acusados>>
    BY <1>0, <1>4, <1>h, Puestos DEF Salta, Saltado, r, entrada
  <2>2. Resuelto(h)'
    BY <2>1 DEF Resuelto, Atendido
  <2>3. \A k : ~Tiene(proc[p], k)
    BY <2>1 DEF Tiene, EnDifusion
  <2>4. \A k \in Claves : Pasada(proc'[p], k) => Pasada(proc[p], k) \/ Resuelto(k)'
    BY <1>2, <2>1, <2>2
  <2> QED
    BY <1>0, <2>1, <2>3, <2>4, NInvDe
<1>5. CASE Marca(p)
  <2>1. /\ marcas' = marcas \cup {h} /\ UNCHANGED acusados /\ proc[p].en = "dedup"
        /\ proc'[p] = IF h \in marcas THEN r ELSE A(p, "difunde")
    BY <1>0, <1>5, <1>h, Puestos DEF Marca, r
  <2>2. \A k : ~Tiene(proc[p], k)
    BY <2>1 DEF Tiene, EnDifusion
  <2>3. h \notin marcas => Tiene(proc'[p], h)
    BY <1>0, <1>h, <2>1, Puestos DEF Tiene, EnDifusion, clave
  <2>4. ASSUME NEW k \in Claves, Pasada(proc'[p], k) PROVE Pasada(proc[p], k) \/ k \in marcas'
    <3>1. CASE h \in marcas
      BY <1>2, <2>1, <2>4, <3>1
    <3>2. CASE h \notin marcas
      <4>1. proc'[p].en # "libre" /\ proc'[p].pend = proc[p].pend
        BY <1>0, <2>1, <3>2, Puestos
      <4>2. proc'[p].envio = proc[p].envio
        BY <1>0, <1>5, <4>1, MismoEnvio
      <4> QED
        BY <2>1, <2>4, <4>1, <4>2, PasadaIgual
    <3> QED
      BY <3>1, <3>2
  <2> QED
    BY <1>0, <2>1, <2>2, <2>3, <2>4, NInvDe
<1>6. CASE Ejecuta(p)
  <2>1. /\ proc'[p] = r /\ h \in ejecutados' /\ proc[p].en = "difunde" /\ UNCHANGED <<marcas, acusados>>
    BY <1>0, <1>6, <1>h, Puestos DEF Ejecuta, r, EnDifusion
  <2>2. Resuelto(h)'
    BY <2>1 DEF Resuelto, Atendido
  <2>3. \A k : Tiene(proc[p], k) => k = h
    BY <1>h DEF Tiene, clave
  <2>4. \A k \in Claves : Pasada(proc'[p], k) => Pasada(proc[p], k) \/ Resuelto(k)'
    BY <1>2, <2>1, <2>2 DEF EnDifusion
  <2> QED
    BY <1>0, <2>1, <2>2, <2>3, <2>4, NInvDe
<1>7. CASE Revierte(p)
  <2>1. /\ proc'[p] = Libre /\ proc[p].en = "revierte" /\ UNCHANGED acusados
        /\ marcas \ {h} \subseteq marcas' /\ marcas' \subseteq marcas
        /\ h \in marcas' => h \in perdible'
        /\ h \notin marcas' => (YaContestado(p) => h \in perdible')
    BY <1>0, <1>7, <1>h, Puestos DEF Revierte
  <2>2. \A k : (Tiene(proc[p], k) => k = h) /\ ~Pasada(proc'[p], k)
    BY <1>h, <2>1 DEF Tiene, clave, Pasada, Libre
  <2>3. h \in perdible' => Resuelto(h)'
    BY DEF Resuelto
  <2>4. ASSUME NEW k \in marcas'
        PROVE  Resuelto(k)' \/ \E q \in Procesos : Tiene(proc'[q], k)
    <3>1. k \in marcas /\ k \in Claves
      BY <1>0, <2>1, <2>4 DEF Claves
    <3>2. CASE k = h
      BY <2>1, <2>3, <2>4, <3>1, <3>2
    <3>3. CASE k # h
      <4>1. Resuelto(k) \/ \E q \in Procesos : Tiene(proc[q], k)
        BY <3>1 DEF NInv, MarcasVivas
      <4> QED
        BY <1>0, <1>1, <2>2, <3>1, <3>3, <4>1
    <3> QED
      BY <3>2, <3>3
  <2>5. MarcasVivas'
    BY <2>4 DEF MarcasVivas, Tiene
  <2>6. ASSUME NEW k \in Claves,
               \/ \E e \in acusados' : Trae(e, k)
               \/ \E q \in Peticiones : Pasada(proc'[q], k)
        PROVE  Resuelto(k)' \/ k \in marcas'
    <3>1. \/ \E e \in acusados : Trae(e, k)
          \/ \E q \in Peticiones \ {p} : Pasada(proc[q], k)
      BY <1>0, <2>1, <2>2, <2>6 DEF Procesos
    <3>2. Resuelto(k) \/ k \in marcas
      BY <3>1 DEF NInv, DebidasVivas, Debida
    <3>3. CASE k # h
      BY <1>1, <2>1, <3>2, <3>3
    <3>4. CASE k = h
      <4>1. YaContestado(p)
        <5>1. CASE \E e \in acusados : Trae(e, k)
          <6>1. acusados \subseteq Envios
            BY IngestAssumption DEF IInv, TypeOK
          <6> QED
            BY <1>h, <3>4, <5>1, <6>1 DEF YaContestado
        <5>2. ASSUME NEW q \in Peticiones \ {p}, Pasada(proc[q], k) PROVE YaContestado(p)
          <6>1. PICK e \in Envios : /\ proc[q].envio = <<e>>
                  /\ \E j \in 1..(Len(Cuerpo[e]) - Len(proc[q].pend)) : Cuerpo[e][j] = k
            BY <5>2 DEF Pasada
          <6>2. Len(proc[q].pend) \in Nat /\ Len(Cuerpo[e]) \in Nat
            BY <1>0, FormaDe, LenProperties, CuerpoTipo DEF Procesos
          <6>3. Trae(e, k)
            BY <6>1, <6>2 DEF Trae
          <6> QED
            BY <1>h, <3>4, <6>1, <6>3 DEF YaContestado
        <5> QED
          BY <3>1, <5>1, <5>2
      <4> QED
        BY <2>1, <2>3, <3>4, <4>1
    <3> QED
      BY <3>3, <3>4
  <2>7. DebidasVivas'
    BY <2>6 DEF DebidasVivas, Debida, Pasada
  <2> QED
    BY <2>5, <2>7 DEF NInv
<1>8. CASE Responde(p)
  <2>1. /\ proc'[p] = Libre /\ proc[p].en = "responde" /\ UNCHANGED marcas
        /\ acusados' \subseteq acusados \cup {proc[p].envio[1]}
    BY <1>0, <1>8, Puestos DEF Responde
  <2>2. \A k : ~Tiene(proc[p], k) /\ ~Pasada(proc'[p], k)
    BY <2>1 DEF Tiene, Pasada, EnDifusion, Libre
  <2>3. PICK e \in Envios : proc[p].envio = <<e>> /\ Final(proc[p].pend, Cuerpo[e])
    BY <1>0, <2>1 DEF Forma
  <2>4. proc[p].pend = <<>> /\ Len(proc[p].pend) = 0
    BY <1>0, <2>1 DEF Forma
  <2>5. ASSUME NEW k, Trae(e, k) PROVE Pasada(proc[p], k)
    BY <2>1, <2>3, <2>4, <2>5, CuerpoTipo DEF Pasada, Trae
  <2>6. \A f \in acusados' : f \notin acusados => f = e
    BY <2>1, <2>3
  <2> QED
    BY <1>0, <2>1, <2>2, <2>5, <2>6, NInvDe
<1> QED
  BY <1>3, <1>4, <1>5, <1>6, <1>7, <1>8 DEF Atiende

\* The poller touches neither the marks nor the answers.
LEMMA SondeaNada ==
  ASSUME IInv, NInv, NEW p \in Corridas, Sondea(p)
  PROVE  NInv'
<1>0. /\ [Next]_vars /\ marcas \subseteq Hub \cup Updates /\ UNCHANGED <<marcas, acusados>>
      /\ \A q \in Procesos \ {p} : proc'[q] = proc[q]
      /\ p \in Procesos /\ p \notin Peticiones
  <2>1. [Next]_vars /\ Mueve(p) /\ p \in Procesos
    BY DEF Next, Procesos, Mueve
  <2>2. UNCHANGED <<marcas, acusados>>
    BY DEF Sondea, Corre, Primera, Siembra, Mira, Guarda, entrada
  <2> QED
    BY <2>1, <2>2, MueveUno, ClavesTipo DEF IInv, TypeOK
<1>1. \A k \in marcas : ~Tiene(proc[p], k)
  BY <1>0, TieneMarca
<1> QED
  BY <1>0, <1>1, NInvDe

\* Every step keeps what is owed.
LEMMA NInvPaso == IInv /\ Avance /\ NInv /\ [Next]_vars => NInv'
<1> SUFFICES ASSUME IInv, Avance, NInv, [Next]_vars PROVE NInv'
  OBVIOUS
<1>1. UNCHANGED vars \/ Publica \/ CambiaConfig \/ (\E k \in Claves : Despacha(k))
        => UNCHANGED <<marcas, acusados, proc>>
  BY DEF vars, Publica, CambiaConfig, Despacha, entrada
<1>2. ASSUME UNCHANGED <<marcas, acusados, proc>> PROVE NInv'
  <2>1. \A k \in Claves : Resuelto(k) => Resuelto(k)'
    BY ResueltoSigue
  <2>2. marcas \subseteq Claves
    BY DEF IInv, TypeOK, Claves
  <2>3. MarcasVivas'
    <3>1. \A k \in marcas : Resuelto(k)' \/ \E p \in Procesos : Tiene(proc[p], k)
      BY <2>1, <2>2 DEF NInv, MarcasVivas
    <3> QED
      BY <1>2, <3>1 DEF MarcasVivas, Tiene
  <2>4. DebidasVivas'
    <3>1. \A k \in Claves : Debida(k) => Resuelto(k)' \/ k \in marcas
      BY <2>1 DEF NInv, DebidasVivas
    <3> QED
      BY <1>2, <3>1 DEF DebidasVivas, Debida, Pasada
  <2> QED
    BY <2>3, <2>4 DEF NInv
<1> QED
  BY <1>1, <1>2, SondeaNada, AtiendeNada, EmiteNada, TropiezaNada, Casos

\* A request answered with a 200 leaves nothing behind: what its keys are owed is done,
\* in hand, or was lost at one of the weak spots the model names.
THEOREM NadaPerdido == Spec => []NadaSePierde
<1>1. Init => Avance /\ NInv
  BY DEF Init, Avance, NInv, MarcasVivas, DebidasVivas, Debida, Pasada, Procesos, Libre
<1>2. IInv /\ NInv => NadaSePierde
  <2> SUFFICES ASSUME IInv, NInv, NEW e \in acusados, NEW j \in 1..Len(Cuerpo[e])
               PROVE  \/ Atendido(Cuerpo[e][j]) \/ Cuerpo[e][j] \in perdible
                      \/ EnManos(Cuerpo[e][j]) # {}
    BY DEF NadaSePierde
  <2> DEFINE k == Cuerpo[e][j]
  <2>1. e \in Envios /\ k \in Claves
    <3>1. e \in Envios
      BY IngestAssumption DEF IInv, TypeOK
    <3>2. Cuerpo[e] \in Seq(Claves)
      BY <3>1, CuerpoTipo
    <3> QED
      BY <3>1, <3>2, ElementOfSeq
  <2>2. Resuelto(k) \/ k \in marcas
    BY <2>1 DEF NInv, DebidasVivas, Debida, Trae
  <2>3. k \in marcas => Resuelto(k) \/ \E p \in Procesos : Tiene(proc[p], k)
    BY DEF NInv, MarcasVivas
  <2> QED
    BY <2>2, <2>3 DEF Resuelto, Tiene, EnManos, Procesos, clave
<1> QED
  BY <1>1, <1>2, Tipos, AvancePaso, NInvPaso, PTL DEF Spec
-----------------------------------------------------------------------------
(* Nothing goes out twice.                                                 *)

\* Nothing of the key has gone out, and it has no plan.
Fresca(k) == plan[k].est = "no" /\ \A i \in Indices(k) : emitido[k][i] = 0
\* The invocation has the key: in hand or, a run, further on.
Carga(p, r, k) ==
  /\ r.en \in EnDifusion \cup {"guarda", "revierte"}
  /\ Head(r.pend) = k \/ (p \in Corridas /\ \E j \in 1..Len(r.pend) : r.pend[j] = k)
\* What has gone out of a key, from where the invocation that has it is.
Situacion(r, k) ==
  /\ Head(r.pend) # k => Fresca(k)
  /\ r.en \in {"difunde", "plan", "revierte"} => Fresca(k)
  /\ r.en = "encola" /\ Head(r.pend) = k =>
       plan[k].est = "no" /\ \A j \in Indices(k) : j >= r.i => emitido[k][j] = 0
Una(k) ==
  \* one invocation has it
  /\ \A p, q \in Procesos : Carga(p, proc[p], k) /\ Carga(q, proc[q], k) => p = q
  /\ \A p \in Procesos : Carga(p, proc[p], k) => Situacion(proc[p], k)
  \* each lot has gone out at most once, none that the dispatcher has not reached
  /\ \A i \in Indices(k) : emitido[k][i] <= 1
  /\ plan[k].est # "no" => \A i \in Indices(k) : i >= plan[k].next => emitido[k][i] = 0
  \* its mark, or the mark of the channel, tells that it has been taken
  /\ (k \in Hub \cup Updates
       /\ (~Fresca(k) \/ \E p \in Procesos : Carga(p, proc[p], k))) => k \in marcas
  /\ k \in Posts /\ ~Fresca(k) => k <= hwm \/ \E p \in Corridas : Tiene(proc[p], k)
UInv == \A k \in Claves \ repetible : Una(k)

\* The sort of the key tells who may have it.
LEMMA CargaDe ==
  ASSUME IInv, NEW p \in Procesos, NEW k, Carga(p, proc[p], k)
  PROVE  /\ k \in Claves
         /\ p \in Corridas => k \in Posts /\ k \notin Hub \cup Updates /\ Lleva(p, k)
         /\ p \in Peticiones => k \in Hub \cup Updates /\ k \notin Posts /\ k = clave(p)
                                /\ Tiene(proc[p], k)
<1>0. /\ Formas /\ Forma(p, proc[p]) /\ proc[p].en \notin {"libre", "responde"}
      /\ proc[p].pend \in Seq(Claves) /\ proc[p].pend # <<>>
  <2>1. Formas /\ proc[p].en \notin {"libre", "responde"}
    BY DEF IInv, Carga, EnDifusion
  <2> QED
    BY <2>1, FormaDe
<1>1. CASE p \in Corridas
  <2>1. \E j \in 1..Len(proc[p].pend) : proc[p].pend[j] = k
    <3>1. Len(proc[p].pend) \in Nat \ {0} /\ Head(proc[p].pend) = proc[p].pend[1]
      BY <1>0, Cola
    <3> QED
      BY <3>1 DEF Carga
  <2>2. k \in Posts
    BY <1>0, <1>1, <2>1 DEF Forma, Seguidos
  <2>3. proc[p].en \in EnDifusion \cup {"guarda"}
    BY <1>0, <1>1 DEF Forma, Carga
  <2> QED
    BY <1>1, <2>1, <2>2, <2>3, ClavesTipo DEF Lleva, Claves
<1>2. CASE p \in Peticiones
  <2>1. k = clave(p) /\ p \notin Corridas
    BY <1>2, ClavesTipo DEF Carga, clave
  <2>2. k \in Hub \cup Updates
    BY <1>0, <1>2, <2>1, EnMano
  <2> QED
    BY <1>2, <2>1, <2>2, ClavesTipo DEF Carga, Tiene, clave, Claves
<1> QED
  BY <1>1, <1>2 DEF Procesos

\* A step of p that does not touch the lots of k keeps what is said of it.
LEMMA UnaDe ==
  ASSUME IInv, NEW k \in Claves, Una(k), NEW p \in Procesos,
         \A q \in Procesos \ {p} : proc'[q] = proc[q],
         plan'[k].est = plan[k].est, plan'[k].next = plan[k].next, emitido'[k] = emitido[k],
         Carga(p, proc'[p], k) =>
           /\ Carga(p, proc[p], k) \/ \A q \in Procesos \ {p} : ~Carga(q, proc[q], k)
           /\ Situacion(proc'[p], k),
         k \in Hub \cup Updates
           /\ (\/ ~Fresca(k) \/ Carga(p, proc'[p], k)
               \/ \E q \in Procesos \ {p} : Carga(q, proc[q], k)) => k \in marcas',
         k \in Posts /\ ~Fresca(k) =>
           /\ k <= hwm => k <= hwm' \/ (p \in Corridas /\ Tiene(proc'[p], k))
           /\ p \in Corridas /\ Tiene(proc[p], k) => k <= hwm' \/ Tiene(proc'[p], k)
  PROVE  Una(k)'
<1>1. Fresca(k)' <=> Fresca(k)
  BY DEF Fresca
<1>2. \A r : Situacion(r, k) <=> (/\ Head(r.pend) # k => Fresca(k)'
                                  /\ r.en \in {"difunde", "plan", "revierte"} => Fresca(k)'
                                  /\ r.en = "encola" /\ Head(r.pend) = k =>
                                       /\ plan'[k].est = "no"
                                       /\ \A j \in Indices(k) : j >= r.i => emitido'[k][j] = 0)
  BY <1>1 DEF Situacion
<1>3. ASSUME NEW q \in Procesos, Carga(q, proc'[q], k) PROVE Situacion(proc'[q], k)
  BY <1>3 DEF Una
<1>4. ASSUME NEW q \in Procesos, NEW x \in Procesos, Carga(q, proc'[q], k), Carga(x, proc'[x], k)
      PROVE  q = x
  BY <1>4 DEF Una
<1>5. k \in Hub \cup Updates /\ (~Fresca(k) \/ \E q \in Procesos : Carga(q, proc'[q], k)) => k \in marcas'
  BY DEF Una
<1>6. ASSUME k \in Posts, ~Fresca(k)
      PROVE  k <= hwm' \/ \E q \in Corridas : Tiene(proc'[q], k)
  BY <1>6 DEF Una, Procesos
<1>7. \A q \in Procesos : Carga(q, proc'[q], k) => Situacion(proc[q], k)'
  BY <1>2, <1>3 DEF Situacion
<1>8. /\ \A i \in Indices(k) : emitido'[k][i] <= 1
      /\ plan'[k].est # "no" => \A i \in Indices(k) : i >= plan'[k].next => emitido'[k][i] = 0
  BY DEF Una
<1> QED
  BY <1>1, <1>4, <1>5, <1>6, <1>7, <1>8 DEF Una, Carga, Tiene

\* The same of any state an invocation may be in.
LEMMA CargaForma ==
  ASSUME NEW p \in Procesos, NEW r, Forma(p, r), NEW k, Carga(p, r, k)
  PROVE  /\ k \in Claves /\ r.pend \in Seq(Claves) /\ r.pend # <<>>
         /\ p \in Corridas => k \in Posts /\ k \notin Hub \cup Updates
         /\ p \in Peticiones => k \in Hub \cup Updates /\ k \notin Posts /\ k = Head(r.pend)
<1>1. r \in Proceso /\ r.pend \in Seq(Claves) /\ r.pend # <<>>
  BY Campos DEF Forma, Carga, EnDifusion
<1>2. Len(r.pend) \in Nat \ {0} /\ Head(r.pend) = r.pend[1]
  BY <1>1, Cola
<1>3. CASE p \in Corridas
  <2>1. \E j \in 1..Len(r.pend) : r.pend[j] = k
    BY <1>2 DEF Carga
  <2>2. k \in Posts
    BY <1>3, <2>1 DEF Forma, Seguidos
  <2> QED
    BY <1>1, <1>3, <2>2, ClavesTipo DEF Claves
<1>4. CASE p \in Peticiones
  <2>1. k = Head(r.pend) /\ p \notin Corridas
    BY <1>4, ClavesTipo DEF Carga
  <2>2. PICK e \in Envios : Final(r.pend, Cuerpo[e])
    BY <1>4 DEF Forma, Carga, EnDifusion
  <2>3. Cuerpo[e] \in Seq(Hub \cup Updates)
    BY CuerpoTipo
  <2>4. r.pend[1] \in Hub \cup Updates
    BY <1>1, <2>2, <2>3, FinalCabeza
  <2> QED
    BY <1>1, <1>2, <1>4, <2>1, <2>4, ClavesTipo DEF Claves
<1> QED
  BY <1>3, <1>4 DEF Procesos

\* What is said of the sending of a key holds while nothing of it has gone out.
LEMMA FrescaSituacion ==
  ASSUME NEW k, Fresca(k), NEW r
  PROVE  Situacion(r, k)
BY DEF Fresca, Situacion

\* What a step of an invocation leaves to the lemmas.
LEMMA MueveForma ==
  ASSUME IInv, NEW p \in Procesos, Mueve(p)
  PROVE  /\ [Next]_vars /\ Formas /\ Forma(p, proc[p]) /\ Forma(p, proc'[p])
         /\ \A q \in Procesos \ {p} : proc'[q] = proc[q]
<1>1. [Next]_vars
  BY DEF Mueve, Next, Procesos
<1>2. Formas'
  BY <1>1, FormasPaso
<1>3. Forma(p, proc'[p])
  BY <1>2 DEF Formas, Forma
<1> QED
  BY <1>1, <1>3, MueveUno, FormaDe DEF IInv

\* The poller: no run takes a post that another has or that has already been taken.
LEMMA UnaSondea ==
  ASSUME IInv, NEW k \in Claves, Una(k), NEW p \in Corridas, Sondea(p), k \notin repetible'
  PROVE  Una(k)'
<1> DEFINE r == proc[p]
           s == r.pend
<1>0. /\ p \in Procesos /\ Formas /\ Forma(p, proc[p]) /\ Forma(p, proc'[p])
      /\ \A q \in Procesos \ {p} : proc'[q] = proc[q]
      /\ plan' = plan /\ emitido' = emitido /\ marcas' = marcas /\ p \notin Peticiones
  <2>1. p \in Procesos /\ Mueve(p)
    BY DEF Procesos, Mueve
  <2>2. plan' = plan /\ emitido' = emitido /\ marcas' = marcas
    BY DEF Sondea, Corre, Primera, Siembra, Mira, Guarda, entrada, salida
  <2> QED
    BY <2>1, <2>2, MueveForma, ClavesTipo
<1>1. CASE k \notin Posts
  <2>1. ~Carga(p, proc[p], k) /\ ~Carga(p, proc'[p], k)
    BY <1>0, <1>1, CargaForma
  <2>2. k \in Hub \cup Updates /\ (~Fresca(k) \/ \E q \in Procesos \ {p} : Carga(q, proc[q], k))
          => k \in marcas'
    BY <1>0 DEF Una
  <2> QED
    BY <1>0, <1>1, <2>1, <2>2, UnaDe
<1> SUFFICES ASSUME k \in Posts PROVE Una(k)'
  BY <1>1
<1>2. k \notin Hub \cup Updates /\ k \in Int /\ k > 0
  BY ClavesTipo, IngestAssumption DEF Posts
<1>3. ASSUME ~Carga(p, proc'[p], k), ~Tiene(proc[p], k), k <= hwm => k <= hwm'
      PROVE  Una(k)'
  BY <1>0, <1>2, <1>3, UnaDe
<1>4. CASE Corre(p)
  <2>1. r.en = "libre" /\ hwm' = hwm /\ \E n : Ir(p, [A(p, "mira") EXCEPT !.pend = n])
    BY <1>4 DEF Corre, canal
  <2>2. proc'[p].en = "mira"
    BY <1>0, <2>1, IrPend
  <2> QED
    BY <1>3, <2>1, <2>2 DEF Carga, Tiene, EnDifusion
<1>8. CASE Primera(p)
  <2>1. r.en = "mira" /\ hwm' = hwm /\ Ir(p, A(p, "siembra"))
    BY <1>8 DEF Primera, canal
  <2>2. proc'[p].en = "siembra"
    BY <1>0, <2>1, Puestos
  <2> QED
    BY <1>3, <2>1, <2>2 DEF Carga, Tiene, EnDifusion
<1>5. CASE Siembra(p)
  <2>1. r.en = "siembra" /\ proc'[p] = Libre /\ repetible' = repetible \cup Retrocede(hwm')
    BY <1>0, <1>5, Puestos DEF Siembra
  <2>2. k <= hwm => k <= hwm'
    <3>1. hwm' \in Int
      BY SondeaTipos, IngestAssumption DEF TiposCanal, Posts, SinMarca
    <3> QED
      BY <1>2, <2>1, <3>1 DEF Retrocede
  <2> QED
    BY <1>3, <2>1, <2>2 DEF Carga, Tiene, EnDifusion, Libre
<1>6. CASE Mira(p)
  <2>1. r.en = "mira" /\ hwm' = hwm
    BY <1>6 DEF Mira, canal
  <2>2. PICK j \in 1..(Len(s) + 1) :
          /\ \A i \in 1..Len(s) : Nuevo(s[i], hwm) <=> i >= j
          /\ Ir(p, IF j > Len(s) THEN Libre
                   ELSE [A(p, "difunde") EXCEPT !.pend = SubSeq(s, j, Len(s))])
          /\ repetible' = repetible \cup
               {s[i] : i \in {i \in j..Len(s) : \E q \in Corridas \ {p} : Lleva(q, s[i])}}
    BY <1>6 DEF Mira
  <2>3. CASE j > Len(s)
    <3>1. proc'[p] = Libre
      BY <1>0, <2>2, <2>3, Puestos
    <3> QED
      BY <1>3, <2>1, <3>1 DEF Carga, Tiene, EnDifusion, Libre
  <2>4. CASE ~(j > Len(s)) /\ Carga(p, proc'[p], k)
    <3>0. s \in Seq(Claves) /\ Len(s) \in Nat /\ j \in 1..Len(s)
      <4>1. s \in Seq(Claves) /\ Len(s) \in Nat
        BY <1>0, FormaDe, LenProperties
      <4> QED
        BY <2>4, <4>1
    <3>1. Ir(p, [A(p, "difunde") EXCEPT !.pend = SubSeq(s, j, Len(s))])
      BY <2>2, <2>4
    <3>2. proc'[p].pend = SubSeq(s, j, Len(s))
      BY <1>0, <3>1, IrPend
    <3>3. PICK i \in j..Len(s) : s[i] = k
      <4>1. PICK x \in 1..Len(proc'[p].pend) : proc'[p].pend[x] = k
        <5>1. proc'[p].pend \in Seq(Claves) /\ proc'[p].pend # <<>>
          BY <1>0, <2>4, CargaForma
        <5>2. Len(proc'[p].pend) \in Nat \ {0} /\ Head(proc'[p].pend) = proc'[p].pend[1]
          BY <5>1, Cola
        <5> QED
          BY <2>4, <5>2 DEF Carga
      <4>2. Len(SubSeq(s, j, Len(s))) = Len(s) - j + 1 /\ SubSeq(s, j, Len(s))[x] = s[j + x - 1]
        BY <3>0, <3>2, <4>1, SubSeqProperties
      <4>3. j + x - 1 \in j..Len(s)
        BY <3>0, <3>2, <4>1, <4>2
      <4> QED
        BY <3>2, <4>1, <4>2, <4>3
    <3>4. k > hwm
      BY <2>2, <3>0, <3>3 DEF Nuevo
    <3>5. ASSUME NEW q \in Corridas, Lleva(q, k) PROVE FALSE
      <4>1. q # p
        BY <2>1, <3>5 DEF Lleva, EnDifusion
      <4> QED
        BY <2>2, <3>3, <3>5, <4>1
    <3>6. ASSUME NEW q \in Procesos, Carga(q, proc[q], k) PROVE FALSE
      BY <1>2, <3>5, <3>6, CargaDe DEF Procesos
    <3>7. Fresca(k)
      <4>1. ASSUME NEW q \in Corridas, Tiene(proc[q], k) PROVE FALSE
        BY <3>6, <4>1 DEF Tiene, Carga, Procesos
      <4>2. hwm \in Int /\ ~(k <= hwm)
        <5>1. hwm \in {SinMarca, 0} \cup Posts
          BY DEF IInv, TypeOK
        <5>2. hwm \in Int
          BY <5>1, IngestAssumption DEF SinMarca, Posts
        <5> QED
          BY <1>2, <3>4, <5>2
      <4> QED
        BY <4>1, <4>2 DEF Una
    <3> QED
      BY <1>0, <1>2, <3>6, <3>7, FrescaSituacion, UnaDe
  <2> QED
    BY <1>3, <2>1, <2>3, <2>4 DEF Tiene, EnDifusion
<1>7. CASE Guarda(p)
  <2> DEFINE h == clave(p)
  <2>0. r.en = "guarda" /\ hwm' = h /\ repetible' = repetible \cup {x \in Posts : h < x /\ x <= hwm}
    BY <1>7 DEF Guarda, PorGuardar, Retrocede, clave
  <2>1. s \in Seq(Claves) /\ s # <<>> /\ Seguidos(s) /\ Len(s) \in Nat \ {0} /\ h = s[1] /\ h \in Posts
    BY <1>0, <2>0, FormaDe, ClaveTipo DEF Forma
  <2>2. h \in Int /\ hwm \in Int
    <3>1. hwm \in {SinMarca, 0} \cup Posts
      BY DEF IInv, TypeOK
    <3> QED
      BY <2>1, <3>1, IngestAssumption DEF SinMarca, Posts
  <2>3. k <= hwm => k <= hwm'
    BY <1>2, <2>0, <2>2
  <2>4. Tiene(proc[p], k) => k <= hwm'
    BY <2>0, <2>2 DEF Tiene, clave
  <2>5. ASSUME Carga(p, proc'[p], k) PROVE Carga(p, proc[p], k) /\ Fresca(k)
    <3>1. Ir(p, [A(p, "difunde") EXCEPT !.pend = Tail(s)])
      <4>1. A(p, "difunde").pend = s
        BY <1>0, Puestos
      <4>2. Ir(p, Libre) \/ Ir(p, [A(p, "difunde") EXCEPT !.pend = Tail(s)])
        BY <1>7, <4>1 DEF Guarda
      <4>3. ~Ir(p, Libre)
        BY <1>0, <2>5, Puestos DEF Carga, EnDifusion
      <4> QED
        BY <4>2, <4>3
    <3>2. proc'[p].pend = Tail(s)
      BY <1>0, <3>1, IrPend
    <3>3. PICK j \in 1..(Len(s) - 1) : s[j + 1] = k
      <4>1. Tail(s) \in Seq(Claves) /\ Tail(s) # <<>>
        BY <1>0, <2>5, <3>2, CargaForma
      <4>2. 1 \in 1..Len(Tail(s)) /\ Head(Tail(s)) = Tail(s)[1]
        BY <4>1, Cola
      <4>3. \/ Head(Tail(s)) = k
            \/ \E j \in 1..Len(Tail(s)) : Tail(s)[j] = k
        BY <2>5, <3>2 DEF Carga
      <4>5. PICK j \in 1..Len(Tail(s)) : Tail(s)[j] = k
        BY <4>2, <4>3
      <4>4. Len(Tail(s)) = Len(s) - 1 /\ Tail(s)[j] = s[j + 1]
        BY <2>1, <4>5, Cola
      <4> QED
        BY <4>4, <4>5
    <3>4. j + 1 \in 1..Len(s) /\ k # h
      <4>1. j + 1 \in 1..Len(s)
        BY <2>1
      <4>2. s[j + 1] = s[1] + (j + 1) - 1
        BY <2>1, <4>1 DEF Seguidos
      <4> QED
        BY <2>1, <2>2, <3>3, <4>1, <4>2
    <3>5. Carga(p, proc[p], k)
      BY <2>0, <3>3, <3>4 DEF Carga
    <3>6. Situacion(proc[p], k)
      BY <1>0, <3>5 DEF Una
    <3> QED
      BY <3>4, <3>5, <3>6 DEF Situacion, clave
  <2> QED
    BY <1>0, <1>2, <2>3, <2>4, <2>5, FrescaSituacion, UnaDe
<1> QED
  BY <1>4, <1>5, <1>6, <1>7, <1>8 DEF Sondea

\* The receiver: a key without its mark is in no hands, and has not gone out.
LEMMA UnaAtiende ==
  ASSUME IInv, NEW k \in Claves, Una(k), NEW p \in Peticiones, Atiende(p)
  PROVE  Una(k)'
<1> DEFINE h == clave(p)
<1>0. /\ p \in Procesos /\ Formas /\ Forma(p, proc[p]) /\ Forma(p, proc'[p])
      /\ \A q \in Procesos \ {p} : proc'[q] = proc[q]
      /\ plan' = plan /\ emitido' = emitido /\ hwm' = hwm /\ p \notin Corridas
  <2>1. p \in Procesos /\ Mueve(p)
    BY DEF Procesos, Mueve
  <2>2. plan' = plan /\ emitido' = emitido /\ hwm' = hwm
    BY DEF Atiende, Llega, Salta, Marca, Ejecuta, Revierte, Responde, canal, salida
  <2> QED
    BY <2>1, <2>2, MueveForma, ClavesTipo
<1>1. CASE k \in Posts
  <2>1. ~Carga(p, proc'[p], k)
    BY <1>0, <1>1, CargaForma
  <2> QED
    BY <1>0, <1>1, <2>1, ClavesTipo, UnaDe
<1> SUFFICES ASSUME k \notin Posts PROVE Una(k)'
  BY <1>1
<1>2. ASSUME ~Carga(p, proc'[p], k), k \in marcas => k \in marcas' PROVE Una(k)'
  <2>1. k \in Hub \cup Updates /\ (~Fresca(k) \/ \E q \in Procesos \ {p} : Carga(q, proc[q], k))
          => k \in marcas'
    BY <1>2 DEF Una
  <2> QED
    BY <1>0, <1>2, <2>1, UnaDe
<1>3. CASE \/ \E e \in Envios : Llega(p, e)
           \/ Salta(p) \/ Ejecuta(p) \/ Responde(p)
  <2>1. marcas' = marcas
    BY <1>3 DEF Llega, Salta, Ejecuta, Responde, entrada
  <2>2. proc'[p].en \in {"dedup", "responde", "libre"}
    <3>1. (\E e \in Envios : Llega(p, e)) => proc'[p].en = "dedup"
      BY <1>0, Puestos DEF Llega
    <3>2. Salta(p) \/ Ejecuta(p) \/ Responde(p)
            => proc'[p] = SigueMensaje(proc[p]) \/ proc'[p] = Libre
      BY <1>0, Puestos DEF Salta, Ejecuta, Responde
    <3> QED
      BY <1>0, <1>3, <3>1, <3>2, Puestos
  <2> QED
    BY <1>2, <2>1, <2>2 DEF Carga, EnDifusion
<1>4. CASE Marca(p)
  <2>1. /\ marcas' = marcas \cup {h}
        /\ proc'[p] = IF h \in marcas THEN SigueMensaje(proc[p]) ELSE A(p, "difunde")
    BY <1>0, <1>4, Puestos DEF Marca
  <2>2. CASE h \in marcas
    BY <1>0, <1>2, <2>1, <2>2, Puestos DEF Carga, EnDifusion
  <2>3. CASE h \notin marcas /\ k # h
    <3>1. proc'[p].pend = proc[p].pend
      BY <1>0, <2>1, <2>3, Puestos
    <3>2. ~Carga(p, proc'[p], k)
      BY <1>0, <2>3, <3>1, CargaForma DEF clave
    <3> QED
      BY <1>2, <2>1, <3>2
  <2>4. CASE h \notin marcas /\ k = h
    <3>1. k \in Hub \cup Updates /\ k \in marcas' /\ k \notin marcas
      BY <1>4, <2>1, <2>4, EnMano DEF Marca, Procesos
    <3>2. Fresca(k) /\ \A q \in Procesos : ~Carga(q, proc[q], k)
      BY <3>1 DEF Una
    <3> QED
      BY <1>0, <3>1, <3>2, FrescaSituacion, UnaDe
  <2> QED
    BY <2>2, <2>3, <2>4
<1>5. CASE Revierte(p)
  <2>1. proc'[p] = Libre /\ marcas \ {h} \subseteq marcas' /\ proc[p].en = "revierte"
    BY <1>0, <1>5, Puestos DEF Revierte
  <2>2. ~Carga(p, proc'[p], k)
    BY <2>1 DEF Carga, EnDifusion, Libre
  <2>3. CASE k # h
    BY <1>2, <2>1, <2>2, <2>3
  <2>4. CASE k = h
    <3>1. Carga(p, proc[p], k)
      BY <2>1, <2>4 DEF Carga, clave
    <3>2. Fresca(k) /\ \A q \in Procesos \ {p} : ~Carga(q, proc[q], k)
      <4>1. Situacion(proc[p], k)
        BY <1>0, <3>1 DEF Una
      <4>2. Fresca(k)
        BY <2>1, <4>1 DEF Situacion
      <4> QED
        BY <1>0, <3>1, <4>2 DEF Una
    <3> QED
      BY <1>0, <2>2, <3>2, UnaDe
  <2> QED
    BY <2>3, <2>4
<1> QED
  BY <1>3, <1>4, <1>5 DEF Atiende

\* What fails is repeated, except where nothing had been done.
LEMMA UnaTropieza ==
  ASSUME IInv, NEW k \in Claves, Una(k), NEW p \in Procesos, Tropieza(p), k \notin repetible'
  PROVE  Una(k)'
<1> DEFINE h == clave(p)
<1>0. /\ Formas /\ Forma(p, proc[p]) /\ Forma(p, proc'[p])
      /\ \A q \in Procesos \ {p} : proc'[q] = proc[q]
      /\ plan' = plan /\ emitido' = emitido /\ hwm' = hwm /\ marcas \subseteq marcas'
      /\ proc'[p].en \in {"libre", "difunde", "revierte"}
      /\ proc'[p].en \in {"difunde", "revierte"} => proc'[p].pend = proc[p].pend
      /\ p \in Corridas => proc'[p] = Libre
  <2>1. Mueve(p)
    BY DEF Mueve
  <2>2. plan' = plan /\ emitido' = emitido /\ hwm' = hwm /\ marcas \subseteq marcas'
    BY DEF Tropieza, GuardaFalla, MarcaFalla, DifundeFalla, CreaFalla, EncolaFalla, Muere,
       canal, salida, entrada
  <2>3. Ir(p, Libre) \/ Ir(p, Lanza(p)) \/ Ir(p, A(p, "difunde"))
    BY DEF Tropieza, GuardaFalla, MarcaFalla, SinConfirmar, DifundeFalla, CreaFalla, EncolaFalla, Muere
  <2>4. Lanza(p) = Libre \/ Lanza(p) = A(p, "revierte")
    BY DEF Lanza
  <2>5. Formas
    BY DEF IInv
  <2>6. proc'[p] = Libre \/ proc'[p] = A(p, "revierte") \/ proc'[p] = A(p, "difunde")
    BY <2>3, <2>4, <2>5, Puestos
  <2> QED
    BY <2>1, <2>2, <2>5, <2>6, MueveForma, Puestos, TropiezaCorrida
<1>1. ~DifundeFalla(p) => h \in repetible'
  BY DEF Tropieza, GuardaFalla, MarcaFalla, CreaFalla, EncolaFalla, Muere
<1>2. p \in Corridas => ~Carga(p, proc'[p], k)
  BY <1>0 DEF Carga, EnDifusion, Libre
<1>3. k \in Hub \cup Updates
        /\ (~Fresca(k) \/ \E q \in Procesos : Carga(q, proc[q], k)) => k \in marcas'
  BY <1>0 DEF Una
<1>4. CASE k # h
  <2>1. ~Carga(p, proc'[p], k)
    BY <1>0, <1>2, <1>4, CargaForma DEF Carga, EnDifusion, Procesos, clave
  <2>2. ~Tiene(proc[p], k)
    BY <1>4 DEF Tiene, clave
  <2> QED
    BY <1>0, <1>3, <2>1, <2>2, UnaDe
<1>5. CASE k = h
  <2>1. proc[p].en = "difunde"
    BY <1>1, <1>5 DEF DifundeFalla
  <2>2. Carga(p, proc[p], k)
    BY <1>5, <2>1 DEF Carga, EnDifusion, clave
  <2>3. Situacion(proc[p], k)
    BY <2>2 DEF Una
  <2>4. Fresca(k)
    BY <2>1, <2>3 DEF Situacion
  <2> QED
    BY <1>0, <1>3, <2>2, <2>4, FrescaSituacion, UnaDe
<1> QED
  BY <1>4, <1>5

\* BroadcastList: the lots it queues, or plans, are those of the key it has.
LEMMA UnaEmite ==
  ASSUME IInv, NEW k \in Claves, Una(k), NEW p \in Procesos, Emite(p)
  PROVE  Una(k)'
<1> DEFINE h == clave(p)
<1>0. /\ Formas /\ Forma(p, proc[p]) /\ Forma(p, proc'[p]) /\ TiposSalida /\ TiposSalida'
      /\ \A q \in Procesos \ {p} : proc'[q] = proc[q]
      /\ hwm' = hwm /\ marcas' = marcas
      /\ proc[p].en \in EnDifusion /\ h \in Claves
  <2>1. Mueve(p) /\ Formas /\ TiposSalida
    BY Partes DEF Mueve, IInv
  <2>2. hwm' = hwm /\ marcas' = marcas
    BY DEF Emite, DescartaVacio, Captura, CapturaSinLista, Registra, CreaPlan, EscribeLotes,
       EncolaLote, canal, entrada
  <2>3. proc[p].en \in EnDifusion
    BY EmiteEfecto
  <2>4. h \in Claves
    BY <2>3, EnMano DEF EnDifusion
  <2> QED
    BY <2>1, <2>2, <2>3, <2>4, MueveForma, EmiteSalida
<1>1. /\ proc'[p] = Vuelve(p) \/ (proc'[p].en \in Sale /\ proc'[p].pend = proc[p].pend)
      /\ p \in Corridas /\ proc'[p] = Vuelve(p) => proc'[p].en = "guarda" /\ proc'[p].pend = proc[p].pend
      /\ p \in Peticiones /\ proc'[p] = Vuelve(p) => proc'[p].en \in {"dedup", "responde"}
  BY <1>0, EmiteEfecto, VuelveForma, SigueForma
<1>2. Carga(p, proc'[p], k) => Carga(p, proc[p], k)
  BY <1>0, <1>1 DEF Carga, EnDifusion, Procesos
<1>3. Carga(p, proc'[p], k) => proc'[p].en \in Sale \cup {"guarda"} /\ proc'[p].pend = proc[p].pend
  BY <1>1 DEF Carga, EnDifusion, Procesos
<1>4. p \in Corridas /\ Tiene(proc[p], k) => Tiene(proc'[p], k)
  BY <1>1 DEF Tiene, Sale, EnDifusion
<1>5. k \in Hub \cup Updates
        /\ (~Fresca(k) \/ \E q \in Procesos : Carga(q, proc[q], k)) => k \in marcas'
  BY <1>0 DEF Una
<1>6. Carga(p, proc'[p], k) => Situacion(proc[p], k)
  BY <1>2 DEF Una
<1>7. ASSUME plan'[k].est = plan[k].est, plan'[k].next = plan[k].next, emitido'[k] = emitido[k],
             Carga(p, proc'[p], k) => Situacion(proc'[p], k)
      PROVE  Una(k)'
  BY <1>0, <1>2, <1>4, <1>5, <1>7, UnaDe
<1>8. CASE k # h
  <2>1. plan'[k] = plan[k]
    BY <1>8, EmitePlan
  <2>2. emitido'[k] = emitido[k]
    <3>1. CASE EncolaLote(p)
      <4>1. Suma(h, proc[p].i) /\ proc[p].i \in Indices(h)
        BY <3>1, EnMano DEF EncolaLote
      <4> QED
        BY <1>0, <1>8, <4>1, SumaTipo
    <3>2. CASE ~EncolaLote(p)
      BY <3>2 DEF Emite, DescartaVacio, Captura, CapturaSinLista, Registra, CreaPlan, EscribeLotes, salida
    <3> QED
      BY <3>1, <3>2
  <2>3. ASSUME Carga(p, proc'[p], k) PROVE Situacion(proc'[p], k)
    BY <1>6, <1>8, <2>3, FrescaSituacion DEF Situacion, clave
  <2> QED
    BY <1>7, <2>1, <2>2, <2>3
<1>9. CASE k = h
  <2>1. Carga(p, proc[p], k) /\ Situacion(proc[p], k)
    <3>1. Carga(p, proc[p], k)
      BY <1>0, <1>9 DEF Carga, clave
    <3> QED
      BY <3>1 DEF Una
  <2>2. proc'[p].en \in {"guarda", "lotes"} /\ proc'[p].pend = proc[p].pend => Situacion(proc'[p], k)
    BY <1>9 DEF Situacion, clave
  <2>3. CASE DescartaVacio(p) \/ Captura(p) \/ CapturaSinLista(p)
    <3>1. plan' = plan /\ emitido' = emitido /\ Ir(p, Vuelve(p))
      BY <2>3 DEF DescartaVacio, Captura, CapturaSinLista, salida
    <3>2. proc'[p] = Vuelve(p)
      BY <1>0, <3>1, Puestos
    <3>3. Vuelve(p).en \notin Sale
      BY <1>0, Puestos DEF Sale
    <3> QED
      BY <1>3, <1>7, <2>2, <3>1, <3>2, <3>3
  <2>4. CASE Registra(p)
    <3>1. plan' = plan /\ emitido' = emitido /\ proc[p].en = "difunde"
      BY <2>4 DEF Registra, Difunde, salida
    <3>2. Fresca(k)
      BY <2>1, <3>1 DEF Situacion
    <3> QED
      BY <1>7, <3>1, <3>2, FrescaSituacion
  <2>5. CASE EscribeLotes(p)
    <3>1. proc[p].en = "lotes" /\ emitido' = emitido /\ Ir(p, Vuelve(p))
          /\ plan' = [plan EXCEPT ![h] = [plan[h] EXCEPT !.escritos = plan[h].escritos \cup LotesDelPlan(h)]]
      BY <2>5 DEF EscribeLotes
    <3>2. plan'[h].est = plan[h].est /\ plan'[h].next = plan[h].next
      <4> DEFINE w == plan[h].escritos \cup LotesDelPlan(h)
                 n == [plan[h] EXCEPT !.escritos = w]
      <4>1. plan'[h] = n
        BY <1>0, <3>1 DEF TiposSalida
      <4>2. plan[h] \in Plan(h)
        BY <1>0 DEF TiposSalida
      <4> HIDE DEF w
      <4>3. n.est = plan[h].est /\ n.next = plan[h].next
        BY <4>2 DEF Plan
      <4> QED
        BY <4>1, <4>3
    <3>3. proc'[p] = Vuelve(p)
      BY <1>0, <3>1, Puestos
    <3>4. Vuelve(p).en \notin Sale
      BY <1>0, Puestos DEF Sale
    <3> QED
      BY <1>3, <1>7, <1>9, <2>2, <3>1, <3>2, <3>3, <3>4
  <2>6. CASE CreaPlan(p)
    <3>1. proc[p].en = "plan" /\ emitido' = emitido
      BY <2>6 DEF CreaPlan
    <3>2. Fresca(k)
      BY <2>1, <3>1 DEF Situacion
    <3>3. PICK s : plan' = [plan EXCEPT ![h] = NuevoPlan(h, s)]
      BY <2>6 DEF CreaPlan
    <3>4. plan'[k] = NuevoPlan(h, s)
      BY <1>0, <1>9, <3>3 DEF TiposSalida
    <3>5. plan'[k].est = "pending" /\ plan'[k].next = 0
      BY <3>4 DEF NuevoPlan
    <3>6. proc'[p].en \notin {"difunde", "plan", "revierte", "encola"}
      BY <2>6, <1>0, EmiteEfecto, Puestos, <3>1 DEF EncolaLote, Registra, Difunde
    <3>7. \A q \in Procesos : Carga(q, proc'[q], k) => q = p
      BY <1>0, <2>1 DEF Una
    <3>8. ASSUME Carga(p, proc'[p], k) PROVE Situacion(proc[p], k)'
      <4>1. Head(proc'[p].pend) = k
        BY <1>3, <1>9, <3>8 DEF clave
      <4> QED
        BY <3>6, <4>1 DEF Situacion
    <3>9. \A i \in Indices(k) : emitido'[k][i] = 0
      BY <3>1, <3>2 DEF Fresca
    <3>10. k \in Hub \cup Updates => k \in marcas'
      BY <1>5, <2>1
    <3>11. k \in Posts => \E q \in Corridas : Tiene(proc'[q], k)
      <4>1. Tiene(proc[p], k)
        BY <1>0, <1>9 DEF Tiene, clave
      <4>2. k \in Posts => p \in Corridas
        BY <2>1, CargaDe DEF Procesos
      <4> QED
        BY <1>4, <4>1, <4>2
    <3>12. \A q \in Procesos : Carga(q, proc'[q], k) => Situacion(proc[q], k)'
      BY <3>7, <3>8 DEF Situacion
    <3> QED
      BY <3>7, <3>9, <3>10, <3>11, <3>12 DEF Una, Carga, Tiene
  <2>7. CASE EncolaLote(p)
    <3> DEFINE i == proc[p].i
    <3>1. proc[p].en = "encola" /\ plan' = plan /\ Suma(h, i)
      BY <2>7 DEF EncolaLote
    <3>2. plan[k].est = "no" /\ \A j \in Indices(k) : j >= i => emitido[k][j] = 0
      BY <1>9, <2>1, <3>1 DEF Situacion, clave
    <3>3. i \in Indices(k) /\ i \in Nat
      BY <1>9, <3>1, EnMano
    <3>4. /\ \A j \in Indices(k) \ {i} : emitido'[k][j] = emitido[k][j]
          /\ emitido'[k][i] = 1 /\ emitido'[k] \in [Indices(k) -> 0..2]
      <4>1. emitido[k][i] = 0
        BY <3>2, <3>3
      <4> QED
        BY <1>0, <1>9, <3>1, <3>3, <4>1, SumaTipo
    <3>5. \A j \in Indices(k) : emitido'[k][j] <= 1
      BY <3>4 DEF Una
    <3>6. plan'[k].est = "no"
      BY <3>1, <3>2
    <3>7. \A q \in Procesos : Carga(q, proc'[q], k) => q = p
      BY <1>0, <2>1 DEF Una
    <3>8. ASSUME Carga(p, proc'[p], k) PROVE Situacion(proc[p], k)'
      <4>1. Head(proc'[p].pend) = k
        BY <1>3, <1>9, <3>8 DEF clave
      <4>2. proc'[p] = Vuelve(p) \/ (proc'[p].en = "encola" /\ proc'[p].i = i + 1)
        BY <2>7, <3>1, EmiteEfecto DEF Registra, Difunde, CreaPlan
      <4>3. CASE proc'[p] = Vuelve(p)
        BY <1>0, <4>1, <4>3, Puestos DEF Situacion
      <4>4. CASE proc'[p].en = "encola" /\ proc'[p].i = i + 1
        <5>1. \A j \in Indices(k) : j >= i + 1 => emitido'[k][j] = 0
          BY <3>2, <3>3, <3>4 DEF Indices
        <5> QED
          BY <3>6, <4>1, <4>4, <5>1 DEF Situacion
      <4> QED
        BY <4>2, <4>3, <4>4
    <3>9. k \in Hub \cup Updates => k \in marcas'
      BY <1>5, <2>1
    <3>10. k \in Posts => \E q \in Corridas : Tiene(proc'[q], k)
      <4>1. Tiene(proc[p], k)
        BY <1>0, <1>9 DEF Tiene, clave
      <4>2. k \in Posts => p \in Corridas
        BY <2>1, CargaDe DEF Procesos
      <4> QED
        BY <1>4, <4>1, <4>2
    <3>11. \A q \in Procesos : Carga(q, proc'[q], k) => Situacion(proc[q], k)'
      BY <3>7, <3>8 DEF Situacion
    <3> QED
      BY <3>5, <3>6, <3>7, <3>9, <3>10, <3>11 DEF Una, Carga, Tiene
  <2> QED
    BY <2>3, <2>4, <2>5, <2>6, <2>7 DEF Emite
<1> QED
  BY <1>8, <1>9

\* The dispatcher sends the next lot of a plan, which it had not sent.
LEMMA UnaDespacha ==
  ASSUME IInv, NEW k \in Claves, Una(k), NEW x \in Claves, Despacha(x)
  PROVE  Una(k)'
<1>0. TiposSalida /\ UNCHANGED <<proc, hwm, marcas>>
  BY Partes DEF IInv, Despacha, canal, entrada
<1>1. CASE k # x
  <2>1. plan'[k] = plan[k]
    BY <1>1, DespachaSalida
  <2>2. emitido'[k] = emitido[k]
    <3>1. plan[x].next \in Indices(x)
      BY DespachaSalida
    <3>2. Suma(x, plan[x].next) \/ emitido' = emitido
      BY DEF Despacha
    <3> QED
      BY <1>0, <1>1, <3>1, <3>2, SumaTipo
  <2> QED
    BY <1>0, <2>1, <2>2 DEF Una, Situacion, Fresca, Carga, Tiene
<1>2. CASE k = x
  <2> DEFINE n == plan[k].next
  <2>1. /\ plan[k].est = "pending" /\ n \in Indices(k) /\ n \in Nat
        /\ plan'[k].est # "no" /\ plan'[k].next = n + 1
    BY <1>2, DespachaSalida, ClavesTipo
  <2>2. /\ \A j \in Indices(k) \ {n} : emitido'[k][j] = emitido[k][j]
        /\ emitido'[k][n] \in {0, 1}
    <3>1. emitido[k][n] = 0
      BY <2>1 DEF Una
    <3>2. CASE n \in plan[k].escritos
      BY <1>0, <1>2, <2>1, <3>1, <3>2, SumaTipo DEF Despacha
    <3>3. CASE n \notin plan[k].escritos
      BY <1>2, <3>1, <3>3 DEF Despacha
    <3> QED
      BY <3>2, <3>3
  <2>3. \A j \in Indices(k) : emitido'[k][j] <= 1
    BY <2>2 DEF Una
  <2>4. \A j \in Indices(k) : j >= n + 1 => emitido'[k][j] = 0
    BY <2>1, <2>2 DEF Una, Indices
  <2>5. ~Fresca(k)
    BY <2>1 DEF Fresca
  <2>6. \A q \in Procesos : Carga(q, proc[q], k) => Situacion(proc[q], k)'
    BY <1>0, <2>1, <2>5 DEF Una, Situacion
  <2> QED
    BY <1>0, <2>1, <2>3, <2>4, <2>5, <2>6 DEF Una, Carga, Tiene
<1> QED
  BY <1>1, <1>2

\* What has met a weak spot is not forgotten.
LEMMA RepetibleCrece == [Next]_vars => repetible \subseteq repetible'
BY DEF Next, Sondea, Corre, Primera, Siembra, Mira, Guarda, Atiende, Llega, Salta, Marca, Ejecuta, Revierte,
   Responde, Emite, DescartaVacio, Captura, CapturaSinLista, Registra, CreaPlan, EscribeLotes, EncolaLote,
   Tropieza, GuardaFalla, MarcaFalla, DifundeFalla, CreaFalla, EncolaFalla, Muere, Despacha,
   Publica, CambiaConfig, vars, riesgos

\* Every step keeps what is said of the keys that met no weak spot.
LEMMA UInvPaso == IInv /\ UInv /\ [Next]_vars => UInv'
<1> SUFFICES ASSUME IInv, UInv, [Next]_vars, NEW k \in Claves, k \notin repetible'
             PROVE  Una(k)'
  BY DEF UInv, Una, Fresca, Situacion, Carga, Tiene
<1>0. repetible \subseteq repetible'
  BY RepetibleCrece
<1>1. Una(k)
  BY <1>0 DEF UInv
<1>2. UNCHANGED vars \/ Publica \/ CambiaConfig => UNCHANGED <<proc, hwm, marcas, plan, emitido>>
  BY DEF vars, Publica, CambiaConfig, canal, entrada, salida
<1>3. UNCHANGED <<proc, hwm, marcas, plan, emitido>> => Una(k)'
  BY <1>1 DEF Una, Situacion, Fresca, Carga, Tiene
<1> QED
  BY <1>1, <1>2, <1>3, UnaSondea, UnaAtiende, UnaTropieza, UnaEmite, UnaDespacha, Casos

\* Without overlapping runs, deaths, exceptions or a dedup table that fails, no lot of a
\* key reaches its recipients twice: one invocation at most has the key in hand, and the
\* mark of the channel or of the dedup table tells the others that it has been taken.
THEOREM NadaDosVeces == Spec => []UnaVez
<1>1. Init => UInv
  <2> SUFFICES ASSUME Init, NEW k \in Claves PROVE Una(k)
    BY DEF UInv
  <2>1. \A p \in Procesos : proc[p] = Libre
    BY DEF Init, Procesos
  <2>2. \A p \in Procesos : ~Carga(p, proc[p], k)
    BY <2>1 DEF Carga, EnDifusion, Libre
  <2>3. Fresca(k)
    BY DEF Init, Fresca, Ninguno
  <2> QED
    BY <2>2, <2>3 DEF Una, Fresca
<1>2. UInv => UnaVez
  BY DEF UInv, UnaVez, Una
<1> QED
  BY <1>1, <1>2, Tipos, UInvPaso, PTL DEF Spec
-----------------------------------------------------------------------------
(* A plan and the writing of its lots.                                     *)

Escribiendo(k) == \E p \in Procesos : proc[p].en = "lotes" /\ Head(proc[p].pend) = k
Completo(k) == plan[k].est = "pending" => plan[k].escritos = Indices(k) \/ Escribiendo(k)
HInv == \A k \in Claves \ repetible : Completo(k)

\* A step of p that is not writing the lots of k, and leaves its plan alone.
LEMMA CompletoDe ==
  ASSUME NEW k, Completo(k), NEW p \in Procesos,
         \A q \in Procesos \ {p} : proc'[q] = proc[q],
         ~(proc[p].en = "lotes" /\ Head(proc[p].pend) = k),
         plan'[k] = plan[k]
  PROVE  Completo(k)'
<1>1. Escribiendo(k) => Escribiendo(k)'
  BY DEF Escribiendo
<1> QED
  BY <1>1 DEF Completo

\* BroadcastList writes a plan whole, or goes on writing it.
LEMMA EmiteCompleto ==
  ASSUME IInv, NEW k \in Claves, Completo(k), NEW p \in Procesos, Emite(p)
  PROVE  Completo(k)'
<1>0. TiposSalida /\ Formas /\ \A q \in Procesos \ {p} : proc'[q] = proc[q]
  BY Partes, MueveUno DEF IInv, Mueve
<1>1. CASE CreaPlan(p) /\ k = clave(p)
  <2>1. PICK s \in SUBSET Indices(k) :
          /\ plan' = [plan EXCEPT ![k] = NuevoPlan(k, s)]
          /\ Ir(p, IF s = Indices(k) THEN Vuelve(p) ELSE A(p, "lotes"))
    BY <1>1 DEF CreaPlan, LotesDelPlan
  <2>2. plan'[k] = NuevoPlan(k, s)
    BY <1>0, <2>1 DEF TiposSalida
  <2>3. plan'[k].escritos = plan[k].escritos \cup s
    BY <2>2 DEF NuevoPlan
  <2>4. plan[k].escritos \subseteq Indices(k)
    BY <1>0 DEF TiposSalida, Plan
  <2>5. CASE s = Indices(k)
    BY <2>3, <2>4, <2>5 DEF Completo
  <2>6. CASE s # Indices(k)
    <3>1. Ir(p, A(p, "lotes"))
      BY <2>1, <2>6
    <3>2. proc'[p] = A(p, "lotes")
      BY <1>0, <3>1, Puestos
    <3>3. proc'[p].en = "lotes" /\ proc'[p].pend = proc[p].pend
      BY <1>0, <3>2, Puestos
    <3> QED
      BY <1>1, <3>3 DEF Completo, Escribiendo, clave
  <2> QED
    BY <2>5, <2>6
<1>2. CASE EscribeLotes(p) /\ k = clave(p)
  <2> DEFINE w == plan[k].escritos \cup Indices(k)
             n == [plan[k] EXCEPT !.escritos = w]
  <2>1. plan' = [plan EXCEPT ![k] = n]
    BY <1>2 DEF EscribeLotes, LotesDelPlan
  <2>2. plan'[k] = n /\ plan[k] \in Plan(k)
    BY <1>0, <2>1 DEF TiposSalida
  <2>3. w = Indices(k)
    BY <2>2 DEF Plan
  <2> HIDE DEF w
  <2>4. n.escritos = w
    BY <2>2 DEF Plan
  <2> QED
    BY <2>2, <2>3, <2>4 DEF Completo
<1>3. CASE k # clave(p)
  BY <1>0, <1>3, EmitePlan, CompletoDe DEF clave
<1>4. CASE ~CreaPlan(p) /\ ~EscribeLotes(p)
  <2>1. plan' = plan /\ proc[p].en # "lotes"
    BY <1>4 DEF Emite, DescartaVacio, Captura, CapturaSinLista, Registra, EncolaLote, Difunde, salida
  <2> QED
    BY <1>0, <2>1, CompletoDe
<1> QED
  BY <1>1, <1>2, <1>3, <1>4

\* Every step keeps the plans whole, or being written.
LEMMA HInvPaso == IInv /\ HInv /\ [Next]_vars => HInv'
<1> SUFFICES ASSUME IInv, HInv, [Next]_vars, NEW k \in Claves, k \notin repetible'
             PROVE  Completo(k)'
  BY DEF HInv, Completo, Escribiendo
<1>0. repetible \subseteq repetible'
  BY RepetibleCrece
<1>1. Completo(k)
  BY <1>0 DEF HInv
<1>2. UNCHANGED vars \/ Publica \/ CambiaConfig => UNCHANGED <<proc, plan>>
  BY DEF vars, Publica, CambiaConfig, salida
<1>3. UNCHANGED <<proc, plan>> => Completo(k)'
  BY <1>1 DEF Completo, Escribiendo
<1>4. ASSUME NEW p \in Procesos, \/ p \in Corridas /\ Sondea(p)
                                 \/ p \in Peticiones /\ Atiende(p)
                                 \/ Tropieza(p)
      PROVE  Completo(k)'
  <2>1. Mueve(p) /\ \A q \in Procesos \ {p} : proc'[q] = proc[q]
    BY <1>4, MueveUno DEF Mueve
  <2>2. plan' = plan
    BY <1>4 DEF Sondea, Corre, Primera, Siembra, Mira, Guarda, Atiende, Llega, Salta, Marca, Ejecuta, Revierte,
       Responde, Tropieza, GuardaFalla, MarcaFalla, DifundeFalla, CreaFalla, EncolaFalla, Muere, salida
  <2>3. Tropieza(p) /\ proc[p].en = "lotes" => clave(p) \in repetible'
    BY DEF Tropieza, GuardaFalla, MarcaFalla, DifundeFalla, CreaFalla, EncolaFalla, Muere
  <2>4. Sondea(p) \/ Atiende(p) => proc[p].en # "lotes"
    BY DEF Sondea, Corre, Primera, Siembra, Mira, Guarda, Atiende, Llega, Salta, Marca, Ejecuta, Revierte, Responde
  <2> QED
    BY <1>1, <1>4, <2>1, <2>2, <2>3, <2>4, CompletoDe DEF clave
<1>5. ASSUME NEW x \in Claves, Despacha(x) PROVE Completo(k)'
  <2>1. UNCHANGED proc
    BY <1>5 DEF Despacha
  <2>2. CASE x # k
    BY <1>1, <1>5, <2>1, <2>2, DespachaSalida DEF Completo, Escribiendo
  <2>3. CASE x = k
    BY <1>1, <1>5, <2>1, <2>3, DespachaSalida DEF Completo, Escribiendo
  <2> QED
    BY <2>2, <2>3
<1> QED
  BY <1>1, <1>2, <1>3, <1>4, <1>5, EmiteCompleto, Casos DEF Procesos

\* Who moves the index of a plan on: the dispatcher.
LEMMA Avanza ==
  ASSUME IInv, [Next]_vars, NEW k \in Claves, plan'[k].next = plan[k].next + 1
  PROVE  Despacha(k)
<1>0. TiposSalida /\ plan[k] \in Plan(k) /\ plan[k].next \in Nat
  BY Partes, ClavesTipo DEF IInv, TiposSalida, Plan
<1>1. plan'[k] # plan[k]
  BY <1>0
<1>2. ~(UNCHANGED vars \/ Publica \/ CambiaConfig)
  BY <1>1 DEF vars, Publica, CambiaConfig, salida
<1>3. ASSUME NEW p, Sondea(p) \/ Atiende(p) \/ Tropieza(p) PROVE FALSE
  BY <1>1, <1>3 DEF Sondea, Corre, Primera, Siembra, Mira, Guarda, Atiende, Llega, Salta, Marca, Ejecuta, Revierte,
     Responde, Tropieza, GuardaFalla, MarcaFalla, DifundeFalla, CreaFalla, EncolaFalla, Muere, salida
<1>4. ASSUME NEW p \in Procesos, Emite(p) PROVE FALSE
  <2>1. clave(p) = k /\ proc[p].en \in {"plan", "lotes"}
    BY <1>1, <1>4, EmitePlan
  <2>2. CASE CreaPlan(p)
    <3>1. PICK s : plan' = [plan EXCEPT ![k] = NuevoPlan(k, s)]
      BY <2>1, <2>2 DEF CreaPlan
    <3>2. plan'[k] = NuevoPlan(k, s)
      BY <1>0, <3>1 DEF TiposSalida
    <3>3. plan'[k].next = 0
      BY <3>2 DEF NuevoPlan
    <3> QED
      BY <1>0, <3>3
  <2>3. CASE EscribeLotes(p)
    <3> DEFINE w == plan[k].escritos \cup LotesDelPlan(k)
               n == [plan[k] EXCEPT !.escritos = w]
    <3>1. plan' = [plan EXCEPT ![k] = n]
      BY <2>1, <2>3 DEF EscribeLotes
    <3>2. plan'[k] = n
      BY <1>0, <3>1 DEF TiposSalida
    <3> HIDE DEF w
    <3>3. n.next = plan[k].next
      BY <1>0 DEF Plan
    <3> QED
      BY <1>0, <3>2, <3>3
  <2> QED
    BY <1>4, <2>1, <2>2, <2>3 DEF Emite, DescartaVacio, Captura, CapturaSinLista, Registra, Difunde, EncolaLote
<1>5. ASSUME NEW x \in Claves, Despacha(x) PROVE x = k
  BY <1>1, <1>5, DespachaSalida
<1> QED
  BY <1>2, <1>3, <1>4, <1>5, Casos

\* The dispatcher claims a lot without its recipients only while the writing of the plan
\* is going on, or after it was cut short: the item of the plan is seen before its lots.
THEOREM HuecosSoloAMedias == Spec => HuecoSoloAMedias
<1>1. Init => HInv
  BY DEF Init, HInv, Completo, Ninguno
<1>2. IInv /\ HInv /\ [Next]_vars =>
        [\A k \in Claves :
           plan'[k].next = plan[k].next + 1 /\ plan[k].next \notin plan[k].escritos =>
             \/ k \in repetible
             \/ \E p \in Corridas \cup Peticiones : proc[p].en = "lotes" /\ clave(p) = k]_vars
  <2> SUFFICES ASSUME IInv, HInv, [Next]_vars, NEW k \in Claves,
                      plan'[k].next = plan[k].next + 1, plan[k].next \notin plan[k].escritos,
                      k \notin repetible
               PROVE  \E p \in Corridas \cup Peticiones : proc[p].en = "lotes" /\ clave(p) = k
    OBVIOUS
  <2>1. plan[k].est = "pending" /\ plan[k].next \in Indices(k)
    BY Avanza, DespachaSalida
  <2>2. Completo(k)
    BY DEF HInv
  <2> QED
    BY <2>1, <2>2 DEF Completo, Escribiendo, Procesos, clave
<1> QED
  BY <1>1, <1>2, Tipos, HInvPaso, PTL DEF Spec, HuecoSoloAMedias
-----------------------------------------------------------------------------
(* The price of a message.                                                 *)
M == INSTANCE Mensaje

\* Rounded up: not below the quotient, and less than one above it.
LEMMA TechoCubre ==
  ASSUME NEW a \in Nat
  PROVE  /\ M!Techo(a, 10000000) \in Nat
         /\ a <= 10000000 * M!Techo(a, 10000000)
         /\ 10000000 * M!Techo(a, 10000000) < a + 10000000
BY DEF M!Techo

\* The marked price is a whole number of thousands, never below the exact one, less than a
\* thousand above it, and a dearer article never ends up cheaper: _escalar, which computes
\* with Decimal and rounds up, whatever the price and whatever the percentage, in hundredths
\* and from -100% up (the panel takes negative ones too).
THEOREM PrecioAlAlza ==
  ASSUME NEW v \in Nat, NEW p \in Int, 0 <= 10000 + p
  PROVE  LET nuevo == M!_escalar(v, p)
         IN  /\ nuevo \in Nat /\ nuevo % 1000 = 0
             /\ v * (10000 + p) <= 10000 * nuevo
             /\ 10000 * nuevo < v * (10000 + p) + 10000000
             /\ \A w \in Nat : v <= w => nuevo <= M!_escalar(w, p)
<1>. DEFINE a(x) == x * (10000 + p)  t(x) == M!Techo(a(x), 10000000)
<1>1. \A x \in Nat : a(x) \in Nat
  OBVIOUS
<1>2. \A x \in Nat : M!_escalar(x, p) = 1000 * t(x)
  BY DEF M!_escalar
<1>3. \A x \in Nat : t(x) \in Nat /\ a(x) <= 10000000 * t(x) /\ 10000000 * t(x) < a(x) + 10000000
  BY <1>1, TechoCubre
<1>4. \A w \in Nat : v <= w => a(v) <= a(w)
  <2>. SUFFICES ASSUME NEW w \in Nat, v <= w
                PROVE  a(v) <= a(w)
    OBVIOUS
  <2>1. w - v \in Nat /\ a(w) = a(v) + (w - v) * (10000 + p) /\ (w - v) * (10000 + p) \in Nat
    OBVIOUS
  <2>. QED  BY <1>1, <2>1
<1>. HIDE DEF a, t
<1>5. \A w \in Nat : v <= w => t(v) <= t(w)
  BY <1>1, <1>3, <1>4
<1>6. a(v) = v * (10000 + p)
  BY DEF a
<1>7. ASSUME NEW n \in Nat
      PROVE  1000 * n \in Nat /\ (1000 * n) % 1000 = 0 /\ 10000 * (1000 * n) = 10000000 * n
  OBVIOUS
<1>. QED  BY <1>1, <1>2, <1>3, <1>5, <1>6, <1>7
=============================================================================
