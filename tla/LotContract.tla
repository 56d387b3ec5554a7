----------------------------- MODULE LotContract -----------------------------
(***************************************************************************)
(* What the dispatcher may assume of a lot it has handed over to Telegram: *)
(* the worker takes it or discards it; a lot it took ends up counted or    *)
(* lost; counting it adds all its recipients to the job, or nothing when   *)
(* the update fails; a counted lot can only be counted again; and what was *)
(* lost or discarded can come back (a redrive, a spurious redelivery).     *)
(* These are the steps PlanDispatch gives to the other side of the queue.  *)
(***************************************************************************)
EXTENDS Naturals

CONSTANTS Lotes, Planes, PlanDe, Dests

VARIABLES
  est,     \* life of each lot
  hecho    \* recipients counted in the job of each broadcast

lvars == <<est, hecho>>

LInit ==
  /\ est = [l \in Lotes |-> "cola"]
  /\ hecho = [p \in Planes |-> 0]

Toma(l) ==
  /\ est[l] = "cola"
  /\ est' = [est EXCEPT ![l] = "enviando"]
  /\ UNCHANGED hecho

Descarta(l) ==
  /\ est[l] = "cola"
  /\ est' = [est EXCEPT ![l] = "descartado"]
  /\ UNCHANGED hecho

\* All its recipients, or nothing.
Suma(l) ==
  \/ hecho' = [hecho EXCEPT ![PlanDe[l]] = @ + Dests[l]]
  \/ UNCHANGED hecho
Cuenta(l) ==
  /\ est[l] \in {"enviando", "entregado"}
  /\ est' = [est EXCEPT ![l] = "entregado"]
  /\ Suma(l)

\* One lot, or all those of a queue that is purged; a redrive brings back several.
Pierde(S) ==
  /\ \A l \in S : est[l] \in {"cola", "enviando"}
  /\ est' = [l \in Lotes |-> IF l \in S THEN "perdido" ELSE est[l]]
  /\ UNCHANGED hecho
Vuelve(S) ==
  /\ \A l \in S : est[l] \in {"perdido", "descartado"}
  /\ \E vida \in [S -> {"cola", "enviando"}] :
       est' = [l \in Lotes |-> IF l \in S THEN vida[l] ELSE est[l]]
  /\ UNCHANGED hecho

BorraTrabajo(p) ==
  /\ hecho' = [hecho EXCEPT ![p] = 0]
  /\ UNCHANGED est

LNext ==
  \/ \E l \in Lotes : Toma(l) \/ Descarta(l) \/ Cuenta(l)
  \/ \E S \in SUBSET Lotes : Pierde(S) \/ Vuelve(S)
  \/ \E p \in Planes : BorraTrabajo(p)

LSpec == LInit /\ [][LNext]_lvars
=============================================================================
