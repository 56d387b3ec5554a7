---------------------------- MODULE PlanContract ----------------------------
(***************************************************************************)
(* What the plan store and the dispatcher promise of a plan, with no tick, *)
(* snapshot, message or clock in it: lots are claimed in order from a plan *)
(* that is alive, a claimed lot is handed over at most once or dropped for *)
(* good, and a plan that was canceled or deleted yields no further lot.    *)
(***************************************************************************)
EXTENDS Naturals

CONSTANTS Planes, Canal

VARIABLES
  estado,    \* life of each plan
  cursor,    \* next lot of each plan and channel
  enMano,    \* lots <<plan, channel, index>> claimed and not yet handed over
  emitido    \* lots handed over

cvars == <<estado, cursor, enMano, emitido>>

CInit ==
  /\ estado = [p \in Planes |-> "nuevo"]
  /\ cursor = [p \in Planes |-> [c \in Canal |-> 0]]
  /\ enMano = {} /\ emitido = {}

Nace(p) ==
  /\ estado[p] = "nuevo"
  /\ estado' = [estado EXCEPT ![p] = "vivo"]
  /\ cursor' = [cursor EXCEPT ![p] = [c \in Canal |-> 0]]
  /\ UNCHANGED <<enMano, emitido>>

\* The next lot, and one that nobody holds and nobody was given.
Toma(p, c) ==
  LET lote == <<p, c, cursor[p][c]>>
  IN  /\ estado[p] = "vivo"
      /\ lote \notin enMano \cup emitido
      /\ cursor' = [cursor EXCEPT ![p][c] = @ + 1]
      /\ enMano' = enMano \cup {lote}
      /\ UNCHANGED <<estado, emitido>>

EntregaLote(l) ==
  /\ l \in enMano \ emitido
  /\ enMano' = enMano \ {l}
  /\ emitido' = emitido \cup {l}
  /\ UNCHANGED <<estado, cursor>>

\* The claim is lost: the lot will never be handed over.
Pierde(l) ==
  /\ l \in enMano
  /\ enMano' = enMano \ {l}
  /\ UNCHANGED <<estado, cursor, emitido>>

Cancela(p) ==
  /\ estado[p] \in {"vivo", "borrado"}
  /\ estado' = [estado EXCEPT ![p] = "cancelado"]
  /\ UNCHANGED <<cursor, enMano, emitido>>

Borra(p) ==
  /\ estado[p] # "nuevo"
  /\ estado' = [estado EXCEPT ![p] = "borrado"]
  /\ cursor' = [cursor EXCEPT ![p] = [c \in Canal |-> 0]]
  /\ UNCHANGED <<enMano, emitido>>

CNext ==
  \/ \E p \in Planes : Nace(p) \/ Cancela(p) \/ Borra(p)
  \/ \E p \in Planes, c \in Canal : Toma(p, c)
  \/ \E l \in enMano : EntregaLote(l) \/ Pierde(l)

CSpec == CInit /\ [][CNext]_cvars
=============================================================================
