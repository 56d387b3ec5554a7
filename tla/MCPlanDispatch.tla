--------------------------- MODULE MCPlanDispatch ---------------------------
(* Small instances of PlanDispatch. Lots hold two recipients; TgTotal 3 gives *)
(* a full lot and a shorter last one.                                       *)
EXTENDS PlanDispatch, TLC

CONSTANTS t1, t2

UnPlan == {1}
DosPlanes == {1, 2}
Ninguno == {}
SoloPrimero == {1}
SoloSegundo == {2}
UnTick == {t1}
DosTicks == {t1, t2}
SimetriaTicks == Permutations(DosTicks)

Tg3 == [p \in Planes |-> 3]
TgDecrece == [p \in Planes |-> IF p = 1 THEN 3 ELSE 0]
Tg5 == [p \in Planes |-> 5]
Tg2 == [p \in Planes |-> 2]
WaCeroUno == [p \in Planes |-> {0, 1}]
WaUno == [p \in Planes |-> {1}]
=============================================================================
