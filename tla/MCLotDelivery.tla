---------------------------- MODULE MCLotDelivery ----------------------------
(* Small instances of LotDelivery: an automatic broadcast, with a lot of two *)
(* recipients, and a manual one, with a lot of one recipient and a photo.   *)
EXTENDS LotDelivery

CONSTANTS w1, a1, m1, auto, manu

UnWorker == {w1}
DosLotes == {a1, m1}
DosPlanes == {auto, manu}
CadaUno == [l \in DosLotes |-> IF l = a1 THEN auto ELSE manu]
SoloManu == {manu}
Ninguno == {}
Tamanos == [l \in DosLotes |-> IF l = a1 THEN 2 ELSE 1]
LoteFoto == {m1}
=============================================================================
