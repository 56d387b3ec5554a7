--------------------------------- MODULE Panel ---------------------------------
(***************************************************************************)
(* The panel: its users, the account it sends with and the sendings it     *)
(* lists and deletes. The three keep different items and no request works  *)
(* on two of them, so that a behaviour has the requests of one front; only *)
(* the check of the session, which changes nothing but _AUTH, comes before *)
(* all of them, and PanelAuth has it.                                      *)
(***************************************************************************)
EXTENDS BroadcastJob, PanelAuth, PanelSession

VARIABLE frente   \* whose requests these are; it does not change

vars == <<frente, varsJobs, varsAuth, varsSesion>>
Frentes == {"broadcasts", "users", "telethon"}

TypeOK == frente \in Frentes /\ JobsTypeOK /\ AuthTypeOK /\ SesionTypeOK

Init ==
  /\ frente \in Frentes /\ InitJobs /\ InitAuth /\ InitSesion
  \* the bounds of the other fronts, and the environment's session, do not matter
  /\ frente # "broadcasts" => cupo = CHOOSE c \in CasosJobs : TRUE
  /\ frente # "users" => quedan = CHOOSE c \in CasosAuth : TRUE
  /\ frente # "telethon" => margen = (CHOOSE c \in CasosSesion : TRUE) /\ entorno = SinSesion

EnSesion(A) == frente = "telethon" /\ A /\ UNCHANGED <<frente, varsJobs, varsAuth>>

Next ==
  \/ frente = "broadcasts" /\ NextJobs /\ UNCHANGED <<frente, varsAuth, varsSesion>>
  \/ frente = "users" /\ NextAuth /\ UNCHANGED <<frente, varsJobs, varsSesion>>
  \/ EnSesion(NextSesion)

Spec == Init /\ [][Next]_vars

\* EventBridge starts the poller every few minutes, whatever its last run did, and a TTL
\* runs out. Nobody has to use the panel, and what fails does not fail for ever.
FairSpec ==
  /\ Spec
  /\ WF_vars(EnSesion(Poller /\ UNCHANGED entorno))
  /\ WF_vars(EnSesion(CaducanContactos /\ UNCHANGED entorno))
=============================================================================
