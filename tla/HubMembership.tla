--------------------------- MODULE HubMembership ---------------------------
(***************************************************************************)
(* What net.loop and the frontend's reconnect loop promise together: the   *)
(* bot keeps trying to be a member of its hub, becomes one only if the     *)
(* login is possible at all, and gives up only if it is not.               *)
(***************************************************************************)
VARIABLES
    acceptable,   \* the hub and the settings allow the login: never changes
    phase         \* "out", "joining", "member" or "refused"

vars == <<acceptable, phase>>

Init == acceptable \in BOOLEAN /\ phase = "out"

Becomes(new) == phase' = new /\ UNCHANGED acceptable

Join   == phase = "out" /\ Becomes("joining")
Admit  == phase = "joining" /\ acceptable /\ Becomes("member")
Drop   == phase \in {"joining", "member"} /\ Becomes("out")
Refuse == phase = "joining" /\ ~acceptable /\ Becomes("refused")

Next == Join \/ Admit \/ Drop \/ Refuse

Spec == Init /\ [][Next]_vars
=============================================================================
