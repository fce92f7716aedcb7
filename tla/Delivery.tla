------------------------------ MODULE Delivery ------------------------------
(***************************************************************************)
(* What the announcer and the connections under it promise together about  *)
(* each release: it is handed over at most once, then the hub reads it at  *)
(* most once, or it is lost with the connection, and what is lost is never *)
(* handed over again nor read later.                                       *)
(***************************************************************************)
CONSTANT Release

VARIABLE fate   \* of each release: "pending", "onWire", "read" or "lost"

Fates == [Release -> {"pending", "onWire", "read", "lost"}]

OnWire == {r \in Release : fate[r] = "onWire"}

Init == fate = [r \in Release |-> "pending"]

Turns(r, new) == fate' = [fate EXCEPT ![r] = new]

\* On a connection that is broken already, the release is lost at once.
HandOver ==
    \E r \in Release, new \in {"onWire", "lost"} : fate[r] = "pending" /\ Turns(r, new)

Read == \E r \in OnWire : Turns(r, "read")

\* A connection ends: all that was on it is read, or lost.
End ==
    \E arrived \in SUBSET OnWire :
        fate' = [r \in Release |-> IF r \in arrived    THEN "read"
                                   ELSE IF r \in OnWire THEN "lost"
                                   ELSE fate[r]]

Next == HandOver \/ Read \/ End

Spec == Init /\ [][Next]_fate
=============================================================================
