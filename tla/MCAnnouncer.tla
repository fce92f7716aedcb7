---------------------------- MODULE MCAnnouncer ----------------------------
(* Small instances of Announcer for TLC.                                   *)
EXTENDS Announcer

CONSTANTS r1, r2, r3, broken, raising

MCRelease == {r1, r2, r3, broken, raising}
MCBytes   == [r \in MCRelease |-> IF r = r1 THEN 1 ELSE 2]
MCBroken  == {broken}
MCRaising == {raising}
AllFaults == Faults
=============================================================================
