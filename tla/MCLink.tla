------------------------------- MODULE MCLink -------------------------------
(* A small instance of Link for TLC.                                       *)
EXTENDS Link

CONSTANTS r1, r2
=============================================================================
