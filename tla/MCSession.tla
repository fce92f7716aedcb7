----------------------------- MODULE MCSession -----------------------------
(* Session as TLC runs it; the .cfg files give the bounds.                 *)
EXTENDS Session
=============================================================================
