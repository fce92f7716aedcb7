----------------------------- MODULE MCStartup -----------------------------
(* Startup as TLC runs it; the .cfg file gives the bounds.                 *)
EXTENDS Startup
=============================================================================
