---------------------------- MODULE MCStatusFile ---------------------------
(* A small instance of StatusFile for TLC.                                 *)
EXTENDS StatusFile

CONSTANTS hubconnect, hublogin, ok, fail

MCKeys    == {hubconnect, hublogin}
MCTexts   == {ok, fail}
MCFailing == {fail}
BothSystems == {"posix", "windows"}
=============================================================================
