--------------------------- MODULE MCReleaseScan ---------------------------
(* Small instances of ReleaseScan for TLC.                                 *)
EXTENDS ReleaseScan

CONSTANTS a, b, r1, r2, top, d0601, d0602, extras, d123

MCName == {a, b}
MCRule == {r1, r2}

Complete == [kind |-> "directory", readable |-> TRUE, old |-> FALSE,
             nfo |-> TRUE, sfv |-> "valid", crowded |-> FALSE]
Bare     == [Complete EXCEPT !.nfo = FALSE, !.sfv = "none"]
Crowded  == [Complete EXCEPT !.crowded = TRUE]
Aged     == [Complete EXCEPT !.old = TRUE]
Locked   == [Bare EXCEPT !.readable = FALSE]
File     == [Bare EXCEPT !.kind = "file"]
Sealed   == [Complete EXCEPT !.sfv = "denied"]

\* A release path without, and with, day directories.
PlainAccess ==
    [f \in Folder |-> IF f = Top THEN "open" ELSE "missing"]
DayAccess ==
    [f \in Folder |-> IF f \in Short THEN "missing" ELSE "open"]
MCAccess ==
    {PlainAccess, DayAccess,
     [DayAccess EXCEPT ![d0601] = "missing", ![d0602] = "denied",
                       ![d123] = "open"]}

Empty == [n \in Name |-> Gone]
Holding(atTop, first, second) ==
    [f \in Folder |->
        CASE f = top   -> [n \in Name |-> IF n = a THEN atTop ELSE Complete]
          [] f = d0601 -> [n \in Name |-> IF n = a THEN first ELSE Gone]
          [] f = d0602 -> [n \in Name |-> IF n = a THEN second ELSE Gone]
          [] OTHER     -> Empty]

Kinds   == {Complete, Bare, Crowded, Aged, Locked, File, Sealed, Dangling}
MCTrees == {Holding(e, Bare, Complete) : e \in Kinds}
           \cup {Holding(Gone, e, Gone) : e \in {Complete, Aged, Locked}}
MCReplacing == {Gone, File}

Plain  == [active |-> TRUE, valid |-> TRUE, blocks |-> {}, age |-> "off",
           checkdirs |-> TRUE, checkfiles |-> FALSE, nfo |-> FALSE,
           sfv |-> FALSE, ext |-> TRUE, days |-> "none"]
Strict == [Plain EXCEPT !.nfo = TRUE, !.sfv = TRUE]
Files  == [Plain EXCEPT !.checkfiles = TRUE, !.age = "limit"]
Ageless == [Strict EXCEPT !.age = "unset", !.blocks = {b}]
NotB   == [Plain EXCEPT !.blocks = {b}]
Off    == [Plain EXCEPT !.active = FALSE]
Broken == [Plain EXCEPT !.valid = FALSE]
Days   == [Plain EXCEPT !.days = "all"]
ZeroDay == [Plain EXCEPT !.days = "today"]

Table(first, second) == [r \in Rule |-> IF r = r1 THEN first ELSE second]
MCVersions ==
    {Table(Plain, Strict), Table(Files, Off), Table(Days, NotB),
     Table(ZeroDay, Broken), Table(Ageless, Off)}

LooseAccess   == {PlainAccess}
LooseTrees    == {Holding(File, Gone, Gone)}
LooseVersions == {Table([Strict EXCEPT !.checkfiles = TRUE], Off)}
=============================================================================
