---------------------------- MODULE MCAlgorithms ----------------------------
(* Algorithms over bounded inputs, for TLC.                                *)
EXTENDS Algorithms, TLC

CONSTANTS
    MaxText,        \* bound on the length of each of two fields
    Bytes,          \* bytes that a string is made of
    MaxBytes,       \* bound on its length
    Folder, Root,   \* the directories of a release
    Twins,          \* those of them that may have two entries for one directory
    MaxDepth        \* bound on max_per_extension_max_depth

MCChar == {Space, LineFeed, Backslash, "s", "n", "a"}

MCFieldLists ==
    LET texts == BoundedSeq(MCChar, MaxText) IN {<<a, b>> : a \in texts, b \in texts}

MCByteStrings == BoundedSeq(Bytes, MaxBytes) \ {<<>>}

\* One file in the root, two in any other folder: one of each of two extensions,
\* of which one more is allowed in the second.
Files(d) == ("nfo" :> 1) @@ ("sfv" :> IF d = Root THEN 0 ELSE 1)
Limits   == ("nfo" :> 1) @@ ("sfv" :> 2)

\* The releases with some entries, of which one directory at most is locked.
Releases(graphs) ==
    {[d \in DOMAIN g |-> [subs |-> g[d], files |-> Files(d), readable |-> d \notin locked]] :
       g \in graphs, locked \in {{d} : d \in Folder} \cup {{}}}

\* Every graph on all folders, in which an entry has the name of the folder it
\* leads to, and every graph on some, in which two names are to be had.
Linked ==
    {[d \in Folder |-> {[name |-> c, to |-> c] : c \in h[d]}] : h \in [Folder -> SUBSET Folder]}

Doubled ==
    LET listings == {E \in SUBSET [name : {"a", "b"}, to : Twins] :
                       \A d, e \in E : d.name = e.name => d = e}
    IN  [Twins -> listings]

MCWalks ==
    {[fs |-> fs, limits |-> Limits, root |-> Root, recursive |-> recursive, depth |-> depth] :
       fs \in Releases(Linked) \cup Releases(Doubled),
       recursive \in BOOLEAN, depth \in 0..MaxDepth}
=============================================================================
