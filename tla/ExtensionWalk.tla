--------------------------- MODULE ExtensionWalk ---------------------------
(***************************************************************************)
(* The count of files by extension in a release (count_files_by_ext and    *)
(* find_extension_excess in core/announce.lua), which walks directories    *)
(* that symbolic links may turn into any graph.                            *)
(*                                                                         *)
(* fs[d] is a directory: whether it can be listed, the entries in it that  *)
(* are or link to directories (of which two may lead to the same), and how *)
(* many files it has of each extension in lower case (files without one    *)
(* are not counted).                                                       *)
(***************************************************************************)
EXTENDS Integers, FiniteSets, Functions, Sequences

\* What the numbers in a function come to.
Total(number) == FoldFunction(+, 0, number)

\* Variant: the depth is looked at before a descent only.
CountDeeper(fs, ext, d, recursive, left) ==
    LET walk[l \in -1..left] ==
          [p \in DOMAIN fs |->
             IF ~fs[p].readable THEN 0
             ELSE fs[p].files[ext] +
                    IF ~recursive \/ l < 0 THEN 0
                    ELSE Total([e \in fs[p].subs |-> walk[l - 1][e.to]])]
    IN  walk[left][d]

\* What walk( p, depth ) adds to counts[ext], l levels above the limit.
Count(fs, ext, d, recursive, left) ==
    LET walk[l \in -1..left] ==
          [p \in DOMAIN fs |->
             IF l < 0 \/ ~fs[p].readable THEN 0
             ELSE fs[p].files[ext] +
                    IF ~recursive THEN 0
                    ELSE Total([e \in fs[p].subs |-> walk[l - 1][e.to]])]
    IN  walk[left][d]

\* The extensions of which there are too many: the first that pairs() comes to
\* is reported.
Excess(fs, limits, root, recursive, depth) ==
    {ext \in DOMAIN limits : Count(fs, ext, root, recursive, depth) > limits[ext]}

-----------------------------------------------------------------------------
(* Properties of one tree                                                  *)

\* The ways from an entry down, of at most `depth` steps, that the walk may take:
\* the entries that it goes through.
Ways(fs, start, recursive, depth) ==
    LET entries == {start} \cup UNION {fs[d].subs : d \in DOMAIN fs}
        steps   == IF recursive THEN depth ELSE 0
    IN  {w \in UNION {[1..n -> entries] : n \in 1..(steps + 1)} :
           /\ w[1] = start
           /\ \A i \in DOMAIN w : fs[w[i].to].readable
           /\ \A i \in 1..(Len(w) - 1) : w[i + 1] \in fs[w[i].to].subs}

\* The count is that of the files at the end of every way: finite in spite of
\* loops.  It is never less than the number of files that are there, so
\* that a release with too many never passes for a link; it is more only if
\* some directory can be reached in two ways, within the depth.
WalkSound(fs, limits, root, recursive, depth) ==
    LET ways      == Ways(fs, [name |-> "/", to |-> root], recursive, depth)
        end(w)    == w[Len(w)].to
        reached   == {end(w) : w \in ways}
        excess    == Excess(fs, limits, root, recursive, depth)
        real(ext) == Total([d \in reached |-> fs[d].files[ext]])
    IN  \A ext \in DOMAIN limits :
            /\ Count(fs, ext, root, recursive, depth) =
                   Total([w \in ways |-> fs[end(w)].files[ext]])
            /\ real(ext) > limits[ext] => ext \in excess
            /\ (\A v, w \in ways : end(v) = end(w) => v = w) =>
                   (ext \in excess <=> real(ext) > limits[ext])
=============================================================================
