----------------------------- MODULE Algorithms -----------------------------
(***************************************************************************)
(* The pure functions of the announcer, put to the test: what a frame, a   *)
(* salt or a fingerprint is converted to (Codec), and the count of files   *)
(* by extension (ExtensionWalk).  A question is asked, and one step        *)
(* answers it.                                                             *)
(***************************************************************************)
EXTENDS Codec, ExtensionWalk

CONSTANTS
    Char,           \* characters of texts
    FieldLists,     \* the fields of a frame, in order
    ByteStrings,    \* what base32 is applied to
    Walks           \* a release, its limits and the settings of the walk

\* What lfs may find: finitely many entries in a directory, each leading to one.
Walkable(w) ==
    /\ w.root \in DOMAIN w.fs
    /\ w.recursive \in BOOLEAN
    /\ w.depth \in Nat
    /\ \A ext \in DOMAIN w.limits : w.limits[ext] \in Int
    /\ \A d \in DOMAIN w.fs :
         /\ w.fs[d].readable \in BOOLEAN
         /\ IsFiniteSet(w.fs[d].subs)
         /\ \A e \in w.fs[d].subs : e.to \in DOMAIN w.fs
         /\ \A ext \in DOMAIN w.limits : w.fs[d].files[ext] \in Nat

ASSUME AlgorithmsAssumption ==
    /\ \A fields \in FieldLists : fields \in Seq(Seq(Char)) /\ fields # <<>>
    /\ \A src \in ByteStrings : src \in Seq(Byte) /\ src # <<>>
    /\ \A w \in Walks : Walkable(w)

VARIABLES question, answered

Ask ==
    /\ answered = FALSE
    /\ \/ \E fields \in FieldLists : question = [on |-> "fields", fields |-> fields]
       \/ \E src \in ByteStrings : question = [on |-> "bytes", src |-> src]
       \/ \E w \in Walks : question = [on |-> "walk", walk |-> w]

Answer == ~answered /\ answered' = TRUE /\ UNCHANGED question

Answering == Ask /\ [][Answer]_<<question, answered>>

-----------------------------------------------------------------------------
(* Properties                                                              *)

\* Every text, salt and fingerprint comes out of a frame as it went in (net.lua's
\* BINF, BMSG and HPAS, its check of the keyprint).
ConversionsAreExact ==
    answered =>
        /\ question.on = "fields" => FieldsArrive(question.fields)
        /\ question.on = "bytes"  => BytesArrive(question.src)

\* The count of extensions is exact in trees and errs on the safe side, and
\* ends, where links make loops (announce.lua's issues 29 and 38).
WalkIsSound ==
    (answered /\ question.on = "walk") =>
        LET w == question.walk
        IN  WalkSound(w.fs, w.limits, w.root, w.recursive, w.depth)
=============================================================================
