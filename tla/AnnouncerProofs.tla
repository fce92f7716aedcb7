-------------------------- MODULE AnnouncerProofs --------------------------
(***************************************************************************)
(* Proofs about Announcer, for every set of releases, every limit and any  *)
(* number of faults.  The four safety invariants hold each other up and    *)
(* need three facts more: what is still to be announced, or in flight, is  *)
(* unknown to `releases`; a line is appended only to a file within the     *)
(* limit; and the fault behind a missing file has not been paid out yet.   *)
(* IInv is their conjunction.                                              *)
(***************************************************************************)
EXTENDS Announcer, FiniteSetTheorems, TLAPS

Handling == pc \in {"announcing", "rotating", "appending"}

FreshWork == Handling => found \cap releases = {}

FreshFlight ==
    pc \in {"rotating", "appending"} =>
        cur \in Release /\ cur \notin releases /\ cur \notin found

RoomToAppend == pc = "appending" => size <= MaxLog

\* Truthful, its first part: what the hub was told of and no fault excuses.
Recorded == told = Lines \cup InFlight \cup orphans

\* Nothing is recorded, or about to be, that is known to have lost its line.
Unrecorded == orphans \cap (Lines \cup InFlight) = {}

\* The end of the process that a missing file will bring is paid for by the
\* fault that removed it.
Owed == IF Running /\ path = "gone" THEN 1 ELSE 0

Afforded ==
    /\ IsFiniteSet(orphans)
    /\ Cardinality(orphans) + repeats + Owed <= faults

IInv ==
    /\ TypeOK
    /\ Coherent
    /\ Recorded
    /\ NoDuplicateLine
    /\ SizeBound
    /\ FreshWork
    /\ FreshFlight
    /\ RoomToAppend
    /\ Unrecorded
    /\ Afforded

\* Emptying the file leaves no line in it.
LEMMA EmptyFileLines ==
    ASSUME EmptyFile
    PROVE  /\ Lines' = {}
           /\ lines' \in [Release -> Nat]
           /\ size' = 0
           /\ \A r \in Release : lines'[r] <= 1
  BY DEF EmptyFile, Lines

\* Appending the line of a release adds that release, and no other.
LEMMA AppendLines ==
    ASSUME TypeOK, NEW r \in Release, lines' = [lines EXCEPT ![r] = @ + 1]
    PROVE  /\ Lines' = Lines \cup {r}
           /\ lines' \in [Release -> Nat]
           /\ lines'[r] = lines[r] + 1
           /\ \A q \in Release \ {r} : lines'[q] = lines[q]
  BY DEF TypeOK, Lines

\* The set of recorded releases is a function of the lines alone.
LEMMA LinesUnchanged ==
    ASSUME UNCHANGED lines
    PROVE  Lines' = Lines
  BY DEF Lines

\* A step that lets no process end leaves room for the ends to come.
LEMMA AffordedKept ==
    ASSUME TypeOK, Afforded, UNCHANGED <<orphans, repeats>>,
           faults' \in 0..MaxFaults,
           \/ Owed' = Owed /\ faults' >= faults
           \/ Owed' = 1 /\ faults' = faults + 1
    PROVE  Afforded'
  <1>1. IsFiniteSet(orphans) /\ Cardinality(orphans) \in Nat
    BY FS_CardinalityType DEF Afforded
  <1>2. faults \in Nat /\ faults' \in Nat /\ repeats \in Nat
    BY ConstantsAssumption DEF TypeOK
  <1>3. Owed \in Nat /\ Owed' \in Nat
    BY DEF Owed
  <1>4. Cardinality(orphans) + repeats + Owed <= faults
    BY DEF Afforded
  <1>5. CASE Owed' = Owed /\ faults' >= faults
    BY <1>1, <1>2, <1>3, <1>4, <1>5 DEF Afforded
  <1>6. CASE Owed' = 1 /\ faults' = faults + 1
    <2>1. Cardinality(orphans) + repeats <= faults
      BY <1>1, <1>2, <1>3, <1>4
    <2> QED
      BY <1>1, <1>2, <1>6, <2>1 DEF Afforded
  <1> QED
    BY <1>5, <1>6

LEMMA InitIInv == Init => IInv
  <1> SUFFICES ASSUME Init PROVE IInv
    OBVIOUS
  <1>1. TypeOK
    <2>1. lines \in [Release -> Nat] /\ shared \subseteq Release
      BY DEF Init
    <2>2. faults \in 0..MaxFaults
      BY ConstantsAssumption DEF Init
    <2> QED
      BY <2>1, <2>2 DEF Init, TypeOK, PCs
  <1>2. Lines = {}
    BY DEF Init, Lines
  <1>3. Recorded /\ Unrecorded
    BY <1>2 DEF Init, Recorded, Unrecorded, InFlight
  <1>4. Afforded
    BY FS_EmptySet DEF Init, Afforded, Owed, Running
  <1> QED
    BY <1>1, <1>3, <1>4 DEF Init, IInv, Coherent, NoDuplicateLine, SizeBound,
       FreshWork, FreshFlight, RoomToAppend, Handling, Running

LEMMA StartIInv == IInv /\ Start => IInv'
  <1> SUFFICES ASSUME IInv, Start PROVE IInv'
    OBVIOUS
  <1>0. Afforded'
    <2>1. Owed = 0 /\ Owed' = 0 /\ faults' = faults
      BY DEF Start, Owed, Running
    <2> QED
      BY <2>1, AffordedKept DEF Start, IInv, TypeOK
  <1> USE ConstantsAssumption DEF IInv, TypeOK, PCs, file
  <1>1. CASE size > MaxLog
    <2>1. EmptyFile /\ Lines' = {} /\ \A r \in Release : lines'[r] <= 1
      BY <1>1, EmptyFileLines DEF Start
    <2>2. told = Lines \cup orphans /\ orphans \cap Lines = {}
      BY DEF Start, Recorded, Unrecorded, InFlight
    <2> QED
      BY <1>0, <1>1, <2>1, <2>2 DEF Start, Unrecorded, EmptyFile, Coherent, Recorded,
         NoDuplicateLine, SizeBound, FreshWork, FreshFlight, RoomToAppend,
         Handling, InFlight
  <1>2. CASE ~(size > MaxLog)
    <2>1. Lines' = Lines
      BY <1>2, LinesUnchanged DEF Start
    <2>2. Lines \subseteq Release
      BY DEF Lines
    <2> QED
      BY <1>0, <1>2, <2>1, <2>2 DEF Start, Coherent, Recorded, Unrecorded, NoDuplicateLine,
         SizeBound, FreshWork, FreshFlight, RoomToAppend, Handling, InFlight
  <1> QED
    BY <1>1, <1>2

LEMMA CheckFilesizeIInv == IInv /\ CheckFilesize => IInv'
  <1> SUFFICES ASSUME IInv, CheckFilesize PROVE IInv'
    OBVIOUS
  <1>0. Afforded'
    <2>1. Owed = 0 /\ Owed' = 0 /\ faults' = faults
      BY DEF CheckFilesize, Owed, Running
    <2> QED
      BY <2>1, AffordedKept DEF CheckFilesize, IInv, TypeOK
  <1> USE ConstantsAssumption DEF IInv, TypeOK, PCs, file, ghosts
  <1>1. cur \in Release /\ cur \notin releases /\ cur \notin Lines
    BY DEF CheckFilesize, FreshFlight, Coherent, Running
  <1>2. /\ told = Lines \cup {cur} \cup orphans
        /\ orphans \cap (Lines \cup {cur}) = {}
    BY DEF CheckFilesize, Recorded, Unrecorded, InFlight
  <1>3. CASE size > MaxLog
    <2>1. Lines' = {} /\ lines' \in [Release -> Nat] /\ size' = 0
          /\ \A r \in Release : lines'[r] <= 1
      BY <1>3, EmptyFileLines DEF CheckFilesize
    <2>2. /\ releases' = {} /\ unsaved' = {} /\ told' = told \ Lines
          /\ pc = "rotating" /\ pc' = "appending"
          /\ UNCHANGED <<shared, path, link, due, found, cur, faults,
                         orphans, repeats>>
      BY <1>3 DEF CheckFilesize
    <2>3. TypeOK'
      BY <2>1, <2>2
    <2>4. Coherent' /\ Recorded' /\ Unrecorded'
      BY <1>1, <1>2, <2>1, <2>2 DEF Coherent, Recorded, Unrecorded, InFlight
    <2>5. NoDuplicateLine' /\ SizeBound' /\ RoomToAppend'
      BY <2>1 DEF NoDuplicateLine, SizeBound, RoomToAppend
    <2>6. FreshWork' /\ FreshFlight'
      BY <1>1, <2>2 DEF FreshWork, FreshFlight, Handling
    <2> QED
      BY <1>0, <2>3, <2>4, <2>5, <2>6
  <1>4. CASE ~(size > MaxLog)
    <2>1. Lines' = Lines
      BY <1>4, LinesUnchanged DEF CheckFilesize
    <2> QED
      BY <1>0, <1>1, <1>2, <1>4, <2>1 DEF CheckFilesize, Coherent, Recorded,
         Unrecorded,
         NoDuplicateLine, SizeBound, FreshWork, FreshFlight, RoomToAppend,
         Handling, InFlight, Running
  <1> QED
    BY <1>3, <1>4

LEMMA AppendLineIInv ==
    ASSUME IInv, NEW b \in BOOLEAN, AppendLine(b), faults' \in 0..MaxFaults,
           faults' >= faults
    PROVE  IInv'
  <1>0. Afforded'
    <2>1. Owed' = Owed /\ UNCHANGED <<orphans, repeats>>
      BY DEF AppendLine, Owed, Running, file
    <2>2. Owed \in 0..1 /\ faults \in Int /\ faults' \in Int
      BY ConstantsAssumption DEF Owed, IInv, TypeOK
    <2> QED
      BY <2>1, <2>2, AffordedKept DEF IInv
  <1> USE ConstantsAssumption DEF IInv, TypeOK, PCs, file, ghosts
  <1>1. cur \in Release /\ cur \notin releases /\ cur \notin Lines
    BY DEF AppendLine, FreshFlight, Coherent, Running
  <1>2. /\ told = Lines \cup {cur} \cup orphans
        /\ orphans \cap (Lines \cup {cur}) = {}
    BY DEF AppendLine, Recorded, Unrecorded, InFlight
  <1>3. releases = Lines \cup unsaved
    BY DEF AppendLine, Coherent, Running
  <1>4. CASE b
    <2>1. lines' = [lines EXCEPT ![cur] = @ + 1] /\ size' = size + Bytes[cur]
      BY <1>4 DEF AppendLine
    <2>2. /\ Lines' = Lines \cup {cur}
          /\ lines' \in [Release -> Nat]
          /\ lines'[cur] = lines[cur] + 1
          /\ \A q \in Release \ {cur} : lines'[q] = lines[q]
      BY <1>1, <2>1, AppendLines
    <2>3. lines[cur] = 0
      BY <1>1 DEF Lines
    <2>4. NoDuplicateLine'
      BY <2>2, <2>3 DEF NoDuplicateLine
    <2>5. size' \in Nat /\ size' <= MaxLog + MaxEntry
      BY <1>1, <2>1 DEF RoomToAppend, AppendLine
    <2> QED
      BY <1>0, <1>1, <1>2, <1>3, <1>4, <2>2, <2>4, <2>5 DEF AppendLine,
         Coherent, Recorded, Unrecorded, SizeBound, FreshWork, FreshFlight, RoomToAppend, Handling,
         InFlight
  <1>5. CASE ~b
    <2>1. UNCHANGED file /\ Lines' = Lines
      BY <1>5, LinesUnchanged DEF AppendLine
    <2> QED
      BY <1>0, <1>1, <1>2, <1>3, <1>5, <2>1 DEF AppendLine, Coherent,
         Recorded, Unrecorded,
         NoDuplicateLine, SizeBound, FreshWork, FreshFlight, RoomToAppend,
         Handling, InFlight, Running
  <1> QED
    BY <1>4, <1>5

\* The end of the process, by a crash or by an error of its own.
LEMMA DieIInv ==
    ASSUME IInv, Die, faults' \in 0..MaxFaults,
           \/ faults' > faults
           \/ faults' = faults /\ (Owed = 1 \/ InFlight = {})
    PROVE  IInv'
  <1>1. Afforded'
    <2>1. IsFiniteSet(orphans) /\ Cardinality(orphans) \in Nat
      BY FS_CardinalityType DEF IInv, Afforded
    <2>2. /\ IsFiniteSet(orphans')
          /\ Cardinality(orphans') \in Nat
          /\ Cardinality(orphans') <= Cardinality(orphans) + 1
          /\ InFlight = {} => Cardinality(orphans') = Cardinality(orphans)
      <3>1. CASE InFlight = {}
        BY <2>1, <3>1 DEF Die
      <3>2. CASE InFlight # {}
        <4>1. orphans' = orphans \cup {cur}
          BY <3>2 DEF Die, InFlight
        <4> QED
          BY <2>1, <3>2, <4>1, FS_AddElement
      <3> QED
        BY <3>1, <3>2
    <2>3. Owed \in 0..1 /\ Owed' = 0 /\ repeats' = repeats
      BY DEF Die, Owed, Running
    <2>4. faults \in Nat /\ faults' \in Nat /\ repeats \in Nat
      BY ConstantsAssumption DEF IInv, TypeOK
    <2> QED
      BY <2>1, <2>2, <2>3, <2>4 DEF IInv, Afforded
  <1> USE ConstantsAssumption
      DEF IInv, TypeOK, PCs, file, memory, ghosts
  <1>2. Lines' = Lines
    BY LinesUnchanged DEF Die
  <1>3. InFlight \cap Lines = {}
    BY DEF InFlight, FreshFlight, Coherent, Running
  <1>4. InFlight \subseteq Release
    BY DEF InFlight, FreshFlight
  <1>5. TypeOK'
    BY <1>4 DEF Die
  <1>6. Recorded' /\ Unrecorded'
    BY <1>2, <1>3 DEF Die, Recorded, Unrecorded, InFlight
  <1> QED
    BY <1>1, <1>5, <1>6 DEF Die, Coherent, NoDuplicateLine, SizeBound,
       FreshWork, FreshFlight, RoomToAppend, Handling, Running

LEMMA OtherStepIInv ==
    ASSUME IInv,
           \/ Login \/ IntervalElapses \/ Scan
           \/ \E r \in Release : SkipBroken(r)
           \/ SendFails \/ KeepAlive \/ KeepAliveFails \/ PollLost
    PROVE  IInv'
  <1> USE ConstantsAssumption
      DEF IInv, TypeOK, PCs, file, memory, ghosts
  <1>0. Afforded'
    <2>1. UNCHANGED <<orphans, repeats, faults>> /\ Owed' = Owed
      BY DEF Login, IntervalElapses, Scan, SkipBroken, SendFails, KeepAlive,
         KeepAliveFails, PollLost, LeaveLoop, Owed, Running
    <2>2. Owed \in 0..1 /\ faults \in Int
      BY DEF Owed
    <2> QED
      BY <2>1, <2>2, AffordedKept
  <1> USE <1>0 DEF Coherent, Recorded, Unrecorded, NoDuplicateLine, SizeBound,
      FreshWork, FreshFlight, RoomToAppend, Handling, Running, InFlight
  <1>1. UNCHANGED lines => Lines' = Lines
    BY LinesUnchanged
  <1>2. CASE Login
    BY <1>1, <1>2 DEF Login
  <1>3. CASE IntervalElapses
    BY <1>1, <1>3 DEF IntervalElapses
  <1>4. CASE Scan
    BY <1>1, <1>4 DEF Scan, NewReleases
  <1>5. ASSUME NEW r \in Release, SkipBroken(r) PROVE IInv'
    BY <1>1, <1>5 DEF SkipBroken
  <1>7. CASE SendFails
    BY <1>1, <1>7 DEF SendFails, LeaveLoop
  <1>8. CASE KeepAlive
    BY <1>1, <1>8 DEF KeepAlive
  <1>9. CASE KeepAliveFails
    BY <1>1, <1>9 DEF KeepAliveFails, LeaveLoop
  <1>10. CASE PollLost
    BY <1>1, <1>10 DEF PollLost, LeaveLoop
  <1> QED
    BY <1>2, <1>3, <1>4, <1>5, <1>7, <1>8, <1>9, <1>10

LEMMA SendReleaseIInv ==
    ASSUME IInv, NEW r \in Release, SendRelease(r)
    PROVE  IInv'
  <1>1. Lines' = Lines
    BY LinesUnchanged DEF SendRelease, file
  <1>2. /\ told = Lines \cup orphans /\ orphans \cap Lines = {}
        /\ r \notin releases /\ Lines \subseteq releases
    BY DEF SendRelease, IInv, Recorded, Unrecorded, InFlight, FreshWork,
       Handling, Coherent, Running
  <1>3. Afforded'
    <2>1. IsFiniteSet(orphans) /\ Cardinality(orphans) \in Nat
      BY FS_CardinalityType DEF IInv, Afforded
    <2>2. /\ IsFiniteSet(orphans')
          /\ Cardinality(orphans') + repeats' = Cardinality(orphans) + repeats
      <3>1. r \in orphans => Cardinality(orphans) > 0
        BY <2>1, FS_EmptySet
      <3>2. repeats \in Nat /\ (r \in told <=> r \in orphans)
        BY <1>2 DEF IInv, TypeOK
      <3>3. orphans' = orphans \ {r}
            /\ repeats' = IF r \in told THEN repeats + 1 ELSE repeats
        BY DEF SendRelease
      <3>4. /\ IsFiniteSet(orphans \ {r})
            /\ Cardinality(orphans \ {r}) =
                 IF r \in orphans THEN Cardinality(orphans) - 1
                                  ELSE Cardinality(orphans)
        BY <2>1, FS_RemoveElement
      <3> QED
        BY <2>1, <3>1, <3>2, <3>3, <3>4
    <2>3. Owed' = Owed /\ faults' = faults
      BY DEF SendRelease, Owed, Running, file
    <2> QED
      BY <2>2, <2>3 DEF IInv, Afforded
  <1>4. TypeOK'
    BY DEF SendRelease, IInv, TypeOK, PCs, file
  <1>5. Recorded' /\ Unrecorded'
    BY <1>1, <1>2 DEF SendRelease, Recorded, Unrecorded, InFlight
  <1> QED
    BY <1>1, <1>2, <1>3, <1>4, <1>5 DEF SendRelease, IInv, Coherent,
       NoDuplicateLine, SizeBound, FreshWork, FreshFlight, RoomToAppend,
       Handling, Running, file

LEMMA EnvironmentIInv == IInv /\ Environment => IInv'
  <1> SUFFICES ASSUME IInv, Environment PROVE IInv'
    OBVIOUS
  <1> USE ConstantsAssumption
      DEF IInv, TypeOK, PCs, file, memory, ghosts
  <1>1. UNCHANGED lines => Lines' = Lines
    BY LinesUnchanged
  <1>2. ASSUME NEW r \in Release, Share(r) \/ Withdraw(r) PROVE IInv'
    <2>1. Afforded'
      BY <1>2 DEF Share, Withdraw, Afforded, Owed, Running
    <2> QED
      BY <1>1, <1>2, <2>1 DEF Share, Withdraw, Coherent, Recorded, Unrecorded, NoDuplicateLine,
       SizeBound, FreshWork, FreshFlight, RoomToAppend, Handling, Running,
       InFlight
  <1>3. ASSUME NEW kind, Fault(kind)
        PROVE  faults' \in 0..MaxFaults /\ faults' = faults + 1
    BY <1>3 DEF Fault
  <1>0. ASSUME NEW kind, Fault(kind), UNCHANGED <<orphans, repeats>>,
               Owed' = Owed \/ Owed' = 1
        PROVE  Afforded'
    <2>1. Owed \in 0..1 /\ Owed' \in 0..1 /\ faults \in Int
      BY <1>0 DEF Owed
    <2> QED
      BY <1>0, <1>3, <2>1, AffordedKept
  <1>4. CASE LinkLost
    <2>1. Afforded'
      BY <1>0, <1>4 DEF LinkLost, Owed, Running
    <2> QED
      BY <1>1, <1>3, <1>4, <2>1 DEF LinkLost, Coherent, Recorded, Unrecorded,
       NoDuplicateLine,
       SizeBound, FreshWork, FreshFlight, RoomToAppend, Handling, Running,
       InFlight
  <1>5. CASE Crash \/ RotationRaises
    <2>1. Die /\ faults' \in 0..MaxFaults /\ faults' > faults
      BY <1>3, <1>5 DEF Crash, RotationRaises
    <2> QED
      BY <2>1, DieIInv
  <1>6. CASE AppendFails
    <2>1. Fault("diskfull") /\ AppendLine(FALSE)
      BY <1>6 DEF AppendFails
    <2>2. faults' \in 0..MaxFaults /\ faults' >= faults
      BY <1>3, <2>1
    <2> QED
      BY <2>1, <2>2, AppendLineIInv
  <1>7. CASE ClearFile
    <2>1. /\ Lines' = {} /\ lines' \in [Release -> Nat] /\ size' = 0
          /\ \A r \in Release : lines'[r] <= 1
          /\ faults' \in 0..MaxFaults
      BY <1>3, <1>7, EmptyFileLines DEF ClearFile
    <2>2. InFlight \cap Lines = {} /\ Lines \subseteq Release
      BY DEF InFlight, FreshFlight, Coherent, Running, Lines
    <2>3. /\ unsaved' = IF Running THEN unsaved \cup Lines ELSE {}
          /\ told' = told \ Lines
          /\ UNCHANGED <<shared, path, pc, link, due, memory, orphans, repeats>>
      BY <1>7 DEF ClearFile
    <2>4. TypeOK'
      BY <2>1, <2>2, <2>3
    <2>5. Coherent'
      BY <2>1, <2>3 DEF Coherent, Running
    <2>6. Recorded' /\ Unrecorded'
      BY <2>1, <2>2, <2>3 DEF Recorded, Unrecorded, InFlight
    <2>7. Afforded'
      BY <1>0, <1>7 DEF ClearFile, Owed, Running
    <2> QED
      BY <2>1, <2>3, <2>4, <2>5, <2>6, <2>7 DEF NoDuplicateLine, SizeBound,
         FreshWork, FreshFlight, RoomToAppend, Handling, Running
  <1>8. CASE OfflineGrowth
    <2>1. Lines' = Lines /\ faults' \in 0..MaxFaults
      BY <1>1, <1>3, <1>8 DEF OfflineGrowth
    <2>2. Afforded'
      BY <1>0, <1>8 DEF OfflineGrowth, Owed, Running
    <2> QED
      BY <1>8, <2>1, <2>2 DEF OfflineGrowth, Coherent, Recorded, Unrecorded, NoDuplicateLine,
         SizeBound, FreshWork, FreshFlight, RoomToAppend, Handling, Running,
         InFlight
  <1>9. CASE DetachFile
    <2>1. /\ Lines' = {} /\ lines' \in [Release -> Nat] /\ size' = 0
          /\ \A r \in Release : lines'[r] <= 1
          /\ faults' \in 0..MaxFaults
      BY <1>3, <1>9, EmptyFileLines DEF DetachFile
    <2>2. InFlight \cap Lines = {} /\ Lines \subseteq Release
      BY DEF InFlight, FreshFlight, Coherent, Running, Lines
    <2>3. /\ path' \in {"gone", "other"}
          /\ unsaved' = unsaved \cup Lines /\ told' = told \ Lines
          /\ Running
          /\ UNCHANGED <<shared, pc, link, due, memory, orphans, repeats>>
      BY <1>9 DEF DetachFile
    <2>4. TypeOK'
      BY <2>1, <2>2, <2>3
    <2>5. Coherent'
      BY <2>1, <2>3 DEF Coherent, Running
    <2>6. Recorded' /\ Unrecorded'
      BY <2>1, <2>2, <2>3 DEF Recorded, Unrecorded, InFlight
    <2>7. Afforded'
      BY <1>0, <1>9 DEF DetachFile, Owed, Running
    <2> QED
      BY <2>1, <2>3, <2>4, <2>5, <2>6, <2>7 DEF NoDuplicateLine, SizeBound,
         FreshWork, FreshFlight, RoomToAppend, Handling, Running
  <1> QED
    BY <1>2, <1>4, <1>5, <1>6, <1>7, <1>8, <1>9 DEF Environment

LEMMA NextIInv == IInv /\ [Next]_vars => IInv'
  <1> SUFFICES ASSUME IInv, [Next]_vars PROVE IInv'
    OBVIOUS
  <1>1. CASE Start
    BY <1>1, StartIInv
  <1>2. CASE CheckFilesize
    BY <1>2, CheckFilesizeIInv
  <1>3. CASE Append
    <2>1. /\ AppendLine(path = "own") /\ faults' \in 0..MaxFaults
          /\ faults' >= faults
      BY <1>3, ConstantsAssumption DEF Append, IInv, TypeOK
    <2> QED
      BY <2>1, AppendLineIInv
  <1>4. CASE Environment
    BY <1>4, EnvironmentIInv
  <1>5. CASE UNCHANGED vars
    BY <1>5 DEF vars, file, memory, ghosts, IInv, TypeOK, Coherent, Recorded,
       Unrecorded, Afforded, Owed, NoDuplicateLine, SizeBound, FreshWork, FreshFlight, RoomToAppend,
       Handling, Running, InFlight, Lines
  <1>6. CASE CheckRaises
    <2>1. Die /\ faults' \in 0..MaxFaults /\ faults' = faults /\ Owed = 1
      BY <1>6 DEF CheckRaises, IInv, TypeOK, Owed, Running
    <2> QED
      BY <2>1, DieIInv
  <1>7. ASSUME NEW r \in Release, ConcatRaises(r) PROVE IInv'
    <2>1. Die /\ faults' \in 0..MaxFaults /\ faults' = faults /\ InFlight = {}
      BY <1>7 DEF ConcatRaises, IInv, TypeOK, InFlight
    <2> QED
      BY <2>1, DieIInv
  <1>8. ASSUME NEW r \in Release, SendRelease(r) PROVE IInv'
    BY <1>8, SendReleaseIInv
  <1> QED
    BY <1>1, <1>2, <1>3, <1>4, <1>5, <1>6, <1>7, <1>8, OtherStepIInv
       DEF Next, Worker

THEOREM InvariantHolds == Spec => []IInv
  BY InitIInv, NextIInv, PTL DEF Spec

-----------------------------------------------------------------------------

\* Every state of the announcer is well typed.
THEOREM TypeCorrect == Spec => []TypeOK
  <1>1. IInv => TypeOK
    BY DEF IInv
  <1> QED
    BY <1>1, InvariantHolds, PTL

\* log.lua's table and announced.txt never drift apart but by a fault, so
\* that what announce.lua takes for new is new.
THEOREM CoherentHolds == Spec => []Coherent
  <1>1. IInv => Coherent
    BY DEF IInv
  <1> QED
    BY <1>1, InvariantHolds, PTL

\* announced.txt records exactly the announcements made and not excused.
THEOREM TruthfulHolds == Spec => []Truthful
  <1>1. IInv => Truthful
    <2> SUFFICES ASSUME IInv PROVE Cardinality(orphans) + repeats <= faults
      BY DEF IInv, Recorded, Truthful
    <2>1. Cardinality(orphans) \in Nat /\ Owed \in 0..1
      BY FS_CardinalityType DEF IInv, Afforded, Owed
    <2> QED
      BY <2>1, ConstantsAssumption DEF IInv, TypeOK, Afforded
  <1> QED
    BY <1>1, InvariantHolds, PTL

\* announced.txt never names a release twice.
THEOREM NoDuplicateLineHolds == Spec => []NoDuplicateLine
  <1>1. IInv => NoDuplicateLine
    BY DEF IInv
  <1> QED
    BY <1>1, InvariantHolds, PTL

\* While the announcer runs, announced.txt is at most one line over the
\* limit.
THEOREM SizeBoundHolds == Spec => []SizeBound
  <1>1. IInv => SizeBound
    BY DEF IInv
  <1> QED
    BY <1>1, InvariantHolds, PTL

\* No release is announced again while its announcement is on record.
THEOREM NoRepeatHolds == Spec => NoRepeat
  <1>1. IInv /\ [Next]_vars =>
          [\A r \in Release : Sends(r) => r \notin told \ orphans]_vars
    <2> SUFFICES ASSUME IInv, Next, NEW r \in Release, Sends(r)
                 PROVE  r \notin told \ orphans
      OBVIOUS
    <2>1. PICK q \in Release : SendRelease(q)
      BY DEF Sends, Next, Worker, Environment, Start, CheckFilesize, Append,
         AppendLine, Login, IntervalElapses, Scan, SkipBroken, SendFails,
         KeepAlive, KeepAliveFails, PollLost, LeaveLoop, Share, Withdraw,
         LinkLost, Crash, CheckRaises, RotationRaises, ConcatRaises, Die, AppendFails, ClearFile,
         DetachFile, OfflineGrowth
    <2>2. r \in found /\ told = Lines \cup orphans /\ Lines \subseteq releases
      BY <2>1 DEF Sends, SendRelease, IInv, Recorded, InFlight, Coherent,
         Running
    <2> QED
      BY <2>2 DEF IInv, FreshWork, Handling, Sends
  <1> QED
    BY <1>1, InvariantHolds, PTL DEF Spec, NoRepeat
=============================================================================
