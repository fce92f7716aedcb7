-------------------------- MODULE StatusFileProofs -------------------------
(***************************************************************************)
(* Proofs about StatusFile, for every set of keys and texts, on either     *)
(* system, and for every number of emits, resets and failing writes.  The  *)
(* invariants follow the worker's handler through its steps: what its      *)
(* table, the temporary file and status.lua hold of the emits so far, as   *)
(* long as the GUI resets nothing.  IInv is their conjunction.             *)
(***************************************************************************)
EXTENDS StatusFile, TLAPS

\* The file as the handler found it: the key it writes is one emit behind.
FileBehind ==
    \A k \in Keys \ dropped :
        Loaded(file)[k] = IF k = key THEN previous[k] ELSE current[k]

FileFollows ==
    resets = 0 =>
        IF wpc = "idle" THEN \A k \in Keys \ dropped : Loaded(file)[k] = current[k]
        ELSE FileBehind \/ (wpc = "rename" /\ file = Absent)

\* The table that the handler is about to put in place.
TableFollows ==
    resets = 0 =>
        /\ wpc # "idle" => tbl[key] = current[key]
        /\ wpc \in {"save", "remove", "rename"} =>
               \A k \in Keys \ (dropped \cup {key}) : tbl[k] = current[k]

TmpHoldsTable == wpc \in {"remove", "rename"} => tmp \in {Torn, Holds(tbl)}

CutIsCounted ==
    (wpc \in {"remove", "rename"} /\ tmp = Torn) => ioErrors # 0

ResetIsCounted == gpc = "resetting" => resets # 0

PosixDropsNothing == Posix /\ ioErrors = 0 => dropped = {}

IInv ==
    /\ TypeOK
    /\ FileFollows
    /\ TableFollows
    /\ TmpHoldsTable
    /\ ResetIsCounted
    /\ PosixDropsNothing
    /\ CutIsCounted

-----------------------------------------------------------------------------
(* What is read from a file                                                *)

LEMMA FileValues ==
    /\ NoTable \in Table
    /\ Absent \in Contents /\ Loaded(Absent) = NoTable
    /\ Torn \in Contents /\ Loaded(Torn) = NoTable /\ Torn # Absent
    /\ \A t \in Table :
          Holds(t) \in Contents /\ Loaded(Holds(t)) = t /\ Holds(t) # Absent
    /\ \A f \in Contents : Loaded(f) \in Table
  <1>1. NoTable \in Table
    BY DEF NoTable, Table, Values
  <1>2. Absent \in Contents /\ Loaded(Absent) = NoTable
    BY DEF Contents, Absent, Loaded
  <1>3. Torn \in Contents /\ Loaded(Torn) = NoTable /\ Torn # Absent
    BY DEF Contents, Torn, Absent, Loaded
  <1>4. \A t \in Table :
          Holds(t) \in Contents /\ Loaded(Holds(t)) = t /\ Holds(t) # Absent
    BY DEF Contents, Holds, Absent, Loaded
  <1>5. \A f \in Contents : Loaded(f) \in Table
    BY <1>1, <1>2, <1>3, <1>4 DEF Contents
  <1> QED
    BY <1>1, <1>2, <1>3, <1>4, <1>5

LEMMA InitIInv == Init => IInv
  <1> SUFFICES ASSUME Init PROVE IInv
    OBVIOUS
  <1>1. 0 \in 0..MaxEmits /\ 0 \in 0..MaxResets /\ 0 \in 0..MaxIoErrors
    BY StatusAssumption
  <1>2. file \in Contents /\ tmp \in Contents /\ Loaded(file) = NoTable
    BY FileValues DEF Init
  <1>3. TypeOK
    <2>1. NoTable \in Table
      BY FileValues
    <2> QED
      BY StatusAssumption, <1>1, <1>2, <2>1 DEF Init, TypeOK
  <1> QED
    BY <1>2, <1>3 DEF Init, IInv, FileFollows, TableFollows, TmpHoldsTable,
                      ResetIsCounted, PosixDropsNothing, CutIsCounted

-----------------------------------------------------------------------------
(* The worker's handler                                                    *)

LEMMA EmitIInv ==
    ASSUME IInv, NEW k \in Keys, NEW text \in Texts, Emit(k, text)
    PROVE  IInv'
  <1>1. text \in Values /\ NoTable \in Table /\ current \in Table /\ previous \in Table
        /\ file \in Contents
    BY FileValues DEF IInv, TypeOK, Values
  <1>2. current[k] \in Values
    BY <1>1 DEF Table
  <1>3. /\ tbl' \in Table /\ tbl'[k] = text
        /\ current' \in Table /\ current'[k] = text
        /\ previous' \in Table /\ previous'[k] = current[k]
        /\ \A j \in Keys : j # k => current'[j] = current[j]
    <2>1. /\ tbl' = [NoTable EXCEPT ![k] = text]
          /\ current' = [current EXCEPT ![k] = text]
          /\ previous' = [previous EXCEPT ![k] = current[k]]
      BY DEF Emit
    <2>2. tbl' \in Table /\ tbl'[k] = text
      BY <1>1, <2>1 DEF Table
    <2>3. /\ current' \in Table /\ current'[k] = text
          /\ \A j \in Keys : j # k => current'[j] = current[j]
      BY <1>1, <2>1 DEF Table
    <2>4. previous' \in Table /\ previous'[k] = current[k]
      BY <1>1, <1>2, <2>1 DEF Table
    <2> QED
      BY <2>2, <2>3, <2>4
  <1>4. file' \in Contents /\ Loaded(file') = Loaded(file)
    BY <1>1, FileValues DEF Emit
  <1>5. emits' \in 0..MaxEmits
    <2>1. emits \in 0..MaxEmits /\ emits < MaxEmits /\ emits' = emits + 1
      BY DEF IInv, TypeOK, Emit
    <2> QED
      BY <2>1, StatusAssumption
  <1>6. TypeOK'
    BY <1>3, <1>4, <1>5 DEF IInv, TypeOK, Emit, gui, query, display
  <1>7. FileFollows'
    <2> SUFFICES ASSUME resets = 0, NEW j \in Keys \ dropped
                 PROVE  Loaded(file')[j] = IF j = k THEN previous'[j] ELSE current'[j]
      BY DEF FileFollows, FileBehind, Emit
    <2>1. Loaded(file')[j] = current[j]
      BY <1>4 DEF IInv, FileFollows, Emit
    <2> QED
      BY <1>3, <2>1
  <1>8. TableFollows' /\ TmpHoldsTable'
    BY <1>3 DEF TableFollows, TmpHoldsTable, Emit
  <1>9. ResetIsCounted' /\ PosixDropsNothing' /\ CutIsCounted'
    BY DEF IInv, ResetIsCounted, PosixDropsNothing, CutIsCounted, Posix, Emit, gui
  <1> QED
    BY <1>6, <1>7, <1>8, <1>9 DEF IInv

LEMMA LoadIInv ==
    ASSUME IInv, Load
    PROVE  IInv'
  <1>1. Loaded(file) \in Table /\ tbl \in Table /\ key \in Keys /\ tbl[key] \in Values
    BY FileValues DEF IInv, TypeOK, Table
  <1>2. /\ tbl' \in Table /\ tbl'[key] = tbl[key]
        /\ \A j \in Keys : j # key => tbl'[j] = Loaded(file)[j]
    <2>1. tbl' = [Loaded(file) EXCEPT ![key] = tbl[key]]
      BY DEF Load
    <2> QED
      BY <1>1, <2>1 DEF Table
  <1>3. TypeOK'
    BY <1>2 DEF IInv, TypeOK, Load, disk, gui, query, display, ghosts, bounds
  <1>4. FileFollows'
    BY DEF IInv, FileFollows, FileBehind, Load, disk, ghosts, bounds
  <1>5. TableFollows'
    <2> SUFFICES ASSUME resets = 0
                 PROVE  /\ tbl'[key] = current[key]
                        /\ \A j \in Keys \ (dropped \cup {key}) : tbl'[j] = current[j]
      BY DEF TableFollows, Load, ghosts, bounds
    <2>1. FileBehind
      BY DEF IInv, FileFollows, Load
    <2> QED
      BY <1>2, <2>1 DEF IInv, TableFollows, FileBehind, Load
  <1>6. TmpHoldsTable' /\ ResetIsCounted' /\ PosixDropsNothing' /\ CutIsCounted'
    BY DEF IInv, TmpHoldsTable, CutIsCounted, ResetIsCounted, PosixDropsNothing, Posix, Load, gui,
           ghosts, bounds
  <1> QED
    BY <1>3, <1>4, <1>5, <1>6 DEF IInv

LEMMA CutIsAFault ==
    ASSUME IInv, CutWrite
    PROVE  ioErrors' \in 0..MaxIoErrors /\ ioErrors' # 0
  <1>1. ioErrors \in 0..MaxIoErrors /\ ioErrors < MaxIoErrors
        /\ ioErrors' = ioErrors + 1
    BY DEF IInv, TypeOK, CutWrite
  <1> QED
    BY <1>1, StatusAssumption

LEMMA SaveIInv ==
    ASSUME IInv, SaveTmp \/ SaveTmpCut \/ RemoveOld
    PROVE  IInv'
  <1>1. CASE SaveTmp
    <2>1. tmp' \in Contents /\ tmp' # Torn
      BY <1>1, FileValues DEF IInv, TypeOK, SaveTmp, Torn, Holds
    <2>2. TypeOK'
      BY <1>1, <2>1 DEF IInv, TypeOK, SaveTmp, gui, query, display, ghosts, bounds
    <2> QED
      BY <1>1, <2>1, <2>2 DEF IInv, FileFollows, FileBehind, TableFollows,
         TmpHoldsTable, ResetIsCounted, PosixDropsNothing, CutIsCounted, Posix,
         SaveTmp, gui, ghosts, bounds
  <1>3. CASE SaveTmpCut
    <2>1. ioErrors' \in 0..MaxIoErrors /\ ioErrors' # 0 /\ tmp' \in Contents
      BY <1>3, CutIsAFault, FileValues DEF SaveTmpCut
    <2>2. TypeOK'
      BY <1>3, <2>1 DEF IInv, TypeOK, SaveTmpCut, gui, query, display, ghosts
    <2> QED
      BY <1>3, <2>1, <2>2 DEF IInv, FileFollows, FileBehind, TableFollows,
         TmpHoldsTable, ResetIsCounted, PosixDropsNothing, CutIsCounted, Posix,
         SaveTmpCut, gui, ghosts
  <1>2. CASE RemoveOld
    <2>1. file' \in {file, Absent} /\ attached' \in BOOLEAN
      BY <1>2 DEF IInv, TypeOK, RemoveOld
    <2>2. TypeOK'
      BY <1>2, <2>1, FileValues DEF IInv, TypeOK, RemoveOld, query, display,
         ghosts, bounds
    <2> QED
      BY <1>2, <2>1, <2>2 DEF IInv, FileFollows, FileBehind, TableFollows,
         TmpHoldsTable, ResetIsCounted, PosixDropsNothing, CutIsCounted, Posix,
         RemoveOld, ghosts, bounds
  <1> QED
    BY <1>1, <1>2, <1>3

\* An emit is lost: the file stays behind in that key only.
LEMMA DropIInv ==
    ASSUME IInv, wpc # "idle", Drop, wpc = "rename" => file # Absent,
           tmp' \in {tmp, Absent}, ioErrors' \in 0..MaxIoErrors,
           Posix => ioErrors' # 0,
           UNCHANGED <<system, file, tbl, key, gui, current, previous, emits, resets>>
    PROVE  IInv'
  <1>1. TypeOK'
    BY FileValues DEF IInv, TypeOK, Drop, gui, query, display
  <1>2. FileFollows'
    <2> SUFFICES ASSUME resets = 0, NEW j \in Keys \ (dropped \cup {key})
                 PROVE  Loaded(file)[j] = current[j]
      BY DEF FileFollows, Drop
    <2>1. FileBehind
      BY DEF IInv, FileFollows
    <2> QED
      BY <2>1 DEF FileBehind
  <1>3. TableFollows' /\ TmpHoldsTable'
    BY DEF TableFollows, TmpHoldsTable, Drop
  <1>4. ResetIsCounted' /\ PosixDropsNothing' /\ CutIsCounted'
    BY DEF IInv, ResetIsCounted, PosixDropsNothing, CutIsCounted, Posix, Drop, gui
  <1> QED
    BY <1>1, <1>2, <1>3, <1>4 DEF IInv

LEMMA SaveTmpFailsIInv ==
    ASSUME IInv, SaveTmpFails
    PROVE  IInv'
  <1>1. ioErrors \in 0..MaxIoErrors /\ ioErrors < MaxIoErrors
        /\ ioErrors' = ioErrors + 1
    BY DEF IInv, TypeOK, SaveTmpFails
  <1>2. ioErrors' \in 0..MaxIoErrors /\ ioErrors' # 0
    BY <1>1, StatusAssumption
  <1> QED
    BY <1>2, DropIInv DEF SaveTmpFails, disk

\* A cut file in the place of the whole one: every key is lost.
LEMMA RenameTornIInv ==
    ASSUME IInv, Rename, Posix \/ file = Absent, tmp = Torn
    PROVE  IInv'
  <1>1. /\ file' = Torn /\ tmp' = Absent /\ attached' = FALSE
        /\ wpc' = "idle" /\ dropped' = Keys /\ ioErrors' = ioErrors /\ ioErrors # 0
    BY DEF IInv, CutIsCounted, Rename, bounds
  <1>2. TypeOK'
    BY <1>1, FileValues DEF IInv, TypeOK, Rename, query, display, bounds
  <1> QED
    BY <1>1, <1>2 DEF IInv, FileFollows, TableFollows, TmpHoldsTable, ResetIsCounted,
       PosixDropsNothing, CutIsCounted, Posix, Rename, bounds

LEMMA RenameIInv ==
    ASSUME IInv, Rename
    PROVE  IInv'
  <1>1. CASE (Posix \/ file = Absent) /\ tmp # Torn
    <2>1. /\ file' = Holds(tbl) /\ tmp' = Absent /\ attached' = FALSE
          /\ wpc' = "idle" /\ dropped' = dropped \ {key}
      BY <1>1 DEF IInv, TmpHoldsTable, Rename
    <2>2. file' \in Contents /\ tmp' \in Contents /\ Loaded(file') = tbl
      BY <2>1, FileValues DEF IInv, TypeOK
    <2>3. TypeOK'
      BY <2>1, <2>2 DEF IInv, TypeOK, Rename, query, display, bounds
    <2>4. FileFollows'
      <3> SUFFICES ASSUME resets = 0, NEW j \in Keys \ (dropped \ {key})
                   PROVE  tbl[j] = current[j]
        BY <2>1, <2>2 DEF FileFollows, Rename, bounds
      <3> QED
        BY DEF IInv, TableFollows, Rename
    <2>5. TableFollows' /\ TmpHoldsTable'
      BY <2>1 DEF TableFollows, TmpHoldsTable
    <2>6. ResetIsCounted' /\ PosixDropsNothing' /\ CutIsCounted'
      BY <2>1 DEF IInv, ResetIsCounted, PosixDropsNothing, CutIsCounted, Posix, Rename, bounds
    <2> QED
      BY <2>3, <2>4, <2>5, <2>6 DEF IInv
  <1>2. CASE ~Posix /\ file # Absent
    BY <1>2, DropIInv DEF Rename, IInv, TypeOK, gui, bounds
  <1> QED
    BY <1>1, <1>2, RenameTornIInv

-----------------------------------------------------------------------------
(* The GUI                                                                 *)

Looking == \E k \in Keys, t \in BOOLEAN : gpc # "reading" /\ Look(k, t)

LEMMA AsksAreLooks ==
    ASSUME IInv, (\E k \in Keys : Ask(k)) \/ Tick \/ LookAtLogin
    PROVE  Looking
  <1>1. ASSUME NEW k \in Keys, Ask(k) PROVE Looking
    <2>1. gpc # "reading" /\ Look(k, FALSE)
      BY <1>1 DEF Ask
    <2> QED
      BY <2>1, Zenon DEF Looking
  <1>2. CASE Tick
    <2>1. gpc # "reading" /\ Look(Connect, TRUE)
      BY <1>2 DEF Tick
    <2> QED
      BY <2>1, StatusAssumption, Zenon DEF Looking
  <1>3. CASE LookAtLogin
    <2>1. gpc # "reading" /\ Look(Login, TRUE)
      BY <1>3 DEF LookAtLogin
    <2> QED
      BY <2>1, StatusAssumption, Zenon DEF Looking
  <1> QED
    BY <1>1, <1>2, <1>3

\* Nothing that reads or shows the status writes it.
LEMMA LookerIInv ==
    ASSUME IInv, Looking \/ CloseRead \/ StartTimer \/ StopTimer
    PROVE  IInv'
  <1>1. Loaded(file) \in Table
    BY FileValues DEF IInv, TypeOK
  <1>2. /\ UNCHANGED <<system, disk, handler, ghosts, bounds>>
        /\ gpc' # "resetting" \/ gpc' = gpc
    BY DEF Looking, Look, CloseRead, Show, StartTimer, StopTimer
  <1>3. /\ gpc' \in {"idle", "reading", "between", "resetting"}
        /\ asked' \in Keys /\ timed' \in BOOLEAN /\ read' \in Table
        /\ attached' \in BOOLEAN
        /\ polling' \in BOOLEAN
        /\ led' \in {"disconnected", "reconnecting", "connected"}
    <2>1. CASE Looking
      BY <1>1, <2>1 DEF IInv, TypeOK, Looking, Look, display
    <2>2. CASE CloseRead
      BY <2>2 DEF IInv, TypeOK, CloseRead, Show, query
    <2>3. CASE StartTimer \/ StopTimer
      BY <2>3 DEF IInv, TypeOK, StartTimer, StopTimer, query
    <2> QED
      BY <2>1, <2>2, <2>3
  <1>4. TypeOK'
    BY <1>2, <1>3 DEF IInv, TypeOK, disk, handler, ghosts, bounds
  <1> QED
    BY <1>2, <1>4 DEF IInv, FileFollows, FileBehind, TableFollows, TmpHoldsTable,
       ResetIsCounted, PosixDropsNothing, CutIsCounted, Posix, disk, handler, ghosts,
       bounds

LEMMA ResetIInv ==
    ASSUME IInv, OpenToReset \/ CloseReset \/ CloseResetCut
    PROVE  IInv'
  <1>1. CASE OpenToReset
    <2>1. resets \in 0..MaxResets /\ resets < MaxResets /\ resets' = resets + 1
      BY <1>1 DEF IInv, TypeOK, OpenToReset
    <2>2. resets' \in 0..MaxResets /\ resets' # 0
      BY <2>1, StatusAssumption
    <2>3. TypeOK'
      BY <1>1, <2>2, FileValues DEF IInv, TypeOK, OpenToReset, handler, query,
         display, ghosts
    <2> QED
      BY <1>1, <2>2, <2>3 DEF IInv, FileFollows, TableFollows, TmpHoldsTable,
         ResetIsCounted, PosixDropsNothing, CutIsCounted, Posix, OpenToReset,
         handler, ghosts
  <1>2. CASE CloseReset \/ CloseResetCut
    <2>1. /\ EndReset /\ file' \in Contents /\ NoTable \in Table /\ resets # 0
          /\ ioErrors' \in 0..MaxIoErrors
          /\ ioErrors' = ioErrors \/ ioErrors' # 0
      BY <1>2, FileValues, CutIsAFault
         DEF IInv, TypeOK, ResetIsCounted, CloseReset, CloseResetCut, EndReset
    <2>2. TypeOK'
      BY <2>1 DEF IInv, TypeOK, EndReset, handler, query, display
    <2> QED
      BY <2>1, <2>2 DEF IInv, FileFollows, TableFollows, TmpHoldsTable,
         ResetIsCounted, PosixDropsNothing, CutIsCounted, Posix, EndReset, handler
  <1> QED
    BY <1>1, <1>2

LEMMA StutterIInv == IInv /\ UNCHANGED vars => IInv'
  <1> SUFFICES ASSUME IInv, UNCHANGED vars PROVE IInv'
    OBVIOUS
  <1>1. TypeOK'
    BY DEF IInv, TypeOK, vars, disk, handler, gui, query, display, ghosts, bounds
  <1> QED
    BY <1>1 DEF IInv, FileFollows, FileBehind, TableFollows, TmpHoldsTable,
       ResetIsCounted, PosixDropsNothing, CutIsCounted, Posix, vars, disk, handler, gui, ghosts, bounds

LEMMA NextIInv == IInv /\ [Next]_vars => IInv'
  <1> SUFFICES ASSUME IInv, [Next]_vars PROVE IInv'
    OBVIOUS
  <1>1. CASE \E k \in Keys, text \in Texts : Emit(k, text)
    BY <1>1, EmitIInv
  <1>2. CASE Worker
    BY <1>2, LoadIInv, SaveIInv, SaveTmpFailsIInv, RenameIInv DEF Worker
  <1>3. CASE GuiStep
    BY <1>3, AsksAreLooks, LookerIInv, ResetIInv DEF GuiStep
  <1>5. CASE UNCHANGED vars
    BY <1>5, StutterIInv
  <1> QED
    BY <1>1, <1>2, <1>3, <1>5 DEF Next

-----------------------------------------------------------------------------
(* Theorems                                                                *)

\* The inductive invariant: every reachable state satisfies all its parts.
THEOREM InvariantHolds == Spec => []IInv
  BY InitIInv, NextIInv, PTL DEF Spec

\* Every variable of the two processes and the file keeps to its values.
THEOREM TypeCorrect == Spec => []TypeOK
  <1>1. IInv => TypeOK
    BY DEF IInv
  <1> QED
    BY <1>1, InvariantHolds, PTL

\* Between two emits status.lua holds the last emit of every key that no
\* failing or cut write and no refused rename has dropped; POSIX refuses none.
THEOREM KeysKept == Spec => []NoKeyLost
  <1>1. IInv => NoKeyLost
    BY DEF IInv, FileFollows, PosixDropsNothing, NoKeyLost
  <1> QED
    BY <1>1, InvariantHolds, PTL

\* A poll of the GUI, at whatever point of the worker's handler, reads for
\* every key one of its last two values or none at all.
THEOREM RecentRead == Spec => ReadIsRecent
  <1> DEFINE Recent ==
        (Reads /\ resets = 0) =>
            \A k \in Keys \ dropped :
                read'[k] \in {Unknown, previous[k], current[k]}
  <1>1. IInv /\ [Next]_vars => [Recent]_vars
    <2> SUFFICES ASSUME IInv, [Next]_vars, Reads, resets = 0,
                        NEW k \in Keys \ dropped
                 PROVE  read'[k] \in {Unknown, previous[k], current[k]}
      OBVIOUS
    <2>1. Looking
      <3>1. \/ \E j \in Keys : Ask(j)
            \/ Tick \/ LookAtLogin
        BY DEF Next, Reads, Emit, Worker, Load, SaveTmp, SaveTmpCut, SaveTmpFails,
               RemoveOld, Rename, GuiStep, CloseRead, Show, StartTimer, StopTimer,
               OpenToReset, CloseReset, CloseResetCut, EndReset, gui, vars
      <3> QED
        BY <3>1, AsksAreLooks
    <2>2. read' = Loaded(file)
      BY <2>1 DEF Looking, Look
    <2>4. CASE file = Absent
      BY <2>2, <2>4, FileValues DEF NoTable
    <2>3. file # Absent => Loaded(file)[k] \in {previous[k], current[k]}
      BY <2>2 DEF IInv, FileFollows, FileBehind
    <2> QED
      BY <2>2, <2>3, <2>4
  <1> QED
    BY <1>1, InvariantHolds, PTL DEF Spec, ReadIsRecent
=============================================================================
