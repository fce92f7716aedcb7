----------------------------- MODULE Announcer -----------------------------
(***************************************************************************)
(* The announce cycle of core/net.lua (the body of its `while true` loop)  *)
(* with the record of announced releases that core/log.lua keeps twice: as *)
(* lines of log/announced.txt and as the table `releases`, which           *)
(* core/announce.lua consults through an alias to decide what is new.      *)
(*                                                                         *)
(* The worker process may crash between any two steps and starts again     *)
(* from the file.  The login is one step here (module Session has it all); *)
(* announced.txt can be truncated by the rotation, by the start-up check   *)
(* and by hand; it can be removed or replaced while the worker has it      *)
(* open; and a write to it can fail unnoticed.                             *)
(***************************************************************************)
EXTENDS Naturals, FiniteSets

CONSTANTS
    Release,      \* names of directory entries that a rule's filters accept
    NoRelease,    \* what `cur` holds when no release is being handled
    BrokenRule,   \* releases whose rule has no string category or command,
                  \*   and is not in RaisingRule
    RaisingRule,  \* releases whose rule has the alibi check on, and no
                  \*   command or alibi nick to put together
    Bytes,        \* Bytes[r]: length of r's line, line feed included
    MaxLog,       \* cfg.logfilesize
    MaxEntry,     \* no line is longer than this
    FaultKinds,   \* which environment faults may happen
    MaxFaults     \* bound on how often they happen

Faults == {"crash", "link", "diskfull", "denied", "clear", "detach", "growth"}

ASSUME ConstantsAssumption ==
    /\ NoRelease \notin Release
    /\ BrokenRule \subseteq Release
    /\ RaisingRule \subseteq Release \ BrokenRule
    /\ Bytes \in [Release -> Nat]
    /\ MaxLog \in Nat /\ MaxEntry \in Nat
    /\ \A r \in Release : Bytes[r] <= MaxEntry
    /\ FaultKinds \subseteq Faults
    /\ MaxFaults \in Nat

VARIABLES
    shared,     \* releases now in the directories of the active rules
    lines,      \* announced.txt: how many lines name each release
    size,       \* announced.txt: its size in bytes
    path,       \* what the path names: the file that is open ("own"),
                \*   nothing ("gone") or a later file of that name ("other")
    pc,         \* where the worker is
    link,       \* the hub connection as the OS knows it: "up" or "lost"
    due,        \* gettime() >= next_announce
    releases,   \* log.lua's table, and announce.lua's `alreadysent`
    found,      \* what the cycle still has to announce
    cur,        \* the release whose BMSG was sent, until it is recorded
    faults,     \* environment faults so far
    told,       \* ghost: sent to the hub, and not lost from the file since
    unsaved,    \* ghost: in `releases`, but missing from the file by a fault
    orphans,    \* ghost: sent by a process that ended before it wrote the line
    repeats     \* ghost: BMSGs for releases that the hub was told of before

file   == <<lines, size, path>>
memory == <<releases, found, cur>>
ghosts == <<told, unsaved, orphans, repeats>>
vars   == <<shared, file, pc, link, due, memory, faults, ghosts>>

Lines == {r \in Release : lines[r] > 0}

\* A BMSG went out and its line has not been flushed yet.
InFlight == IF pc \in {"rotating", "appending"} THEN {cur} ELSE {}

Running == pc # "off"

\* What net.lua has a BMSG for.
Usable == Release \ (BrokenRule \cup RaisingRule)

PCs == {"off", "login", "waiting", "announcing", "rotating", "appending"}

TypeOK ==
    /\ shared \subseteq Release
    /\ lines \in [Release -> Nat]
    /\ size \in Nat
    /\ path \in {"own", "gone", "other"}
    /\ pc \in PCs
    /\ link \in {"up", "lost"}
    /\ due \in BOOLEAN
    /\ releases \subseteq Release
    /\ found \subseteq Release
    /\ cur \in Release \cup {NoRelease}
    /\ faults \in 0..MaxFaults
    /\ told \subseteq Release
    /\ unsaved \subseteq Release
    /\ orphans \subseteq Release
    /\ repeats \in Nat

Init ==
    /\ shared \in SUBSET Release
    /\ lines = [r \in Release |-> 0]
    /\ size = 0
    /\ path = "own"
    /\ pc = "off"
    /\ link = "lost"
    /\ due = FALSE
    /\ releases = {}
    /\ found = {}
    /\ cur = NoRelease
    /\ faults = 0
    /\ told = {}
    /\ unsaved = {}
    /\ orphans = {}
    /\ repeats = 0

-----------------------------------------------------------------------------
(* log.lua                                                                 *)

\* One more of the faults.
Fault(kind) ==
    /\ kind \in FaultKinds
    /\ faults < MaxFaults
    /\ faults' = faults + 1

EmptyFile == lines' = [r \in Release |-> 0] /\ size' = 0

\* Variant: without pre_rotate.
StartUnchecked ==
    /\ pc = "off"
    /\ releases' = Lines
    /\ unsaved' = {}
    /\ path' = "own"
    /\ pc' = "login"
    /\ UNCHANGED <<shared, lines, size, link, due, found, cur, faults, told,
                   orphans, repeats>>

\* Loading log.lua: pre_rotate truncates an oversized file, and then every
\* line of the file is read into `releases`.  A missing file is created.
Start ==
    /\ pc = "off"
    /\ IF size > MaxLog
         THEN EmptyFile /\ releases' = {} /\ told' = told \ Lines
         ELSE UNCHANGED <<lines, size, told>> /\ releases' = Lines
    /\ unsaved' = {}
    /\ path' = "own"
    /\ pc' = "login"
    /\ UNCHANGED <<shared, link, due, found, cur, faults, orphans, repeats>>

\* Variant: the table is rebound, and announce.lua keeps the old one.
CheckFilesizeRebinds ==
    /\ pc = "rotating" /\ path # "gone"
    /\ IF size > MaxLog
         THEN EmptyFile /\ unsaved' = {} /\ told' = told \ Lines
         ELSE UNCHANGED <<lines, size, told, unsaved>>
    /\ pc' = "appending"
    /\ UNCHANGED <<shared, path, link, due, releases, found, cur, faults,
                   orphans, repeats>>

\* log.release, first half: check_filesize truncates the file and empties
\* the table in place when the file already exceeds the limit.
CheckFilesize ==
    /\ pc = "rotating" /\ path # "gone"
    /\ IF size > MaxLog
         THEN /\ EmptyFile
              /\ releases' = {}
              /\ unsaved' = {}
              /\ told' = told \ Lines
         ELSE UNCHANGED <<lines, size, releases, told, unsaved>>
    /\ pc' = "appending"
    /\ UNCHANGED <<shared, path, link, due, found, cur, faults, orphans, repeats>>

\* Variant: the line is not flushed before the next release.
AppendUnflushed(written) ==
    /\ pc = "appending"
    /\ releases' = releases \cup {cur}
    /\ cur' = NoRelease
    /\ pc' = "announcing"
    /\ UNCHANGED <<shared, file, link, due, found, ghosts>>

\* The process is gone, and with it the line of what was sent but not flushed:
\* the next one will take that release for new.
Die ==
    /\ pc' = "off"
    /\ link' = "lost"
    /\ due' = FALSE
    /\ releases' = {} /\ found' = {} /\ cur' = NoRelease
    /\ unsaved' = {}
    /\ orphans' = orphans \cup InFlight
    /\ UNCHANGED <<shared, file, told, repeats>>

\* check_filesize on a path that names nothing: the size of no attributes is
\* a Lua error, and nothing between here and the frontend catches it.
CheckRaises ==
    /\ pc = "rotating" /\ path = "gone"
    /\ Die
    /\ UNCHANGED faults

\* io.open's result is not looked at: where the file cannot be opened for the
\* rotation, closing nil is a Lua error.
RotationRaises ==
    /\ pc = "rotating" /\ path # "gone" /\ size > MaxLog
    /\ Fault("denied")
    /\ Die

\* Variant: the release is written, and not noted in memory.
AppendForgets(written) ==
    /\ pc = "appending"
    /\ lines' = [lines EXCEPT ![cur] = @ + 1]
    /\ size' = size + Bytes[cur]
    /\ cur' = NoRelease
    /\ pc' = "announcing"
    /\ UNCHANGED <<shared, path, link, due, releases, found, ghosts>>

\* log.release, second half: note the release in memory, write and flush its
\* line.  The results of write and flush are ignored.
AppendLine(written) ==
    /\ pc = "appending"
    /\ releases' = releases \cup {cur}
    /\ IF written
         THEN /\ lines' = [lines EXCEPT ![cur] = @ + 1]
              /\ size' = size + Bytes[cur]
              /\ UNCHANGED <<path, told, unsaved>>
         ELSE /\ unsaved' = unsaved \cup {cur}
              /\ told' = told \ {cur}
              /\ UNCHANGED file
    /\ cur' = NoRelease
    /\ pc' = "announcing"
    /\ UNCHANGED <<shared, link, due, found, orphans, repeats>>

\* Once the path names another file, or none, the line goes where nobody
\* will read it.
Append == AppendLine(path = "own") /\ UNCHANGED faults

-----------------------------------------------------------------------------
(* net.lua's loop and announce.update                                      *)

\* net.loop up to "Login complete." and the pause that follows it;
\* next_announce starts at 0, so the first scan is due at once.
Login ==
    /\ pc = "login"
    /\ link' = "up"
    /\ due' = TRUE
    /\ pc' = "waiting"
    /\ UNCHANGED <<shared, file, memory, faults, ghosts>>

IntervalElapses ==
    /\ pc = "waiting" /\ ~due
    /\ due' = TRUE
    /\ UNCHANGED <<shared, file, pc, link, memory, faults, ghosts>>

\* Variant: "." is taken for a release.
ReleasesAndDot == {r \in shared : r \notin releases} \cup {NoRelease}

\* announce.update: every accepted entry that `alreadysent` does not hold.
NewReleases == {r \in shared : r \notin releases}

Scan ==
    /\ pc = "waiting" /\ due
    /\ found' = NewReleases
    /\ pc' = "announcing"
    /\ UNCHANGED <<shared, file, link, due, releases, cur, faults, ghosts>>

\* Variant: a broken rule ends the cycle.
SkipBrokenAll(r) ==
    /\ pc = "announcing"
    /\ r \in found \cap BrokenRule
    /\ found' = {}
    /\ UNCHANGED <<shared, file, pc, link, due, releases, cur, faults, ghosts>>

\* No valid category or command: logged and left alone.  (The variable `cfg`
\* of the loop is the rule.)
SkipBroken(r) ==
    /\ pc = "announcing"
    /\ r \in found \cap BrokenRule
    /\ found' = found \ {r}
    /\ UNCHANGED <<shared, file, pc, link, due, releases, cur, faults, ghosts>>

\* The alibi check comes before the check of the types: to put a command and a
\* nick together of which one is nil is a Lua error.  pairs(found) may come to
\* such a release first, and every scan of the next process finds it again.
ConcatRaises(r) ==
    /\ pc = "announcing"
    /\ r \in found \cap RaisingRule
    /\ Die
    /\ UNCHANGED faults

\* client:send of the BMSG succeeds.  On a lost link it still may: the data
\* is then only buffered.
SendRelease(r) ==
    /\ pc = "announcing"
    /\ r \in found \cap Usable
    /\ found' = found \ {r}
    /\ cur' = r
    /\ told' = told \cup {r}
    /\ pc' = "rotating"
    /\ repeats' = IF r \in told THEN repeats + 1 ELSE repeats
    /\ orphans' = orphans \ {r}
    /\ UNCHANGED <<shared, file, link, due, releases, faults, unsaved>>

\* net.loop returns false; the frontend sleeps and calls it again, with a
\* new `found` and the same log module.
LeaveLoop ==
    /\ found' = {}
    /\ pc' = "login"
    /\ UNCHANGED <<shared, file, link, due, releases, cur, faults, ghosts>>

SendFails ==
    /\ pc = "announcing" /\ link = "lost"
    /\ found \cap Usable # {}
    /\ LeaveLoop

KeepAlive ==
    /\ pc = "announcing" /\ found = {}
    /\ due' = FALSE
    /\ pc' = "waiting"
    /\ UNCHANGED <<shared, file, link, memory, faults, ghosts>>

KeepAliveFails ==
    /\ pc = "announcing" /\ found = {} /\ link = "lost"
    /\ LeaveLoop

\* The poll between two scans reads neither a frame nor "nothing yet".
PollLost ==
    /\ pc = "waiting" /\ link = "lost"
    /\ LeaveLoop

-----------------------------------------------------------------------------
(* The environment                                                         *)

Share(r) ==
    /\ r \notin shared
    /\ shared' = shared \cup {r}
    /\ UNCHANGED <<file, pc, link, due, memory, faults, ghosts>>

Withdraw(r) ==
    /\ r \in shared
    /\ shared' = shared \ {r}
    /\ UNCHANGED <<file, pc, link, due, memory, faults, ghosts>>

LinkLost ==
    /\ Fault("link")
    /\ link = "up"
    /\ link' = "lost"
    /\ UNCHANGED <<shared, file, pc, due, memory, ghosts>>

Crash == Fault("crash") /\ Running /\ Die

\* The line cannot be written: no space left on the device.
AppendFails == Fault("diskfull") /\ AppendLine(FALSE)

\* The operator empties announced.txt, the worker running or not.
ClearFile ==
    /\ Fault("clear")
    /\ Lines # {}
    /\ EmptyFile
    /\ unsaved' = IF Running THEN unsaved \cup Lines ELSE {}
    /\ told' = told \ Lines
    /\ UNCHANGED <<shared, path, pc, link, due, memory, orphans, repeats>>

\* The operator removes announced.txt, or puts an empty one in its place,
\* while the worker has it open.
DetachFile ==
    /\ Fault("detach")
    /\ Running /\ path = "own"
    /\ path' \in {"gone", "other"}
    /\ EmptyFile
    /\ unsaved' = unsaved \cup Lines
    /\ told' = told \ Lines
    /\ UNCHANGED <<shared, pc, link, due, memory, orphans, repeats>>

\* Something else appends to the file while the announcer is offline.
OfflineGrowth ==
    /\ Fault("growth")
    /\ pc = "off"
    /\ size' = size + MaxLog + 1
    /\ UNCHANGED <<shared, lines, path, pc, link, due, memory, ghosts>>

-----------------------------------------------------------------------------

Worker ==
    \/ CheckFilesize \/ CheckRaises \/ Append
    \/ Login \/ IntervalElapses \/ Scan
    \/ \E r \in Release : SkipBroken(r) \/ ConcatRaises(r) \/ SendRelease(r)
    \/ SendFails \/ KeepAlive \/ KeepAliveFails \/ PollLost

Environment ==
    \/ \E r \in Release : Share(r) \/ Withdraw(r)
    \/ LinkLost \/ Crash \/ RotationRaises
    \/ AppendFails \/ ClearFile \/ DetachFile \/ OfflineGrowth

Next == Start \/ Worker \/ Environment

\* The worker is one sequential process that never blocks for ever: every
\* socket call has a timeout and every sleep ends.  Nothing is assumed of the
\* environment, nor that somebody starts the announcer (again).
Spec == Init /\ [][Next]_vars /\ WF_vars(Worker)

-----------------------------------------------------------------------------
(* Properties                                                              *)

\* The table that decides what is new is exactly the file's content, plus
\* what a fault kept from the file: through rotation, restart and failed
\* writes (log.lua's in-place clearing of `releases`, its issue 42).
Coherent == Running => releases = Lines \cup unsaved

\* The file holds exactly the announcements not excused by a fault or a
\* rotation, but for the one between its send and its flush and for those of
\* processes that ended there: nothing is recorded that was not sent, nothing
\* sent goes unrecorded.  Every announcement that an ending process leaves
\* without a line, and so every one that the hub then gets again, costs a
\* fault of its own: no end of a process ever takes two.
Truthful ==
    /\ told = Lines \cup InFlight \cup orphans
    /\ Cardinality(orphans) + repeats <= faults

\* No release has two lines in announced.txt.
NoDuplicateLine == \A r \in Release : lines[r] <= 1

\* Once the start-up check is over, announced.txt exceeds the limit by less
\* than one line, however long the announcer runs.
SizeBound == Running => size <= MaxLog + MaxEntry

\* A BMSG for a release goes out only if the hub was not told of it before,
\* or the record of that was lost since to a rotation or a fault, or the
\* process that told it ended before it could record it.
Sends(r) == pc = "announcing" /\ pc' = "rotating" /\ cur' = r
NoRepeat == [][\A r \in Release : Sends(r) => r \notin told \ orphans]_vars

\* An announcer that is always started again announces, in the end, every
\* release that stays in a watched directory and whose rule is usable (or did
\* already, and a fault removed its line), whatever the finitely many faults
\* and whatever else its scans find: releases whose rule is broken do not keep
\* it from the others.  It cannot where the alibi check raises: that ends the
\* process at every scan, so that it is excluded here.
EveryReleaseAnnounced ==
    []<>Running /\ <>[](shared \cap RaisingRule = {}) =>
        \A r \in Usable :
            r \in shared ~> (r \in told \cup unsaved \/ r \notin shared)
=============================================================================
