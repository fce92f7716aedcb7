---------------------------- MODULE StatusFile -----------------------------
(***************************************************************************)
(* core/status.lua, the file through which the GUI's spawned worker tells  *)
(* the GUI how the login goes: the worker's "status" handler               *)
(* (frontends/gui/spawned_worker.lua), savetable_atomic, savetable and     *)
(* loadtable of core/util.lua, and the GUI's get_status, reset_status and  *)
(* conn_status_timer, which drives the status bar and the LED.             *)
(* Two processes share the file without a lock.  On Windows a file that is *)
(* open can be neither removed nor replaced; on POSIX it can.              *)
(***************************************************************************)
EXTENDS Naturals, FiniteSets

CONSTANTS
    Keys,        \* status keys
    Connect,     \* the key "hubconnect"
    Login,       \* the key "hublogin"
    Texts,       \* what the worker emits
    Failing,     \* the texts that hold the word "Fail"
    Complete,    \* "Login complete."
    Unknown,     \* get_status's "" : no such key, or no readable table
    Systems,     \* operating systems: which of "posix" and "windows"
    MaxEmits,    \* bound on the worker's emits
    MaxResets,   \* bound on the GUI's resets
    MaxIoErrors  \* bound on failing or cut writes of a file

ASSUME StatusAssumption ==
    /\ Connect \in Keys /\ Login \in Keys
    /\ Failing \subseteq Texts /\ Complete \in Texts \ Failing
    /\ Unknown \notin Texts
    /\ Systems \subseteq {"posix", "windows"}
    /\ MaxEmits \in Nat /\ MaxResets \in Nat /\ MaxIoErrors \in Nat

VARIABLES
    system,    \* the operating system: never changes
    file,      \* what a reader of status.lua finds
    tmp,       \* what a reader of status.lua.tmp would find
    wpc,       \* the worker, inside its "status" handler
    tbl,       \* the handler's local table
    key,       \* the key it was called with
    gpc,       \* the GUI: "idle", "reading", "between" (the timer's handler,
               \*   after the first key) or "resetting"
    asked,     \* the key that get_status was last called for
    timed,     \* by the timer's handler, and not by start_process
    read,      \* what it read of the file
    attached,  \* the GUI's open file is still the one that the path names
    polling,   \* conn_status_timer is running
    led,       \* what the LED and the status bar show
    current,   \* ghost: the last value emitted, or reset, for each key
    previous,  \* ghost: the one before it
    dropped,   \* ghost: keys whose last emit never reached the file
    emits, resets, ioErrors

disk    == <<file, tmp>>
handler == <<wpc, tbl, key>>
query   == <<asked, timed, read>>
display == <<polling, led>>
gui     == <<gpc, query, attached, display>>
ghosts  == <<current, previous, dropped>>
bounds  == <<emits, resets, ioErrors>>
vars    == <<system, disk, handler, gui, ghosts, bounds>>

Posix   == system = "posix"

Values  == Texts \cup {Unknown}
Table   == [Keys -> Values]
NoTable == [k \in Keys |-> Unknown]

\* A file is absent, torn (truncated, not yet written again) or a table.
Absent   == [kind |-> "absent"]
Torn     == [kind |-> "torn"]
Holds(t) == [kind |-> "table", rows |-> t]
Contents == {Absent, Torn} \cup {Holds(t) : t \in Table}

\* Variant: the error text is taken for the status.
LoadedOrError(f) ==
    IF f.kind = "table" THEN f.rows ELSE [k \in Keys |-> "load error"]

\* util.loadtable, with its callers' `or { }` and `or ""`.
Loaded(f) == IF f.kind = "table" THEN f.rows ELSE NoTable

TypeOK ==
    /\ system \in Systems
    /\ file \in Contents /\ tmp \in Contents
    /\ wpc \in {"idle", "load", "save", "remove", "rename"}
    /\ tbl \in Table
    /\ key \in Keys
    /\ gpc \in {"idle", "reading", "between", "resetting"}
    /\ asked \in Keys /\ timed \in BOOLEAN /\ read \in Table
    /\ attached \in BOOLEAN
    /\ polling \in BOOLEAN
    /\ led \in {"disconnected", "reconnecting", "connected"}
    /\ current \in Table /\ previous \in Table
    /\ dropped \subseteq Keys
    /\ emits \in 0..MaxEmits /\ resets \in 0..MaxResets
    /\ ioErrors \in 0..MaxIoErrors

\* The GUI was closed in order before: status.lua holds an empty table, or,
\* on a fresh installation, does not exist.
Init ==
    /\ system \in Systems
    /\ file \in {Absent, Holds(NoTable)}
    /\ tmp = Absent
    /\ wpc = "idle" /\ tbl = NoTable /\ key \in Keys
    /\ gpc = "idle" /\ asked = Connect /\ timed = FALSE /\ read = NoTable
    /\ attached = FALSE
    /\ polling = FALSE /\ led = "disconnected"
    /\ current = NoTable /\ previous = NoTable
    /\ dropped = {}
    /\ emits = 0 /\ resets = 0 /\ ioErrors = 0

-----------------------------------------------------------------------------
(* The worker's handler                                                    *)

\* events.emit calls the handler, which creates the file if there is none.
Emit(k, text) ==
    /\ wpc = "idle" /\ emits < MaxEmits
    /\ file' = IF file = Absent THEN Torn ELSE file
    /\ wpc' = "load"
    /\ key' = k
    /\ tbl' = [NoTable EXCEPT ![k] = text]
    /\ previous' = [previous EXCEPT ![k] = current[k]]
    /\ current' = [current EXCEPT ![k] = text]
    /\ emits' = emits + 1
    /\ UNCHANGED <<system, tmp, gui, dropped, resets, ioErrors>>

\* Variants: the table on file is not read first; it wins over the emit.
LoadNothing ==
    /\ wpc = "load"
    /\ wpc' = "save"
    /\ UNCHANGED <<system, disk, tbl, key, gui, ghosts, bounds>>

LoadKeepsFirst ==
    /\ wpc = "load"
    /\ tbl' = [Loaded(file) EXCEPT ![key] = IF @ = Unknown THEN tbl[key] ELSE @]
    /\ wpc' = "save"
    /\ UNCHANGED <<system, disk, key, gui, ghosts, bounds>>

Load ==
    /\ wpc = "load"
    /\ tbl' = [Loaded(file) EXCEPT ![key] = tbl[key]]
    /\ wpc' = "save"
    /\ UNCHANGED <<system, disk, key, gui, ghosts, bounds>>

\* The handler ends, and the emit is lost.  savetable_atomic returned false
\* and a reason; nobody looks at them.
Drop == wpc' = "idle" /\ dropped' = dropped \cup {key}

\* savetable looks at the result of io.open only: where a write or the close
\* fails, on a full disk, the file is cut and savetable says TRUE.
CutWrite == ioErrors < MaxIoErrors /\ ioErrors' = ioErrors + 1

SaveTmp ==
    /\ wpc = "save"
    /\ tmp' = Holds(tbl)
    /\ wpc' = "remove"
    /\ UNCHANGED <<system, file, tbl, key, gui, ghosts, bounds>>

SaveTmpCut ==
    /\ wpc = "save" /\ CutWrite
    /\ tmp' = Torn
    /\ wpc' = "remove"
    /\ UNCHANGED <<system, file, tbl, key, gui, ghosts, emits, resets>>

\* The temporary file cannot even be opened.
SaveTmpFails ==
    /\ wpc = "save" /\ ioErrors < MaxIoErrors
    /\ ioErrors' = ioErrors + 1
    /\ Drop
    /\ UNCHANGED <<system, disk, tbl, key, gui, current, previous, emits, resets>>

\* On Windows the GUI's open file keeps status.lua from being removed.
InUse == ~Posix /\ gpc \in {"reading", "resetting"} /\ attached

RemoveOld ==
    /\ wpc = "remove"
    /\ IF InUse
         THEN UNCHANGED <<file, attached>>
         ELSE file' = Absent /\ attached' = FALSE
    /\ wpc' = "rename"
    /\ UNCHANGED <<system, tmp, tbl, key, gpc, query, display, ghosts, bounds>>

\* Windows refuses to rename onto an existing file.  A cut temporary file takes
\* the place of the whole one like any other: with it go all the keys.
Rename ==
    /\ wpc = "rename"
    /\ tmp' = Absent
    /\ IF Posix \/ file = Absent
         THEN /\ file' = tmp
              /\ attached' = FALSE
              /\ wpc' = "idle"
              /\ dropped' = IF tmp = Torn THEN Keys ELSE dropped \ {key}
         ELSE Drop /\ UNCHANGED <<file, attached>>
    /\ UNCHANGED <<system, tbl, key, gpc, query, display, current, previous, bounds>>

-----------------------------------------------------------------------------
(* The GUI: one thread, so that its handlers exclude each other            *)

\* get_status opens the file, if there is one, and reads all of it.
Look(k, byTimer) ==
    /\ gpc' = "reading"
    /\ asked' = k
    /\ timed' = byTimer
    /\ read' = Loaded(file)
    /\ attached' = (file # Absent)
    /\ UNCHANGED <<system, disk, handler, display, ghosts, bounds>>

\* A check of start_process.
Ask(k) == gpc = "idle" /\ Look(k, FALSE)

\* conn_status_timer fires; its handler looks at hubconnect first.
Tick == gpc = "idle" /\ polling /\ Look(Connect, TRUE)

\* Variant: a LED that is lit stays lit.
ShowOnce(text) ==
    IF asked = Connect
      THEN IF text \in Failing /\ led = "disconnected"
             THEN led' = "reconnecting" /\ gpc' = "idle"
             ELSE gpc' = "between" /\ UNCHANGED led
      ELSE /\ led' = IF text = Complete THEN "connected" ELSE led
           /\ gpc' = "idle"

\* What the timer's handler makes of what it has read: a failed connection is
\* the end of it, and otherwise it looks at hublogin.
Show(text) ==
    IF asked = Connect
      THEN IF text \in Failing
             THEN led' = "reconnecting" /\ gpc' = "idle"
             ELSE gpc' = "between" /\ UNCHANGED led
      ELSE /\ led' = IF text = Complete THEN "connected" ELSE led
           /\ gpc' = "idle"

\* The file is closed, and get_status returns what it holds for the key.
CloseRead ==
    /\ gpc = "reading"
    /\ IF timed THEN Show(read[asked]) ELSE gpc' = "idle" /\ UNCHANGED led
    /\ UNCHANGED <<system, disk, handler, query, attached, polling, ghosts, bounds>>

LookAtLogin == gpc = "between" /\ Look(Login, TRUE)

\* start_timer, at CONNECT.
StartTimer ==
    /\ gpc = "idle"
    /\ polling' = TRUE
    /\ UNCHANGED <<system, disk, handler, gpc, query, attached, led, ghosts, bounds>>

\* stop_timer, at DISCONNECT, which turns the LED red, and at a failed start,
\* which does not; and the end of a worker, be it an older one.
StopTimer ==
    /\ gpc = "idle"
    /\ polling' = FALSE
    /\ led' \in {"disconnected", led}
    /\ UNCHANGED <<system, disk, handler, gpc, query, attached, ghosts, bounds>>

\* reset_status uses savetable, which truncates the file before it writes.
OpenToReset ==
    /\ gpc = "idle" /\ resets < MaxResets
    /\ gpc' = "resetting"
    /\ file' = Torn
    /\ attached' = TRUE
    /\ resets' = resets + 1
    /\ UNCHANGED <<system, tmp, handler, query, display, ghosts, emits, ioErrors>>

EndReset ==
    /\ gpc = "resetting"
    /\ gpc' = "idle"
    /\ previous' = current
    /\ current' = NoTable
    /\ UNCHANGED <<system, tmp, handler, query, attached, display, dropped,
                   emits, resets>>

CloseReset ==
    /\ EndReset
    /\ file' = IF attached THEN Holds(NoTable) ELSE file
    /\ UNCHANGED ioErrors

\* Cut: what was truncated stays so.
CloseResetCut == EndReset /\ CutWrite /\ UNCHANGED file

-----------------------------------------------------------------------------

Worker == Load \/ SaveTmp \/ SaveTmpCut \/ SaveTmpFails \/ RemoveOld \/ Rename

GuiStep ==
    \/ \E k \in Keys : Ask(k)
    \/ Tick \/ CloseRead \/ LookAtLogin
    \/ StartTimer \/ StopTimer
    \/ OpenToReset \/ CloseReset \/ CloseResetCut

Next ==
    \/ \E k \in Keys, text \in Texts : Emit(k, text)
    \/ Worker \/ GuiStep

\* A handler that has begun ends, the worker's and the GUI's.  A timer that is
\* running fires between two other events: it fires again and again while the
\* GUI is idle again and again.  Nothing keeps it from being stopped.
Spec == Init /\ [][Next]_vars /\ WF_vars(Worker)
             /\ SF_vars(Tick) /\ WF_vars(CloseRead \/ LookAtLogin)
             /\ WF_vars(CloseReset \/ CloseResetCut)

-----------------------------------------------------------------------------
(* Properties                                                              *)

\* Between two emits the file holds every key's last emit, except those that
\* an I/O problem dropped: an emit of one key never loses another (with one
\* worker, and no reset while it runs).  A write that cannot begin drops its
\* own key; one that is cut drops all of them, each until it is told again.
\* On POSIX, where an open file can be replaced, nothing else drops any, even
\* beside a reset by the GUI.
NoKeyLost ==
    /\ (resets = 0 /\ wpc = "idle") =>
           \A k \in Keys \ dropped : Loaded(file)[k] = current[k]
    /\ (Posix /\ ioErrors = 0) => dropped = {}

\* What a poll reads for a key is "unknown" or one of the last two values:
\* never a torn table's leftovers and never an older state of the login.
Reads == gpc # "reading" /\ gpc' = "reading"
ReadIsRecent ==
    [][(Reads /\ resets = 0) =>
         \A k \in Keys \ dropped :
             read'[k] \in {Unknown, previous[k], current[k]}]_vars

\* As long as the timer runs, the LED comes to show what the worker told last:
\* that it is reconnecting, or that it is connected and logged in.  Once the
\* timer is stopped, nobody looks any more.
SeenConverges ==
    <>[]polling =>
        <>[]((resets = 0 /\ Connect \notin dropped) =>
               /\ current[Connect] \in Failing => led = "reconnecting"
               /\ (/\ current[Connect] \notin Failing
                   /\ Login \notin dropped /\ current[Login] = Complete)
                  => led = "connected")
=============================================================================
