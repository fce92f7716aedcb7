---------------------------- MODULE GuiControl -----------------------------
(***************************************************************************)
(* The GUI's control of the announcer (frontends/gui/Announcer.wx.lua):    *)
(* the CONNECT and DISCONNECT buttons, start_process with its checks of    *)
(* core/status.lua, kill_process, the end-of-process event, the timer that *)
(* drives the connection LED, and the exit of the application.  A worker   *)
(* (spawned_worker.lua, module Session) is abstracted to the stages that   *)
(* the GUI can tell apart, and status.lua (module StatusFile) to the last  *)
(* value of four groups of keys.                                           *)
(*                                                                         *)
(* start_process sleeps inside the event handler: while it runs, neither   *)
(* timer nor end-of-process events are handled, and the worker goes on.    *)
(***************************************************************************)
EXTENDS Naturals, FiniteSets

CONSTANTS
    MaxWorkers,   \* bound on how many workers are spawned
    MaxKillFails, \* bound on kills that fail
    Timings       \* what the environment may be assumed to do

\* "workers": a worker has settled before each check of start_process.
\* "events": an end-of-process event is handled before the next click.
\* "status": status.lua is blank when the GUI starts.
ASSUME GuiAssumption ==
    /\ MaxWorkers \in Nat \ {0} /\ MaxKillFails \in Nat
    /\ Timings \subseteq SUBSET {"workers", "events", "status"}

Worker == 1..MaxWorkers

VARIABLES
    assumed,     \* what the environment does in time: never changes
    stage,       \* each worker's stage
    spawned,     \* how many workers were spawned
    ended,       \* workers whose end-of-process event is not handled yet
    status,      \* core/status.lua
    pid,         \* the GUI's `pid`: the worker it believes in, or 0
    gpc,         \* the event loop, the next check of start_process, or closed
    buttons,     \* which of CONNECT and DISCONNECT are enabled
    protected,   \* the settings pages and the Clear buttons are locked
    timer,       \* conn_status_timer runs
    led,         \* the connection LED
    killFails    \* failed kills so far

gui  == <<pid, buttons, protected, timer, led>>
vars == <<assumed, stage, spawned, ended, status, gpc, gui, killFails>>

\* The groups of keys, in the order start_process checks them: hubconnect;
\* hubhandshake; hubkeyp to hubsalt; hublogin.
Groups == {"connect", "handshake", "middle", "login"}
Blank  == [g \in Groups |-> ""]

Alive   == {"connecting", "handshaking", "joining", "entering", "online"}
Running == {w \in Worker : stage[w] \in Alive}
Checks  == Groups

TypeOK ==
    /\ assumed \in Timings
    /\ stage \in [Worker -> Alive \cup {"unused", "exited"}]
    /\ spawned \in 0..MaxWorkers
    /\ ended \subseteq Worker
    /\ status \in [Groups -> {"", "ok", "Fail"}]
    /\ pid \in 0..MaxWorkers
    /\ gpc \in {"idle", "closed"} \cup Checks
    /\ buttons \subseteq {"CONNECT", "DISCONNECT"}
    /\ protected \in BOOLEAN
    /\ timer \in BOOLEAN
    /\ led \in {"connected", "reconnecting", "disconnected"}
    /\ killFails \in 0..MaxKillFails

\* status.lua is blank after an orderly exit; a GUI that was killed leaves
\* its last content behind.
Init ==
    /\ assumed \in Timings
    /\ stage = [w \in Worker |-> "unused"]
    /\ spawned = 0
    /\ ended = {}
    /\ status \in {Blank, [g \in Groups |-> "ok"]}
    /\ "status" \in assumed => status = Blank
    /\ pid = 0
    /\ gpc = "idle"
    /\ buttons = {"CONNECT"}
    /\ protected = FALSE
    /\ timer = FALSE
    /\ led = "disconnected"
    /\ killFails = 0

-----------------------------------------------------------------------------
(* The workers                                                             *)

Emit(g, value) == status' = [status EXCEPT ![g] = value]

Moves(w, from, to) ==
    /\ stage[w] = from
    /\ stage' = [stage EXCEPT ![w] = to]
    /\ UNCHANGED <<assumed, spawned, gpc, gui, killFails>>

\* One stage of the login succeeds, and tells so.
Advance(w) ==
    /\ UNCHANGED ended
    /\ \/ Moves(w, "connecting", "handshaking") /\ Emit("connect", "ok")
       \/ Moves(w, "handshaking", "joining") /\ Emit("handshake", "ok")
       \/ Moves(w, "joining", "entering") /\ Emit("middle", "ok")
       \/ Moves(w, "entering", "online") /\ Emit("login", "ok")

\* A transient failure: the worker says so and connects again.  The last
\* login frame that cannot be sent is not told.
Retry(w) ==
    /\ UNCHANGED ended
    /\ \/ Moves(w, "connecting", "connecting") /\ Emit("connect", "Fail")
       \/ Moves(w, "handshaking", "connecting") /\ Emit("handshake", "Fail")
       \/ Moves(w, "joining", "connecting") /\ Emit("middle", "Fail")
       \/ Moves(w, "entering", "connecting")
          /\ (Emit("login", "Fail") \/ UNCHANGED status)

\* The session is lost: told when the poll finds out, not told when a send
\* does.
LoseSession(w) ==
    /\ UNCHANGED ended
    /\ Moves(w, "online", "connecting")
    /\ Emit("connect", "Fail") \/ UNCHANGED status

Exits(w) == ended' = ended \cup {w}

\* A fatal refusal; a missing SID or INF is not told.
Fatal(w) ==
    /\ \/ Moves(w, "joining", "exited")
          /\ (Emit("middle", "Fail") \/ UNCHANGED status)
       \/ Moves(w, "entering", "exited") /\ Emit("login", "Fail")
    /\ Exits(w)

\* A Lua error that nothing catches, or a crash: from any stage, and nothing
\* of it reaches status.lua.
Dies(w) ==
    /\ \E from \in Alive : Moves(w, from, "exited")
    /\ Exits(w)
    /\ UNCHANGED status

WorkerStep(w) ==
    Advance(w) \/ Retry(w) \/ LoseSession(w) \/ Fatal(w) \/ Dies(w)

-----------------------------------------------------------------------------
(* kill_process                                                            *)

\* The kill may fail, and then the worker stays.
Kill(p) ==
    \/ /\ p \in Running
       /\ stage' = [stage EXCEPT ![p] = "exited"]
       /\ Exits(p)
       /\ UNCHANGED killFails
    \/ /\ p \in Running
       /\ killFails < MaxKillFails
       /\ killFails' = killFails + 1
       /\ UNCHANGED <<stage, ended>>
    \/ /\ p \notin Running
       /\ UNCHANGED <<stage, ended, killFails>>

\* Whether or not something was killed, status.lua is blanked.
KillProcess(p) == Kill(p) /\ status' = Blank

-----------------------------------------------------------------------------
(* start_process                                                           *)

ClickConnect ==
    /\ gpc = "idle" /\ "CONNECT" \in buttons
    /\ spawned < MaxWorkers
    /\ "events" \in assumed => ended = {}
    /\ spawned' = spawned + 1
    /\ pid' = spawned + 1
    /\ stage' = [stage EXCEPT ![spawned + 1] = "connecting"]
    /\ buttons' = buttons \ {"CONNECT"}
    /\ protected' = TRUE
    /\ timer' = TRUE
    /\ gpc' = "connect"
    /\ UNCHANGED <<assumed, ended, status, led, killFails>>

Good(g) == status[g] = "ok"

\* The worker has come as far as it will, if workers are that quick.
Settled ==
    "workers" \in assumed => \A w \in Running : stage[w] = "online"

\* Variant: `pid` is kept.
NotRunningKeepsPid ==
    /\ buttons' = {"CONNECT"}
    /\ protected' = FALSE
    /\ timer' = FALSE
    /\ gpc' = "idle"
    /\ UNCHANGED <<pid, led>>

\* The end of start_process when a check failed: `pid` is set to 0 before
\* kill_process is called with it.
NotRunning ==
    /\ pid' = 0
    /\ buttons' = {"CONNECT"}
    /\ protected' = FALSE
    /\ timer' = FALSE
    /\ gpc' = "idle"
    /\ UNCHANGED led

CheckPassed(g, next) ==
    /\ gpc = g /\ Settled /\ Good(g)
    /\ gpc' = next
    /\ UNCHANGED <<assumed, stage, spawned, ended, status, gui, killFails>>

\* hubconnect and hubhandshake: the worker is killed before that.
EarlyCheckFailed ==
    /\ gpc \in {"connect", "handshake"} /\ Settled /\ ~Good(gpc)
    /\ KillProcess(pid)
    /\ NotRunning
    /\ UNCHANGED <<assumed, spawned>>

MiddleCheckFailed ==
    /\ gpc = "middle" /\ Settled /\ ~Good("middle")
    /\ KillProcess(0)
    /\ NotRunning
    /\ UNCHANGED <<assumed, spawned>>

LoginCheckPassed ==
    /\ gpc = "login" /\ Settled /\ Good("login")
    /\ buttons' = buttons \cup {"DISCONNECT"}
    /\ gpc' = "idle"
    /\ UNCHANGED <<assumed, stage, spawned, ended, status, pid, protected, timer, led,
                   killFails>>

\* A missing or failed login is only logged.
LoginCheckFailed ==
    /\ gpc = "login" /\ Settled /\ ~Good("login")
    /\ gpc' = "idle"
    /\ UNCHANGED <<assumed, stage, spawned, ended, status, gui, killFails>>

StartProcess ==
    \/ CheckPassed("connect", "handshake")
    \/ CheckPassed("handshake", "middle")
    \/ CheckPassed("middle", "login")
    \/ EarlyCheckFailed \/ MiddleCheckFailed
    \/ LoginCheckPassed \/ LoginCheckFailed

-----------------------------------------------------------------------------
(* The event loop                                                          *)

\* Variant: `pid` is set to 0 first, as start_process does.
ClickDisconnectZeroFirst ==
    /\ gpc = "idle" /\ "DISCONNECT" \in buttons
    /\ buttons' = {"CONNECT"}
    /\ protected' = FALSE
    /\ timer' = FALSE
    /\ led' = "disconnected"
    /\ pid' = 0
    /\ KillProcess(0)
    /\ UNCHANGED <<assumed, spawned, gpc>>

ClickDisconnect ==
    /\ gpc = "idle" /\ "DISCONNECT" \in buttons
    /\ buttons' = {"CONNECT"}
    /\ protected' = FALSE
    /\ timer' = FALSE
    /\ led' = "disconnected"
    /\ KillProcess(pid)
    /\ UNCHANGED <<assumed, spawned, pid, gpc>>

\* Variant: the LED is left as it is.
EndProcessKeepsLed(w) ==
    /\ gpc = "idle" /\ w \in ended
    /\ ended' = ended \ {w}
    /\ pid' = 0
    /\ timer' = FALSE
    /\ UNCHANGED <<assumed, stage, spawned, status, gpc, buttons, protected, led,
                   killFails>>

\* The end-of-process event of any worker: the handler does not ask which.
EndProcess(w) ==
    /\ gpc = "idle" /\ w \in ended
    /\ ended' = ended \ {w}
    /\ pid' = 0
    /\ timer' = FALSE
    /\ led' = "disconnected"
    /\ UNCHANGED <<assumed, stage, spawned, status, gpc, buttons, protected, killFails>>

\* Variant: the status text itself becomes the state of the LED.
TimerTickRaw ==
    /\ gpc = "idle" /\ timer
    /\ led' = IF status["connect"] = "Fail" THEN "reconnecting"
              ELSE status["login"]
    /\ UNCHANGED <<assumed, stage, spawned, ended, status, gpc, pid, buttons, protected,
                   timer, killFails>>

\* conn_status_timer, every two seconds.
TimerTick ==
    /\ gpc = "idle" /\ timer
    /\ led' = IF status["connect"] = "Fail" THEN "reconnecting"
              ELSE IF status["login"] = "ok" THEN "connected"
              ELSE led
    /\ UNCHANGED <<assumed, stage, spawned, ended, status, gpc, pid, buttons, protected,
                   timer, killFails>>

\* HandleAppExit, and the destruction of the frame.
Exit ==
    /\ gpc = "idle"
    /\ gpc' = "closed"
    /\ KillProcess(pid)
    /\ pid' = 0
    /\ timer' = FALSE
    /\ UNCHANGED <<assumed, spawned, buttons, protected, led>>

\* Nothing is left to do: the GUI is closed and no worker runs.
Closed == gpc = "closed" /\ Running = {} /\ UNCHANGED vars

Next ==
    \/ \E w \in Worker : WorkerStep(w) \/ EndProcess(w)
    \/ ClickConnect \/ StartProcess \/ ClickDisconnect
    \/ TimerTick \/ Exit \/ Closed

Spec == Init /\ [][Next]_vars

-----------------------------------------------------------------------------
(* Properties                                                              *)

\* While no worker runs and no event is outstanding, the LED is red and its
\* timer is off: it never sits on the state of a session that has ended.
RedWhenNothingRuns ==
    (gpc = "idle" /\ Running = {} /\ ended = {}) =>
        led = "disconnected" /\ ~timer

\* A second announcer cannot be started, nor the settings or log files of a
\* running one be changed, while the GUI knows of a worker that runs (and no
\* kill has failed).
KnownWorkerIsExclusive ==
    (gpc # "closed" /\ pid \in Running /\ killFails = 0) =>
        protected /\ "CONNECT" \notin buttons

\* If workers settle before the GUI looks at their status, and their ends are
\* handled in time, the GUI never loses one: whatever runs, it can stop, and
\* that whatever an earlier GUI left behind in status.lua.
NoOrphan ==
    ({"workers", "events"} \subseteq assumed /\ killFails = 0) =>
        Running \subseteq {pid}

\* What docs/USERGUIDE.md says of DISCONNECT: it terminates the worker.
Disconnects == "DISCONNECT" \in buttons /\ "DISCONNECT" \notin buttons'
DisconnectStopsAnnouncing == [][Disconnects => Running' = {}]_vars
=============================================================================
