-------------------------- MODULE GuiControlProofs -------------------------
(***************************************************************************)
(* Proofs about GuiControl, for every number of workers, of failed kills   *)
(* and every set of timings.  The workers and the GUI share nothing but    *)
(* status.lua and `pid`; the invariants say what the GUI may conclude from *)
(* them.  IInv is their conjunction.                                       *)
(***************************************************************************)
EXTENDS GuiControl, TLAPS

\* The LED is lit and its timer runs only on behalf of a worker that runs, or
\* whose end will be told: also inside start_process, where no event is
\* handled.
LitForSomeone ==
    timer \/ led # "disconnected" => Running # {} \/ ended # {}

\* What start_process can rely on if workers settle and their ends are handled
\* in time: no end is outstanding while a worker runs, so it is not taken for
\* the end of that one, and a worker that is online has said so.
Prompt == {"workers", "events"} \subseteq assumed /\ killFails = 0

EndsAreTold == Prompt => ended = {} \/ Running = {}

OnlineIsTold ==
    Prompt => \A w \in Running :
        stage[w] \in {"entering", "online"} => status["middle"] = "ok"

IInv ==
    /\ TypeOK
    /\ LitForSomeone
    /\ KnownWorkerIsExclusive
    /\ NoOrphan
    /\ EndsAreTold
    /\ OnlineIsTold

-----------------------------------------------------------------------------
(* Initial states and workers                                              *)

\* `pid` may be 0, which is no worker.
LEMMA Bounds ==
    /\ MaxWorkers \in Nat /\ MaxKillFails \in Nat
    /\ 0 \in 0..MaxWorkers /\ 0 \in 0..MaxKillFails /\ 0 \notin Worker
  <1>1. MaxWorkers \in Nat /\ MaxKillFails \in Nat
    BY GuiAssumption
  <1> QED
    BY <1>1 DEF Worker

LEMMA InitIInv == Init => IInv
  <1> SUFFICES ASSUME Init PROVE IInv
    OBVIOUS
  <1>1. TypeOK
    BY Bounds DEF Init, TypeOK, Blank, Groups
  <1>2. Running = {}
    BY DEF Init, Running, Alive
  <1> QED
    BY <1>1, <1>2 DEF Init, IInv, LitForSomeone, KnownWorkerIsExclusive, NoOrphan,
                      EndsAreTold, OnlineIsTold

\* A line of status.lua is written in place of the last one of its group.
LEMMA Emits ==
    ASSUME IInv, NEW g \in Groups, NEW v \in {"ok", "Fail"}, Emit(g, v)
    PROVE  /\ status' \in [Groups -> {"", "ok", "Fail"}]
           /\ status'["middle"] = IF g = "middle" THEN v ELSE status["middle"]
  BY DEF IInv, TypeOK, Emit, Groups

\* A worker that takes a step runs, and goes on running or has its end told.
\* It has come past its INF only if status.lua says so.
LEMMA WorkerMoves ==
    ASSUME IInv, NEW w \in Worker, WorkerStep(w)
    PROVE  /\ w \in Running
           /\ stage' \in [Worker -> Alive \cup {"unused", "exited"}]
           /\ \A v \in Worker : v # w => stage'[v] = stage[v]
           /\ \/ Running' = Running /\ ended' = ended
              \/ Running' = Running \ {w} /\ ended' = ended \cup {w}
           /\ status' \in [Groups -> {"", "ok", "Fail"}]
           /\ stage'[w] \in {"entering", "online"} =>
                 \/ status'["middle"] = "ok"
                 \/ /\ stage[w] \in {"entering", "online"}
                    /\ status'["middle"] = status["middle"]
           /\ UNCHANGED <<assumed, spawned, gpc, gui, killFails>>
  <1>1. /\ stage \in [Worker -> Alive \cup {"unused", "exited"}]
        /\ status \in [Groups -> {"", "ok", "Fail"}]
    BY DEF IInv, TypeOK
  <1>2. PICK from \in Alive, to \in Alive \cup {"exited"} :
           /\ Moves(w, from, to)
           /\ IF to = "exited" THEN ended' = ended \cup {w} ELSE ended' = ended
           /\ status' \in [Groups -> {"", "ok", "Fail"}]
           /\ to \in {"entering", "online"} =>
                 \/ status'["middle"] = "ok"
                 \/ from = "entering" /\ status'["middle"] = status["middle"]
    <2> DEFINE Move(from, to) ==
          /\ Moves(w, from, to)
          /\ IF to = "exited" THEN ended' = ended \cup {w} ELSE ended' = ended
          /\ status' \in [Groups -> {"", "ok", "Fail"}]
          /\ to \in {"entering", "online"} =>
                \/ status'["middle"] = "ok"
                \/ from = "entering" /\ status'["middle"] = status["middle"]
    <2>1. CASE Advance(w)
      <3>1. \/ Move("connecting", "handshaking") \/ Move("handshaking", "joining")
            \/ Move("joining", "entering") \/ Move("entering", "online")
        BY <2>1, Emits DEF Advance, Groups
      <3> QED
        BY <3>1 DEF Alive
    <2>2. CASE Retry(w)
      <3>1. \E from \in Alive : Move(from, "connecting")
        BY <1>1, <2>2, Emits DEF Retry, Groups, Alive
      <3> QED
        BY <3>1 DEF Alive
    <2>3. CASE LoseSession(w)
      <3>1. Move("online", "connecting")
        BY <1>1, <2>3, Emits DEF LoseSession, Groups
      <3> QED
        BY <3>1 DEF Alive
    <2>4. CASE Fatal(w)
      <3>1. \E from \in Alive : Move(from, "exited")
        BY <1>1, <2>4, Emits DEF Fatal, Exits, Groups, Alive
      <3> QED
        BY <3>1 DEF Alive
    <2>5. CASE Dies(w)
      <3>1. \E from \in Alive : Move(from, "exited")
        BY <1>1, <2>5 DEF Dies, Exits
      <3> QED
        BY <3>1
    <2> QED
      BY <2>1, <2>2, <2>3, <2>4, <2>5 DEF WorkerStep
  <1>3. /\ w \in Running
        /\ stage' \in [Worker -> Alive \cup {"unused", "exited"}]
        /\ \A v \in Worker : v # w => stage'[v] = stage[v]
        /\ stage'[w] = to /\ stage[w] = from
        /\ UNCHANGED <<assumed, spawned, gpc, gui, killFails>>
    BY <1>1, <1>2 DEF Moves, Running
  <1>4. IF to = "exited" THEN Running' = Running \ {w} ELSE Running' = Running
    BY <1>2, <1>3 DEF Running, Alive
  <1> QED
    BY <1>2, <1>3, <1>4

LEMMA WorkerIInv ==
    ASSUME IInv, NEW w \in Worker, WorkerStep(w)
    PROVE  IInv'
  <1> DEFINE Move ==
        /\ w \in Running
        /\ stage' \in [Worker -> Alive \cup {"unused", "exited"}]
        /\ \A v \in Worker : v # w => stage'[v] = stage[v]
        /\ \/ Running' = Running /\ ended' = ended
           \/ Running' = Running \ {w} /\ ended' = ended \cup {w}
        /\ status' \in [Groups -> {"", "ok", "Fail"}]
        /\ stage'[w] \in {"entering", "online"} =>
              \/ status'["middle"] = "ok"
              \/ /\ stage[w] \in {"entering", "online"}
                 /\ status'["middle"] = status["middle"]
        /\ UNCHANGED <<assumed, spawned, gpc, gui, killFails>>
  <1>1. Move
    BY WorkerMoves
  <1>2. TypeOK'
    BY <1>1 DEF IInv, TypeOK, gui
  <1>3. LitForSomeone'
    BY <1>1 DEF IInv, LitForSomeone, gui
  <1>4. KnownWorkerIsExclusive'
    BY <1>1 DEF IInv, KnownWorkerIsExclusive, gui
  <1>5. NoOrphan'
    BY <1>1 DEF IInv, NoOrphan, gui
  <1>6. EndsAreTold'
    BY <1>1 DEF IInv, NoOrphan, EndsAreTold, Prompt, gui
  <1>7. OnlineIsTold'
    <2> SUFFICES ASSUME Prompt', NEW v \in Running',
                        stage'[v] \in {"entering", "online"}
                 PROVE  status'["middle"] = "ok"
      BY DEF OnlineIsTold
    <2>1. v = w
      BY <1>1 DEF IInv, NoOrphan, Prompt, gui
    <2> QED
      BY <1>1, <2>1 DEF IInv, OnlineIsTold, Prompt
  <1> QED
    BY <1>2, <1>3, <1>4, <1>5, <1>6, <1>7 DEF IInv

-----------------------------------------------------------------------------
(* The GUI                                                                 *)

\* A kill stops the worker that `pid` names, unless it fails; whatever it
\* stops has an end to be told.
LEMMA Kills ==
    ASSUME IInv, NEW p \in 0..MaxWorkers, KillProcess(p)
    PROVE  /\ stage' \in [Worker -> Alive \cup {"unused", "exited"}]
           /\ ended' \subseteq Worker
           /\ status' \in [Groups -> {"", "ok", "Fail"}]
           /\ killFails' \in 0..MaxKillFails
           /\ killFails' = 0 => killFails = 0 /\ Running' = Running \ {p}
           /\ Running' \subseteq Running
           /\ Running \cup ended \subseteq Running' \cup ended'
           /\ \/ Running' = Running /\ ended' = ended
              \/ Running' = Running \ {p} /\ ended' = ended \cup {p}
  <1>1. /\ stage \in [Worker -> Alive \cup {"unused", "exited"}]
        /\ ended \subseteq Worker /\ killFails \in 0..MaxKillFails
        /\ MaxKillFails \in Nat
    BY Bounds DEF IInv, TypeOK
  <1>2. status' \in [Groups -> {"", "ok", "Fail"}]
    BY DEF KillProcess, Blank
  <1>3. CASE p \in Running /\ stage' = [stage EXCEPT ![p] = "exited"]
             /\ Exits(p) /\ UNCHANGED killFails
    BY <1>1, <1>2, <1>3 DEF Running, Exits, Alive
  <1>4. CASE p \in Running /\ killFails < MaxKillFails
             /\ killFails' = killFails + 1 /\ UNCHANGED <<stage, ended>>
    <2>1. killFails' \in 0..MaxKillFails /\ killFails' # 0
      BY <1>1, <1>4
    <2> QED
      BY <1>1, <1>2, <1>4, <2>1 DEF Running
  <1>5. CASE p \notin Running /\ UNCHANGED <<stage, ended, killFails>>
    BY <1>1, <1>2, <1>5 DEF Running
  <1> QED
    BY <1>3, <1>4, <1>5 DEF KillProcess, Kill

LEMMA ClickConnectIInv ==
    ASSUME IInv, ClickConnect
    PROVE  IInv'
  <1> DEFINE n == spawned + 1
  <1>1. n \in Worker /\ n # 0 /\ spawned \in Nat
    <2>1. spawned \in 0..MaxWorkers /\ spawned < MaxWorkers
      BY DEF IInv, TypeOK, ClickConnect
    <2> QED
      BY <2>1, Bounds DEF Worker
  <1>2. TypeOK'
    <2>1. stage' \in [Worker -> Alive \cup {"unused", "exited"}]
      BY <1>1 DEF IInv, TypeOK, ClickConnect, Alive
    <2>2. spawned' \in 0..MaxWorkers /\ pid' \in 0..MaxWorkers
      BY <1>1, Bounds DEF ClickConnect, Worker
    <2> QED
      BY <2>1, <2>2 DEF IInv, TypeOK, ClickConnect, Checks, Groups
  <1>3. Running' = Running \cup {n} /\ stage'[n] = "connecting"
    BY <1>1 DEF IInv, TypeOK, ClickConnect, Running, Alive
  <1>4. Prompt' => Prompt /\ Running = {} /\ ended = {}
    <2>1. Prompt' => Prompt /\ ended = {}
      BY DEF Prompt, ClickConnect
    <2>2. Prompt => pid \notin Running
      BY DEF Prompt, IInv, KnownWorkerIsExclusive, ClickConnect
    <2> QED
      BY <2>1, <2>2 DEF Prompt, IInv, NoOrphan
  <1>5. LitForSomeone'
    BY <1>3 DEF LitForSomeone
  <1>6. KnownWorkerIsExclusive'
    BY DEF KnownWorkerIsExclusive, ClickConnect
  <1>7. NoOrphan' /\ EndsAreTold' /\ OnlineIsTold'
    BY <1>3, <1>4 DEF NoOrphan, EndsAreTold, OnlineIsTold, Prompt, ClickConnect
  <1> QED
    BY <1>2, <1>5, <1>6, <1>7 DEF IInv

\* `pid` is forgotten by start_process only when nothing runs any more, if
\* the workers settle.
LEMMA CheckFailedIInv ==
    ASSUME IInv, EarlyCheckFailed \/ MiddleCheckFailed
    PROVE  IInv'
  <1>1. PICK p \in {0, pid} :
           /\ KillProcess(p)
           /\ Prompt => Running \subseteq {p}
    <2>1. CASE EarlyCheckFailed
      BY <2>1 DEF EarlyCheckFailed, IInv, NoOrphan, Prompt
    <2>2. CASE MiddleCheckFailed
      <3>1. Prompt => Running = {}
        <4> SUFFICES ASSUME Prompt, NEW w \in Running PROVE FALSE
          OBVIOUS
        <4>1. stage[w] = "online" /\ status["middle"] # "ok"
          BY <2>2 DEF MiddleCheckFailed, Settled, Prompt, Good
        <4> QED
          BY <4>1 DEF IInv, OnlineIsTold
      <3> QED
        BY <2>2, <3>1 DEF MiddleCheckFailed
    <2> QED
      BY <2>1, <2>2
  <1>2. p \in 0..MaxWorkers /\ 0 \notin Worker
    BY Bounds DEF IInv, TypeOK, Worker
  <1>3. NotRunning /\ UNCHANGED <<assumed, spawned>>
    BY DEF EarlyCheckFailed, MiddleCheckFailed
  <1>4. /\ stage' \in [Worker -> Alive \cup {"unused", "exited"}]
        /\ ended' \subseteq Worker
        /\ status' \in [Groups -> {"", "ok", "Fail"}]
        /\ killFails' \in 0..MaxKillFails
        /\ killFails' = 0 => killFails = 0 /\ Running' = Running \ {p}
        /\ Running \cup ended \subseteq Running' \cup ended'
    BY <1>1, <1>2, Kills
  <1>5. Prompt' => Running' = {}
    BY <1>1, <1>3, <1>4 DEF Prompt
  <1>6. TypeOK'
    BY <1>3, <1>4, Bounds DEF IInv, TypeOK, NotRunning
  <1>7. LitForSomeone'
    BY <1>3, <1>4 DEF IInv, LitForSomeone, NotRunning
  <1>8. KnownWorkerIsExclusive'
    BY <1>2, <1>3 DEF KnownWorkerIsExclusive, NotRunning, Running
  <1>9. NoOrphan' /\ EndsAreTold' /\ OnlineIsTold'
    BY <1>5 DEF NoOrphan, EndsAreTold, OnlineIsTold, Prompt
  <1> QED
    BY <1>6, <1>7, <1>8, <1>9 DEF IInv

\* DISCONNECT, and the exit of the application.
LEMMA StopIInv ==
    ASSUME IInv, ClickDisconnect \/ Exit
    PROVE  IInv'
  <1>1. /\ KillProcess(pid) /\ pid \in 0..MaxWorkers /\ 0 \notin Worker
        /\ timer' = FALSE /\ pid' \in {0, pid}
        /\ led' \in {"disconnected", led}
        /\ UNCHANGED <<assumed, spawned>>
    BY Bounds DEF ClickDisconnect, Exit, IInv, TypeOK, Worker
  <1>2. /\ stage' \in [Worker -> Alive \cup {"unused", "exited"}]
        /\ ended' \subseteq Worker
        /\ status' \in [Groups -> {"", "ok", "Fail"}]
        /\ killFails' \in 0..MaxKillFails
        /\ killFails' = 0 => killFails = 0 /\ Running' = Running \ {pid}
        /\ Running \cup ended \subseteq Running' \cup ended'
    BY <1>1, Kills
  <1>3. Prompt' => Running' = {}
    BY <1>1, <1>2 DEF IInv, NoOrphan, Prompt
  <1>4. TypeOK'
    <2>1. CASE ClickDisconnect
      BY <1>2, <2>1 DEF IInv, TypeOK, ClickDisconnect
    <2>2. CASE Exit
      BY <1>2, <2>2, Bounds DEF IInv, TypeOK, Exit
    <2> QED
      BY <2>1, <2>2
  <1>5. LitForSomeone'
    BY <1>1, <1>2 DEF IInv, LitForSomeone
  <1>6. KnownWorkerIsExclusive'
    BY <1>1, <1>2 DEF KnownWorkerIsExclusive, Running
  <1>7. NoOrphan' /\ EndsAreTold' /\ OnlineIsTold'
    BY <1>3 DEF NoOrphan, EndsAreTold, OnlineIsTold, Prompt
  <1> QED
    BY <1>4, <1>5, <1>6, <1>7 DEF IInv

\* The handler of an end takes it for the end of the worker that `pid` names.
LEMMA EndProcessIInv ==
    ASSUME IInv, NEW w \in Worker, EndProcess(w)
    PROVE  IInv'
  <1>1. Running' = Running /\ w \in ended /\ ended' = ended \ {w}
    BY DEF EndProcess, Running
  <1>2. TypeOK'
    BY Bounds DEF IInv, TypeOK, EndProcess
  <1>3. LitForSomeone'
    BY DEF LitForSomeone, EndProcess
  <1>4. KnownWorkerIsExclusive'
    BY Bounds DEF KnownWorkerIsExclusive, EndProcess, Running, Worker
  <1>5. NoOrphan' /\ EndsAreTold' /\ OnlineIsTold'
    BY <1>1 DEF IInv, NoOrphan, EndsAreTold, OnlineIsTold, Prompt, EndProcess
  <1> QED
    BY <1>2, <1>3, <1>4, <1>5 DEF IInv

\* The checks that pass, the last one, and the timer touch no worker.
LEMMA WatchIInv ==
    ASSUME IInv,
           \/ \E g \in Groups, next \in Groups : CheckPassed(g, next)
           \/ LoginCheckPassed \/ LoginCheckFailed \/ TimerTick
    PROVE  IInv'
  <1>1. /\ UNCHANGED <<assumed, stage, spawned, ended, status, pid, protected, timer,
                       killFails>>
        /\ gpc # "closed"
        /\ led' = led \/ timer
        /\ ("CONNECT" \in buttons') = ("CONNECT" \in buttons)
    BY DEF CheckPassed, LoginCheckPassed, LoginCheckFailed, TimerTick, gui, Groups
  <1>2. Running' = Running
    BY <1>1 DEF Running
  <1>3. TypeOK'
    BY DEF IInv, TypeOK, CheckPassed, LoginCheckPassed, LoginCheckFailed, TimerTick,
           gui, Checks
  <1>4. LitForSomeone'
    BY <1>1, <1>2 DEF IInv, LitForSomeone
  <1>5. KnownWorkerIsExclusive'
    BY <1>1, <1>2 DEF IInv, KnownWorkerIsExclusive
  <1>6. NoOrphan' /\ EndsAreTold' /\ OnlineIsTold'
    BY <1>1, <1>2 DEF IInv, NoOrphan, EndsAreTold, OnlineIsTold, Prompt
  <1> QED
    BY <1>3, <1>4, <1>5, <1>6 DEF IInv

LEMMA StutterIInv == IInv /\ UNCHANGED vars => IInv'
  <1> SUFFICES ASSUME IInv, UNCHANGED vars PROVE IInv'
    OBVIOUS
  <1>1. Running' = Running
    BY DEF Running, vars
  <1>2. TypeOK'
    BY DEF IInv, TypeOK, vars, gui
  <1> QED
    BY <1>1, <1>2 DEF IInv, LitForSomeone, KnownWorkerIsExclusive, NoOrphan, EndsAreTold,
                      OnlineIsTold, Prompt, vars, gui

LEMMA NextIInv == IInv /\ [Next]_vars => IInv'
  <1> SUFFICES ASSUME IInv, [Next]_vars PROVE IInv'
    OBVIOUS
  <1>1. CASE \E w \in Worker : WorkerStep(w)
    BY <1>1, WorkerIInv
  <1>2. CASE \E w \in Worker : EndProcess(w)
    BY <1>2, EndProcessIInv
  <1>3. CASE ClickConnect
    BY <1>3, ClickConnectIInv
  <1>4. CASE StartProcess
    <2>1. CASE EarlyCheckFailed \/ MiddleCheckFailed
      BY <2>1, CheckFailedIInv
    <2>2. CASE ~(EarlyCheckFailed \/ MiddleCheckFailed)
      BY <1>4, <2>2, WatchIInv DEF StartProcess, Groups
    <2> QED
      BY <2>1, <2>2
  <1>5. CASE ClickDisconnect \/ Exit
    BY <1>5, StopIInv
  <1>6. CASE TimerTick
    BY <1>6, WatchIInv
  <1>7. CASE Closed \/ UNCHANGED vars
    BY <1>7, StutterIInv DEF Closed
  <1> QED
    BY <1>1, <1>2, <1>3, <1>4, <1>5, <1>6, <1>7 DEF Next

-----------------------------------------------------------------------------
(* Theorems                                                                *)

\* The inductive invariant: every reachable state satisfies all its parts.
THEOREM InvariantHolds == Spec => []IInv
  BY InitIInv, NextIInv, PTL DEF Spec

\* Every variable of the GUI, its workers and status.lua keeps to its values.
THEOREM TypeCorrect == Spec => []TypeOK
  <1>1. IInv => TypeOK
    BY DEF IInv
  <1> QED
    BY <1>1, InvariantHolds, PTL

\* The LED is red and its timer off whenever the event loop has told all ends
\* and no worker runs, in whatever order clicks, ends and ticks came.
THEOREM LedIsRed == Spec => []RedWhenNothingRuns
  <1>1. IInv => RedWhenNothingRuns
    BY DEF IInv, LitForSomeone, RedWhenNothingRuns
  <1> QED
    BY <1>1, InvariantHolds, PTL

\* While the GUI knows of a running worker, CONNECT is disabled and the
\* settings are locked, at every point of start_process, too.
THEOREM Exclusive == Spec => []KnownWorkerIsExclusive
  <1>1. IInv => KnownWorkerIsExclusive
    BY DEF IInv
  <1> QED
    BY <1>1, InvariantHolds, PTL

\* The GUI knows of every worker that runs if workers settle before each check
\* of start_process and their ends are handled before the next click, as long
\* as no kill fails.
THEOREM NoneLost == Spec => []NoOrphan
  <1>1. IInv => NoOrphan
    BY DEF IInv
  <1> QED
    BY <1>1, InvariantHolds, PTL
=============================================================================
