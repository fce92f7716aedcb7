--------------------------- MODULE SessionProofs ---------------------------
(***************************************************************************)
(* Proofs about Session, for every number of faults, of informational      *)
(* frames and of frames the client tolerates.  The invariants say what is  *)
(* on the wire: the client and the hub are in step, and a frame on its way *)
(* to the client tells the truth about the hub.  IInv is their             *)
(* conjunction.                                                            *)
(***************************************************************************)
EXTENDS Session, SequenceTheorems, TLAPS

Away == {"connect", "backoff"} \cup Ended

\* Without a connection nothing is left of one; a dead one is silent.
Idle ==
    /\ IF pc \in Away THEN wire = "none" /\ hub = "none" /\ ~member
                      ELSE wire \in {"up", "cut"} /\ hub # "none"
    /\ wire # "up" => toHub = <<>> /\ toClient = <<>>

\* While the connection works, at most one frame is on its way to the hub,
\* and it is the one that the client sent last.
InStep ==
    wire = "up" /\ hub # "gone" =>
        /\ pc \in {"handshake", "keyprint", "support"} =>
               hub = "protocol" /\ toHub = <<>>
        /\ pc = "hubsupport" =>
               \/ hub = "protocol" /\ toHub = <<"HSUP">>
               \/ hub = "identify" /\ toHub = <<>>
        /\ pc \in {"hubsid", "hubinf"} => hub = "identify" /\ toHub = <<>>
        /\ pc = "passwd" =>
               \/ hub = "identify" /\ toHub = <<"BINF">>
               \/ hub = "verify" /\ toHub = <<>>
               \/ hub = "normal" /\ toHub = <<>> /\ setup.hub = "noPassword"
        /\ pc = "hublogin" =>
               \/ hub = "verify" /\ toHub = <<"HPAS">>
               \/ hub = "normal" /\ toHub = <<>>
        /\ pc \in Online => hub = "normal"

\* What the hub may have said by the time it is in a state.
Said(state) ==
    {"INFO"}
    \cup (IF state \in {"identify", "verify", "normal", "gone"}
            THEN {"SUP", "SUPx", "SID", "INF", "OTHER"} ELSE {})
    \cup (IF state \in {"verify", "normal", "gone"} THEN {"GPA", "GPAx"} ELSE {})
    \cup (IF state \in {"normal", "gone"}
            THEN {"BINF", "TAKEN", "FULL", "DENIED"} ELSE {})

\* What a frame says of the hub that sent it.
Tells(frame) ==
    /\ frame \in Said(hub)
    /\ frame = "SUP"    => setup.hub # "noOSNR"
    /\ frame = "SUPx"   => setup.hub = "noOSNR"
    /\ frame = "SID"    => setup.hub # "noSID"
    /\ frame = "INF"    => setup.hub # "noINF"
    /\ frame = "OTHER"  => ~Acceptable
    /\ frame = "GPA"    => setup.hub \notin {"badSalt", "noPassword", "regOnly"}
    /\ frame = "GPAx"   => setup.hub = "badSalt"
    /\ frame = "DENIED" => ~Acceptable
    /\ frame = "BINF"   => member /\ (setup.hub = "noPassword" \/ setup.password)

Truthful == \A i \in 1..Len(toClient) : Tells(toClient[i])

\* What the client knows of the hub when it has come so far.
Passed ==
    /\ pc \in {"support"} \cup Reading \cup Online => setup.keyprint # "mismatch"
    /\ pc \in {"hubsid", "hubinf", "passwd", "hublogin"} => setup.hub # "noOSNR"
    /\ pc \in {"hubinf", "passwd", "hublogin"} => setup.hub # "noSID"
    /\ pc \in {"passwd", "hublogin"} => setup.hub # "noINF"
    /\ pc = "hublogin" => setup.hub \notin {"badSalt", "noPassword", "regOnly"}

\* The place of a frame, and of the client, in the order of the login.
Rank(frame) ==
    CASE frame = "SUP" -> 1
      [] frame = "SID" -> 2
      [] frame = "INF" -> 3
      [] frame \in {"GPA", "TAKEN", "FULL"} -> 4
      [] frame = "BINF" -> 5
      [] OTHER -> 0

Due ==
    CASE pc \in {"handshake", "keyprint", "support", "hubsupport"} -> 1
      [] pc = "hubsid" -> 2
      [] pc = "hubinf" -> 3
      [] pc = "passwd" -> 4
      [] pc = "hublogin" -> 5
      [] OTHER -> 6

\* The frames of an acceptable login are due in the order in which they come,
\* and none is missing: the next one that is no information is the one due.
Ordered(s, i) ==
    Rank(s[i]) # 0 =>
        /\ Rank(s[i]) >= Due
        /\ Rank(s[i]) > Due => \E j \in 1..(i - 1) : Rank(s[j]) = Rank(s[i]) - 1
        /\ \A j \in 1..(i - 1) : Rank(s[j]) < Rank(s[i])

InOrder == Acceptable => \A i \in 1..Len(toClient) : Ordered(toClient, i)

\* The steps behind the client have been reported as done.
Reported ==
    /\ pc \notin Away => status["hubconnect"] = "ok"
    /\ pc \notin Away \cup {"handshake"} => status["hubhandshake"] = "ok"
    /\ pc \in {"support"} \cup Reading \cup Online => status["hubkeyp"] = "ok"
    /\ pc \in Reading \cup Online => status["support"] = "ok"
    /\ pc \in {"hubsid", "hubinf", "passwd", "hublogin"} \cup Online =>
           status["hubsupport"] = "ok" /\ status["hubosnr"] = "ok"
    /\ pc \in {"hubinf", "passwd", "hublogin"} \cup Online => status["hubsid"] = "ok"
    /\ pc \in {"passwd", "hublogin"} \cup Online =>
           status["hubinf"] = "ok" /\ status["owninf"] = "ok"
    /\ pc \in {"hublogin"} \cup Online =>
           status["passwd"] = "ok" /\ status["hubsalt"] = "ok"
    /\ pc \in Online => status["hublogin"] = "ok"

IInv ==
    /\ TypeOK
    /\ Idle
    /\ InStep
    /\ Truthful
    /\ Passed
    /\ InOrder
    /\ Reported
    /\ AnnouncesAsMember
    /\ GivesUpOnlyIfRefused

-----------------------------------------------------------------------------
(* What is on the wire                                                     *)

\* The frame at the head of a queue, and the queue without it.
LEMMA HeadAndTail ==
    ASSUME NEW S, NEW s \in Seq(S), s # <<>>
    PROVE  /\ Head(s) = s[1] /\ Head(s) \in S
           /\ 1 \in 1..Len(s)
           /\ Tail(s) \in Seq(S)
           /\ Len(Tail(s)) = Len(s) - 1 /\ Len(s) \in Nat
           /\ \A i \in 1..Len(Tail(s)) : Tail(s)[i] = s[i + 1]
  BY HeadTailProperties, EmptySeq, LenProperties

\* A frame is on the wire only while the connection works, and it is true.
LEMMA FirstFrame ==
    ASSUME IInv, toClient # <<>>
    PROVE  /\ wire = "up" /\ hub # "none" /\ pc \notin Away
           /\ Head(toClient) \in HubFrames
           /\ Tells(Head(toClient))
  <1>1. /\ Head(toClient) = toClient[1] /\ Head(toClient) \in HubFrames
        /\ 1 \in 1..Len(toClient)
    BY HeadAndTail DEF IInv, TypeOK
  <1>2. Tells(Head(toClient))
    BY <1>1 DEF IInv, Truthful
  <1>3. wire = "up" /\ hub # "none" /\ pc \notin Away
    BY DEF IInv, TypeOK, Idle
  <1> QED
    BY <1>1, <1>2, <1>3

\* A frame that is neither information nor a refusal, and that answers a login
\* that is acceptable, is the one that is due.
LEMMA DueFrame ==
    ASSUME IInv, Acceptable, pc \in Reading, toClient # <<>>,
           Disposition(Head(toClient)) = "frame"
    PROVE  /\ pc = "hubsupport" => Head(toClient) = "SUP"
           /\ pc = "hubsid" => Head(toClient) = "SID"
           /\ pc = "hubinf" => Head(toClient) = "INF"
           /\ pc = "passwd" => Head(toClient) = "GPA"
           /\ pc = "hublogin" => Head(toClient) = "BINF"
  <1> DEFINE f == Head(toClient)
  <1>1. f = toClient[1] /\ f \in HubFrames /\ 1 \in 1..Len(toClient)
    BY HeadAndTail DEF IInv, TypeOK
  <1>2. f \in {"SUP", "SID", "INF", "GPA", "BINF"}
    BY FirstFrame DEF HubFrames, Disposition, Tells, Acceptable
  <1>3. Rank(f) # 0
    BY <1>2 DEF Rank
  <1>4. Ordered(toClient, 1)
    BY <1>1 DEF IInv, InOrder
  <1>5. Rank(f) >= Due /\ ~(Rank(f) > Due)
    BY <1>1, <1>3, <1>4 DEF Ordered
  <1>6. Rank(f) = Due
    BY <1>2, <1>5 DEF Rank, Due
  <1> QED
    BY <1>2, <1>6 DEF Rank, Due, Reading

\* Nothing changes on the wire.
LEMMA SameFrames ==
    ASSUME IInv, UNCHANGED <<toClient, setup, member>>, Said(hub) \subseteq Said(hub'),
           toClient = <<>> \/ Due' = Due
    PROVE  Truthful' /\ InOrder'
  <1>1. Truthful'
    BY DEF IInv, Truthful, Tells, Acceptable
  <1>2. CASE toClient = <<>>
    <2>1. Len(toClient') = 0
      BY <1>2, EmptySeq
    <2> QED
      BY <2>1, <1>1 DEF InOrder
  <1>3. CASE Due' = Due
    <2>1. \A i \in 1..Len(toClient) : Ordered(toClient, i) <=> Ordered(toClient, i)'
      BY <1>3 DEF Ordered
    <2> QED
      BY <2>1, <1>1 DEF IInv, InOrder, Acceptable
  <1> QED
    BY <1>2, <1>3

\* The client takes the first frame off the wire: one that has no place in
\* the order, or the one that is due, whereupon the next one is.
LEMMA TakeFrame ==
    ASSUME IInv, toClient # <<>>, toClient' = Tail(toClient),
           UNCHANGED <<setup, hub, member>>,
           Acceptable => \/ Rank(Head(toClient)) = 0 /\ Due' = Due
                         \/ Rank(Head(toClient)) = Due /\ Due' = Due + 1
    PROVE  toClient' \in Seq(HubFrames) /\ Truthful' /\ InOrder'
  <1> DEFINE s == toClient
             t == Tail(s)
  <1>1. /\ Head(s) = s[1] /\ t \in Seq(HubFrames)
        /\ Len(t) = Len(s) - 1 /\ Len(s) \in Nat /\ 1 \in 1..Len(s)
        /\ \A i \in 1..Len(t) : t[i] = s[i + 1]
    BY HeadAndTail DEF IInv, TypeOK
  <1>2. \A i \in 1..Len(t) : i + 1 \in 1..Len(s)
    BY <1>1
  <1>3. Truthful'
    <2>1. \A i \in 1..Len(t) : Tells(t[i])
      BY <1>1, <1>2 DEF IInv, Truthful
    <2> QED
      BY <2>1 DEF Truthful, Tells, Acceptable
  <1>4. InOrder'
    <2> SUFFICES ASSUME Acceptable, NEW i \in 1..Len(t), Rank(t[i]) # 0
                 PROVE  /\ Rank(t[i]) >= Due'
                        /\ Rank(t[i]) > Due' =>
                              \E j \in 1..(i - 1) : Rank(t[j]) = Rank(t[i]) - 1
                        /\ \A j \in 1..(i - 1) : Rank(t[j]) < Rank(t[i])
      BY DEF InOrder, Ordered, Acceptable
    <2>1. i + 1 \in 1..Len(s) /\ t[i] = s[i + 1]
      BY <1>1, <1>2
    <2>2. Ordered(s, i + 1)
      BY <2>1 DEF IInv, InOrder
    <2>3. /\ Rank(t[i]) >= Due
          /\ Rank(t[i]) > Due => \E j \in 1..i : Rank(s[j]) = Rank(t[i]) - 1
          /\ \A j \in 1..i : Rank(s[j]) < Rank(t[i])
      BY <2>1, <2>2 DEF Ordered
    <2>4. \A j \in 1..(i - 1) : t[j] = s[j + 1] /\ j + 1 \in 1..i
      BY <1>1
    <2>5. Rank(t[i]) \in Nat /\ Rank(s[1]) \in Nat /\ Due \in 1..6 /\ i \in Nat
      BY <1>1 DEF Rank, Due
    <2>6. \A j \in 1..(i - 1) : Rank(t[j]) < Rank(t[i])
      BY <2>3, <2>4
    <2>7. Rank(s[1]) < Rank(t[i])
      BY <2>3, <2>5
    <2>8. Rank(t[i]) >= Due'
      BY <1>1, <2>3, <2>5, <2>7
    <2>9. ASSUME Rank(t[i]) > Due'
          PROVE  \E j \in 1..(i - 1) : Rank(t[j]) = Rank(t[i]) - 1
      <3>1. PICK j \in 1..i : Rank(s[j]) = Rank(t[i]) - 1
        BY <1>1, <2>3, <2>5, <2>9
      <3>2. j # 1
        BY <1>1, <2>5, <2>9, <3>1
      <3>3. j - 1 \in 1..(i - 1) /\ t[j - 1] = s[j]
        BY <1>1, <3>2
      <3> QED
        BY <3>1, <3>3
    <2> QED
      BY <2>6, <2>8, <2>9
  <1> QED
    BY <1>1, <1>3, <1>4

\* The hub puts frames on the wire that are true of it, that follow each
\* other in order, and that all the frames before them precede.
LEMMA ReplyFrames ==
    ASSUME IInv, NEW r \in Seq(HubFrames), toClient' = toClient \o r,
           UNCHANGED <<setup, pc>>, member => member', Said(hub) \subseteq Said(hub'),
           \A i \in 1..Len(r) : Tells(r[i])',
           Acceptable => \A i \in 1..Len(r) :
               /\ Ordered(r, i)
               /\ Rank(r[i]) # 0 =>
                     \A j \in 1..Len(toClient) : Rank(toClient[j]) < Rank(r[i])
    PROVE  toClient' \in Seq(HubFrames) /\ Truthful' /\ InOrder'
  <1> DEFINE n == Len(toClient)
  <1>1. /\ toClient' \in Seq(HubFrames) /\ n \in Nat /\ Len(r) \in Nat
        /\ Len(toClient') = n + Len(r)
        /\ \A i \in 1..(n + Len(r)) :
               toClient'[i] = IF i <= n THEN toClient[i] ELSE r[i - n]
    BY ConcatProperties, LenProperties DEF IInv, TypeOK
  <1>2. \A i \in 1..n : toClient'[i] = toClient[i]
    BY <1>1
  <1>3. \A i \in 1..(n + Len(r)) :
            i \in 1..n \/ (i - n \in 1..Len(r) /\ i > n /\ toClient'[i] = r[i - n])
    BY <1>1
  <1>4. Truthful'
    <2> SUFFICES ASSUME NEW i \in 1..(n + Len(r))
                 PROVE  Tells(toClient[i])'
      BY <1>1 DEF Truthful
    <2>1. CASE i \in 1..n
      <3>1. Tells(toClient[i]) /\ toClient'[i] = toClient[i]
        BY <1>2, <2>1 DEF IInv, Truthful
      <3> QED
        BY <3>1 DEF Tells, Acceptable
    <2>2. CASE i - n \in 1..Len(r) /\ toClient'[i] = r[i - n]
      BY <2>2 DEF Tells
    <2> QED
      BY <1>3, <2>1, <2>2
  <1>5. InOrder'
    <2> SUFFICES ASSUME Acceptable, NEW i \in 1..(n + Len(r)),
                        Rank(toClient'[i]) # 0
                 PROVE  /\ Rank(toClient'[i]) >= Due
                        /\ Rank(toClient'[i]) > Due =>
                              \E j \in 1..(i - 1) :
                                  Rank(toClient'[j]) = Rank(toClient'[i]) - 1
                        /\ \A j \in 1..(i - 1) :
                               Rank(toClient'[j]) < Rank(toClient'[i])
      BY <1>1 DEF InOrder, Ordered, Acceptable, Due
    <2>1. CASE i \in 1..n
      <3>1. Ordered(toClient, i) /\ toClient'[i] = toClient[i]
        BY <1>2, <2>1 DEF IInv, InOrder
      <3>2. \A j \in 1..(i - 1) : toClient'[j] = toClient[j]
        BY <1>1, <1>2, <2>1
      <3> QED
        BY <3>1, <3>2 DEF Ordered
    <2>2. CASE i - n \in 1..Len(r) /\ i > n /\ toClient'[i] = r[i - n]
      <3> DEFINE k == i - n
      <3>1. Ordered(r, k) /\ Rank(r[k]) # 0 /\ toClient'[i] = r[k]
        BY <2>2
      <3>2. \A j \in 1..n : Rank(toClient[j]) < Rank(r[k])
        BY <2>2
      <3>3. \A j \in 1..(k - 1) : j + n \in 1..(i - 1) /\ toClient'[j + n] = r[j]
        BY <1>1
      <3>4. \A j \in 1..(i - 1) : j \in 1..n \/ (j - n \in 1..(k - 1)
                                             /\ toClient'[j] = r[j - n])
        BY <1>1
      <3>5. \A j \in 1..(i - 1) : Rank(toClient'[j]) < Rank(r[k])
        <4>1. \A j \in 1..(k - 1) : Rank(r[j]) < Rank(r[k])
          BY <3>1 DEF Ordered
        <4> QED
          BY <1>2, <3>2, <3>4, <4>1
      <3>6. Rank(r[k]) > Due =>
                \E j \in 1..(i - 1) : Rank(toClient'[j]) = Rank(r[k]) - 1
        BY <3>1, <3>3 DEF Ordered
      <3> QED
        BY <3>1, <3>5, <3>6 DEF Ordered
    <2> QED
      BY <1>3, <2>1, <2>2
  <1> QED
    BY <1>1, <1>4, <1>5

\* Without a connection there is nothing to be said of one.
LEMMA HangUpKeepsIInv ==
    ASSUME IInv, HangUp, UNCHANGED setup,
           pc' \in {"backoff", "stopped", "dead"},
           pc' \in Ended => ~Acceptable,
           status' \in [StatusKeys -> {"none", "ok", "fail"}],
           faults' \in 0..MaxFaults
    PROVE  IInv'
  <1>1. TypeOK'
    <2>1. stale' \in BOOLEAN
      <3>1. stale \in BOOLEAN
        BY DEF IInv, TypeOK
      <3>2. \/ stale' = (stale \/ hub = "normal")
            \/ stale' = (stale \/ hub \in {"verify", "normal"})
        BY DEF HangUp
      <3> QED
        BY <3>1, <3>2, Zenon
    <2>2. toHub' \in Seq(ClientFrames) /\ toClient' \in Seq(HubFrames)
      BY EmptySeq DEF HangUp
    <2>3. skips' \in 0..(MaxLoginStatus - 1) /\ infos' \in 0..MaxInfo
      BY BoundsAssumption DEF HangUp
    <2> QED
      BY <2>1, <2>2, <2>3 DEF IInv, TypeOK, HangUp, PCs, Ended
  <1>2. Idle' /\ AnnouncesAsMember' /\ GivesUpOnlyIfRefused'
    BY DEF HangUp, Idle, Away, Ended, AnnouncesAsMember, Online,
           GivesUpOnlyIfRefused, Acceptable
  <1>3. InStep' /\ Passed' /\ Reported'
    BY DEF HangUp, InStep, Passed, Reported, Away, Ended, Online, Reading
  <1>4. Truthful' /\ InOrder'
    BY DEF HangUp, Truthful, InOrder
  <1> QED
    BY <1>1, <1>2, <1>3, <1>4 DEF IInv

-----------------------------------------------------------------------------
(* The steps keep the invariant                                            *)

LEMMA InitIInv == Init => IInv
  <1> SUFFICES ASSUME Init PROVE IInv
    OBVIOUS
  <1>1. TypeOK
    <2>1. toHub \in Seq(ClientFrames) /\ toClient \in Seq(HubFrames)
      BY EmptySeq DEF Init
    <2>2. status \in [StatusKeys -> {"none", "ok", "fail"}]
      BY DEF Init
    <2>3. skips \in 0..(MaxLoginStatus - 1) /\ infos \in 0..MaxInfo
          /\ faults \in 0..MaxFaults
      BY BoundsAssumption DEF Init
    <2> QED
      BY <2>1, <2>2, <2>3 DEF Init, TypeOK, PCs
  <1>2. Idle /\ InStep /\ AnnouncesAsMember /\ GivesUpOnlyIfRefused
    BY DEF Init, Idle, InStep, Away, Online, Ended, AnnouncesAsMember,
           GivesUpOnlyIfRefused
  <1>3. Truthful /\ InOrder
    BY EmptySeq DEF Init, Truthful, InOrder
  <1>4. Passed /\ Reported
    BY DEF Init, Passed, Reported, Away, Ended, Online, Reading
  <1> QED
    BY <1>1, <1>2, <1>3, <1>4 DEF IInv

\* The end of an attempt in which the hub refused: login_bail.
LEMMA BailKeepsIInv ==
    ASSUME IInv, UNCHANGED setup, pc \in Reading, faults' \in 0..MaxFaults,
           NEW d, LoginBail(d), d = "terminal" => ~Acceptable
    PROVE  IInv'
  <1>1. status' \in [StatusKeys -> {"none", "ok", "fail"}]
    BY DEF LoginBail, Emit, IInv, TypeOK, Reading, StatusKeys
  <1>2. HangUp /\ pc' \in {"backoff", "stopped"} /\ (pc' = "stopped" => ~Acceptable)
    BY DEF LoginBail, Retry, GiveUp
  <1> QED
    BY <1>1, <1>2, HangUpKeepsIInv DEF Ended

\* The end of an attempt on which the client reports `key`, or nothing, and
\* after which it tries again.
LEMMA RetryKeepsIInv ==
    ASSUME IInv, Retry, UNCHANGED setup, faults' \in 0..MaxFaults,
           status' \in [StatusKeys -> {"none", "ok", "fail"}]
    PROVE  IInv'
  BY HangUpKeepsIInv DEF Retry, Ended

\* ... or not.
LEMMA GiveUpKeepsIInv ==
    ASSUME IInv, GiveUp, UNCHANGED <<setup, faults>>, ~Acceptable,
           status' \in [StatusKeys -> {"none", "ok", "fail"}]
    PROVE  IInv'
  <1>1. faults' \in 0..MaxFaults
    BY DEF IInv, TypeOK
  <1> QED
    BY <1>1, HangUpKeepsIInv DEF GiveUp, Ended

\* Steps on which nothing moves on the wire.
LEMMA QuietSteps ==
    ASSUME IInv,
           \/ ConnectFails \/ Handshake
           \/ Settle \/ ScanAndSend \/ NextScanDue \/ Backoff \/ StaleExpires
    PROVE  IInv'
  <1> USE DEF IInv
  <1>1. TypeOK'
    <2>1. status' \in [StatusKeys -> {"none", "ok", "fail"}]
      BY DEF TypeOK, ConnectFails, Handshake, Settle, ScanAndSend, NextScanDue,
             Backoff, StaleExpires, Emit, StatusKeys
    <2>2. faults' \in 0..MaxFaults
      BY BoundsAssumption
      DEF TypeOK, ConnectFails, Handshake, Settle, ScanAndSend, NextScanDue,
          Backoff, StaleExpires, Fault
    <2>3. pc' \in PCs
      BY DEF TypeOK, ConnectFails, Handshake, Settle, ScanAndSend, NextScanDue,
             Backoff, StaleExpires, PCs, Joining, Online
    <2>4. /\ UNCHANGED <<setup, skips, network, hub, member, infos>>
          /\ stale' = stale \/ stale' = FALSE
      BY DEF ConnectFails, Handshake, Settle, ScanAndSend, NextScanDue, Backoff,
             StaleExpires, hubSide
    <2> QED
      BY <2>1, <2>2, <2>3, <2>4 DEF TypeOK, network
  <1>2. /\ Idle' /\ InStep' /\ Passed' /\ AnnouncesAsMember'
        /\ GivesUpOnlyIfRefused' /\ UNCHANGED <<setup, toClient, hub, member>>
        /\ Due' = Due \/ toClient = <<>>
    BY DEF TypeOK, ConnectFails, Handshake, Settle, ScanAndSend, NextScanDue,
           Backoff, StaleExpires, network, hubSide, Idle, InStep, Passed, Away,
           Ended, Online, Reading, AnnouncesAsMember, GivesUpOnlyIfRefused,
           Acceptable, Due
  <1>3. Reported'
    BY DEF TypeOK, ConnectFails, Handshake, Settle, ScanAndSend, NextScanDue,
           Backoff, StaleExpires, Emit, StatusKeys, Reported, Away, Ended, Online,
           Reading
  <1>4. Truthful' /\ InOrder'
    BY <1>2, SameFrames
  <1> QED
    BY <1>1, <1>2, <1>3, <1>4

\* A new connection: nothing is on the wire.
LEMMA ConnectStep == IInv /\ Connect => IInv'
  <1> SUFFICES ASSUME IInv, Connect PROVE IInv'
    OBVIOUS
  <1> USE DEF IInv, Connect
  <1>1. TypeOK'
    <2>1. status' \in [StatusKeys -> {"none", "ok", "fail"}]
      BY DEF TypeOK, Emit, StatusKeys
    <2> QED
      BY <2>1 DEF TypeOK, PCs, Joining
  <1>2. toClient = <<>> /\ toHub = <<>> /\ member = FALSE
    BY DEF TypeOK, Idle, Away
  <1>3. Idle' /\ InStep' /\ Passed' /\ AnnouncesAsMember' /\ GivesUpOnlyIfRefused'
    BY <1>2 DEF Idle, InStep, Passed, Away, Ended, Online, Reading,
                AnnouncesAsMember, GivesUpOnlyIfRefused
  <1>4. Reported'
    BY DEF TypeOK, Emit, StatusKeys, Reported, Away, Ended, Online, Reading
  <1>5. Truthful' /\ InOrder'
    BY <1>2, EmptySeq DEF Truthful, InOrder
  <1> QED
    BY <1>1, <1>3, <1>4, <1>5

LEMMA KeyprintStep == IInv /\ CheckKeyprint => IInv'
  <1> SUFFICES ASSUME IInv, CheckKeyprint PROVE IInv'
    OBVIOUS
  <1>1. status' \in [StatusKeys -> {"none", "ok", "fail"}]
    BY DEF CheckKeyprint, Emit, IInv, TypeOK, StatusKeys
  <1>2. CASE setup.keyprint = "mismatch"
    BY <1>1, <1>2, GiveUpKeepsIInv DEF CheckKeyprint, Acceptable
  <1>3. CASE setup.keyprint # "mismatch"
    <2> USE <1>3 DEF IInv, CheckKeyprint
    <2>1. TypeOK'
      BY <1>1 DEF TypeOK, PCs, Joining, network, hubSide
    <2>2. /\ Idle' /\ InStep' /\ Passed' /\ AnnouncesAsMember'
          /\ GivesUpOnlyIfRefused' /\ UNCHANGED <<setup, toClient, hub, member>>
          /\ Due' = Due
      BY DEF TypeOK, Idle, InStep, Passed, Away, Ended, Online, Reading,
             AnnouncesAsMember, GivesUpOnlyIfRefused, network, hubSide, Due
    <2>3. Reported'
      BY DEF TypeOK, Emit, StatusKeys, Reported, Away, Ended, Online, Reading
    <2>4. Truthful' /\ InOrder'
      BY <2>2, SameFrames
    <2> QED
      BY <2>1, <2>2, <2>3, <2>4
  <1> QED
    BY <1>2, <1>3

\* What is sent is on the wire, unless the connection is broken.
LEMMA SentFrame ==
    ASSUME IInv, NEW f \in ClientFrames, Send(f)
    PROVE  /\ toHub' \in Seq(ClientFrames)
           /\ Broken => toHub' = toHub
           /\ ~Broken /\ toHub = <<>> => toHub' = <<f>>
  <1>1. toHub \in Seq(ClientFrames)
    BY DEF IInv, TypeOK
  <1>2. Append(toHub, f) \in Seq(ClientFrames)
    BY <1>1, AppendProperties
  <1>3. ASSUME toHub = <<>> PROVE Append(toHub, f) = <<f>>
    BY <1>3
  <1> QED
    BY <1>1, <1>2, <1>3 DEF Send

\* HSUP is sent, or buffered for a connection that is broken.
LEMMA SendSupportStep == IInv /\ SendSupport => IInv'
  <1> SUFFICES ASSUME IInv, SendSupport PROVE IInv'
    OBVIOUS
  <1> USE DEF IInv, SendSupport
  <1>1. /\ toHub' \in Seq(ClientFrames)
        /\ Broken => toHub' = toHub
        /\ ~Broken /\ toHub = <<>> => toHub' = <<"HSUP">>
    BY SentFrame DEF ClientFrames
  <1>2. TypeOK'
    <2>1. status' \in [StatusKeys -> {"none", "ok", "fail"}]
      BY DEF TypeOK, Emit, StatusKeys
    <2> QED
      BY <1>1, <2>1 DEF TypeOK, PCs, Joining, Reading, hubSide
  <1>3. /\ Idle' /\ InStep' /\ Passed' /\ AnnouncesAsMember'
        /\ GivesUpOnlyIfRefused' /\ UNCHANGED <<setup, toClient, hub, member>>
        /\ Due' = Due
    BY <1>1 DEF TypeOK, Idle, InStep, Passed, Away, Ended, Online, Reading, Broken,
                AnnouncesAsMember, GivesUpOnlyIfRefused, hubSide, Due
  <1>4. Reported'
    BY DEF TypeOK, Emit, StatusKeys, Reported, Away, Ended, Online, Reading
  <1>5. Truthful' /\ InOrder'
    BY <1>3, SameFrames
  <1> QED
    BY <1>2, <1>3, <1>4, <1>5

\* Failures of a send, a handshake or the poll: the client tries again.
LEMMA RetryingSteps ==
    ASSUME IInv,
           \/ HandshakeFails \/ SendSupportFails \/ OwnInfFails \/ PassFails
           \/ HubCountFails \/ SendFails \/ PollLost
    PROVE  IInv'
  <1> USE DEF IInv, HandshakeFails, SendSupportFails, OwnInfFails, PassFails,
              HubCountFails, SendFails, PollLost
  <1>1. status' \in [StatusKeys -> {"none", "ok", "fail"}]
    BY DEF TypeOK, Emit, StatusKeys
  <1>2. faults' \in 0..MaxFaults
    BY BoundsAssumption DEF TypeOK, Fault
  <1>3. Retry /\ UNCHANGED setup
    OBVIOUS
  <1> QED
    BY <1>1, <1>2, <1>3, RetryKeepsIInv

\* A frame that is not the expected one: only if the login is impossible.
LEMMA GivingUpSteps ==
    ASSUME IInv,
           NoOSNR \/ NoSid \/ NoInf \/ NoPassRequest \/ LoginFailed \/ SaltRaises
    PROVE  IInv'
  <1>1. status' \in [StatusKeys -> {"none", "ok", "fail"}]
    BY DEF IInv, TypeOK, Emit, StatusKeys, NoOSNR, NoSid, NoInf, NoPassRequest,
           LoginFailed, SaltRaises
  <1>2. CASE SaltRaises
    <2>1. ~Acceptable
      BY <1>2, FirstFrame DEF SaltRaises, NextFrameIs, Tells, Acceptable
    <2>2. faults' \in 0..MaxFaults
      BY <1>2 DEF IInv, TypeOK, SaltRaises
    <2> QED
      BY <1>1, <1>2, <2>1, <2>2, HangUpKeepsIInv DEF SaltRaises
  <1>3. CASE NoOSNR \/ NoSid \/ NoInf \/ NoPassRequest \/ LoginFailed
    <2>1. ~Acceptable
      BY <1>3, DueFrame DEF NoOSNR, NoSid, NoInf, NoPassRequest, LoginFailed,
                            Unexpected, Reading
    <2>2. GiveUp /\ UNCHANGED <<setup, faults>>
      BY <1>3 DEF NoOSNR, NoSid, NoInf, NoPassRequest, LoginFailed, Unexpected
    <2> QED
      BY <1>1, <2>1, <2>2, GiveUpKeepsIInv
  <1> QED
    BY <1>2, <1>3

\* A refusal, or an error, while a frame is awaited.
LEMMA RefusalSteps == IInv /\ (RecvReject \/ RecvError) => IInv'
  <1> SUFFICES ASSUME IInv, RecvReject \/ RecvError PROVE IInv'
    OBVIOUS
  <1>1. CASE RecvReject
    <2> DEFINE d == Disposition(Head(toClient))
    <2>1. d = "terminal" => ~Acceptable
      BY <1>1, FirstFrame DEF RecvReject, Disposition, Tells, HubFrames
    <2>2. faults' \in 0..MaxFaults
      BY <1>1 DEF IInv, TypeOK, RecvReject
    <2> QED
      BY <1>1, <2>1, <2>2, BailKeepsIInv DEF RecvReject
  <1>2. CASE RecvError
    <2>1. faults' \in 0..MaxFaults
      BY <1>2, BoundsAssumption DEF IInv, TypeOK, RecvError, Fault
    <2> QED
      BY <1>2, <2>1, BailKeepsIInv DEF RecvError
  <1> QED
    BY <1>1, <1>2

\* A login frame that is taken off the wire is the one that was due.
LEMMA ReceivedFrame ==
    ASSUME IInv, NEW at \in Reading, NEW to, Receive(at, to), Rank(Head(toClient)) = Due,
           Due' = Due + 1
    PROVE  toClient' \in Seq(HubFrames) /\ Truthful' /\ InOrder'
  BY TakeFrame DEF Receive, hubSide

LEMMA HubSupportStep == IInv /\ HubSupport => IInv'
  <1> SUFFICES ASSUME IInv, HubSupport PROVE IInv'
    OBVIOUS
  <1>1. /\ pc = "hubsupport" /\ pc' = "hubsid" /\ Head(toClient) = "SUP"
        /\ toClient # <<>> /\ skips' = 0
        /\ UNCHANGED <<setup, wire, toHub, hub, member, stale, infos, faults>>
    BY DEF HubSupport, Receive, NextFrameIs, hubSide
  <1>2. toClient' \in Seq(HubFrames) /\ Truthful' /\ InOrder'
    BY <1>1, ReceivedFrame DEF HubSupport, Rank, Due, Reading
  <1>3. TypeOK'
    <2>1. status' \in [StatusKeys -> {"none", "ok", "fail"}]
      BY DEF IInv, TypeOK, HubSupport, StatusKeys
    <2> QED
      BY <1>1, <1>2, <2>1, BoundsAssumption DEF IInv, TypeOK, PCs, Joining, Reading
  <1>4. wire = "up" /\ hub # "protocol" /\ setup.hub # "noOSNR"
    BY <1>1, FirstFrame DEF Tells, Said
  <1>5. Idle' /\ InStep' /\ Passed' /\ AnnouncesAsMember' /\ GivesUpOnlyIfRefused'
    BY <1>1, <1>4 DEF IInv, Idle, InStep, Passed, Away, Ended, Online, Reading,
                      AnnouncesAsMember, GivesUpOnlyIfRefused
  <1>6. Reported'
    BY <1>1 DEF HubSupport, IInv, TypeOK, StatusKeys, Reported, Away, Ended, Online,
                Reading
  <1> QED
    BY <1>2, <1>3, <1>5, <1>6 DEF IInv

LEMMA HubSidStep == IInv /\ HubSid => IInv'
  <1> SUFFICES ASSUME IInv, HubSid PROVE IInv'
    OBVIOUS
  <1>1. /\ pc = "hubsid" /\ pc' = "hubinf" /\ Head(toClient) = "SID"
        /\ toClient # <<>> /\ skips' = 0
        /\ UNCHANGED <<setup, wire, toHub, hub, member, stale, infos, faults>>
    BY DEF HubSid, Receive, NextFrameIs, hubSide
  <1>2. toClient' \in Seq(HubFrames) /\ Truthful' /\ InOrder'
    BY <1>1, ReceivedFrame DEF HubSid, Rank, Due, Reading
  <1>3. TypeOK'
    <2>1. status' \in [StatusKeys -> {"none", "ok", "fail"}]
      BY DEF IInv, TypeOK, HubSid, Emit, StatusKeys
    <2> QED
      BY <1>1, <1>2, <2>1, BoundsAssumption DEF IInv, TypeOK, PCs, Joining, Reading
  <1>4. setup.hub # "noSID"
    BY <1>1, FirstFrame DEF Tells
  <1>5. Idle' /\ InStep' /\ Passed' /\ AnnouncesAsMember' /\ GivesUpOnlyIfRefused'
    BY <1>1, <1>4 DEF IInv, Idle, InStep, Passed, Away, Ended, Online, Reading,
                      AnnouncesAsMember, GivesUpOnlyIfRefused
  <1>6. Reported'
    BY <1>1 DEF HubSid, Emit, IInv, TypeOK, StatusKeys, Reported, Away, Ended,
                Online, Reading
  <1> QED
    BY <1>2, <1>3, <1>5, <1>6 DEF IInv

LEMMA HubInfStep == IInv /\ HubInf => IInv'
  <1> SUFFICES ASSUME IInv, HubInf PROVE IInv'
    OBVIOUS
  <1>1. /\ pc = "hubinf" /\ pc' = "passwd" /\ Head(toClient) = "INF"
        /\ toClient # <<>> /\ skips' = 0
        /\ UNCHANGED <<setup, wire, hub, member, stale, infos, faults>>
    BY DEF HubInf, Receive, NextFrameIs, hubSide
  <1>2. toClient' \in Seq(HubFrames) /\ Truthful' /\ InOrder'
    BY <1>1, ReceivedFrame DEF HubInf, Rank, Due, Reading
  <1>3. /\ toHub' \in Seq(ClientFrames)
        /\ ~Broken /\ toHub = <<>> => toHub' = <<"BINF">>
    BY SentFrame DEF HubInf, ClientFrames
  <1>4. TypeOK'
    <2>1. status' \in [StatusKeys -> {"none", "ok", "fail"}]
      BY DEF IInv, TypeOK, HubInf, StatusKeys
    <2> QED
      BY <1>1, <1>2, <1>3, <2>1, BoundsAssumption
      DEF IInv, TypeOK, PCs, Joining, Reading
  <1>5. setup.hub # "noINF" /\ wire = "up"
    BY <1>1, FirstFrame DEF Tells
  <1>6. Idle' /\ InStep' /\ Passed' /\ AnnouncesAsMember' /\ GivesUpOnlyIfRefused'
    BY <1>1, <1>3, <1>5
    DEF IInv, Idle, InStep, Passed, Away, Ended, Online, Reading, Broken,
        AnnouncesAsMember, GivesUpOnlyIfRefused
  <1>7. Reported'
    BY <1>1 DEF HubInf, IInv, TypeOK, StatusKeys, Reported, Away, Ended, Online,
                Reading
  <1> QED
    BY <1>2, <1>4, <1>6, <1>7 DEF IInv

LEMMA PassRequestStep == IInv /\ PassRequest => IInv'
  <1> SUFFICES ASSUME IInv, PassRequest PROVE IInv'
    OBVIOUS
  <1>1. /\ pc = "passwd" /\ pc' = "hublogin" /\ Head(toClient) = "GPA"
        /\ toClient # <<>> /\ skips' = 0
        /\ UNCHANGED <<setup, wire, hub, member, stale, infos, faults>>
    BY DEF PassRequest, Receive, NextFrameIs, hubSide
  <1>2. toClient' \in Seq(HubFrames) /\ Truthful' /\ InOrder'
    BY <1>1, ReceivedFrame DEF PassRequest, Rank, Due, Reading
  <1>3. /\ toHub' \in Seq(ClientFrames)
        /\ ~Broken /\ toHub = <<>> => toHub' = <<"HPAS">>
    BY SentFrame DEF PassRequest, ClientFrames
  <1>4. TypeOK'
    <2>1. status' \in [StatusKeys -> {"none", "ok", "fail"}]
      BY DEF IInv, TypeOK, PassRequest, StatusKeys
    <2> QED
      BY <1>1, <1>2, <1>3, <2>1, BoundsAssumption
      DEF IInv, TypeOK, PCs, Joining, Reading
  <1>5. /\ setup.hub \notin {"badSalt", "noPassword", "regOnly"}
        /\ wire = "up" /\ hub \notin {"protocol", "identify"}
    BY <1>1, FirstFrame DEF Tells, Said
  <1>6. Idle' /\ InStep' /\ Passed' /\ AnnouncesAsMember' /\ GivesUpOnlyIfRefused'
    BY <1>1, <1>3, <1>5
    DEF IInv, Idle, InStep, Passed, Away, Ended, Online, Reading, Broken,
        AnnouncesAsMember, GivesUpOnlyIfRefused
  <1>7. Reported'
    BY <1>1 DEF PassRequest, IInv, TypeOK, StatusKeys, Reported, Away, Ended,
                Online, Reading
  <1> QED
    BY <1>2, <1>4, <1>6, <1>7 DEF IInv

\* The bot's own INF comes back: the hub has admitted it.
LEMMA HubLoginStep == IInv /\ HubLogin => IInv' /\ Acceptable
  <1> SUFFICES ASSUME IInv, HubLogin PROVE IInv' /\ Acceptable
    OBVIOUS
  <1>1. /\ pc = "hublogin" /\ pc' = "settle" /\ Head(toClient) = "BINF"
        /\ toClient # <<>> /\ skips' = 0
        /\ UNCHANGED <<setup, wire, hub, member, stale, infos, faults>>
    BY DEF HubLogin, Receive, NextFrameIs, hubSide
  <1>2. toClient' \in Seq(HubFrames) /\ Truthful' /\ InOrder'
    BY <1>1, ReceivedFrame DEF HubLogin, Rank, Due, Reading
  <1>3. toHub' \in Seq(ClientFrames)
    BY SentFrame DEF HubLogin, ClientFrames
  <1>4. TypeOK'
    <2>1. status' \in [StatusKeys -> {"none", "ok", "fail"}]
      BY DEF IInv, TypeOK, HubLogin, Emit, StatusKeys
    <2> QED
      BY <1>1, <1>2, <1>3, <2>1, BoundsAssumption DEF IInv, TypeOK, PCs, Online
  <1>5. /\ wire = "up" /\ hub \in {"normal", "gone"} /\ member
        /\ setup.hub = "noPassword" \/ setup.password
    BY <1>1, FirstFrame DEF Tells, Said, IInv, TypeOK
  <1>6. Acceptable
    BY <1>1, <1>5 DEF IInv, TypeOK, Setups, HubKinds, Passed, Reading, Acceptable
  <1>7. Idle' /\ InStep' /\ Passed' /\ AnnouncesAsMember' /\ GivesUpOnlyIfRefused'
    BY <1>1, <1>5, <1>6
    DEF IInv, Idle, InStep, Passed, Away, Ended, Online, Reading, Acceptable,
        AnnouncesAsMember, GivesUpOnlyIfRefused
  <1>8. Reported'
    BY <1>1 DEF HubLogin, Emit, IInv, TypeOK, StatusKeys, Reported, Away, Ended,
                Online, Reading
  <1> QED
    BY <1>2, <1>4, <1>6, <1>7, <1>8 DEF IInv

LEMMA RecvInfoStep == IInv /\ RecvInfo => IInv'
  <1> SUFFICES ASSUME IInv, RecvInfo PROVE IInv'
    OBVIOUS
  <1>1. pc \in Reading /\ toClient # <<>> /\ UNCHANGED <<setup, faults>>
    BY DEF RecvInfo
  <1>2. CASE LoginBail("retry")
    <2>1. faults' \in 0..MaxFaults
      BY <1>1 DEF IInv, TypeOK
    <2> QED
      BY <1>1, <1>2, <2>1, BailKeepsIInv
  <1>3. CASE /\ skips + 1 < MaxLoginStatus /\ skips' = skips + 1
             /\ toClient' = Tail(toClient)
             /\ UNCHANGED <<pc, status, wire, toHub, hubSide, infos>>
    <2>1. Head(toClient) = "INFO"
      BY FirstFrame DEF RecvInfo, Disposition, HubFrames
    <2>2. toClient' \in Seq(HubFrames) /\ Truthful' /\ InOrder'
      BY <1>1, <1>3, <2>1, TakeFrame DEF Rank, Due, hubSide
    <2>3. TypeOK'
      BY <1>1, <1>3, <2>2, BoundsAssumption DEF IInv, TypeOK, hubSide
    <2>4. wire = "up"
      BY <1>1, FirstFrame
    <2>5. Idle' /\ InStep' /\ Passed' /\ AnnouncesAsMember' /\ GivesUpOnlyIfRefused'
      BY <1>1, <1>3, <2>4 DEF IInv, Idle, InStep, Passed, AnnouncesAsMember,
                              GivesUpOnlyIfRefused, Acceptable, hubSide
    <2>6. Reported'
      BY <1>3 DEF IInv, Reported
    <2> QED
      BY <2>2, <2>3, <2>5, <2>6 DEF IInv
  <1> QED
    BY <1>2, <1>3 DEF RecvInfo

-----------------------------------------------------------------------------
(* The hub and the network                                                 *)

\* The hub has read the one frame that was on its way.
LEMMA HubHasRead ==
    ASSUME IInv, NEW f, NEW state \in {"protocol", "identify", "verify", "normal"},
           HubReads(f, state)
    PROVE  /\ wire = "up" /\ hub = state
           /\ pc \notin Away
           /\ toHub' \in Seq(ClientFrames)
           /\ toHub = <<f>> => toHub' = <<>>
           /\ toHub # <<>> /\ Head(toHub) = f
           /\ UNCHANGED <<setup, pc, skips, status, wire, stale, infos>>
  <1>1. wire = "up" /\ hub = state /\ toHub # <<>> /\ toHub' = Tail(toHub)
    BY DEF HubReads
  <1>2. toHub' \in Seq(ClientFrames)
    BY <1>1, HeadAndTail DEF IInv, TypeOK
  <1>3. pc \notin Away
    BY <1>1 DEF IInv, Idle
  <1>4. ASSUME toHub = <<f>> PROVE toHub' = <<>>
    BY <1>1, <1>4
  <1> QED
    BY <1>1, <1>2, <1>3, <1>4 DEF HubReads

\* As long as the hub has said nothing but information, no frame on the wire
\* has a place in the order.
LEMMA RanksSaid ==
    ASSUME IInv, NEW i \in 1..Len(toClient)
    PROVE  /\ hub = "protocol" => Rank(toClient[i]) = 0
           /\ hub = "identify" => Rank(toClient[i]) < 4
           /\ hub = "verify" => Rank(toClient[i]) < 5
           /\ Rank(toClient[i]) \in 0..5
  <1>1. toClient[i] \in Said(hub) /\ toClient[i] \in HubFrames
    BY ElementOfSeq DEF IInv, Truthful, Tells, TypeOK
  <1> QED
    BY <1>1 DEF Said, Rank, HubFrames

\* SUP, SID and INF answer the client's HSUP.
LEMMA HubOnSupportStep == IInv /\ HubOnSupport => IInv'
  <1> SUFFICES ASSUME IInv, HubOnSupport PROVE IInv'
    OBVIOUS
  <1>1. /\ wire = "up" /\ hub = "protocol" /\ pc \notin Away
        /\ toHub' \in Seq(ClientFrames)
        /\ toHub = <<"HSUP">> => toHub' = <<>>
        /\ toHub # <<>> /\ Head(toHub) = "HSUP"
        /\ UNCHANGED <<setup, pc, skips, status, wire, stale, infos, member, faults>>
        /\ hub' = "identify"
    BY HubHasRead DEF HubOnSupport
  <1> DEFINE sup == IF setup.hub = "noOSNR" THEN "SUPx" ELSE "SUP"
             sid == IF setup.hub = "noSID" THEN "OTHER" ELSE "SID"
             inf == IF setup.hub = "noINF" THEN "OTHER" ELSE "INF"
  <1>2. PICK r \in Seq(HubFrames) : r = <<sup, sid, inf>>
    <2>1. sup \in HubFrames /\ sid \in HubFrames /\ inf \in HubFrames
      BY DEF HubFrames
    <2>2. <<sup, sid, inf>> \in Seq(HubFrames)
      BY <2>1
    <2> QED
      BY <2>2
  <1>3. Len(r) = 3 /\ r[1] = sup /\ r[2] = sid /\ r[3] = inf
    BY <1>2
  <1>4. pc = "hubsupport" /\ toHub = <<"HSUP">>
    BY <1>1 DEF IInv, TypeOK, InStep, PCs, Joining, Reading, Away
  <1>5. \A i \in 1..Len(r) : Tells(r[i])'
    BY <1>1, <1>3 DEF Tells, Said, Acceptable
  <1>6. Acceptable => \A i \in 1..Len(r) :
            /\ Ordered(r, i)
            /\ \A j \in 1..Len(toClient) : Rank(toClient[j]) < Rank(r[i])
    <2> SUFFICES ASSUME Acceptable, NEW i \in 1..3
                 PROVE  /\ Ordered(r, i)
                        /\ \A j \in 1..Len(toClient) : Rank(toClient[j]) < Rank(r[i])
      BY <1>3
    <2>1. r[1] = "SUP" /\ r[2] = "SID" /\ r[3] = "INF" /\ Due = 1
      BY <1>3, <1>4 DEF Acceptable, Due
    <2>2. Rank(r[1]) = 1 /\ Rank(r[2]) = 2 /\ Rank(r[3]) = 3
      BY <2>1 DEF Rank
    <2>3. Ordered(r, i)
      BY <2>1, <2>2 DEF Ordered
    <2>4. \A j \in 1..Len(toClient) : Rank(toClient[j]) = 0
      BY <1>1, RanksSaid
    <2> QED
      BY <2>2, <2>3, <2>4
  <1>7. toClient' \in Seq(HubFrames) /\ Truthful' /\ InOrder'
    <2>1. toClient' = toClient \o r
      BY <1>2 DEF HubOnSupport, Reply
    <2>2. Said(hub) \subseteq Said(hub')
      BY <1>1 DEF Said
    <2> QED
      BY <1>1, <1>5, <1>6, <2>1, <2>2, ReplyFrames
  <1>8. TypeOK'
    BY <1>1, <1>7 DEF IInv, TypeOK
  <1>9. Idle' /\ InStep' /\ Passed' /\ AnnouncesAsMember' /\ GivesUpOnlyIfRefused'
        /\ Reported'
    BY <1>1, <1>4 DEF IInv, Idle, InStep, Passed, AnnouncesAsMember, Away, Online,
                      GivesUpOnlyIfRefused, Acceptable, Reported
  <1> QED
    BY <1>7, <1>8, <1>9 DEF IInv

\* One frame more on the wire: true, and after all those before it.
LEMMA ReplyOne ==
    ASSUME IInv, NEW f \in HubFrames, Reply(<<f>>), UNCHANGED <<setup, pc>>,
           member => member', Said(hub) \subseteq Said(hub'), Tells(f)',
           Acceptable /\ Rank(f) # 0 =>
               Rank(f) = Due
               /\ \A j \in 1..Len(toClient) : Rank(toClient[j]) < Rank(f)
    PROVE  toClient' \in Seq(HubFrames) /\ Truthful' /\ InOrder'
  <1>1. PICK r \in Seq(HubFrames) : r = <<f>>
    <2>1. <<f>> \in Seq(HubFrames)
      OBVIOUS
    <2> QED
      BY <2>1
  <1>2. Len(r) = 1 /\ r[1] = f /\ toClient' = toClient \o r
    BY <1>1 DEF Reply
  <1>3. \A i \in 1..Len(r) : Tells(r[i])'
    <2> SUFFICES Tells(r[1])'
      BY <1>2
    <2> QED
      BY <1>2 DEF Tells
  <1>4. Acceptable => \A i \in 1..Len(r) :
            /\ Ordered(r, i)
            /\ Rank(r[i]) # 0 =>
                  \A j \in 1..Len(toClient) : Rank(toClient[j]) < Rank(r[i])
    <2>1. Due \in 1..6
      BY DEF Due
    <2> QED
      BY <1>2, <2>1 DEF Ordered
  <1> QED
    BY <1>2, <1>3, <1>4, ReplyFrames

\* The client's INF, whatever the hub says to it.
LEMMA HubOnInfStep == IInv /\ HubOnInf => IInv'
  <1> SUFFICES ASSUME IInv, HubOnInf PROVE IInv'
    OBVIOUS
  <1>1. /\ wire = "up" /\ hub = "identify" /\ pc \notin Away
        /\ toHub' \in Seq(ClientFrames)
        /\ toHub = <<"BINF">> => toHub' = <<>>
        /\ toHub # <<>> /\ Head(toHub) = "BINF"
        /\ UNCHANGED <<setup, pc, skips, status, wire, stale, infos>>
    BY HubHasRead DEF HubOnInf
  <1>2. pc = "passwd" /\ toHub = <<"BINF">>
    BY <1>1 DEF IInv, TypeOK, InStep, PCs, Joining, Reading, Away
  <1>3. member = FALSE \/ member = TRUE
    BY DEF IInv, TypeOK
  <1>4. PICK f \in HubFrames :
            /\ Reply(<<f>>)
            /\ \/ f \in {"TAKEN", "FULL"} /\ hub' = "gone" /\ member' = member
               \/ /\ f = "DENIED" /\ setup.hub = "regOnly"
                  /\ hub' = "gone" /\ member' = member
               \/ /\ f = "BINF" /\ setup.hub = "noPassword"
                  /\ hub' = "normal" /\ member' = TRUE
               \/ /\ f = "GPAx" /\ setup.hub = "badSalt"
                  /\ hub' = "verify" /\ member' = member
               \/ /\ f = "GPA" /\ setup.hub \notin {"badSalt", "noPassword", "regOnly"}
                  /\ hub' = "verify" /\ member' = member
    BY DEF HubOnInf, HubFrames
  <1>5. faults' \in 0..MaxFaults
    BY BoundsAssumption DEF IInv, TypeOK, HubOnInf, Fault
  <1>6. toClient' \in Seq(HubFrames) /\ Truthful' /\ InOrder'
    <2>1. Said(hub) \subseteq Said(hub') /\ f \in Said(hub')
      BY <1>1, <1>4 DEF Said
    <2>2. Tells(f)'
      BY <1>1, <1>4, <2>1 DEF Tells, Acceptable
    <2>3. Acceptable /\ Rank(f) # 0 => Rank(f) = 4
      BY <1>4 DEF Rank, Acceptable
    <2>4. \A j \in 1..Len(toClient) : Rank(toClient[j]) < 4
      BY <1>1, RanksSaid
    <2>5. Due = 4
      BY <1>2 DEF Due
    <2>6. member => member'
      BY <1>3, <1>4
    <2> QED
      BY <1>1, <1>4, <2>1, <2>2, <2>3, <2>4, <2>5, <2>6, ReplyOne
  <1>7. TypeOK'
    BY <1>1, <1>3, <1>4, <1>5, <1>6 DEF IInv, TypeOK
  <1>8. /\ Idle' /\ InStep' /\ Passed' /\ AnnouncesAsMember'
        /\ GivesUpOnlyIfRefused' /\ Reported'
    BY <1>1, <1>2, <1>4
    DEF IInv, Idle, InStep, Passed, AnnouncesAsMember, Away, Online, Ended,
        GivesUpOnlyIfRefused, Acceptable, Reported
  <1> QED
    BY <1>6, <1>7, <1>8 DEF IInv

LEMMA HubOnPasswordStep == IInv /\ HubOnPassword => IInv'
  <1> SUFFICES ASSUME IInv, HubOnPassword PROVE IInv'
    OBVIOUS
  <1>1. /\ wire = "up" /\ hub = "verify" /\ pc \notin Away
        /\ toHub' \in Seq(ClientFrames)
        /\ toHub = <<"HPAS">> => toHub' = <<>>
        /\ toHub # <<>> /\ Head(toHub) = "HPAS"
        /\ UNCHANGED <<setup, pc, skips, status, wire, stale, infos>>
    BY HubHasRead DEF HubOnPassword
  <1>2. pc = "hublogin" /\ toHub = <<"HPAS">>
    BY <1>1 DEF IInv, TypeOK, InStep, PCs, Joining, Reading, Away
  <1>3. member = FALSE \/ member = TRUE
    BY DEF IInv, TypeOK
  <1>4. PICK f \in HubFrames :
            /\ Reply(<<f>>)
            /\ \/ f = "BINF" /\ setup.password /\ hub' = "normal" /\ member' = TRUE
               \/ /\ f \in {"OTHER", "DENIED"} /\ ~setup.password
                  /\ hub' = "gone" /\ member' = member
    BY DEF HubOnPassword, HubFrames
  <1>5. toClient' \in Seq(HubFrames) /\ Truthful' /\ InOrder'
    <2>1. Said(hub) \subseteq Said(hub') /\ f \in Said(hub')
      BY <1>1, <1>4 DEF Said
    <2>2. Tells(f)'
      BY <1>1, <1>4, <2>1 DEF Tells, Acceptable
    <2>3. Acceptable /\ Rank(f) # 0 => Rank(f) = 5
      BY <1>4 DEF Rank, Acceptable
    <2>4. \A j \in 1..Len(toClient) : Rank(toClient[j]) < 5
      BY <1>1, RanksSaid
    <2>5. Due = 5
      BY <1>2 DEF Due
    <2>6. member => member'
      BY <1>3, <1>4
    <2> QED
      BY <1>1, <1>4, <2>1, <2>2, <2>3, <2>4, <2>5, <2>6, ReplyOne
  <1>6. TypeOK'
    BY <1>1, <1>3, <1>4, <1>5 DEF IInv, TypeOK, HubOnPassword
  <1>7. /\ Idle' /\ InStep' /\ Passed' /\ AnnouncesAsMember'
        /\ GivesUpOnlyIfRefused' /\ Reported'
    BY <1>1, <1>2, <1>4
    DEF IInv, Idle, InStep, Passed, AnnouncesAsMember, Away, Online, Ended,
        GivesUpOnlyIfRefused, Acceptable, Reported
  <1> QED
    BY <1>5, <1>6, <1>7 DEF IInv

LEMMA HubOnCountStep == IInv /\ HubOnCount => IInv'
  <1> SUFFICES ASSUME IInv, HubOnCount PROVE IInv'
    OBVIOUS
  <1>1. /\ wire = "up" /\ hub = "normal" /\ pc \notin Away
        /\ toHub' \in Seq(ClientFrames)
        /\ toHub # <<>> /\ Head(toHub) = "HCOUNT"
        /\ UNCHANGED <<setup, pc, skips, status, wire, stale, infos, toClient, hub,
                       member, faults>>
    BY HubHasRead DEF HubOnCount
  <1>2. Due' = Due
    BY <1>1 DEF Due
  <1>3. Truthful' /\ InOrder'
    BY <1>1, <1>2, SameFrames
  <1>4. TypeOK'
    BY <1>1 DEF IInv, TypeOK
  <1>5. pc \in Online
    BY <1>1 DEF IInv, TypeOK, InStep, PCs, Joining, Reading, Away
  <1>6. /\ Idle' /\ InStep' /\ Passed' /\ AnnouncesAsMember'
        /\ GivesUpOnlyIfRefused' /\ Reported'
    BY <1>1, <1>5
    DEF IInv, Idle, InStep, Passed, AnnouncesAsMember, Away, Online, Ended, Reading,
        GivesUpOnlyIfRefused, Acceptable, Reported
  <1> QED
    BY <1>3, <1>4, <1>6 DEF IInv

\* Information, a close, a cut.
LEMMA EnvironmentSteps == IInv /\ (HubInforms \/ HubCloses \/ LinkCut) => IInv'
  <1> SUFFICES ASSUME IInv, HubInforms \/ HubCloses \/ LinkCut PROVE IInv'
    OBVIOUS
  <1>1. CASE HubInforms
    <2>1. /\ UNCHANGED <<setup, pc, skips, status, wire, toHub, hub, member, stale,
                         faults>>
          /\ Reply(<<"INFO">>) /\ wire = "up" /\ infos' \in 0..MaxInfo
      BY <1>1, BoundsAssumption DEF IInv, TypeOK, HubInforms, hubSide
    <2>2. Tells("INFO")' /\ Rank("INFO") = 0 /\ "INFO" \in HubFrames
      BY DEF Tells, Said, Rank, HubFrames
    <2>3. toClient' \in Seq(HubFrames) /\ Truthful' /\ InOrder'
      BY <2>1, <2>2, ReplyOne
    <2>4. TypeOK'
      BY <2>1, <2>3 DEF IInv, TypeOK
    <2>5. /\ Idle' /\ InStep' /\ Passed' /\ AnnouncesAsMember'
          /\ GivesUpOnlyIfRefused' /\ Reported'
      BY <2>1 DEF IInv, Idle, InStep, Passed, AnnouncesAsMember,
                  GivesUpOnlyIfRefused, Acceptable, Reported
    <2> QED
      BY <2>3, <2>4, <2>5 DEF IInv
  <1>2. CASE HubCloses
    <2>1. /\ UNCHANGED <<setup, pc, skips, status, network, member, stale, infos>>
          /\ hub' = "gone" /\ wire = "up" /\ hub # "none"
          /\ faults' \in 0..MaxFaults
      BY <1>2, BoundsAssumption DEF IInv, TypeOK, HubCloses, Fault
    <2>2. Said(hub) \subseteq Said(hub')
      BY <2>1 DEF Said
    <2>3. Due' = Due
      BY <2>1 DEF Due
    <2>4. Truthful' /\ InOrder'
      BY <2>1, <2>2, <2>3, SameFrames DEF network
    <2>5. TypeOK'
      BY <2>1 DEF IInv, TypeOK, network
    <2>6. /\ Idle' /\ InStep' /\ Passed' /\ AnnouncesAsMember'
          /\ GivesUpOnlyIfRefused' /\ Reported'
      BY <2>1 DEF IInv, Idle, InStep, Passed, AnnouncesAsMember, network,
                  GivesUpOnlyIfRefused, Acceptable, Reported
    <2> QED
      BY <2>4, <2>5, <2>6 DEF IInv
  <1>3. CASE LinkCut
    <2>1. /\ UNCHANGED <<setup, pc, skips, status, hub, member, stale, infos>>
          /\ wire' = "cut" /\ wire = "up" /\ toHub' = <<>> /\ toClient' = <<>>
          /\ faults' \in 0..MaxFaults
      BY <1>3, BoundsAssumption DEF IInv, TypeOK, LinkCut, Fault, hubSide
    <2>2. Truthful' /\ InOrder'
      BY <2>1, EmptySeq DEF Truthful, InOrder
    <2>3. TypeOK'
      <3>1. toHub' \in Seq(ClientFrames) /\ toClient' \in Seq(HubFrames)
        BY <2>1, EmptySeq
      <3> QED
        BY <2>1, <3>1 DEF IInv, TypeOK
    <2>4. /\ Idle' /\ InStep' /\ Passed' /\ AnnouncesAsMember'
          /\ GivesUpOnlyIfRefused' /\ Reported'
      BY <2>1 DEF IInv, Idle, InStep, Passed, AnnouncesAsMember,
                  GivesUpOnlyIfRefused, Acceptable, Reported
    <2> QED
      BY <2>2, <2>3, <2>4 DEF IInv
  <1> QED
    BY <1>1, <1>2, <1>3

-----------------------------------------------------------------------------
(* Theorems                                                                *)

LEMMA NextIInv == IInv /\ [Next]_vars => IInv'
  <1> SUFFICES ASSUME IInv, [Next]_vars PROVE IInv'
    OBVIOUS
  <1>1. CASE Client
    <2>1. CASE \/ ConnectFails \/ Handshake \/ Settle \/ ScanAndSend \/ NextScanDue
               \/ Backoff
      BY <2>1, QuietSteps
    <2>2. CASE Connect \/ CheckKeyprint \/ SendSupport
      BY <2>2, ConnectStep, KeyprintStep, SendSupportStep
    <2>3. CASE \/ HandshakeFails \/ SendSupportFails \/ OwnInfFails \/ PassFails
               \/ HubCountFails \/ SendFails \/ PollLost
      BY <2>3, RetryingSteps
    <2>4. CASE NoOSNR \/ NoSid \/ NoInf \/ NoPassRequest \/ LoginFailed \/ SaltRaises
      BY <2>4, GivingUpSteps
    <2>5. CASE RecvInfo \/ RecvReject \/ RecvError
      BY <2>5, RecvInfoStep, RefusalSteps
    <2>6. CASE HubSupport \/ HubSid \/ HubInf \/ PassRequest \/ HubLogin
      BY <2>6, HubSupportStep, HubSidStep, HubInfStep, PassRequestStep, HubLoginStep
    <2> QED
      BY <1>1, <2>1, <2>2, <2>3, <2>4, <2>5, <2>6 DEF Client, Login
  <1>2. CASE Hub
    BY <1>2, HubOnSupportStep, HubOnInfStep, HubOnPasswordStep, HubOnCountStep
    DEF Hub
  <1>3. CASE Environment
    BY <1>3, EnvironmentSteps, QuietSteps DEF Environment
  <1>4. CASE UNCHANGED vars
    <2>1. UNCHANGED <<setup, pc, skips, status, wire, toHub, toClient, hub, member,
                      stale, infos, faults>>
      BY <1>4 DEF vars, network, hubSide
    <2>2. Truthful' /\ InOrder'
      BY <2>1, SameFrames DEF Due
    <2>3. TypeOK' /\ Idle' /\ InStep' /\ Passed' /\ AnnouncesAsMember'
          /\ GivesUpOnlyIfRefused' /\ Reported'
      BY <2>1 DEF IInv, TypeOK, Idle, InStep, Passed, AnnouncesAsMember,
                  GivesUpOnlyIfRefused, Acceptable, Reported
    <2> QED
      BY <2>2, <2>3 DEF IInv
  <1> QED
    BY <1>1, <1>2, <1>3, <1>4 DEF Next, Terminated

\* What is on the wire, and how far the client and the hub have come, is always
\* consistent: the invariant of the whole session.
THEOREM SessionInvariant == Spec => []IInv
  BY InitIInv, NextIInv, PTL DEF Spec

\* Every variable of the session keeps its type.
THEOREM TypeCorrect == Spec => []TypeOK
  <1>1. IInv => TypeOK
    BY DEF IInv
  <1> QED
    BY <1>1, SessionInvariant, PTL

\* The bot never announces on a connection on which the hub did not admit it,
\* whatever is lost, refused or left over from an earlier connection.
THEOREM AnnouncesAsMemberHolds == Spec => []AnnouncesAsMember
  <1>1. IInv => AnnouncesAsMember
    BY DEF IInv
  <1> QED
    BY <1>1, SessionInvariant, PTL

\* The announcer ends only if its login was impossible: no sequence of faults
\* and refusals, of any length, makes it give up a hub that would have it.
THEOREM GivesUpOnlyIfRefusedHolds == Spec => []GivesUpOnlyIfRefused
  <1>1. IInv => GivesUpOnlyIfRefused
    BY DEF IInv
  <1> QED
    BY <1>1, SessionInvariant, PTL

\* While the bot is online, no status key keeps the failure of an earlier
\* attempt.
THEOREM NoStaleFailureHolds == Spec => []NoStaleFailure
  <1>1. IInv => NoStaleFailure
    BY DEF IInv, Reported, NoStaleFailure, StatusKeys, Away, Ended, Online
  <1> QED
    BY <1>1, SessionInvariant, PTL

\* What a step does to the client's place.
LEMMA Moves ==
    ASSUME IInv, [Next]_vars
    PROVE  /\ UNCHANGED setup
           /\ \/ pc' = pc
              \/ pc = "backoff" /\ pc' = "connect"
              \/ pc = "connect" /\ pc' = "handshake"
              \/ pc \in Joining /\ pc' \in Joining \cup {"backoff"} \cup Ended
              \/ HubLogin /\ pc = "hublogin" /\ pc' = "settle"
              \/ pc \in Online /\ pc' \in Online \cup {"backoff"}
  <1>1. CASE \/ ConnectFails \/ Handshake \/ Settle \/ ScanAndSend \/ NextScanDue
             \/ Backoff \/ Connect \/ CheckKeyprint \/ SendSupport
    BY <1>1
    DEF ConnectFails, Handshake, Settle, ScanAndSend, NextScanDue, Backoff, Connect,
        CheckKeyprint, SendSupport, GiveUp, Joining, Reading, Online, Ended
  <1>2. CASE \/ HandshakeFails \/ SendSupportFails \/ OwnInfFails \/ PassFails
             \/ HubCountFails \/ SendFails \/ PollLost
    BY <1>2
    DEF HandshakeFails, SendSupportFails, OwnInfFails, PassFails, HubCountFails,
        SendFails, PollLost, Retry, Joining, Reading, Online
  <1>3. CASE NoOSNR \/ NoSid \/ NoInf \/ NoPassRequest \/ LoginFailed \/ SaltRaises
    BY <1>3
    DEF NoOSNR, NoSid, NoInf, NoPassRequest, LoginFailed, SaltRaises, Unexpected,
        GiveUp, Joining, Reading, Ended
  <1>4. CASE RecvInfo \/ RecvReject \/ RecvError
    BY <1>4
    DEF RecvInfo, RecvReject, RecvError, LoginBail, Retry, GiveUp, Joining, Ended
  <1>5. CASE HubSupport \/ HubSid \/ HubInf \/ PassRequest \/ HubLogin
    BY <1>5
    DEF HubSupport, HubSid, HubInf, PassRequest, HubLogin, Receive, Joining, Reading
  <1>6. CASE Hub \/ Environment \/ UNCHANGED vars
    BY <1>6
    DEF Hub, HubOnSupport, HubOnInf, HubOnPassword, HubOnCount, HubReads,
        Environment, HubInforms, StaleExpires, HubCloses, LinkCut, vars
  <1> QED
    BY <1>1, <1>2, <1>3, <1>4, <1>5, <1>6 DEF Next, Client, Login, Terminated

\* The session keeps the promise of HubMembership: a login becomes a
\* membership only if it is acceptable, and a refusal only if it is not.
THEOREM ImplementsMembershipHolds == Spec => ImplementsMembership
  <1>1. Init => Membership!Init
    BY DEF Init, Membership!Init, Acceptable, Setups, Joining, Reading, Online, Ended
  <1>2. IInv /\ IInv' /\ [Next]_vars => [Membership!Next]_(Membership!vars)
    <2> SUFFICES ASSUME IInv, IInv', [Next]_vars
                 PROVE  Membership!Next \/ UNCHANGED Membership!vars
      OBVIOUS
    <2>1. UNCHANGED setup /\ (Acceptable' <=> Acceptable)
      BY Moves DEF Acceptable
    <2>2. pc' \in Ended => ~Acceptable
      BY <2>1 DEF IInv, GivesUpOnlyIfRefused
    <2>3. HubLogin => Acceptable
      BY HubLoginStep
    <2> QED
      BY <2>1, <2>2, <2>3, Moves
      DEF Membership!Next, Membership!Join, Membership!Admit, Membership!Drop,
          Membership!Refuse, Membership!Becomes, Membership!vars, Joining, Reading,
          Online, Ended
  <1> QED
    BY <1>1, <1>2, SessionInvariant, PTL
    DEF Spec, ImplementsMembership, Membership!Spec
=============================================================================
