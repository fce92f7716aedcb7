-------------------------------- MODULE Link --------------------------------
(***************************************************************************)
(* The connection under net.lua: LuaSec's ssl_send and ssl_recv (ssl.c),   *)
(* LuaSocket's line buffer and timeouts (buffer.c, timeout.c, the copies   *)
(* in luasec/src/luasocket), and net.lua's use of them: the reads of the   *)
(* login, the announcements and keepalives, and the liveness poll.         *)
(*                                                                         *)
(* Time is counted in units and passes only while the client waits for the *)
(* socket (socket_waitfd); what it does between two waits takes none.  The *)
(* hub's bytes are pieces: a frame is one piece or more, of which the last *)
(* carries the line feed.  OpenSSL, the operating system and the hub are   *)
(* external.                                                               *)
(***************************************************************************)
EXTENDS Integers, Sequences, SequencesExt

CONSTANTS
    Release,        \* what there is to announce
    NoFrame,        \* what `frame` holds outside client:send
    LoginFrames,    \* login frames that net.lua waits for
    SockTimeout,    \* cfg.sockettimeout, in units of time
    PollTimeout,    \* poll_timeout
    Interval,       \* announce_interval
    SendBuffer,     \* frames that the operating system takes before a write waits
    ReadBuffer,     \* BUF_SIZE, in pieces
    MaxInbound,     \* bound on pieces on their way to the client
    MaxBurst,       \* bound on pieces that the hub sends in a unit of time
    MaxFaults       \* bound on closed and cut connections

KeepAlive == "keepalive"
Frames    == Release \cup {KeepAlive}

ASSUME LinkAssumption ==
    /\ NoFrame \notin Frames /\ KeepAlive \notin Release
    /\ LoginFrames \in Nat \ {0}
    /\ SockTimeout \in Nat \ {0} /\ PollTimeout \in Nat \ {0}
    /\ Interval \in Nat \ {0}
    /\ SendBuffer \in Nat \ {0} /\ ReadBuffer \in Nat \ {0}
    /\ MaxInbound \in Nat /\ MaxBurst \in Nat /\ MaxFaults \in Nat

VARIABLES
    pc,         \* "login", "poll", "scan", "send" or "down"
    block,      \* tm.block: what settimeout set
    left,       \* what timeout_getretry has left of it for this call
    buf,        \* LuaSocket's read buffer
    line,       \* recvline's luaL_Buffer: the line so far
    taken,      \* login frames that net.lua accepted, as it read them
    due,        \* time until next_announce
    late,       \* time for which a scan has been due
    found,      \* releases that the scan has still to announce
    frame,      \* what client:send is sending
    recorded,   \* releases that log.release has recorded
    wire,       \* the TCP connection: "none", "up", "closed" or "cut"
    inbound,    \* pieces on their way to the client
    outbound,   \* frames that the operating system took, until the hub reads them
    spoken,     \* pieces of login frames that the hub has sent
    burst,      \* pieces that the hub may still send in this unit of time
    received,   \* ghost: how often the hub has read each release
    mislaid,    \* ghost: releases on a connection when it broke or ended
    faults      \* connections closed or cut so far

reading == <<buf, line>>
client  == <<pc, block, left, reading, taken, due, late, found, frame, recorded>>
network == <<wire, inbound, outbound>>
hubSide == <<spoken, burst, received, mislaid>>
vars    == <<client, network, hubSide, faults>>

-----------------------------------------------------------------------------

\* `of` is the number of the login frame, 0 for anything after the login.
Pieces == [of : 0..LoginFrames, end : BOOLEAN]

LoginPiece(n) == [of |-> (n + 1) \div 2, end |-> n % 2 = 0]

WholeFrame(k) == <<LoginPiece(2 * k - 1), LoginPiece(2 * k)>>

TypeOK ==
    /\ pc \in {"login", "poll", "scan", "send", "down"}
    /\ block \in {SockTimeout, PollTimeout}
    /\ left \in Nat /\ (pc # "scan" => left <= block)
    /\ buf \in Seq(Pieces) /\ Len(buf) <= ReadBuffer
    /\ line \in Seq(Pieces)
    /\ taken \in Seq(Seq(Pieces)) /\ Len(taken) <= LoginFrames
    /\ due \in 0..Interval
    /\ late \in Nat
    /\ found \subseteq Release
    /\ frame \in Frames \cup {NoFrame}
    /\ recorded \subseteq Release
    /\ wire \in {"none", "up", "closed", "cut"}
    /\ inbound \in Seq(Pieces)
    /\ outbound \in Seq(Frames) /\ Len(outbound) <= SendBuffer
    /\ spoken \in 0..(2 * LoginFrames)
    /\ burst \in 0..MaxBurst
    /\ received \in [Release -> Nat]
    /\ mislaid \subseteq Release
    /\ faults \in 0..MaxFaults

Init ==
    /\ pc = "login"
    /\ block = SockTimeout /\ left = SockTimeout
    /\ buf = <<>> /\ line = <<>> /\ taken = <<>>
    /\ due = 0 /\ late = 0
    /\ found = {} /\ frame = NoFrame /\ recorded = {}
    /\ wire = "up" /\ inbound = <<>> /\ outbound = <<>>
    /\ spoken = 0 /\ burst = MaxBurst
    /\ received = [r \in Release |-> 0]
    /\ mislaid = {} /\ faults = 0

-----------------------------------------------------------------------------
(* net.lua between two calls of the socket                                 *)

\* client:settimeout and client:receive: timeout_markstart, an empty line.
StartReceive(timeout) ==
    /\ block' = timeout /\ left' = timeout
    /\ line' = <<>>

StartPoll == pc' = "poll" /\ StartReceive(PollTimeout)

\* The top of the loop: a scan, if one is due; the releases that announce.update
\* finds are those not recorded.
LoopTop ==
    IF due = 0
      THEN /\ pc' = "scan"
           /\ block' = SockTimeout
           /\ found' = Release \ recorded
           /\ late' = 0
           /\ UNCHANGED <<left, line>>
      ELSE StartPoll /\ UNCHANGED <<found, late>>

\* net.loop returns: the socket is closed or left to the garbage collector.
\* The operating system may still deliver what it took, or some of it.
Drop ==
    /\ pc' = "down"
    /\ wire' = "none" /\ inbound' = <<>> /\ outbound' = <<>>
    /\ buf' = <<>> /\ line' = <<>> /\ taken' = <<>>
    /\ found' = {} /\ frame' = NoFrame
    /\ \E n \in 0..Len(outbound) :
         LET delivered == IF wire = "up" THEN ToSet(SubSeq(outbound, 1, n)) ELSE {}
         IN  /\ received' = [r \in Release |->
                               received[r] + IF r \in delivered THEN 1 ELSE 0]
             /\ mislaid' = mislaid \cup ((ToSet(outbound) \cap Release) \ delivered)
    /\ spoken' = 0 /\ burst' = MaxBurst
    /\ left' = 0 /\ due' = 0 /\ late' = 0

\* The frontend calls net.loop again, and the handshake succeeds.
Reconnect ==
    /\ pc = "down"
    /\ pc' = "login"
    /\ StartReceive(SockTimeout)
    /\ wire' = "up"
    /\ UNCHANGED <<buf, taken, due, late, found, frame, recorded, inbound, outbound,
                   hubSide, faults>>

-----------------------------------------------------------------------------
(* client:receive                                                          *)

Receiving == pc \in {"login", "poll"}

\* recvline comes to a line feed: the line is returned without error.
LineRead(whole) ==
    IF pc = "poll"
      THEN LoopTop /\ UNCHANGED taken
      ELSE /\ taken' = Append(taken, whole)
           /\ IF Len(taken) + 1 < LoginFrames
                THEN /\ StartReceive(SockTimeout)
                     /\ UNCHANGED <<pc, found, late>>
                ELSE LoopTop

\* recvline moves what is buffered to the line, up to the first line feed.
RecvLine ==
    /\ Receiving /\ buf # <<>>
    /\ \/ /\ \A i \in DOMAIN buf : ~buf[i].end
          /\ buf' = <<>>
          /\ line' = line \o buf
          /\ UNCHANGED <<pc, block, left, taken, late, found>>
       \/ \E stop \in DOMAIN buf :
            /\ buf[stop].end /\ \A i \in 1..(stop - 1) : ~buf[i].end
            /\ buf' = SubSeq(buf, stop + 1, Len(buf))
            /\ LineRead(line \o SubSeq(buf, 1, stop))
    /\ UNCHANGED <<due, frame, recorded, network, hubSide, faults>>

\* Variant: after data, the wait may take the whole timeout again (timeout_get).
RecvDataAnew ==
    /\ Receiving /\ buf = <<>> /\ inbound # <<>>
    /\ \E n \in 1..ReadBuffer :
         /\ n <= Len(inbound)
         /\ buf' = SubSeq(inbound, 1, n)
         /\ inbound' = SubSeq(inbound, n + 1, Len(inbound))
    /\ left' = block
    /\ UNCHANGED <<pc, block, line, taken, due, late, found, frame, recorded, wire,
                   outbound, hubSide, faults>>

\* buffer_get calls ssl_recv, and SSL_read returns what has arrived, or some
\* of it.  The time that is left stays what it is.
RecvData ==
    /\ Receiving /\ buf = <<>> /\ inbound # <<>>
    /\ \E n \in 1..ReadBuffer :
         /\ n <= Len(inbound)
         /\ buf' = SubSeq(inbound, 1, n)
         /\ inbound' = SubSeq(inbound, n + 1, Len(inbound))
    /\ UNCHANGED <<pc, block, left, line, taken, due, late, found, frame, recorded,
                   wire, outbound, hubSide, faults>>

\* Nothing is there: SSL_read wants to read, and socket_waitfd waits.
WaitsToRead == Receiving /\ buf = <<>> /\ inbound = <<>> /\ wire # "closed"

\* Variant: "wantread" is idle in the login too.
RecvTimeoutIdle ==
    /\ WaitsToRead /\ left = 0
    /\ IF pc = "login"
         THEN StartReceive(SockTimeout) /\ UNCHANGED <<pc, late, found>>
         ELSE LoopTop
    /\ UNCHANGED <<buf, taken, due, frame, recorded, network, hubSide, faults>>

\* "wantread": the partial line is lost.  To the poll it means an idle hub; a
\* login read reports an error, and login_bail closes.
RecvTimeout ==
    /\ WaitsToRead /\ left = 0
    /\ IF pc = "login"
         THEN Drop /\ UNCHANGED <<block, recorded, faults>>
         ELSE /\ LoopTop
              /\ UNCHANGED <<buf, taken, due, frame, recorded, network, hubSide,
                             faults>>

\* "closed", or the error of a dead connection.
RecvClosed ==
    /\ Receiving /\ buf = <<>> /\ inbound = <<>> /\ wire = "closed"
    /\ Drop
    /\ UNCHANGED <<block, recorded, faults>>

-----------------------------------------------------------------------------
(* client:send                                                             *)

\* Variant: a scan ends without a keepalive.
NextFrameWithoutKeepAlive ==
    /\ pc = "scan"
    /\ IF found = {}
         THEN due' = Interval /\ StartPoll /\ UNCHANGED <<frame, found>>
         ELSE /\ \E r \in found : frame' = r /\ found' = found \ {r}
              /\ pc' = "send" /\ left' = block
              /\ UNCHANGED <<block, line, due>>
    /\ UNCHANGED <<buf, taken, late, recorded, network, hubSide, faults>>

\* The next release in the order of pairs(), and the keepalive after the last.
NextFrame ==
    /\ pc = "scan"
    /\ IF found = {}
         THEN frame' = KeepAlive /\ UNCHANGED found
         ELSE \E r \in found : frame' = r /\ found' = found \ {r}
    /\ pc' = "send" /\ left' = block
    /\ UNCHANGED <<block, reading, taken, due, late, recorded, network, hubSide, faults>>

\* client:send returned without error: log.release, or the end of the scan.
Sent ==
    /\ frame' = NoFrame
    /\ IF frame = KeepAlive
         THEN due' = Interval /\ StartPoll /\ UNCHANGED recorded
         ELSE /\ recorded' = recorded \cup {frame}
              /\ pc' = "scan"
              /\ UNCHANGED <<block, left, line, due>>
    /\ UNCHANGED <<buf, taken, late, found>>

Full == Len(outbound) >= SendBuffer

\* SSL_write succeeds: the operating system takes the frame.  If the connection
\* is broken, nobody will read it.
SendDone ==
    /\ pc = "send" /\ (wire = "closed" \/ ~Full)
    /\ Sent
    /\ outbound' = IF wire = "closed" THEN outbound ELSE Append(outbound, frame)
    /\ mislaid' = IF wire = "up" THEN mislaid ELSE mislaid \cup ({frame} \cap Release)
    /\ UNCHANGED <<wire, inbound, spoken, burst, received, faults>>

WaitsToWrite == pc = "send" /\ Full /\ wire # "closed"

\* Variant: the error is ignored.
SendFailsIgnored ==
    /\ pc = "send"
    /\ wire = "closed" \/ (WaitsToWrite /\ left = 0)
    /\ Sent
    /\ UNCHANGED <<network, hubSide, faults>>

\* The write fails on a closed connection, or nobody made room for it in time
\* ("wantwrite"): a TLS record that was not written whole is no frame.
SendFails ==
    /\ pc = "send"
    /\ wire = "closed" \/ (WaitsToWrite /\ left = 0)
    /\ Drop
    /\ UNCHANGED <<block, recorded, faults>>

-----------------------------------------------------------------------------
(* Time                                                                    *)

\* Variant: what is left is not kept from going below zero.
DecrementRaw(t) == t - 1

Decrement(t) == IF t = 0 THEN 0 ELSE t - 1

\* A unit of time passes in socket_waitfd.
Tick ==
    /\ WaitsToRead \/ WaitsToWrite
    /\ left > 0
    /\ left' = Decrement(left)
    /\ due' = Decrement(due)
    /\ late' = IF pc = "poll" /\ due = 0 THEN late + 1 ELSE late
    /\ burst' = MaxBurst
    /\ UNCHANGED <<pc, block, reading, taken, found, frame, recorded, network, spoken,
                   received, mislaid, faults>>

-----------------------------------------------------------------------------
(* The hub and the network (external)                                      *)

\* The hub sends its login frames in order, and after them frames of any
\* length, at any pace up to MaxBurst.
HubSends ==
    /\ wire = "up" /\ burst > 0 /\ Len(inbound) < MaxInbound
    /\ burst' = burst - 1
    /\ IF spoken < 2 * LoginFrames
         THEN /\ spoken' = spoken + 1
              /\ inbound' = Append(inbound, LoginPiece(spoken'))
         ELSE /\ \E end \in BOOLEAN : inbound' = Append(inbound, [of |-> 0, end |-> end])
              /\ UNCHANGED spoken
    /\ UNCHANGED <<client, wire, outbound, received, mislaid, faults>>

HubReads ==
    /\ wire = "up" /\ outbound # <<>>
    /\ outbound' = Tail(outbound)
    /\ received' = IF Head(outbound) = KeepAlive THEN received
                   ELSE [received EXCEPT ![Head(outbound)] = @ + 1]
    /\ UNCHANGED <<client, wire, inbound, spoken, burst, mislaid, faults>>

Fault == faults < MaxFaults /\ faults' = faults + 1

\* The hub closes; the client may still read what was sent before.
HubCloses ==
    /\ Fault
    /\ wire = "up"
    /\ wire' = "closed" /\ outbound' = <<>>
    /\ mislaid' = mislaid \cup (ToSet(outbound) \cap Release)
    /\ UNCHANGED <<client, inbound, spoken, burst, received>>

\* The link is cut and nobody says so.
LinkCut ==
    /\ Fault
    /\ wire = "up"
    /\ wire' = "cut" /\ inbound' = <<>>
    /\ mislaid' = mislaid \cup (ToSet(outbound) \cap Release)
    /\ UNCHANGED <<client, outbound, spoken, burst, received>>

\* The operating system gives up a dead link by itself.
SystemGivesUp ==
    /\ wire = "cut"
    /\ wire' = "closed" /\ outbound' = <<>>
    /\ UNCHANGED <<client, inbound, hubSide, faults>>

-----------------------------------------------------------------------------

Client ==
    \/ Reconnect
    \/ RecvLine \/ RecvData \/ RecvTimeout \/ RecvClosed
    \/ NextFrame \/ SendDone \/ SendFails

Environment == HubSends \/ HubReads \/ HubCloses \/ LinkCut \/ SystemGivesUp

Next == Client \/ Tick \/ Environment

\* The client is one process, and time passes.  Nothing is assumed of the hub
\* and the network, nor that the system ever finds out about a dead link.
Spec == Init /\ [][Next]_vars /\ WF_vars(Client) /\ WF_vars(Tick)

-----------------------------------------------------------------------------
(* Properties                                                              *)

\* What the login takes for a frame is a whole frame, the next one that the hub
\* sent, whatever pieces it arrived in and whatever timed out (recv_login and
\* login_bail): a read never goes on in the middle of a frame.
WholeFrames == \A k \in DOMAIN taken : taken[k] = WholeFrame(k)

\* A due scan waits for less than the time of one poll, however the hub
\* spreads what it sends (timeout_getretry in the wait, and net.lua's two timeouts).
Punctual == late < PollTimeout

\* A release is delivered at most once, and not without its record; one that
\* is recorded was delivered, is on its way, or was so when its connection broke.
HubAgrees ==
    \A r \in Release :
        /\ received[r] <= 1
        /\ received[r] = 1 => r \in recorded
        /\ r \in recorded => \/ received[r] = 1
                             \/ r \in ToSet(outbound)
                             \/ r \in mislaid

\* Where a release is, by the record, the wire and the hub.
Fate(r) ==
    LET read == received[r] = 1
    IN  CASE r \in recorded /\ read                         -> "read"
          [] r \notin recorded /\ received[r] = 0            -> "pending"
          [] r \in recorded /\ ~read /\ r \in mislaid        -> "lost"
          [] r \in recorded /\ ~read /\ r \in ToSet(outbound)
                                    /\ r \notin mislaid     -> "onWire"
          [] OTHER                                          -> "nowhere"

\* Record and hub keep the promise of module Delivery, over any number of
\* connections: no release is announced twice, nor read after it was given up for
\* lost, and none is recorded that was never handed over (net.lua 413-417).
Connections == INSTANCE Delivery WITH fate <- [r \in Release |-> Fate(r)]

ImplementsDelivery == Connections!Spec

\* A cut link is given up in the end even if the operating system never
\* reports it: the keepalives fill the buffer, and one of them cannot be sent.
CutIsNoticed == wire = "cut" ~> wire # "cut"
=============================================================================
