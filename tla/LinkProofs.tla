----------------------------- MODULE LinkProofs -----------------------------
(***************************************************************************)
(* Proofs about Link, for every number of login frames, every timeout,     *)
(* interval and size of a buffer, and every set of releases.  One part of  *)
(* the invariant says where in the hub's stream the client is, one where   *)
(* each release is, and one how long a due scan has waited.  IInv is their *)
(* conjunction.                                                            *)
(***************************************************************************)
EXTENDS Link, SequenceTheorems, TLAPS

\* Without a connection nothing is left of one.
Silent ==
    pc = "down" => /\ wire = "none" /\ spoken = 0
                   /\ buf = <<>> /\ line = <<>> /\ taken = <<>>
                   /\ inbound = <<>> /\ outbound = <<>>

\* In the login the line, the buffer and the wire hold, in this order, what the
\* hub has sent after the frames that were taken.
Position == 2 * Len(taken)
Piece(k, p) == k <= 2 * LoginFrames => p = LoginPiece(k)
Arrived == Position + Len(line) + Len(buf) + Len(inbound)

Stream ==
    pc = "login" =>
        /\ Len(taken) < LoginFrames
        /\ \A i \in 1..Len(line) : Piece(Position + i, line[i]) /\ ~line[i].end
        /\ \A i \in 1..Len(buf) : Piece(Position + Len(line) + i, buf[i])
        /\ \A i \in 1..Len(inbound) :
               Piece(Position + Len(line) + Len(buf) + i, inbound[i])
        /\ wire = "up" => IF spoken < 2 * LoginFrames THEN Arrived = spoken
                                                      ELSE Arrived >= spoken

\* Before the poll no scan is late; in it, the time for which one has been due
\* and the time that is left make less than one poll.
OnTime ==
    /\ pc # "poll" => late = 0
    /\ pc = "poll" => /\ block = PollTimeout
                      /\ IF due = 0 THEN late + left < PollTimeout ELSE late = 0
    /\ pc \in {"down", "login"} => due = 0

\* What the scan has still to send is not recorded yet.
Unsent ==
    /\ found \cap recorded = {}
    /\ frame \in Release => frame \notin recorded \cup found
    /\ pc = "send" <=> frame # NoFrame

\* A release on the wire is recorded, is there once, and was not read before.
OnWireOnce ==
    /\ \A i \in 1..Len(outbound) :
           outbound[i] \in Release =>
               outbound[i] \in recorded /\ received[outbound[i]] = 0
    /\ \A i, j \in 1..Len(outbound) :
           outbound[i] = outbound[j] /\ outbound[i] \in Release => i = j
    /\ wire = "cut" => \A i \in 1..Len(outbound) :
           outbound[i] \in Release => outbound[i] \in mislaid

IInv ==
    /\ TypeOK
    /\ Silent
    /\ Stream
    /\ WholeFrames
    /\ OnTime
    /\ Unsent
    /\ OnWireOnce
    /\ HubAgrees

-----------------------------------------------------------------------------
(* Pieces and sequences                                                    *)

LEMMA Bounds ==
    /\ LoginFrames \in Nat /\ LoginFrames # 0
    /\ SockTimeout \in Nat /\ SockTimeout # 0
    /\ PollTimeout \in Nat /\ PollTimeout # 0
    /\ Interval \in Nat /\ Interval # 0
    /\ SendBuffer \in Nat /\ SendBuffer # 0
    /\ ReadBuffer \in Nat /\ ReadBuffer # 0
    /\ MaxInbound \in Nat /\ MaxBurst \in Nat /\ MaxFaults \in Nat
    /\ NoFrame \notin Frames /\ KeepAlive \notin Release
  BY LinkAssumption

\* A frame of the login is two pieces, of which the second ends it.
LEMMA LoginPieces ==
    /\ \A n \in 1..(2 * LoginFrames) : LoginPiece(n) \in Pieces
    /\ \A k \in Nat : ~LoginPiece(2 * k + 1).end /\ LoginPiece(2 * k + 2).end
  <1>1. ASSUME NEW n \in 1..(2 * LoginFrames)
        PROVE  LoginPiece(n) \in Pieces
    <2>1. (n + 1) \div 2 \in 0..LoginFrames
      BY Bounds
    <2>2. (n % 2 = 0) \in BOOLEAN
      OBVIOUS
    <2> QED
      BY <2>1, <2>2 DEF LoginPiece, Pieces
  <1>2. ASSUME NEW k \in Nat
        PROVE  ~LoginPiece(2 * k + 1).end /\ LoginPiece(2 * k + 2).end
    <2>1. (2 * k + 1) % 2 = 1 /\ (2 * k + 2) % 2 = 0
      OBVIOUS
    <2>2. \A n : LoginPiece(n).end = (n % 2 = 0)
      BY DEF LoginPiece
    <2>3. 1 # 0
      OBVIOUS
    <2> QED
      BY <2>1, <2>2, <2>3
  <1> QED
    BY <1>1, <1>2

LEMMA InToSet ==
    ASSUME NEW S, NEW s \in Seq(S), NEW x
    PROVE  x \in ToSet(s) <=> \E i \in 1..Len(s) : s[i] = x
  BY LenProperties DEF ToSet

\* The two ends of a sequence that is cut in two.
LEMMA Cut ==
    ASSUME NEW S, NEW s \in Seq(S), NEW n \in 0..Len(s)
    PROVE  /\ SubSeq(s, 1, n) \in Seq(S) /\ Len(SubSeq(s, 1, n)) = n
           /\ \A i \in 1..n : SubSeq(s, 1, n)[i] = s[i]
           /\ SubSeq(s, n + 1, Len(s)) \in Seq(S)
           /\ Len(SubSeq(s, n + 1, Len(s))) = Len(s) - n
           /\ \A i \in 1..(Len(s) - n) : SubSeq(s, n + 1, Len(s))[i] = s[n + i]
  <1>1. Len(s) \in Nat /\ \A i \in 1..Len(s) : s[i] \in S
    BY LenProperties, ElementOfSeq
  <1>2. /\ SubSeq(s, 1, n) \in Seq(S) /\ Len(SubSeq(s, 1, n)) = n
        /\ \A i \in 1..n : SubSeq(s, 1, n)[i] = s[i]
    <2>1. \A i \in 1..n : s[i] \in S
      BY <1>1
    <2>2. /\ SubSeq(s, 1, n) \in Seq(S)
          /\ Len(SubSeq(s, 1, n)) = IF 1 <= n THEN n - 1 + 1 ELSE 0
          /\ \A i \in 1..(n - 1 + 1) : SubSeq(s, 1, n)[i] = s[1 + i - 1]
      BY <1>1, <2>1, SubSeqProperties
    <2> QED
      BY <1>1, <2>2
  <1>3. /\ SubSeq(s, n + 1, Len(s)) \in Seq(S)
        /\ Len(SubSeq(s, n + 1, Len(s))) = Len(s) - n
        /\ \A i \in 1..(Len(s) - n) : SubSeq(s, n + 1, Len(s))[i] = s[n + i]
    <2>1. \A i \in (n + 1)..Len(s) : s[i] \in S
      BY <1>1
    <2>2. n + 1 \in Int /\ Len(s) \in Int
      BY <1>1
    <2>3. /\ SubSeq(s, n + 1, Len(s)) \in Seq(S)
          /\ Len(SubSeq(s, n + 1, Len(s))) =
                 IF n + 1 <= Len(s) THEN Len(s) - (n + 1) + 1 ELSE 0
          /\ \A i \in 1..(Len(s) - (n + 1) + 1) :
                 SubSeq(s, n + 1, Len(s))[i] = s[(n + 1) + i - 1]
      BY <2>1, <2>2, SubSeqProperties
    <2> QED
      BY <1>1, <2>3
  <1> QED
    BY <1>2, <1>3

\* What the type invariant says of the sequences.
LEMMA Lengths ==
    ASSUME TypeOK
    PROVE  /\ Len(buf) \in Nat /\ Len(line) \in Nat /\ Len(taken) \in Nat
           /\ Len(inbound) \in Nat /\ Len(outbound) \in Nat
           /\ <<>> \in Seq(Pieces) /\ <<>> \in Seq(Frames) /\ Len(<<>>) = 0
           /\ <<>> \in Seq(Seq(Pieces))
           /\ \A i \in 1..Len(outbound) : outbound[i] \in Frames
  BY LenProperties, EmptySeq, ElementOfSeq DEF TypeOK

LEMMA InitIInv == Init => IInv
  <1> SUFFICES ASSUME Init PROVE IInv
    OBVIOUS
  <1>1. /\ <<>> \in Seq(Pieces) /\ <<>> \in Seq(Frames) /\ Len(<<>>) = 0
        /\ <<>> \in Seq(Seq(Pieces))
    BY EmptySeq
  <1>2. received \in [Release -> Nat] /\ \A r \in Release : received[r] = 0
    BY DEF Init
  <1>3. TypeOK
    BY <1>1, <1>2, Bounds DEF Init, TypeOK
  <1>4. Stream
    BY <1>1, Bounds DEF Init, Stream, Arrived, Position
  <1>5. WholeFrames
    <2>1. DOMAIN taken = 1..0
      BY <1>1, LenProperties DEF Init
    <2> QED
      BY <2>1 DEF WholeFrames
  <1>6. Unsent /\ OnTime /\ Silent
    BY Bounds DEF Init, Unsent, OnTime, Silent, Frames
  <1>7. OnWireOnce /\ HubAgrees
    BY <1>1, <1>2 DEF Init, OnWireOnce, HubAgrees
  <1> QED
    BY <1>3, <1>4, <1>5, <1>6, <1>7 DEF IInv

-----------------------------------------------------------------------------
(* What a step leaves alone                                                *)

LEMMA SameStream ==
    ASSUME IInv, UNCHANGED <<line, buf, inbound, taken, spoken>>,
           pc' = "login" => pc = "login", wire' = "up" => wire = "up"
    PROVE  Stream' /\ WholeFrames'
  <1>1. WholeFrames'
    BY DEF IInv, WholeFrames
  <1>2. \A k, p : Piece(k, p)' <=> Piece(k, p)
    BY DEF Piece
  <1>3. Position' = Position /\ Arrived' = Arrived
    BY DEF Position, Arrived
  <1>4. Stream'
    BY <1>2, <1>3 DEF IInv, Stream
  <1> QED
    BY <1>1, <1>4

LEMMA SameWire ==
    ASSUME IInv, UNCHANGED <<outbound, recorded, received, mislaid>>,
           wire' = "cut" => wire = "cut"
    PROVE  OnWireOnce' /\ HubAgrees'
  BY DEF IInv, OnWireOnce, HubAgrees

LEMMA SameScan ==
    ASSUME IInv, UNCHANGED <<found, recorded, frame>>,
           (pc' = "send") = (pc = "send")
    PROVE  Unsent'
  BY DEF IInv, Unsent

-----------------------------------------------------------------------------
(* The top of the loop, and the end of the connection                      *)

LEMMA LoopTopIInv ==
    ASSUME IInv, Receiving, LoopTop, pc = "login" \/ UNCHANGED taken,
           UNCHANGED <<due, frame, recorded, network, hubSide, faults>>,
           buf' \in Seq(Pieces), Len(buf') <= ReadBuffer,
           taken' \in Seq(Seq(Pieces)), Len(taken') <= LoginFrames, WholeFrames'
    PROVE  IInv'
  <1>1. pc \in {"login", "poll"} /\ frame = NoFrame
    BY DEF Receiving, IInv, Unsent
  <1>2. <<>> \in Seq(Pieces) /\ Len(<<>>) = 0
    BY EmptySeq
  <1>3. TypeOK' /\ OnTime' /\ pc' \in {"scan", "poll"}
    <2>1. CASE due = 0
      <3>1. /\ pc' = "scan" /\ block' = SockTimeout /\ found' = Release \ recorded
            /\ late' = 0 /\ UNCHANGED <<left, line>>
        BY <2>1 DEF LoopTop
      <3> QED
        BY <3>1 DEF IInv, TypeOK, OnTime, network, hubSide
    <2>2. CASE due # 0
      <3>1. /\ pc' = "poll" /\ block' = PollTimeout /\ left' = PollTimeout
            /\ line' = <<>> /\ UNCHANGED <<found, late>>
        BY <2>2 DEF LoopTop, StartPoll, StartReceive
      <3>2. late = 0
        BY <1>1, <2>2 DEF IInv, OnTime
      <3>3. TypeOK'
        BY <1>2, <3>1, Bounds DEF IInv, TypeOK, network, hubSide
      <3>4. OnTime'
        BY <2>2, <3>1, <3>2 DEF OnTime
      <3> QED
        BY <3>1, <3>3, <3>4
    <2> QED
      BY <2>1, <2>2
  <1>4. Unsent'
    <2>1. found' \cap recorded = {}
      BY DEF IInv, Unsent, LoopTop, StartPoll
    <2> QED
      BY <1>1, <1>3, <2>1, Bounds DEF Unsent, Frames
  <1>5. OnWireOnce' /\ HubAgrees'
    BY SameWire DEF network, hubSide
  <1> QED
    BY <1>3, <1>4, <1>5 DEF IInv, Silent, Stream

\* What the operating system had taken is read by the hub or mislaid.
LEMMA DropIInv ==
    ASSUME IInv, Drop, UNCHANGED <<block, recorded, faults>>
    PROVE  IInv'
  <1>1. /\ pc' = "down" /\ wire' = "none" /\ inbound' = <<>> /\ outbound' = <<>>
        /\ buf' = <<>> /\ line' = <<>> /\ taken' = <<>>
        /\ found' = {} /\ frame' = NoFrame
        /\ spoken' = 0 /\ burst' = MaxBurst
        /\ left' = 0 /\ due' = 0 /\ late' = 0
    BY DEF Drop
  <1>2. PICK n \in 0..Len(outbound) :
           LET delivered == IF wire = "up" THEN ToSet(SubSeq(outbound, 1, n)) ELSE {}
           IN  /\ received' = [r \in Release |->
                                 received[r] + IF r \in delivered THEN 1 ELSE 0]
               /\ mislaid' = mislaid \cup ((ToSet(outbound) \cap Release) \ delivered)
    BY DEF Drop
  <1> DEFINE delivered == IF wire = "up" THEN ToSet(SubSeq(outbound, 1, n)) ELSE {}
  <1>3. /\ <<>> \in Seq(Pieces) /\ <<>> \in Seq(Frames) /\ Len(<<>>) = 0
        /\ <<>> \in Seq(Seq(Pieces))
        /\ outbound \in Seq(Frames) /\ received \in [Release -> Nat]
        /\ mislaid \subseteq Release /\ recorded \subseteq Release
    BY EmptySeq DEF IInv, TypeOK
  <1>4. \A r : r \in ToSet(outbound) <=> \E i \in 1..Len(outbound) : outbound[i] = r
    BY <1>3, InToSet
  <1>5. \A r \in delivered : r \in ToSet(outbound)
    <2>1. /\ SubSeq(outbound, 1, n) \in Seq(Frames) /\ Len(SubSeq(outbound, 1, n)) = n
          /\ \A i \in 1..n : SubSeq(outbound, 1, n)[i] = outbound[i]
      BY <1>3, Cut
    <2>2. \A r : r \in ToSet(SubSeq(outbound, 1, n)) <=>
                     \E i \in 1..n : SubSeq(outbound, 1, n)[i] = r
      BY <2>1, InToSet, ZenonT(40)
    <2>3. \A i \in 1..n : i \in 1..Len(outbound)
      BY <1>3, LenProperties
    <2> QED
      BY <1>4, <2>1, <2>2, <2>3
  <1>6. \A r \in Release : r \in ToSet(outbound) => r \in recorded /\ received[r] = 0
    BY <1>4 DEF IInv, OnWireOnce
  <1>7. /\ received' = [r \in Release |->
                          received[r] + IF r \in delivered THEN 1 ELSE 0]
        /\ mislaid' = mislaid \cup ((ToSet(outbound) \cap Release) \ delivered)
    BY <1>2
  <1> HIDE DEF delivered
  <1>8. /\ received' \in [Release -> Nat] /\ mislaid' \subseteq Release
        /\ \A r \in Release :
               received'[r] = IF r \in delivered THEN received[r] + 1 ELSE received[r]
    BY <1>3, <1>7
  <1>9. TypeOK'
    BY <1>1, <1>3, <1>8, Bounds DEF IInv, TypeOK
  <1>10. HubAgrees'
    <2> SUFFICES ASSUME NEW r \in Release
                 PROVE  /\ received'[r] <= 1
                        /\ received'[r] = 1 => r \in recorded
                        /\ r \in recorded => received'[r] = 1 \/ r \in mislaid'
      BY DEF HubAgrees
    <2>1. /\ received[r] <= 1
          /\ received[r] = 1 => r \in recorded
          /\ r \in recorded => received[r] = 1 \/ r \in ToSet(outbound) \/ r \in mislaid
      BY DEF IInv, HubAgrees
    <2>2. CASE r \in delivered
      BY <1>5, <1>6, <1>8, <2>2
    <2>3. CASE r \notin delivered
      BY <1>7, <1>8, <2>1, <2>3
    <2> QED
      BY <2>2, <2>3
  <1>11. OnWireOnce'
    BY <1>1, <1>3 DEF OnWireOnce
  <1>12. WholeFrames'
    <2>1. DOMAIN taken' = 1..0
      BY <1>1, <1>3, LenProperties
    <2> QED
      BY <2>1 DEF WholeFrames
  <1>13. Unsent'
    BY <1>1, Bounds DEF Unsent, Frames
  <1> QED
    BY <1>1, <1>9, <1>10, <1>11, <1>12, <1>13 DEF IInv, Silent, Stream, OnTime

LEMMA ReconnectIInv ==
    ASSUME IInv, Reconnect
    PROVE  IInv'
  <1>1. /\ pc = "down" /\ pc' = "login" /\ wire' = "up"
        /\ block' = SockTimeout /\ left' = SockTimeout /\ line' = <<>>
        /\ UNCHANGED <<buf, taken, due, late, found, frame, recorded, inbound, outbound,
                       hubSide, faults>>
    BY DEF Reconnect, StartReceive
  <1>2. spoken = 0 /\ buf = <<>> /\ taken = <<>> /\ inbound = <<>> /\ outbound = <<>>
    BY <1>1 DEF IInv, Silent
  <1>3. <<>> \in Seq(Pieces) /\ Len(<<>>) = 0
    BY EmptySeq
  <1>4. TypeOK'
    BY <1>1, <1>3, Bounds DEF IInv, TypeOK, hubSide
  <1>5. Stream'
    BY <1>1, <1>2, <1>3, Bounds DEF Stream, Arrived, Position, hubSide
  <1>6. WholeFrames'
    BY <1>1 DEF IInv, WholeFrames
  <1>7. OnTime'
    BY <1>1 DEF IInv, OnTime
  <1>8. Unsent'
    BY <1>1, SameScan
  <1>9. OnWireOnce' /\ HubAgrees'
    BY <1>1, SameWire DEF hubSide
  <1> QED
    BY <1>1, <1>4, <1>5, <1>6, <1>7, <1>8, <1>9 DEF IInv, Silent

-----------------------------------------------------------------------------
(* client:receive                                                          *)

\* In the login, the first line feed in the buffer ends the frame that is due,
\* because none is on the line yet and every second piece has one.
LEMMA LineIsFrame ==
    ASSUME IInv, pc = "login", NEW stop \in 1..Len(buf), buf[stop].end,
           \A i \in 1..(stop - 1) : ~buf[i].end
    PROVE  /\ Len(line) + stop = 2
           /\ line \o SubSeq(buf, 1, stop) = WholeFrame(Len(taken) + 1)
  <1> DEFINE k == Len(taken)
             head == SubSeq(buf, 1, stop)
  <1>1. /\ Len(buf) \in Nat /\ Len(line) \in Nat /\ k \in Nat
        /\ buf \in Seq(Pieces) /\ line \in Seq(Pieces)
    BY Lengths DEF IInv, TypeOK
  <1>2. 2 * k + 2 <= 2 * LoginFrames
    BY <1>1, Bounds DEF IInv, Stream
  <1>3. /\ LoginPiece(2 * k + 1) \in Pieces /\ LoginPiece(2 * k + 2) \in Pieces
        /\ ~LoginPiece(2 * k + 1).end /\ LoginPiece(2 * k + 2).end
    <2>1. 2 * k + 1 \in 1..(2 * LoginFrames) /\ 2 * k + 2 \in 1..(2 * LoginFrames)
      BY <1>1, <1>2, Bounds
    <2> QED
      BY <1>1, <2>1, LoginPieces
  <1>4. /\ \A i \in 1..Len(line) : i \in {1, 2} =>
               line[i] = LoginPiece(2 * k + i) /\ ~line[i].end
        /\ \A i \in 1..Len(buf) : Len(line) + i \in {1, 2} =>
               buf[i] = LoginPiece(2 * k + Len(line) + i)
    <2>1. /\ \A i \in 1..Len(line) : Piece(Position + i, line[i]) /\ ~line[i].end
          /\ \A i \in 1..Len(buf) : Piece(Position + Len(line) + i, buf[i])
      BY DEF IInv, Stream
    <2>2. ASSUME NEW i \in 1..Len(line), i \in {1, 2}
          PROVE  line[i] = LoginPiece(2 * k + i) /\ ~line[i].end
      <3>1. Position + i = 2 * k + i /\ 2 * k + i <= 2 * LoginFrames
        BY <1>1, <1>2, <2>2, Bounds DEF Position
      <3> QED
        BY <2>1, <3>1 DEF Piece
    <2>3. ASSUME NEW i \in 1..Len(buf), Len(line) + i \in {1, 2}
          PROVE  buf[i] = LoginPiece(2 * k + Len(line) + i)
      <3>1. /\ Position + Len(line) + i = 2 * k + Len(line) + i
            /\ 2 * k + Len(line) + i <= 2 * LoginFrames
        BY <1>1, <1>2, <2>3, Bounds DEF Position
      <3> QED
        BY <2>1, <3>1 DEF Piece
    <2> QED
      BY <2>2, <2>3
  <1>5. Len(line) <= 1
    <2> SUFFICES ASSUME 2 <= Len(line) PROVE FALSE
      BY <1>1
    <2>1. 2 \in 1..Len(line)
      BY <1>1
    <2> QED
      BY <1>3, <1>4, <2>1
  <1>6. Len(line) + stop = 2
    <2>1. Len(line) + stop # 1
      <3> SUFFICES ASSUME Len(line) + stop = 1 PROVE FALSE
        OBVIOUS
      <3>1. stop = 1 /\ 2 * k + Len(line) + 1 = 2 * k + 1 /\ Len(line) + 1 = 1
        BY <1>1
      <3>2. buf[1] = LoginPiece(2 * k + 1)
        BY <1>4, <3>1
      <3> QED
        BY <1>3, <3>1, <3>2
    <2>2. ASSUME Len(line) + stop > 2 PROVE FALSE
      <3>1. 2 - Len(line) \in 1..(stop - 1) /\ 2 - Len(line) \in 1..Len(buf)
        BY <1>1, <1>5, <2>2
      <3>2. buf[2 - Len(line)] = LoginPiece(2 * k + 2)
        <4>1. Len(line) + (2 - Len(line)) = 2
          BY <1>1
        <4>2. buf[2 - Len(line)] = LoginPiece(2 * k + Len(line) + (2 - Len(line)))
          BY <1>4, <3>1, <4>1
        <4>3. 2 * k + Len(line) + (2 - Len(line)) = 2 * k + 2
          BY <1>1
        <4> QED
          BY <4>2, <4>3
      <3> QED
        BY <1>3, <3>1, <3>2
    <2> QED
      BY <1>1, <2>1, <2>2
  <1>7. /\ head \in Seq(Pieces) /\ Len(head) = stop
        /\ \A i \in 1..stop : head[i] = buf[i]
    BY <1>1, Cut
  <1> HIDE DEF head
  <1>8. /\ line \o head \in Seq(Pieces) /\ Len(line \o head) = 2
        /\ \A i \in 1..2 : (line \o head)[i] = LoginPiece(2 * k + i)
    <2>1. /\ line \o head \in Seq(Pieces) /\ Len(line \o head) = Len(line) + stop
          /\ \A i \in 1..(Len(line) + stop) : (line \o head)[i] =
                 IF i <= Len(line) THEN line[i] ELSE head[i - Len(line)]
      BY <1>1, <1>7, ConcatProperties
    <2>2. ASSUME NEW i \in 1..2
          PROVE  (line \o head)[i] = LoginPiece(2 * k + i)
      <3>1. CASE i <= Len(line)
        BY <1>1, <1>4, <1>6, <2>1, <3>1
      <3>2. CASE i > Len(line)
        <4> DEFINE j == i - Len(line)
        <4>1. j \in 1..stop /\ j \in 1..Len(buf) /\ Len(line) + j = i
          BY <1>1, <1>6, <3>2
        <4>2. (line \o head)[i] = buf[j]
          <5>1. (line \o head)[i] = head[j]
            BY <1>1, <1>6, <2>1, <3>2
          <5> QED
            BY <1>7, <4>1, <5>1
        <4>3. buf[j] = LoginPiece(2 * k + Len(line) + j)
          BY <1>4, <4>1
        <4>4. 2 * k + Len(line) + j = 2 * k + i
          BY <1>1, <4>1
        <4> QED
          BY <4>2, <4>3, <4>4
      <3> QED
        <4>1. i <= Len(line) \/ i > Len(line)
          BY <1>1
        <4> QED
          BY <3>1, <3>2, <4>1
    <2> QED
      BY <1>6, <2>1, <2>2
  <1>9. line \o head = WholeFrame(k + 1)
    <2>1. WholeFrame(k + 1) = <<LoginPiece(2 * k + 1), LoginPiece(2 * k + 2)>>
      <3>1. 2 * (k + 1) - 1 = 2 * k + 1 /\ 2 * (k + 1) = 2 * k + 2
        BY <1>1
      <3> QED
        BY <3>1 DEF WholeFrame
    <2>2. /\ WholeFrame(k + 1) \in Seq(Pieces) /\ Len(WholeFrame(k + 1)) = 2
          /\ WholeFrame(k + 1)[1] = LoginPiece(2 * k + 1)
          /\ WholeFrame(k + 1)[2] = LoginPiece(2 * k + 2)
      <3> DEFINE a == LoginPiece(2 * k + 1)
                 b == LoginPiece(2 * k + 2)
      <3>1. a \in Pieces /\ b \in Pieces
        BY <1>3
      <3> HIDE DEF a, b
      <3>2. /\ <<a, b>> \in Seq(Pieces) /\ Len(<<a, b>>) = 2
            /\ <<a, b>>[1] = a /\ <<a, b>>[2] = b
        BY <3>1
      <3> QED
        BY <2>1, <3>2 DEF a, b
    <2>3. \A i \in 1..2 : (line \o head)[i] = WholeFrame(k + 1)[i]
      BY <1>8, <2>2, SMTT(20)
    <2> QED
      BY <1>8, <2>2, <2>3, SeqEqual
  <1> QED
    BY <1>6, <1>9 DEF head

\* Without a line feed the buffer goes to the line, and the stream stays.
LEMMA RecvPartIInv ==
    ASSUME IInv, Receiving, \A i \in DOMAIN buf : ~buf[i].end,
           buf' = <<>>, line' = line \o buf,
           UNCHANGED <<pc, block, left, taken, late, found>>,
           UNCHANGED <<due, frame, recorded, network, hubSide, faults>>
    PROVE  IInv'
  <1>1. /\ buf \in Seq(Pieces) /\ line \in Seq(Pieces) /\ DOMAIN buf = 1..Len(buf)
        /\ Len(buf) \in Nat /\ Len(line) \in Nat /\ Len(taken) \in Nat
        /\ Len(inbound) \in Nat /\ Len(<<>>) = 0 /\ <<>> \in Seq(Pieces)
    BY Lengths, LenProperties DEF IInv, TypeOK
  <1>2. /\ line' \in Seq(Pieces) /\ Len(line') = Len(line) + Len(buf)
        /\ \A i \in 1..(Len(line) + Len(buf)) :
               line'[i] = IF i <= Len(line) THEN line[i] ELSE buf[i - Len(line)]
    BY <1>1, ConcatProperties
  <1>3. TypeOK'
    BY <1>1, <1>2, Bounds DEF IInv, TypeOK, network, hubSide
  <1>4. Stream'
    <2> SUFFICES ASSUME pc = "login"
                 PROVE  Stream'
      BY DEF Stream
    <2>1. /\ \A i \in 1..Len(line) : Piece(Position + i, line[i]) /\ ~line[i].end
          /\ \A i \in 1..Len(buf) : Piece(Position + Len(line) + i, buf[i])
          /\ \A i \in 1..Len(inbound) :
                 Piece(Position + Len(line) + Len(buf) + i, inbound[i])
          /\ Len(taken) < LoginFrames
          /\ wire = "up" => IF spoken < 2 * LoginFrames THEN Arrived = spoken
                                                        ELSE Arrived >= spoken
      BY DEF IInv, Stream
    <2>2. Position' = Position /\ Position \in Nat
      BY <1>1 DEF Position
    <2>3. \A k, p : Piece(k, p)' <=> Piece(k, p)
      BY DEF Piece
    <2>4. \A i \in 1..Len(line') : Piece(Position + i, line'[i]) /\ ~line'[i].end
      <3> SUFFICES ASSUME NEW i \in 1..(Len(line) + Len(buf))
                   PROVE  Piece(Position + i, line'[i]) /\ ~line'[i].end
        BY <1>2
      <3>1. CASE i <= Len(line)
        BY <1>1, <1>2, <2>1, <3>1
      <3>2. CASE i > Len(line)
        <4>1. i - Len(line) \in 1..Len(buf) /\ line'[i] = buf[i - Len(line)]
          BY <1>1, <1>2, <3>2
        <4>2. Position + Len(line) + (i - Len(line)) = Position + i
          BY <1>1, <2>2
        <4> QED
          BY <1>1, <2>1, <4>1, <4>2
      <3> QED
        BY <1>1, <3>1, <3>2
    <2>5. Arrived' = Arrived
      BY <1>1, <1>2, <2>2 DEF Arrived, network
    <2>6. \A i \in 1..Len(inbound) :
              Piece(Position + Len(line') + Len(buf') + i, inbound[i])
      <3>1. Position + Len(line') + Len(buf') = Position + Len(line) + Len(buf)
        BY <1>1, <1>2, <2>2
      <3> QED
        BY <2>1, <3>1
    <2> QED
      BY <1>1, <2>1, <2>2, <2>3, <2>4, <2>5, <2>6 DEF Stream, network, hubSide
  <1>5. WholeFrames' /\ OnTime'
    BY DEF IInv, WholeFrames, OnTime
  <1>6. Unsent' /\ OnWireOnce' /\ HubAgrees'
    BY SameScan, SameWire DEF network, hubSide
  <1> QED
    BY <1>3, <1>4, <1>5, <1>6 DEF IInv, Silent, Receiving

\* A line feed in the buffer: the next frame of the login, or one for the poll.
LEMMA RecvLineIInv ==
    ASSUME IInv, RecvLine
    PROVE  IInv'
  <1>1. /\ buf \in Seq(Pieces) /\ line \in Seq(Pieces) /\ DOMAIN buf = 1..Len(buf)
        /\ Len(buf) \in Nat /\ Len(line) \in Nat /\ Len(taken) \in Nat
        /\ Len(inbound) \in Nat /\ Len(<<>>) = 0 /\ <<>> \in Seq(Pieces)
        /\ taken \in Seq(Seq(Pieces)) /\ Len(taken) <= LoginFrames
        /\ Len(buf) <= ReadBuffer
    BY Lengths, LenProperties DEF IInv, TypeOK
  <1>2. Receiving /\ UNCHANGED <<due, frame, recorded, network, hubSide, faults>>
    BY DEF RecvLine
  <1>3. CASE /\ \A i \in DOMAIN buf : ~buf[i].end
             /\ buf' = <<>> /\ line' = line \o buf
             /\ UNCHANGED <<pc, block, left, taken, late, found>>
    BY <1>2, <1>3, RecvPartIInv
  <1>4. ASSUME NEW stop \in DOMAIN buf,
               buf[stop].end, \A i \in 1..(stop - 1) : ~buf[i].end,
               buf' = SubSeq(buf, stop + 1, Len(buf)),
               LineRead(line \o SubSeq(buf, 1, stop))
        PROVE  IInv'
    <2> DEFINE whole == line \o SubSeq(buf, 1, stop)
    <2>1. stop \in 1..Len(buf) /\ stop \in 0..Len(buf)
      BY <1>1
    <2>2. /\ buf' \in Seq(Pieces) /\ Len(buf') = Len(buf) - stop
          /\ \A i \in 1..(Len(buf) - stop) : buf'[i] = buf[stop + i]
          /\ Len(buf') <= ReadBuffer
      <3>1. /\ buf' \in Seq(Pieces) /\ Len(buf') = Len(buf) - stop
            /\ \A i \in 1..(Len(buf) - stop) : buf'[i] = buf[stop + i]
        BY <1>1, <1>4, <2>1, Cut, SMTT(20)
      <3> QED
        BY <1>1, <2>1, <3>1, Bounds
    <2>3. whole \in Seq(Pieces)
      <3>1. SubSeq(buf, 1, stop) \in Seq(Pieces)
        BY <1>1, <2>1, Cut
      <3> QED
        BY <1>1, <3>1, ConcatProperties
    <2>4. CASE pc = "poll"
      <3>1. LoopTop /\ UNCHANGED taken
        BY <1>4, <2>4 DEF LineRead
      <3>2. WholeFrames'
        BY <3>1 DEF IInv, WholeFrames
      <3> QED
        BY <1>1, <1>2, <2>2, <3>1, <3>2, LoopTopIInv
    <2>5. CASE pc = "login"
      <3>1. Len(line) + stop = 2 /\ whole = WholeFrame(Len(taken) + 1)
        BY <1>4, <2>1, <2>5, LineIsFrame
      <3> HIDE DEF whole
      <3>2. Len(taken) < LoginFrames
        BY <2>5 DEF IInv, Stream
      <3>3. taken' = Append(taken, whole)
        BY <1>4, <2>5 DEF LineRead, whole
      <3>4. /\ taken' \in Seq(Seq(Pieces)) /\ Len(taken') = Len(taken) + 1
            /\ \A k \in 1..Len(taken) : taken'[k] = taken[k]
            /\ taken'[Len(taken) + 1] = whole
            /\ DOMAIN taken' = 1..(Len(taken) + 1) /\ DOMAIN taken = 1..Len(taken)
            /\ Len(taken') <= LoginFrames
        BY <1>1, <2>3, <3>2, <3>3, Bounds, AppendProperties, LenProperties
      <3>5. WholeFrames'
        <4> SUFFICES ASSUME NEW k \in 1..(Len(taken) + 1)
                     PROVE  taken'[k] = WholeFrame(k)
          BY <3>4 DEF WholeFrames
        <4>1. CASE k \in 1..Len(taken)
          BY <3>4, <4>1 DEF IInv, WholeFrames
        <4>2. CASE k = Len(taken) + 1
          BY <3>1, <3>4, <4>2
        <4> QED
          BY <1>1, <4>1, <4>2
      <3>6. CASE Len(taken) + 1 < LoginFrames
        <4>1. /\ block' = SockTimeout /\ left' = SockTimeout /\ line' = <<>>
              /\ UNCHANGED <<pc, found, late>>
          BY <1>4, <2>5, <3>6 DEF LineRead, StartReceive
        <4>2. TypeOK'
          BY <1>1, <1>2, <2>2, <3>4, <4>1, Bounds, SMTT(20) DEF IInv, TypeOK, network, hubSide
        <4>3. Stream'
          <5>1. /\ \A i \in 1..Len(buf) : Piece(Position + Len(line) + i, buf[i])
                /\ \A i \in 1..Len(inbound) :
                       Piece(Position + Len(line) + Len(buf) + i, inbound[i])
                /\ wire = "up" => IF spoken < 2 * LoginFrames THEN Arrived = spoken
                                                              ELSE Arrived >= spoken
            BY <2>5 DEF IInv, Stream
          <5>2. /\ Position \in Nat /\ Position' = Position + Len(line) + stop
                /\ Len(line') = 0 /\ Len(inbound') = Len(inbound)
            <6>1. 2 * Len(taken) \in Nat /\ 2 * (Len(taken) + 1) = 2 * Len(taken) + 2
              BY <1>1
            <6>2. Position = 2 * Len(taken) /\ Position' = 2 * (Len(taken) + 1)
              BY <3>4 DEF Position
            <6>3. Position + Len(line) + stop = Position + 2
              <7>1. Len(line) + stop = 2
                BY <3>1
              <7>2. Len(line) \in Nat /\ stop \in Nat /\ Position \in Nat
                BY <1>1, <2>1, <6>1, <6>2
              <7> QED
                BY <7>1, <7>2
            <6>4. Len(line') = 0 /\ Len(inbound') = Len(inbound)
              BY <1>1, <1>2, <4>1 DEF network
            <6> QED
              BY <6>1, <6>2, <6>3, <6>4
          <5>3. \A k, p : Piece(k, p)' <=> Piece(k, p)
            BY DEF Piece
          <5>4. \A i \in 1..Len(buf') : Piece(Position' + Len(line') + i, buf'[i])
            <6> SUFFICES ASSUME NEW i \in 1..(Len(buf) - stop)
                         PROVE  Piece(Position' + Len(line') + i, buf'[i])
              BY <2>2
            <6>1. stop + i \in 1..Len(buf) /\ buf'[i] = buf[stop + i]
              BY <1>1, <2>1, <2>2
            <6>2. Position' + Len(line') + i = Position + Len(line) + (stop + i)
              BY <1>1, <2>1, <5>2
            <6> QED
              BY <5>1, <6>1, <6>2
          <5>5. \A i \in 1..Len(inbound') :
                    Piece(Position' + Len(line') + Len(buf') + i, inbound'[i])
            <6>1. /\ Position' + Len(line') + Len(buf') = Position + Len(line) + Len(buf)
                  /\ inbound' = inbound
              BY <1>1, <1>2, <2>1, <2>2, <5>2 DEF network
            <6> QED
              BY <5>1, <6>1
          <5>6. Arrived' = Arrived /\ UNCHANGED <<wire, spoken>>
            BY <1>1, <1>2, <2>1, <2>2, <5>2 DEF Arrived, network, hubSide
          <5>7. Len(taken') < LoginFrames /\ \A i \in 1..Len(line') : FALSE
            BY <3>4, <3>6, <5>2
          <5> QED
            BY <5>1, <5>3, <5>4, <5>5, <5>6, <5>7 DEF Stream
        <4>4. OnTime'
          BY <1>2, <2>5, <4>1 DEF IInv, OnTime
        <4>5. Unsent' /\ OnWireOnce' /\ HubAgrees'
          BY <1>2, <4>1, SameScan, SameWire DEF network, hubSide
        <4> QED
          BY <2>5, <3>5, <4>1, <4>2, <4>3, <4>4, <4>5 DEF IInv, Silent
      <3>7. CASE ~(Len(taken) + 1 < LoginFrames)
        <4>1. LoopTop
          BY <1>4, <2>5, <3>7 DEF LineRead
        <4> QED
          BY <1>2, <2>2, <2>5, <3>4, <3>5, <4>1, LoopTopIInv
      <3> QED
        BY <3>6, <3>7
    <2> QED
      BY <1>2, <2>4, <2>5 DEF Receiving
  <1> QED
    BY <1>3, <1>4 DEF RecvLine

\* What SSL_read returns moves from the wire to the buffer.
LEMMA RecvDataIInv ==
    ASSUME IInv, RecvData
    PROVE  IInv'
  <1>1. /\ inbound \in Seq(Pieces) /\ Len(inbound) \in Nat /\ Len(line) \in Nat
        /\ Len(taken) \in Nat /\ buf = <<>> /\ Len(buf) = 0
    BY Lengths DEF IInv, TypeOK, RecvData
  <1>2. PICK n \in 1..ReadBuffer :
           /\ n <= Len(inbound)
           /\ buf' = SubSeq(inbound, 1, n)
           /\ inbound' = SubSeq(inbound, n + 1, Len(inbound))
    BY DEF RecvData
  <1>3. n \in 0..Len(inbound) /\ n <= ReadBuffer
    BY <1>1, <1>2, Bounds
  <1>4. /\ buf' \in Seq(Pieces) /\ Len(buf') = n
        /\ \A i \in 1..n : buf'[i] = inbound[i]
        /\ inbound' \in Seq(Pieces) /\ Len(inbound') = Len(inbound) - n
        /\ \A i \in 1..(Len(inbound) - n) : inbound'[i] = inbound[n + i]
    BY <1>1, <1>2, <1>3, Cut
  <1>5. UNCHANGED <<pc, block, left, line, taken, due, late, found, frame, recorded,
                    wire, outbound, hubSide, faults>>
    BY DEF RecvData
  <1>6. TypeOK'
    BY <1>3, <1>4, <1>5 DEF IInv, TypeOK, hubSide
  <1>7. Stream'
    <2> SUFFICES ASSUME pc = "login"
                 PROVE  Stream'
      BY <1>5 DEF Stream
    <2>1. /\ Len(taken) < LoginFrames
          /\ \A i \in 1..Len(line) : Piece(Position + i, line[i]) /\ ~line[i].end
          /\ \A i \in 1..Len(inbound) :
                 Piece(Position + Len(line) + Len(buf) + i, inbound[i])
          /\ wire = "up" => IF spoken < 2 * LoginFrames THEN Arrived = spoken
                                                        ELSE Arrived >= spoken
      BY DEF IInv, Stream
    <2>2. Position' = Position /\ Position \in Nat
      BY <1>1, <1>5 DEF Position
    <2>3. \A k, p : Piece(k, p)' <=> Piece(k, p)
      BY DEF Piece
    <2>4. \A i \in 1..Len(buf') : Piece(Position + Len(line) + i, buf'[i])
      <3>1. \A i \in 1..n : i \in 1..Len(inbound)
        BY <1>1, <1>3
      <3>2. Position + Len(line) + Len(buf) = Position + Len(line)
        BY <1>1, <2>2
      <3> QED
        BY <1>4, <2>1, <3>1, <3>2
    <2>5. \A i \in 1..Len(inbound') :
              Piece(Position + Len(line) + Len(buf') + i, inbound'[i])
      <3> SUFFICES ASSUME NEW i \in 1..(Len(inbound) - n)
                   PROVE  Piece(Position + Len(line) + Len(buf') + i, inbound'[i])
        BY <1>4
      <3>1. n + i \in 1..Len(inbound) /\ inbound'[i] = inbound[n + i]
        BY <1>1, <1>3, <1>4
      <3>2. Position + Len(line) + Len(buf') + i = Position + Len(line) + Len(buf) + (n + i)
        BY <1>1, <1>3, <1>4, <2>2
      <3> QED
        BY <2>1, <3>1, <3>2
    <2>6. Arrived' = Arrived
      BY <1>1, <1>3, <1>4, <1>5, <2>2 DEF Arrived
    <2> QED
      BY <1>5, <2>1, <2>2, <2>3, <2>4, <2>5, <2>6 DEF Stream, hubSide
  <1>8. WholeFrames' /\ OnTime'
    BY <1>5 DEF IInv, WholeFrames, OnTime
  <1>9. Unsent' /\ OnWireOnce' /\ HubAgrees'
    BY <1>5, SameScan, SameWire DEF hubSide
  <1> QED
    BY <1>5, <1>6, <1>7, <1>8, <1>9 DEF IInv, Silent, RecvData, Receiving

LEMMA RecvTimeoutIInv ==
    ASSUME IInv, RecvTimeout
    PROVE  IInv'
  <1>1. CASE pc = "login"
    BY <1>1, DropIInv DEF RecvTimeout
  <1>2. CASE pc # "login"
    <2>1. /\ LoopTop /\ Receiving
          /\ UNCHANGED <<buf, taken, due, frame, recorded, network, hubSide, faults>>
      BY <1>2 DEF RecvTimeout, WaitsToRead
    <2>2. /\ buf' \in Seq(Pieces) /\ Len(buf') <= ReadBuffer
          /\ taken' \in Seq(Seq(Pieces)) /\ Len(taken') <= LoginFrames
          /\ WholeFrames'
      BY <2>1 DEF IInv, TypeOK, WholeFrames
    <2> QED
      BY <2>1, <2>2, LoopTopIInv
  <1> QED
    BY <1>1, <1>2

-----------------------------------------------------------------------------
(* client:send, and time                                                   *)

LEMMA NextFrameIInv ==
    ASSUME IInv, NextFrame
    PROVE  IInv'
  <1>1. /\ pc = "scan" /\ pc' = "send" /\ left' = block
        /\ UNCHANGED <<block, reading, taken, due, late, recorded, network, hubSide,
                       faults>>
    BY DEF NextFrame
  <1>2. /\ found' \subseteq found
        /\ frame' = KeepAlive \/ (frame' \in found /\ frame' \notin found')
    BY DEF NextFrame
  <1>3. found \subseteq Release /\ block \in Nat
    BY Bounds DEF IInv, TypeOK
  <1>4. frame' \in Frames
    BY <1>2, <1>3 DEF Frames
  <1>5. TypeOK'
    BY <1>1, <1>2, <1>3, <1>4 DEF IInv, TypeOK, reading, network, hubSide
  <1>6. Unsent'
    BY <1>1, <1>2, <1>4, Bounds DEF IInv, Unsent
  <1>7. Stream' /\ WholeFrames'
    BY <1>1, SameStream DEF reading, network, hubSide
  <1>8. OnWireOnce' /\ HubAgrees'
    BY <1>1, SameWire DEF network, hubSide
  <1> QED
    BY <1>1, <1>5, <1>6, <1>7, <1>8 DEF IInv, Silent, OnTime

\* A release is recorded when the operating system takes it, for the first time.
LEMMA SendDoneIInv ==
    ASSUME IInv, SendDone
    PROVE  IInv'
  <1>1. /\ pc = "send" /\ frame' = NoFrame /\ frame # NoFrame
        /\ wire = "closed" \/ ~Full
        /\ UNCHANGED <<buf, taken, late, found, wire, inbound, spoken, burst, received,
                       faults>>
        /\ outbound' = IF wire = "closed" THEN outbound ELSE Append(outbound, frame)
        /\ mislaid' = IF wire = "up" THEN mislaid ELSE mislaid \cup ({frame} \cap Release)
    BY DEF SendDone, Sent, IInv, Unsent
  <1>2. IF frame = KeepAlive
          THEN /\ due' = Interval /\ pc' = "poll" /\ block' = PollTimeout
               /\ left' = PollTimeout /\ line' = <<>> /\ UNCHANGED recorded
          ELSE /\ recorded' = recorded \cup {frame} /\ pc' = "scan"
               /\ UNCHANGED <<block, left, line, due>>
    BY DEF SendDone, Sent, StartPoll, StartReceive
  <1>3. /\ frame \in Frames /\ (frame = KeepAlive <=> frame \notin Release)
        /\ <<>> \in Seq(Pieces) /\ outbound \in Seq(Frames) /\ Len(outbound) \in Nat
        /\ \A i \in 1..Len(outbound) : outbound[i] \in Frames
    BY <1>1, Bounds, Lengths DEF IInv, TypeOK, Frames
  <1>4. /\ recorded' = recorded \cup ({frame} \cap Release)
        /\ frame \in Release => frame \notin recorded /\ received[frame] = 0
    <2>1. recorded' = recorded \cup ({frame} \cap Release)
      BY <1>2, <1>3
    <2>2. ASSUME frame \in Release
          PROVE  frame \notin recorded /\ received[frame] = 0
      <3>1. received[frame] \in Nat /\ received[frame] <= 1
        BY <2>2 DEF IInv, TypeOK, HubAgrees
      <3>2. frame \notin recorded /\ received[frame] # 1
        BY <2>2 DEF IInv, Unsent, HubAgrees
      <3> QED
        BY <3>1, <3>2
    <2> QED
      BY <2>1, <2>2
  <1>5. outbound' = Append(outbound, frame) =>
            /\ outbound' \in Seq(Frames) /\ Len(outbound') = Len(outbound) + 1
            /\ \A i \in 1..Len(outbound) : outbound'[i] = outbound[i]
            /\ outbound'[Len(outbound) + 1] = frame
    <2>1. /\ Append(outbound, frame) \in Seq(Frames)
          /\ Len(Append(outbound, frame)) = Len(outbound) + 1
          /\ \A i \in 1..Len(outbound) : Append(outbound, frame)[i] = outbound[i]
          /\ Append(outbound, frame)[Len(outbound) + 1] = frame
      BY <1>3, AppendProperties
    <2> QED
      BY <2>1
  <1>6. TypeOK'
    <2>1. outbound' \in Seq(Frames) /\ Len(outbound') <= SendBuffer
      BY <1>1, <1>3, <1>5, Bounds DEF Full, IInv, TypeOK
    <2>2. /\ recorded' \subseteq Release /\ mislaid' \subseteq Release
          /\ due' \in 0..Interval /\ pc' \in {"poll", "scan"}
      BY <1>1, <1>2, <1>4, Bounds, SMTT(20) DEF IInv, TypeOK
    <2>3. /\ block' \in {SockTimeout, PollTimeout} /\ line' \in Seq(Pieces)
          /\ left' \in Nat /\ (pc' # "scan" => left' <= block')
      <3>1. CASE frame = KeepAlive
        BY <1>2, <1>3, <3>1, Bounds
      <3>2. CASE frame # KeepAlive
        BY <1>2, <3>2 DEF IInv, TypeOK
      <3> QED
        BY <3>1, <3>2
    <2> QED
      BY <1>1, <2>1, <2>2, <2>3 DEF IInv, TypeOK
  <1>7. OnTime'
    BY <1>1, <1>2, Bounds DEF IInv, OnTime
  <1>8. Unsent'
    BY <1>1, <1>2, <1>4, Bounds DEF IInv, Unsent, Frames
  <1>9. WholeFrames'
    BY <1>1 DEF IInv, WholeFrames
  <1>10. OnWireOnce'
    <2>1. CASE wire = "closed"
      BY <1>1, <1>4, <2>1 DEF IInv, OnWireOnce
    <2>2. CASE wire # "closed"
      <3> DEFINE n == Len(outbound)
      <3>1. /\ n \in Nat /\ Len(outbound') = n + 1
            /\ \A i \in 1..n : outbound'[i] = outbound[i]
            /\ outbound'[n + 1] = frame
            /\ \A i \in 1..(n + 1) : i \in 1..n \/ i = n + 1
        BY <1>1, <1>3, <1>5, <2>2
      <3>2. \A i \in 1..n : outbound[i] \in Release =>
                outbound[i] \in recorded /\ received[outbound[i]] = 0
        BY DEF IInv, OnWireOnce
      <3>3. \A i \in 1..(n + 1) : outbound'[i] \in Release =>
                outbound'[i] \in recorded' /\ received'[outbound'[i]] = 0
        BY <1>1, <1>4, <3>1, <3>2
      <3>4. \A i, j \in 1..(n + 1) :
                outbound'[i] = outbound'[j] /\ outbound'[i] \in Release => i = j
        <4>1. \A i, j \in 1..n :
                  outbound[i] = outbound[j] /\ outbound[i] \in Release => i = j
          BY DEF IInv, OnWireOnce
        <4>2. \A i \in 1..n : outbound[i] \in Release => outbound[i] # frame
          BY <1>4, <3>2
        <4> QED
          BY <3>1, <4>1, <4>2
      <3>5. wire = "cut" => \A i \in 1..(n + 1) :
                outbound'[i] \in Release => outbound'[i] \in mislaid'
        BY <1>1, <3>1 DEF IInv, OnWireOnce
      <3> QED
        BY <1>1, <3>1, <3>3, <3>4, <3>5 DEF OnWireOnce
    <2> QED
      BY <2>1, <2>2
  <1>11. HubAgrees'
    <2>1. /\ \A r : r \in ToSet(outbound) <=> \E i \in 1..Len(outbound) : outbound[i] = r
          /\ \A r : r \in ToSet(outbound') <=>
                        \E i \in 1..Len(outbound') : outbound'[i] = r
      BY <1>3, <1>6, InToSet DEF TypeOK
    <2>2. /\ \A r \in ToSet(outbound) : r \in ToSet(outbound')
          /\ wire # "closed" => frame \in ToSet(outbound')
      <3>1. CASE wire = "closed"
        BY <1>1, <3>1
      <3>2. CASE wire # "closed"
        <4>1. /\ \A i \in 1..Len(outbound) : i \in 1..Len(outbound')
                                             /\ outbound'[i] = outbound[i]
              /\ Len(outbound) + 1 \in 1..Len(outbound')
              /\ outbound'[Len(outbound) + 1] = frame
          BY <1>1, <1>3, <1>5, <3>2
        <4> QED
          BY <2>1, <4>1
      <3> QED
        BY <3>1, <3>2
    <2>3. \A r \in mislaid : r \in mislaid'
      BY <1>1
    <2>4. frame \in Release /\ wire = "closed" => frame \in mislaid'
      BY <1>1
    <2> SUFFICES ASSUME NEW r \in Release
                 PROVE  /\ received[r] <= 1
                        /\ received[r] = 1 => r \in recorded'
                        /\ r \in recorded' => \/ received[r] = 1
                                              \/ r \in ToSet(outbound')
                                              \/ r \in mislaid'
      BY <1>1 DEF HubAgrees
    <2> QED
      BY <1>4, <2>2, <2>3, <2>4 DEF IInv, HubAgrees
  <1> QED
    BY <1>1, <1>2, <1>6, <1>7, <1>8, <1>9, <1>10, <1>11 DEF IInv, Silent, Stream

LEMMA TickIInv ==
    ASSUME IInv, Tick
    PROVE  IInv'
  <1>1. /\ pc \in {"login", "poll", "send"} /\ left > 0
        /\ left' = Decrement(left) /\ due' = Decrement(due)
        /\ late' = IF pc = "poll" /\ due = 0 THEN late + 1 ELSE late
        /\ burst' = MaxBurst
        /\ UNCHANGED <<pc, block, reading, taken, found, frame, recorded, network,
                       spoken, received, mislaid, faults>>
    BY DEF Tick, WaitsToRead, WaitsToWrite, Receiving
  <1>2. /\ left \in Nat /\ due \in 0..Interval /\ late \in Nat /\ left <= block
        /\ block \in Nat
    BY <1>1, Bounds DEF IInv, TypeOK
  <1>3. left' = left - 1 /\ due' = IF due = 0 THEN 0 ELSE due - 1
    BY <1>1, <1>2 DEF Decrement
  <1>4. left' \in Nat /\ left' <= block /\ due' \in 0..Interval /\ late' \in Nat
    BY <1>1, <1>2, <1>3, Bounds
  <1>5. TypeOK'
    BY <1>1, <1>4, Bounds, SMTT(20) DEF IInv, TypeOK, reading, network
  <1>6. OnTime'
    <2>1. CASE pc = "poll"
      <3>1. /\ block = PollTimeout
            /\ IF due = 0 THEN late + left < PollTimeout ELSE late = 0
        BY <2>1 DEF IInv, OnTime
      <3>2. IF due' = 0 THEN late' + left' < PollTimeout ELSE late' = 0
        BY <1>1, <1>2, <1>3, <2>1, <3>1, Bounds
      <3> QED
        BY <1>1, <2>1, <3>1, <3>2 DEF OnTime
    <2>2. CASE pc # "poll"
      BY <1>1, <1>3, <2>2 DEF IInv, OnTime
    <2> QED
      BY <2>1, <2>2
  <1>7. Stream' /\ WholeFrames'
    BY <1>1, SameStream DEF reading, network
  <1>8. Unsent' /\ OnWireOnce' /\ HubAgrees'
    BY <1>1, SameScan, SameWire DEF network
  <1> QED
    BY <1>1, <1>5, <1>6, <1>7, <1>8 DEF IInv, Silent

LEMMA DroppedIInv ==
    ASSUME IInv, RecvClosed \/ SendFails
    PROVE  IInv'
  BY DropIInv DEF RecvClosed, SendFails

-----------------------------------------------------------------------------
(* The hub and the network                                                 *)

\* What the hub sends is the next piece of the login, or nothing that the login
\* will read.
LEMMA HubSendsIInv ==
    ASSUME IInv, HubSends
    PROVE  IInv'
  <1>1. /\ wire = "up" /\ burst > 0 /\ burst' = burst - 1
        /\ UNCHANGED <<client, wire, outbound, received, mislaid, faults>>
    BY DEF HubSends
  <1>2. /\ inbound \in Seq(Pieces) /\ spoken \in 0..(2 * LoginFrames)
        /\ burst \in 0..MaxBurst /\ LoginFrames \in Nat
        /\ Len(taken) \in Nat /\ Len(line) \in Nat /\ Len(buf) \in Nat
        /\ Len(inbound) \in Nat
    BY Bounds, Lengths DEF IInv, TypeOK
  <1>3. \E p \in Pieces :
           /\ inbound' = Append(inbound, p)
           /\ IF spoken < 2 * LoginFrames
                THEN spoken' = spoken + 1 /\ p = LoginPiece(spoken + 1)
                ELSE spoken' = spoken
    <2>1. CASE spoken < 2 * LoginFrames
      <3>1. spoken' = spoken + 1 /\ inbound' = Append(inbound, LoginPiece(spoken + 1))
        BY <2>1 DEF HubSends
      <3>2. spoken + 1 \in 1..(2 * LoginFrames)
        BY <1>2, <2>1
      <3>3. LoginPiece(spoken + 1) \in Pieces
        BY <3>2, LoginPieces
      <3> QED
        BY <2>1, <3>1, <3>3
    <2>2. CASE ~(spoken < 2 * LoginFrames)
      <3>1. PICK end \in BOOLEAN : inbound' = Append(inbound, [of |-> 0, end |-> end])
        BY <2>2 DEF HubSends
      <3>2. [of |-> 0, end |-> end] \in Pieces
        BY <1>2 DEF Pieces
      <3>3. spoken' = spoken
        BY <2>2 DEF HubSends
      <3> QED
        BY <2>2, <3>1, <3>2, <3>3
    <2> QED
      BY <2>1, <2>2
  <1>4. PICK p \in Pieces :
           /\ inbound' = Append(inbound, p)
           /\ IF spoken < 2 * LoginFrames
                THEN spoken' = spoken + 1 /\ p = LoginPiece(spoken + 1)
                ELSE spoken' = spoken
    BY <1>3
  <1>5. /\ inbound' \in Seq(Pieces) /\ Len(inbound') = Len(inbound) + 1
        /\ \A i \in 1..Len(inbound) : inbound'[i] = inbound[i]
        /\ inbound'[Len(inbound) + 1] = p
    BY <1>2, <1>4, AppendProperties
  <1>6. spoken' \in 0..(2 * LoginFrames) /\ burst' \in 0..MaxBurst
    BY <1>1, <1>2, <1>4, Bounds
  <1>7. TypeOK'
    BY <1>1, <1>5, <1>6 DEF IInv, TypeOK, client, reading
  <1>8. Stream'
    <2> SUFFICES ASSUME pc = "login"
                 PROVE  Stream'
      BY <1>1 DEF Stream, client
    <2>1. /\ Len(taken) < LoginFrames
          /\ \A i \in 1..Len(line) : Piece(Position + i, line[i]) /\ ~line[i].end
          /\ \A i \in 1..Len(buf) : Piece(Position + Len(line) + i, buf[i])
          /\ \A i \in 1..Len(inbound) :
                 Piece(Position + Len(line) + Len(buf) + i, inbound[i])
          /\ IF spoken < 2 * LoginFrames THEN Arrived = spoken
                                         ELSE Arrived >= spoken
      BY <1>1 DEF IInv, Stream
    <2>2. /\ Position' = Position /\ Position \in Nat
          /\ UNCHANGED <<line, buf, taken>>
      BY <1>1, <1>2 DEF Position, client, reading
    <2>3. \A k, q : Piece(k, q)' <=> Piece(k, q)
      BY DEF Piece
    <2>4. Arrived' = Arrived + 1 /\ Arrived \in Nat
      BY <1>2, <1>5, <2>2 DEF Arrived
    <2>5. Arrived + 1 <= 2 * LoginFrames => p = LoginPiece(Arrived + 1)
      BY <1>2, <1>4, <2>1, <2>4
    <2>6. \A i \in 1..Len(inbound') :
              Piece(Position + Len(line) + Len(buf) + i, inbound'[i])
      <3> SUFFICES ASSUME NEW i \in 1..(Len(inbound) + 1)
                   PROVE  Piece(Position + Len(line) + Len(buf) + i, inbound'[i])
        BY <1>5
      <3>1. CASE i \in 1..Len(inbound)
        BY <1>5, <2>1, <3>1
      <3>2. CASE i = Len(inbound) + 1
        <4>1. Position + Len(line) + Len(buf) + i = Arrived + 1
          BY <1>2, <2>2, <3>2 DEF Arrived
        <4> QED
          BY <1>5, <2>5, <3>2, <4>1 DEF Piece
      <3> QED
        BY <1>2, <3>1, <3>2
    <2>7. IF spoken' < 2 * LoginFrames THEN Arrived' = spoken' ELSE Arrived' >= spoken'
      BY <1>2, <1>4, <2>1, <2>4
    <2> QED
      BY <2>1, <2>2, <2>3, <2>6, <2>7 DEF Stream
  <1>9. WholeFrames' /\ OnTime'
    BY <1>1 DEF IInv, WholeFrames, OnTime, client
  <1>10. Unsent' /\ OnWireOnce' /\ HubAgrees'
    BY <1>1, SameScan, SameWire DEF client
  <1> QED
    BY <1>1, <1>7, <1>8, <1>9, <1>10 DEF IInv, Silent, client, reading

\* The release that the hub reads was not read before and leaves the wire.
LEMMA HubReadsIInv ==
    ASSUME IInv, HubReads
    PROVE  IInv'
  <1>1. /\ wire = "up" /\ outbound # <<>> /\ outbound' = Tail(outbound)
        /\ received' = IF Head(outbound) = KeepAlive THEN received
                       ELSE [received EXCEPT ![Head(outbound)] = @ + 1]
        /\ UNCHANGED <<client, wire, inbound, spoken, burst, mislaid, faults>>
    BY DEF HubReads
  <1>2. /\ outbound \in Seq(Frames) /\ Len(outbound) \in Nat /\ Len(outbound) <= SendBuffer
        /\ received \in [Release -> Nat]
    BY Lengths DEF IInv, TypeOK
  <1> DEFINE head == Head(outbound)
  <1>3. /\ head = outbound[1] /\ 1 \in 1..Len(outbound) /\ head \in Frames
        /\ outbound' \in Seq(Frames) /\ Len(outbound') = Len(outbound) - 1
        /\ \A i \in 1..Len(outbound') : outbound'[i] = outbound[i + 1]
    <2>1. /\ head \in Frames /\ Tail(outbound) \in Seq(Frames)
          /\ Len(Tail(outbound)) = Len(outbound) - 1
          /\ \A i \in 1..Len(Tail(outbound)) : Tail(outbound)[i] = outbound[i + 1]
      BY <1>1, <1>2, HeadTailProperties
    <2>2. head = outbound[1]
      BY <1>1, <1>2
    <2>3. Len(outbound) # 0
      BY <1>1, <1>2, EmptySeq
    <2> QED
      BY <1>1, <1>2, <2>1, <2>2, <2>3
  <1>4. head = KeepAlive <=> head \notin Release
    BY <1>3, Bounds DEF Frames
  <1> HIDE DEF head
  <1>5. /\ received' \in [Release -> Nat]
        /\ \A r \in Release :
               received'[r] = IF r = head THEN received[r] + 1 ELSE received[r]
    BY <1>1, <1>2, <1>4 DEF head
  <1>6. \A i \in 1..Len(outbound') : i + 1 \in 1..Len(outbound) /\ i + 1 # 1
    BY <1>2, <1>3
  <1>7. \A i \in 1..Len(outbound') :
            outbound'[i] \in Release => outbound'[i] # head
    BY <1>3, <1>6 DEF IInv, OnWireOnce
  <1>8. Len(outbound') <= SendBuffer
    BY <1>2, <1>3, Bounds
  <1>9. TypeOK'
    BY <1>1, <1>3, <1>5, <1>8 DEF IInv, TypeOK, client, reading
  <1>10. OnWireOnce'
    <2>1. \A i \in 1..Len(outbound') : outbound'[i] \in Release =>
              outbound'[i] \in recorded /\ received'[outbound'[i]] = 0
      BY <1>3, <1>5, <1>6, <1>7 DEF IInv, OnWireOnce
    <2>2. \A i, j \in 1..Len(outbound') :
              outbound'[i] = outbound'[j] /\ outbound'[i] \in Release => i = j
      <3> SUFFICES ASSUME NEW i \in 1..Len(outbound'), NEW j \in 1..Len(outbound'),
                          outbound'[i] = outbound'[j], outbound'[i] \in Release
                   PROVE  i = j
        OBVIOUS
      <3>1. i + 1 = j + 1
        BY <1>3, <1>6 DEF IInv, OnWireOnce
      <3> QED
        BY <1>2, <1>3, <3>1
    <2> QED
      BY <1>1, <2>1, <2>2 DEF OnWireOnce, client
  <1>11. HubAgrees'
    <2>1. /\ \A r : r \in ToSet(outbound) <=> \E i \in 1..Len(outbound) : outbound[i] = r
          /\ \A r : r \in ToSet(outbound') <=>
                        \E i \in 1..Len(outbound') : outbound'[i] = r
      BY <1>2, <1>3, InToSet
    <2>2. \A r \in ToSet(outbound) : r = head \/ r \in ToSet(outbound')
      <3> SUFFICES ASSUME NEW i \in 1..Len(outbound)
                   PROVE  outbound[i] = head \/ outbound[i] \in ToSet(outbound')
        BY <2>1
      <3>1. CASE i = 1
        BY <1>3, <3>1
      <3>2. CASE i # 1
        <4>1. i - 1 \in 1..Len(outbound') /\ (i - 1) + 1 = i
          BY <1>2, <1>3, <3>2
        <4> QED
          BY <1>3, <2>1, <4>1
      <3> QED
        BY <3>1, <3>2
    <2>3. head \in Release => head \in recorded /\ received[head] = 0
      BY <1>3 DEF IInv, OnWireOnce
    <2> SUFFICES ASSUME NEW r \in Release
                 PROVE  /\ received'[r] <= 1
                        /\ received'[r] = 1 => r \in recorded
                        /\ r \in recorded => \/ received'[r] = 1
                                             \/ r \in ToSet(outbound')
                                             \/ r \in mislaid
      BY <1>1 DEF HubAgrees, client
    <2>4. /\ received[r] <= 1
          /\ received[r] = 1 => r \in recorded
          /\ r \in recorded => received[r] = 1 \/ r \in ToSet(outbound) \/ r \in mislaid
      BY DEF IInv, HubAgrees
    <2>5. CASE r = head
      BY <1>5, <2>3, <2>5
    <2>6. CASE r # head
      BY <1>5, <2>2, <2>4, <2>6
    <2> QED
      BY <2>5, <2>6
  <1>12. Stream' /\ WholeFrames'
    BY <1>1, SameStream DEF client, reading
  <1>13. Unsent' /\ OnTime'
    BY <1>1, SameScan DEF IInv, OnTime, client
  <1> QED
    BY <1>1, <1>9, <1>10, <1>11, <1>12, <1>13 DEF IInv, Silent, client, reading

\* When a connection breaks, what is on the wire is mislaid.
LEMMA BrokenIInv ==
    ASSUME IInv, HubCloses \/ LinkCut \/ SystemGivesUp
    PROVE  IInv'
  <1>1. /\ UNCHANGED <<client, spoken, burst, received>>
        /\ wire \in {"up", "cut"} /\ wire' \in {"closed", "cut"}
        /\ inbound' = inbound \/ inbound' = <<>>
        /\ outbound' = <<>> \/ outbound' = outbound
        /\ mislaid' = mislaid \/ mislaid' = mislaid \cup (ToSet(outbound) \cap Release)
    BY DEF HubCloses, LinkCut, SystemGivesUp, hubSide
  <1>2. faults' \in 0..MaxFaults
    <2>1. faults \in 0..MaxFaults
      BY DEF IInv, TypeOK
    <2>2. faults' = faults \/ (faults < MaxFaults /\ faults' = faults + 1)
      BY DEF HubCloses, LinkCut, SystemGivesUp, Fault
    <2> QED
      BY <2>1, <2>2, Bounds
  <1>3. /\ <<>> \in Seq(Pieces) /\ <<>> \in Seq(Frames) /\ Len(<<>>) = 0
        /\ outbound \in Seq(Frames)
    BY EmptySeq DEF IInv, TypeOK
  <1>4. \A r : r \in ToSet(outbound) <=> \E i \in 1..Len(outbound) : outbound[i] = r
    BY <1>3, InToSet
  <1>5. \A r \in Release : r \in ToSet(outbound) => r \in mislaid'
    <2>1. CASE wire = "up"
      <3>1. mislaid' = mislaid \cup (ToSet(outbound) \cap Release)
        BY <2>1 DEF HubCloses, LinkCut, SystemGivesUp
      <3> QED
        BY <3>1
    <2>2. CASE wire = "cut"
      BY <1>1, <1>4, <2>2 DEF IInv, OnWireOnce
    <2> QED
      BY <1>1, <2>1, <2>2
  <1>6. TypeOK'
    <2>1. mislaid' \subseteq Release /\ inbound' \in Seq(Pieces)
      BY <1>1, <1>3 DEF IInv, TypeOK
    <2>2. outbound' \in Seq(Frames) /\ Len(outbound') <= SendBuffer
      <3>1. Len(outbound) <= SendBuffer /\ 0 <= SendBuffer
        BY Bounds DEF IInv, TypeOK
      <3>2. CASE outbound' = <<>>
        BY <1>3, <3>1, <3>2
      <3>3. CASE outbound' = outbound
        BY <1>3, <3>1, <3>3
      <3> QED
        BY <1>1, <3>2, <3>3
    <2> QED
      BY <1>1, <1>2, <2>1, <2>2 DEF IInv, TypeOK, client, reading
  <1>7. Stream'
    <2>1. \A k, p : Piece(k, p)' <=> Piece(k, p)
      BY DEF Piece
    <2>2. Position' = Position
      BY <1>1 DEF Position, client
    <2> QED
      BY <1>1, <1>3, <2>1, <2>2 DEF IInv, Stream, client, reading
  <1>8. HubAgrees'
    BY <1>1, <1>5 DEF IInv, HubAgrees, client
  <1>9. OnWireOnce'
    <2>1. CASE outbound' = <<>>
      BY <1>3, <2>1 DEF OnWireOnce
    <2>2. CASE outbound' = outbound
      <3>1. \A i \in 1..Len(outbound) : outbound[i] \in Release => outbound[i] \in mislaid'
        BY <1>4, <1>5
      <3> QED
        BY <1>1, <2>2, <3>1 DEF IInv, OnWireOnce, client
    <2> QED
      BY <1>1, <2>1, <2>2
  <1>10. WholeFrames' /\ OnTime' /\ Unsent'
    BY <1>1, SameScan DEF IInv, WholeFrames, OnTime, client
  <1> QED
    BY <1>1, <1>6, <1>7, <1>8, <1>9, <1>10 DEF IInv, Silent, client, reading

-----------------------------------------------------------------------------
(* Every step, and the theorems                                            *)

LEMMA StutterIInv ==
    ASSUME IInv, UNCHANGED vars
    PROVE  IInv'
  <1>1. UNCHANGED <<client, network, hubSide, faults>>
    BY DEF vars
  <1>2. TypeOK'
    BY <1>1 DEF IInv, TypeOK, client, reading, network, hubSide
  <1>3. Stream' /\ WholeFrames'
    BY <1>1, SameStream DEF client, reading, network, hubSide
  <1>4. Unsent' /\ OnWireOnce' /\ HubAgrees'
    BY <1>1, SameScan, SameWire DEF client, network, hubSide
  <1> QED
    BY <1>1, <1>2, <1>3, <1>4 DEF IInv, Silent, OnTime, client, reading, network, hubSide

LEMMA NextIInv == IInv /\ [Next]_vars => IInv'
  <1> SUFFICES ASSUME IInv, [Next]_vars
               PROVE  IInv'
    OBVIOUS
  <1>1. CASE Reconnect
    BY <1>1, ReconnectIInv
  <1>2. CASE RecvLine
    BY <1>2, RecvLineIInv
  <1>3. CASE RecvData
    BY <1>3, RecvDataIInv
  <1>4. CASE RecvTimeout
    BY <1>4, RecvTimeoutIInv
  <1>5. CASE RecvClosed \/ SendFails
    BY <1>5, DroppedIInv
  <1>6. CASE NextFrame
    BY <1>6, NextFrameIInv
  <1>7. CASE SendDone
    BY <1>7, SendDoneIInv
  <1>8. CASE Tick
    BY <1>8, TickIInv
  <1>9. CASE HubSends
    BY <1>9, HubSendsIInv
  <1>10. CASE HubReads
    BY <1>10, HubReadsIInv
  <1>11. CASE HubCloses \/ LinkCut \/ SystemGivesUp
    BY <1>11, BrokenIInv
  <1>12. CASE UNCHANGED vars
    BY <1>12, StutterIInv
  <1> QED
    BY <1>1, <1>2, <1>3, <1>4, <1>5, <1>6, <1>7, <1>8, <1>9, <1>10, <1>11, <1>12
       DEF Next, Client, Environment

\* The invariant holds in every state that net.lua, LuaSec and LuaSocket reach.
THEOREM InvariantHolds == Spec => []IInv
  BY InitIInv, NextIInv, PTL DEF Spec

\* Every variable keeps its type: the read buffer holds no more than BUF_SIZE, and
\* outside a scan what is left of a timeout is no more than settimeout set.
THEOREM TypeCorrect == Spec => []TypeOK
  <1>1. IInv => TypeOK
    BY DEF IInv
  <1> QED
    BY <1>1, InvariantHolds, PTL

\* Whatever the pieces, the pace and the size of the buffer, the login takes
\* exactly the frames that the hub sent, each of them whole and in order.
THEOREM FramesAreWhole == Spec => []WholeFrames
  <1>1. IInv => WholeFrames
    BY DEF IInv
  <1> QED
    BY <1>1, InvariantHolds, PTL

\* No hub, however it spreads its bytes over time, delays a due scan by the time
\* of a whole poll (timeout_getretry counts over the waits of one receive).
THEOREM ScansAreOnTime == Spec => []Punctual
  <1>1. IInv => Punctual
    <2> SUFFICES ASSUME IInv PROVE Punctual
      OBVIOUS
    <2>1. late \in Nat /\ left \in Nat
      BY DEF IInv, TypeOK
    <2>2. late = 0 \/ late + left < PollTimeout
      BY DEF IInv, OnTime
    <2> QED
      BY <2>1, <2>2, Bounds DEF Punctual
  <1> QED
    BY <1>1, InvariantHolds, PTL

\* What log.release has recorded and what the hub has read agree over any number
\* of broken connections: no release is read twice, none without its record, and
\* a recorded one that the hub has not read is on the wire or went down with one.
THEOREM HubAndClientAgree == Spec => []HubAgrees
  <1>1. IInv => HubAgrees
    BY DEF IInv
  <1> QED
    BY <1>1, InvariantHolds, PTL

-----------------------------------------------------------------------------
(* The promise of module Delivery                                          *)

\* What went down with a connection was recorded, and is not on one that works.
Gone ==
    /\ mislaid \subseteq recorded
    /\ wire = "up" => \A r \in mislaid : r \notin ToSet(outbound)

\* Which releases are on the wire, after each step that sends or reads.
LEMMA WireAfter ==
    ASSUME IInv
    PROVE  /\ \A r : r \in ToSet(outbound) <=> \E i \in 1..Len(outbound) : outbound[i] = r
           /\ ToSet(<<>>) = {}
           /\ \A f \in Frames : ToSet(Append(outbound, f)) = ToSet(outbound) \cup {f}
           /\ outbound # <<>> =>
                  /\ Head(outbound) \in ToSet(outbound)
                  /\ \A r \in Release :
                         r \in ToSet(Tail(outbound)) <=>
                             r \in ToSet(outbound) /\ r # Head(outbound)
  <1>1. outbound \in Seq(Frames) /\ Len(outbound) \in Nat
    BY Lengths DEF IInv, TypeOK
  <1>2. \A r : r \in ToSet(outbound) <=> \E i \in 1..Len(outbound) : outbound[i] = r
    BY <1>1, InToSet
  <1>3. ToSet(<<>>) = {}
    BY EmptySeq DEF ToSet
  <1>4. ASSUME NEW f \in Frames
        PROVE  ToSet(Append(outbound, f)) = ToSet(outbound) \cup {f}
    <2> DEFINE longer == Append(outbound, f)
    <2>1. /\ longer \in Seq(Frames) /\ Len(longer) = Len(outbound) + 1
          /\ \A i \in 1..Len(outbound) : longer[i] = outbound[i]
          /\ longer[Len(outbound) + 1] = f
      BY <1>1, AppendProperties
    <2> HIDE DEF longer
    <2>2. \A r : r \in ToSet(longer) <=> \E i \in 1..Len(longer) : longer[i] = r
      BY <2>1, InToSet
    <2>3. /\ \A i \in 1..Len(longer) : i \in 1..Len(outbound) \/ i = Len(outbound) + 1
          /\ \A i \in 1..Len(outbound) : i \in 1..Len(longer)
          /\ Len(outbound) + 1 \in 1..Len(longer)
      BY <1>1, <2>1
    <2>4. \A r : r \in ToSet(longer) <=> r \in ToSet(outbound) \/ r = f
      BY <1>2, <2>1, <2>2, <2>3
    <2>5. ToSet(longer) = ToSet(outbound) \cup {f}
      BY <2>4
    <2> QED
      BY <2>5 DEF longer
  <1>5. ASSUME outbound # <<>>
        PROVE  /\ Head(outbound) \in ToSet(outbound)
               /\ \A r \in Release :
                      r \in ToSet(Tail(outbound)) <=>
                          r \in ToSet(outbound) /\ r # Head(outbound)
    <2> DEFINE rest == Tail(outbound)
               head == Head(outbound)
    <2>1. /\ head \in Frames /\ rest \in Seq(Frames) /\ Len(rest) = Len(outbound) - 1
          /\ \A i \in 1..Len(rest) : rest[i] = outbound[i + 1]
      BY <1>1, <1>5, HeadTailProperties
    <2>2. head = outbound[1] /\ Len(outbound) # 0
      BY <1>1, <1>5, EmptySeq
    <2> HIDE DEF rest, head
    <2>3. \A r : r \in ToSet(rest) <=> \E i \in 1..Len(rest) : rest[i] = r
      BY <2>1, InToSet
    <2>4. /\ 1 \in 1..Len(outbound)
          /\ \A i \in 1..Len(rest) : i + 1 \in 1..Len(outbound) /\ i + 1 # 1
          /\ \A i \in 1..Len(outbound) :
                 i = 1 \/ (i - 1 \in 1..Len(rest) /\ (i - 1) + 1 = i)
      BY <1>1, <2>1, <2>2
    <2>5. \A i \in 1..Len(outbound) :
              outbound[i] \in Release /\ outbound[i] = head => i = 1
      BY <2>2, <2>4 DEF IInv, OnWireOnce
    <2>6. ASSUME NEW r \in Release
          PROVE  r \in ToSet(rest) <=> r \in ToSet(outbound) /\ r # head
      <3>1. ASSUME NEW i \in 1..Len(rest), rest[i] = r
            PROVE  r \in ToSet(outbound) /\ r # head
        BY <1>2, <2>1, <2>4, <2>5, <3>1
      <3>2. ASSUME NEW i \in 1..Len(outbound), outbound[i] = r, r # head
            PROVE  r \in ToSet(rest)
        <4>1. i # 1
          BY <2>2, <3>2
        <4>2. rest[i - 1] = r /\ i - 1 \in 1..Len(rest)
          BY <2>1, <2>4, <3>2, <4>1
        <4> QED
          BY <2>3, <4>2
      <3> QED
        BY <1>2, <2>3, <3>1, <3>2
    <2>7. head \in ToSet(outbound)
      BY <1>2, <2>2, <2>4
    <2> QED
      BY <2>6, <2>7 DEF rest, head
  <1> QED
    BY <1>2, <1>3, <1>4, <1>5

LEMMA GoneHolds ==
    ASSUME IInv, Gone, [Next]_vars
    PROVE  Gone'
  <1>1. ToSet(<<>>) = {} /\ \A r \in Release : r \in ToSet(outbound) => r \in recorded
    BY WireAfter DEF IInv, OnWireOnce
  <1>2. CASE UNCHANGED <<wire, outbound, recorded, mislaid>>
    BY <1>2 DEF Gone
  <1>3. CASE Reconnect
    BY <1>1, <1>3 DEF Reconnect, IInv, Silent, Gone, hubSide
  <1>4. CASE Drop /\ UNCHANGED recorded
    BY <1>1, <1>4 DEF Drop, Gone
  <1>5. CASE SendDone
    <2>1. /\ outbound' = IF wire = "closed" THEN outbound ELSE Append(outbound, frame)
          /\ mislaid' = IF wire = "up" THEN mislaid
                        ELSE mislaid \cup ({frame} \cap Release)
          /\ wire' = wire /\ pc = "send"
      BY <1>5 DEF SendDone
    <2>2. frame \in Frames /\ frame \notin recorded
      <3>1. frame \in Frames
        BY <2>1 DEF IInv, TypeOK, Unsent
      <3> QED
        BY <3>1, Bounds DEF IInv, TypeOK, Unsent, Frames
    <2>3. recorded' = recorded \cup ({frame} \cap Release)
      BY <1>5, <2>2, Bounds DEF SendDone, Sent, Frames
    <2>4. wire # "closed" => ToSet(outbound') = ToSet(outbound) \cup {frame}
      BY <2>1, <2>2, WireAfter
    <2> QED
      BY <2>1, <2>2, <2>3, <2>4 DEF Gone
  <1>6. CASE HubReads
    BY <1>6, WireAfter DEF HubReads, Gone, client, IInv, TypeOK
  <1>7. CASE HubCloses \/ LinkCut \/ SystemGivesUp
    BY <1>1, <1>7 DEF HubCloses, LinkCut, SystemGivesUp, Gone, client, hubSide
  <1> QED
    BY <1>2, <1>3, <1>4, <1>5, <1>6, <1>7
    DEF Next, Client, Environment, RecvLine, RecvData, RecvTimeout, RecvClosed,
        NextFrame, SendFails, Tick, HubSends, vars, client, network, hubSide

\* Every release is somewhere, and where it is can be told in one way.
LEMMA FateIs ==
    ASSUME IInv, NEW r \in Release
    PROVE  /\ Fate(r) \in {"pending", "onWire", "read", "lost"}
           /\ Fate(r) = "pending" <=> r \notin recorded
           /\ Fate(r) = "read"    <=> received[r] = 1
           /\ Fate(r) = "lost"    <=> r \in recorded /\ received[r] = 0 /\ r \in mislaid
           /\ Fate(r) = "onWire"  <=> /\ r \in recorded /\ received[r] = 0
                                      /\ r \notin mislaid /\ r \in ToSet(outbound)
  <1>1. /\ received[r] \in Nat /\ received[r] <= 1
        /\ received[r] = 1 => r \in recorded
        /\ r \in recorded => received[r] = 1 \/ r \in ToSet(outbound) \/ r \in mislaid
    BY DEF IInv, TypeOK, HubAgrees
  <1>2. received[r] = 0 \/ received[r] = 1
    BY <1>1
  <1>3. CASE received[r] = 1
    BY <1>1, <1>3 DEF Fate
  <1>4. CASE received[r] = 0 /\ r \notin recorded
    BY <1>4 DEF Fate
  <1>5. CASE received[r] = 0 /\ r \in recorded /\ r \in mislaid
    BY <1>5 DEF Fate
  <1>6. CASE received[r] = 0 /\ r \in recorded /\ r \notin mislaid
    BY <1>1, <1>6 DEF Fate
  <1> QED
    BY <1>2, <1>3, <1>4, <1>5, <1>6

\* The same after a step, where the values of the four variables decide it.
LEMMA FateWillBe ==
    ASSUME IInv', NEW r \in Release
    PROVE  /\ Fate(r)' \in {"pending", "onWire", "read", "lost"}
           /\ Fate(r)' = "pending" <=> r \notin recorded'
           /\ Fate(r)' = "read"    <=> received'[r] = 1
           /\ Fate(r)' = "lost"    <=> r \in recorded' /\ received'[r] = 0 /\ r \in mislaid'
           /\ Fate(r)' = "onWire"  <=> /\ r \in recorded' /\ received'[r] = 0
                                       /\ r \notin mislaid' /\ r \in ToSet(outbound')
  <1>1. /\ received'[r] \in Nat /\ received'[r] <= 1
        /\ received'[r] = 1 => r \in recorded'
        /\ r \in recorded' => received'[r] = 1 \/ r \in ToSet(outbound') \/ r \in mislaid'
    BY DEF IInv, TypeOK, HubAgrees
  <1>2. received'[r] = 0 \/ received'[r] = 1
    BY <1>1
  <1>3. CASE received'[r] = 1
    BY <1>1, <1>3 DEF Fate
  <1>4. CASE received'[r] = 0 /\ r \notin recorded'
    BY <1>4 DEF Fate
  <1>5. CASE received'[r] = 0 /\ r \in recorded' /\ r \in mislaid'
    BY <1>5 DEF Fate
  <1>6. CASE received'[r] = 0 /\ r \in recorded' /\ r \notin mislaid'
    BY <1>1, <1>6 DEF Fate
  <1> QED
    BY <1>2, <1>3, <1>4, <1>5, <1>6

fates == [r \in Release |-> Fate(r)]

\* A connection's end decides the fate of what is on it, and of nothing else.
LEMMA EndOfConnection ==
    ASSUME IInv, IInv', UNCHANGED recorded,
           \A r \in Release :
               /\ received'[r] = received[r]
                  \/ (received'[r] = 1 /\ received[r] = 0 /\ r \in ToSet(outbound)
                      /\ r \notin mislaid)
               /\ r \in mislaid => r \in mislaid'
               /\ r \in mislaid' => r \in mislaid \/ r \in ToSet(outbound)
               /\ r \in ToSet(outbound) =>
                      r \in mislaid' \/ received'[r] = 1
    PROVE  Connections!End
  <1> DEFINE onWire == {r \in Release : Fate(r) = "onWire"}
             arrived == {r \in onWire : received'[r] = 1}
  <1>1. ASSUME NEW r \in Release
        PROVE  Fate(r)' = IF r \in arrived THEN "read"
                          ELSE IF r \in onWire THEN "lost" ELSE Fate(r)
    <2>1. /\ received[r] = 0 \/ received[r] = 1
          /\ r \in ToSet(outbound) => r \in recorded /\ received[r] = 0
      <3>1. received[r] \in Nat /\ received[r] <= 1
        BY DEF IInv, TypeOK, HubAgrees
      <3> QED
        BY <3>1, WireAfter DEF IInv, OnWireOnce
    <2>2. CASE Fate(r) = "onWire"
      BY <2>1, <2>2, FateIs, FateWillBe
    <2>3. CASE Fate(r) # "onWire"
      <3>1. r \in ToSet(outbound) => r \in mislaid
        BY <2>1, <2>3, FateIs
      <3>2. received'[r] = received[r] /\ (r \in mislaid' <=> r \in mislaid)
        BY <2>1, <3>1
      <3>3. Fate(r) \in {"pending", "read", "lost"}
        BY <2>3, FateIs
      <3>4. Fate(r)' = Fate(r)
        BY <3>2, <3>3, FateIs, FateWillBe
      <3> QED
        BY <2>3, <3>4
    <2> QED
      BY <2>2, <2>3
  <1>2. fates' = [r \in Release |-> IF r \in arrived THEN "read"
                                    ELSE IF r \in onWire THEN "lost" ELSE fates[r]]
    BY <1>1 DEF fates
  <1>3. Connections!OnWire = onWire
    BY DEF Connections!OnWire
  <1> QED
    BY <1>2, <1>3 DEF Connections!End, fates

\* The release that client:send reported as sent is handed over: it is on the wire,
\* or lost if the connection had broken.  A keepalive changes no fate.
LEMMA SendHandsOver ==
    ASSUME IInv, IInv', Gone, SendDone
    PROVE  Connections!HandOver \/ fates' = fates
  <1>1. /\ outbound' = IF wire = "closed" THEN outbound ELSE Append(outbound, frame)
        /\ mislaid' = IF wire = "up" THEN mislaid ELSE mislaid \cup ({frame} \cap Release)
        /\ UNCHANGED <<wire, received>> /\ pc = "send"
    BY DEF SendDone
  <1>2. frame \in Frames /\ frame # NoFrame /\ frame \notin recorded
    <2>1. frame \in Frames
      BY <1>1 DEF IInv, TypeOK, Unsent
    <2> QED
      BY <2>1, Bounds DEF IInv, TypeOK, Unsent, Frames
  <1>3. /\ recorded' = recorded \cup ({frame} \cap Release)
        /\ ToSet(outbound') = IF wire = "closed" THEN ToSet(outbound)
                              ELSE ToSet(outbound) \cup {frame}
    <2>1. recorded' = recorded \cup ({frame} \cap Release)
      BY <1>2, Bounds DEF SendDone, Sent, Frames
    <2> QED
      BY <1>1, <1>2, <2>1, WireAfter
  <1>4. ASSUME NEW r \in Release, r # frame
        PROVE  Fate(r)' = Fate(r)
    BY <1>1, <1>3, <1>4, FateIs, FateWillBe
  <1>5. ASSUME NEW q \in Release, q = frame
        PROVE  Fate(q) = "pending" /\ Fate(q)' \in {"onWire", "lost"}
    <2>1. received[q] # 1 /\ received'[q] # 1
      BY <1>1, <1>2, <1>5 DEF IInv, HubAgrees
    <2>2. q \in recorded'
      BY <1>3, <1>5
    <2> QED
      BY <1>2, <1>5, <2>1, <2>2, FateIs, FateWillBe
  <1>6. CASE frame \notin Release
    BY <1>4, <1>6 DEF fates
  <1>7. ASSUME NEW q \in Release, q = frame
        PROVE  Connections!HandOver
    <2>1. fates' = [fates EXCEPT ![q] = Fate(q)']
      BY <1>4, <1>7 DEF fates
    <2>2. /\ fates[q] = "pending" /\ Fate(q)' \in {"onWire", "lost"}
      BY <1>5, <1>7 DEF fates
    <2> QED
      BY <2>1, <2>2 DEF Connections!HandOver, Connections!Turns, fates
  <1> QED
    BY <1>6, <1>7

LEMMA HubReadsRead ==
    ASSUME IInv, IInv', Gone, HubReads
    PROVE  Connections!Read \/ fates' = fates
  <1>1. /\ wire = "up" /\ outbound # <<>> /\ outbound' = Tail(outbound)
        /\ received' = IF Head(outbound) = KeepAlive THEN received
                       ELSE [received EXCEPT ![Head(outbound)] = @ + 1]
        /\ UNCHANGED <<recorded, mislaid>>
    BY DEF HubReads, client
  <1>2. /\ Head(outbound) \in ToSet(outbound)
        /\ \A r \in Release : r \in ToSet(outbound') <=>
                                  r \in ToSet(outbound) /\ r # Head(outbound)
    BY <1>1, WireAfter
  <1>3. received \in [Release -> Nat]
    BY DEF IInv, TypeOK
  <1>4. ASSUME NEW r \in Release, r # Head(outbound)
        PROVE  Fate(r)' = Fate(r)
    <2>1. received'[r] = received[r]
      BY <1>1, <1>3, <1>4
    <2>2. /\ Fate(r)' \in {"pending", "onWire", "read", "lost"}
          /\ Fate(r) \in {"pending", "onWire", "read", "lost"}
          /\ r \in ToSet(outbound') <=> r \in ToSet(outbound)
      BY <1>2, <1>4, FateIs, FateWillBe
    <2> QED
      BY <1>1, <2>1, <2>2, FateIs, FateWillBe
  <1>5. CASE Head(outbound) \notin Release
    BY <1>4, <1>5 DEF fates
  <1>6. ASSUME NEW q \in Release, q = Head(outbound)
        PROVE  Connections!Read
    <2>1. q # KeepAlive
      BY Bounds
    <2>2. /\ q \in recorded /\ received[q] = 0 /\ q \notin mislaid
          /\ q \in ToSet(outbound)
      BY <1>1, <1>2, <1>6, WireAfter DEF IInv, OnWireOnce, Gone
    <2>3. received'[q] = 1
      BY <1>1, <1>3, <1>6, <2>1, <2>2
    <2>4. Fate(q) = "onWire" /\ Fate(q)' = "read"
      BY <2>2, <2>3, FateIs, FateWillBe
    <2>5. fates' = [fates EXCEPT ![q] = "read"]
      BY <1>4, <1>6, <2>4 DEF fates
    <2>6. q \in Connections!OnWire
      BY <2>4 DEF Connections!OnWire
    <2> QED
      BY <2>5, <2>6 DEF Connections!Read, Connections!Turns, fates
  <1> QED
    BY <1>5, <1>6

LEMMA DropEnds ==
    ASSUME IInv, IInv', Gone, Drop, UNCHANGED recorded
    PROVE  Connections!End
  <1>1. PICK n \in 0..Len(outbound) :
           LET delivered == IF wire = "up" THEN ToSet(SubSeq(outbound, 1, n)) ELSE {}
           IN  /\ received' = [r \in Release |->
                                 received[r] + IF r \in delivered THEN 1 ELSE 0]
               /\ mislaid' = mislaid \cup ((ToSet(outbound) \cap Release) \ delivered)
    BY DEF Drop
  <1> DEFINE delivered == IF wire = "up" THEN ToSet(SubSeq(outbound, 1, n)) ELSE {}
  <1>2. outbound \in Seq(Frames) /\ received \in [Release -> Nat]
    BY DEF IInv, TypeOK
  <1>3. \A r \in delivered : r \in ToSet(outbound) /\ wire = "up"
    <2>1. /\ SubSeq(outbound, 1, n) \in Seq(Frames) /\ Len(SubSeq(outbound, 1, n)) = n
          /\ \A i \in 1..n : SubSeq(outbound, 1, n)[i] = outbound[i]
      BY <1>2, Cut
    <2>2. \A r : r \in ToSet(SubSeq(outbound, 1, n)) <=>
                     \E i \in 1..n : SubSeq(outbound, 1, n)[i] = r
      BY <2>1, InToSet, ZenonT(40)
    <2>3. \A i \in 1..n : i \in 1..Len(outbound)
      BY <1>2, LenProperties
    <2> QED
      BY <2>1, <2>2, <2>3, WireAfter
  <1>4. /\ received' = [r \in Release |->
                          received[r] + IF r \in delivered THEN 1 ELSE 0]
        /\ mislaid' = mislaid \cup ((ToSet(outbound) \cap Release) \ delivered)
    BY <1>1
  <1> HIDE DEF delivered
  <1>5. ASSUME NEW r \in Release
        PROVE  /\ received'[r] = received[r]
                  \/ (received'[r] = 1 /\ received[r] = 0 /\ r \in ToSet(outbound)
                      /\ r \notin mislaid)
               /\ r \in mislaid => r \in mislaid'
               /\ r \in mislaid' => r \in mislaid \/ r \in ToSet(outbound)
               /\ r \in ToSet(outbound) => r \in mislaid' \/ received'[r] = 1
    <2>1. r \in ToSet(outbound) => received[r] = 0
      BY WireAfter DEF IInv, OnWireOnce
    <2>2. CASE r \in delivered
      <3>1. r \in ToSet(outbound) /\ wire = "up" /\ received[r] = 0
        BY <1>3, <2>1, <2>2
      <3>2. received'[r] = 1
        BY <1>4, <2>2, <3>1
      <3>3. r \notin mislaid
        BY <3>1 DEF Gone
      <3> QED
        BY <1>4, <3>1, <3>2, <3>3
    <2>3. CASE r \notin delivered
      BY <1>2, <1>4, <2>3
    <2> QED
      BY <2>2, <2>3
  <1> QED
    BY <1>5, EndOfConnection

\* The hub's close, a cut and the operating system's verdict.
LEMMA BrokenEnds ==
    ASSUME IInv, IInv', HubCloses \/ LinkCut \/ SystemGivesUp
    PROVE  Connections!End
  <1>1. /\ UNCHANGED <<recorded, received>>
        /\ mislaid' = mislaid \/ mislaid' = mislaid \cup (ToSet(outbound) \cap Release)
    BY DEF HubCloses, LinkCut, SystemGivesUp, client, hubSide
  <1>2. \A r \in Release : r \in ToSet(outbound) => r \in mislaid'
    <2>1. CASE HubCloses \/ LinkCut
      BY <2>1 DEF HubCloses, LinkCut
    <2>2. CASE SystemGivesUp
      BY <2>2, WireAfter DEF SystemGivesUp, IInv, OnWireOnce, hubSide
    <2> QED
      BY <2>1, <2>2
  <1> QED
    BY <1>1, <1>2, EndOfConnection

\* The connections implement module Delivery: each release is handed over once, and
\* from then on goes to the hub or is lost, whatever happens to the connections.
THEOREM ImplementsDeliveryHolds == Spec => ImplementsDelivery
  <1>1. Init => Gone
    BY DEF Init, Gone
  <1>2. IInv /\ Gone /\ [Next]_vars => Gone'
    BY GoneHolds
  <1>3. Spec => []Gone
    BY <1>1, <1>2, InvariantHolds, PTL DEF Spec
  <1>4. Init => Connections!Init
    <2> SUFFICES ASSUME Init
                 PROVE  \A r \in Release : Fate(r) = "pending"
      BY DEF Connections!Init
    <2> QED
      BY InitIInv, FateIs DEF Init
  <1>5. IInv /\ IInv' /\ Gone /\ [Next]_vars => [Connections!Next]_fates
    <2> SUFFICES ASSUME IInv, IInv', Gone, [Next]_vars
                 PROVE  Connections!Next \/ fates' = fates
      OBVIOUS
    <2>1. CASE UNCHANGED <<outbound, recorded, received, mislaid>>
      <3>1. \A r \in Release : Fate(r)' = Fate(r)
        BY <2>1 DEF Fate
      <3> QED
        BY <3>1 DEF fates
    <2>2. CASE SendDone
      BY <2>2, SendHandsOver DEF Connections!Next
    <2>3. CASE HubReads
      BY <2>3, HubReadsRead DEF Connections!Next
    <2>4. CASE Drop /\ UNCHANGED recorded
      BY <2>4, DropEnds DEF Connections!Next
    <2>5. CASE HubCloses \/ LinkCut \/ SystemGivesUp
      BY <2>5, BrokenEnds DEF Connections!Next
    <2> QED
      BY <2>1, <2>2, <2>3, <2>4, <2>5
      DEF Next, Client, Environment, Reconnect, RecvLine, RecvData, RecvTimeout,
          RecvClosed, NextFrame, SendFails, Tick, HubSends, vars, client, network,
          hubSide
  <1>6. fates = [r \in Release |-> Fate(r)]
    BY DEF fates
  <1> QED
    BY <1>3, <1>4, <1>5, InvariantHolds, PTL
    DEF Spec, ImplementsDelivery, Connections!Spec, fates
=============================================================================
