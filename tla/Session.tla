------------------------------ MODULE Session ------------------------------
(***************************************************************************)
(* One announcer and one hub: net.loop of core/net.lua with the reconnect  *)
(* loop of the frontends around it (frontends/cli/main.lua and             *)
(* frontends/gui/spawned_worker.lua), the TLS connection, and an ADC hub   *)
(* (external, modelled from what net.lua expects of it).                   *)
(*                                                                         *)
(* `pc` names what the client does next; while it waits for a login frame  *)
(* `pc` is the status key that net.lua would blame.  The announcing itself *)
(* is module Announcer's.  The machine has sockets and memory to spare,    *)
(* and the hub shows a certificate, as TLS 1.3 (cfg/sslparams.lua) makes   *)
(* it do: otherwise net.loop raises before the login.                      *)
(***************************************************************************)
EXTENDS Naturals, Sequences

CONSTANTS
    MaxLoginStatus,   \* MAX_LOGIN_STATUS: informational frames per read
    MaxInfo,          \* bound on informational frames per connection
    MaxFaults         \* bound on cuts, refusals, timeouts, kicks, full hubs

ASSUME BoundsAssumption ==
    MaxLoginStatus \in Nat \ {0} /\ MaxInfo \in Nat /\ MaxFaults \in Nat

VARIABLES
    setup,      \* what hub.lua says and what the hub is: never changes
    pc,         \* what the client does next
    skips,      \* informational frames skipped by the current recv_login
    status,     \* the last event emitted for each status key
    wire,       \* the TCP connection: "none", "up" or "cut"
    toHub,      \* frames on their way to the hub
    toClient,   \* frames on their way to the client
    hub,        \* the hub's state for this connection
    member,     \* ghost: the hub admitted the client on this connection
    stale,      \* the hub still counts an earlier connection as logged in
    infos,      \* informational frames the hub sent on this connection
    faults      \* faults so far

network == <<wire, toHub, toClient>>
hubSide == <<hub, member, stale>>
vars == <<setup, pc, skips, status, network, hubSide, infos, faults>>

-----------------------------------------------------------------------------

StatusKeys == {"hubconnect", "hubhandshake", "hubkeyp", "support", "hubsupport",
               "hubosnr", "hubsid", "hubinf", "owninf", "passwd", "hubsalt",
               "hublogin"}

Reading == {"hubsupport", "hubsid", "hubinf", "passwd", "hublogin"}
Online  == {"settle", "scan", "poll"}
Joining == {"handshake", "keyprint", "support"} \cup Reading
Ended   == {"stopped", "dead"}
PCs     == {"connect", "backoff"} \cup Joining \cup Online \cup Ended

\* How the hubs that an operator can point the bot at differ.
HubKinds == {"luadch", "noOSNR", "noSID", "noINF", "noPassword", "badSalt",
             "regOnly", "foreign"}

Setups == [keyprint : {"unset", "match", "mismatch"},
           password : BOOLEAN,
           hub : HubKinds]

\* SUPx: no ADOSNR.  GPAx: no base32 salt.  OTHER: any frame but the expected.
ClientFrames == {"HSUP", "BINF", "HPAS", "HCOUNT"}
HubFrames    == {"SUP", "SUPx", "SID", "INF", "GPA", "GPAx", "BINF", "OTHER",
                 "INFO", "TAKEN", "FULL", "DENIED"}

\* Variant: "nick taken" is fatal.
DispositionTakenFatal(frame) ==
    CASE frame = "INFO"               -> "info"
      [] frame = "FULL"               -> "retry"
      [] frame \in {"TAKEN", "DENIED"} -> "terminal"
      [] OTHER                        -> "frame"

\* recv_login's classification of a frame: ISTA severity 0 and 1 inform,
\* RETRY_ISTA lists the transient refusals (211, 222, 224).
Disposition(frame) ==
    CASE frame = "INFO"               -> "info"
      [] frame \in {"TAKEN", "FULL"}  -> "retry"
      [] frame = "DENIED"             -> "terminal"
      [] OTHER                        -> "frame"

\* The login can succeed.
Acceptable == setup.hub \in {"luadch", "foreign"} /\ setup.password
              /\ setup.keyprint # "mismatch"

TypeOK ==
    /\ setup \in Setups
    /\ pc \in PCs
    /\ skips \in 0..(MaxLoginStatus - 1)
    /\ status \in [StatusKeys -> {"none", "ok", "fail"}]
    /\ wire \in {"none", "up", "cut"}
    /\ toHub \in Seq(ClientFrames)
    /\ toClient \in Seq(HubFrames)
    /\ hub \in {"none", "protocol", "identify", "verify", "normal", "gone"}
    /\ member \in BOOLEAN
    /\ stale \in BOOLEAN
    /\ infos \in 0..MaxInfo
    /\ faults \in 0..MaxFaults

Init ==
    /\ setup \in Setups
    /\ pc = "connect"
    /\ skips = 0
    /\ status = [k \in StatusKeys |-> "none"]
    /\ wire = "none"
    /\ toHub = <<>>
    /\ toClient = <<>>
    /\ hub = "none"
    /\ member = FALSE
    /\ stale = FALSE
    /\ infos = 0
    /\ faults = 0

-----------------------------------------------------------------------------
(* Building blocks                                                         *)

Emit(key, value) == status' = [status EXCEPT ![key] = value]

Fault == faults < MaxFaults /\ faults' = faults + 1

\* The peer is unreachable or has closed; the client finds out by failing.
Broken == wire = "cut" \/ hub = "gone"

\* client:send; on a connection that is broken it can still succeed, the
\* data being buffered.
Send(frame) ==
    toHub' = IF Broken THEN toHub ELSE Append(toHub, frame)

\* The connection is over for the client, whether net.lua closes the socket
\* or leaves it to the garbage collector.  A hub that has the bot logged in,
\* or is still to read the password that logs it in, keeps the nick taken
\* until it notices.
HangUp ==
    /\ wire' = "none" /\ toHub' = <<>> /\ toClient' = <<>>
    /\ hub' = "none" /\ member' = FALSE
    /\ stale' \in {stale \/ hub = "normal", stale \/ hub \in {"verify", "normal"}}
    /\ skips' = 0 /\ infos' = 0

\* net.loop returns false: the frontend sleeps and calls it again.
Retry == HangUp /\ pc' = "backoff"

\* net.loop returns true: the frontend leaves its loop and exits.
GiveUp == HangUp /\ pc' = "stopped"

\* recv_login returned a normal frame to the step `at`, which moves to `to`.
Receive(at, to) ==
    /\ pc = at /\ toClient # <<>>
    /\ Disposition(Head(toClient)) = "frame"
    /\ toClient' = Tail(toClient)
    /\ skips' = 0
    /\ pc' = to
    /\ UNCHANGED <<setup, wire, hubSide, infos, faults>>

\* ... and what it is, when it is not what the step expects.
Unexpected(at, frames) ==
    /\ pc = at /\ toClient # <<>>
    /\ Disposition(Head(toClient)) = "frame"
    /\ Head(toClient) \notin frames
    /\ UNCHANGED <<setup, faults>>

NextFrameIs(frame) == toClient # <<>> /\ Head(toClient) = frame

-----------------------------------------------------------------------------
(* recv_login and login_bail                                               *)

\* Variants: only a transient refusal is retried; everything is.
LoginBailStrict(disposition) ==
    /\ Emit(pc, "fail")
    /\ IF disposition = "retry" THEN Retry ELSE GiveUp

LoginBailRetries(disposition) ==
    /\ Emit(pc, "fail")
    /\ Retry

LoginBail(disposition) ==
    /\ Emit(pc, "fail")
    /\ IF disposition = "terminal" THEN GiveUp ELSE Retry

\* Variant: one informational frame more is skipped.
RecvInfoOffByOne ==
    /\ pc \in Reading /\ toClient # <<>>
    /\ Disposition(Head(toClient)) = "info"
    /\ IF skips < MaxLoginStatus
         THEN /\ skips' = skips + 1
              /\ toClient' = Tail(toClient)
              /\ UNCHANGED <<pc, status, wire, toHub, hubSide, infos>>
         ELSE LoginBail("retry")
    /\ UNCHANGED <<setup, faults>>

\* An informational frame is skipped, unless it is one too many.
RecvInfo ==
    /\ pc \in Reading /\ toClient # <<>>
    /\ Disposition(Head(toClient)) = "info"
    /\ IF skips + 1 < MaxLoginStatus
         THEN /\ skips' = skips + 1
              /\ toClient' = Tail(toClient)
              /\ UNCHANGED <<pc, status, wire, toHub, hubSide, infos>>
         ELSE LoginBail("retry")
    /\ UNCHANGED <<setup, faults>>

RecvReject ==
    /\ pc \in Reading /\ toClient # <<>>
    /\ Disposition(Head(toClient)) \in {"retry", "terminal"}
    /\ LoginBail(Disposition(Head(toClient)))
    /\ UNCHANGED <<setup, faults>>

\* receive fails: the connection is gone, or the hub takes too long.
RecvError ==
    /\ pc \in Reading /\ toClient = <<>>
    /\ IF Broken THEN UNCHANGED faults ELSE Fault
    /\ LoginBail("error")
    /\ UNCHANGED setup

-----------------------------------------------------------------------------
(* net.loop up to the login                                                *)

\* Variant: the success is not emitted.
ConnectSilently ==
    /\ pc = "connect"
    /\ wire' = "up" /\ hub' = "protocol"
    /\ pc' = "handshake"
    /\ UNCHANGED <<setup, skips, status, toHub, toClient, member, stale, infos,
                   faults>>

Connect ==
    /\ pc = "connect"
    /\ wire' = "up" /\ hub' = "protocol"
    /\ Emit("hubconnect", "ok")
    /\ pc' = "handshake"
    /\ UNCHANGED <<setup, skips, toHub, toClient, member, stale, infos, faults>>

\* Refused or timed out: sleep and try again, inside net.loop.
ConnectFails ==
    /\ pc = "connect"
    /\ Fault
    /\ Emit("hubconnect", "fail")
    /\ UNCHANGED <<setup, pc, skips, network, hubSide, infos>>

Handshake ==
    /\ pc = "handshake" /\ ~Broken
    /\ Emit("hubhandshake", "ok")
    /\ pc' = "keyprint"
    /\ UNCHANGED <<setup, skips, network, hubSide, infos, faults>>

HandshakeFails ==
    /\ pc = "handshake"
    /\ IF Broken THEN UNCHANGED faults ELSE Fault
    /\ Emit("hubhandshake", "fail")
    /\ Retry
    /\ UNCHANGED setup

CheckKeyprint ==
    /\ pc = "keyprint"
    /\ IF setup.keyprint = "mismatch"
         THEN Emit("hubkeyp", "fail") /\ GiveUp
         ELSE /\ Emit("hubkeyp", "ok")
              /\ pc' = "support"
              /\ UNCHANGED <<skips, network, hubSide, infos>>
    /\ UNCHANGED <<setup, faults>>

SendSupport ==
    /\ pc = "support"
    /\ Send("HSUP")
    /\ Emit("support", "ok")
    /\ pc' = "hubsupport"
    /\ UNCHANGED <<setup, skips, wire, toClient, hubSide, infos, faults>>

SendSupportFails ==
    /\ pc = "support" /\ Broken
    /\ Emit("support", "fail")
    /\ Retry
    /\ UNCHANGED <<setup, faults>>

HubSupport ==
    /\ NextFrameIs("SUP")
    /\ Receive("hubsupport", "hubsid")
    /\ status' = [status EXCEPT !["hubsupport"] = "ok", !["hubosnr"] = "ok"]
    /\ UNCHANGED toHub

NoOSNR ==
    /\ Unexpected("hubsupport", {"SUP"})
    /\ status' = [status EXCEPT !["hubsupport"] = "ok", !["hubosnr"] = "fail"]
    /\ GiveUp

HubSid ==
    /\ NextFrameIs("SID")
    /\ Receive("hubsid", "hubinf")
    /\ Emit("hubsid", "ok")
    /\ UNCHANGED toHub

\* No SID where one is due: closed for good, and no status is emitted.
NoSid ==
    /\ Unexpected("hubsid", {"SID"})
    /\ GiveUp
    /\ UNCHANGED status

HubInf ==
    /\ NextFrameIs("INF")
    /\ Receive("hubinf", "passwd")
    /\ Send("BINF")
    /\ status' = [status EXCEPT !["hubinf"] = "ok", !["owninf"] = "ok"]

NoInf ==
    /\ Unexpected("hubinf", {"INF"})
    /\ GiveUp
    /\ UNCHANGED status

OwnInfFails ==
    /\ pc = "hubinf" /\ NextFrameIs("INF") /\ Broken
    /\ status' = [status EXCEPT !["hubinf"] = "ok", !["owninf"] = "fail"]
    /\ Retry
    /\ UNCHANGED <<setup, faults>>

PassRequest ==
    /\ NextFrameIs("GPA")
    /\ Receive("passwd", "hublogin")
    /\ Send("HPAS")
    /\ status' = [status EXCEPT !["passwd"] = "ok", !["hubsalt"] = "ok"]

PassFails ==
    /\ pc = "passwd" /\ NextFrameIs("GPA") /\ Broken
    /\ status' = [status EXCEPT !["passwd"] = "ok", !["hubsalt"] = "fail"]
    /\ Retry
    /\ UNCHANGED <<setup, faults>>

\* The salt does not parse: adclib.hashpas raises, nobody catches it and the
\* process ends.
SaltRaises ==
    /\ pc = "passwd" /\ NextFrameIs("GPAx")
    /\ Emit("passwd", "ok")
    /\ HangUp
    /\ pc' = "dead"
    /\ UNCHANGED <<setup, faults>>

NoPassRequest ==
    /\ Unexpected("passwd", {"GPA", "GPAx"})
    /\ Emit("passwd", "fail")
    /\ GiveUp

\* Variant: any frame completes the login.
HubLoginUnchecked ==
    /\ Receive("hublogin", "settle")
    /\ Send("HCOUNT")
    /\ Emit("hublogin", "ok")

HubLogin ==
    /\ NextFrameIs("BINF")
    /\ Receive("hublogin", "settle")
    /\ Send("HCOUNT")
    /\ Emit("hublogin", "ok")

LoginFailed ==
    /\ Unexpected("hublogin", {"BINF"})
    /\ Emit("hublogin", "fail")
    /\ GiveUp

\* The last login frame cannot be sent: no status is emitted.
HubCountFails ==
    /\ pc = "hublogin" /\ NextFrameIs("BINF") /\ Broken
    /\ Retry
    /\ UNCHANGED <<setup, status, faults>>

-----------------------------------------------------------------------------
(* net.loop after the login                                                *)

Settle ==
    /\ pc = "settle"
    /\ pc' = "scan"
    /\ UNCHANGED <<setup, skips, status, network, hubSide, infos, faults>>

\* A scan, its BMSGs and the keepalive, all of them sent.
ScanAndSend ==
    /\ pc = "scan"
    /\ pc' = "poll"
    /\ UNCHANGED <<setup, skips, status, network, hubSide, infos, faults>>

\* Variant: the error of a send is ignored.
SendFailsIgnored ==
    /\ pc = "scan" /\ Broken
    /\ pc' = "poll"
    /\ UNCHANGED <<setup, skips, status, network, hubSide, infos, faults>>

\* A BMSG or the keepalive cannot be sent: no status is emitted.
SendFails ==
    /\ pc = "scan" /\ Broken
    /\ Retry
    /\ UNCHANGED <<setup, status, faults>>

NextScanDue ==
    /\ pc = "poll"
    /\ pc' = "scan"
    /\ UNCHANGED <<setup, skips, status, network, hubSide, infos, faults>>

\* The poll reads the hub's close, or what the operating system's probes
\* found out; a link that was cut silently can read as "nothing yet" as well.
PollLost ==
    /\ pc = "poll" /\ Broken
    /\ Emit("hubconnect", "fail")
    /\ Retry
    /\ UNCHANGED <<setup, faults>>

Backoff ==
    /\ pc = "backoff"
    /\ pc' = "connect"
    /\ UNCHANGED <<setup, skips, status, network, hubSide, infos, faults>>

-----------------------------------------------------------------------------
(* The hub and the network (external)                                      *)

HubReads(frame, state) ==
    /\ wire = "up" /\ hub = state
    /\ toHub # <<>> /\ Head(toHub) = frame
    /\ toHub' = Tail(toHub)
    /\ UNCHANGED <<setup, pc, skips, status, wire, stale, infos>>

Reply(frames) == toClient' = toClient \o frames

HubOnSupport ==
    /\ HubReads("HSUP", "protocol")
    /\ hub' = "identify"
    /\ Reply(<<IF setup.hub = "noOSNR" THEN "SUPx" ELSE "SUP",
               IF setup.hub = "noSID" THEN "OTHER" ELSE "SID",
               IF setup.hub = "noINF" THEN "OTHER" ELSE "INF">>)
    /\ UNCHANGED <<member, faults>>

\* The client's INF: the nick may be taken by the bot's own earlier
\* connection, the hub may be full, or may not want the bot.
HubOnInf ==
    /\ HubReads("BINF", "identify")
    /\ \/ /\ stale
          /\ Reply(<<"TAKEN">>) /\ hub' = "gone" /\ UNCHANGED <<member, faults>>
       \/ /\ Fault
          /\ Reply(<<"FULL">>) /\ hub' = "gone" /\ UNCHANGED member
       \/ /\ ~stale /\ setup.hub = "regOnly"
          /\ Reply(<<"DENIED">>) /\ hub' = "gone" /\ UNCHANGED <<member, faults>>
       \/ /\ ~stale /\ setup.hub = "noPassword"
          /\ Reply(<<"BINF">>) /\ hub' = "normal" /\ member' = TRUE
          /\ UNCHANGED faults
       \/ /\ ~stale /\ setup.hub \notin {"regOnly", "noPassword"}
          /\ Reply(<<IF setup.hub = "badSalt" THEN "GPAx" ELSE "GPA">>)
          /\ hub' = "verify" /\ UNCHANGED <<member, faults>>

\* A wrong password is refused by a status frame, or by a foreign hub with a
\* frame of another kind.
HubOnPassword ==
    /\ HubReads("HPAS", "verify")
    /\ IF setup.password
         THEN Reply(<<"BINF">>) /\ hub' = "normal" /\ member' = TRUE
         ELSE /\ Reply(<<IF setup.hub = "foreign" THEN "OTHER" ELSE "DENIED">>)
              /\ hub' = "gone" /\ UNCHANGED member
    /\ UNCHANGED faults

HubOnCount ==
    /\ HubReads("HCOUNT", "normal")
    /\ UNCHANGED <<toClient, hub, member, faults>>

HubInforms ==
    /\ wire = "up" /\ hub \in {"protocol", "identify", "verify"}
    /\ infos < MaxInfo
    /\ infos' = infos + 1
    /\ Reply(<<"INFO">>)
    /\ UNCHANGED <<setup, pc, skips, status, wire, toHub, hubSide, faults>>

\* The hub notices that an earlier connection is dead.
StaleExpires ==
    /\ stale
    /\ stale' = FALSE
    /\ UNCHANGED <<setup, pc, skips, status, network, hub, member, infos, faults>>

\* A kick, or a hub restart: the connection is closed, in order.
HubCloses ==
    /\ wire = "up" /\ hub \notin {"none", "gone"}
    /\ Fault
    /\ hub' = "gone"
    /\ UNCHANGED <<setup, pc, skips, status, network, member, stale, infos>>

\* The link is lost silently, with every frame on it.
LinkCut ==
    /\ wire = "up"
    /\ Fault
    /\ wire' = "cut" /\ toHub' = <<>> /\ toClient' = <<>>
    /\ UNCHANGED <<setup, pc, skips, status, hubSide, infos>>

-----------------------------------------------------------------------------

Login ==
    \/ RecvInfo \/ RecvReject \/ RecvError
    \/ HubSupport \/ NoOSNR \/ HubSid \/ NoSid \/ HubInf \/ NoInf \/ OwnInfFails
    \/ PassRequest \/ PassFails \/ SaltRaises \/ NoPassRequest
    \/ HubLogin \/ LoginFailed \/ HubCountFails

Client ==
    \/ Connect \/ ConnectFails \/ Handshake \/ HandshakeFails
    \/ CheckKeyprint \/ SendSupport \/ SendSupportFails
    \/ Login
    \/ Settle \/ ScanAndSend \/ SendFails \/ NextScanDue \/ PollLost
    \/ Backoff

Hub == HubOnSupport \/ HubOnInf \/ HubOnPassword \/ HubOnCount

Environment == HubInforms \/ StaleExpires \/ HubCloses \/ LinkCut

\* The process has ended.
Terminated == pc \in Ended /\ UNCHANGED vars

Next == Client \/ Hub \/ Environment \/ Terminated

\* The client is one process whose every wait ends.  The hub answers, and
\* notices dead connections.  A send on a dead link fails in the end (the
\* operating system gives up retransmitting): it cannot succeed for ever.
Fairness ==
    /\ WF_vars(Client)
    /\ WF_vars(Hub)
    /\ WF_vars(StaleExpires)
    /\ SF_vars(SendFails)

Spec == Init /\ [][Next]_vars /\ Fairness

-----------------------------------------------------------------------------
(* Properties                                                              *)

\* The bot announces only on a connection on which the hub admitted it.
AnnouncesAsMember == pc \in Online => member

\* Whatever the faults, the announcer ends only if the login was impossible:
\* nothing transient (its own nick still taken after a reconnect, a full hub,
\* a lost frame, a chatty hub) is taken for a refusal.
GivesUpOnlyIfRefused == pc \in Ended => ~Acceptable

\* No failure of an earlier attempt is left in the status of a session that
\* is up (the GUI reads any such key as a failure of this session).
NoStaleFailure == pc \in Online => \A k \in StatusKeys : status[k] = "ok"

\* In the end the hub sends fewer informational frames than a read skips.
NotChattyForEver == <>[](infos < MaxLoginStatus)

\* A hub that accepts the bot has it in the end, on a working connection, and
\* for good once the faults end: a dead link does not go unnoticed for ever.
EventuallyStaysOnline ==
    Acceptable /\ NotChattyForEver => <>[](pc \in Online /\ member /\ ~Broken)

\* A login that cannot succeed is not tried for ever.
EventuallyGivesUp == ~Acceptable /\ NotChattyForEver => <>(pc \in Ended)

\* The session implements the promise of module HubMembership.
Membership == INSTANCE HubMembership WITH
    acceptable <- Acceptable,
    phase <- CASE pc \in Online  -> "member"
               [] pc \in Joining -> "joining"
               [] pc \in Ended   -> "refused"
               [] OTHER          -> "out"

ImplementsMembership == Membership!Spec
=============================================================================
