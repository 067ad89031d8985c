--------------------------- MODULE ControlSession ---------------------------
(***************************************************************************)
(* One control connection, from both ends: the server task handle_client   *)
(* (control.rs), the client of tunnel.rs, the public requests that ask the *)
(* client for a data stream, the idle reaper, a token revocation by SIGHUP *)
(* and the server's shutdown.  The tunnel is an HTTP one; how the registry *)
(* admits and removes it is the subject of TunnelRegistry.                 *)
(***************************************************************************)
EXTENDS Naturals, Sequences

CONSTANTS
  Requests,     \* public requests for the tunnel
  ControlCap,   \* capacity of the control_tx channel, 64 in the code
  Window,       \* how many unread messages the transport buffers per direction
  MaxPings,     \* bound: heartbeats the client sends
  MaxReloads,   \* bound: reloads of the revocation list
  None

ASSUME BoundsAssumption ==
  /\ ControlCap \in Nat \ {0} /\ Window \in Nat \ {0}
  /\ MaxPings \in Nat /\ MaxReloads \in Nat

VARIABLES
  server,     \* where handle_client is
  out,        \* the ServerMsg it is about to queue or to write
  half,       \* the pending read has consumed the length of a message
  desync,     \* a dropped read took that length with it
  seen,       \* the revocation epoch its receiver has seen
  chan,       \* the channel control_tx -> control_rx
  registered, \* the tunnel is published
  reaped,     \* the reaper removed it
  client,     \* where the client is
  pings,      \* heartbeats sent
  up,         \* the WebSocket is alive
  c2s, s2c,   \* the control stream
  request,    \* the public requests
  revoked,    \* the session's jti is in the blocklist
  epoch,      \* ServerState.revocation_epoch
  cancel,     \* ServerState.cancel
  late        \* history: client messages taken up since the token was revoked

serverVars == <<server, out, half, desync, seen>>
tunnelVars == <<chan, registered, reaped, request>>
clientVars == <<client, pings>>
linkVars == <<up, c2s, s2c>>
adminVars == <<revoked, epoch, cancel>>
vars == <<serverVars, tunnelVars, clientVars, linkVars, adminVars, late>>

(* A message sent with write_msg_to_stream is two writes, its length and   *)
(* its body; the client's Framed codec writes a Ping in one.               *)
ClientFrames == {"Auth", "Length", "TunnelRequest", "Ping"}

(* Error 409, 429 and 5xx are "Busy" to the client, 4xx are "Refused".     *)
ServerMsgs == {"AuthOk", "AuthErr", "TunnelAck", "StreamOpen", "Pong", "Busy",
               "Refused", "IdleTimeout", "Revoked"}

ASSUME NoneAssumption == None \notin ServerMsgs

ServerPhases == {"auth", "check", "welcome", "top", "select", "register", "reply",
                 "write", "revoke", "cleanup", "closed"}

ClientPhases == {"connected", "auth", "authenticated", "half", "register", "run",
                 "retry", "failed", "unexpected", "stopped"}

Init ==
  /\ server = "auth" /\ out = None /\ half = FALSE /\ desync = FALSE /\ seen = 0
  /\ chan = <<>> /\ registered = FALSE /\ reaped = FALSE
  /\ client = "connected" /\ pings = 0
  /\ up = TRUE /\ c2s = <<>> /\ s2c = <<>>
  /\ request = [r \in Requests |-> "idle"]
  /\ revoked \in BOOLEAN /\ epoch = 0 /\ cancel = FALSE
  /\ late = 0

-----------------------------------------------------------------------------
(* The server writes to the control stream: it waits while the transport   *)
(* has no room, and fails once the connection is gone.                     *)
CanWrite == ~up \/ Len(s2c) < Window
Written(m) == s2c' = IF up THEN Append(s2c, m) ELSE s2c

(* handle_client before its loop.  Five seconds without Auth, or a read    *)
(* error: the driver is aborted.                                           *)
AuthTimeout ==
  /\ server = "auth"
  /\ server' = "closed" /\ up' = FALSE
  /\ UNCHANGED <<out, half, desync, seen, tunnelVars, clientVars, c2s, s2c, adminVars, late>>

(* Another message first, another protocol version, a token that is not in *)
(* the allowlist or is invalid.                                            *)
AuthReject ==
  /\ server = "auth" /\ c2s # <<>> /\ CanWrite
  /\ c2s' = Tail(c2s) /\ Written("AuthErr")
  /\ server' = "closed" /\ up' = FALSE
  /\ UNCHANGED <<out, half, desync, seen, tunnelVars, clientVars, adminVars, late>>

AuthAccept ==
  /\ server = "auth" /\ c2s # <<>>
  /\ c2s' = Tail(c2s) /\ server' = "check"
  /\ UNCHANGED <<out, half, desync, seen, tunnelVars, clientVars, up, s2c, adminVars, late>>

(* is_jti_revoked, the first time. *)
AuthCheck ==
  /\ server = "check" /\ CanWrite
  /\ IF revoked
     THEN server' = "closed" /\ up' = FALSE /\ Written("AuthErr")
     ELSE server' = "welcome" /\ UNCHANGED <<up, s2c>>
  /\ UNCHANGED <<out, half, desync, seen, tunnelVars, clientVars, c2s, adminVars, late>>

(* AuthOk is written; then the session subscribes to the epoch: reloads so *)
(* far count as seen.                                                      *)
Welcome ==
  /\ server = "welcome" /\ CanWrite
  /\ Written("AuthOk")
  /\ server' = IF up THEN "top" ELSE "closed"
  /\ seen' = epoch
  /\ UNCHANGED <<out, half, desync, tunnelVars, clientVars, up, c2s, adminVars, late>>

(* Mutant: only the epoch tells of a revocation. *)
LoopTopUnchecked ==
  /\ server = "top" /\ server' = "select"
  /\ UNCHANGED <<out, half, desync, seen, tunnelVars, clientVars, linkVars, adminVars, late>>

(* The check at the top of the loop. *)
LoopTop ==
  /\ server = "top"
  /\ server' = IF revoked THEN "revoke" ELSE "select"
  /\ UNCHANGED <<out, half, desync, seen, tunnelVars, clientVars, linkVars, adminVars, late>>

-----------------------------------------------------------------------------
(* The branches of select!.  Taking one drops the pending futures of the   *)
(* others: a read that has its length but not its body loses the length.   *)

DropRead == half' = FALSE /\ desync' = (desync \/ half)

(* The read makes progress without completing. *)
ReadLength ==
  /\ server = "select" /\ ~half /\ ~desync
  /\ c2s # <<>> /\ Head(c2s) = "Length"
  /\ c2s' = Tail(c2s) /\ half' = TRUE
  /\ UNCHANGED <<server, out, desync, seen, tunnelVars, clientVars, up, s2c, adminVars, late>>

(* A whole message: handle_control_msg starts. *)
ReadMsg(m) ==
  /\ server = "select" /\ ~desync
  /\ c2s # <<>> /\ Head(c2s) = m
  /\ m = "TunnelRequest" => half
  /\ c2s' = Tail(c2s) /\ half' = FALSE
  /\ late' = IF revoked THEN late + 1 ELSE late
  /\ IF m = "Ping" THEN server' = "reply" /\ out' = "Pong"
                   ELSE server' = "register" /\ UNCHANGED out
  /\ UNCHANGED <<desync, seen, tunnelVars, clientVars, up, s2c, adminVars>>

(* The connection is gone, or the bytes of a body were read as a length    *)
(* (its first byte makes that more than the one megabyte allowed).         *)
ReadErr ==
  /\ server = "select"
  /\ ~up \/ (desync /\ c2s # <<>>)
  /\ server' = "cleanup"
  /\ UNCHANGED <<out, half, desync, seen, tunnelVars, clientVars, linkVars, adminVars, late>>

SelectSend ==
  /\ server = "select" /\ chan # <<>>
  /\ server' = "write" /\ out' = Head(chan) /\ chan' = Tail(chan)
  /\ DropRead
  /\ UNCHANGED <<seen, registered, reaped, request, clientVars, linkVars, adminVars, late>>

(* Mutant: the shutdown is looked at only while messages are queued. *)
SelectCancelWhenBusy ==
  /\ server = "select" /\ cancel /\ chan # <<>>
  /\ server' = "cleanup"
  /\ UNCHANGED <<out, half, desync, seen, tunnelVars, clientVars, linkVars, adminVars, late>>

SelectCancel ==
  /\ server = "select" /\ cancel
  /\ server' = "cleanup"
  /\ UNCHANGED <<out, half, desync, seen, tunnelVars, clientVars, linkVars, adminVars, late>>

SelectEpoch ==
  /\ server = "select" /\ seen # epoch
  /\ seen' = epoch
  /\ server' = IF revoked THEN "revoke" ELSE "top"
  /\ DropRead
  /\ UNCHANGED <<out, tunnelVars, clientVars, linkVars, adminVars, late>>

WriteOut ==
  /\ server = "write" /\ CanWrite
  /\ Written(out)
  /\ server' = IF up THEN "top" ELSE "cleanup"
  /\ out' = None
  /\ UNCHANGED <<half, desync, seen, tunnelVars, clientVars, up, c2s, adminVars, late>>

(* Error 401, best effort. *)
WriteRevoked ==
  /\ server = "revoke" /\ CanWrite
  /\ Written("Revoked")
  /\ server' = "cleanup"
  /\ UNCHANGED <<out, half, desync, seen, tunnelVars, clientVars, up, c2s, adminVars, late>>

(* TunnelRequest: an error answer, or the tunnel is published before the   *)
(* TunnelAck is queued.                                                    *)
RefuseTunnel(m) ==
  /\ server = "register"
  /\ server' = "reply" /\ out' = m
  /\ UNCHANGED <<half, desync, seen, tunnelVars, clientVars, linkVars, adminVars, late>>

(* Mutant: the result of register_tunnel is not looked at. *)
PublishTunnelUnchecked ==
  /\ server = "register"
  /\ server' = "reply" /\ out' = "TunnelAck"
  /\ UNCHANGED <<half, desync, seen, tunnelVars, clientVars, linkVars, adminVars, late>>

PublishTunnel ==
  /\ server = "register"
  /\ server' = "reply" /\ out' = "TunnelAck" /\ registered' = TRUE
  /\ UNCHANGED <<half, desync, seen, chan, reaped, request, clientVars, linkVars, adminVars, late>>

(* Mutant: try_send, as the reaper does. *)
QueueReplyOrDrop ==
  /\ server = "reply"
  /\ chan' = IF Len(chan) < ControlCap THEN Append(chan, out) ELSE chan
  /\ server' = "top" /\ out' = None
  /\ UNCHANGED <<half, desync, seen, registered, reaped, request, clientVars, linkVars, adminVars, late>>

(* control_tx.send(..).await inside the handler: it waits for room in the  *)
(* channel that only this task empties.                                    *)
QueueReply ==
  /\ server = "reply" /\ Len(chan) < ControlCap
  /\ chan' = Append(chan, out)
  /\ server' = "top" /\ out' = None
  /\ UNCHANGED <<half, desync, seen, registered, reaped, request, clientVars, linkVars, adminVars, late>>

(* Mutant: the tunnels stay. *)
CleanupForgetting ==
  /\ server = "cleanup"
  /\ server' = "closed" /\ up' = FALSE
  /\ UNCHANGED <<out, half, desync, seen, tunnelVars, clientVars, c2s, s2c, adminVars, late>>

(* After the loop: tunnels are removed, the driver is aborted, control_rx  *)
(* is dropped.                                                             *)
Cleanup ==
  /\ server = "cleanup"
  /\ server' = "closed" /\ registered' = FALSE /\ up' = FALSE
  /\ UNCHANGED <<out, half, desync, seen, chan, reaped, request, clientVars, c2s, s2c, adminVars, late>>

-----------------------------------------------------------------------------
(* Tasks of the server that hold the session's control_tx. *)

(* request_proxy_stream for a request that found the published tunnel. *)
RequestArrives(r) ==
  /\ request[r] = "idle" /\ registered
  /\ request' = [request EXCEPT ![r] = "sending"]
  /\ UNCHANGED <<serverVars, chan, registered, reaped, clientVars, linkVars, adminVars, late>>

StreamOpenSent(r) ==
  /\ request[r] = "sending" /\ server # "closed" /\ Len(chan) < ControlCap
  /\ chan' = Append(chan, "StreamOpen")
  /\ request' = [request EXCEPT ![r] = "sent"]
  /\ UNCHANGED <<serverVars, registered, reaped, clientVars, linkVars, adminVars, late>>

(* Mutant: somebody keeps the receiver alive after the session. *)
StreamOpenFailsLater(r) ==
  /\ request[r] = "sending" /\ server = "closed" /\ registered
  /\ request' = [request EXCEPT ![r] = "failed"]
  /\ UNCHANGED <<serverVars, chan, registered, reaped, clientVars, linkVars, adminVars, late>>

(* The channel is closed, *)
StreamOpenFails(r) ==
  /\ request[r] = "sending" /\ server = "closed"
  /\ request' = [request EXCEPT ![r] = "failed"]
  /\ UNCHANGED <<serverVars, chan, registered, reaped, clientVars, linkVars, adminVars, late>>

(* or the visitor hangs up, which drops the handler. *)
VisitorLeaves(r) ==
  /\ request[r] = "sending"
  /\ request' = [request EXCEPT ![r] = "failed"]
  /\ UNCHANGED <<serverVars, chan, registered, reaped, clientVars, linkVars, adminVars, late>>

(* reap_idle_tunnels: Error 408 goes out with try_send, lost when full. *)
ReapTunnel ==
  /\ registered
  /\ registered' = FALSE /\ reaped' = TRUE
  /\ chan' = IF Len(chan) < ControlCap THEN Append(chan, "IdleTimeout") ELSE chan
  /\ UNCHANGED <<serverVars, request, clientVars, linkVars, adminVars, late>>

(* reload_revoked_jtis: blocklist and epoch change under the write lock. *)
Reload(listed) ==
  /\ epoch < MaxReloads
  /\ revoked' = listed /\ epoch' = epoch + 1
  /\ late' = 0
  /\ UNCHANGED <<serverVars, tunnelVars, clientVars, linkVars, cancel>>

Shutdown ==
  /\ ~cancel /\ cancel' = TRUE
  /\ UNCHANGED <<serverVars, tunnelVars, clientVars, linkVars, revoked, epoch, late>>

-----------------------------------------------------------------------------
(* The client of one connection: authenticate_and_register, run_session.   *)

Ended == client \in {"retry", "failed", "unexpected", "stopped"}

ClientWrites(from, to, frame) ==
  /\ client = from /\ up /\ Len(c2s) < Window
  /\ client' = to /\ c2s' = Append(c2s, frame)
  /\ UNCHANGED <<serverVars, tunnelVars, pings, up, s2c, adminVars, late>>

ClientAuth == ClientWrites("connected", "auth", "Auth")
ClientLength == ClientWrites("authenticated", "half", "Length")
ClientBody == ClientWrites("half", "register", "TunnelRequest")

(* The session is aborted unless the client goes on. *)
ClientMoves(to) ==
  /\ client' = to
  /\ up' = (up /\ to \in {"authenticated", "run"})
  /\ UNCHANGED <<serverVars, tunnelVars, pings, c2s, adminVars, late>>

(* classify_auth_response *)
ClientAuthResponse ==
  /\ client = "auth" /\ s2c # <<>>
  /\ s2c' = Tail(s2c)
  /\ ClientMoves(IF Head(s2c) = "AuthOk" THEN "authenticated" ELSE "failed")

(* classify_registration_response *)
Classify(m) ==
  CASE m = "TunnelAck" -> "run"
    [] m = "Busy" -> "retry"
    [] m \in {"Refused", "IdleTimeout", "Revoked"} -> "failed"
    [] OTHER -> "unexpected"

ClientRegistrationResponse ==
  /\ client = "register" /\ s2c # <<>>
  /\ s2c' = Tail(s2c)
  /\ ClientMoves(Classify(Head(s2c)))

(* HANDSHAKE_TIMEOUT *)
ClientTimeout ==
  /\ client \in {"auth", "register"}
  /\ ClientMoves("retry") /\ UNCHANGED s2c

(* Mutant: heartbeats with write_msg_to_stream, in two writes. *)
ClientPingSplit ==
  /\ client = "run" /\ up /\ pings < MaxPings /\ Len(c2s) + 1 < Window
  /\ pings' = pings + 1 /\ c2s' = c2s \o <<"Length", "Ping">>
  /\ UNCHANGED <<serverVars, tunnelVars, client, up, s2c, adminVars, late>>

(* run_session: heartbeats, and every message is read. *)
ClientPing ==
  /\ client = "run" /\ up /\ pings < MaxPings /\ Len(c2s) < Window
  /\ pings' = pings + 1 /\ c2s' = Append(c2s, "Ping")
  /\ UNCHANGED <<serverVars, tunnelVars, client, up, s2c, adminVars, late>>

ClientReads ==
  /\ client = "run" /\ s2c # <<>>
  /\ s2c' = Tail(s2c)
  /\ UNCHANGED <<serverVars, tunnelVars, clientVars, up, c2s, adminVars, late>>

ClientLost == ~up /\ ~Ended /\ ClientMoves("retry") /\ UNCHANGED s2c
ClientStops == ~Ended /\ ClientMoves("stopped") /\ UNCHANGED s2c

LinkDown ==
  /\ up /\ up' = FALSE
  /\ UNCHANGED <<serverVars, tunnelVars, clientVars, c2s, s2c, adminVars, late>>

-----------------------------------------------------------------------------
SelectStep ==
  \/ ReadLength \/ (\E m \in {"TunnelRequest", "Ping"} : ReadMsg(m)) \/ ReadErr
  \/ SelectSend \/ SelectCancel \/ SelectEpoch

ServerStep ==
  \/ AuthTimeout \/ AuthReject \/ AuthAccept \/ AuthCheck \/ Welcome
  \/ LoopTop \/ SelectStep \/ WriteOut \/ WriteRevoked
  \/ (\E m \in {"Busy", "Refused"} : RefuseTunnel(m)) \/ PublishTunnel
  \/ QueueReply \/ Cleanup

ClientStep ==
  \/ ClientAuth \/ ClientLength \/ ClientBody
  \/ ClientAuthResponse \/ ClientRegistrationResponse
  \/ ClientReads \/ ClientLost

RequestStep(r) == StreamOpenSent(r) \/ StreamOpenFails(r)

Next ==
  \/ ServerStep \/ ClientStep
  \/ ClientTimeout \/ ClientPing \/ ClientStops \/ LinkDown
  \/ \E r \in Requests : RequestArrives(r) \/ RequestStep(r) \/ VisitorLeaves(r)
  \/ ReapTunnel \/ Shutdown \/ \E listed \in BOOLEAN : Reload(listed)

Spec == Init /\ [][Next]_vars

(* Tokio polls every ready task again.  Which ready branch select! takes   *)
(* is left open.  Nobody has to connect, ping, hang up, reap or revoke.    *)
Fairness ==
  /\ WF_vars(ServerStep) /\ WF_vars(ClientStep)
  /\ \A r \in Requests : WF_vars(RequestStep(r))

FairSpec == Spec /\ Fairness

-----------------------------------------------------------------------------
FlagsOK ==
  /\ half \in BOOLEAN /\ desync \in BOOLEAN
  /\ registered \in BOOLEAN /\ reaped \in BOOLEAN
  /\ up \in BOOLEAN /\ revoked \in BOOLEAN /\ cancel \in BOOLEAN

StreamsOK ==
  /\ c2s \in Seq(ClientFrames) /\ s2c \in Seq(ServerMsgs)
  /\ chan \in Seq(ServerMsgs) /\ Len(chan) <= ControlCap
  /\ out \in ServerMsgs \cup {None}
  /\ server \in {"reply", "write"} => out \in ServerMsgs

PhasesOK ==
  /\ server \in ServerPhases /\ client \in ClientPhases
  /\ request \in [Requests -> {"idle", "sending", "sent", "failed"}]
  /\ pings \in 0..MaxPings /\ epoch \in 0..MaxReloads /\ seen \in 0..epoch
  /\ late \in Nat

TypeOK == FlagsOK /\ StreamsOK /\ PhasesOK

(* control.rs:284 "Catch a revocation reload that raced the next select    *)
(* call": select! picks among ready branches at random, so the message of  *)
(* a revoked client can still win over the epoch change, but only one.     *)
AtMostOneAfterRevocation == late <= 1

(* The server task waits for room in the queue it should be emptying. *)
Stuck == server = "reply" /\ Len(chan) = ControlCap

(* control.rs:648, 633: once handle_client waits for room in its own full  *)
(* queue nothing ends that wait: not the client, not a closed connection,  *)
(* not a revocation, not the shutdown.                                     *)
StuckForever == [][Stuck => Stuck']_vars

(* docs/rgrok-spec.md:482 "On client disconnect: remove all tunnel         *)
(* registrations", for the control loop as it is.                          *)
DisconnectCleansUp == ~up ~> ~registered

(* The same, once the wait on the task's own queue is set apart: nothing   *)
(* else keeps a lost client's tunnel published.                            *)
DisconnectCleansUpUnlessStuck == ~up ~> (~registered \/ Stuck)

(* A revocation that is not withdrawn, and the shutdown, end the session,   *)
(* whichever step of handle_client they race: the check before AuthOk, the *)
(* subscription to the epoch (control.rs:285), the check at the top of the *)
(* loop, the select (control.rs:317) or a handler.                         *)
EndIsHeard ==
  /\ revoked ~> (~revoked \/ server = "closed" \/ Stuck)
  /\ cancel ~> (server = "closed" \/ Stuck)

(* proxy.rs:1043: no public request waits for ever to hand its StreamOpen  *)
(* to the control task, whether the session serves it, ends or dies.       *)
StreamOpenEnds == \A r \in Requests : request[r] = "sending" ~> (request[r] # "sending" \/ Stuck)

(* control.rs:556, 633: a client that got its TunnelAck has a tunnel that  *)
(* is published, unless the reaper closed it or the session is over.       *)
RunningMeansPublished ==
  client = "run" => registered \/ reaped \/ server \in {"cleanup", "closed"}

(* control.rs:301: the read in select! is dropped when another branch wins.*)
(* It loses half a message only while the client registers, never of a     *)
(* running session: queued messages cannot exist before the registration,  *)
(* and the running client writes each message at once.                     *)
DesyncOnlyWhileRegistering == desync => client # "run"

(* docs/rgrok-spec.md:717 "Expect TunnelAck": what the client reads after  *)
(* its TunnelRequest is an answer to that request.                         *)
AnswerComesFirst == client # "unexpected"

-----------------------------------------------------------------------------
(* The inductive invariant behind the last properties.                     *)

Occurs(m, seq) == \E i \in 1..Len(seq) : seq[i] = m

(* A TunnelAck exists: on its way, or read by the client. *)
Acked ==
  client = "run" \/ out = "TunnelAck" \/ Occurs("TunnelAck", chan) \/ Occurs("TunnelAck", s2c)

AckInv == Acked => registered \/ reaped \/ server \in {"cleanup", "closed"}

(* The client's request has not been read in full. *)
Unread ==
  \/ client \in {"connected", "auth", "authenticated", "half"}
  \/ half \/ desync
  \/ Occurs("Length", c2s) \/ Occurs("TunnelRequest", c2s)

UnreadInv == Unread => ~Acked /\ server # "register"

(* The client sends one request, and nothing after it until it is answered. *)
RequestInv ==
  /\ \A i \in 1..Len(c2s) : c2s[i] = "TunnelRequest" =>
       i = Len(c2s) /\ client \notin {"connected", "auth", "authenticated", "half"}
  /\ \A i \in 1..Len(c2s) : c2s[i] = "Length" =>
       client \notin {"connected", "auth", "authenticated"}
  /\ half \/ desync => client \notin {"connected", "auth", "authenticated"}

(* control.rs:283-339, tunnel.rs:308-368: how far the two ends of the      *)
(* registration handshake can be apart.                                    *)
HandshakeInv == AckInv /\ UnreadInv /\ RequestInv

=============================================================================
