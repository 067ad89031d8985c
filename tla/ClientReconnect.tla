--------------------------- MODULE ClientReconnect --------------------------
(***************************************************************************)
(* The client's outer life (tunnel.rs, run): connect with retries, register*)
(* its tunnel, run it, and come back after a failure with a growing delay, *)
(* asking for the endpoint it had before.  The server is reduced to who    *)
(* holds each endpoint; it may notice a dead session late, and other       *)
(* clients may take what is free.                                          *)
(***************************************************************************)
EXTENDS Integers

CONSTANTS
  Endpoints,        \* subdomains or ports
  InitialDelay,     \* INITIAL_RECONNECT_DELAY, 1 s
  MaxDelay,         \* MAX_RECONNECT_DELAY, 60 s
  MaxAttempts,      \* MAX_CONNECT_ATTEMPTS, 10
  NoEndpoint

ASSUME ReconnectAssumption ==
  /\ InitialDelay \in Nat \ {0} /\ MaxDelay \in Nat /\ InitialDelay <= MaxDelay
  /\ MaxAttempts \in Nat \ {0}
  /\ NoEndpoint \notin Endpoints

VARIABLES
  phase,       \* where run is
  attempt,     \* of connect_with_retry_inner
  retry,       \* its ReconnectBackoff.next
  backoff,     \* the ReconnectBackoff.next of run
  pinned,      \* the subdomain or port in tunnel_cfg
  printed,     \* the endpoint shown to the user
  shutdown,    \* Ctrl-C
  holder,      \* the server's view of each endpoint
  gone,        \* history: what the server did to the session's tunnel
  reachable    \* the server answers

dials == <<attempt, retry>>
shown == <<pinned, printed>>
world == <<holder, gone, reachable>>
loopVars == <<phase, dials, backoff, shown, shutdown, world>>

(* "hung" is a connect_async that gets no answer, "teardown" and           *)
(* "quitting" are the joins behind the loop of run_session and the         *)
(* session.abort of an interrupted handshake.                              *)
Phases == {"connect", "hung", "retry", "handshake", "run", "teardown", "wait",
           "quitting", "exit", "rejected"}

(* "mine" is held by the client's current session, "stale" by an earlier   *)
(* session of this client that the server has not cleaned up, "stuck" by   *)
(* one it never will (its task waits on its own queue), "other" by others. *)
Holders == {"free", "mine", "stale", "stuck", "other"}

(* The user may ask for an endpoint. *)
LoopInit ==
  /\ phase = "connect" /\ attempt = 1 /\ retry = InitialDelay /\ backoff = InitialDelay
  /\ pinned \in Endpoints \cup {NoEndpoint} /\ printed = NoEndpoint
  /\ shutdown = FALSE
  /\ holder \in [Endpoints -> {"free", "other"}] /\ gone = "no"
  /\ reachable \in BOOLEAN

(* ReconnectBackoff::next_delay *)
Doubled(d) == IF 2 * d < MaxDelay THEN 2 * d ELSE MaxDelay

-----------------------------------------------------------------------------
(* connect_with_retry_inner *)

ConnectOk ==
  /\ phase = "connect" /\ reachable
  /\ phase' = "handshake"
  /\ UNCHANGED <<dials, backoff, shown, shutdown, world>>

AttemptFails ==
  /\ IF attempt = MaxAttempts
     THEN phase' = "wait" /\ backoff' = Doubled(backoff) /\ UNCHANGED dials
     ELSE phase' = "retry" /\ retry' = Doubled(retry) /\ UNCHANGED <<attempt, backoff>>
  /\ UNCHANGED <<shown, shutdown, world>>

ConnectFails == phase = "connect" /\ ~reachable /\ AttemptFails

(* The peer falls silent during connect_async, which has no time limit. *)
ConnectHangs ==
  /\ phase = "connect" /\ ~reachable
  /\ phase' = "hung"
  /\ UNCHANGED <<dials, backoff, shown, shutdown, world>>

HungFails == phase = "hung" /\ AttemptFails

RetryElapsed ==
  /\ phase = "retry"
  /\ phase' = "connect" /\ attempt' = attempt + 1
  /\ UNCHANGED <<retry, backoff, shown, shutdown, world>>

-----------------------------------------------------------------------------
(* authenticate_and_register *)

Transient == phase' = "wait" /\ backoff' = Doubled(backoff)

Wanted(e) == IF pinned = NoEndpoint THEN TRUE ELSE e = pinned

(* The request may have been granted although the client never hears it:   *)
(* the TunnelAck is lost, late, or behind another message.                 *)
MaybeUnheard ==
  \/ UNCHANGED holder
  \/ \E e \in Endpoints, h \in {"stale", "stuck"} :
       Wanted(e) /\ holder[e] = "free" /\ holder' = [holder EXCEPT ![e] = h]

(* Mutant: the assigned endpoint is not pinned. *)
RegisteredUnpinned(e) ==
  /\ phase = "handshake" /\ Wanted(e) /\ holder[e] = "free"
  /\ holder' = [holder EXCEPT ![e] = "mine"] /\ gone' = "no"
  /\ phase' = "run"
  /\ printed' = IF printed = NoEndpoint THEN e ELSE printed
  /\ UNCHANGED <<dials, backoff, pinned, shutdown, reachable>>

(* TunnelAck: pin_assigned_endpoint, and the URL is printed once. *)
Registered(e) ==
  /\ phase = "handshake" /\ Wanted(e) /\ holder[e] = "free"
  /\ holder' = [holder EXCEPT ![e] = "mine"] /\ gone' = "no"
  /\ phase' = "run"
  /\ pinned' = IF pinned = NoEndpoint THEN e ELSE pinned
  /\ printed' = IF printed = NoEndpoint THEN e ELSE printed
  /\ UNCHANGED <<dials, backoff, shutdown, reachable>>

(* Mutant: a conflict is taken for a permanent failure. *)
TakenFatal ==
  /\ phase = "handshake" /\ \A e \in Endpoints : Wanted(e) => holder[e] # "free"
  /\ phase' = "exit"
  /\ UNCHANGED <<dials, backoff, shown, shutdown, world>>

(* Error 409 or 503: the endpoint, or every one, is taken. *)
Taken ==
  /\ phase = "handshake" /\ \A e \in Endpoints : Wanted(e) => holder[e] # "free"
  /\ Transient
  /\ UNCHANGED <<dials, shown, shutdown, world>>

(* A timeout, an i/o error, error 5xx. *)
HandshakeFails ==
  /\ phase = "handshake" /\ Transient /\ MaybeUnheard
  /\ UNCHANGED <<dials, shown, shutdown, gone, reachable>>

(* AuthErr, error 4xx or an unexpected answer: run returns the error. *)
Rejected ==
  /\ phase = "handshake" /\ phase' = "rejected" /\ MaybeUnheard
  /\ UNCHANGED <<dials, backoff, shown, shutdown, gone, reachable>>

-----------------------------------------------------------------------------
(* run_session *)

(* The control task, the driver or one of their channels ends. *)
SessionLost ==
  /\ phase = "run" /\ phase' = "teardown"
  /\ UNCHANGED <<dials, backoff, shown, shutdown, world>>

(* The connection is closed; the server has yet to see it. *)
Abandon ==
  \E h \in {"stale", "stuck"} :
    holder' = [e \in Endpoints |-> IF holder[e] = "mine" THEN h ELSE holder[e]]

(* Tasks aborted and joined; 30 seconds of session reset the delay. *)
TeardownDone(stable) ==
  /\ phase = "teardown" /\ phase' = "wait"
  /\ backoff' = Doubled(IF stable THEN InitialDelay ELSE backoff)
  /\ Abandon
  /\ UNCHANGED <<dials, shown, shutdown, gone, reachable>>

(* wait_for_reconnect; connect_with_retry_inner starts a fresh backoff.    *)
WaitElapsed ==
  /\ phase = "wait"
  /\ phase' = "connect" /\ attempt' = 1 /\ retry' = InitialDelay
  /\ UNCHANGED <<backoff, shown, shutdown, world>>

-----------------------------------------------------------------------------
(* The shutdown arm of each select!, raced by the other arms above. *)

(* Mutant: connect_async awaited on its own, Ctrl-C looked at before it. *)
InterruptConnectBefore ==
  /\ shutdown /\ phase = "connect" /\ phase' = "exit"
  /\ UNCHANGED <<dials, backoff, shown, shutdown, world>>

InterruptConnect ==
  /\ shutdown /\ phase \in {"connect", "hung"} /\ phase' = "exit"
  /\ UNCHANGED <<dials, backoff, shown, shutdown, world>>

(* wait_for_reconnect, between two attempts and between two sessions. *)
InterruptRetry ==
  /\ shutdown /\ phase = "retry" /\ phase' = "exit"
  /\ UNCHANGED <<dials, backoff, shown, shutdown, world>>

InterruptWait ==
  /\ shutdown /\ phase = "wait" /\ phase' = "exit"
  /\ UNCHANGED <<dials, backoff, shown, shutdown, world>>

(* establish_session drops the handshake wherever it is. *)
InterruptHandshake ==
  /\ shutdown /\ phase = "handshake" /\ phase' = "quitting" /\ MaybeUnheard
  /\ UNCHANGED <<dials, backoff, shown, shutdown, gone, reachable>>

InterruptRun ==
  /\ shutdown /\ phase = "run" /\ phase' = "quitting"
  /\ UNCHANGED <<dials, backoff, shown, shutdown, world>>

QuitDone ==
  /\ phase = "quitting" /\ phase' = "exit" /\ Abandon
  /\ UNCHANGED <<dials, backoff, shown, shutdown, gone, reachable>>

-----------------------------------------------------------------------------
(* The server, the other clients, the network and the user. *)

(* The server cleans a dead session up. *)
ServerNotices(e) ==
  /\ holder[e] = "stale" /\ holder' = [holder EXCEPT ![e] = "free"]
  /\ UNCHANGED <<phase, dials, backoff, shown, shutdown, gone, reachable>>

(* The server ends a session the client still has: a revoked token, the    *)
(* server's shutdown, a read error on its side only.                       *)
ServerEnds(e) ==
  /\ holder[e] = "mine" /\ holder' = [holder EXCEPT ![e] = "stale"] /\ gone' = "ended"
  /\ UNCHANGED <<phase, dials, backoff, shown, shutdown, reachable>>

(* reap_idle_tunnels takes the tunnel and not the session: the client logs *)
(* the error 408 and runs on.                                              *)
ReaperTakes(e) ==
  /\ holder[e] \in {"mine", "stale", "stuck"}
  /\ holder' = [holder EXCEPT ![e] = "free"]
  /\ gone' = IF holder[e] = "mine" THEN "reaped" ELSE gone
  /\ UNCHANGED <<phase, dials, backoff, shown, shutdown, reachable>>

OtherClient(e) ==
  /\ \/ holder[e] = "free" /\ holder' = [holder EXCEPT ![e] = "other"]
     \/ holder[e] = "other" /\ holder' = [holder EXCEPT ![e] = "free"]
  /\ UNCHANGED <<phase, dials, backoff, shown, shutdown, gone, reachable>>

Network ==
  /\ reachable' = ~reachable
  /\ UNCHANGED <<phase, dials, backoff, shown, shutdown, holder, gone>>

CtrlC ==
  /\ ~shutdown /\ shutdown' = TRUE
  /\ UNCHANGED <<phase, dials, backoff, shown, world>>

-----------------------------------------------------------------------------
ConnectStep == ConnectOk \/ ConnectFails \/ ConnectHangs \/ RetryElapsed \/ WaitElapsed

AnswerStep ==
  \/ \E e \in Endpoints : Registered(e)
  \/ Taken \/ HandshakeFails \/ Rejected

EndStep == QuitDone \/ \E stable \in BOOLEAN : TeardownDone(stable)

Interrupt ==
  \/ InterruptConnect \/ InterruptRetry \/ InterruptWait
  \/ InterruptHandshake \/ InterruptRun

EndpointStep(e) == ServerNotices(e) \/ ServerEnds(e) \/ ReaperTakes(e) \/ OtherClient(e)

LoopNext ==
  \/ ConnectStep \/ HungFails \/ AnswerStep \/ SessionLost \/ EndStep \/ Interrupt
  \/ \E e \in Endpoints : EndpointStep(e)
  \/ Network \/ CtrlC

LoopSpec == LoopInit /\ [][LoopNext]_loopVars

(* The client's timers fire, a handshake ends (at worst by its timeout)    *)
(* and succeeds if it can again and again, aborted tasks end, and the      *)
(* server cleans dead sessions up unless they are stuck.  select! polls    *)
(* its arms in random order, so an arm that is ready again and again wins  *)
(* in the end.                                                             *)
LoopFairness ==
  /\ WF_loopVars(ConnectStep) /\ WF_loopVars(AnswerStep) /\ WF_loopVars(EndStep)
  /\ SF_loopVars(InterruptConnect) /\ SF_loopVars(InterruptRetry)
  /\ SF_loopVars(InterruptWait) /\ SF_loopVars(InterruptHandshake)
  /\ SF_loopVars(InterruptRun)
  /\ \A e \in Endpoints : SF_loopVars(Registered(e)) /\ WF_loopVars(ServerNotices(e))

FairLoopSpec == LoopSpec /\ LoopFairness

-----------------------------------------------------------------------------
LoopTypeOK ==
  /\ phase \in Phases
  /\ attempt \in 1..MaxAttempts
  /\ retry \in InitialDelay..MaxDelay /\ backoff \in InitialDelay..MaxDelay
  /\ pinned \in Endpoints \cup {NoEndpoint} /\ printed \in Endpoints \cup {NoEndpoint}
  /\ shutdown \in BOOLEAN
  /\ holder \in [Endpoints -> Holders] /\ gone \in {"no", "reaped", "ended"}
  /\ reachable \in BOOLEAN

(* tunnel.rs:551 pin_assigned_endpoint: the address is printed once, so    *)
(* every session must run on that same one, however often the client comes *)
(* back and whoever is faster: it never holds another, and holds it as     *)
(* long as it runs, unless the server took it from the running client (the *)
(* reaper, tunnel_manager.rs:464, whose 408 the client only logs at        *)
(* tunnel.rs:501, or the end of the server's side of the session).         *)
PrintedAddressServes ==
  /\ \A e \in Endpoints : holder[e] = "mine" => e = printed
  /\ phase = "run" /\ gone = "no" => \E e \in Endpoints : e = printed /\ holder[e] = "mine"

(* docs/client-usage.md:215: "The process exits cleanly on Ctrl+C, closing *)
(* the tunnel."  Whichever select! hears it, whatever wins that race and   *)
(* however long a connect_async is silent, the process ends, and what it   *)
(* held at the server is given back, but for a session the server cannot   *)
(* clean up (SessionQueueDeadlock).                                        *)
ShutdownEndsClient ==
  shutdown ~> /\ phase \in {"exit", "rejected"}
              /\ \A e \in Endpoints : holder[e] \notin {"mine", "stale"}

(* The client comes back: with the server reachable and nobody else, and   *)
(* no stuck session, on its endpoint, a lost session is followed by        *)
(* another one, unless connect_async never answers (tunnel.rs:689).  The   *)
(* 409 that its own stale session causes must not be permanent.  However   *)
(* late the server is back: docs/rgrok-spec.md:691 says "1s, 2s, 4s ...    *)
(* 60s, then give up", but after its last attempt the code waits once more *)
(* and starts again, for ever (tunnel.rs:169-190).                         *)
Undisturbed == reachable /\ \A e \in Endpoints : holder[e] \notin {"other", "stuck"}

ComesBack ==
  <>[](Undisturbed /\ ~shutdown) =>
    \/ <>[](phase = "hung")
    \/ [](phase \in {"teardown", "wait"} => <>(phase \in {"run", "rejected"}))

=============================================================================
