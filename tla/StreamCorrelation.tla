-------------------------- MODULE StreamCorrelation -------------------------
(***************************************************************************)
(* Matching public requests with the data streams the client opens for     *)
(* them: request_proxy_stream (proxy.rs), the pending_streams map and the  *)
(* id counter of a connection (tunnel_manager.rs), the accept task         *)
(* (control.rs) and the client's open_proxy_stream (tunnel.rs).            *)
(*                                                                         *)
(* A StreamOpen and a stream carry only a correlation id.  Here each also  *)
(* carries the request it was made for, which no action reads.             *)
(***************************************************************************)
EXTENDS Integers, FiniteSets

CONSTANTS
  Requests,    \* public requests of one connection
  IdSpace,     \* number of correlation ids, 2^32 in the code
  QueueCap,    \* capacity of the control channel, 64 in the code
  None

ASSUME IdSpaceAssumption ==
  /\ IdSpace \in Nat \ {0}
  /\ QueueCap \in Nat \ {0}
  /\ IsFiniteSet(Requests) /\ Cardinality(Requests) <= IdSpace
  /\ None \notin Requests

CorrelationIds == 0 .. (IdSpace - 1)

VARIABLES
  next_correlation_id,
  pending_streams,  \* id -> the request whose oneshot sender is stored
  state,            \* the task of each request
  id,               \* the id it drew
  slot,             \* the stream its oneshot receiver holds
  opens,            \* StreamOpen messages on their way, by request
  streams,          \* data streams opened and not yet looked at, by request
  resolving,        \* streams whose sender left the map: request -> receiver
  control_rx,       \* StreamOpens in the connection's channel, by request
  session           \* the control task, handle_client

control == <<control_rx, session>>

vars == <<next_correlation_id, pending_streams, state, id, slot, opens, streams,
          resolving, control>>

(* A connection may have served any number of requests before these. *)
Init ==
  /\ next_correlation_id \in CorrelationIds
  /\ pending_streams = [i \in CorrelationIds |-> None]
  /\ state = [r \in Requests |-> "idle"]
  /\ id = [r \in Requests |-> None]
  /\ slot = [r \in Requests |-> None]
  /\ opens = {} /\ streams = {}
  /\ resolving = [r \in Requests |-> None]
  /\ control_rx = {} /\ session = "running"

-----------------------------------------------------------------------------
(* Mutant: two requests can load the same id. *)
DrawSameId(r) ==
  /\ state[r] = "idle"
  /\ state' = [state EXCEPT ![r] = "opening"]
  /\ id' = [id EXCEPT ![r] = next_correlation_id]
  /\ pending_streams' = [pending_streams EXCEPT ![next_correlation_id] = r]
  /\ UNCHANGED <<next_correlation_id, slot, opens, streams, resolving, control>>

(* request_proxy_stream: draw an id, store the sender, *)
Draw(r) ==
  /\ state[r] = "idle"
  /\ state' = [state EXCEPT ![r] = "opening"]
  /\ id' = [id EXCEPT ![r] = next_correlation_id]
  /\ next_correlation_id' = (next_correlation_id + 1) % IdSpace
  /\ pending_streams' = [pending_streams EXCEPT ![next_correlation_id] = r]
  /\ UNCHANGED <<slot, opens, streams, resolving, control>>

(* wait, without a limit, for room in the channel and queue the StreamOpen, *)
SendOpen(r) ==
  /\ state[r] = "opening" /\ session # "closed"
  /\ Cardinality(control_rx) < QueueCap
  /\ state' = [state EXCEPT ![r] = "waiting"]
  /\ control_rx' = control_rx \cup {r}
  /\ UNCHANGED <<next_correlation_id, pending_streams, id, slot, opens, streams,
                 resolving, session>>

(* Mutant: the whole map is cleared. *)
ForgetAll(r) == pending_streams' = [i \in CorrelationIds |-> None]

(* or give up because the control channel is closed; *)
Forget(r) == pending_streams' = [pending_streams EXCEPT ![id[r]] = None]

SendOpenFails(r) ==
  /\ state[r] = "opening" /\ session = "closed"
  /\ state' = [state EXCEPT ![r] = "failed"]
  /\ Forget(r)
  /\ UNCHANGED <<next_correlation_id, id, slot, opens, streams, resolving, control>>

(* wait up to ten seconds for the stream. *)
Served(r) ==
  /\ state[r] = "waiting" /\ slot[r] # None
  /\ state' = [state EXCEPT ![r] = "served"]
  /\ UNCHANGED <<next_correlation_id, pending_streams, id, slot, opens, streams, resolving, control>>

(* Mutant: the entry stays after the timeout. *)
TimeoutKeepingEntry(r) ==
  /\ state[r] = "waiting" /\ slot[r] = None
  /\ state' = [state EXCEPT ![r] = "failed"]
  /\ UNCHANGED <<next_correlation_id, pending_streams, id, slot, opens, streams, resolving, control>>

Timeout(r) ==
  /\ state[r] = "waiting" /\ slot[r] = None
  /\ state' = [state EXCEPT ![r] = "failed"]
  /\ Forget(r)
  /\ UNCHANGED <<next_correlation_id, id, slot, opens, streams, resolving, control>>

(* The future is dropped where it stands: the TCP tunnel is cancelled, or  *)
(* the visitor of an HTTP tunnel disconnects.                              *)
Dropped(r) ==
  /\ state[r] \in {"opening", "waiting"}
  /\ state' = [state EXCEPT ![r] = "dropped"]
  /\ UNCHANGED <<next_correlation_id, pending_streams, id, slot, opens, streams, resolving, control>>

-----------------------------------------------------------------------------
(* handle_client takes a message out of its channel and writes it to the   *)
(* client,                                                                 *)
Forward(r) ==
  /\ r \in control_rx /\ session = "running"
  /\ control_rx' = control_rx \ {r}
  /\ opens' = opens \cup {r}
  /\ UNCHANGED <<next_correlation_id, pending_streams, state, id, slot, streams,
                 resolving, session>>

(* or, answering the client, waits for room in the channel it alone drains:*)
(* for ever, once that is full (see ControlSession).                       *)
SessionStuck ==
  /\ session = "running" /\ Cardinality(control_rx) = QueueCap
  /\ session' = "stuck"
  /\ UNCHANGED <<next_correlation_id, pending_streams, state, id, slot, opens, streams,
                 resolving, control_rx>>

(* The client: one task per StreamOpen, which opens a stream and writes    *)
(* the id.  Opening may fail and a stream may be lost.                     *)
ClientOpens(r) ==
  /\ r \in opens /\ session # "closed"
  /\ opens' = opens \ {r}
  /\ streams' = streams \cup {r}
  /\ UNCHANGED <<next_correlation_id, pending_streams, state, id, slot, resolving, control>>

OpenLost(r) ==
  /\ r \in opens
  /\ opens' = opens \ {r}
  /\ UNCHANGED <<next_correlation_id, pending_streams, state, id, slot, streams, resolving, control>>

(* handle_proxy_data_stream: five seconds without an id. *)
StreamDropped(r) ==
  /\ r \in streams
  /\ streams' = streams \ {r}
  /\ UNCHANGED <<next_correlation_id, pending_streams, state, id, slot, opens, resolving, control>>

(* resolve_pending_stream takes the sender out of the map, *)
Resolve(r) ==
  /\ r \in streams
  /\ streams' = streams \ {r}
  /\ resolving' = [resolving EXCEPT ![r] = pending_streams[id[r]]]
  /\ pending_streams' = [pending_streams EXCEPT ![id[r]] = None]
  /\ UNCHANGED <<next_correlation_id, state, id, slot, opens, control>>

(* and sends: the stream is dropped when the receiver is gone. *)
Deliver(r) ==
  /\ resolving[r] # None
  /\ slot' = IF state[resolving[r]] = "waiting"
             THEN [slot EXCEPT ![resolving[r]] = r] ELSE slot
  /\ resolving' = [resolving EXCEPT ![r] = None]
  /\ UNCHANGED <<next_correlation_id, pending_streams, state, id, opens, streams, control>>

(* The session ends: its end of the channel goes, with the messages in it, *)
(* and the accept task and the driver are aborted.                         *)
Close ==
  /\ session = "running" /\ session' = "closed"
  /\ control_rx' = {} /\ streams' = {}
  /\ UNCHANGED <<next_correlation_id, pending_streams, state, id, slot, opens, resolving>>

-----------------------------------------------------------------------------
RequestStep(r) == SendOpen(r) \/ SendOpenFails(r) \/ Served(r) \/ Timeout(r)
AcceptStep(r) == Resolve(r) \/ Deliver(r)

Next ==
  \/ \E r \in Requests :
       \/ Draw(r) \/ RequestStep(r) \/ Dropped(r)
       \/ Forward(r) \/ ClientOpens(r) \/ OpenLost(r)
       \/ AcceptStep(r) \/ StreamDropped(r)
  \/ SessionStuck \/ Close

Spec == Init /\ [][Next]_vars

(* The tasks of requests, of accepted streams and of the session are       *)
(* polled; the timers fire; the connection takes what the session writes.  *)
(* The client owes nothing else.                                           *)
Fairness ==
  \A r \in Requests :
    WF_vars(RequestStep(r)) /\ WF_vars(AcceptStep(r)) /\ WF_vars(Forward(r))

FairSpec == Spec /\ Fairness

-----------------------------------------------------------------------------
States == {"idle", "opening", "waiting", "served", "failed", "dropped"}

TypeOK ==
  /\ next_correlation_id \in CorrelationIds
  /\ pending_streams \in [CorrelationIds -> Requests \cup {None}]
  /\ state \in [Requests -> States]
  /\ id \in [Requests -> CorrelationIds \cup {None}]
  /\ slot \in [Requests -> Requests \cup {None}]
  /\ opens \subseteq Requests /\ streams \subseteq Requests
  /\ resolving \in [Requests -> Requests \cup {None}]
  /\ control_rx \subseteq Requests
  /\ session \in {"running", "stuck", "closed"}

(* control.rs:260 "an inbound stream can never resolve a request belonging *)
(* to another": whatever is late, lost or reordered, and across the wrap   *)
(* of the counter, the stream that serves a request was opened for it.     *)
ServedByOwnStream == \A r \in Requests : slot[r] # None => slot[r] = r

(* proxy.rs:1037, 1060: a waiting request can still be found by its        *)
(* stream.  No other request's timeout or failure removes its entry.       *)
WaitingIsReachable ==
  \A r \in Requests : state[r] \in {"opening", "waiting"} /\ slot[r] = None =>
    pending_streams[id[r]] = r \/ resolving[r] = r

HasEntry(r) == \E i \in CorrelationIds : pending_streams[i] = r

(* How a request can end: without an entry; dropped, with an entry and no  *)
(* stream that would take it away; or never, in its send.                  *)
Clean(r) == state[r] \in {"served", "failed", "dropped"} /\ ~HasEntry(r)
Leaked(r) == state[r] = "dropped" /\ HasEntry(r) /\ r \notin streams
Blocked(r) == state[r] = "opening" /\ session = "stuck" /\ Cardinality(control_rx) = QueueCap

(* docs/rgrok-spec.md:424 "Entries are removed on timeout (10s) to prevent *)
(* leaks", proxy.rs:1032-1064: however a request for a stream ends, served,*)
(* failed or dropped, also when the session dies between StreamOpen and    *)
(* the stream, its entry goes with it for good, with two exceptions, which *)
(* are the only ones.  It waits for ever, because control_tx.send has no   *)
(* time limit and the session is stuck on its full channel.  Or its future *)
(* is dropped at an await (proxy.rs:1111, or a visitor hangs up) and so    *)
(* never reaches the removal at proxy.rs:1052 or 1060: then the entry      *)
(* stays for the life of the connection, against the document, if no       *)
(* stream comes to take it away.                                           *)
RequestEndsClean ==
  \A r \in Requests :
    state[r] = "opening" ~> [](Clean(r) \/ Leaked(r) \/ Blocked(r))

=============================================================================
