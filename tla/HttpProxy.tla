----------------------------- MODULE HttpProxy ------------------------------
(***************************************************************************)
(* The path of a public HTTP request through the server: proxy_http_request*)
(* and proxy_request_to_tunnel (proxy.rs), the bounded bcrypt verifier     *)
(* (auth.rs), the body slots, and the captures that the inspection UI      *)
(* lists, clears and replays (web_ui.rs).  One subdomain, which sessions   *)
(* own one after the other.                                                *)
(*                                                                         *)
(* A task is a public request or a replay; it stops at each await, where   *)
(* its future may be dropped.  How a stream is obtained is the subject of  *)
(* StreamCorrelation, how a session gets stuck that of ControlSession.     *)
(***************************************************************************)
EXTENDS Integers, Sequences, FiniteSets, FiniteSetsExt

CONSTANTS
  Requests, Replays,  \* tasks
  Sessions,           \* tunnels that are registered under the subdomain
  Password,           \* session -> the credentials it asks for, None without basic auth
  Inspect,            \* sessions with options.inspect
  Credentials,        \* Authorization headers
  BodySlots,          \* request_body_slots, 4
  AuthPermits,        \* BasicAuthVerifier.permits, one per processor
  MaxBody,            \* server.max_request_body_bytes
  BufferSize,         \* inspect.buffer_size, not validated
  None

Tasks == Requests \cup Replays

ASSUME HttpAssumption ==
  /\ Requests \cap Replays = {} /\ IsFiniteSet(Tasks)
  /\ Password \in [Sessions -> Credentials \cup {None}]
  /\ Inspect \subseteq Sessions
  /\ BodySlots \in Nat \ {0} /\ AuthPermits \in Nat \ {0}
  /\ MaxBody \in Nat \ {0} /\ BufferSize \in Nat
  /\ None \notin Tasks \cup Sessions \cup Credentials \cup {"answered", "spoilt"}

VARIABLES
  tunnel,     \* tunnels[subdomain]
  past,       \* sessions registered so far
  alive,      \* sessions whose connection is up
  stuck,      \* sessions whose task waits on its own full control_tx
  captures,   \* captures[subdomain]: a queue, None when absent
  cached,     \* cached_auth_fingerprint of each session
  slots,      \* free permits of request_body_slots
  buffered,   \* the gauge buffered_request_body_bytes
  permits,    \* free permits of the bcrypt verifier
  blocking,   \* tasks whose bcrypt job runs on the blocking pool
  stage,      \* the await a task stands at
  status,     \* how it ended
  seen,       \* the Arc<TunnelSession> it works with
  header,     \* its Authorization header
  body        \* bytes its BufferedRequestBody accounts for

registryVars == <<tunnel, past, alive, stuck>>
limitVars == <<slots, buffered>>
authVars == <<cached, permits, blocking>>
taskVars == <<stage, status, seen, header, body>>
vars == <<registryVars, captures, authVars, limitVars, taskVars>>

Init ==
  /\ tunnel = None /\ past = {} /\ alive = {} /\ stuck = {}
  /\ captures = None
  /\ cached = [s \in Sessions |-> None]
  /\ slots = BodySlots /\ buffered = 0
  /\ permits = AuthPermits /\ blocking = {}
  /\ stage = [r \in Tasks |-> "idle"]
  /\ status = [r \in Tasks |-> None]
  /\ seen = [r \in Tasks |-> None]
  /\ header = [r \in Tasks |-> None]
  /\ body = [r \in Tasks |-> 0]

Goes(r, from, to) == stage[r] = from /\ stage' = [stage EXCEPT ![r] = to]

(* A public request holds a body slot from the upload to its end; a replay *)
(* holds none.                                                             *)
HoldsSlot(r) ==
  /\ r \in Requests
  /\ stage[r] \in {"upload", "open", "stream", "capture", "send", "response", "record"}

(* BufferedRequestBody::drop *)
GiveBack(r) ==
  /\ slots' = IF HoldsSlot(r) THEN slots + 1 ELSE slots
  /\ buffered' = buffered - body[r]
  /\ body' = [body EXCEPT ![r] = 0]

(* The task is over and its locals are dropped. *)
Over(r, how) ==
  /\ stage' = [stage EXCEPT ![r] = "done"]
  /\ status' = [status EXCEPT ![r] = how]
  /\ seen' = [seen EXCEPT ![r] = None] /\ header' = [header EXCEPT ![r] = None]
  /\ GiveBack(r)
  /\ UNCHANGED registryVars

(* An error response: its status code does not matter here. *)
Fail(r) == Over(r, "failed")

-----------------------------------------------------------------------------
(* Routing.  The session is cloned out of the map and used to the end,     *)
(* also when it is replaced meanwhile.                                     *)
Route(r, h) ==
  /\ r \in Requests /\ tunnel # None
  /\ Goes(r, "idle", IF Password[tunnel] = None THEN "admit" ELSE "auth")
  /\ seen' = [seen EXCEPT ![r] = tunnel]
  /\ header' = [header EXCEPT ![r] = h]
  /\ UNCHANGED <<registryVars, captures, authVars, limitVars, status, body>>

(* 400, 404, 502: no host, another domain, no tunnel. *)
NotRouted(r) ==
  /\ r \in Requests /\ stage[r] = "idle"
  /\ Fail(r)
  /\ UNCHANGED <<captures, authVars>>

(* The fast path: the header that was verified last. *)
AuthCached(r) ==
  /\ header[r] # None /\ cached[seen[r]] = header[r]
  /\ Goes(r, "auth", "admit")
  /\ UNCHANGED <<registryVars, captures, authVars, limitVars, status, seen, header, body>>

AuthUncached(r) ==
  /\ header[r] # None /\ cached[seen[r]] # header[r]
  /\ Goes(r, "auth", "permit")
  /\ UNCHANGED <<registryVars, captures, authVars, limitVars, status, seen, header, body>>

AuthMissing(r) ==
  /\ stage[r] = "auth" /\ header[r] = None
  /\ Fail(r)
  /\ UNCHANGED <<captures, authVars>>

(* Mutant: the header is cached when its verification starts. *)
AuthPermitCaching(r) ==
  /\ permits > 0 /\ Goes(r, "permit", "verify")
  /\ permits' = permits - 1 /\ blocking' = blocking \cup {r}
  /\ cached' = [cached EXCEPT ![seen[r]] = header[r]]
  /\ UNCHANGED <<registryVars, captures, limitVars, status, seen, header, body>>

(* verify_header: a permit within a second, or the answer is no. *)
AuthPermit(r) ==
  /\ permits > 0 /\ Goes(r, "permit", "verify")
  /\ permits' = permits - 1 /\ blocking' = blocking \cup {r}
  /\ UNCHANGED <<registryVars, captures, cached, limitVars, status, seen, header, body>>

AuthPermitTimeout(r) ==
  /\ stage[r] = "permit"
  /\ Fail(r)
  /\ UNCHANGED <<captures, authVars>>

(* The bcrypt job owns the permit and runs to its end, with or without the *)
(* task that asked for it.                                                 *)
AuthVerified(r) ==
  /\ r \in blocking
  /\ blocking' = blocking \ {r} /\ permits' = permits + 1
  /\ CASE stage[r] # "verify" -> UNCHANGED <<taskVars, limitVars, registryVars>>
       [] stage[r] = "verify" /\ header[r] = Password[seen[r]] ->
            /\ Goes(r, "verify", "remember")
            /\ UNCHANGED <<registryVars, limitVars, status, seen, header, body>>
       [] OTHER -> Fail(r)
  /\ UNCHANGED <<captures, cached>>

AuthRemember(r) ==
  /\ Goes(r, "remember", "admit")
  /\ cached' = [cached EXCEPT ![seen[r]] = header[r]]
  /\ UNCHANGED <<registryVars, captures, permits, blocking, limitVars, status, seen, header, body>>

-----------------------------------------------------------------------------
(* The body.  Content-Length is checked, then a slot is taken if one is    *)
(* free; there is no queue for slots and no time limit on the upload.      *)
DeclaredTooLarge(r) ==
  /\ stage[r] = "admit"
  /\ Fail(r)
  /\ UNCHANGED <<captures, authVars>>

NoSlot(r) ==
  /\ stage[r] = "admit" /\ slots = 0
  /\ Fail(r)
  /\ UNCHANGED <<captures, authVars>>

TakeSlot(r) ==
  /\ slots > 0 /\ Goes(r, "admit", "upload")
  /\ slots' = slots - 1
  /\ UNCHANGED <<registryVars, captures, authVars, buffered, status, seen, header, body>>

UploadDone(r, n) ==
  /\ Goes(r, "upload", "open")
  /\ body' = [body EXCEPT ![r] = n] /\ buffered' = buffered + n
  /\ UNCHANGED <<registryVars, captures, authVars, slots, status, seen, header>>

UploadFails(r) ==
  /\ stage[r] = "upload"
  /\ Fail(r)
  /\ UNCHANGED <<captures, authVars>>

-----------------------------------------------------------------------------
(* A replay looks its capture up by id and then the tunnel by subdomain.   *)
ReplayFind(r) ==
  /\ r \in Replays /\ captures \notin {None, <<>>}
  /\ Goes(r, "idle", "found")
  /\ UNCHANGED <<registryVars, captures, authVars, limitVars, status, seen, header, body>>

ReplayRoute(r) ==
  /\ tunnel # None /\ Goes(r, "found", "open")
  /\ seen' = [seen EXCEPT ![r] = tunnel]
  /\ UNCHANGED <<registryVars, captures, authVars, limitVars, status, header, body>>

(* No such id, no tunnel, or a body that was captured only in part. *)
ReplayRefused(r) ==
  /\ r \in Replays /\ stage[r] \in {"idle", "found"}
  /\ Fail(r)
  /\ UNCHANGED <<captures, authVars>>

-----------------------------------------------------------------------------
(* proxy_request_to_tunnel *)

(* request_proxy_stream sends StreamOpen to the session's task and waits   *)
(* for room in its queue, without a time limit: as long as the client does *)
(* not read, and for ever if the task is stuck.                            *)
OpenQueued(r) ==
  /\ seen[r] \notin stuck /\ Goes(r, "open", "stream")
  /\ UNCHANGED <<registryVars, captures, authVars, limitVars, status, seen, header, body>>

(* The task is over and its queue with it. *)
OpenRefused(r) ==
  /\ stage[r] = "open" /\ seen[r] \notin alive \cup stuck
  /\ Fail(r)
  /\ UNCHANGED <<captures, authVars>>

(* Ten seconds for the stream, from then on. *)
StreamOpened(r) ==
  /\ seen[r] \in alive /\ Goes(r, "stream", "capture")
  /\ UNCHANGED <<registryVars, captures, authVars, limitVars, status, seen, header, body>>

(* Mutant: no timeout once the session is over. *)
StreamTimeoutWhileAlive(r) ==
  /\ stage[r] = "stream" /\ seen[r] \in alive
  /\ Fail(r)
  /\ UNCHANGED <<captures, authVars>>

StreamTimeout(r) ==
  /\ stage[r] = "stream"
  /\ Fail(r)
  /\ UNCHANGED <<captures, authVars>>

(* store_capture goes by the subdomain: the queue it finds there may be a  *)
(* later tunnel's.  The oldest capture makes room.                         *)
Pushed(q, c) == Append(IF Len(q) >= BufferSize /\ q # <<>> THEN Tail(q) ELSE q, c)

StoreCapture(r) ==
  /\ Goes(r, "capture", "send")
  /\ captures' = IF (seen[r] \in Inspect \/ r \in Replays) /\ captures # None
                 THEN Pushed(captures, [id |-> r, under |-> tunnel, complete |-> FALSE])
                 ELSE captures
  /\ UNCHANGED <<registryVars, authVars, limitVars, status, seen, header, body>>

SendDone(r) ==
  /\ Goes(r, "send", "response")
  /\ UNCHANGED <<registryVars, captures, authVars, limitVars, status, seen, header, body>>

(* read_http_response returns one whole response, *)
ResponseRead(r) ==
  /\ Goes(r, "response", "record")
  /\ UNCHANGED <<registryVars, captures, authVars, limitVars, status, seen, header, body>>

(* or writing or reading fails: the stream ends early, the headers are     *)
(* malformed, the body exceeds the limit.                                  *)
ProxyFails(r) ==
  /\ stage[r] \in {"send", "response"}
  /\ Fail(r)
  /\ UNCHANGED <<captures, authVars>>

(* Mutant: the latest capture is taken for one's own. *)
CompleteLatest(r, q) ==
  [i \in DOMAIN q |-> IF i = Len(q) THEN [q[i] EXCEPT !.complete = TRUE] ELSE q[i]]

(* The capture is completed if it is still there. *)
Complete(r, q) == [i \in DOMAIN q |-> IF q[i].id = r THEN [q[i] EXCEPT !.complete = TRUE] ELSE q[i]]

(* The outcomes of a task that has read a whole response. *)
Recorded == {"answered", "spoilt"}

(* First the capture is completed, then the visitor's response is built:   *)
(* he is answered, or gets a 500 when the tunnel's or the local service's  *)
(* headers cannot be put into one.                                         *)
RecordResponse(r) ==
  /\ stage[r] = "record"
  /\ captures' = IF captures = None THEN None ELSE Complete(r, captures)
  /\ \E how \in Recorded : Over(r, how)
  /\ UNCHANGED authVars

(* Mutant: the future owns the bcrypt permit. *)
LeaveReturningPermit(r) ==
  /\ stage[r] \notin {"idle", "done"}
  /\ permits' = IF stage[r] = "verify" THEN permits + 1 ELSE permits
  /\ Over(r, "failed")
  /\ UNCHANGED <<captures, cached, blocking>>

(* The visitor hangs up: the future is dropped at its await. *)
Leave(r) ==
  /\ stage[r] \notin {"idle", "done"}
  /\ Over(r, "failed")
  /\ UNCHANGED <<captures, authVars>>

-----------------------------------------------------------------------------
(* register_tunnel starts an empty queue of captures, removal drops it. *)
Register(s) ==
  /\ tunnel = None /\ s \notin past
  /\ tunnel' = s /\ past' = past \cup {s} /\ alive' = alive \cup {s}
  /\ captures' = <<>>
  /\ UNCHANGED <<stuck, authVars, limitVars, taskVars>>

(* By the reaper, or because the session ends. *)
Unregister ==
  /\ tunnel # None
  /\ tunnel' = None /\ captures' = None
  /\ UNCHANGED <<past, alive, stuck, authVars, limitVars, taskVars>>

(* The connection is gone; the registry may learn it later. *)
SessionEnds(s) ==
  /\ s \in alive
  /\ alive' = alive \ {s}
  /\ UNCHANGED <<tunnel, past, stuck, captures, authVars, limitVars, taskVars>>

(* Its task starts to wait on the queue it alone drains. *)
SessionStuck(s) ==
  /\ s \in alive /\ stuck' = stuck \cup {s}
  /\ UNCHANGED <<tunnel, past, alive, captures, authVars, limitVars, taskVars>>

(* The UI's clear_requests *)
Clear ==
  /\ captures \notin {None, <<>>}
  /\ captures' = <<>>
  /\ UNCHANGED <<registryVars, authVars, limitVars, taskVars>>

-----------------------------------------------------------------------------
AuthStep(r) ==
  \/ AuthCached(r) \/ AuthUncached(r) \/ AuthMissing(r)
  \/ AuthPermit(r) \/ AuthPermitTimeout(r) \/ AuthRemember(r)

AdmitStep(r) == DeclaredTooLarge(r) \/ NoSlot(r) \/ TakeSlot(r)

ReplayStep(r) == ReplayFind(r) \/ ReplayRoute(r) \/ ReplayRefused(r)

ProxyStep(r) ==
  \/ OpenRefused(r) \/ StreamOpened(r) \/ StreamTimeout(r)
  \/ StoreCapture(r) \/ RecordResponse(r)

(* Steps that need the visitor, the client or the local service. *)
PeerStep(r) ==
  \/ (\E n \in 0..MaxBody : UploadDone(r, n)) \/ UploadFails(r)
  \/ OpenQueued(r) \/ SendDone(r) \/ ResponseRead(r) \/ ProxyFails(r)

Arrive(r) == NotRouted(r) \/ \E h \in Credentials \cup {None} : Route(r, h)

Next ==
  \/ \E r \in Tasks :
       \/ Arrive(r) \/ AuthStep(r) \/ AuthVerified(r) \/ AdmitStep(r)
       \/ ReplayStep(r) \/ ProxyStep(r) \/ PeerStep(r) \/ Leave(r)
  \/ (\E s \in Sessions : Register(s) \/ SessionEnds(s) \/ SessionStuck(s)) \/ Unregister \/ Clear

Spec == Init /\ [][Next]_vars

(* The tasks that hold a slot run, their timers fire, and a stream of a    *)
(* session that is over fails.  Nobody has to finish an upload or to       *)
(* answer.                                                                 *)
Fairness ==
  \A r \in Requests :
    WF_vars(ProxyStep(r) \/ (seen[r] \notin alive /\ ProxyFails(r)))

FairSpec == Spec /\ Fairness

-----------------------------------------------------------------------------
Stages == {"idle", "auth", "permit", "verify", "remember", "admit", "upload", "found",
           "open", "stream", "capture", "send", "response", "record", "done"}
Captures == [id : Tasks, under : Sessions, complete : BOOLEAN]

TypeOK ==
  /\ tunnel \in Sessions \cup {None} /\ past \subseteq Sessions
  /\ alive \subseteq past /\ stuck \subseteq past
  /\ cached \in [Sessions -> Credentials \cup {None}]
  /\ slots \in 0..BodySlots /\ buffered \in Int
  /\ permits \in 0..AuthPermits /\ blocking \subseteq Requests
  /\ stage \in [Tasks -> Stages]
  /\ status \in [Tasks -> Recorded \cup {None, "failed"}]
  /\ seen \in [Tasks -> Sessions \cup {None}]
  /\ header \in [Tasks -> Credentials \cup {None}]
  /\ body \in [Tasks -> 0..MaxBody]
  /\ captures # None =>
       /\ captures \in Seq(Captures)
       /\ Len(captures) <= IF BufferSize = 0 THEN 1 ELSE BufferSize

(* proxy.rs:272, 75 and auth.rs:22 "with bounded concurrency": a body slot *)
(* is free or held by exactly one running request, a bcrypt permit is free *)
(* or held by exactly one running job, and the gauge is the sum of what    *)
(* the requests hold, wherever a visitor hangs up or a step fails.         *)
LimitsConserved ==
  /\ slots + Cardinality({r \in Tasks : HoldsSlot(r)}) = BodySlots
  /\ buffered = MapThenSumSet(LAMBDA r : body[r], Tasks)
  /\ permits + Cardinality(blocking) = AuthPermits

(* proxy.rs:216-250: what reaches a client's protected tunnel carries that *)
(* tunnel's credentials, verified now or found in its cache, whatever else *)
(* is being verified or registered under the same name.                    *)
OnlyAuthorizedPass ==
  \A r \in Requests :
    stage[r] \in {"admit", "upload", "open", "stream", "capture", "send", "response", "record"} =>
      Password[seen[r]] \in {None, header[r]}

(* proxy.rs:583: a response is recorded in the capture of its own request, *)
(* and a request that failed on its way or was dropped has none recorded,  *)
(* though requests overlap, the UI clears and replays, and the queue is    *)
(* dropped and replaced with its tunnel.  A recorded response was given to *)
(* the visitor, unless its headers made it a 500 afterwards (proxy.rs:618, *)
(* "spoilt").  tunnel_manager.rs:41 "ring-buffer per tunnel": nothing is   *)
(* carried over from an earlier tunnel's queue; every capture was stored   *)
(* while the present tunnel had the name.  It need not have gone through   *)
(* that tunnel: a request of the earlier one that was still waiting for    *)
(* its stream stores its capture with the successor.                       *)
CapturesTellOutcome ==
  captures # None =>
    \A i \in DOMAIN captures :
      /\ captures[i].complete <=> status[captures[i].id] \in Recorded
      /\ captures[i].under = tunnel

(* proxy.rs:272: the server answers "busy" only as long as visitors are    *)
(* still uploading or a connected client has not read or answered yet.  A  *)
(* session that is over keeps no slot, unless its task is stuck: the send  *)
(* of StreamOpen (proxy.rs:1043) has no time limit.                        *)
SlotsComeBack ==
  slots = 0 ~>
    \/ slots > 0
    \/ \E r \in Requests : stage[r] = "upload"
    \/ \E r \in Requests : stage[r] \in {"open", "send", "response"} /\ seen[r] \in alive
    \/ \E r \in Requests : stage[r] = "open" /\ seen[r] \in stuck

=============================================================================
