# TLA+ verification of rgrok

rgrok is a self-hosted tunnel service. A server with a public address accepts
control connections from clients (WebSocket, yamux inside it), gives each
tunnel a subdomain or a TCP port, and forwards public traffic over data streams
that the client opens. This directory holds TLA+ models of the parts of rgrok
in which several tasks, two machines or a clock interact, the TLC
configurations that check them, and TLAPS proofs of the most important results.

All paths below are relative to the repository; `server/` stands for
`crates/rgrok-server/src/`, `client/` for `crates/rgrok-client/src/`, `proto/`
for `crates/rgrok-proto/src/`.

## 1. Inventory

| Component | State | Operations | Hard behaviour |
|---|---|---|---|
| Tunnel registry (`server/tunnel_manager.rs`) | `reservations` (mutex), `tunnels` and `tcp_tunnels` (maps), gauge, DNS records | reserve, register, remove if owner, shut a TCP tunnel down, reap | set-up and tear-down span several critical sections with awaits between them; owners are named by an id the client chooses |
| TCP listener task (`server/control.rs:590-622`, `server/proxy.rs:1077-1123`) | socket, cancellation token, `listener_stopped` | accept, stop, unregister itself | the socket outlives the registration; a five second wait for it may time out |
| Control session (`server/control.rs`, `client/tunnel.rs:256-549`) | phase of both ends, bounded channel `control_tx`, revocation epoch, blocklist | authenticate, register a tunnel, heartbeat, forward `StreamOpen`, clean up | `select!` drops a half-done read; a handler awaits the channel its own task drains; reloads and shutdown race everything |
| Stream correlation (`server/proxy.rs:1031-1064`, `server/control.rs:366-396`, `client/tunnel.rs:618-642`) | `pending_streams`, `next_correlation_id` (wraps) | draw an id, wait for the control channel, wait ten seconds, resolve | late, lost and reordered streams, dropped futures, wrap; the first wait has no limit |
| Idle reaper (`server/tunnel_manager.rs:449-495`, `554-616`) | `last_activity`, `active_streams` | touch, count, scan, remove | judged once, removed later |
| Client reconnect loop (`client/tunnel.rs:66-240`, `551-588`, `680-719`) | two backoffs, pinned endpoint | connect, register, run, tear down, wait | the server may still hold the client's own dead session, or have taken the tunnel of a live one; every await has its own `select!` with Ctrl-C |
| HTTP proxy (`server/proxy.rs`) | body slots, their gauge, a future per request, the buffer of the response reader | route, authorise, forward, read the response | a body slot is held while nothing limits upload and response; visitors hang up anywhere; reads cut the response's framing anywhere |
| Transport (`proto/transport.rs`) | read buffer and closed flag of `WsCompat`, the driver's pending reply, two bounded channels | read, write, open, accept, abort | one poll may find several events; a full channel stops the driver; the driver dies with requests queued |
| Authentication (`server/auth.rs`) | blocklist, bcrypt permits, the last verified header of a tunnel | validate a token, verify basic auth | blocking jobs outlive the request that started them |
| Server inspection (`server/tunnel_manager.rs`, `server/web_ui.rs`) | capture ring per subdomain | store, complete, list, clear, replay | requests outlive the queue they are captured in; a map guard held over an await |
| Client bridge and inspection (`client/local_proxy.rs`, `client/inspect.rs`) | two pumps, two capture buffers, capture ring | connect, pump both ways, capture, replay, clear | backpressure in both directions; bounded copies that must say when they are cut |
| TLS certificates (`server/tls.rs`, `server/main.rs`) | certificate, key and account on disk, challenge records, the served pair | select, load, issue, save, renew | files saved one after the other; crashes and restarts; a renewal judged by the file and not by what is served |
| DNS (`server/dns.rs`), configuration, subdomain rules, metrics, CLI, output | - | - | sequential or pure I/O |

What makes the modelled ones correct:

* registry - an endpoint has at most one owner at any time, counting sockets
  that are still bound; a removal never hits somebody else's tunnel; capacity
  counts what is reserved; everything taken is given back;
* session - a revoked or lost or shut-down session ends and takes its tunnels
  with it; a client with an acknowledgement has a tunnel; the framing survives;
* correlation - nobody is served another's stream, and nothing stays pending;
* reaper - only unused tunnels are closed, and unused tunnels are closed;
* reconnect - the address shown to the user is the only one the client serves,
  it comes back to it, and Ctrl-C ends it wherever it is;
* HTTP proxy - slots and permits are conserved and come back, only authorised
  requests reach a protected tunnel, a capture tells what happened to its own
  request;
* transport - streams arrive once and in order, and nobody waits on a dead driver;
* certificates - what is served is a matching pair that never goes back, is
  replaced when due and is found again after a restart;
* data path - the visitor gets the response that was sent or an error for a
  reason, captures do not lie, and the exchange ends.

The hazards behind these statements are listed line by line in
`PROJECT.json`, each with the properties that cover it.

## 2. Modules

```
EndpointLease  <--implements--  TunnelRegistry      <--EXTENDS--  TunnelRegistryProofs
              ClientReconnect, ControlSession       <--EXTENDS--  SessionProofs
              StreamCorrelation, IdleReaper         <--EXTENDS--  StreamProofs
                                HttpProxy           <--EXTENDS--  HttpProxyProofs
                                CertStore           <--EXTENDS--  CertStoreProofs
                                Transport           <--EXTENDS--  TransportProofs
ResponseReader  <--EXTENDS--    DataPath            <--EXTENDS--  DataPathProofs
                                SequenceFacts       <--EXTENDS--  TransportProofs, DataPathProofs
```

SessionProofs and StreamProofs are each about two components that belong
together, so ClientReconnect and IdleReaper give their specification names of
its own (`LoopInit`, `LoopNext`, `LoopSpec`; `ReaperInit`, `ReaperNext`,
`ReaperSpec`). SequenceFacts holds the lemmas about concatenating and cutting
sequences.

Each `MC...` module only names the model values of a component's runs (and, for
the registry, which request comes over which connection and with which id; for
the data path, the requests and responses).

### TunnelRegistry, EndpointLease

One step is one critical section of the `reservations` mutex or one awaited
effect between two of them. `Attempts` are `TunnelRequest`s, and at the same
time the `Arc<TunnelSession>` each builds, so ownership by pointer
(`Arc::ptr_eq`) is equality of attempts; ownership of a *reservation* is by the
client-supplied id, `IdOf`, and two attempts may share one.

| Variable | Code |
|---|---|
| `reservations`, `tunnels`, `active_tunnels` | `ServerState.reservations`, `.tunnels` and `.tcp_tunnels`, the gauge |
| `pc`, `key` | how far `handle_control_msg` is with the request, and the name or port it took |
| `listener` | the spawned listener: `open` (bound), `dropped` (socket closed), `stopped` (signalled), `removing`, `done` |
| `dns` | the record of an HTTP tunnel, as it is at Cloudflare: `created` while the answer is on its way, `live` once the server knows its id, `orphan` when deleting it failed, `unanswered` when the answer was lost or unusable and the record stays |
| `conn`, `todo`, `busy` | the control task and, at its end, the tunnels it still has to remove and the one it awaits |
| `retained` | background tasks that keep a port reserved until a slow listener stops |
| `phase`, `cancel` | the reaper's pass and the shutdown token |

Actions: `RequestHttp/Tcp/AnyTcp/Invalid`, `RecordCreated`, `CreateDnsRecord`,
`SetupFails`, `RegisterHttp`, `BindTcp`, `RegisterTcp`; `ListenerCancelled/Error/Signal/
Unregister/Release`; `CloseHttp`, `DeleteDnsRecord`, `CloseTcp`, `CloseSkip`,
`StopObserved`, `StopTimeout`, `RetainedRelease`; `Disconnect`,
`ShutdownSession`, `SessionClosed`; `ReapHttp`, `ReapTcp`, `ReapDone`,
`ReaperStop`; `Shutdown`. Which tunnels a reaper pass picks is left open here;
IdleReaper says when a tunnel qualifies.

`EndpointLease` is the promise in a page: leases of endpoints are exclusive and
bounded, and a socket is open only under a lease. The refinement mapping gives a
lease to the session that holds the reservation, is published, or is being
stopped with its socket still bound.

### ControlSession

Both ends of one control connection. `server` walks through `handle_client`
(`auth`, `check`, `welcome`, `top`, `select`, then a handler, a write or
`cleanup`); `chan` is the bounded channel `control_tx`; `c2s` and `s2c` are the
two directions of the control stream, with `Window` messages of buffering.
Messages are abstracted to their kinds, and the server's errors to how the
client classifies them. Two details of the transport are kept because the
behaviour depends on them: `write_msg_to_stream` writes the length and the body
separately (`Length`, then `TunnelRequest`), and a read that another `select!`
branch cancels loses a length it has consumed (`half`, `desync`). The bytes of a
MessagePack body taken for a length always exceed the one megabyte limit (the
first byte of a map is at least 0x80), so the next read fails. `late` is a
history variable: client messages taken up since the revocation.

### StreamCorrelation

`Draw`, `SendOpen`/`SendOpenFails`, `Served`/`Timeout` are the steps of
`request_proxy_stream`: the send waits for room in the session's channel
(`control_rx`, `QueueCap`) without a time limit, and only then do the ten seconds
begin. `Dropped` is the future being dropped at one of its awaits; `Forward` is
the session writing a queued `StreamOpen`, and `SessionStuck` its wait on its own
full channel, which ControlSession derives; `ClientOpens`, `OpenLost` the client; `Resolve`, `Deliver`,
`StreamDropped` the accept task, with the removal from the map and the oneshot
send as two steps; `Close` the end of the session. Each stream carries, besides
the id, the request it was opened for, which no action reads. The counter starts
anywhere, so the runs include its wrap.

### IdleReaper

A clock, `last_activity` and `active_streams` per tunnel, visitors that walk
through an HTTP request or a TCP stream, and `reap_idle_tunnels` as a scan of
each kind against the time at which the pass began, followed by one removal per
step. `stream_started` and `stream_finished` are two steps each, the counter and
then the clock, as in the code. `last_in_use` is a history variable that no action
reads: the moment a request or a stream of the tunnel last ended.

### HttpProxy

A task is a public request (`proxy_http_request`) or a replay from the
inspection UI (`replay_request`). `stage` is the await it stands at; every
stage but the first may end by an error response or by `Leave`, the visitor
hanging up, which drops the future and with it what its locals hold
(`GiveBack` is `BufferedRequestBody::drop`). `AuthPermit`, `AuthVerified` and
`AuthRemember` are the bounded bcrypt verifier: the blocking job owns the permit,
so `AuthVerified` also happens for a task that is gone. `TakeSlot`, `UploadDone`
are the body slot and the gauge; `OpenQueued`/`OpenRefused` the untimed send of
`StreamOpen`, behind which a request of a session in `stuck` waits for ever;
`StreamOpened`/`StreamTimeout` the ten seconds after it; `StoreCapture`,
`SendDone`, `ResponseRead`, `RecordResponse` the other steps of
`proxy_request_to_tunnel`, which replays share without holding a slot.
`RecordResponse` first completes the capture and then builds the visitor's
response, which may fail: the request ends `answered` or `spoilt` (a 500). One subdomain is modelled, which sessions
own one after the other: a task keeps the session it found (`seen`), but captures
are looked up by name again each time, and each capture remembers the tunnel that
had the name when it was stored (`under`). Credentials are compared as values;
whether a declared or an actual body is too large, a response well-formed or a
captured header valid is left open. How a stream is obtained is the subject of
StreamCorrelation; that a request touches the idle clock is in IdleReaper.

### ClientReconnect

`run` and `connect_with_retry_inner`: connect attempts with their own backoff, a
`connect_async` that gets no answer (`hung`), the handshake's outcomes, the
session, its teardown and the wait. Each `select!` that listens to Ctrl-C has an
action for that arm (`InterruptConnect`, `InterruptRetry`, `InterruptWait`,
`InterruptHandshake`, `InterruptRun`), which races the other arms; the last two
lead through `quitting`, where tasks and driver are aborted and joined. The server
is reduced to who holds each endpoint: `free`, `mine`, `stale` for an earlier
session that has not been cleaned up, `stuck` for one that never will be (finding
1), `other`. It may end a session the client still has (`ServerEnds`), and its
reaper may take the tunnel of a running client (`ReaperTakes`), who logs the 408
and runs on; `gone` remembers which.

### Transport

Both ends of one connection, with the same code on each side. A caller of
`open_stream` goes through `sends`, `waits` and `open`; the driver task through
`top` (`TryRecv`), `poll` and `send`. `PollOutbound`, `PollRequest`,
`PollInbound`, `PollEnd` are the four ways in which its `poll_fn` returns, tried
in that order, and the first two drop an inbound stream that was ready as well
(`DiscardInbound`). `poll_new_outbound` may be pending: then the reply is kept and
the poll goes on to the inbound result (`ReachesInbound`). `ReadBuffered`, `ReadMessage`, `SkipMessage`, `ReadClose` and
`WriteFrame` are `WsCompat`, called while the driver polls. A stream shows itself
by a frame of two bytes, so that a frame can be cut by the message it travels in
and by the room of a read. `Finish` is the end of the task, by an error, a
dropped acceptor or an abort, and drops the queue with it. `ServerCallers` exists
because the code is the same on both sides, and is assumed empty
(`OnlyClientOpens`): in `server/` only tests, which play the client, call
`open_stream`.

### CertStore

What survives a crash is `disk` and the TXT records in the `zone`; the rest is a
process that starts (`StartLoads`, `StartProvisions`, `StartFails`), serves and
renews. A certificate is the number of its issue, and its key has the same
number, so a mixed pair is visible. The provisioning attempt is one task for
`main` and for the renewal loop: account, order, two challenge records, polling,
finalizing, download, `SaveCert`, `SaveKey`, `LoadSaved`, then the cleanup of the
records, which every failure reaches too. `Crash` may fall between any two steps
and inside a write (`Torn`); `Shutdown` not inside the synchronous save. `cut`
remembers which saves were cut short: the two liveness properties name it as
their exception. Every configuration of the TLS source is an initial state.

### ResponseReader, DataPath

`ResponseReader` is `read_http_response` as operators on a record: the step the
code takes with the bytes it has (`Advance`), whether it must read
(`NeedsMore`), and what a read does (`Receive`, `ReceiveEnd`). Its reference is
the other direction: `Wire`, which lays a response out as bytes, and
`Acceptable`, which says whether the limits allow it. A `Response` has any number
of informational responses before it, any padding of its header and a body of
any bytes in any parts (each a chunk when the framing is chunked); a chunk's size
is one byte, whose value the constant `SizeOf` gives.

`DataPath` puts the reader into the exchange of which it is a part: the server
writes a request and reads the response, the client's `bridge_streams` pumps
between stream and local service, and the UI keeps a bounded copy and replays it.
A channel is two counters, the bytes that went in and the bytes that came out,
because the bytes themselves are fixed by request and response. Services come in
three kinds: eager, patient, and stubborn, which does not read on while it has
something to write.

## 3. Runs

| Run | Instance | Result |
|---|---|---|
| RegistryExclusive | 3 requests over 2 connections, 2 of them with the same id, one name, one port, `MaxTunnels` 2 | holds (615k states) |
| RegistryDrain | 2 requests with the same id over 2 connections, one name, two ports, `MaxTunnels` 1, fair | holds (76k states) |
| SessionPass | 2 public requests, queue of 2, window 2, 1 ping, 1 reload, fair | holds (217k states) |
| SessionQueueDeadlock | 2 requests, queue 2, window 1, 1 ping, fair | `DisconnectCleansUp` violated |
| SessionAnswer | 1 request | `AnswerComesFirst` violated |
| StreamPass | 3 requests, 3 ids, channel of 1, fair | holds (244k states) |
| ReaperPass | an HTTP and a TCP tunnel, 2 visitors, timeout 2, clock to 4, fair | holds (252k states) |
| ReconnectPass | 2 endpoints, 3 attempts, delays 1 to 5, fair | holds (36k states) |
| HttpPass | 2 requests and a replay, a protected and inspected session and an open one, right and wrong credentials, 1 slot, 1 permit, a queue of 1, fair | holds (902k states) |
| CertPass | all configurations, with and without earlier files, 2 certificates near their end, 3 faults, 1 poll | holds (109k states) |
| TransportPass | 2 callers on the client, channels of 1, 1 message without bytes or Close, fair | holds (98k states) |
| DataPathPass | 4 requests, 10 responses, 3 kinds of service, room for 2 bytes, limits of 2 (body), 6 (header), 1 (informational), one capture, one replay, fair | holds (676k states) |

What the passing runs check:

* **RegistryExclusive** - `OwnershipInv` (reservations, published tunnels,
  listeners and closing tasks agree on one owner per endpoint),
  `NoRaceWithBoundSocket` (no request about to bind meets a socket the server
  itself still has open), `ReservationGuaranteesRegistration` (a reserved
  request is never refused at registration), `DnsRecordsAccounted` (a record
  without an owner is one whose deletion failed after its tunnel was gone, or
  whose creation was never answered, and then its request was refused),
  `RemovedForOwnReason` (a tunnel leaves the map only through its
  own connection's end, its own listener or the reaper), and
  `ClosedFreesEverything`: of all tunnels of a connection whose clean-up has ended
  none is published, and a port, a socket or a DNS record of theirs is left only
  while another task is giving it back, or after a deletion that failed. One of the
  connections has two tunnels, of either kind, which the reaper and the listeners
  may remove at any await of the clean-up. A clean-up that stops at a tunnel that is
  gone already violates it.
* **RegistryDrain** - `ImplementsLease` (exclusive leases, at most `MaxTunnels`),
  `ReservationsAreTemporary` (every reservation ends, and so does every clean-up).
* **SessionPass** - `AtMostOneAfterRevocation`, `RunningMeansPublished`,
  `DesyncOnlyWhileRegistering`, and `StuckForever`: once the task waits for room
  in its own queue nothing wakes it. Under fairness
  `DisconnectCleansUpUnlessStuck`, `EndIsHeard` (revocation and shutdown) and
  `StreamOpenEnds`, with that wait as the only exception: they say `\/ Stuck`,
  because without it they do not hold.
* **StreamPass** - `ServedByOwnStream`, `WaitingIsReachable`, and
  `RequestEndsClean`: a request is served, fails or is dropped and its entry goes
  for good (`Clean`), with two exceptions: it waits for ever for room in the full
  channel of a stuck session (`Blocked`), or its task was dropped and no stream
  comes that would take its entry away (`Leaked`). The code does both; without
  either exception TLC refutes the property.
* **ReaperPass** - `StreamsKeepTcpTunnels`, `EndedStreamsCount`,
  `UnusedTunnelsClose`. The first two speak of the judgement: removal does not
  judge a tunnel again, so traffic that arrives during a pass does not save it.
  `EndedStreamsCount` is the comment of `reap_idle_tunnels` for TCP tunnels, with
  the gap between decrement and touch as its only exception; without the exception,
  or for HTTP tunnels, TLC refutes it (section 4). The last would fail
  with a stream counter that drifts upwards.
* **ReconnectPass** - `PrintedAddressServes` (the client holds no other address than
  the printed one, and that one while it runs, unless the server took it);
  `ShutdownEndsClient` (after Ctrl-C the process ends and what it held is given
  back, except by a stuck session); `ComesBack` (however late the server is back,
  unless the endpoint is held by somebody else or by a stuck session, or
  `connect_async` never answers).
* **HttpPass** - `LimitsConserved` (slots, gauge and bcrypt permits are exactly
  what running requests and jobs hold), `OnlyAuthorizedPass`;
  `CapturesTellOutcome`: a capture is complete exactly when its own request
  recorded a response, also when the visitor then got a 500, and nothing is carried
  over from an earlier tunnel's queue; and
  `SlotsComeBack`: if all slots are taken, one comes free unless a visitor is still
  uploading, a connected client has not taken or answered its request, or a
  request waits for the channel of a stuck session. Nothing in the code bounds
  these, which is why the property names them.
* **CertPass** - `ServedPairsMatch`; `TxtRecordsAccounted` (what stays in the zone
  is what a failed deletion, an unanswered creation or a dead process left);
  `NeverBack` (no connection is offered an older certificate than one before it,
  restarts included); `DueIsReplaced` and `ComesUp`, unless a save was cut short.
* **TransportPass** - `StreamsInOrder` (what was written is what was received, is
  decoded, buffered, in flight or still to send, byte for byte), `OpenEnds`,
  `StreamArrives`.
* **DataPathPass** - `ExchangeFaithful` (an accepted response is the one that was
  sent; one within the limits is refused only if it was cut or, close-delimited,
  too slow), `CapturesAreHonest`, `SomebodyGoesOn` (no two parties wait for each
  other, and the server never waits for more of a response that it has in full),
  `ExchangeEnds`. The first names what the code
  cannot tell: a close-delimited response that was cut short is accepted as a
  shorter one, also when the whole would have been over the limit.

### Bounds

Two connections and two colliding ids are what every race of the registry needs:
an old owner, a new owner, and the reaper or a background task between them; the
third request adds a second tunnel to a session's clean-up, both of which can be
published at once under a capacity of two. The queue of the
control session (64 in the code) is scaled to two: full is reached by two public
requests, and the proofs cover every capacity. One name and one port are enough
because endpoints never interact except through the capacity. The clock needs
one idle period and room for a second pass. Three correlation ids for three
requests is the smallest space in which the counter wraps and the assumption
(fewer requests outstanding than ids, 2^32 in the code) still holds; a channel of
one is full with the first of them and lets the other two wait. For the HTTP
path, one slot and one permit against two requests make both run out; a queue of
one and three tasks evict captures that are still in progress.
Certificates: two that come near their end give a renewal of a renewed one, and
three faults a failure, a crash and a failure of the recovery. Transport: one
place in each channel and two streams fill them, and two bytes a frame are cut
in the only place there is. Data path: a pump moves one or two bytes and every
channel holds two, so each response is read in every possible cut, and a request
of four bytes fills all channels of its direction. The responses are one of each
kind with header and body at and one past their limits, and bodies that look
like line ends.
`MaxPings`, `MaxReloads`, `MaxTime`, `MaxAges`, `MaxFaults`, `MaxNoise` and
`MaxReplays` cap counters the program does not bound.
No symmetry is used. Runs switch deadlock checking off where the modelled system
may come to rest: sessions closed, requests served, clock at its bound.

### Fairness

Tokio polls every woken task again, timers fire and locks are not held over
awaits, which gives weak fairness to each task's next step: set-up, listener,
background and closing tasks of the registry; the control task, the client's
task and each request of a session; request and accept tasks of the correlation;
clock and reaper; the request tasks of the HTTP path once they wait for their
stream, where a stream of a session that is over fails, but no visitor has to finish an upload and no
connected client has to answer. `select!` picks among ready branches at random; only the task
as a whole is fair, not its branches. Nobody has to connect, ping, hang up, reap
or revoke, and the client owes nobody a stream. ClientReconnect also assumes of
its environment that the server cleans dead sessions up unless they are stuck, and
strong fairness of a registration that is possible again and again (the other
outcomes of a handshake are accidents of the network). Each shutdown arm is
strongly fair: `select!` polls its arms in random order, so an arm that is ready
every time the loop comes round wins in the end; nothing makes a hung connection
fail. CertStore: the service manager starts
the process again (`Restart=always` in the repository's unit file), the renewal
timer ticks, and the services answer once the bounded number of faults is used
up. Transport: each driver reads, writes and goes on, each acceptor accepts;
nobody has to open a stream, and any side may end. DataPath: server, both pumps
and the timer of a close-delimited body go on, and the service reads, writes and,
once its input has ended, closes; the code puts no limit on how long that takes.

## 4. Findings

Each is a run that TLC refutes, with the line it contradicts in `PROJECT.json`.

1. **The control task can wait for itself** (`server/control.rs:648`, `:633`).
   Answers are queued on the channel that only the same task drains. If public
   requests fill it while a `Ping` or a `TunnelRequest` is handled, the session
   never moves again: a dead client's tunnel stays published, and revocation and
   shutdown do not reach it.
2. **`StreamOpen` can overtake `TunnelAck`** (`server/control.rs:556`). The tunnel
   is published first; the client takes the early `StreamOpen` for a permanent
   failure (`client/tunnel.rs:438`).

Four statements of the documents and comments are stronger than the code. No run
is about them; the properties name what the code does instead, and stated without
that exception they are refuted by TLC on the same instance:

* **An entry of `pending_streams` can outlive its request** (`server/proxy.rs:1111`).
  Its removal is a statement of the request's future; a future that is dropped
  skips it, and the entry stays until the client opens the stream or the
  connection ends, where `docs/rgrok-spec.md:424` says "Entries are removed on
  timeout (10s) to prevent leaks" (`RequestEndsClean`, exception `Leaked`).
* **A tunnel in use can be judged idle.** An HTTP request longer than the idle
  period is neither counted nor touches again (`server/proxy.rs:253`), and
  `stream_finished` decrements before it touches (`server/tunnel_manager.rs:603`).
  Both against the comment of `reap_idle_tunnels` (`server/tunnel_manager.rs:449`),
  which `EndedStreamsCount` therefore states of TCP tunnels only and with that
  window as exception.
* **The client does not give up.** `docs/rgrok-spec.md:691` says "1s, 2s, 4s ... 60s,
  then give up"; `run` takes the failure of all attempts for transient and starts
  again (`client/tunnel.rs:184`). `ComesBack` relies on it.
* **A capture can land in the next tunnel's queue** (`server/tunnel_manager.rs:515`).
  The queue is looked up by subdomain when the capture is stored; a comment
  (`server/tunnel_manager.rs:41`) calls it one per tunnel. `CapturesTellOutcome`
  says only that it was stored while the present tunnel had the name.

Known limits; those that a run could meet are named as exceptions by its properties:

* while a session is stuck (finding 1) its requests wait without limit in
  `control_tx.send` (`server/proxy.rs:1043`), with their body slots;
* a `connect_async` that is never answered keeps the client from retrying
  (`client/tunnel.rs:691`);
* a client whose tunnel the reaper took runs on without it (`client/tunnel.rs:501`);
* an A record whose creation is not answered stays at Cloudflare: its id is unknown
  (`server/dns.rs:58`);
* a capture shows the service's status although its visitor got a 500 when the
  response cannot be built (`server/proxy.rs:618`);
* a renewal whose save fails after the certificate was written is not tried again
  (`server/tls.rs:425` looks at the file), and a save or an account file that was
  cut short keeps the server down until somebody removes the files
  (`server/tls.rs:50`);
* the driver would lose inbound streams if both sides opened streams
  (`proto/transport.rs:257`): with a caller on the server side too,
  `StreamsInOrder` is violated. In the program only the client opens streams;
* a service that stops reading until its answer is taken can stop an exchange for
  good (`server/proxy.rs:497`);
* a client-side capture whose headers exceed the allowance, or of a request that
  its visitor cut short, has a shorter body and is not marked as truncated
  (`client/local_proxy.rs:73`);
* `docs/server-setup.md:195` says that a certificate changed on disk is picked up
  without a restart; the loop only looks at its own files, only when they are
  about to expire, and not at all with the operator's own certificate
  (`server/tls.rs:409-437`).

## 5. Proofs

Every safety property of a passing run is also a theorem. The theorems hold for every value of the constants that satisfies the named
assumptions: any sets of connections, requests, ids, callers and tunnels, any
finite set of names, any port range, any capacity, queue, window, number of
permits and slots, any response and any cut of it into reads. The assumptions are:

| Assumption | What it says, and why the code gives it |
|---|---|
| `ConstantsAssumption`, `BoundsAssumption`, `NoneAssumption`, `ReconnectAssumption`, `CertBounds`, `TransportBounds`, `ReaderBounds`, `PathBounds` | types of the parameters; marks such as `None` are not names |
| `FiniteAssumption` | finitely many names, so that tunnels can be counted against `max_tunnels` |
| `IdSpaceAssumption` | no more requests than ids (2^32 in the code): an id is not drawn twice while its first owner waits |
| `ReaperAssumption` | a tunnel is HTTP or TCP; finitely many visitors, so that streams can be counted |
| `HttpAssumption` | finitely many tasks, for the same reason; there is a slot and a permit |
| `OnlyClientOpens` | streams are opened by the client alone: in `server/` only tests that play the client call `open_stream` |
| `BytesAssumption` | the bytes that the framing uses are bytes; a size line does not start with CR, and there is one for the last chunk |
| `PathInputs` | requests have a header and a body; a chunked response has no empty chunk before the last one, as HTTP/1.1 requires of the service |

**TunnelRegistryProofs.** `TypeCorrect`; `OwnershipCorrect` (`OwnershipInv`);
from it `RegistrationCannotFail`, `BindIsSafe`, `NoForeignRemoval`;
`CapacityCorrect`; `GaugeCorrect`; `NoDnsRecordForgotten`; `CleanupIsComplete`; and
`RegistryImplementsLease`, `Spec => Lease!Spec`. None of the properties is inductive alone:
that a port is free when it is bound depends on who may release a reservation,
which depends on which tasks still act for a removed session. `OwnershipInv` is
the strengthening. It says what each `pc` implies (`SetupInv`), what each stage
of a listener implies (`ListenerInv`), that a session awaited by a closing task
or retained by a background task is out of the map and has no other such task
(`CloserInv`), that a reservation has exactly one session behind it, under that
session's id (`HolderInv`), that owners of the same key are equal
(`ExclusiveInv`) and that a bound socket has an owner (`SocketInv`). With it,
releasing "the reservation with my id" releases one's own although ids collide.
Capacity and gauge add a count: every step changes the number of used and held
keys as the registry's operations say, with cardinalities from
FiniteSetTheorems.

`NoDnsRecordForgotten` adds to it that only HTTP tunnels have records, and what
each state of a record says of its request, from the creation that is not answered
yet on: the task that answers for a record is the one that `OwnershipInv` finds for
the name, and a record nobody can delete belongs to a request that was refused or to
a tunnel that is gone. `CleanupIsComplete` adds what the list of a clean-up must
hold (`ClosingInv`): every tunnel of the connection that is still published; no
request of a connection that closes is being set up, so nothing is published behind
its back, and what its task awaits is its own. In
the refinement each action maps to acquiring, opening, closing or giving up a
lease, or to a stutter; the sensitive ones (removal of a TCP tunnel, the stop
time-out, the background release) keep the lease until the socket is closed.

**SessionProofs.** For ControlSession: `TypeCorrect`; `RevocationIsPrompt`;
`SelfDeadlockIsPermanent`, for every queue capacity; `HandshakeCorrect`
(`HandshakeInv`), and from it `AckMeansPublished` and `RunningNeverDesyncs`.
`HandshakeInv` follows the client's one request: while it has not been read in
full (`Unread`) no `TunnelAck` exists anywhere, and it is the last thing the
client wrote; an acknowledgement that does exist (`Acked`) implies that the
tunnel was published. For ClientReconnect: `AddressIsKept`; what is printed is
pinned, the client asks for what is pinned, and what it holds goes only by its own
teardown, the reaper or the server's end of the session, of which `gone` keeps
track.

**StreamProofs.** For StreamCorrelation: `NobodyElsesStream`, `WaitersStayReachable`.
`CorrelationInv` measures an id by its age, the distance to the counter around
the id space (`Age`): ids in use are as old as at most the number of draws, so
the next one is nobody's as long as a request is left that has not drawn
(`NextIsFresh`), also across the wrap. With that an entry of the pending map, a
stream and an answer on its way always belong to the request whose id they carry.

For IdleReaper: `CounterNeverDrifts`; `active_streams` is the number of open
streams, although each of them counts and touches in two steps and without a
lock. From it `OpenStreamsKeepTunnels`, which has to allow traffic after the pass
began, because the removal does not look again, and `OnlyEndingStreamsForgotten`,
an action property: whatever ends a stream of a TCP tunnel has touched the clock
since, or stands right before that touch.

**HttpProxyProofs.** `NobodyPassesUnauthorized` rests on the cache of verified
headers (`CacheSound`) and on what a job that outlives its request may write into
it (`RememberedIsVerified`). `CapturesNeverMixUp` goes through the queue as a
sequence: appending, eviction at the limit, clearing and completion each keep
every entry's mark equal to whether its request recorded a response and its
`under` equal to the tunnel, because there is a queue only while there is one
(`QueueHasTunnel`). `NoLimitLeaks` has the
three resources at once; the gauge is a sum over all tasks, and `Sums` with its
lemmas shows that the fold which defines it changes by what one task changes.

**CertStoreProofs.** `NoRecordForgotten` by counting the records of each step of
an attempt. `ServesMatchingPairs` and `RenewalNeverReverts` need an order between
all the places where a certificate can be: what was presented is not newer than
what is served, that not newer than what was just provisioned, and that not newer
than what the next start would load (`PairsInOrder`); what the directory can
hold, torn files and halves of other orders included (`DiskOK`); that a chain on
its way to the disk is the last one issued (`ChainOK`); and that every start loads
the same pair when the server does not manage the certificate
(`UnmanagedIsConstant`).

**TransportProofs.** `StreamsStayInOrder`. `OrderInv` has for each direction
(`WayOK`) that what the receiver has is a prefix of what was written (`AheadOf`),
that the bytes on their way continue it (`Arriving`, while its driver runs), and
that nothing is missing (`Complete`, while nothing closes that direction). Around
it: yamux holds whole frames (`OutboxWhole`), whatever closes a direction is
recorded as an end (`EndIsKnown`), and the client never finds an inbound stream
that `poll_fn` could drop (`NothingToDiscard`). The last needs that the server
opens no streams; section 4 tells what happens otherwise. SequenceFacts has the
lemmas on flattening a sequence of messages and treats concatenation as an
algebra with an operator of its own (`Cat`). `CallsStayKnown`
(`NoCallForgotten`) is the part of `OpenEnds` that needs no fairness: a waiting caller's request is in the channel
or pending (`QueueMoves`), the driver's end answers exactly those
(`FinishTellsCallers`), and with `EndIsKnown` it is inductive.

**DataPathProofs.** `ExchangeIsFaithful`, `CapturesStayHonest` and
`ExchangeGoesOn`. For the first,
`ReaderInv` says at every place of the reader what its buffer, followed by the
bytes that the server has not read yet (`Rest`), must be: at a header the
sections that are left (`AtHead`), at a size line the chunks that are left
(`AtSize`), inside a chunk the rest of it with its line end (`AtData`,
`AtCrlf`), and so on. Because buffer and rest appear only together, the
invariant does not depend on where a read cuts: `ReceiveOK` is associativity,
and the steps of the parser (`HeadAdvance`, `SizeAdvance`, ..., `AdvanceOK`)
take a known piece off the front (`TakeBytes`, and `FindAfter` for the searches
for line ends). Each of them shows an `Outcome`: the reader goes on, has the
whole response, or is right to refuse. `AdvanceOK` adds that a reader which is
not waiting for the close never asks for more when nothing is left, so that a
refusal at the end of the stream means a cut (`ServerReadsEndOK`, with
`PathInv`: nothing is read that was not forwarded, and a pump that is done has
forwarded everything). The attempt found the property too strong as it was first
stated: a close-delimited response over the limit that is cut below it is
accepted. For the second, `CaptureInv` says that nothing is kept before the
bridge is over, so the number of forwarded bytes is final when a capture is made
(`RequestCaptureGood` is the arithmetic of the two limits), and that what is
being replayed was not truncated. The third is the part of `ExchangeEnds` that
needs no fairness; it spells the guards of the actions out, because ENABLED is
outside the prover. A server that writes waits for the pump, and the pump for
the service, which reads (`UpInv`: nothing is forwarded that was not written, or
heard that was not forwarded). A server that reads has written everything; if the
way down is empty and the service has nothing left to write, the whole response
has been read, and by `AdvanceOK` the reader does not ask for more
(`NotAllWait`).

Induction over data is out of reach of the SMT and Zenon backends as the library
states it (a predicate as a parameter). Where a proof needs it (sums over finite
sets in HttpProxyProofs, flattened sequences in SequenceFacts) it argues by a
smallest counterexample instead: the set of bad numbers is a set, and `WFMin`
gives it a least element.

Only model-checked: the liveness properties (fairness and ENABLED are outside the
proof system).
`GaugeExact`, `CapacityRespected`, `StreamsCounted`, `HandshakeInv`,
`NoCallForgotten` and the types of the modules are proved and therefore not part
of a run.

## 6. Not modelled

Encoding of messages (generated code), JWT and the bcrypt function itself (cryptography), the HTTP
exchange with Cloudflare and the ACME service (external), parsing of
configuration and arguments, terminal and web output, metrics. TLS handshakes,
yamux, WebSocket framing and HTTP parsing of the public side are library code.
Header filters (`serialize_http_request`, the response's header list), the
character rules of subdomains and the redirect of plain HTTP are pure functions
on strings without state. The event feeds of both inspection UIs and their access
checks keep no state that another component reads. The locks of the capture map
(`server/tunnel_manager.rs:516`) need the executor's worker threads and the map's
shards as state: how tasks share threads is not something this repository's code
determines. The five seconds between cancellation and exit are real time.

## 7. Plan

Done: registry with its abstract specification and proofs, control session with
proofs, stream correlation, idle reaper, client reconnect, the HTTP request path
with basic auth and captures, the transport, the certificate store, and the data
path from the server's request to the local service and back.

Proved: every safety property of these modules, among them that the registry
implements its abstract specification.

Next:

1. ControlSession - what holds while the session is stuck, beyond that it stays
   so: which tunnels stay published;
2. the safety part behind the liveness properties: that a waiting task always has
   somebody who can wake it, for TunnelRegistry and HttpProxy.
