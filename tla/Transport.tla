------------------------------ MODULE Transport ------------------------------
(***************************************************************************)
(* The multiplexed connection under a session (rgrok-proto transport.rs):  *)
(* on each side a driver task owns the yamux connection, opens streams for *)
(* callers of open_stream, hands inbound streams to an acceptor through a  *)
(* bounded channel, and reads and writes bytes through WsCompat, which     *)
(* turns WebSocket messages into a byte stream.                            *)
(*                                                                         *)
(* A stream is named after the caller that opened it and shows itself to   *)
(* the other side by one frame of two bytes.  Both sides run the same      *)
(* code; in the program only the client opens streams (ServerCallers is    *)
(* empty), and the driver relies on that: see PollOutbound.                *)
(***************************************************************************)
EXTENDS Naturals, Sequences, SequencesExt

CONSTANTS
  ClientCallers, ServerCallers,  \* calls of open_stream on each side
  Cap,                           \* room in each channel (32 in the code)
  MaxNoise,                      \* bound: messages that carry no bytes
  None

ASSUME TransportBounds == Cap \in Nat \ {0} /\ MaxNoise \in Nat

Callers == ClientCallers \cup ServerCallers

ASSUME OnlyClientOpens == ServerCallers = {} /\ None \notin Callers

Side == {"client", "server"}
Peer(s) == IF s = "client" THEN "server" ELSE "client"
SideOf(c) == IF c \in ClientCallers THEN "client" ELSE "server"

VARIABLES
  call,      \* where each call of open_stream stands
  openq,     \* open_tx: requests on their way to the driver
  pending,   \* pending_reply of the driver
  driver,    \* the driver's place: "top", "poll", "send" or "done"
  held,      \* the stream it is sending to the acceptor, as a sequence
  inq,       \* inbound_tx: streams on their way to the acceptor
  acceptor,  \* whether the receiving end of that channel still exists
  got,       \* history: streams the acceptor received, in order
  outbox,    \* bytes yamux has to send
  decoded,   \* bytes of an incomplete or unclaimed inbound frame
  ws,        \* WsCompat: its read buffer and its closed flag
  net,       \* WebSocket messages on their way to each side
  link,      \* "up", or "broken" when the TCP connection is gone
  written,   \* history: streams whose frame was handed to yamux, in order
  noise,     \* messages without bytes so far
  ended      \* history: a session, an acceptor or the network gave up

queues == <<openq, inq, held, got>>
bytes == <<outbox, decoded, ws, net, written, noise>>
vars == <<call, pending, driver, acceptor, link, ended, queues, bytes>>

Frame(c) == <<<<c, 1>>, <<c, 2>>>>
Binary(data) == [kind |-> "binary", data |-> data]
Control == [kind |-> "control", data |-> <<>>]   \* ping, pong, text
CloseMsg == [kind |-> "close", data |-> <<>>]

Bytes == Callers \X {1, 2}
Messages == [kind : {"binary", "control", "close"}, data : Seq(Bytes)]
Reads == [buf : Seq(Bytes), closed : BOOLEAN]

TypeOK ==
  /\ call \in [Callers -> {"idle", "sends", "waits", "open", "used", "failed", "dropped"}]
  /\ pending \in [Side -> Callers \cup {None}]
  /\ driver \in [Side -> {"top", "poll", "send", "done"}]
  /\ acceptor \in [Side -> {"running", "stopped"}]
  /\ openq \in [Side -> Seq(Callers)] /\ inq \in [Side -> Seq(Callers)]
  /\ held \in [Side -> Seq(Callers)] /\ got \in [Side -> Seq(Callers)]
  /\ written \in [Side -> Seq(Callers)]
  /\ outbox \in [Side -> Seq(Bytes)] /\ decoded \in [Side -> Seq(Bytes)]
  /\ ws \in [Side -> Reads] /\ net \in [Side -> Seq(Messages)]
  /\ link \in {"up", "broken"} /\ noise \in Nat /\ ended \in BOOLEAN

Init ==
  /\ call = [c \in Callers |-> "idle"]
  /\ openq = [s \in Side |-> <<>>] /\ inq = [s \in Side |-> <<>>]
  /\ pending = [s \in Side |-> None] /\ held = [s \in Side |-> <<>>]
  /\ driver = [s \in Side |-> "top"]
  /\ acceptor = [s \in Side |-> "running"] /\ got = [s \in Side |-> <<>>]
  /\ outbox = [s \in Side |-> <<>>] /\ decoded = [s \in Side |-> <<>>]
  /\ ws = [s \in Side |-> [buf |-> <<>>, closed |-> FALSE]]
  /\ net = [s \in Side |-> <<>>] /\ link = "up"
  /\ written = [s \in Side |-> <<>>] /\ noise = 0 /\ ended = FALSE

-----------------------------------------------------------------------------
(***************************************************************************)
(* YamuxControl::open_stream: a request with a oneshot for the answer is   *)
(* sent to the driver, then the answer is awaited.  A caller's task may be *)
(* dropped at either await.                                                *)
(***************************************************************************)
open_stream(c) ==
  /\ call[c] = "idle"
  /\ call' = [call EXCEPT ![c] = "sends"]
  /\ UNCHANGED <<pending, driver, acceptor, link, ended, queues, bytes>>

SendRequest(c) ==
  LET s == SideOf(c) IN
  /\ call[c] = "sends" /\ driver[s] # "done" /\ Len(openq[s]) < Cap
  /\ openq' = [openq EXCEPT ![s] = Append(@, c)]
  /\ call' = [call EXCEPT ![c] = "waits"]
  /\ UNCHANGED <<pending, driver, acceptor, link, ended, inq, held, got, bytes>>

SendRequestFails(c) ==
  /\ call[c] = "sends" /\ driver[SideOf(c)] = "done"
  /\ call' = [call EXCEPT ![c] = "failed"]
  /\ UNCHANGED <<pending, driver, acceptor, link, ended, queues, bytes>>

CallerDropped(c) ==
  /\ call[c] \in {"sends", "waits"}
  /\ call' = [call EXCEPT ![c] = "dropped"]
  /\ UNCHANGED <<pending, driver, acceptor, link, ended, queues, bytes>>

\* The first write on an open stream (the control stream's Auth, a data
\* stream's correlation id) gives yamux the frame that shows it to the peer.
FirstWrite(c) ==
  LET s == SideOf(c) IN
  /\ call[c] = "open"
  /\ call' = [call EXCEPT ![c] = "used"]
  /\ outbox' = [outbox EXCEPT ![s] = @ \o Frame(c)]
  /\ written' = [written EXCEPT ![s] = Append(@, c)]
  /\ UNCHANGED <<pending, driver, acceptor, link, ended, queues, decoded, ws, net, noise>>

-----------------------------------------------------------------------------
(***************************************************************************)
(* WsCompat, called by yamux while the driver polls it.                    *)
(***************************************************************************)
Dead(s) == link = "broken" \/ ws[s].closed

TakeDroppingRest(s, d, n) ==
  /\ decoded' = [decoded EXCEPT ![s] = @ \o SubSeq(d, 1, n)]
  /\ ws' = [ws EXCEPT ![s].buf = <<>>]

\* poll_read with room for n bytes of the data d: what is left of a message
\* is kept for the next call.
Take(s, d, n) ==
  /\ decoded' = [decoded EXCEPT ![s] = @ \o SubSeq(d, 1, n)]
  /\ ws' = [ws EXCEPT ![s].buf = SubSeq(d, n + 1, Len(d))]

Room(s, d) == {n \in 1..(2 - Len(decoded[s])) : n <= Len(d)}

ReadBuffered(s) ==
  /\ driver[s] = "poll" /\ ~Dead(s) /\ ws[s].buf # <<>>
  /\ \E n \in Room(s, ws[s].buf) : Take(s, ws[s].buf, n)
  /\ UNCHANGED <<call, pending, driver, acceptor, link, ended, queues, outbox, net, written, noise>>

ReadMessage(s) ==
  /\ driver[s] = "poll" /\ ~Dead(s) /\ ws[s].buf = <<>>
  /\ net[s] # <<>> /\ Head(net[s]).data # <<>>
  /\ \E n \in Room(s, Head(net[s]).data) : Take(s, Head(net[s]).data, n)
  /\ net' = [net EXCEPT ![s] = Tail(@)]
  /\ UNCHANGED <<call, pending, driver, acceptor, link, ended, queues, outbox, written, noise>>

\* Without the test for empty data, a read of no bytes, which is the end.
SkipMessageOrEnd(s) ==
  /\ driver[s] = "poll" /\ ~Dead(s) /\ ws[s].buf = <<>>
  /\ net[s] # <<>> /\ Head(net[s]).data = <<>> /\ Head(net[s]) # CloseMsg
  /\ net' = [net EXCEPT ![s] = Tail(@)]
  /\ ws' = [ws EXCEPT ![s].closed = Head(net[s]) = Binary(<<>>)]
  /\ UNCHANGED <<call, pending, driver, acceptor, link, ended, queues, outbox, decoded, written, noise>>

\* Control messages and empty binary ones are consumed, and reading goes on.
SkipMessage(s) ==
  /\ driver[s] = "poll" /\ ~Dead(s) /\ ws[s].buf = <<>>
  /\ net[s] # <<>> /\ Head(net[s]).data = <<>> /\ Head(net[s]) # CloseMsg
  /\ net' = [net EXCEPT ![s] = Tail(@)]
  /\ UNCHANGED <<call, pending, driver, acceptor, link, ended, queues, outbox, decoded, ws, written, noise>>

ReadClose(s) ==
  /\ driver[s] = "poll" /\ ~Dead(s) /\ ws[s].buf = <<>> /\ Len(decoded[s]) < 2
  /\ net[s] # <<>> /\ Head(net[s]) = CloseMsg
  /\ ws' = [ws EXCEPT ![s].closed = TRUE]
  /\ net' = [net EXCEPT ![s] = <<>>]
  /\ UNCHANGED <<call, pending, driver, acceptor, link, ended, queues, outbox, decoded, written, noise>>

NotClosing(s) == ~ws[s].closed /\ \A i \in DOMAIN net[s] : net[s][i] # CloseMsg

\* poll_write and poll_flush: each call makes one binary message of what
\* yamux gave it, a frame at once or its header and its body.
WriteFrame(s) ==
  LET p == Peer(s) f == SubSeq(outbox[s], 1, 2) IN
  /\ driver[s] = "poll" /\ ~Dead(s) /\ NotClosing(p) /\ outbox[s] # <<>>
  /\ outbox' = [outbox EXCEPT ![s] = SubSeq(@, 3, Len(@))]
  /\ \/ net' = [net EXCEPT ![p] = Append(@, Binary(f))]
     \/ net' = [net EXCEPT ![p] = @ \o <<Binary(<<f[1]>>), Binary(<<f[2]>>)>>]
  /\ UNCHANGED <<call, pending, driver, acceptor, link, ended, queues, decoded, ws, written, noise>>

-----------------------------------------------------------------------------
(***************************************************************************)
(* The driver task.  One pass: take a request if none is pending, poll,    *)
(* handle the event.                                                       *)
(***************************************************************************)
\* Without the test for a pending request.
TryRecvOverPending(s) ==
  /\ driver[s] = "top"
  /\ driver' = [driver EXCEPT ![s] = "poll"]
  /\ IF openq[s] # <<>>
     THEN /\ pending' = [pending EXCEPT ![s] = Head(openq[s])]
          /\ openq' = [openq EXCEPT ![s] = Tail(@)]
     ELSE UNCHANGED <<pending, openq>>
  /\ UNCHANGED <<call, acceptor, link, ended, inq, held, got, bytes>>

TryRecv(s) ==
  /\ driver[s] = "top"
  /\ driver' = [driver EXCEPT ![s] = "poll"]
  /\ IF pending[s] = None /\ openq[s] # <<>>
     THEN /\ pending' = [pending EXCEPT ![s] = Head(openq[s])]
          /\ openq' = [openq EXCEPT ![s] = Tail(@)]
     ELSE UNCHANGED <<pending, openq>>
  /\ UNCHANGED <<call, acceptor, link, ended, inq, held, got, bytes>>

Inbound(s) == Len(decoded[s]) = 2

\* poll_fn asks yamux for an inbound stream first; when it then returns an
\* event of the other kind, that stream is dropped.
DiscardInbound(s) == decoded' = IF Inbound(s) THEN [decoded EXCEPT ![s] = <<>>] ELSE decoded

\* poll_new_outbound is ready: the answer to the pending request; nobody may
\* be waiting for it any more.
PollOutbound(s) ==
  LET c == pending[s] IN
  /\ driver[s] = "poll" /\ c # None
  /\ call' = IF call[c] = "waits"
             THEN [call EXCEPT ![c] = IF Dead(s) THEN "failed" ELSE "open"]
             ELSE call
  /\ pending' = [pending EXCEPT ![s] = None]
  /\ DiscardInbound(s)
  /\ driver' = [driver EXCEPT ![s] = "top"]
  /\ UNCHANGED <<acceptor, link, ended, queues, outbox, ws, net, written, noise>>

PollRequest(s) ==
  /\ driver[s] = "poll" /\ pending[s] = None /\ openq[s] # <<>>
  /\ pending' = [pending EXCEPT ![s] = Head(openq[s])]
  /\ openq' = [openq EXCEPT ![s] = Tail(@)]
  /\ DiscardInbound(s)
  /\ driver' = [driver EXCEPT ![s] = "top"]
  /\ UNCHANGED <<call, acceptor, link, ended, inq, held, got, outbox, ws, net, written, noise>>

\* The poll gets as far as the inbound result: no request is there, or
\* poll_new_outbound was Pending (the peer has yet to acknowledge streams),
\* and the reply is kept for the next poll.
ReachesInbound(s) == driver[s] = "poll" /\ (pending[s] # None \/ openq[s] = <<>>)

PollInbound(s) ==
  /\ ReachesInbound(s)
  /\ Inbound(s)
  /\ held' = [held EXCEPT ![s] = <<decoded[s][1][1]>>]
  /\ decoded' = [decoded EXCEPT ![s] = <<>>]
  /\ driver' = [driver EXCEPT ![s] = "send"]
  /\ UNCHANGED <<call, pending, acceptor, link, ended, openq, inq, got, outbox, ws, net, written, noise>>

\* inbound_tx.send: while the channel is full nothing is read or written.
SendInbound(s) ==
  /\ driver[s] = "send" /\ acceptor[s] = "running" /\ Len(inq[s]) < Cap
  /\ inq' = [inq EXCEPT ![s] = @ \o held[s]]
  /\ held' = [held EXCEPT ![s] = <<>>]
  /\ driver' = [driver EXCEPT ![s] = "top"]
  /\ UNCHANGED <<call, pending, acceptor, link, ended, openq, got, bytes>>

\* The driver's end drops the connection, the pending reply and the channel
\* of requests: whoever waits for an answer gets Closed.
Finish(s) ==
  /\ driver' = [driver EXCEPT ![s] = "done"]
  /\ call' = [c \in Callers |->
                IF call[c] = "waits" /\ (c = pending[s] \/ c \in ToSet(openq[s]))
                THEN "failed" ELSE call[c]]
  /\ pending' = [pending EXCEPT ![s] = None]
  /\ openq' = [openq EXCEPT ![s] = <<>>]
  /\ held' = [held EXCEPT ![s] = <<>>]
  /\ link' = "broken"
  /\ UNCHANGED <<acceptor, inq, got, bytes>>

\* InboundError and InboundDone.
PollEnd(s) ==
  /\ ReachesInbound(s)
  /\ ~Inbound(s) /\ Dead(s)
  /\ Finish(s) /\ UNCHANGED ended

SendInboundFails(s) ==
  /\ driver[s] = "send" /\ acceptor[s] = "stopped"
  /\ Finish(s) /\ UNCHANGED ended

\* The session ends and aborts the task, wherever it waits.
Abort(s) ==
  /\ driver[s] \in {"poll", "send"}
  /\ Finish(s) /\ ended' = TRUE

-----------------------------------------------------------------------------
(***************************************************************************)
(* The acceptor: the server's accept task starts a task per stream; the    *)
(* client's session loop only logs a stream it did not expect.             *)
(***************************************************************************)
Accept(s) ==
  /\ acceptor[s] = "running" /\ inq[s] # <<>>
  /\ got' = [got EXCEPT ![s] = Append(@, Head(inq[s]))]
  /\ inq' = [inq EXCEPT ![s] = Tail(@)]
  /\ UNCHANGED <<call, pending, driver, acceptor, link, ended, openq, held, bytes>>

StopAccepting(s) ==
  /\ acceptor[s] = "running"
  /\ acceptor' = [acceptor EXCEPT ![s] = "stopped"]
  /\ ended' = TRUE
  /\ UNCHANGED <<call, pending, driver, link, queues, bytes>>

(***************************************************************************)
(* The network: messages without bytes, a Close, the loss of the           *)
(* connection.                                                             *)
(***************************************************************************)
Noise(s) ==
  /\ noise < MaxNoise /\ link = "up" /\ NotClosing(s)
  /\ noise' = noise + 1
  /\ \E m \in {Control, Binary(<<>>)} : net' = [net EXCEPT ![s] = Append(@, m)]
  /\ UNCHANGED <<call, pending, driver, acceptor, link, ended, queues, outbox, decoded, ws, written>>

CloseArrives(s) ==
  /\ noise < MaxNoise /\ link = "up" /\ NotClosing(s)
  /\ noise' = noise + 1
  /\ net' = [net EXCEPT ![s] = Append(@, CloseMsg)]
  /\ ended' = TRUE
  /\ UNCHANGED <<call, pending, driver, acceptor, link, queues, outbox, decoded, ws, written>>

Break ==
  /\ link = "up"
  /\ link' = "broken" /\ ended' = TRUE
  /\ UNCHANGED <<call, pending, driver, acceptor, queues, bytes>>

-----------------------------------------------------------------------------
Read(s) == ReadBuffered(s) \/ ReadMessage(s) \/ SkipMessage(s) \/ ReadClose(s)

Drive(s) ==
  \/ TryRecv(s) \/ PollOutbound(s) \/ PollRequest(s) \/ PollInbound(s)
  \/ SendInbound(s) \/ PollEnd(s) \/ SendInboundFails(s)

Next ==
  \/ \E c \in Callers : \/ open_stream(c) \/ SendRequest(c) \/ SendRequestFails(c)
                        \/ CallerDropped(c) \/ FirstWrite(c)
  \/ \E s \in Side : \/ Read(s) \/ WriteFrame(s) \/ Drive(s) \/ Abort(s)
                     \/ Accept(s) \/ StopAccepting(s) \/ Noise(s) \/ CloseArrives(s)
  \/ Break

(* The runtime polls every task that can go on, and the driver reads and   *)
(* writes in every poll.  Nobody has to call open_stream.                  *)
Fairness ==
  /\ \A s \in Side : WF_vars(Read(s)) /\ WF_vars(WriteFrame(s)) /\ WF_vars(Drive(s))
                     /\ WF_vars(Accept(s))
  /\ \A c \in Callers : WF_vars(SendRequest(c)) /\ WF_vars(SendRequestFails(c))

Spec == Init /\ [][Next]_vars /\ Fairness

-----------------------------------------------------------------------------
BytesOf(streams) == FlattenSeq([i \in DOMAIN streams |-> Frame(streams[i])])
Payload(messages) == FlattenSeq([i \in DOMAIN messages |-> messages[i].data])

(* What one side wrote and what the other side received, decoded, holds    *)
(* in its buffers or has still to read are the same bytes in the same      *)
(* order: however messages are cut, mixed with control messages and read   *)
(* in pieces, and however full the channels are, no stream is lost,        *)
(* repeated or overtaken until somebody ends the connection (transport.rs  *)
(* poll_read, spawn_yamux_driver); after that the acceptor has a prefix.   *)
StreamsInOrder ==
  \A s \in Side : LET p == Peer(s) IN
    /\ IsPrefix(got[p], written[s])
    /\ ~ended =>
         BytesOf(got[p] \o inq[p] \o held[p]) \o decoded[p] \o ws[p].buf
           \o Payload(net[p]) \o outbox[s] = BytesOf(written[s])

(* A caller that waits for an answer is known to a driver that runs: its   *)
(* request is in the channel or is the pending one.  So nothing has to     *)
(* time out there, whatever the order of requests, inbound streams and     *)
(* ends; and no call fails unless somebody ended the connection            *)
(* (transport.rs open_stream, spawn_yamux_driver).                         *)
NoCallForgotten ==
  \A c \in Callers : LET s == SideOf(c) IN
    /\ call[c] = "waits" => driver[s] # "done" /\ (c = pending[s] \/ c \in ToSet(openq[s]))
    /\ call[c] = "failed" => ended

(* Every call of open_stream ends: with a stream, or with Closed when      *)
(* somebody ended the connection, also while requests are queued or        *)
(* pending (transport.rs open_stream, spawn_yamux_driver).                 *)
OpenEnds ==
  \A c \in Callers :
    call[c] \in {"sends", "waits"} ~>
      (call[c] \in {"open", "used", "dropped"} \/ (call[c] = "failed" /\ ended))

(* A stream that its opener has written to reaches the other side's        *)
(* acceptor unless somebody ends the connection: a driver that is blocked  *)
(* on a full channel, control messages or a message read in pieces delay   *)
(* it, and neither stop it nor end the connection (transport.rs).          *)
StreamArrives ==
  \A c \in Callers :
    call[c] = "used" ~> (c \in ToSet(got[Peer(SideOf(c))]) \/ ended)

=============================================================================
