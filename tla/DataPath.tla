------------------------------ MODULE DataPath ------------------------------
(***************************************************************************)
(* One exchange over a proxy stream, end to end: the server writes the     *)
(* request of a visitor into the stream and then reads the response        *)
(* (proxy.rs proxy_request_to_tunnel); the client connects to the local    *)
(* service and pumps bytes both ways, keeping a bounded copy for its       *)
(* inspection UI (tunnel.rs open_proxy_stream, local_proxy.rs, inspect.rs);*)
(* the UI replays what was captured.                                       *)
(*                                                                         *)
(* The bytes of both directions are known once request and response are    *)
(* chosen, so a channel is the numbers of bytes that went in and came out. *)
(* Every channel has room for Room bytes and a pump moves at most two at   *)
(* a time, so every way to cut the streams into reads occurs.              *)
(***************************************************************************)
EXTENDS ResponseReader

CONSTANTS
  Requests,     \* [head, body : lengths; inspect : whether the UI runs]
  Responses,    \* what the service may answer, see ResponseReader
  Services,     \* how the local service behaves, see ServiceReads
  MaxCap,       \* max_body_bytes of a capture
  Allowance,    \* HEADER_CAPTURE_ALLOWANCE
  Room,         \* room in each socket and in the stream's window
  MaxCaptures,  \* max_captures (100 in the code)
  MaxReplays    \* bound: replays started

ASSUME PathBounds ==
  /\ MaxCap \in Nat /\ Allowance \in Nat /\ MaxReplays \in Nat
  /\ Room \in Nat \ {0} /\ MaxCaptures \in Nat \ {0}

ASSUME PathInputs ==
  /\ Requests \subseteq [head : Nat, body : Nat, inspect : BOOLEAN]
  /\ \A r \in Responses : Sendable(r)

VARIABLES
  req, resp, service,  \* the exchange; never change
  server,    \* "writes", "reads", or "gone" when it has dropped the stream
  hungUp,    \* history: the visitor's connection went away
  reader,    \* the server's ResponseReader
  sent,      \* bytes of the request: written by the server,
  bytes_in,  \*   written to the local service by the client,
  heard,     \*   read by the service
  made,      \* bytes of the response: written by the service,
  bytes_out, \*   written to the stream by the client,
  taken,     \*   read by the server
  local,     \* the service's connection: "none", "open", "closed", "reset"
  bridge,    \* the client's task: "opens", "runs", "over" or "failed"
  upDone, downDone,  \* the two pumps, upstream to local and back
  captures,  \* the UI's queue
  replay,    \* the capture being replayed, as a sequence
  replays    \* replays started so far

path == <<sent, bytes_in, heard, made, bytes_out, taken>>
ui == <<captures, replay, replays>>
vars == <<req, resp, service, server, hungUp, reader, path, local, bridge,
          upDone, downDone, ui>>
chosen == <<req, resp, service>>

ReqLen == req.head + req.body
RespLen == Len(Wire(resp))
Least(a, b) == IF a < b THEN a ELSE b

Init ==
  /\ req \in Requests /\ resp \in Responses /\ service \in Services
  /\ server = "writes" /\ hungUp = FALSE /\ reader = NewReader
  /\ sent = 0 /\ bytes_in = 0 /\ heard = 0
  /\ made = 0 /\ bytes_out = 0 /\ taken = 0
  /\ local = "none" /\ bridge = "opens" /\ upDone = FALSE /\ downDone = FALSE
  /\ captures = <<>> /\ replay = <<>> /\ replays = 0

-----------------------------------------------------------------------------
(***************************************************************************)
(* The server.  Header and body are written completely before the first    *)
(* read.  Returning, with a response or an error, drops the stream.        *)
(***************************************************************************)
ServerWrites ==
  /\ server = "writes" /\ sent < ReqLen /\ sent - bytes_in < Room
  /\ bridge # "failed"
  /\ sent' = sent + 1
  /\ UNCHANGED <<chosen, server, hungUp, reader, bytes_in, heard, made, bytes_out, taken,
                 local, bridge, upDone, downDone, ui>>

\* The stream was closed under the server while it was writing.
ServerWriteFails ==
  /\ server = "writes" /\ sent < ReqLen /\ bridge = "failed"
  /\ server' = "gone" /\ reader' = Error(reader)
  /\ UNCHANGED <<chosen, hungUp, path, local, bridge, upDone, downDone, ui>>

ServerWritten ==
  /\ server = "writes" /\ sent = ReqLen
  /\ server' = "reads"
  /\ UNCHANGED <<chosen, hungUp, reader, path, local, bridge, upDone, downDone, ui>>

ServerParses ==
  /\ server = "reads" /\ ~Finished(reader) /\ ~NeedsMore(reader, resp)
  /\ reader' = Advance(reader, resp)
  /\ UNCHANGED <<chosen, server, hungUp, path, local, bridge, upDone, downDone, ui>>

ServerReads ==
  /\ server = "reads" /\ NeedsMore(reader, resp) /\ taken < bytes_out
  /\ \E n \in 1..Asks(reader, Least(2, bytes_out - taken)) :
       /\ reader' = Receive(reader, SubSeq(Wire(resp), taken + 1, taken + n))
       /\ taken' = taken + n
  /\ UNCHANGED <<chosen, server, hungUp, sent, bytes_in, heard, made, bytes_out,
                 local, bridge, upDone, downDone, ui>>

\* The end of the stream: the client's pump shut it down, or its task is gone.
ServerReadsEnd ==
  /\ server = "reads" /\ NeedsMore(reader, resp) /\ taken = bytes_out
  /\ downDone \/ bridge = "failed"
  /\ reader' = ReceiveEnd(reader)
  /\ UNCHANGED <<chosen, server, hungUp, path, local, bridge, upDone, downDone, ui>>

\* Only a response that ends with the connection is read with a time limit.
ServerReadTimeout ==
  /\ server = "reads" /\ reader.at = "close" /\ taken = bytes_out
  /\ ~downDone /\ bridge # "failed"
  /\ reader' = Error(reader)
  /\ UNCHANGED <<chosen, server, hungUp, path, local, bridge, upDone, downDone, ui>>

ServerReturns ==
  /\ server = "reads" /\ Finished(reader)
  /\ server' = "gone"
  /\ UNCHANGED <<chosen, hungUp, reader, path, local, bridge, upDone, downDone, ui>>

VisitorHangsUp ==
  /\ server # "gone" /\ ~hungUp
  /\ server' = "gone" /\ hungUp' = TRUE
  /\ UNCHANGED <<chosen, reader, path, local, bridge, upDone, downDone, ui>>

-----------------------------------------------------------------------------
(***************************************************************************)
(* The client's task: open_proxy_stream and bridge_streams.  Both pumps    *)
(* run in one task; the first error drops them and both connections.       *)
(***************************************************************************)
ConnectLocal ==
  /\ bridge = "opens"
  /\ bridge' = "runs" /\ local' = "open"
  /\ UNCHANGED <<chosen, server, hungUp, reader, path, upDone, downDone, ui>>

Fail ==
  /\ bridge' = "failed"
  /\ local' = IF local = "open" THEN "reset" ELSE local

\* Nothing listens on the local port.
ConnectLocalFails ==
  /\ bridge = "opens" /\ Fail
  /\ UNCHANGED <<chosen, server, hungUp, reader, path, upDone, downDone, ui>>

\* A chunk upstream only after the last one was answered.
ForwardUpInTurn ==
  /\ bridge = "runs" /\ ~upDone /\ local = "open"
  /\ bytes_in > 0 => bytes_out > 0
  /\ bytes_in < sent /\ bytes_in - heard < Room
  /\ \E n \in 1..2 : /\ bytes_in + n <= sent /\ bytes_in + n - heard <= Room
                     /\ bytes_in' = bytes_in + n
  /\ UNCHANGED <<chosen, server, hungUp, reader, sent, heard, made, bytes_out, taken,
                 local, bridge, upDone, downDone, ui>>

\* forward_and_capture: read, write_all, and the copy in the capture buffer,
\* which is a function of how much was forwarded.
ForwardUp ==
  /\ bridge = "runs" /\ ~upDone /\ local = "open"
  /\ bytes_in < sent /\ bytes_in - heard < Room
  /\ \E n \in 1..2 : /\ bytes_in + n <= sent /\ bytes_in + n - heard <= Room
                     /\ bytes_in' = bytes_in + n
  /\ UNCHANGED <<chosen, server, hungUp, reader, sent, heard, made, bytes_out, taken,
                 local, bridge, upDone, downDone, ui>>

\* The service has closed its connection: a write to it fails, or what was
\* written is swallowed by the operating system.
ForwardUpFails ==
  /\ bridge = "runs" /\ ~upDone /\ local = "closed" /\ bytes_in < sent
  /\ Fail
  /\ UNCHANGED <<chosen, server, hungUp, reader, path, upDone, downDone, ui>>

UpSwallowed ==
  /\ bridge = "runs" /\ ~upDone /\ local = "closed" /\ bytes_in < sent
  /\ bytes_in' = sent
  /\ UNCHANGED <<chosen, server, hungUp, reader, sent, heard, made, bytes_out, taken,
                 local, bridge, upDone, downDone, ui>>

\* The server dropped the stream: the end of the request for the service.
UpEnds ==
  /\ bridge = "runs" /\ ~upDone /\ server = "gone" /\ bytes_in = sent
  /\ upDone' = TRUE
  /\ UNCHANGED <<chosen, server, hungUp, reader, path, local, bridge, downDone, ui>>

ForwardDown ==
  /\ bridge = "runs" /\ ~downDone /\ server # "gone"
  /\ bytes_out < made /\ bytes_out - taken < Room
  /\ \E n \in 1..2 : /\ bytes_out + n <= made /\ bytes_out + n - taken <= Room
                     /\ bytes_out' = bytes_out + n
  /\ UNCHANGED <<chosen, server, hungUp, reader, sent, bytes_in, heard, made, taken,
                 local, bridge, upDone, downDone, ui>>

\* A write into a stream that the server has dropped fails.
ForwardDownFails ==
  /\ bridge = "runs" /\ ~downDone /\ server = "gone" /\ bytes_out < made
  /\ Fail
  /\ UNCHANGED <<chosen, server, hungUp, reader, path, upDone, downDone, ui>>

\* The service closed: the rest is forwarded, then the stream shut down.
DownEnds ==
  /\ bridge = "runs" /\ ~downDone /\ local = "closed" /\ bytes_out = made
  /\ downDone' = TRUE
  /\ UNCHANGED <<chosen, server, hungUp, reader, path, local, bridge, upDone, ui>>

\* The session's end aborts the task at any await.
BridgeAborted ==
  /\ bridge \in {"opens", "runs"} /\ Fail
  /\ UNCHANGED <<chosen, server, hungUp, reader, path, upDone, downDone, ui>>

-----------------------------------------------------------------------------
(***************************************************************************)
(* What the UI keeps of an exchange once both pumps have ended.            *)
(***************************************************************************)
CaptureLimit == MaxCap + Allowance
Captured == Least(bytes_in, CaptureLimit)

\* parse_request_for_capture and the truncation flag: the body starts where
\* find_body_offset finds the end of the headers, if that was kept.
RequestCapture ==
  LET found == Captured >= req.head IN
  [body |-> IF found THEN Least(Captured - req.head, MaxCap) ELSE 0,
   truncated |-> found /\ bytes_in - req.head > MaxCap]

StoreCapture(c) ==
  captures' = Append(IF Len(captures) >= MaxCaptures THEN Tail(captures) ELSE captures, c)

\* A prefix of a request line may have no method and URL to show.
BridgeEnds ==
  /\ bridge = "runs" /\ upDone /\ downDone
  /\ bridge' = "over"
  /\ \/ req.inspect /\ bytes_in > 0 /\ StoreCapture(RequestCapture)
     \/ ~(req.inspect /\ bytes_in >= req.head) /\ UNCHANGED captures
  /\ UNCHANGED <<chosen, server, hungUp, reader, path, local, upDone, downDone, replay, replays>>

(***************************************************************************)
(* The client's UI.                                                        *)
(***************************************************************************)
ReplayStartsUnchecked(i) ==
  /\ replays < MaxReplays /\ replay = <<>>
  /\ replay' = <<captures[i]>> /\ replays' = replays + 1
  /\ UNCHANGED <<chosen, server, hungUp, reader, path, local, bridge, upDone, downDone, captures>>

\* A truncated capture is refused; the queue's lock is not held after this.
ReplayStarts(i) ==
  /\ replays < MaxReplays /\ replay = <<>> /\ ~captures[i].truncated
  /\ replay' = <<captures[i]>> /\ replays' = replays + 1
  /\ UNCHANGED <<chosen, server, hungUp, reader, path, local, bridge, upDone, downDone, captures>>

ReplayAnswered ==
  /\ replay # <<>>
  /\ StoreCapture([replay[1] EXCEPT !.truncated = FALSE])
  /\ replay' = <<>>
  /\ UNCHANGED <<chosen, server, hungUp, reader, path, local, bridge, upDone, downDone, replays>>

ReplayFails ==
  /\ replay # <<>> /\ replay' = <<>>
  /\ UNCHANGED <<chosen, server, hungUp, reader, path, local, bridge, upDone, downDone,
                 captures, replays>>

ClearRequests ==
  /\ captures # <<>> /\ captures' = <<>>
  /\ UNCHANGED <<chosen, server, hungUp, reader, path, local, bridge, upDone, downDone,
                 replay, replays>>

-----------------------------------------------------------------------------
(***************************************************************************)
(* The local service, any program.  "eager" answers while it reads,        *)
(* "patient" answers when it has the whole request, "stubborn" stops       *)
(* reading while it has something to write.                                *)
(***************************************************************************)
ServiceReads ==
  /\ local = "open" /\ heard < bytes_in
  /\ service = "stubborn" => heard < req.head \/ made = RespLen
  /\ heard' = heard + 1
  /\ UNCHANGED <<chosen, server, hungUp, reader, sent, bytes_in, made, bytes_out, taken,
                 local, bridge, upDone, downDone, ui>>

ServiceWrites ==
  /\ local = "open" /\ made < RespLen /\ made - bytes_out < Room
  /\ heard >= (IF service = "patient" THEN ReqLen ELSE req.head)
  /\ made' = made + 1
  /\ UNCHANGED <<chosen, server, hungUp, reader, sent, bytes_in, heard, bytes_out, taken,
                 local, bridge, upDone, downDone, ui>>

\* It ends the connection after its response, or keeps it for another one.
ServiceCloses ==
  /\ local = "open" /\ made = RespLen /\ heard = ReqLen
  /\ local' = "closed"
  /\ UNCHANGED <<chosen, server, hungUp, reader, path, bridge, upDone, downDone, ui>>

\* The client shut the connection down, and nothing more can come.
ServiceSeesEnd ==
  /\ local = "open" /\ upDone /\ heard = bytes_in
  /\ made = RespLen \/ heard < ReqLen
  /\ local' = "closed"
  /\ UNCHANGED <<chosen, server, hungUp, reader, path, bridge, upDone, downDone, ui>>

\* It stops in the middle.
ServiceDies ==
  /\ local = "open" /\ local' = "closed"
  /\ UNCHANGED <<chosen, server, hungUp, reader, path, bridge, upDone, downDone, ui>>

-----------------------------------------------------------------------------
Server == ServerWrites \/ ServerWriteFails \/ ServerWritten \/ ServerParses \/ ServerReads
            \/ ServerReadsEnd \/ ServerReturns
UpPump == ForwardUp \/ ForwardUpFails \/ UpSwallowed \/ UpEnds
DownPump == ForwardDown \/ ForwardDownFails \/ DownEnds
Service == ServiceReads \/ ServiceWrites

Next ==
  \/ Server \/ ServerReadTimeout \/ VisitorHangsUp
  \/ ConnectLocal \/ ConnectLocalFails \/ UpPump \/ DownPump \/ BridgeAborted \/ BridgeEnds
  \/ \E i \in DOMAIN captures : ReplayStarts(i)
  \/ ReplayAnswered \/ ReplayFails \/ ClearRequests
  \/ Service \/ ServiceCloses \/ ServiceSeesEnd \/ ServiceDies

(* The runtimes poll their tasks, the timer fires, and the local service   *)
(* goes on reading and answering, and closes once its input has ended: the *)
(* code puts no limit on how long it may take.  It need not close before.  *)
Fairness ==
  /\ WF_vars(Server) /\ WF_vars(ServerReadTimeout)
  /\ WF_vars(ConnectLocal) /\ WF_vars(UpPump) /\ WF_vars(DownPump) /\ WF_vars(BridgeEnds)
  /\ WF_vars(ServiceReads) /\ WF_vars(ServiceWrites) /\ WF_vars(ServiceSeesEnd)

Spec == Init /\ [][Next]_vars /\ Fairness

-----------------------------------------------------------------------------
Cut == bridge = "failed" \/ (local = "closed" /\ made < RespLen)

(* However the stream is cut into reads, a response that the server        *)
(* accepts is the one the service sent, its framing removed; it is         *)
(* accepted without waiting for the connection to close; and one that is   *)
(* within the limits is refused only if it was cut short or a              *)
(* close-delimited one came too slowly (proxy.rs read_http_response).      *)
(* A close-delimited response that was cut short cannot be told from a     *)
(* shorter one.                                                            *)
ExchangeFaithful ==
  /\ reader.at = "ok" =>
       /\ Acceptable(resp) \/ (resp.framing = "close" /\ Cut /\ Len(reader.body) <= MaxBody)
       /\ reader.body = (IF resp.framing = "nobody" THEN <<>>
                         ELSE SubSeq(Body(resp), 1, Len(reader.body)))
       /\ Len(reader.body) < Len(Body(resp)) =>
            resp.framing = "nobody" \/ (resp.framing = "close" /\ Cut)
  /\ reader.at = "error" => ~Acceptable(resp) \/ Cut \/ resp.framing = "close"

(* A capture that the client's UI keeps, of the exchange or of a replay,   *)
(* holds the request's body up to the limit, and says so when it is cut,   *)
(* so that a replay repeats the whole body or is refused (local_proxy.rs   *)
(* bridge_with_capture, inspect.rs replay_request).  It holds for headers  *)
(* within the allowance and requests that were forwarded whole: longer     *)
(* headers or a visitor who leaves early give a shorter body, not flagged. *)
CapturesAreHonest ==
  req.head <= Allowance /\ bytes_in = ReqLen =>
    \A i \in DOMAIN captures :
      /\ captures[i].body = Least(req.body, MaxCap)
      /\ captures[i].truncated = (req.body > MaxCap)

\* Who has a step to take: the guards of the actions.
ServerCanGoOn ==
  \/ server = "writes" /\ (sent = ReqLen \/ sent - bytes_in < Room)
  \/ server = "reads" /\ (~NeedsMore(reader, resp) \/ taken < bytes_out)
  \/ server = "reads" /\ (downDone \/ reader.at = "close")
UpCanGoOn == bytes_in < sent /\ (local = "closed" \/ bytes_in - heard < Room)
DownCanGoOn ==
  ~downDone /\ (local = "closed" \/ bytes_out < made) /\ (bytes_out = made \/ bytes_out - taken < Room)
ServiceCanGoOn ==
  /\ local = "open"
  /\ \/ heard < bytes_in
     \/ /\ made < RespLen /\ made - bytes_out < Room
        /\ heard >= (IF service = "patient" THEN ReqLen ELSE req.head)

(* Nobody waits for somebody who waits for him: while the client's task    *)
(* runs and the server is not done, one of the server, the two pumps and   *)
(* the service can go on, however small the buffers are and however much   *)
(* of the stream lies in them.  In particular the server never reads for   *)
(* more of a response that it has had in full while the service keeps the  *)
(* connection open (proxy.rs read_http_response, local_proxy.rs            *)
(* bridge_with_capture).  The stubborn service is the exception, because   *)
(* the server reads only after it has written everything.                  *)
SomebodyGoesOn ==
  service # "stubborn" /\ bridge = "runs" /\ server # "gone" =>
    ServerCanGoOn \/ UpCanGoOn \/ DownCanGoOn \/ ServiceCanGoOn

(* Once the client's task runs, the server comes to an answer and the      *)
(* client's task ends, also when the service waits for the whole request   *)
(* and when one side stops halfway: the pumps never wait for each other    *)
(* (local_proxy.rs bridge_with_capture).  A service that stops reading     *)
(* until its answer is taken is the exception, because the server reads    *)
(* only after it has written everything.                                   *)
ExchangeEnds ==
  /\ (service # "stubborn" /\ bridge = "runs") ~> Finished(reader) \/ hungUp
  /\ (server = "gone") ~> (bridge \in {"over", "failed"})

=============================================================================
