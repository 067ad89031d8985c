---------------------------- MODULE StreamProofs ----------------------------
(***************************************************************************)
(* Proofs about the streams of a tunnel: StreamCorrelation, which gives    *)
(* every request its own, for every set of requests, every size of the id  *)
(* space that can tell them apart and every value at which the counter     *)
(* starts, the wrap to 0 included; and IdleReaper, which spares the tunnel *)
(* that has one, for every set of tunnels and visitors and every timeout.  *)
(***************************************************************************)
EXTENDS StreamCorrelation, IdleReaper, FiniteSetTheorems, TLAPS

-----------------------------------------------------------------------------
(* Each request has its own stream (StreamCorrelation). *)

Drawn == {r \in Requests : state[r] # "idle"}

(* How long ago an id was drawn, counted in draws: IdSpace for the id that *)
(* comes next, whose last use is a whole turn of the counter away.         *)
Age(i) ==
  IF i < next_correlation_id THEN next_correlation_id - i
                             ELSE next_correlation_id - i + IdSpace

(* A request has an id once it has drawn one; the ids in use were drawn    *)
(* within as many draws as there were requests, and all differ.            *)
IdsOK ==
  /\ \A r \in Drawn : id[r] \in CorrelationIds /\ Age(id[r]) <= Cardinality(Drawn)
  /\ \A r, q \in Drawn : id[r] = id[q] => r = q

(* An entry of the map lies under its own request's id. *)
EntriesOK ==
  \A i \in CorrelationIds :
    pending_streams[i] # None => pending_streams[i] \in Drawn /\ id[pending_streams[i]] = i

(* A StreamOpen, its stream and its resolution are stages of one thing,    *)
(* which exists once at most and only after SendOpen.                      *)
StagesOK ==
  \A r \in Requests :
    /\ r \in control_rx => r \notin opens \cup streams
    /\ r \in opens => r \notin streams
    /\ r \in control_rx \cup opens \cup streams => resolving[r] = None
    /\ r \in control_rx \cup opens \cup streams \/ resolving[r] # None =>
         state[r] \notin {"idle", "opening"}
    /\ resolving[r] # None => resolving[r] = r

CorrelationInv ==
  TypeOK /\ IdsOK /\ EntriesOK /\ StagesOK /\ ServedByOwnStream /\ WaitingIsReachable

-----------------------------------------------------------------------------
(* fetch_add on the counter wraps at the end of the id space. *)
LEMMA Wraps ==
  ASSUME NEW n \in CorrelationIds
  PROVE  (n + 1) % IdSpace = IF n + 1 = IdSpace THEN 0 ELSE n + 1
BY IdSpaceAssumption DEF CorrelationIds

LEMMA DrawnFinite == IsFiniteSet(Drawn) /\ Cardinality(Drawn) \in Nat
BY IdSpaceAssumption, FS_Subset, FS_CardinalityType DEF Drawn

(* While a request has not drawn yet, the next id is nobody's. *)
LEMMA NextIsFresh ==
  ASSUME TypeOK, IdsOK, NEW r \in Requests, state[r] = "idle"
  PROVE  /\ Cardinality(Drawn) < IdSpace
         /\ \A q \in Drawn : id[q] # next_correlation_id
<1>1. Drawn \subseteq Requests /\ Drawn # Requests BY DEF Drawn
<1>2. Cardinality(Drawn) < Cardinality(Requests)
  <2>1. /\ Cardinality(Drawn) <= Cardinality(Requests)
        /\ Cardinality(Drawn) # Cardinality(Requests)
    BY <1>1, IdSpaceAssumption, FS_Subset
  <2>2. Cardinality(Requests) \in Nat BY IdSpaceAssumption, FS_CardinalityType
  <2>3. QED BY <2>1, <2>2, DrawnFinite
<1>3. Cardinality(Drawn) < IdSpace
  BY <1>2, DrawnFinite, IdSpaceAssumption, FS_CardinalityType
<1>4. ASSUME NEW q \in Drawn, id[q] = next_correlation_id PROVE FALSE
  <2>1. Age(id[q]) = IdSpace BY <1>4, IdSpaceAssumption DEF Age, TypeOK, CorrelationIds
  <2>2. QED BY <2>1, <1>3, DrawnFinite, IdSpaceAssumption DEF IdsOK
<1>5. QED BY <1>3, <1>4

LEMMA DrawKeepsIds ==
  ASSUME TypeOK, IdsOK, NEW r \in Requests, Draw(r)
  PROVE  IdsOK' /\ Drawn' = Drawn \cup {r} /\ r \notin Drawn
<1> USE IdSpaceAssumption
<1>1. state[r] = "idle" BY DEF Draw
<1>2. Drawn' = Drawn \cup {r} /\ r \notin Drawn BY DEF Draw, Drawn, TypeOK
<1>3. Cardinality(Drawn') = Cardinality(Drawn) + 1
  BY <1>2, DrawnFinite, FS_AddElement
<1>4. /\ id'[r] = next_correlation_id
      /\ \A q \in Drawn : id'[q] = id[q] /\ id[q] # next_correlation_id
  BY <1>1, <1>2, NextIsFresh DEF Draw, TypeOK, Drawn
<1>5. next_correlation_id' = IF next_correlation_id + 1 = IdSpace THEN 0
                                                                 ELSE next_correlation_id + 1
  BY Wraps DEF Draw, TypeOK
<1>6. ASSUME NEW q \in Drawn' PROVE id'[q] \in CorrelationIds /\ Age(id[q])' <= Cardinality(Drawn)'
  <2>1. CASE q = r
    <3>1. id'[q] \in CorrelationIds BY <1>4, <2>1 DEF TypeOK
    <3>2. Age(id[q])' = 1 BY <1>4, <1>5, <2>1 DEF Age, TypeOK, CorrelationIds
    <3>3. QED BY <3>1, <3>2, <1>3, DrawnFinite
  <2>2. CASE q \in Drawn
    <3>1. id'[q] = id[q] /\ id[q] \in CorrelationIds /\ id[q] # next_correlation_id
      BY <1>4, <2>2 DEF IdsOK
    <3>2. Age(id[q])' = Age(id[q]) + 1
      <4> DEFINE n == next_correlation_id
      <4>1. n \in 0 .. (IdSpace - 1) /\ id[q] \in 0 .. (IdSpace - 1) /\ id[q] # n
        BY <3>1 DEF TypeOK, CorrelationIds
      <4>2. CASE n + 1 = IdSpace
        <5>1. Age(id[q]) = n - id[q] BY <4>1, <4>2 DEF Age
        <5>2. Age(id[q])' = IdSpace - id[q] BY <3>1, <4>1, <4>2, <1>5 DEF Age
        <5>3. QED BY <4>1, <4>2, <5>1, <5>2
      <4>3. CASE n + 1 # IdSpace
        <5>1. next_correlation_id' = n + 1 BY <1>5, <4>3
        <5>2. QED BY <3>1, <4>1, <4>3, <5>1 DEF Age
      <4>4. QED BY <4>2, <4>3
    <3>3. Age(id[q]) \in Int BY <3>1 DEF Age, TypeOK, CorrelationIds
    <3>4. QED BY <3>1, <3>2, <3>3, <2>2, <1>3, DrawnFinite DEF IdsOK
  <2>3. QED BY <1>2, <1>6, <2>1, <2>2
<1>7. \A q, p \in Drawn' : id'[q] = id'[p] => q = p
  BY <1>2, <1>4 DEF IdsOK
<1>8. QED BY <1>2, <1>6, <1>7 DEF IdsOK

-----------------------------------------------------------------------------
LEMMA CorrelationInit == Init => CorrelationInv
<1> SUFFICES ASSUME Init PROVE CorrelationInv
    OBVIOUS
<1>1. TypeOK BY IdSpaceAssumption DEF Init, TypeOK, States
<1>2. Drawn = {} BY DEF Init, Drawn
<1>3. IdsOK BY <1>2 DEF IdsOK
<1>4. EntriesOK /\ StagesOK /\ ServedByOwnStream /\ WaitingIsReachable
  BY DEF Init, EntriesOK, StagesOK, ServedByOwnStream, WaitingIsReachable
<1>5. QED BY <1>1, <1>3, <1>4 DEF CorrelationInv

LEMMA TypeStep == TypeOK /\ StagesOK /\ IdsOK /\ [Next]_vars => TypeOK'
<1> SUFFICES ASSUME TypeOK, StagesOK, IdsOK, [Next]_vars PROVE TypeOK'
    OBVIOUS
<1> USE IdSpaceAssumption DEF TypeOK, States, control
<1>1. ASSUME NEW r \in Requests, Draw(r) PROVE TypeOK'
  <2>1. next_correlation_id' \in CorrelationIds
    BY <1>1, Wraps DEF Draw, CorrelationIds
  <2>2. QED BY <1>1, <2>1 DEF Draw
<1>2. ASSUME NEW r \in Requests, SendOpen(r) \/ Forward(r) PROVE TypeOK'
      BY <1>2 DEF SendOpen, Forward
<1>3. ASSUME NEW r \in Requests, SendOpenFails(r) PROVE TypeOK'
      BY <1>3 DEF SendOpenFails, Forget
<1>4. ASSUME NEW r \in Requests, Served(r) PROVE TypeOK' BY <1>4 DEF Served
<1>5. ASSUME NEW r \in Requests, Timeout(r) PROVE TypeOK' BY <1>5 DEF Timeout, Forget
<1>6. ASSUME NEW r \in Requests, Dropped(r) PROVE TypeOK' BY <1>6 DEF Dropped
<1>7. ASSUME NEW r \in Requests, ClientOpens(r) PROVE TypeOK' BY <1>7 DEF ClientOpens
<1>8. ASSUME NEW r \in Requests, OpenLost(r) PROVE TypeOK' BY <1>8 DEF OpenLost
<1>9. ASSUME NEW r \in Requests, StreamDropped(r) PROVE TypeOK' BY <1>9 DEF StreamDropped
<1>10. ASSUME NEW r \in Requests, Resolve(r) PROVE TypeOK'
  <2>1. id[r] \in CorrelationIds BY <1>10 DEF Resolve, StagesOK, IdsOK, Drawn
  <2>2. QED BY <1>10, <2>1 DEF Resolve
<1>11. ASSUME NEW r \in Requests, Deliver(r) PROVE TypeOK' BY <1>11 DEF Deliver
<1>12. CASE SessionStuck \/ Close BY <1>12 DEF SessionStuck, Close
<1>13. CASE UNCHANGED vars BY <1>13 DEF vars, control
<1> HIDE DEF TypeOK
<1>14. QED
  BY <1>1, <1>2, <1>3, <1>4, <1>5, <1>6, <1>7, <1>8, <1>9, <1>10, <1>11, <1>12, <1>13
  DEF Next, RequestStep, AcceptStep

(* Only Draw touches ids. *)
LEMMA IdsStep == TypeOK /\ IdsOK /\ [Next]_vars => IdsOK'
<1> SUFFICES ASSUME TypeOK, IdsOK, [Next]_vars PROVE IdsOK'
    OBVIOUS
<1>1. ASSUME NEW r \in Requests, Draw(r) PROVE IdsOK' BY <1>1, DrawKeepsIds
<1>2. ASSUME UNCHANGED <<next_correlation_id, id>>, Drawn' = Drawn PROVE IdsOK'
      BY <1>2 DEF IdsOK, Age
<1>3. ASSUME NEW r \in Requests,
             \/ RequestStep(r) \/ Dropped(r) \/ Forward(r) \/ ClientOpens(r) \/ OpenLost(r)
             \/ AcceptStep(r) \/ StreamDropped(r)
      PROVE  UNCHANGED <<next_correlation_id, id>> /\ Drawn' = Drawn
  BY <1>3 DEF RequestStep, AcceptStep, SendOpen, SendOpenFails, Served, Timeout, Dropped,
              Forward, ClientOpens, OpenLost, StreamDropped, Resolve, Deliver, Drawn, TypeOK
<1>4. CASE SessionStuck \/ Close BY <1>4, <1>2 DEF SessionStuck, Close, Drawn
<1>5. CASE UNCHANGED vars BY <1>5, <1>2 DEF vars, Drawn
<1>6. QED BY <1>1, <1>2, <1>3, <1>4, <1>5 DEF Next

(* The map, the streams on their way and the tasks that wait. *)
LEMMA MatchingStep ==
  CorrelationInv /\ [Next]_vars =>
    EntriesOK' /\ StagesOK' /\ ServedByOwnStream' /\ WaitingIsReachable'
<1> DEFINE Goal == EntriesOK' /\ StagesOK' /\ ServedByOwnStream' /\ WaitingIsReachable'
<1> SUFFICES ASSUME CorrelationInv, [Next]_vars PROVE Goal
    OBVIOUS
<1> USE IdSpaceAssumption
    DEF CorrelationInv, TypeOK, EntriesOK, StagesOK, ServedByOwnStream, WaitingIsReachable,
        control
<1>0. \A r, q \in Requests : state[r] # "idle" /\ state[q] # "idle" /\ id[r] = id[q] => r = q
  BY DEF IdsOK, Drawn
<1>00. \A r \in Requests : state[r] # "idle" => id[r] \in CorrelationIds
  BY DEF IdsOK, Drawn
<1>1. ASSUME NEW r \in Requests, Draw(r) PROVE Goal
  <2>1. \A q \in Drawn : id[q] # next_correlation_id BY <1>1, NextIsFresh DEF Draw
  <2>2. Drawn' = Drawn \cup {r} /\ r \notin Drawn BY <1>1, DrawKeepsIds
  <2>3. EntriesOK' BY <1>1, <2>1, <2>2 DEF Draw
  <2>4. StagesOK' BY <1>1 DEF Draw
  <2>5. ServedByOwnStream' BY <1>1 DEF Draw
  <2>6. WaitingIsReachable' BY <1>1, <1>00, <2>1 DEF Draw, Drawn
  <2>7. QED BY <2>3, <2>4, <2>5, <2>6
<1>2. ASSUME NEW r \in Requests, SendOpen(r) \/ Forward(r) PROVE Goal
      BY <1>2 DEF SendOpen, Forward, Drawn
<1>3. ASSUME NEW r \in Requests, SendOpenFails(r) PROVE Goal
      BY <1>3, <1>0, <1>00 DEF SendOpenFails, Forget, Drawn
<1>4. ASSUME NEW r \in Requests, Served(r) PROVE Goal BY <1>4 DEF Served, Drawn
<1>5. ASSUME NEW r \in Requests, Timeout(r) PROVE Goal
      BY <1>5, <1>0, <1>00 DEF Timeout, Forget, Drawn
<1>6. ASSUME NEW r \in Requests, Dropped(r) PROVE Goal BY <1>6 DEF Dropped, Drawn
<1>7. ASSUME NEW r \in Requests, ClientOpens(r) PROVE Goal BY <1>7 DEF ClientOpens, Drawn
<1>8. ASSUME NEW r \in Requests, OpenLost(r) PROVE Goal BY <1>8 DEF OpenLost, Drawn
<1>9. ASSUME NEW r \in Requests, StreamDropped(r) PROVE Goal BY <1>9 DEF StreamDropped, Drawn
<1>10. ASSUME NEW r \in Requests, Resolve(r) PROVE Goal
  <2>1. state[r] \notin {"idle", "opening"} /\ resolving[r] = None BY <1>10 DEF Resolve
  <2>2. id[r] \in CorrelationIds BY <1>00, <2>1
  <2>3. pending_streams[id[r]] \in {None, r} BY <1>0, <2>1, <2>2 DEF Drawn
  <2>4. EntriesOK' BY <1>10, <2>2 DEF Resolve, Drawn
  <2>5. StagesOK' BY <1>10, <2>1, <2>3 DEF Resolve
  <2>6. ServedByOwnStream' BY <1>10 DEF Resolve
  <2>7. WaitingIsReachable' BY <1>10, <1>0, <1>00, <2>1, <2>2, <2>3 DEF Resolve
  <2>8. QED BY <2>4, <2>5, <2>6, <2>7
<1>11. ASSUME NEW r \in Requests, Deliver(r) PROVE Goal
  <2>1. resolving[r] = r /\ state[r] \notin {"idle", "opening"} BY <1>11 DEF Deliver
  <2>2. slot' = IF state[r] = "waiting" THEN [slot EXCEPT ![r] = r] ELSE slot
    BY <1>11, <2>1 DEF Deliver
  <2>3. QED BY <1>11, <2>1, <2>2 DEF Deliver, Drawn
<1>12. CASE SessionStuck \/ Close BY <1>12 DEF SessionStuck, Close, Drawn
<1>13. CASE UNCHANGED vars BY <1>13 DEF vars, Drawn
<1> HIDE DEF CorrelationInv, EntriesOK, StagesOK, ServedByOwnStream, WaitingIsReachable
<1>14. QED
  BY <1>1, <1>2, <1>3, <1>4, <1>5, <1>6, <1>7, <1>8, <1>9, <1>10, <1>11, <1>12, <1>13
  DEF Next, RequestStep, AcceptStep

LEMMA CorrelationStep == CorrelationInv /\ [Next]_vars => CorrelationInv'
BY TypeStep, IdsStep, MatchingStep DEF CorrelationInv

(* control.rs:260: the stream that serves a request was opened for it,     *)
(* whatever is late, lost, reordered or dropped, and across the wrap.      *)
THEOREM NobodyElsesStream == Spec => []ServedByOwnStream
<1>1. CorrelationInv => ServedByOwnStream BY DEF CorrelationInv
<1>2. QED BY <1>1, CorrelationInit, CorrelationStep, PTL DEF Spec

(* proxy.rs:1037, 1060: no other request's timeout, failure or draw takes  *)
(* the entry of a request that still waits.                                *)
THEOREM WaitersStayReachable == Spec => []WaitingIsReachable
<1>1. CorrelationInv => WaitingIsReachable BY DEF CorrelationInv
<1>2. QED BY <1>1, CorrelationInit, CorrelationStep, PTL DEF Spec

-----------------------------------------------------------------------------
(* A tunnel with a stream is not idle (IdleReaper). *)

Streams(t) == {v \in Visitors : target[v] = t /\ visit[v] \in {"starting", "in"}}

(* Which tunnels the visitors of each stage are on. *)
VisitorsPlaced ==
  \A v \in Visitors :
    /\ visit[v] # "out" => target[v] \in Tunnels
    /\ visit[v] = "auth" => target[v] \in Http
    /\ visit[v] \in {"accepted", "starting", "ending"} => target[v] \in Tcp

(* The counter is the number of the open streams, although their tasks     *)
(* change it without a lock.                                               *)
StreamsCounted == \A t \in Tcp : active_streams[t] = Cardinality(Streams(t))

(* The last stream to end has touched its tunnel, or a task is about to.   *)
EndTouched(t) ==
  \/ last_in_use[t] <= last_activity[t]
  \/ \E v \in Visitors : target[v] = t /\ visit[v] = "ending"

EndsTouched == \A t \in Tcp : EndTouched(t)

ReaperInv ==
  /\ ReaperTypeOK /\ VisitorsPlaced /\ StreamsCounted
  /\ EndsTouched /\ StreamsKeepTcpTunnels

LEMMA StreamsFinite == \A t : IsFiniteSet(Streams(t))
<1> TAKE t
<1>1. Streams(t) \subseteq Visitors /\ IsFiniteSet(Visitors)
    BY ReaperAssumption DEF Streams
<1> QED
    BY <1>1, FS_Subset

LEMMA ReaperTypeStep ==
  ReaperTypeOK /\ VisitorsPlaced /\ StreamsCounted /\ [ReaperNext]_idleVars => ReaperTypeOK'
<1> SUFFICES ASSUME ReaperTypeOK, VisitorsPlaced, StreamsCounted, [ReaperNext]_idleVars PROVE ReaperTypeOK'
    OBVIOUS
<1> USE ReaperAssumption DEF ReaperTypeOK, reaperVars, touch
<1>1. CASE Tick
    BY <1>1 DEF Tick
<1>2. CASE ReaperStep
    BY <1>2 DEF ReaperStep, ScanHttp, ScanTcp, ScanEnds, Reap
<1>3. ASSUME NEW v \in Visitors, VisitorStep(v) PROVE ReaperTypeOK'
  <2>1. ASSUME NEW t \in Tunnels, HttpRequest(v, t) PROVE ReaperTypeOK'
      BY <2>1 DEF HttpRequest
  <2>2. ASSUME NEW t \in Tunnels, TcpAccept(v, t) PROVE ReaperTypeOK'
      BY <2>2 DEF TcpAccept
  <2>3. CASE HttpAuthorized(v)
      BY <2>3 DEF HttpAuthorized, VisitorsPlaced
  <2>4. CASE HttpUnauthorized(v)
      BY <2>4 DEF HttpUnauthorized
  <2>5. CASE HttpResponse(v)
    <3>1. target[v] \in Tunnels
        BY <2>5 DEF HttpResponse, Tunnels
    <3>2. last_in_use' \in [Tunnels -> 0..now']
        BY <2>5, <3>1 DEF HttpResponse
    <3> QED
        BY <2>5, <3>2 DEF HttpResponse
  <2>6. CASE CountStream(v, "accepted", "starting", 1)
    <3>1. target[v] \in Tunnels /\ active_streams[target[v]] + 1 \in Nat
        BY <2>6 DEF CountStream, Tunnels
    <3> QED
        BY <2>6, <3>1 DEF CountStream
  <2>7. CASE TouchStream(v, "starting", "in") \/ TouchStream(v, "ending", "done")
      BY <2>7 DEF TouchStream, VisitorsPlaced
  <2>8. CASE CountStream(v, "in", "ending", -1)
    <3>1. v \in Streams(target[v]) /\ target[v] \in Tcp
        BY <2>8 DEF CountStream, Streams
    <3>2. Cardinality(Streams(target[v])) # 0
        BY <3>1, StreamsFinite, FS_EmptySet
    <3>3. active_streams[target[v]] # 0
        BY <3>1, <3>2 DEF StreamsCounted
    <3>4. target[v] \in Tunnels /\ active_streams[target[v]] + (-1) \in Nat
        BY <3>1, <3>3 DEF Tunnels
    <3> QED
        BY <2>8, <3>4 DEF CountStream
  <2> QED
      BY <1>3, <2>1, <2>2, <2>3, <2>4, <2>5, <2>6, <2>7, <2>8
      DEF VisitorStep, stream_started, stream_finished
<1>4. ASSUME NEW t \in Tunnels, SessionEnds(t) PROVE ReaperTypeOK'
    BY <1>4 DEF SessionEnds
<1>5. CASE UNCHANGED idleVars
    BY <1>5 DEF idleVars
<1> QED
    BY <1>1, <1>2, <1>3, <1>4, <1>5 DEF ReaperNext

LEMMA PlacedStep == ReaperTypeOK /\ VisitorsPlaced /\ [ReaperNext]_idleVars => VisitorsPlaced'
<1> SUFFICES ASSUME ReaperTypeOK, VisitorsPlaced, [ReaperNext]_idleVars PROVE VisitorsPlaced'
    OBVIOUS
<1> USE DEF ReaperTypeOK, VisitorsPlaced
<1>1. ASSUME UNCHANGED <<visit, target>> PROVE VisitorsPlaced'
    BY <1>1
<1>2. CASE Tick \/ ReaperStep
    BY <1>2, <1>1 DEF Tick, ReaperStep, ScanHttp, ScanTcp, ScanEnds, Reap
<1>3. ASSUME NEW v \in Visitors, VisitorStep(v) PROVE VisitorsPlaced'
  <2>1. ASSUME NEW t \in Tunnels, HttpRequest(v, t) PROVE VisitorsPlaced'
      BY <2>1 DEF HttpRequest
  <2>2. ASSUME NEW t \in Tunnels, TcpAccept(v, t) PROVE VisitorsPlaced'
      BY <2>2 DEF TcpAccept
  <2>3. CASE HttpAuthorized(v) \/ HttpUnauthorized(v) \/ HttpResponse(v)
      BY <2>3 DEF HttpAuthorized, HttpUnauthorized, HttpResponse
  <2>4. CASE stream_started(v) \/ stream_finished(v)
      BY <2>4 DEF stream_started, stream_finished, CountStream, TouchStream
  <2> QED
      BY <1>3, <2>1, <2>2, <2>3, <2>4 DEF VisitorStep
<1>4. ASSUME NEW t \in Tunnels, SessionEnds(t) PROVE VisitorsPlaced'
    BY <1>4, <1>1 DEF SessionEnds
<1>5. CASE UNCHANGED idleVars
    BY <1>5, <1>1 DEF idleVars
<1> QED
    BY <1>2, <1>3, <1>4, <1>5 DEF ReaperNext

(* Each task changes the counter by its own stream and by no other. *)
LEMMA CountedStep ==
  ReaperTypeOK /\ VisitorsPlaced /\ StreamsCounted /\ [ReaperNext]_idleVars => StreamsCounted'
<1> SUFFICES ASSUME ReaperTypeOK, VisitorsPlaced, StreamsCounted, [ReaperNext]_idleVars,
                    NEW t \in Tcp
             PROVE  active_streams'[t] = Cardinality(Streams(t)')
    BY DEF StreamsCounted
<1>0. /\ active_streams[t] = Cardinality(Streams(t)) /\ IsFiniteSet(Streams(t))
      /\ t \in Tunnels /\ t \notin Http
    BY StreamsFinite, ReaperAssumption DEF StreamsCounted, Tunnels
<1>1. ASSUME UNCHANGED active_streams, Streams(t)' = Streams(t)
      PROVE  active_streams'[t] = Cardinality(Streams(t)')
    BY <1>0, <1>1
<1>2. ASSUME UNCHANGED <<visit, target>> PROVE Streams(t)' = Streams(t)
    BY <1>2 DEF Streams
<1>3. CASE Tick \/ ReaperStep
    BY <1>3, <1>1, <1>2 DEF Tick, ReaperStep, ScanHttp, ScanTcp, ScanEnds, Reap
<1>4. ASSUME NEW v \in Visitors, VisitorStep(v)
      PROVE  active_streams'[t] = Cardinality(Streams(t)')
  <2> USE DEF ReaperTypeOK, Streams
  <2>1. ASSUME NEW u \in Tunnels, HttpRequest(v, u) \/ TcpAccept(v, u)
        PROVE  Streams(t)' = Streams(t) /\ UNCHANGED active_streams
      BY <2>1 DEF HttpRequest, TcpAccept
  <2>2. CASE HttpAuthorized(v)
    <3>1. target[v] # t
        BY <2>2, <1>0 DEF HttpAuthorized, VisitorsPlaced
    <3> QED
        BY <2>2, <3>1, <1>1 DEF HttpAuthorized
  <2>3. CASE HttpUnauthorized(v) \/ HttpResponse(v)
    <3>1. Streams(t)' = Streams(t)
        BY <2>3, <1>0 DEF HttpUnauthorized, HttpResponse
    <3> QED
        BY <2>3, <3>1, <1>1 DEF HttpUnauthorized, HttpResponse
  <2>4. CASE TouchStream(v, "starting", "in") \/ TouchStream(v, "ending", "done")
    <3>1. Streams(t)' = Streams(t)
        BY <2>4 DEF TouchStream
    <3> QED
        BY <2>4, <3>1, <1>1 DEF TouchStream
  <2>5. CASE CountStream(v, "accepted", "starting", 1)
    <3>1. CASE target[v] = t
      <4>1. v \notin Streams(t) /\ Streams(t)' = Streams(t) \cup {v}
          BY <2>5, <3>1 DEF CountStream
      <4>2. Cardinality(Streams(t)') = Cardinality(Streams(t)) + 1
          BY <4>1, <1>0, FS_AddElement
      <4> QED
          BY <2>5, <3>1, <4>2, <1>0 DEF CountStream
    <3>2. CASE target[v] # t
        BY <2>5, <3>2, <1>0 DEF CountStream
    <3> QED
        BY <3>1, <3>2
  <2>6. CASE CountStream(v, "in", "ending", -1)
    <3>1. CASE target[v] = t
      <4>1. v \in Streams(t) /\ Streams(t)' = Streams(t) \ {v}
          BY <2>6, <3>1 DEF CountStream
      <4> HIDE DEF Streams
      <4>2. Cardinality(Streams(t)') = Cardinality(Streams(t)) - 1
          BY <4>1, <1>0, FS_RemoveElement
      <4>3. active_streams'[t] = active_streams[t] - 1
          BY <2>6, <3>1, <1>0 DEF CountStream
      <4> QED
          BY <4>2, <4>3, <1>0
    <3>2. CASE target[v] # t
        BY <2>6, <3>2, <1>0 DEF CountStream
    <3> QED
        BY <3>1, <3>2
  <2> QED
      BY <1>4, <1>1, <2>1, <2>2, <2>3, <2>4, <2>5, <2>6
      DEF VisitorStep, stream_started, stream_finished
<1>5. ASSUME NEW u \in Tunnels, SessionEnds(u)
      PROVE  active_streams'[t] = Cardinality(Streams(t)')
    BY <1>5, <1>1, <1>2 DEF SessionEnds, reaperVars
<1>6. CASE UNCHANGED idleVars
    BY <1>6, <1>1, <1>2 DEF idleVars
<1> QED
    BY <1>3, <1>4, <1>5, <1>6 DEF ReaperNext

(* Whoever ends a stream either has touched its tunnel or is about to. *)
LEMMA EndsStep ==
  ReaperTypeOK /\ VisitorsPlaced /\ EndsTouched /\ [ReaperNext]_idleVars => EndsTouched'
<1> SUFFICES ASSUME ReaperTypeOK, VisitorsPlaced, EndsTouched, [ReaperNext]_idleVars,
                    NEW t \in Tcp
             PROVE  EndTouched(t)'
    BY DEF EndsTouched
<1>0. /\ EndTouched(t) /\ t \in Tunnels /\ t \notin Http
      /\ now \in Nat /\ last_in_use[t] \in 0..now /\ last_activity[t] \in 0..now
      /\ last_activity \in [Tunnels -> 0..now] /\ last_in_use \in [Tunnels -> 0..now]
      /\ DOMAIN visit = Visitors /\ DOMAIN target = Visitors
    BY ReaperAssumption DEF EndsTouched, ReaperTypeOK, Tunnels
<1>1. ASSUME UNCHANGED <<last_activity, last_in_use, visit, target>> PROVE EndTouched(t)'
    BY <1>0, <1>1 DEF EndTouched
<1>2. CASE Tick \/ ReaperStep
    BY <1>2, <1>1 DEF Tick, ReaperStep, ScanHttp, ScanTcp, ScanEnds, Reap
<1>3. ASSUME NEW v \in Visitors, VisitorStep(v) PROVE EndTouched(t)'
  <2>0. ASSUME last_activity'[t] = now, UNCHANGED last_in_use PROVE EndTouched(t)'
      BY <1>0, <2>0 DEF EndTouched
  <2>1. ASSUME last_activity'[t] = last_activity[t], last_in_use'[t] = last_in_use[t],
               \A u \in Visitors : target[u] = t /\ visit[u] = "ending" =>
                                   target'[u] = t /\ visit'[u] = "ending"
        PROVE  EndTouched(t)'
      BY <1>0, <2>1 DEF EndTouched
  <2>2. ASSUME NEW u \in Tunnels, HttpRequest(v, u) PROVE EndTouched(t)'
      BY <1>0, <2>2, <2>1 DEF HttpRequest
  <2>3. ASSUME NEW u \in Tunnels, TcpAccept(v, u) PROVE EndTouched(t)'
      BY <1>0, <2>3, <2>0, <2>1 DEF TcpAccept, touch
  <2>4. CASE HttpAuthorized(v)
    <3>1. target[v] # t
        BY <1>0, <2>4 DEF HttpAuthorized, VisitorsPlaced
    <3> QED
        BY <1>0, <2>4, <3>1, <2>1 DEF HttpAuthorized, touch
  <2>5. CASE HttpUnauthorized(v) \/ HttpResponse(v)
      BY <1>0, <2>5, <2>1 DEF HttpUnauthorized, HttpResponse
  <2>6. CASE CountStream(v, "accepted", "starting", 1)
      BY <1>0, <2>6, <2>1 DEF CountStream
  <2>7. CASE CountStream(v, "in", "ending", -1)
    <3>1. CASE target[v] = t
      <4>1. target'[v] = t /\ visit'[v] = "ending"
          BY <1>0, <2>7, <3>1 DEF CountStream
      <4> QED
          BY <4>1 DEF EndTouched
    <3>2. CASE target[v] # t
        BY <1>0, <2>7, <3>2, <2>1 DEF CountStream
    <3> QED
        BY <3>1, <3>2
  <2>8. CASE TouchStream(v, "starting", "in") \/ TouchStream(v, "ending", "done")
    <3>1. CASE target[v] = t
        BY <1>0, <2>8, <3>1, <2>0 DEF TouchStream, touch
    <3>2. CASE target[v] # t
        BY <1>0, <2>8, <3>2, <2>1 DEF TouchStream, touch
    <3> QED
        BY <3>1, <3>2
  <2> QED
      BY <1>3, <2>2, <2>3, <2>4, <2>5, <2>6, <2>7, <2>8
      DEF VisitorStep, stream_started, stream_finished
<1>4. ASSUME NEW u \in Tunnels, SessionEnds(u) PROVE EndTouched(t)'
    BY <1>4, <1>1 DEF SessionEnds
<1>5. CASE UNCHANGED idleVars
    BY <1>5, <1>1 DEF idleVars
<1> QED
    BY <1>2, <1>3, <1>4, <1>5 DEF ReaperNext

LEMMA KeepStep == ReaperInv /\ [ReaperNext]_idleVars => StreamsKeepTcpTunnels'
<1> SUFFICES ASSUME ReaperInv, [ReaperNext]_idleVars PROVE StreamsKeepTcpTunnels'
    OBVIOUS
<1> /\ ReaperTypeOK /\ VisitorsPlaced /\ StreamsCounted /\ StreamsKeepTcpTunnels
    BY DEF ReaperInv
<1> /\ now \in Nat /\ started \in Nat /\ started <= now
    /\ \A t \in Tunnels : last_activity[t] \in Nat /\ last_activity[t] <= now
    /\ last_activity \in [Tunnels -> 0..now] /\ candidates \subseteq Tunnels
    /\ target \in [Visitors -> Tunnels \cup {NoTunnel}] /\ DOMAIN visit = Visitors
    BY DEF ReaperTypeOK
<1>1. ASSUME UNCHANGED <<last_activity, started, target>>, candidates' \subseteq candidates,
             \A v \in Visitors : visit'[v] = "in" => visit[v] = "in" \/ target[v] \notin Tcp
      PROVE  StreamsKeepTcpTunnels'
    BY <1>1 DEF StreamsKeepTcpTunnels
<1>2. CASE Tick
    BY <1>2, <1>1 DEF Tick, reaperVars
<1>3. CASE ScanHttp
    BY <1>3, ReaperAssumption DEF ScanHttp, StreamsKeepTcpTunnels
<1>4. CASE ScanTcp
  <2> SUFFICES ASSUME NEW t \in candidates' \cap Tcp, NEW v \in Visitors,
                      target[v] = t, visit[v] = "in"
               PROVE  FALSE
      BY <1>4 DEF ScanTcp, StreamsKeepTcpTunnels
  <2>1. Cardinality(Streams(t)) = 0
      BY <1>4 DEF ScanTcp, Idle, StreamsCounted
  <2>2. Streams(t) = {}
      BY <2>1, StreamsFinite, FS_EmptySet
  <2> QED
      BY <2>2 DEF Streams
<1>5. CASE ScanEnds
    BY <1>5, <1>1 DEF ScanEnds
<1>6. ASSUME NEW t \in Tunnels, Reap(t) PROVE StreamsKeepTcpTunnels'
    BY <1>6, <1>1 DEF Reap
<1>7. ASSUME NEW v \in Visitors, VisitorStep(v) PROVE StreamsKeepTcpTunnels'
  <2>0. ASSUME touch(target'[v]), target'[v] \in Tunnels, UNCHANGED reaperVars,
               \A u \in Visitors \ {v} : target'[u] = target[u] /\ visit'[u] = visit[u]
        PROVE  StreamsKeepTcpTunnels'
    <3> SUFFICES ASSUME NEW t \in candidates \cap Tcp, NEW u \in Visitors,
                        target'[u] = t, visit'[u] = "in"
                 PROVE  last_activity'[t] >= started
        BY <2>0 DEF StreamsKeepTcpTunnels, reaperVars
    <3>1. CASE t = target'[v]
        BY <2>0, <3>1 DEF touch
    <3>2. CASE t # target'[v]
        BY <2>0, <3>2 DEF touch, StreamsKeepTcpTunnels
    <3> QED
        BY <3>1, <3>2
  <2>1. ASSUME NEW t \in Tunnels, HttpRequest(v, t) PROVE StreamsKeepTcpTunnels'
      BY <2>1 DEF HttpRequest, reaperVars, StreamsKeepTcpTunnels
  <2>2. ASSUME NEW t \in Tunnels, TcpAccept(v, t) PROVE StreamsKeepTcpTunnels'
      BY <2>2, <2>0 DEF TcpAccept
  <2>3. CASE HttpAuthorized(v)
      BY <2>3, <2>0 DEF HttpAuthorized, VisitorsPlaced
  <2>4. CASE HttpUnauthorized(v) \/ HttpResponse(v)
      BY <2>4, <1>1 DEF HttpUnauthorized, HttpResponse, reaperVars
  <2>5. CASE \/ CountStream(v, "accepted", "starting", 1)
             \/ CountStream(v, "in", "ending", -1)
      BY <2>5, <1>1 DEF CountStream, reaperVars
  <2>6. CASE TouchStream(v, "starting", "in") \/ TouchStream(v, "ending", "done")
      BY <2>6, <2>0 DEF TouchStream, VisitorsPlaced
  <2> QED
      BY <1>7, <2>1, <2>2, <2>3, <2>4, <2>5, <2>6
      DEF VisitorStep, stream_started, stream_finished
<1>8. ASSUME NEW t \in Tunnels, SessionEnds(t) PROVE StreamsKeepTcpTunnels'
    BY <1>8, <1>1 DEF SessionEnds, reaperVars
<1>9. CASE UNCHANGED idleVars
    BY <1>9, <1>1 DEF idleVars
<1> QED
    BY <1>2, <1>3, <1>4, <1>5, <1>6, <1>7, <1>8, <1>9 DEF ReaperNext, ReaperStep

LEMMA ReaperInvHolds == ReaperSpec => []ReaperInv
<1>1. ReaperInit => ReaperInv
  <2> SUFFICES ASSUME ReaperInit PROVE ReaperInv
      OBVIOUS
  <2>1. ReaperTypeOK
      BY ReaperAssumption DEF ReaperInit, ReaperTypeOK
  <2>2. VisitorsPlaced /\ EndsTouched /\ StreamsKeepTcpTunnels
      BY DEF ReaperInit, VisitorsPlaced, EndsTouched, EndTouched, StreamsKeepTcpTunnels, Tunnels
  <2>3. \A t \in Tcp : Streams(t) = {} /\ active_streams[t] = 0
      BY DEF ReaperInit, Streams, Tunnels
  <2>4. StreamsCounted
      BY <2>3, FS_EmptySet DEF StreamsCounted
  <2> QED
      BY <2>1, <2>2, <2>4 DEF ReaperInv
<1>2. ReaperInv /\ [ReaperNext]_idleVars => ReaperInv'
    BY ReaperTypeStep, PlacedStep, CountedStep, EndsStep, KeepStep DEF ReaperInv
<1> QED
    BY <1>1, <1>2, PTL DEF ReaperSpec

(* A TCP tunnel with an open stream is never reaped by a pass that began   *)
(* after the stream did, for any number of streams whose tasks change the  *)
(* counter in any order (tunnel_manager.rs is_idle, stream_started,        *)
(* stream_finished).                                                       *)
THEOREM OpenStreamsKeepTunnels == ReaperSpec => []StreamsKeepTcpTunnels
<1>1. ReaperInv => StreamsKeepTcpTunnels
    BY DEF ReaperInv
<1> QED
    BY ReaperInvHolds, <1>1, PTL

(* The counter never drifts: it is the number of the tunnel's open streams *)
(* in every state, so a tunnel whose streams have ended can become idle    *)
(* (tunnel_manager.rs active_streams).                                     *)
THEOREM CounterNeverDrifts == ReaperSpec => []StreamsCounted
<1>1. ReaperInv => StreamsCounted
    BY DEF ReaperInv
<1> QED
    BY ReaperInvHolds, <1>1, PTL

(* A scan of the TCP tunnels, in any state of their streams. *)
LEMMA JudgedByScan ==
  ASSUME ReaperInv, ScanTcp, NEW t \in Judged \cap Tcp
  PROVE  UnusedSince(t, started') \/ \E v \in Visitors : target[v] = t /\ visit[v] = "ending"
<1> SUFFICES ASSUME ~ \E v \in Visitors : target[v] = t /\ visit[v] = "ending"
             PROVE  UnusedSince(t, started')
    OBVIOUS
<1>1. /\ active_streams[t] = 0 /\ started - last_activity[t] >= IdleTimeout
      /\ UNCHANGED started
    BY DEF ScanTcp, Judged, Idle
<1>2. Cardinality(Streams(t)) = 0
    BY <1>1 DEF ReaperInv, StreamsCounted
<1>3. Streams(t) = {}
    BY <1>2, StreamsFinite, FS_EmptySet
<1>4. last_in_use[t] <= last_activity[t]
    BY DEF ReaperInv, EndsTouched, EndTouched
<1>5. last_in_use[t] \in Nat /\ last_activity[t] \in Nat /\ started \in Nat
    BY DEF ReaperInv, ReaperTypeOK, Tunnels
<1>6. last_in_use[t] + IdleTimeout <= started
    BY <1>1, <1>4, <1>5, ReaperAssumption
<1> QED
    BY <1>1, <1>3, <1>6 DEF UnusedSince, Streams

(* A TCP tunnel is judged idle only when it has no open stream and had     *)
(* none for the whole idle period, or while one of its tasks stands        *)
(* between the decrement and the touch of stream_finished: no other order  *)
(* of any number of streams and scans forgets one (tunnel_manager.rs       *)
(* reap_idle_tunnels, is_idle, stream_finished).                           *)
THEOREM OnlyEndingStreamsForgotten == ReaperSpec => EndedStreamsCount
<1> DEFINE A == \A t \in Judged \cap Tcp :
                  \/ UnusedSince(t, started')
                  \/ \E v \in Visitors : target[v] = t /\ visit[v] = "ending"
<1>1. ReaperInv /\ [ReaperNext]_idleVars => [A]_idleVars
  <2> SUFFICES ASSUME ReaperInv, ReaperNext PROVE A
      OBVIOUS
  <2>1. CASE ScanTcp
      BY <2>1, JudgedByScan
  <2>2. CASE ScanHttp
      BY <2>2, ReaperAssumption DEF ScanHttp, Judged
  <2>3. CASE ~ScanTcp /\ ~ScanHttp
    <3>1. ASSUME UNCHANGED reaperVars PROVE candidates' \subseteq candidates
        BY <3>1 DEF reaperVars
    <3>2. ASSUME NEW v \in Visitors, VisitorStep(v) PROVE UNCHANGED reaperVars
        BY <3>2 DEF VisitorStep, HttpRequest, HttpAuthorized, HttpUnauthorized, HttpResponse,
                    TcpAccept, stream_started, stream_finished, CountStream, TouchStream
    <3>3. candidates' \subseteq candidates
        BY <2>3, <3>1, <3>2 DEF ReaperNext, ReaperStep, Tick, ScanEnds, Reap, SessionEnds
    <3> QED
        BY <3>3 DEF Judged
  <2> QED
      BY <2>1, <2>2, <2>3
<1> QED
    BY ReaperInvHolds, <1>1, PTL DEF ReaperSpec, EndedStreamsCount

=============================================================================
