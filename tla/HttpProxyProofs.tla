--------------------------- MODULE HttpProxyProofs ---------------------------
(***************************************************************************)
(* Proofs about HttpProxy, for any number of requests, replays, sessions   *)
(* and credentials, and every limit.                                       *)
(***************************************************************************)
EXTENDS HttpProxy, FiniteSetTheorems, SequenceTheorems, WellFoundedInduction, TLAPS

(***************************************************************************)
(* Where a task can be: public requests and replays take different ways to *)
(* the stream, a task past its routing works with a session, has no        *)
(* outcome before it ends, buffers nothing before its upload ends, and a    *)
(* bcrypt job belongs to a task that waits for it or is over.              *)
(***************************************************************************)
BeforeBody == {"idle", "auth", "permit", "verify", "remember", "admit", "upload"}

TasksPlaced ==
  /\ \A r \in Replays : stage[r] \notin {"auth", "permit", "verify", "remember", "admit", "upload"}
  /\ \A r \in Requests : stage[r] # "found"
  /\ \A r \in Tasks : stage[r] \notin {"idle", "found", "done"} => seen[r] \in Sessions
  /\ \A r \in Tasks : stage[r] # "done" => status[r] = None
  /\ \A r \in Tasks : stage[r] \in BeforeBody => body[r] = 0
  /\ \A r \in blocking : stage[r] \in {"verify", "done"}

(* A cache holds nothing but the session's own credentials. *)
CacheSound == \A s \in Sessions : cached[s] \in {None, Password[s]}

RememberedIsVerified ==
  \A r \in Requests : stage[r] = "remember" => header[r] = Password[seen[r]]

(* There is a queue of captures only for a tunnel. *)
QueueHasTunnel == captures # None => tunnel # None

HttpInv ==
  /\ TypeOK /\ TasksPlaced
  /\ CacheSound /\ RememberedIsVerified /\ OnlyAuthorizedPass
  /\ CapturesTellOutcome /\ QueueHasTunnel /\ LimitsConserved

-----------------------------------------------------------------------------
(***************************************************************************)
(* The steps of a task, grouped by what they do.                           *)
(***************************************************************************)
(* The future is dropped or ends with an error. *)
Dropped(r) == stage[r] # "done" /\ Fail(r) /\ UNCHANGED <<captures, authVars>>

JobEnds(r) ==
  /\ r \in blocking /\ blocking' = blocking \ {r} /\ permits' = permits + 1
  /\ UNCHANGED <<captures, cached>>

VerifiedLate(r) ==
  JobEnds(r) /\ stage[r] # "verify" /\ UNCHANGED <<taskVars, limitVars, registryVars>>

VerifiedYes(r) ==
  /\ JobEnds(r) /\ header[r] = Password[seen[r]] /\ Goes(r, "verify", "remember")
  /\ UNCHANGED <<registryVars, limitVars, status, seen, header, body>>

VerifiedNo(r) == JobEnds(r) /\ stage[r] = "verify" /\ Fail(r)

LEMMA DropSteps ==
  ASSUME NEW r,
         \/ NotRouted(r) \/ AuthMissing(r) \/ AuthPermitTimeout(r) \/ DeclaredTooLarge(r)
         \/ NoSlot(r) \/ UploadFails(r) \/ ReplayRefused(r) \/ OpenRefused(r) \/ StreamTimeout(r)
         \/ ProxyFails(r) \/ Leave(r)
  PROVE  Dropped(r)
BY DEF NotRouted, AuthMissing, AuthPermitTimeout, DeclaredTooLarge, NoSlot, UploadFails,
       ReplayRefused, OpenRefused, StreamTimeout, ProxyFails, Leave, Dropped, Fail

LEMMA VerifiedSteps ==
  ASSUME NEW r, AuthVerified(r)
  PROVE  VerifiedLate(r) \/ VerifiedYes(r) \/ VerifiedNo(r)
BY DEF AuthVerified, JobEnds, VerifiedLate, VerifiedYes, VerifiedNo

TaskStep(r) ==
  \/ Dropped(r) \/ VerifiedLate(r) \/ VerifiedYes(r) \/ VerifiedNo(r)
  \/ (\E h \in Credentials \cup {None} : Route(r, h))
  \/ AuthCached(r) \/ AuthUncached(r) \/ AuthPermit(r) \/ AuthRemember(r)
  \/ TakeSlot(r) \/ (\E n \in 0..MaxBody : UploadDone(r, n))
  \/ ReplayFind(r) \/ ReplayRoute(r) \/ OpenQueued(r) \/ StreamOpened(r) \/ StoreCapture(r)
  \/ SendDone(r) \/ ResponseRead(r) \/ RecordResponse(r)

ServerStep ==
  \/ (\E s \in Sessions : Register(s) \/ SessionEnds(s) \/ SessionStuck(s))
  \/ Unregister \/ Clear \/ UNCHANGED vars

LEMMA Steps == [Next]_vars => ServerStep \/ \E r \in Tasks : TaskStep(r)
<1> SUFFICES ASSUME NEW r \in Tasks,
                    \/ Arrive(r) \/ AuthStep(r) \/ AuthVerified(r) \/ AdmitStep(r)
                    \/ ReplayStep(r) \/ ProxyStep(r) \/ PeerStep(r) \/ Leave(r)
             PROVE  TaskStep(r)
    BY DEF Next, ServerStep
<1>1. CASE Arrive(r)
    BY <1>1, DropSteps DEF Arrive, TaskStep
<1>2. CASE AuthStep(r) \/ AuthVerified(r)
    BY <1>2, DropSteps, VerifiedSteps DEF AuthStep, TaskStep
<1>3. CASE AdmitStep(r) \/ ReplayStep(r) \/ Leave(r)
    BY <1>3, DropSteps DEF AdmitStep, ReplayStep, TaskStep
<1>4. CASE ProxyStep(r)
    BY <1>4, DropSteps DEF ProxyStep, TaskStep
<1>5. CASE PeerStep(r)
    BY <1>5, DropSteps DEF PeerStep, TaskStep
<1> QED
    BY <1>1, <1>2, <1>3, <1>4, <1>5

LEMMA PlacedStep == TypeOK /\ TasksPlaced /\ [Next]_vars => TasksPlaced'
<1> SUFFICES ASSUME TypeOK, TasksPlaced, [Next]_vars PROVE TasksPlaced'
    OBVIOUS
<1> /\ stage \in [Tasks -> Stages] /\ seen \in [Tasks -> Sessions \cup {None}]
    /\ status \in [Tasks -> Recorded \cup {None, "failed"}] /\ tunnel \in Sessions \cup {None}
    /\ Requests \subseteq Tasks /\ Replays \subseteq Tasks /\ Requests \cap Replays = {}
    /\ blocking \subseteq Tasks
    BY HttpAssumption DEF TypeOK, Tasks
<1> DOMAIN body = Tasks
    BY DEF TypeOK
<1> USE DEF TasksPlaced, BeforeBody, GiveBack
<1>1. ASSUME NEW r \in Tasks, TaskStep(r) PROVE TasksPlaced'
  <2>1. CASE Dropped(r)
      BY <2>1 DEF Dropped, Fail, Over, registryVars, authVars, limitVars, taskVars
  <2>2. CASE VerifiedLate(r)
      BY <2>2 DEF VerifiedLate, JobEnds, registryVars, authVars, limitVars, taskVars
  <2>3. CASE VerifiedYes(r)
      BY <2>3 DEF VerifiedYes, JobEnds, Goes, registryVars, authVars, limitVars, taskVars
  <2>4. CASE VerifiedNo(r)
      BY <2>4 DEF VerifiedNo, JobEnds, Fail, Over, registryVars, authVars, limitVars, taskVars
  <2>5. ASSUME NEW h \in Credentials \cup {None}, Route(r, h) PROVE TasksPlaced'
      BY <2>5 DEF Route, Goes, registryVars, authVars, limitVars, taskVars
  <2>6. CASE AuthCached(r)
      BY <2>6 DEF AuthCached, Goes, registryVars, authVars, limitVars, taskVars
  <2>7. CASE AuthUncached(r)
      BY <2>7 DEF AuthUncached, Goes, registryVars, authVars, limitVars, taskVars
  <2>8. CASE AuthPermit(r)
      BY <2>8 DEF AuthPermit, Goes, registryVars, authVars, limitVars, taskVars
  <2>9. CASE AuthRemember(r)
      BY <2>9 DEF AuthRemember, Goes, registryVars, authVars, limitVars, taskVars
  <2>10. CASE TakeSlot(r)
      BY <2>10 DEF TakeSlot, Goes, registryVars, authVars, limitVars, taskVars
  <2>11. ASSUME NEW n \in 0..MaxBody, UploadDone(r, n) PROVE TasksPlaced'
      BY <2>11 DEF UploadDone, Goes, registryVars, authVars, limitVars, taskVars
  <2>12. CASE ReplayFind(r)
      BY <2>12 DEF ReplayFind, Goes, registryVars, authVars, limitVars, taskVars
  <2>13. CASE ReplayRoute(r)
      BY <2>13 DEF ReplayRoute, Goes, registryVars, authVars, limitVars, taskVars
  <2>14. CASE StreamOpened(r)
      BY <2>14 DEF StreamOpened, Goes, registryVars, authVars, limitVars, taskVars
  <2>15. CASE StoreCapture(r)
      BY <2>15 DEF StoreCapture, Goes, registryVars, authVars, limitVars, taskVars
  <2>16. CASE SendDone(r)
      BY <2>16 DEF SendDone, Goes, registryVars, authVars, limitVars, taskVars
  <2>17. CASE ResponseRead(r)
      BY <2>17 DEF ResponseRead, Goes, registryVars, authVars, limitVars, taskVars
  <2>18. CASE RecordResponse(r)
      BY <2>18 DEF RecordResponse, Over, registryVars, authVars, limitVars, taskVars
  <2>19. CASE OpenQueued(r)
      BY <2>19 DEF OpenQueued, Goes, registryVars, authVars, limitVars, taskVars
  <2> QED
      BY <1>1, <2>1, <2>2, <2>3, <2>4, <2>5, <2>6, <2>7, <2>8, <2>9,
         <2>10, <2>11, <2>12, <2>13, <2>14, <2>15, <2>16, <2>17, <2>18, <2>19
      DEF TaskStep
<1>2. CASE ServerStep
  <2>1. ASSUME NEW s \in Sessions, Register(s) PROVE TasksPlaced'
      BY <2>1 DEF Register, registryVars, authVars, limitVars, taskVars
  <2>2. ASSUME NEW s \in Sessions, SessionEnds(s) PROVE TasksPlaced'
      BY <2>2 DEF SessionEnds, registryVars, authVars, limitVars, taskVars
  <2>3. CASE Unregister
      BY <2>3 DEF Unregister, registryVars, authVars, limitVars, taskVars
  <2>4. CASE Clear
      BY <2>4 DEF Clear, registryVars, authVars, limitVars, taskVars
  <2>5. CASE UNCHANGED vars
      BY <2>5 DEF vars, registryVars, authVars, limitVars, taskVars
  <2>6. ASSUME NEW s \in Sessions, SessionStuck(s) PROVE TasksPlaced'
      BY <2>6 DEF SessionStuck, registryVars, authVars, limitVars, taskVars
  <2> QED
      BY <1>2, <2>1, <2>2, <2>3, <2>4, <2>5, <2>6 DEF ServerStep
<1> QED
    BY <1>1, <1>2, Steps

AuthSound == CacheSound /\ RememberedIsVerified /\ OnlyAuthorizedPass

LEMMA AuthStepSound ==
  TypeOK /\ TasksPlaced /\ AuthSound /\ [Next]_vars => AuthSound'
<1> SUFFICES ASSUME TypeOK, TasksPlaced, AuthSound, [Next]_vars PROVE AuthSound'
    OBVIOUS
<1> /\ stage \in [Tasks -> Stages] /\ seen \in [Tasks -> Sessions \cup {None}]
    /\ header \in [Tasks -> Credentials \cup {None}] /\ tunnel \in Sessions \cup {None}
    /\ cached \in [Sessions -> Credentials \cup {None}]
    /\ Requests \subseteq Tasks /\ Replays \subseteq Tasks /\ Requests \cap Replays = {}
    BY HttpAssumption DEF TypeOK, Tasks
<1> USE DEF TasksPlaced, AuthSound, CacheSound, RememberedIsVerified, OnlyAuthorizedPass
<1>1. ASSUME NEW r \in Tasks, TaskStep(r) PROVE AuthSound'
  <2>1. CASE Dropped(r)
      BY <2>1 DEF Dropped, Fail, Over, registryVars, authVars, limitVars, taskVars
  <2>2. CASE VerifiedLate(r)
      BY <2>2 DEF VerifiedLate, JobEnds, registryVars, authVars, limitVars, taskVars
  <2>3. CASE VerifiedYes(r)
      BY <2>3 DEF VerifiedYes, JobEnds, Goes, registryVars, authVars, limitVars, taskVars
  <2>4. CASE VerifiedNo(r)
      BY <2>4 DEF VerifiedNo, JobEnds, Fail, Over, registryVars, authVars, limitVars, taskVars
  <2>5. ASSUME NEW h \in Credentials \cup {None}, Route(r, h) PROVE AuthSound'
      BY <2>5 DEF Route, Goes, registryVars, authVars, limitVars, taskVars
  <2>6. CASE AuthCached(r)
      BY <2>6 DEF AuthCached, Goes, registryVars, authVars, limitVars, taskVars
  <2>7. CASE AuthUncached(r)
      BY <2>7 DEF AuthUncached, Goes, registryVars, authVars, limitVars, taskVars
  <2>8. CASE AuthPermit(r)
      BY <2>8 DEF AuthPermit, Goes, registryVars, authVars, limitVars, taskVars
  <2>9. CASE AuthRemember(r)
    <3>1. /\ r \in Requests /\ seen[r] \in Sessions /\ header[r] = Password[seen[r]]
          /\ stage' = [stage EXCEPT ![r] = "admit"] /\ UNCHANGED <<seen, header>>
          /\ cached' = [cached EXCEPT ![seen[r]] = header[r]]
        BY <2>9 DEF AuthRemember, Goes, Tasks
    <3>2. CacheSound'
        BY <3>1
    <3>3. RememberedIsVerified' /\ OnlyAuthorizedPass'
        BY <3>1
    <3> QED
        BY <3>2, <3>3
  <2>10. CASE TakeSlot(r)
      BY <2>10 DEF TakeSlot, Goes, registryVars, authVars, limitVars, taskVars
  <2>11. ASSUME NEW n \in 0..MaxBody, UploadDone(r, n) PROVE AuthSound'
      BY <2>11 DEF UploadDone, Goes, registryVars, authVars, limitVars, taskVars
  <2>12. CASE ReplayFind(r)
      BY <2>12 DEF ReplayFind, Goes, registryVars, authVars, limitVars, taskVars
  <2>13. CASE ReplayRoute(r)
      BY <2>13 DEF ReplayRoute, Goes, registryVars, authVars, limitVars, taskVars
  <2>14. CASE StreamOpened(r)
      BY <2>14 DEF StreamOpened, Goes, registryVars, authVars, limitVars, taskVars
  <2>15. CASE StoreCapture(r)
      BY <2>15 DEF StoreCapture, Goes, registryVars, authVars, limitVars, taskVars
  <2>16. CASE SendDone(r)
      BY <2>16 DEF SendDone, Goes, registryVars, authVars, limitVars, taskVars
  <2>17. CASE ResponseRead(r)
      BY <2>17 DEF ResponseRead, Goes, registryVars, authVars, limitVars, taskVars
  <2>18. CASE RecordResponse(r)
      BY <2>18 DEF RecordResponse, Over, registryVars, authVars, limitVars, taskVars
  <2>19. CASE OpenQueued(r)
      BY <2>19 DEF OpenQueued, Goes, registryVars, authVars, limitVars, taskVars
  <2> QED
      BY <1>1, <2>1, <2>2, <2>3, <2>4, <2>5, <2>6, <2>7, <2>8, <2>9,
         <2>10, <2>11, <2>12, <2>13, <2>14, <2>15, <2>16, <2>17, <2>18, <2>19
      DEF TaskStep
<1>2. CASE ServerStep
  <2>1. ASSUME NEW s \in Sessions, Register(s) PROVE AuthSound'
      BY <2>1 DEF Register, registryVars, authVars, limitVars, taskVars
  <2>2. ASSUME NEW s \in Sessions, SessionEnds(s) PROVE AuthSound'
      BY <2>2 DEF SessionEnds, registryVars, authVars, limitVars, taskVars
  <2>3. CASE Unregister
      BY <2>3 DEF Unregister, registryVars, authVars, limitVars, taskVars
  <2>4. CASE Clear
      BY <2>4 DEF Clear, registryVars, authVars, limitVars, taskVars
  <2>5. CASE UNCHANGED vars
      BY <2>5 DEF vars, registryVars, authVars, limitVars, taskVars
  <2>6. ASSUME NEW s \in Sessions, SessionStuck(s) PROVE AuthSound'
      BY <2>6 DEF SessionStuck, registryVars, authVars, limitVars, taskVars
  <2> QED
      BY <1>2, <2>1, <2>2, <2>3, <2>4, <2>5, <2>6 DEF ServerStep
<1> QED
    BY <1>1, <1>2, Steps

(* The captures of a queue tell their outcomes and were stored under t. *)
OutcomeOf(q, st, t) ==
  \A i \in DOMAIN q :
    (q[i].complete <=> st[q[i].id] \in Recorded) /\ q[i].under = t

(* Storing a capture of a task that is still running. *)
LEMMA PushedTells ==
  ASSUME NEW q \in Seq(Captures), NEW st, NEW s \in Sessions, OutcomeOf(q, st, s),
         NEW r \in Tasks, st[r] \notin Recorded
  PROVE  OutcomeOf(Pushed(q, [id |-> r, under |-> s, complete |-> FALSE]), st, s)
<1> DEFINE c == [id |-> r, under |-> s, complete |-> FALSE]
           k == IF Len(q) >= BufferSize /\ q # <<>> THEN Tail(q) ELSE q
<1>1. c \in Captures
    BY DEF Captures
<1>2. k \in Seq(Captures) /\ \A i \in 1..Len(k) : \E j \in 1..Len(q) : k[i] = q[j]
  <2>1. CASE q = <<>>
      BY <2>1
  <2>2. CASE q # <<>>
      BY <2>2, HeadTailProperties
  <2> QED
      BY <2>1, <2>2
<1>3. OutcomeOf(k, st, s)
    BY <1>2 DEF OutcomeOf
<1>4. c.complete = FALSE /\ c.id = r /\ c.under = s
    OBVIOUS
<1> HIDE DEF c, k
<1>5. /\ Append(k, c) \in Seq(Captures) /\ Len(Append(k, c)) = Len(k) + 1
      /\ \A i \in 1..Len(k) : Append(k, c)[i] = k[i]
      /\ Append(k, c)[Len(k) + 1] = c
    BY <1>1, <1>2, AppendProperties
<1>6. OutcomeOf(Append(k, c), st, s)
  <2> SUFFICES ASSUME NEW i \in 1..(Len(k) + 1)
               PROVE  /\ Append(k, c)[i].complete <=> st[Append(k, c)[i].id] \in Recorded
                      /\ Append(k, c)[i].under = s
      BY <1>5 DEF OutcomeOf
  <2>1. CASE i = Len(k) + 1
      BY <2>1, <1>4, <1>5
  <2>2. CASE i # Len(k) + 1
    <3>1. i \in 1..Len(k)
        BY <1>2, <2>2
    <3>2. Append(k, c)[i] = k[i] /\ i \in DOMAIN k
        BY <1>2, <1>5, <3>1
    <3> QED
        BY <1>3, <3>2 DEF OutcomeOf
  <2> QED
      BY <2>1, <2>2
<1> QED
    BY <1>6 DEF Pushed, c, k

(* The outcomes of other tasks do not matter to a queue without theirs. *)
LEMMA CompleteTells ==
  ASSUME NEW q \in Seq(Captures), NEW st, NEW t, DOMAIN st = Tasks, OutcomeOf(q, st, t),
         NEW r \in Tasks, NEW how \in Recorded
  PROVE  /\ Complete(r, q) \in Seq(Captures) /\ Len(Complete(r, q)) = Len(q)
         /\ OutcomeOf(Complete(r, q), [st EXCEPT ![r] = how], t)
<1> DEFINE u == Complete(r, q)
<1>1. DOMAIN q = 1..Len(q) /\ Len(q) \in Nat /\ \A i \in 1..Len(q) : q[i] \in Captures
    OBVIOUS
<1>2. u = [i \in 1..Len(q) |-> IF q[i].id = r THEN [q[i] EXCEPT !.complete = TRUE] ELSE q[i]]
    BY <1>1 DEF Complete
<1>3. ASSUME NEW i \in 1..Len(q)
      PROVE  /\ u[i] \in Captures /\ u[i].id = q[i].id /\ u[i].under = q[i].under
             /\ u[i].complete = IF q[i].id = r THEN TRUE ELSE q[i].complete
  <2>1. q[i] \in Captures
      BY <1>1
  <2>2. CASE q[i].id = r
    <3>1. u[i] = [q[i] EXCEPT !.complete = TRUE]
        BY <1>2, <2>2
    <3> QED
        BY <2>1, <2>2, <3>1 DEF Captures
  <2>3. CASE q[i].id # r
    <3>1. u[i] = q[i]
        BY <1>2, <2>3
    <3> QED
        BY <2>1, <2>3, <3>1
  <2> QED
      BY <2>2, <2>3
<1>4. u \in [1..Len(q) -> Captures]
    BY <1>2, <1>3
<1> HIDE DEF u
<1>5. u \in Seq(Captures) /\ Len(u) = Len(q) /\ DOMAIN u = 1..Len(q)
    BY <1>1, <1>4, IsASeq, LenProperties
<1>6. OutcomeOf(u, [st EXCEPT ![r] = how], t)
  <2> SUFFICES ASSUME NEW i \in 1..Len(q)
               PROVE  /\ u[i].complete <=> [st EXCEPT ![r] = how][u[i].id] \in Recorded
                      /\ u[i].under = t
      BY <1>5 DEF OutcomeOf
  <2>1. (q[i].complete <=> st[q[i].id] \in Recorded) /\ q[i].under = t
      BY <1>1 DEF OutcomeOf
  <2>2. CASE q[i].id = r
      BY <2>1, <2>2, <1>3
  <2>3. CASE q[i].id # r
    <3>1. u[i].complete = q[i].complete /\ u[i].id = q[i].id /\ u[i].under = q[i].under
        BY <1>3, <2>3
    <3>2. q[i].id \in Tasks
        BY <1>1 DEF Captures
    <3>3. [st EXCEPT ![r] = how][q[i].id] = st[q[i].id]
        BY <3>2, <2>3
    <3> QED
        BY <2>1, <3>1, <3>3
  <2> QED
      BY <2>2, <2>3
<1> QED
    BY <1>5, <1>6 DEF u

LEMMA FailedTells ==
  ASSUME NEW q \in Seq(Captures), NEW st, NEW t, DOMAIN st = Tasks, OutcomeOf(q, st, t),
         NEW r \in Tasks, st[r] \notin Recorded
  PROVE  OutcomeOf(q, [st EXCEPT ![r] = "failed"], t)
<1> SUFFICES ASSUME NEW i \in 1..Len(q)
             PROVE  /\ q[i].complete <=> [st EXCEPT ![r] = "failed"][q[i].id] \in Recorded
                    /\ q[i].under = t
    BY DEF OutcomeOf
<1>1. (q[i].complete <=> st[q[i].id] \in Recorded) /\ q[i].under = t
    BY DEF OutcomeOf
<1>2. q[i].id \in Tasks
  <2>1. q[i] \in Captures
      OBVIOUS
  <2> QED
      BY <2>1 DEF Captures
<1>3. [st EXCEPT ![r] = "failed"][q[i].id] \in Recorded <=> st[q[i].id] \in Recorded
    BY <1>2 DEF Recorded
<1> QED
    BY <1>1, <1>3

(* A queue and its bound. *)
Queue(q) == q \in Seq(Captures) /\ Len(q) <= IF BufferSize = 0 THEN 1 ELSE BufferSize

LEMMA PushedInBound ==
  ASSUME NEW q, Queue(q), NEW c \in Captures
  PROVE  Queue(Pushed(q, c))
<1> DEFINE k == IF Len(q) >= BufferSize /\ q # <<>> THEN Tail(q) ELSE q
<1>0. BufferSize \in Nat /\ q \in Seq(Captures) /\ Len(q) \in Nat
    BY HttpAssumption, LenProperties DEF Queue
<1>1. k \in Seq(Captures) /\ Len(k) + 1 <= IF BufferSize = 0 THEN 1 ELSE BufferSize
  <2>1. CASE q = <<>>
      BY <2>1, <1>0
  <2>2. CASE q # <<>>
    <3>1. Tail(q) \in Seq(Captures) /\ Len(Tail(q)) = Len(q) - 1
        BY <2>2, <1>0, HeadTailProperties
    <3> QED
        BY <2>2, <3>1, <1>0 DEF Queue
  <2> QED
      BY <2>1, <2>2
<1> HIDE DEF k
<1>2. Append(k, c) \in Seq(Captures) /\ Len(Append(k, c)) = Len(k) + 1
    BY <1>1, AppendProperties
<1> QED
    BY <1>1, <1>2 DEF Pushed, k, Queue

CapturesOK ==
  captures # None =>
    tunnel # None /\ Queue(captures) /\ OutcomeOf(captures, status, tunnel)

LEMMA CapturesStep ==
  TypeOK /\ TasksPlaced /\ CapturesOK /\ [Next]_vars => CapturesOK'
<1> SUFFICES ASSUME TypeOK, TasksPlaced, CapturesOK, [Next]_vars PROVE CapturesOK'
    OBVIOUS
<1> DOMAIN status = Tasks /\ \A r \in Tasks : stage[r] # "done" => status[r] \notin Recorded
    BY HttpAssumption DEF TypeOK, TasksPlaced, Recorded
<1>same. ASSUME UNCHANGED <<captures, status, tunnel>> PROVE CapturesOK'
    BY <1>same DEF CapturesOK, OutcomeOf, Queue
<1>empty. ASSUME captures' = <<>>, tunnel' # None PROVE CapturesOK'
    BY <1>empty, HttpAssumption DEF CapturesOK, OutcomeOf, Queue
<1>fail. ASSUME NEW r \in Tasks, UNCHANGED <<captures, tunnel>>, status[r] \notin Recorded,
                status' = [status EXCEPT ![r] = "failed"]
         PROVE  CapturesOK'
  <2> SUFFICES ASSUME captures # None
               PROVE  Queue(captures)' /\ OutcomeOf(captures, status, tunnel)'
      BY <1>fail DEF CapturesOK
  <2>1. /\ captures \in Seq(Captures) /\ Queue(captures)
        /\ tunnel # None /\ OutcomeOf(captures, status, tunnel)
      BY DEF CapturesOK, Queue
  <2>2. OutcomeOf(captures, [status EXCEPT ![r] = "failed"], tunnel)
      BY <1>fail, <2>1, FailedTells
  <2> QED
      BY <1>fail, <2>1, <2>2 DEF OutcomeOf, Queue
<1>1. ASSUME NEW r \in Tasks, TaskStep(r) PROVE CapturesOK'
  <2>1. CASE Dropped(r)
    <3>1. /\ UNCHANGED <<captures, tunnel>> /\ status' = [status EXCEPT ![r] = "failed"]
          /\ status[r] \notin Recorded
        BY <2>1 DEF Dropped, Fail, Over, TasksPlaced, authVars, registryVars
    <3> QED
        BY <3>1, <1>fail
  <2>2. CASE VerifiedLate(r)
      BY <2>2, <1>same DEF VerifiedLate, JobEnds, taskVars, registryVars
  <2>3. CASE VerifiedYes(r)
      BY <2>3, <1>same DEF VerifiedYes, JobEnds, taskVars, registryVars
  <2>4. CASE VerifiedNo(r)
    <3>1. /\ UNCHANGED <<captures, tunnel>> /\ status' = [status EXCEPT ![r] = "failed"]
          /\ status[r] \notin Recorded
        BY <2>4 DEF VerifiedNo, JobEnds, Fail, Over, TasksPlaced, authVars, registryVars
    <3> QED
        BY <3>1, <1>fail
  <2>5. ASSUME NEW h \in Credentials \cup {None}, Route(r, h) PROVE CapturesOK'
      BY <2>5, <1>same DEF Route, taskVars, registryVars
  <2>6. CASE AuthCached(r)
      BY <2>6, <1>same DEF AuthCached, taskVars, registryVars
  <2>7. CASE AuthUncached(r)
      BY <2>7, <1>same DEF AuthUncached, taskVars, registryVars
  <2>8. CASE AuthPermit(r)
      BY <2>8, <1>same DEF AuthPermit, taskVars, registryVars
  <2>9. CASE AuthRemember(r)
      BY <2>9, <1>same DEF AuthRemember, taskVars, registryVars
  <2>10. CASE TakeSlot(r)
      BY <2>10, <1>same DEF TakeSlot, taskVars, registryVars
  <2>11. ASSUME NEW n \in 0..MaxBody, UploadDone(r, n) PROVE CapturesOK'
      BY <2>11, <1>same DEF UploadDone, taskVars, registryVars
  <2>12. CASE ReplayFind(r)
      BY <2>12, <1>same DEF ReplayFind, taskVars, registryVars
  <2>13. CASE ReplayRoute(r)
      BY <2>13, <1>same DEF ReplayRoute, taskVars, registryVars
  <2>14. CASE StreamOpened(r)
      BY <2>14, <1>same DEF StreamOpened, taskVars, registryVars
  <2>15. CASE StoreCapture(r)
    <3>1. UNCHANGED <<status, tunnel>> /\ status[r] \notin Recorded
        BY <2>15 DEF StoreCapture, Goes, TasksPlaced, registryVars
    <3>2. CASE UNCHANGED captures
        BY <3>1, <3>2, <1>same
    <3>3. CASE captures # None /\ captures' = Pushed(captures, [id |-> r, under |-> tunnel, complete |-> FALSE])
      <4>0. tunnel \in Sessions
          BY <3>3 DEF CapturesOK, TypeOK
      <4>1. [id |-> r, under |-> tunnel, complete |-> FALSE] \in Captures
          BY <4>0 DEF Captures
      <4> QED
          BY <3>1, <3>3, <4>0, <4>1, PushedTells, PushedInBound DEF CapturesOK, Queue
    <3> QED
        BY <2>15, <3>2, <3>3 DEF StoreCapture
  <2>16. CASE SendDone(r)
      BY <2>16, <1>same DEF SendDone, taskVars, registryVars
  <2>17. CASE ResponseRead(r)
      BY <2>17, <1>same DEF ResponseRead, taskVars, registryVars
  <2>18. CASE RecordResponse(r)
    <3>1. PICK how \in Recorded : status' = [status EXCEPT ![r] = how] /\ UNCHANGED tunnel
        BY <2>18 DEF RecordResponse, Over, registryVars
    <3>2. CASE captures = None
        BY <2>18, <3>2 DEF RecordResponse, CapturesOK
    <3>3. CASE captures # None
      <4>1. captures' = Complete(r, captures)
          BY <2>18, <3>3 DEF RecordResponse
      <4> QED
          BY <3>1, <3>3, <4>1, CompleteTells DEF CapturesOK, Queue
    <3> QED
        BY <3>2, <3>3
  <2>19. CASE OpenQueued(r)
      BY <2>19, <1>same DEF OpenQueued, taskVars, registryVars
  <2> QED
      BY <1>1, <2>1, <2>2, <2>3, <2>4, <2>5, <2>6, <2>7, <2>8, <2>9,
         <2>10, <2>11, <2>12, <2>13, <2>14, <2>15, <2>16, <2>17, <2>18, <2>19
      DEF TaskStep
<1>2. CASE ServerStep
  <2>1. ASSUME NEW s \in Sessions, Register(s) PROVE CapturesOK'
      BY <2>1, <1>empty, HttpAssumption DEF Register, taskVars
  <2>2. ASSUME NEW s \in Sessions, SessionEnds(s) PROVE CapturesOK'
      BY <2>2, <1>same DEF SessionEnds, taskVars, registryVars
  <2>3. CASE Unregister
      BY <2>3 DEF Unregister, CapturesOK
  <2>4. CASE Clear
      BY <2>4, <1>empty DEF Clear, CapturesOK, registryVars
  <2>5. CASE UNCHANGED vars
      BY <2>5, <1>same DEF vars, taskVars, registryVars
  <2>6. ASSUME NEW s \in Sessions, SessionStuck(s) PROVE CapturesOK'
      BY <2>6, <1>same DEF SessionStuck, taskVars, registryVars
  <2> QED
      BY <1>2, <2>1, <2>2, <2>3, <2>4, <2>5, <2>6 DEF ServerStep
<1> QED
    BY <1>1, <1>2, Steps

-----------------------------------------------------------------------------
(***************************************************************************)
(* The sum over a finite set, as the fold of the community modules         *)
(* computes it: a table of the sums of all subsets.  What is proved by     *)
(* induction on finite sets is proved here with a smallest counterexample. *)
(***************************************************************************)
Pick(s) == CHOOSE x \in s : TRUE
Sums(g, S) ==
  CHOOSE f : f = [s \in SUBSET S |-> IF s = {} THEN 0 ELSE g[Pick(s)] + f[s \ {Pick(s)}]]

(* The gauge of the model is such a sum. *)
LEMMA GaugeIsSum == MapThenSumSet(LAMBDA r : body[r], Tasks) = Sums(body, Tasks)[Tasks]
BY DEF MapThenSumSet, MapThenFoldSet, Sums, Pick

(* A set of subsets of a finite set has a smallest member. *)
LEMMA Smallest ==
  ASSUME NEW S, IsFiniteSet(S), NEW T \in SUBSET (SUBSET S), T # {}
  PROVE  \E s \in T : \A t \in SUBSET s : t # s => t \notin T
<1>1. IsWellFoundedOn(StrictSubsetOrdering(S), SUBSET S)
    BY FS_StrictSubsetOrderingWellFounded, FS_FiniteSubsetsOfFinite
<1>2. PICK s \in T : \A t \in T : <<t, s>> \notin StrictSubsetOrdering(S)
    BY <1>1, WFMin
<1>3. \A t \in SUBSET s : t # s => t \notin T
    BY <1>2 DEF StrictSubsetOrdering
<1> QED
    BY <1>2, <1>3

(* A table of the sums of all subsets of U. *)
IsTable(f, g, U) ==
  /\ f \in [SUBSET U -> Int]
  /\ \A s \in SUBSET U : f[s] = IF s = {} THEN 0 ELSE g[Pick(s)] + f[s \ {Pick(s)}]

LEMMA PickIn == ASSUME NEW s, s # {} PROVE Pick(s) \in s
BY DEF Pick

LEMMA TablesAgree ==
  ASSUME NEW g, NEW U, IsFiniteSet(U), NEW V, V \subseteq U,
         NEW f, NEW h, IsTable(f, g, U), IsTable(h, g, V)
  PROVE  f[V] = h[V]
<1> DEFINE T == {t \in SUBSET V : f[t] # h[t]}
<1> SUFFICES ASSUME T # {} PROVE FALSE
    OBVIOUS
<1>1. T \in SUBSET (SUBSET U)
    OBVIOUS
<1> HIDE DEF T
<1>2. PICK t \in T : \A u \in SUBSET t : u # t => u \notin T
    BY <1>1, Smallest
<1> USE DEF T
<1>3. t \in SUBSET U /\ t \in SUBSET V /\ f[t] # h[t]
    OBVIOUS
<1>4. t # {}
    BY <1>3 DEF IsTable
<1>5. f[t \ {Pick(t)}] = h[t \ {Pick(t)}]
    BY <1>2, <1>3, <1>4, PickIn
<1> QED
    BY <1>3, <1>4, <1>5 DEF IsTable

LEMMA TableExists ==
  ASSUME NEW S, IsFiniteSet(S), NEW g \in [S -> Int]
  PROVE  \E f : IsTable(f, g, S)
<1> DEFINE G(s) == (CHOOSE f : IsTable(f, g, s))[s]
           Bad == {s \in SUBSET S : ~ \E f : IsTable(f, g, s)}
<1> SUFFICES ASSUME Bad # {} PROVE FALSE
    OBVIOUS
<1>1. Bad \in SUBSET (SUBSET S)
    OBVIOUS
<1> HIDE DEF Bad
<1>2. PICK U \in Bad : \A t \in SUBSET U : t # U => t \notin Bad
    BY <1>1, Smallest
<1> USE DEF Bad
<1>3. U \in SUBSET S /\ ~ \E f : IsTable(f, g, U)
    OBVIOUS
<1>4. ASSUME NEW t \in SUBSET U, t # U
      PROVE  IsTable(CHOOSE f : IsTable(f, g, t), g, t)
    BY <1>2, <1>3, <1>4
<1>5. ASSUME NEW t \in SUBSET U, t # U
      PROVE  /\ G(t) \in Int
             /\ G(t) = IF t = {} THEN 0 ELSE g[Pick(t)] + G(t \ {Pick(t)})
  <2> DEFINE ft == CHOOSE f : IsTable(f, g, t)
             u  == t \ {Pick(t)}
             fu == CHOOSE f : IsTable(f, g, u)
  <2>1. IsTable(ft, g, t)
      BY <1>4, <1>5
  <2>2. ft[t] \in Int /\ ft[t] = IF t = {} THEN 0 ELSE g[Pick(t)] + ft[u]
      BY <2>1 DEF IsTable
  <2>3. u \in SUBSET U /\ u # U /\ u \subseteq t /\ IsFiniteSet(t)
      BY <1>3, <1>5, FS_Subset
  <2>4. IsTable(fu, g, u)
      BY <1>4, <2>3
  <2> HIDE DEF ft, fu, u
  <2>5. ft[u] = fu[u]
      BY <2>1, <2>3, <2>4, TablesAgree
  <2> QED
      BY <2>2, <2>5 DEF ft, fu, u
<1> HIDE DEF G
<1> DEFINE new == IF U = {} THEN 0 ELSE g[Pick(U)] + G(U \ {Pick(U)})
           F == [s \in SUBSET U |-> IF s = U THEN new ELSE G(s)]
<1>6. new \in Int
  <2>1. CASE U # {}
    <3>1. Pick(U) \in U /\ U \ {Pick(U)} \in SUBSET U /\ U \ {Pick(U)} # U
        BY <2>1, PickIn
    <3>2. G(U \ {Pick(U)}) \in Int /\ g[Pick(U)] \in Int
        BY <3>1, <1>3, <1>5
    <3> QED
        BY <2>1, <3>2
  <2> QED
      BY <2>1
<1>7. F \in [SUBSET U -> Int]
    BY <1>5, <1>6
<1>8. ASSUME NEW s \in SUBSET U
      PROVE  F[s] = IF s = {} THEN 0 ELSE g[Pick(s)] + F[s \ {Pick(s)}]
  <2>1. s # {} => s \ {Pick(s)} # U /\ s \ {Pick(s)} \in SUBSET U
      BY PickIn
  <2>2. CASE s = U
      BY <2>1, <2>2
  <2>3. CASE s # U
      BY <2>1, <2>3, <1>5
  <2> QED
      BY <2>2, <2>3
<1>9. IsTable(F, g, U)
  <2> HIDE DEF F
  <2> QED
    BY <1>7, <1>8 DEF IsTable
<1> QED
    BY <1>3, <1>9

LEMMA SumsIsTable ==
  ASSUME NEW S, IsFiniteSet(S), NEW g \in [S -> Int]
  PROVE  IsTable(Sums(g, S), g, S)
<1> DEFINE Eqn(f) == f = [s \in SUBSET S |-> IF s = {} THEN 0 ELSE g[Pick(s)] + f[s \ {Pick(s)}]]
<1>1. PICK f : IsTable(f, g, S)
    BY TableExists
<1>2. Eqn(f)
    BY <1>1 DEF IsTable
<1>3. Eqn(Sums(g, S))
    BY <1>2 DEF Sums
<1>4. ASSUME NEW h, Eqn(h) PROVE \A s \in SUBSET S : h[s] \in Int
  <2> DEFINE T == {s \in SUBSET S : h[s] \notin Int}
  <2> SUFFICES ASSUME T # {} PROVE FALSE
      OBVIOUS
  <2>1. T \in SUBSET (SUBSET S)
      OBVIOUS
  <2> HIDE DEF T
  <2>2. PICK t \in T : \A u \in SUBSET t : u # t => u \notin T
      BY <2>1, Smallest
  <2> USE DEF T
  <2>3. t \in SUBSET S /\ h[t] \notin Int
      OBVIOUS
  <2>4. h[t] = IF t = {} THEN 0 ELSE g[Pick(t)] + h[t \ {Pick(t)}]
      BY <1>4, <2>3
  <2>5. t # {} /\ Pick(t) \in t
      BY <2>3, <2>4, PickIn
  <2>6. h[t \ {Pick(t)}] \in Int
      BY <2>2, <2>3, <2>5
  <2> QED
      BY <2>3, <2>4, <2>5, <2>6
<1> DEFINE h == Sums(g, S)
<1>5. \A s \in SUBSET S : h[s] \in Int
    BY <1>3, <1>4
<1>6. h = [s \in SUBSET S |-> IF s = {} THEN 0 ELSE g[Pick(s)] + h[s \ {Pick(s)}]]
    BY <1>3
<1> HIDE DEF h
<1>7. IsTable(h, g, S)
    BY <1>5, <1>6 DEF IsTable
<1> QED
    BY <1>7 DEF h

(* Two functions that differ in nothing but their value at r. *)
OnlyAt(r, g, k, S) ==
  /\ r \in S /\ g \in [S -> Int] /\ k \in [S -> Int]
  /\ \A x \in S : x # r => k[x] = g[x]

SumMovesWith(r, g, k, S) ==
  Sums(g, S)[S] \in Int /\ Sums(k, S)[S] = Sums(g, S)[S] - g[r] + k[r]

(* Changing one value changes the sum by the difference. *)
LEMMA SumsUpdate ==
  ASSUME NEW S, IsFiniteSet(S), NEW r, NEW g, NEW k, OnlyAt(r, g, k, S)
  PROVE  SumMovesWith(r, g, k, S)
<1> DEFINE n == k[r]
           f == Sums(g, S)
           h == Sums(k, S)
<1> /\ r \in S /\ g \in [S -> Int] /\ k \in [S -> Int]
    /\ \A x \in S : x # r => k[x] = g[x]
    BY DEF OnlyAt
<1>1. k[r] = n /\ n \in Int
    OBVIOUS
<1> HIDE DEF n
<1>2. IsTable(f, g, S) /\ IsTable(h, k, S)
    BY <1>1, SumsIsTable
<1> HIDE DEF f, h
<1> DEFINE Diff(s) == IF r \in s THEN n - g[r] ELSE 0
           T == {s \in SUBSET S : h[s] # f[s] + Diff(s)}
<1>3. T = {}
  <2> SUFFICES ASSUME T # {} PROVE FALSE
      OBVIOUS
  <2>1. T \in SUBSET (SUBSET S)
      OBVIOUS
  <2> HIDE DEF T
  <2>2. PICK t \in T : \A u \in SUBSET t : u # t => u \notin T
      BY <2>1, Smallest
  <2> USE DEF T
  <2>3. t \in SUBSET S /\ h[t] # f[t] + Diff(t)
      OBVIOUS
  <2>4. t # {} /\ Pick(t) \in t
      BY <1>2, <2>3, PickIn DEF IsTable
  <2> DEFINE x == Pick(t)
             u == t \ {x}
  <2>5. h[t] = k[x] + h[u] /\ f[t] = g[x] + f[u] /\ h[u] \in Int /\ f[u] \in Int
      BY <1>2, <2>3, <2>4 DEF IsTable
  <2>6. h[u] = f[u] + Diff(u)
      BY <2>2, <2>3, <2>4
  <2>7. x \in S /\ x \in t
      BY <2>3, <2>4
  <2> HIDE DEF x
  <2>8. CASE x = r
    <3>1. Diff(u) = 0 /\ Diff(t) = n - g[r]
        BY <2>7, <2>8
    <3> QED
        BY <1>1, <2>3, <2>5, <2>6, <2>8, <3>1
  <2>9. CASE x # r
    <3>1. Diff(u) = Diff(t) /\ Diff(t) \in Int
        BY <1>1, <2>7, <2>9
    <3> QED
        BY <1>1, <2>3, <2>5, <2>6, <2>7, <2>9, <3>1
  <2> QED
      BY <2>8, <2>9
<1>4. h[S] = f[S] + (n - g[r]) /\ f[S] \in Int
    BY <1>2, <1>3 DEF IsTable
<1> QED
    BY <1>4 DEF f, h, n, SumMovesWith
-----------------------------------------------------------------------------
(***************************************************************************)
(* The limits: body slots, the gauge of buffered bytes, bcrypt permits.    *)
(***************************************************************************)
Holders == {r \in Tasks : HoldsSlot(r)}

SlotsOK == slots \in 0..BodySlots /\ slots + Cardinality(Holders) = BodySlots
GaugeOK == body \in [Tasks -> 0..MaxBody] /\ buffered = Sums(body, Tasks)[Tasks]
PermitsOK ==
  /\ permits \in 0..AuthPermits /\ blocking \subseteq Requests
  /\ permits + Cardinality(blocking) = AuthPermits

LEMMA LimitsOK == TypeOK /\ LimitsConserved <=> TypeOK /\ SlotsOK /\ GaugeOK /\ PermitsOK
BY GaugeIsSum DEF TypeOK, LimitsConserved, SlotsOK, GaugeOK, PermitsOK, Holders

LEMMA HoldersFinite == IsFiniteSet(Holders)
BY HttpAssumption, FS_Subset DEF Holders

(* A task that ends gives its slot back if it holds one. *)
LEMMA OverKeepsSlots ==
  ASSUME DOMAIN stage = Tasks, SlotsOK, NEW r \in Tasks, NEW how, Over(r, how)
  PROVE  SlotsOK'
<1>0. IsFiniteSet(Holders) /\ Cardinality(Holders) \in Nat /\ BodySlots \in Nat
    BY HoldersFinite, FS_CardinalityType, HttpAssumption
<1>1. Holders' = Holders \ {r}
    BY DEF Over, Holders, HoldsSlot
<1>2. CASE HoldsSlot(r)
  <2>1. r \in Holders /\ slots' = slots + 1
      BY <1>2 DEF Holders, Over, GiveBack
  <2>2. Cardinality(Holders') = Cardinality(Holders) - 1 /\ Cardinality(Holders') \in Nat
      BY <1>0, <1>1, <2>1, FS_RemoveElement, FS_CardinalityType
  <2> QED
      BY <1>0, <2>1, <2>2 DEF SlotsOK
<1>3. CASE ~HoldsSlot(r)
  <2>1. slots' = slots /\ Holders' = Holders
      BY <1>1, <1>3 DEF Holders, Over, GiveBack
  <2> QED
      BY <2>1 DEF SlotsOK
<1> QED
    BY <1>2, <1>3

LEMMA BodyKeepsGauge ==
  ASSUME GaugeOK, NEW r \in Tasks, NEW n \in 0..MaxBody,
         body' = [body EXCEPT ![r] = n], buffered' = buffered - body[r] + n
  PROVE  GaugeOK'
<1>1. body \in [Tasks -> 0..MaxBody] /\ body' \in [Tasks -> 0..MaxBody] /\ body'[r] = n
    BY DEF GaugeOK
<1>2. OnlyAt(r, body, body', Tasks)
    BY <1>1, HttpAssumption DEF OnlyAt
<1>3. IsFiniteSet(Tasks)
    BY HttpAssumption
<1>4. SumMovesWith(r, body, body', Tasks)
    BY <1>2, <1>3, SumsUpdate
<1> QED
    BY <1>1, <1>4 DEF GaugeOK, SumMovesWith

LEMMA GiveBackKeepsGauge ==
  ASSUME GaugeOK, buffered \in Int, NEW r \in Tasks, GiveBack(r)
  PROVE  GaugeOK'
<1>1. /\ 0 \in 0..MaxBody /\ body' = [body EXCEPT ![r] = 0]
      /\ buffered' = buffered - body[r] + 0
    BY HttpAssumption DEF GaugeOK, GiveBack
<1> QED
    BY <1>1, BodyKeepsGauge

LEMMA SlotsStep == TypeOK /\ TasksPlaced /\ SlotsOK /\ [Next]_vars => SlotsOK'
<1> SUFFICES ASSUME TypeOK, TasksPlaced, SlotsOK, [Next]_vars PROVE SlotsOK'
    OBVIOUS
<1> /\ stage \in [Tasks -> Stages] /\ DOMAIN stage = Tasks
    /\ Requests \subseteq Tasks /\ Replays \subseteq Tasks /\ Requests \cap Replays = {}
    BY HttpAssumption DEF TypeOK, Tasks
<1>same. ASSUME Holders' = Holders, slots' = slots PROVE SlotsOK'
    BY <1>same DEF SlotsOK
<1>1. ASSUME NEW r \in Tasks, TaskStep(r) PROVE SlotsOK'
  <2>1. CASE Dropped(r)
      BY <2>1, OverKeepsSlots DEF Dropped, Fail
  <2>2. CASE VerifiedLate(r)
      BY <2>2, <1>same DEF VerifiedLate, limitVars, taskVars, Holders, HoldsSlot
  <2>3. CASE VerifiedYes(r)
    <3>1. Holders' = Holders /\ slots' = slots
        BY <2>3 DEF VerifiedYes, JobEnds, Goes, Holders, HoldsSlot, TasksPlaced, limitVars
    <3> QED
        BY <3>1, <1>same
  <2>4. CASE VerifiedNo(r)
      BY <2>4, OverKeepsSlots DEF VerifiedNo, Fail
  <2>5. ASSUME NEW h \in Credentials \cup {None}, Route(r, h) PROVE SlotsOK'
    <3>1. Holders' = Holders /\ slots' = slots
        BY <2>5 DEF Route, Goes, Holders, HoldsSlot, TasksPlaced, limitVars
    <3> QED
        BY <3>1, <1>same
  <2>6. CASE AuthCached(r)
    <3>1. Holders' = Holders /\ slots' = slots
        BY <2>6 DEF AuthCached, Goes, Holders, HoldsSlot, TasksPlaced, limitVars
    <3> QED
        BY <3>1, <1>same
  <2>7. CASE AuthUncached(r)
    <3>1. Holders' = Holders /\ slots' = slots
        BY <2>7 DEF AuthUncached, Goes, Holders, HoldsSlot, TasksPlaced, limitVars
    <3> QED
        BY <3>1, <1>same
  <2>8. CASE AuthPermit(r)
    <3>1. Holders' = Holders /\ slots' = slots
        BY <2>8 DEF AuthPermit, Goes, Holders, HoldsSlot, TasksPlaced, limitVars
    <3> QED
        BY <3>1, <1>same
  <2>9. CASE AuthRemember(r)
    <3>1. Holders' = Holders /\ slots' = slots
        BY <2>9 DEF AuthRemember, Goes, Holders, HoldsSlot, TasksPlaced, limitVars
    <3> QED
        BY <3>1, <1>same
  <2>10. CASE TakeSlot(r)
    <3>1. r \in Requests /\ r \notin Holders /\ Holders' = Holders \cup {r}
        BY <2>10 DEF TakeSlot, Goes, TasksPlaced, Holders, HoldsSlot, Tasks
    <3>2. Cardinality(Holders') = Cardinality(Holders) + 1
        BY <3>1, HoldersFinite, FS_AddElement
    <3>3. slots > 0 /\ slots' = slots - 1
        BY <2>10 DEF TakeSlot
    <3> QED
        BY <3>2, <3>3, HoldersFinite, FS_CardinalityType, HttpAssumption DEF SlotsOK
  <2>11. ASSUME NEW n \in 0..MaxBody, UploadDone(r, n) PROVE SlotsOK'
    <3>1. Holders' = Holders /\ slots' = slots
        BY <2>11 DEF UploadDone, Goes, Holders, HoldsSlot, TasksPlaced, limitVars
    <3> QED
        BY <3>1, <1>same
  <2>12. CASE ReplayFind(r)
    <3>1. Holders' = Holders /\ slots' = slots
        BY <2>12 DEF ReplayFind, Goes, Holders, HoldsSlot, TasksPlaced, limitVars
    <3> QED
        BY <3>1, <1>same
  <2>13. CASE ReplayRoute(r)
    <3>1. Holders' = Holders /\ slots' = slots
        BY <2>13 DEF ReplayRoute, Goes, Holders, HoldsSlot, TasksPlaced, limitVars
    <3> QED
        BY <3>1, <1>same
  <2>14. CASE StreamOpened(r)
    <3>1. Holders' = Holders /\ slots' = slots
        BY <2>14 DEF StreamOpened, Goes, Holders, HoldsSlot, TasksPlaced, limitVars
    <3> QED
        BY <3>1, <1>same
  <2>15. CASE StoreCapture(r)
    <3>1. Holders' = Holders /\ slots' = slots
        BY <2>15 DEF StoreCapture, Goes, Holders, HoldsSlot, TasksPlaced, limitVars
    <3> QED
        BY <3>1, <1>same
  <2>16. CASE SendDone(r)
    <3>1. Holders' = Holders /\ slots' = slots
        BY <2>16 DEF SendDone, Goes, Holders, HoldsSlot, TasksPlaced, limitVars
    <3> QED
        BY <3>1, <1>same
  <2>17. CASE ResponseRead(r)
    <3>1. Holders' = Holders /\ slots' = slots
        BY <2>17 DEF ResponseRead, Goes, Holders, HoldsSlot, TasksPlaced, limitVars
    <3> QED
        BY <3>1, <1>same
  <2>18. CASE RecordResponse(r)
      BY <2>18, OverKeepsSlots DEF RecordResponse
  <2>19. CASE OpenQueued(r)
    <3>1. Holders' = Holders /\ slots' = slots
        BY <2>19 DEF OpenQueued, Goes, Holders, HoldsSlot, TasksPlaced, limitVars
    <3> QED
        BY <3>1, <1>same
  <2> QED
      BY <1>1, <2>1, <2>2, <2>3, <2>4, <2>5, <2>6, <2>7, <2>8, <2>9,
         <2>10, <2>11, <2>12, <2>13, <2>14, <2>15, <2>16, <2>17, <2>18, <2>19
      DEF TaskStep
<1>2. CASE ServerStep
  <2>1. ASSUME NEW s \in Sessions, Register(s) PROVE SlotsOK'
      BY <2>1, <1>same DEF Register, limitVars, taskVars, Holders, HoldsSlot
  <2>2. ASSUME NEW s \in Sessions, SessionEnds(s) PROVE SlotsOK'
      BY <2>2, <1>same DEF SessionEnds, limitVars, taskVars, Holders, HoldsSlot
  <2>3. CASE Unregister
      BY <2>3, <1>same DEF Unregister, limitVars, taskVars, Holders, HoldsSlot
  <2>4. CASE Clear
      BY <2>4, <1>same DEF Clear, limitVars, taskVars, Holders, HoldsSlot
  <2>5. CASE UNCHANGED vars
      BY <2>5, <1>same DEF vars, limitVars, taskVars, Holders, HoldsSlot
  <2>6. ASSUME NEW s \in Sessions, SessionStuck(s) PROVE SlotsOK'
      BY <2>6, <1>same DEF SessionStuck, limitVars, taskVars, Holders, HoldsSlot
  <2> QED
      BY <1>2, <2>1, <2>2, <2>3, <2>4, <2>5, <2>6 DEF ServerStep
<1> QED
    BY <1>1, <1>2, Steps

LEMMA GaugeStep == TypeOK /\ TasksPlaced /\ GaugeOK /\ [Next]_vars => GaugeOK'
<1> SUFFICES ASSUME TypeOK, TasksPlaced, GaugeOK, [Next]_vars PROVE GaugeOK'
    OBVIOUS
<1> buffered \in Int
    BY DEF TypeOK
<1>same. ASSUME UNCHANGED <<body, buffered>> PROVE GaugeOK'
    BY <1>same DEF GaugeOK
<1>1. ASSUME NEW r \in Tasks, TaskStep(r) PROVE GaugeOK'
  <2>1. CASE Dropped(r)
      BY <2>1, GiveBackKeepsGauge DEF Dropped, Fail, Over
  <2>2. CASE VerifiedLate(r)
      BY <2>2, <1>same DEF VerifiedLate, limitVars, taskVars
  <2>3. CASE VerifiedYes(r)
      BY <2>3, <1>same DEF VerifiedYes, limitVars, taskVars
  <2>4. CASE VerifiedNo(r)
      BY <2>4, GiveBackKeepsGauge DEF VerifiedNo, Fail, Over
  <2>5. ASSUME NEW h \in Credentials \cup {None}, Route(r, h) PROVE GaugeOK'
      BY <2>5, <1>same DEF Route, limitVars, taskVars
  <2>6. CASE AuthCached(r)
      BY <2>6, <1>same DEF AuthCached, limitVars, taskVars
  <2>7. CASE AuthUncached(r)
      BY <2>7, <1>same DEF AuthUncached, limitVars, taskVars
  <2>8. CASE AuthPermit(r)
      BY <2>8, <1>same DEF AuthPermit, limitVars, taskVars
  <2>9. CASE AuthRemember(r)
      BY <2>9, <1>same DEF AuthRemember, limitVars, taskVars
  <2>10. CASE TakeSlot(r)
      BY <2>10, <1>same DEF TakeSlot, limitVars, taskVars
  <2>11. ASSUME NEW n \in 0..MaxBody, UploadDone(r, n) PROVE GaugeOK'
    <3>1. /\ body' = [body EXCEPT ![r] = n] /\ buffered' = buffered + n /\ body[r] = 0
        BY <2>11 DEF UploadDone, Goes, TasksPlaced, BeforeBody
    <3>2. buffered' = buffered - body[r] + n
        BY <3>1
    <3> QED
        BY <3>1, <3>2, BodyKeepsGauge
  <2>12. CASE ReplayFind(r)
      BY <2>12, <1>same DEF ReplayFind, limitVars, taskVars
  <2>13. CASE ReplayRoute(r)
      BY <2>13, <1>same DEF ReplayRoute, limitVars, taskVars
  <2>14. CASE StreamOpened(r)
      BY <2>14, <1>same DEF StreamOpened, limitVars, taskVars
  <2>15. CASE StoreCapture(r)
      BY <2>15, <1>same DEF StoreCapture, limitVars, taskVars
  <2>16. CASE SendDone(r)
      BY <2>16, <1>same DEF SendDone, limitVars, taskVars
  <2>17. CASE ResponseRead(r)
      BY <2>17, <1>same DEF ResponseRead, limitVars, taskVars
  <2>18. CASE RecordResponse(r)
      BY <2>18, GiveBackKeepsGauge DEF RecordResponse, Fail, Over
  <2>19. CASE OpenQueued(r)
      BY <2>19, <1>same DEF OpenQueued, limitVars, taskVars
  <2> QED
      BY <1>1, <2>1, <2>2, <2>3, <2>4, <2>5, <2>6, <2>7, <2>8, <2>9,
         <2>10, <2>11, <2>12, <2>13, <2>14, <2>15, <2>16, <2>17, <2>18, <2>19
      DEF TaskStep
<1>2. CASE ServerStep
  <2>1. ASSUME NEW s \in Sessions, Register(s) PROVE GaugeOK'
      BY <2>1, <1>same DEF Register, limitVars, taskVars
  <2>2. ASSUME NEW s \in Sessions, SessionEnds(s) PROVE GaugeOK'
      BY <2>2, <1>same DEF SessionEnds, limitVars, taskVars
  <2>3. CASE Unregister
      BY <2>3, <1>same DEF Unregister, limitVars, taskVars
  <2>4. CASE Clear
      BY <2>4, <1>same DEF Clear, limitVars, taskVars
  <2>5. CASE UNCHANGED vars
      BY <2>5, <1>same DEF vars, limitVars, taskVars
  <2>6. ASSUME NEW s \in Sessions, SessionStuck(s) PROVE GaugeOK'
      BY <2>6, <1>same DEF SessionStuck, limitVars, taskVars
  <2> QED
      BY <1>2, <2>1, <2>2, <2>3, <2>4, <2>5, <2>6 DEF ServerStep
<1> QED
    BY <1>1, <1>2, Steps

LEMMA PermitsStep ==
  TypeOK /\ TasksPlaced /\ PermitsOK /\ [Next]_vars => PermitsOK'
<1> SUFFICES ASSUME TypeOK, TasksPlaced, PermitsOK, [Next]_vars PROVE PermitsOK'
    OBVIOUS
<1>0. /\ IsFiniteSet(blocking) /\ Cardinality(blocking) \in Nat
      /\ permits \in 0..AuthPermits /\ AuthPermits \in Nat
  <2>1. blocking \subseteq Tasks /\ IsFiniteSet(Tasks)
      BY HttpAssumption DEF PermitsOK, Tasks
  <2> QED
      BY <2>1, FS_Subset, FS_CardinalityType, HttpAssumption DEF PermitsOK
<1>same. ASSUME UNCHANGED <<permits, blocking>> PROVE PermitsOK'
    BY <1>same DEF PermitsOK
<1>ends. ASSUME NEW r \in Tasks, JobEnds(r) PROVE PermitsOK'
  <2>1. r \in blocking /\ blocking' = blocking \ {r} /\ permits' = permits + 1
      BY <1>ends DEF JobEnds
  <2>2. Cardinality(blocking') = Cardinality(blocking) - 1 /\ Cardinality(blocking') \in Nat
      BY <2>1, <1>0, FS_RemoveElement, FS_CardinalityType
  <2> QED
      BY <2>1, <2>2, <1>0 DEF PermitsOK
<1>1. ASSUME NEW r \in Tasks, TaskStep(r) PROVE PermitsOK'
  <2>1. CASE Dropped(r)
      BY <2>1, <1>same DEF Dropped, authVars
  <2>2. CASE VerifiedLate(r)
      BY <2>2, <1>ends DEF VerifiedLate
  <2>3. CASE VerifiedYes(r)
      BY <2>3, <1>ends DEF VerifiedYes
  <2>4. CASE VerifiedNo(r)
      BY <2>4, <1>ends DEF VerifiedNo
  <2>5. ASSUME NEW h \in Credentials \cup {None}, Route(r, h) PROVE PermitsOK'
      BY <2>5, <1>same DEF Route, authVars
  <2>6. CASE AuthCached(r)
      BY <2>6, <1>same DEF AuthCached, authVars
  <2>7. CASE AuthUncached(r)
      BY <2>7, <1>same DEF AuthUncached, authVars
  <2>8. CASE AuthPermit(r)
    <3>1. r \in Requests /\ r \notin blocking
        BY <2>8 DEF AuthPermit, Goes, TasksPlaced, Tasks
    <3>2. permits > 0 /\ permits' = permits - 1 /\ blocking' = blocking \cup {r}
        BY <2>8 DEF AuthPermit
    <3>3. Cardinality(blocking') = Cardinality(blocking) + 1
        BY <3>1, <3>2, <1>0, FS_AddElement
    <3> QED
        BY <3>1, <3>2, <3>3, <1>0 DEF PermitsOK
  <2>9. CASE AuthRemember(r)
      BY <2>9, <1>same DEF AuthRemember, authVars
  <2>10. CASE TakeSlot(r)
      BY <2>10, <1>same DEF TakeSlot, authVars
  <2>11. ASSUME NEW n \in 0..MaxBody, UploadDone(r, n) PROVE PermitsOK'
      BY <2>11, <1>same DEF UploadDone, authVars
  <2>12. CASE ReplayFind(r)
      BY <2>12, <1>same DEF ReplayFind, authVars
  <2>13. CASE ReplayRoute(r)
      BY <2>13, <1>same DEF ReplayRoute, authVars
  <2>14. CASE StreamOpened(r)
      BY <2>14, <1>same DEF StreamOpened, authVars
  <2>15. CASE StoreCapture(r)
      BY <2>15, <1>same DEF StoreCapture, authVars
  <2>16. CASE SendDone(r)
      BY <2>16, <1>same DEF SendDone, authVars
  <2>17. CASE ResponseRead(r)
      BY <2>17, <1>same DEF ResponseRead, authVars
  <2>18. CASE RecordResponse(r)
      BY <2>18, <1>same DEF RecordResponse, authVars
  <2>19. CASE OpenQueued(r)
      BY <2>19, <1>same DEF OpenQueued, authVars
  <2> QED
      BY <1>1, <2>1, <2>2, <2>3, <2>4, <2>5, <2>6, <2>7, <2>8, <2>9,
         <2>10, <2>11, <2>12, <2>13, <2>14, <2>15, <2>16, <2>17, <2>18, <2>19
      DEF TaskStep
<1>2. CASE ServerStep
  <2>1. ASSUME NEW s \in Sessions, Register(s) PROVE PermitsOK'
      BY <2>1, <1>same DEF Register, authVars
  <2>2. ASSUME NEW s \in Sessions, SessionEnds(s) PROVE PermitsOK'
      BY <2>2, <1>same DEF SessionEnds, authVars
  <2>3. CASE Unregister
      BY <2>3, <1>same DEF Unregister, authVars
  <2>4. CASE Clear
      BY <2>4, <1>same DEF Clear, authVars
  <2>5. CASE UNCHANGED vars
      BY <2>5, <1>same DEF vars, authVars
  <2>6. ASSUME NEW s \in Sessions, SessionStuck(s) PROVE PermitsOK'
      BY <2>6, <1>same DEF SessionStuck, authVars
  <2> QED
      BY <1>2, <2>1, <2>2, <2>3, <2>4, <2>5, <2>6 DEF ServerStep
<1> QED
    BY <1>1, <1>2, Steps

(* The types of what the limits and the captures do not cover. *)
RestOK ==
  /\ tunnel \in Sessions \cup {None} /\ past \subseteq Sessions
  /\ alive \subseteq past /\ stuck \subseteq past
  /\ cached \in [Sessions -> Credentials \cup {None}]
  /\ buffered \in Int
  /\ stage \in [Tasks -> Stages]
  /\ status \in [Tasks -> Recorded \cup {None, "failed"}]
  /\ seen \in [Tasks -> Sessions \cup {None}]
  /\ header \in [Tasks -> Credentials \cup {None}]

LEMMA StageNames ==
  /\ "auth" \in Stages /\ "permit" \in Stages /\ "verify" \in Stages /\ "remember" \in Stages
  /\ "admit" \in Stages /\ "upload" \in Stages /\ "found" \in Stages /\ "stream" \in Stages
  /\ "capture" \in Stages /\ "send" \in Stages /\ "response" \in Stages /\ "record" \in Stages
  /\ "open" \in Stages /\ "done" \in Stages
BY DEF Stages

LEMMA RestStep == TypeOK /\ TasksPlaced /\ [Next]_vars => RestOK'
<1> SUFFICES ASSUME TypeOK, TasksPlaced, [Next]_vars PROVE RestOK'
    OBVIOUS
<1> RestOK /\ \A r \in Tasks : body[r] \in Int
    BY HttpAssumption DEF TypeOK, RestOK
<1> USE StageNames, HttpAssumption DEF RestOK, TasksPlaced, GiveBack
<1>1. ASSUME NEW r \in Tasks, TaskStep(r) PROVE RestOK'
  <2>1. CASE Dropped(r)
      BY <2>1 DEF Dropped, Fail, Over, registryVars, authVars, limitVars, taskVars
  <2>2. CASE VerifiedLate(r)
      BY <2>2 DEF VerifiedLate, JobEnds, registryVars, authVars, limitVars, taskVars
  <2>3. CASE VerifiedYes(r)
      BY <2>3 DEF VerifiedYes, JobEnds, Goes, registryVars, authVars, limitVars, taskVars
  <2>4. CASE VerifiedNo(r)
      BY <2>4 DEF VerifiedNo, JobEnds, Fail, Over, registryVars, authVars, limitVars, taskVars
  <2>5. ASSUME NEW h \in Credentials \cup {None}, Route(r, h) PROVE RestOK'
      BY <2>5 DEF Route, Goes, registryVars, authVars, limitVars, taskVars
  <2>6. CASE AuthCached(r)
      BY <2>6 DEF AuthCached, Goes, registryVars, authVars, limitVars, taskVars
  <2>7. CASE AuthUncached(r)
      BY <2>7 DEF AuthUncached, Goes, registryVars, authVars, limitVars, taskVars
  <2>8. CASE AuthPermit(r)
      BY <2>8 DEF AuthPermit, Goes, registryVars, authVars, limitVars, taskVars
  <2>9. CASE AuthRemember(r)
      BY <2>9 DEF AuthRemember, Goes, registryVars, authVars, limitVars, taskVars
  <2>10. CASE TakeSlot(r)
      BY <2>10 DEF TakeSlot, Goes, registryVars, authVars, limitVars, taskVars
  <2>11. ASSUME NEW n \in 0..MaxBody, UploadDone(r, n) PROVE RestOK'
      BY <2>11 DEF UploadDone, Goes, registryVars, authVars, limitVars, taskVars
  <2>12. CASE ReplayFind(r)
      BY <2>12 DEF ReplayFind, Goes, registryVars, authVars, limitVars, taskVars
  <2>13. CASE ReplayRoute(r)
      BY <2>13 DEF ReplayRoute, Goes, registryVars, authVars, limitVars, taskVars
  <2>14. CASE StreamOpened(r)
      BY <2>14 DEF StreamOpened, Goes, registryVars, authVars, limitVars, taskVars
  <2>15. CASE StoreCapture(r)
      BY <2>15 DEF StoreCapture, Goes, registryVars, authVars, limitVars, taskVars
  <2>16. CASE SendDone(r)
      BY <2>16 DEF SendDone, Goes, registryVars, authVars, limitVars, taskVars
  <2>17. CASE ResponseRead(r)
      BY <2>17 DEF ResponseRead, Goes, registryVars, authVars, limitVars, taskVars
  <2>18. CASE RecordResponse(r)
      BY <2>18 DEF RecordResponse, Over, registryVars, authVars, limitVars, taskVars
  <2>19. CASE OpenQueued(r)
      BY <2>19 DEF OpenQueued, Goes, registryVars, authVars, limitVars, taskVars
  <2> QED
      BY <1>1, <2>1, <2>2, <2>3, <2>4, <2>5, <2>6, <2>7, <2>8, <2>9,
         <2>10, <2>11, <2>12, <2>13, <2>14, <2>15, <2>16, <2>17, <2>18, <2>19
      DEF TaskStep
<1>2. CASE ServerStep
  <2>1. ASSUME NEW s \in Sessions, Register(s) PROVE RestOK'
      BY <2>1 DEF Register, registryVars, authVars, limitVars, taskVars
  <2>2. ASSUME NEW s \in Sessions, SessionEnds(s) PROVE RestOK'
      BY <2>2 DEF SessionEnds, registryVars, authVars, limitVars, taskVars
  <2>3. CASE Unregister
      BY <2>3 DEF Unregister, registryVars, authVars, limitVars, taskVars
  <2>4. CASE Clear
      BY <2>4 DEF Clear, registryVars, authVars, limitVars, taskVars
  <2>5. CASE UNCHANGED vars
      BY <2>5 DEF vars, registryVars, authVars, limitVars, taskVars
  <2>6. ASSUME NEW s \in Sessions, SessionStuck(s) PROVE RestOK'
      BY <2>6 DEF SessionStuck, registryVars, authVars, limitVars, taskVars
  <2> QED
      BY <1>2, <2>1, <2>2, <2>3, <2>4, <2>5, <2>6 DEF ServerStep
<1> QED
    BY <1>1, <1>2, Steps

-----------------------------------------------------------------------------
(* The invariant in the parts that the lemmas speak of. *)
LEMMA HttpInvParts ==
  HttpInv <=>
    /\ RestOK /\ TasksPlaced /\ AuthSound /\ CapturesOK
    /\ SlotsOK /\ GaugeOK /\ PermitsOK
<1>1. TypeOK /\ CapturesTellOutcome /\ QueueHasTunnel <=>
        /\ RestOK /\ CapturesOK /\ slots \in 0..BodySlots /\ body \in [Tasks -> 0..MaxBody]
        /\ permits \in 0..AuthPermits /\ blocking \subseteq Requests
    BY DEF TypeOK, RestOK, CapturesOK, CapturesTellOutcome, QueueHasTunnel,
           OutcomeOf, Queue
<1>2. /\ SlotsOK => slots \in 0..BodySlots
      /\ GaugeOK => body \in [Tasks -> 0..MaxBody]
      /\ PermitsOK => permits \in 0..AuthPermits /\ blocking \subseteq Requests
    BY DEF SlotsOK, GaugeOK, PermitsOK
<1> QED
    BY <1>1, <1>2, LimitsOK DEF HttpInv, AuthSound

LEMMA HttpInvHolds == Spec => []HttpInv
<1>1. Init => HttpInv
  <2> SUFFICES ASSUME Init PROVE HttpInv
      OBVIOUS
  <2>1. RestOK
      BY DEF Init, RestOK, Stages
  <2>2. TasksPlaced /\ AuthSound
      BY HttpAssumption DEF Init, TasksPlaced, AuthSound, CacheSound, RememberedIsVerified,
                            OnlyAuthorizedPass, Tasks
  <2>3. CapturesOK
      BY DEF Init, CapturesOK
  <2>4. SlotsOK
    <3>1. Holders = {}
        BY DEF Init, Holders, HoldsSlot
    <3> QED
        BY <3>1, FS_EmptySet, HttpAssumption DEF Init, SlotsOK
  <2>5. PermitsOK
      BY FS_EmptySet, HttpAssumption DEF Init, PermitsOK
  <2>6. GaugeOK
    <3> DEFINE f == Sums(body, Tasks)
               N == {s \in SUBSET Tasks : f[s] # 0}
    <3>1. body \in [Tasks -> 0..MaxBody] /\ \A r \in Tasks : body[r] = 0
        BY HttpAssumption DEF Init
    <3>2. body \in [Tasks -> Int] /\ IsFiniteSet(Tasks)
        BY <3>1, HttpAssumption
    <3>3. IsTable(f, body, Tasks)
        BY <3>2, SumsIsTable
    <3> HIDE DEF f
    <3>4. N = {}
      <4> SUFFICES ASSUME N # {} PROVE FALSE
          OBVIOUS
      <4>1. N \in SUBSET (SUBSET Tasks)
          OBVIOUS
      <4> HIDE DEF N
      <4>2. PICK t \in N : \A u \in SUBSET t : u # t => u \notin N
          BY <3>2, <4>1, Smallest
      <4> USE DEF N
      <4>3. t \in SUBSET Tasks /\ f[t] # 0
          OBVIOUS
      <4>4. t # {} /\ Pick(t) \in t
          BY <3>3, <4>3, PickIn DEF IsTable
      <4>5. f[t \ {Pick(t)}] = 0
          BY <4>2, <4>3, <4>4
      <4>6. f[t] = body[Pick(t)] + f[t \ {Pick(t)}]
          BY <3>3, <4>3, <4>4 DEF IsTable
      <4> QED
          BY <3>1, <4>3, <4>4, <4>5, <4>6
    <3>5. f[Tasks] = 0
        BY <3>4
    <3> QED
        BY <3>1, <3>5 DEF GaugeOK, Init, f
  <2> QED
      BY <2>1, <2>2, <2>3, <2>4, <2>5, <2>6, HttpInvParts
<1>parts. RestOK' /\ TasksPlaced' /\ AuthSound' /\ CapturesOK' /\ SlotsOK' /\ GaugeOK' /\ PermitsOK'
            => HttpInv'
    BY HttpInvParts, PTL
<1>2. HttpInv /\ [Next]_vars => HttpInv'
  <2> SUFFICES ASSUME HttpInv, [Next]_vars PROVE HttpInv'
      OBVIOUS
  <2>1. /\ TypeOK /\ TasksPlaced /\ AuthSound /\ CapturesOK
        /\ SlotsOK /\ GaugeOK /\ PermitsOK
      BY HttpInvParts DEF HttpInv
  <2>2. RestOK' /\ TasksPlaced' /\ AuthSound'
      BY <2>1, RestStep, PlacedStep, AuthStepSound
  <2>3. CapturesOK' /\ SlotsOK' /\ GaugeOK' /\ PermitsOK'
      BY <2>1, CapturesStep, SlotsStep, GaugeStep, PermitsStep
  <2> QED
      BY <2>2, <2>3, <1>parts
<1> QED
    BY <1>1, <1>2, PTL DEF Spec

(* Nothing reaches a protected tunnel without that tunnel's credentials,   *)
(* for any number of requests that are verified, cached, dropped or        *)
(* re-routed at the same time (proxy.rs proxy_http_request, auth.rs).      *)
THEOREM NobodyPassesUnauthorized == Spec => []OnlyAuthorizedPass
<1>1. HttpInv => OnlyAuthorizedPass
    BY DEF HttpInv
<1> QED
    BY HttpInvHolds, <1>1, PTL

(* A response is recorded in the capture of its own request, and a request *)
(* that failed before it had one has none, and no capture outlives the     *)
(* tunnel whose queue it was stored in, for every size of the queue and    *)
(* however requests, replays, clearing and re-registration interleave.  A  *)
(* response that is recorded and then turned into a 500 counts as recorded *)
(* (proxy.rs proxy_request_to_tunnel, tunnel_manager.rs store_capture).    *)
THEOREM CapturesNeverMixUp == Spec => []CapturesTellOutcome
<1>1. HttpInv => CapturesTellOutcome
    BY DEF HttpInv
<1> QED
    BY HttpInvHolds, <1>1, PTL

(* No body slot, buffered byte or bcrypt permit is lost or given back      *)
(* twice, wherever a future is dropped, for every limit and any number of  *)
(* requests (proxy.rs BufferedRequestBody, auth.rs BasicAuthVerifier).     *)
THEOREM NoLimitLeaks == Spec => []LimitsConserved
<1>1. HttpInv => LimitsConserved
    BY DEF HttpInv
<1> QED
    BY HttpInvHolds, <1>1, PTL

==============================================================================
