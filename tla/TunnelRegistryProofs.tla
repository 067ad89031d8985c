------------------------ MODULE TunnelRegistryProofs ------------------------
(***************************************************************************)
(* Proofs about TunnelRegistry for every set of connections, requests,     *)
(* names, every port range and every max_tunnels.                          *)
(***************************************************************************)
EXTENDS TunnelRegistry, FiniteSetTheorems, TLAPS

-----------------------------------------------------------------------------
RegistryTypes ==
  /\ reservations \in [Keys -> Ids \cup {None}]
  /\ tunnels \in [Keys -> Attempts \cup {None}]
  /\ active_tunnels \in Int

(* Both removals keep the three registry variables in their types. *)
LEMMA RemoveTypes ==
  ASSUME RegistryTypes, NEW a \in Attempts, RemoveHttp(a) \/ RemoveTcp(a)
  PROVE  RegistryTypes'
<1> USE ConstantsAssumption DEF RegistryTypes, RemoveHttp, RemoveTcp
<1>1. reservations' \in [Keys -> Ids \cup {None}]
  OBVIOUS
<1>2. tunnels' \in [Keys -> Attempts \cup {None}]
  OBVIOUS
<1>3. active_tunnels' \in Int
  OBVIOUS
<1> QED BY <1>1, <1>2, <1>3

(* Every step of the registry keeps every variable in its type. *)
LEMMA TypeStep == TypeOK /\ [Next]_vars => TypeOK'
<1> SUFFICES ASSUME TypeOK, [Next]_vars PROVE TypeOK'
  OBVIOUS
<1> USE ConstantsAssumption DEF TypeOK, closerVars, setupVars
<1>1. ASSUME NEW a \in Attempts, Refuse(a), UNCHANGED closerVars PROVE TypeOK'
  BY <1>1 DEF Refuse
<1>2. ASSUME NEW a \in Attempts, NEW k \in Keys, Admit(a, k), UNCHANGED closerVars
      PROVE TypeOK'
  BY <1>2 DEF Admit, Reserve
<1>3. ASSUME NEW a \in Attempts, SetupStep(a) PROVE TypeOK'
  <2>1. CASE SetupFails(a)
    BY <2>1 DEF SetupFails, Release
  <2>2. CASE RecordCreated(a) \/ CreateDnsRecord(a)
    BY <2>2 DEF RecordCreated, CreateDnsRecord
  <2>3. CASE RegisterHttp(a)
    BY <2>3 DEF RegisterHttp, Register, Release
  <2>4. CASE BindTcp(a)
    BY <2>4 DEF BindTcp
  <2>5. CASE RegisterTcp(a)
    BY <2>5 DEF RegisterTcp, Register, Release
  <2> QED BY <1>3, <2>1, <2>2, <2>3, <2>4, <2>5 DEF SetupStep
<1>4. ASSUME NEW a \in Attempts, Drop(a) PROVE TypeOK'
  BY <1>4 DEF Drop
<1>5. ASSUME NEW a \in Attempts, ListenerSignal(a) PROVE TypeOK'
  BY <1>5 DEF ListenerSignal
<1>6. ASSUME NEW a \in Attempts, ListenerUnregister(a) PROVE TypeOK'
  BY <1>6 DEF ListenerUnregister, RemoveTcp
<1>7. ASSUME NEW a \in Attempts, ListenerRelease(a) PROVE TypeOK'
  BY <1>7 DEF ListenerRelease, Release
<1>8. ASSUME NEW a \in Attempts, RetainedRelease(a) PROVE TypeOK'
  BY <1>8 DEF RetainedRelease, Release
<1>9. ASSUME NEW x \in Closers, CloserStep(x) PROVE TypeOK'
  <2>1. ASSUME NEW a \in Attempts, CloseHttp(x, a) PROVE TypeOK'
    <3>1. todo' \in [Closers -> SUBSET Attempts] /\ busy' \in [Closers -> Attempts \cup {None}]
      BY <2>1 DEF CloseHttp
    <3>2. RegistryTypes'
      BY <2>1, RemoveTypes DEF CloseHttp, RegistryTypes
    <3> QED BY <2>1, <3>1, <3>2 DEF CloseHttp, RegistryTypes
  <2>2. ASSUME NEW a \in Attempts, CloseTcp(x, a) PROVE TypeOK'
    <3>1. todo' \in [Closers -> SUBSET Attempts] /\ busy' \in [Closers -> Attempts \cup {None}]
      BY <2>2 DEF CloseTcp
    <3>2. RegistryTypes'
      BY <2>2, RemoveTypes DEF CloseTcp, RegistryTypes
    <3> QED BY <2>2, <3>1, <3>2 DEF CloseTcp, RegistryTypes
  <2>3. ASSUME NEW a \in Attempts, CloseSkip(x, a) PROVE TypeOK'
    BY <2>3 DEF CloseSkip
  <2>4. CASE DeleteDnsRecord(x)
    BY <2>4 DEF DeleteDnsRecord
  <2>5. CASE StopObserved(x)
    BY <2>5 DEF StopObserved, Release
  <2>6. CASE StopTimeout(x)
    BY <2>6 DEF StopTimeout
  <2> QED BY <1>9, <2>1, <2>2, <2>3, <2>4, <2>5, <2>6 DEF CloserStep
<1>10. ASSUME NEW c \in Conns, EndSession(c) PROVE TypeOK'
  BY <1>10 DEF EndSession, Closers
<1>11. ASSUME NEW c \in Conns, SessionClosed(c) PROVE TypeOK'
  BY <1>11 DEF SessionClosed
<1>12. ASSUME NEW S \in SUBSET Attempts, NEW f, NEW t \in {"sleep", "http", "tcp", "stopped"},
              Scan(f, t, S)
       PROVE TypeOK'
  BY <1>12 DEF Scan, Closers
<1>13. CASE Shutdown
  BY <1>13 DEF Shutdown
<1>14. CASE UNCHANGED vars
  BY <1>14 DEF vars
<1>15. ASSUME NEW a \in Attempts,
              \/ RequestInvalid(a) \/ RequestAnyTcp(a)
              \/ \E n \in Names : RequestHttp(a, n)
              \/ \E p \in Ports : RequestTcp(a, p)
       PROVE TypeOK'
  BY <1>1, <1>2, <1>15 DEF Keys, RequestInvalid, RequestHttp, RequestTcp, RequestAnyTcp
<1>16. ASSUME NEW a \in Attempts, ListenerStep(a) \/ ListenerError(a) PROVE TypeOK'
  BY <1>4, <1>5, <1>6, <1>7, <1>16 DEF ListenerStep, ListenerCancelled, ListenerError
<1>17. ASSUME NEW S \in SUBSET Attempts, ReapHttp(S) \/ ReapTcp(S) PROVE TypeOK'
  BY <1>12, <1>17 DEF ReapHttp, ReapTcp
<1>18. CASE ReapDone \/ ReaperStop
  BY <1>12, <1>18 DEF ReapDone, ReaperStop
<1>19. ASSUME NEW c \in Conns, Disconnect(c) \/ ShutdownSession(c) \/ SessionClosed(c)
       PROVE TypeOK'
  BY <1>10, <1>11, <1>19 DEF Disconnect, ShutdownSession
<1> HIDE DEF TypeOK
<1> QED
  BY <1>3, <1>8, <1>9, <1>13, <1>14, <1>15, <1>16, <1>17, <1>18, <1>19 DEF Next

(* The types of all registry state hold in every reachable state, for any  *)
(* constants.                                                              *)
THEOREM TypeCorrect == Spec => []TypeOK
<1>1. Init => TypeOK
  <2> SUFFICES ASSUME Init PROVE TypeOK
    OBVIOUS
  <2>1. active_tunnels \in Int
    BY DEF Init
  <2> QED BY <2>1, ConstantsAssumption DEF Init, TypeOK
<1> QED BY <1>1, TypeStep, PTL DEF Spec

-----------------------------------------------------------------------------
(* A request that reached its registration still has its reservation and   *)
(* finds its endpoint unpublished, so the error branch is not taken.       *)
LEMMA RegistrationGuaranteed ==
  TypeOK /\ OwnershipInv => ReservationGuaranteesRegistration
<1> SUFFICES ASSUME TypeOK, OwnershipInv, NEW a \in Attempts,
                    pc[a] \in {"prepared", "bound"}
             PROVE  CanRegister(a)
  BY DEF ReservationGuaranteesRegistration
<1>1. key[a] \in Keys /\ Holds(a)
  BY DEF OwnershipInv, SetupInv, Holds, Handling
<1>2. OwnsReservation(a)
  BY <1>1 DEF OwnershipInv, HolderInv, OwnsReservation
<1>3. tunnels[key[a]] = None
  <2> SUFFICES ASSUME tunnels[key[a]] # None PROVE FALSE
    OBVIOUS
  <2> DEFINE b == tunnels[key[a]]
  <2>1. b \in Attempts /\ key[b] = key[a] /\ pc[b] = "up"
    BY <1>1 DEF TypeOK, OwnershipInv, PublishedInv
  <2>2. Published(b)
    BY <1>1, <2>1, ConstantsAssumption DEF Published
  <2>3. a = b
    BY <1>1, <2>1, <2>2 DEF OwnershipInv, ExclusiveInv, OwnsEndpoint
  <2> QED BY <2>1, <2>3
<1> QED BY <1>2, <1>3 DEF CanRegister

(* Publishing turns the reservation of a session into its tunnel. *)
LEMMA RegisterOwnership ==
  ASSUME TypeOK, OwnershipInv, NEW a \in Attempts, pc[a] \in {"prepared", "bound"},
         CanRegister(a), Register(a), pc' = [pc EXCEPT ![a] = "up"],
         UNCHANGED <<key, listener, closerVars>>
  PROVE  OwnershipInv'
<1> USE ConstantsAssumption
    DEF TypeOK, OwnershipInv, PublishedInv, SetupInv, ListenerInv, CloserInv,
        HolderInv, ExclusiveInv, SocketInv, CleanupInv, Holds, Handling, Stopping, AwaitedBy,
        Published, OwnsEndpoint, IsTcp, IsHttp, SocketOpen, Keys, closerVars,
        Register, CanRegister, OwnsReservation
<1>1. PublishedInv'
  OBVIOUS
<1>2. SetupInv'
  OBVIOUS
<1>3. ListenerInv'
  OBVIOUS
<1>4. CloserInv'
  OBVIOUS
<1>5. HolderInv'
  OBVIOUS
<1>6. ExclusiveInv'
  OBVIOUS
<1>7. SocketInv'
  OBVIOUS
<1>8. CleanupInv'
  OBVIOUS
<1> QED BY <1>1, <1>2, <1>3, <1>4, <1>5, <1>6, <1>7, <1>8

(* Every step keeps exactly one session answerable for each endpoint. *)
LEMMA OwnershipStep == TypeOK /\ OwnershipInv /\ [Next]_vars => OwnershipInv'
<1> SUFFICES ASSUME TypeOK, OwnershipInv, [Next]_vars PROVE OwnershipInv'
  OBVIOUS
<1> USE ConstantsAssumption
    DEF TypeOK, OwnershipInv, PublishedInv, SetupInv, ListenerInv, CloserInv,
        HolderInv, ExclusiveInv, SocketInv, CleanupInv, Holds, Handling, Stopping, AwaitedBy,
        Published, OwnsEndpoint, IsTcp, IsHttp, SocketOpen, Keys, closerVars, setupVars
<1>1. ASSUME NEW a \in Attempts, pc[a] = "new", Refuse(a), UNCHANGED closerVars
      PROVE  OwnershipInv'
  BY <1>1 DEF Refuse
<1>2. ASSUME NEW a \in Attempts, NEW k \in Keys, pc[a] = "new", Admit(a, k),
             UNCHANGED closerVars
      PROVE  OwnershipInv'
  <2>1. PublishedInv' /\ SetupInv' /\ ListenerInv' /\ CloserInv' /\ CleanupInv'
    BY <1>2 DEF Admit, Reserve, Free
  <2>2. HolderInv' /\ ExclusiveInv' /\ SocketInv'
    BY <1>2 DEF Admit, Reserve, Free
  <2> QED BY <2>1, <2>2
<1>3. ASSUME NEW a \in Attempts, SetupStep(a) PROVE OwnershipInv'
  <2>1. CASE SetupFails(a)
    <3>1. PublishedInv' /\ SetupInv' /\ ListenerInv'
      BY <2>1 DEF SetupFails, Release
    <3>2. CloserInv' /\ CleanupInv'
      BY <2>1 DEF SetupFails, Release
    <3>3. HolderInv'
      <4>1. \A b \in Attempts : Holds(b)' => Holds(b) /\ b # a /\ key'[b] = key[b]
        BY <2>1 DEF SetupFails, Release
      <4>2. \A b \in Attempts : Holds(b) /\ b # a => Holds(b)' /\ key[b] # key[a]
        BY <2>1 DEF SetupFails, Release
      <4>3. reservations' = [reservations EXCEPT ![key[a]] = None] /\ key[a] \in Keys
        BY <2>1 DEF SetupFails, Release
      <4> QED BY <4>1, <4>2, <4>3, <2>1 DEF SetupFails, Release
    <3>4. ExclusiveInv' /\ SocketInv'
      BY <2>1 DEF SetupFails, Release
    <3> QED BY <3>1, <3>2, <3>3, <3>4
  <2>2. CASE RecordCreated(a) \/ CreateDnsRecord(a)
    BY <2>2 DEF RecordCreated, CreateDnsRecord
  <2>3. CASE RegisterHttp(a)
    <3>1. CanRegister(a)
      BY <2>3, RegistrationGuaranteed DEF RegisterHttp, ReservationGuaranteesRegistration
    <3> QED BY <2>3, <3>1, RegisterOwnership DEF RegisterHttp
  <2>4. CASE BindTcp(a)
    BY <2>4 DEF BindTcp
  <2>5. CASE RegisterTcp(a)
    <3>1. CanRegister(a)
      BY <2>5, RegistrationGuaranteed DEF RegisterTcp, ReservationGuaranteesRegistration
    <3> QED BY <2>5, <3>1, RegisterOwnership DEF RegisterTcp
  <2> QED BY <1>3, <2>1, <2>2, <2>3, <2>4, <2>5 DEF SetupStep
<1>4. ASSUME NEW a \in Attempts, Drop(a) PROVE OwnershipInv'
  <2>1. PublishedInv' /\ SetupInv' /\ ListenerInv'
    BY <1>4 DEF Drop
  <2>2. CloserInv' /\ CleanupInv'
    BY <1>4 DEF Drop
  <2>3. HolderInv'
    BY <1>4 DEF Drop
  <2>4. ExclusiveInv' /\ SocketInv'
    BY <1>4 DEF Drop
  <2> QED BY <2>1, <2>2, <2>3, <2>4
<1>5. ASSUME NEW a \in Attempts, ListenerSignal(a) PROVE OwnershipInv'
  <2>1. PublishedInv' /\ SetupInv' /\ ListenerInv'
    BY <1>5 DEF ListenerSignal
  <2>2. CloserInv' /\ CleanupInv'
    BY <1>5 DEF ListenerSignal
  <2>3. HolderInv'
    BY <1>5 DEF ListenerSignal
  <2>4. ExclusiveInv' /\ SocketInv'
    BY <1>5 DEF ListenerSignal
  <2> QED BY <2>1, <2>2, <2>3, <2>4
<1>6. ASSUME NEW a \in Attempts, ListenerUnregister(a) PROVE OwnershipInv'
  <2>1. PublishedInv' /\ SetupInv' /\ ListenerInv'
    BY <1>6 DEF ListenerUnregister, RemoveTcp
  <2>2. CloserInv' /\ CleanupInv'
    BY <1>6 DEF ListenerUnregister, RemoveTcp
  <2>3. HolderInv'
    BY <1>6 DEF ListenerUnregister, RemoveTcp
  <2>4. ExclusiveInv' /\ SocketInv'
    BY <1>6 DEF ListenerUnregister, RemoveTcp
  <2> QED BY <2>1, <2>2, <2>3, <2>4
<1>7. ASSUME NEW a \in Attempts, ListenerRelease(a) PROVE OwnershipInv'
  <2>1. PublishedInv' /\ SetupInv' /\ ListenerInv'
    BY <1>7 DEF ListenerRelease, Release
  <2>2. CloserInv' /\ CleanupInv'
    BY <1>7 DEF ListenerRelease, Release
  <2>3. HolderInv'
    <3>1. \A b \in Attempts : Holds(b)' => Holds(b) /\ b # a /\ key'[b] = key[b]
      BY <1>7 DEF ListenerRelease, Release
    <3>2. \A b \in Attempts : Holds(b) /\ b # a => Holds(b)' /\ key[b] # key[a]
      BY <1>7 DEF ListenerRelease, Release
    <3>3. reservations' = [reservations EXCEPT ![key[a]] = None] /\ key[a] \in Keys
      BY <1>7 DEF ListenerRelease, Release
    <3> QED BY <3>1, <3>2, <3>3, <1>7 DEF ListenerRelease, Release
  <2>4. ExclusiveInv' /\ SocketInv'
    BY <1>7 DEF ListenerRelease, Release
  <2> QED BY <2>1, <2>2, <2>3, <2>4
<1>8. ASSUME NEW a \in Attempts, RetainedRelease(a) PROVE OwnershipInv'
  <2>1. PublishedInv' /\ SetupInv' /\ ListenerInv'
    BY <1>8 DEF RetainedRelease, Release, Stopped
  <2>2. CloserInv' /\ CleanupInv'
    BY <1>8 DEF RetainedRelease, Release, Stopped
  <2>3. HolderInv'
    <3>1. \A b \in Attempts : Holds(b)' => Holds(b) /\ b # a /\ key'[b] = key[b]
      BY <1>8 DEF RetainedRelease, Release, Stopped
    <3>2. \A b \in Attempts : Holds(b) /\ b # a => Holds(b)' /\ key[b] # key[a]
      BY <1>8 DEF RetainedRelease, Release, Stopped
    <3>3. reservations' = [reservations EXCEPT ![key[a]] = None] /\ key[a] \in Keys
      BY <1>8 DEF RetainedRelease, Release, Stopped
    <3> QED BY <3>1, <3>2, <3>3, <1>8 DEF RetainedRelease, Release, Stopped
  <2>4. ExclusiveInv' /\ SocketInv'
    BY <1>8 DEF RetainedRelease, Release, Stopped
  <2> QED BY <2>1, <2>2, <2>3, <2>4
<1>9. ASSUME NEW x \in Closers, CloserStep(x) PROVE OwnershipInv'
  <2>1. ASSUME NEW a \in Attempts, CloseHttp(x, a) PROVE OwnershipInv'
    <3>1. PublishedInv' /\ SetupInv' /\ ListenerInv'
      BY <2>1 DEF CloseHttp, RemoveHttp, Turn
    <3>2. CloserInv' /\ CleanupInv'
      BY <2>1 DEF CloseHttp, RemoveHttp, Turn
    <3>3. HolderInv'
      BY <2>1 DEF CloseHttp, RemoveHttp, Turn
    <3>4. ExclusiveInv' /\ SocketInv'
      BY <2>1 DEF CloseHttp, RemoveHttp, Turn
    <3> QED BY <3>1, <3>2, <3>3, <3>4
  <2>2. ASSUME NEW a \in Attempts, CloseTcp(x, a) PROVE OwnershipInv'
    <3>1. PublishedInv' /\ SetupInv' /\ ListenerInv'
      BY <2>2 DEF CloseTcp, RemoveTcp, Turn
    <3>2. CloserInv' /\ CleanupInv'
      BY <2>2 DEF CloseTcp, RemoveTcp, Turn
    <3>3. HolderInv'
      BY <2>2 DEF CloseTcp, RemoveTcp, Turn
    <3>4. ExclusiveInv' /\ SocketInv'
      BY <2>2 DEF CloseTcp, RemoveTcp, Turn
    <3> QED BY <3>1, <3>2, <3>3, <3>4
  <2>3. ASSUME NEW a \in Attempts, CloseSkip(x, a) PROVE OwnershipInv'
    <3>1. PublishedInv' /\ SetupInv' /\ ListenerInv'
      BY <2>3 DEF CloseSkip, Turn
    <3>2. CloserInv' /\ CleanupInv'
      BY <2>3 DEF CloseSkip, Turn
    <3>3. HolderInv'
      BY <2>3 DEF CloseSkip, Turn
    <3>4. ExclusiveInv' /\ SocketInv'
      BY <2>3 DEF CloseSkip, Turn
    <3> QED BY <3>1, <3>2, <3>3, <3>4
  <2>4. CASE DeleteDnsRecord(x)
    BY <2>4 DEF DeleteDnsRecord
  <2>5. CASE StopObserved(x)
    <3>1. PublishedInv' /\ SetupInv' /\ ListenerInv'
      BY <2>5 DEF StopObserved, Release, Stopped
    <3>2. CloserInv' /\ CleanupInv'
      BY <2>5 DEF StopObserved, Release, Stopped
    <3>3. HolderInv'
      <4>1. \A b \in Attempts : Holds(b)' => Holds(b) /\ b # busy[x] /\ key'[b] = key[b]
        BY <2>5 DEF StopObserved, Release, Stopped
      <4>2. \A b \in Attempts : Holds(b) /\ b # busy[x] => Holds(b)' /\ key[b] # key[busy[x]]
        BY <2>5 DEF StopObserved, Release, Stopped
      <4>3. reservations' = [reservations EXCEPT ![key[busy[x]]] = None] /\ key[busy[x]] \in Keys
        BY <2>5 DEF StopObserved, Release, Stopped
      <4> QED BY <4>1, <4>2, <4>3, <2>5 DEF StopObserved, Release, Stopped
    <3>4. ExclusiveInv' /\ SocketInv'
      BY <2>5 DEF StopObserved, Release, Stopped
    <3> QED BY <3>1, <3>2, <3>3, <3>4
  <2>6. CASE StopTimeout(x)
    <3>1. PublishedInv' /\ SetupInv' /\ ListenerInv'
      BY <2>6 DEF StopTimeout, Stopped
    <3>2. CloserInv' /\ CleanupInv'
      BY <2>6 DEF StopTimeout, Stopped
    <3>3. HolderInv'
      BY <2>6 DEF StopTimeout, Stopped
    <3>4. ExclusiveInv' /\ SocketInv'
      BY <2>6 DEF StopTimeout, Stopped
    <3> QED BY <3>1, <3>2, <3>3, <3>4
  <2> QED BY <1>9, <2>1, <2>2, <2>3, <2>4, <2>5, <2>6 DEF CloserStep
<1>10. ASSUME NEW c \in Conns, EndSession(c) PROVE OwnershipInv'
  <2>1. PublishedInv' /\ SetupInv' /\ ListenerInv'
    BY <1>10 DEF EndSession, Closers
  <2>2. CloserInv' /\ CleanupInv'
    BY <1>10 DEF EndSession, Closers
  <2>3. HolderInv'
    BY <1>10 DEF EndSession, Closers
  <2>4. ExclusiveInv' /\ SocketInv'
    BY <1>10 DEF EndSession, Closers
  <2> QED BY <2>1, <2>2, <2>3, <2>4
<1>11. ASSUME NEW c \in Conns, SessionClosed(c) PROVE OwnershipInv'
  BY <1>11 DEF SessionClosed
<1>12. ASSUME NEW S \in SUBSET Attempts, NEW f, NEW t, Scan(f, t, S),
              \A a \in S : Published(a)
       PROVE  OwnershipInv'
  <2>1. PublishedInv' /\ SetupInv' /\ ListenerInv'
    BY <1>12 DEF Scan, Closers
  <2>2. CloserInv' /\ CleanupInv'
    BY <1>12 DEF Scan, Closers
  <2>3. HolderInv'
    BY <1>12 DEF Scan, Closers
  <2>4. ExclusiveInv' /\ SocketInv'
    BY <1>12 DEF Scan, Closers
  <2> QED BY <2>1, <2>2, <2>3, <2>4
<1>13. CASE Shutdown
  BY <1>13 DEF Shutdown
<1>14. CASE UNCHANGED vars
  BY <1>14 DEF vars
<1>15. ASSUME NEW a \in Attempts,
              \/ RequestInvalid(a) \/ RequestAnyTcp(a)
              \/ \E n \in Names : RequestHttp(a, n)
              \/ \E p \in Ports : RequestTcp(a, p)
       PROVE  OwnershipInv'
  BY <1>1, <1>2, <1>15
  DEF RequestInvalid, RequestHttp, RequestTcp, RequestAnyTcp, Accepts
<1> HIDE DEF OwnershipInv
<1>16. ASSUME NEW a \in Attempts, ListenerStep(a) \/ ListenerError(a) PROVE OwnershipInv'
  BY <1>4, <1>5, <1>6, <1>7, <1>16 DEF ListenerStep, ListenerCancelled, ListenerError
<1>17. ASSUME NEW S \in SUBSET Attempts, ReapHttp(S) \/ ReapTcp(S) PROVE OwnershipInv'
  BY <1>12, <1>17 DEF ReapHttp, ReapTcp
<1>18. CASE ReapDone \/ ReaperStop
  BY <1>12, <1>18 DEF ReapDone, ReaperStop
<1>19. ASSUME NEW c \in Conns, Disconnect(c) \/ ShutdownSession(c) \/ SessionClosed(c)
       PROVE  OwnershipInv'
  BY <1>10, <1>11, <1>19 DEF Disconnect, ShutdownSession
<1> QED
  BY <1>3, <1>8, <1>9, <1>13, <1>14, <1>15, <1>16, <1>17, <1>18, <1>19 DEF Next

(* Reservations, tunnels, listener tasks and closing tasks always agree on *)
(* who answers for an endpoint, also when clients reuse request ids.       *)
THEOREM OwnershipCorrect == Spec => []OwnershipInv
<1>1. Init => OwnershipInv
  <2>1. Init => CleanupInv
    BY DEF Init, CleanupInv, Closers
  <2> QED BY <2>1, ConstantsAssumption
  DEF Init, OwnershipInv, PublishedInv, SetupInv, ListenerInv, CloserInv, HolderInv,
      ExclusiveInv, SocketInv, Holds, Handling, Stopping, AwaitedBy, Published,
      OwnsEndpoint, IsTcp, IsHttp, SocketOpen
<1> QED BY <1>1, OwnershipStep, TypeCorrect, PTL DEF Spec

(* The 409 answers after a successful reservation are unreachable. *)
THEOREM RegistrationCannotFail == Spec => []ReservationGuaranteesRegistration
BY TypeCorrect, OwnershipCorrect, RegistrationGuaranteed, PTL

(* A request about to bind its port never meets a socket of this server.   *)
THEOREM BindIsSafe == Spec => []NoRaceWithBoundSocket
<1>1. TypeOK /\ OwnershipInv => NoRaceWithBoundSocket
  <2> SUFFICES ASSUME TypeOK, OwnershipInv, NEW a \in Attempts, NEW b \in Attempts,
                      pc[a] = "reserved", key[b] = key[a], SocketOpen(b)
               PROVE  FALSE
    BY DEF NoRaceWithBoundSocket
  <2>1. OwnsEndpoint(a) /\ OwnsEndpoint(b)
    BY DEF OwnershipInv, SocketInv, SocketOpen, OwnsEndpoint, Holds, Handling
  <2>2. a = b
    BY <2>1 DEF OwnershipInv, ExclusiveInv
  <2> QED BY <2>2 DEF OwnershipInv, ListenerInv, SocketOpen
<1> QED BY <1>1, TypeCorrect, OwnershipCorrect, PTL

-----------------------------------------------------------------------------
(* Who may take a tunnel out of the registry. *)

(* No step overwrites or drops another session's entry: a published tunnel *)
(* goes away only for a reason of its own.                                 *)
THEOREM NoForeignRemoval == Spec => RemovedForOwnReason
<1> DEFINE Fair(a) == /\ tunnels'[key[a]] = None
                      /\ \/ conn[ConnOf[a]] = "closing"
                         \/ a \in todo[Reaper]
                         \/ listener[a] = "stopped"
<1>1. ASSUME TypeOK, OwnershipInv, Next, NEW a \in Attempts, Published(a), ~Published(a)'
      PROVE  Fair(a)
  <2>0. key[a] \in Keys /\ tunnels[key[a]] = a
    BY <1>1 DEF Published, TypeOK
  <2>1. ASSUME UNCHANGED <<tunnels, key>> PROVE FALSE
    BY <1>1, <2>1 DEF Published
  <2>2. ASSUME NEW b \in Attempts, NEW k \in Keys, pc[b] = "new", Admit(b, k) PROVE FALSE
    <3>1. pc[a] = "up"
      BY <1>1, <2>0, ConstantsAssumption DEF OwnershipInv, PublishedInv
    <3> QED BY <1>1, <2>2, <3>1 DEF Admit, Published, TypeOK
  <2>3. ASSUME NEW b \in Attempts, Register(b), CanRegister(b), UNCHANGED key PROVE FALSE
    BY <1>1, <2>3, ConstantsAssumption DEF Register, CanRegister, Published, TypeOK
  <2>4. ASSUME NEW b \in Attempts, ListenerUnregister(b) PROVE Fair(a)
    BY <1>1, <2>0, <2>4, ConstantsAssumption
    DEF ListenerUnregister, RemoveTcp, Published, TypeOK, setupVars
  <2>5. ASSUME NEW x \in Closers, NEW b \in Attempts, CloseHttp(x, b) \/ CloseTcp(x, b)
        PROVE  Fair(a)
    <3>1. a = b /\ tunnels'[key[a]] = None
      BY <1>1, <2>0, <2>5, ConstantsAssumption
      DEF CloseHttp, CloseTcp, RemoveHttp, RemoveTcp, Published, TypeOK
    <3>2. b \in todo[x]
      BY <2>5 DEF CloseHttp, CloseTcp, Turn
    <3>3. x = Reaper \/ (ConnOf[b] = x /\ conn[x] = "closing")
      BY <1>1, <3>2 DEF OwnershipInv, CleanupInv, Closers
    <3> QED BY <3>1, <3>2, <3>3
  <2>6. ASSUME NEW b \in Attempts, SetupStep(b) PROVE FALSE
    <3>1. pc[b] \in {"prepared", "bound"} => CanRegister(b)
      BY <1>1, RegistrationGuaranteed DEF ReservationGuaranteesRegistration
    <3> QED
      BY <2>1, <2>3, <2>6, <3>1
      DEF SetupStep, RecordCreated, SetupFails, CreateDnsRecord, RegisterHttp, BindTcp,
          RegisterTcp
  <2>7. ASSUME NEW b \in Attempts,
               \/ RequestInvalid(b) \/ RequestAnyTcp(b)
               \/ \E n \in Names : RequestHttp(b, n)
               \/ \E p \in Ports : RequestTcp(b, p)
        PROVE  FALSE
    BY <2>1, <2>2, <2>7
    DEF RequestInvalid, RequestHttp, RequestTcp, RequestAnyTcp, Accepts, Refuse, Keys
  <2>8. ASSUME NEW b \in Attempts, ListenerStep(b) \/ ListenerError(b) \/ RetainedRelease(b)
        PROVE  Fair(a)
    BY <2>1, <2>4, <2>8
    DEF ListenerStep, ListenerError, ListenerCancelled, Drop, ListenerSignal,
        ListenerRelease, RetainedRelease, setupVars
  <2>9. ASSUME NEW x \in Closers, CloserStep(x) PROVE Fair(a)
    BY <2>1, <2>5, <2>9
    DEF CloserStep, CloseSkip, DeleteDnsRecord, StopObserved, StopTimeout
  <2>10. ASSUME NEW c \in Conns, Disconnect(c) \/ ShutdownSession(c) \/ SessionClosed(c)
         PROVE  FALSE
    BY <2>1, <2>10 DEF Disconnect, ShutdownSession, EndSession, SessionClosed
  <2>11. ASSUME NEW S \in SUBSET Attempts, ReapHttp(S) \/ ReapTcp(S) PROVE FALSE
    BY <2>1, <2>11 DEF ReapHttp, ReapTcp, Scan
  <2>12. ASSUME ReapDone \/ ReaperStop \/ Shutdown PROVE FALSE
    BY <2>1, <2>12 DEF ReapDone, ReaperStop, Scan, Shutdown
  <2> HIDE DEF Fair
  <2> QED BY <1>1, <2>6, <2>7, <2>8, <2>9, <2>10, <2>11, <2>12 DEF Next
<1>2. TypeOK /\ OwnershipInv /\ [Next]_vars =>
        [\A a \in Attempts : Published(a) /\ ~Published(a)' => Fair(a)]_vars
  BY <1>1
<1> QED BY <1>2, TypeCorrect, OwnershipCorrect, PTL DEF Spec, RemovedForOwnReason

-----------------------------------------------------------------------------
(* Counting: the capacity bound and the gauge. *)

CountInv == CapacityRespected /\ GaugeExact

(* There are finitely many endpoints, so the registry's sizes are numbers. *)
LEMMA KeysFinite == IsFiniteSet(Keys)
<1>1. IsFiniteSet(Ports)
  BY ConstantsAssumption, FS_Interval DEF Ports
<1> QED BY <1>1, FiniteAssumption, FS_Union DEF Keys

(* The lengths of the two maps, which at_capacity adds up. *)
LEMMA CountsAreNaturals ==
  /\ IsFiniteSet(Used) /\ Cardinality(Used) \in Nat
  /\ IsFiniteSet(Held) /\ Cardinality(Held) \in Nat
BY KeysFinite, FS_Subset, FS_CardinalityType DEF Used, Held

(* Counts depend on the two maps and the gauge only. *)
LEMMA CountFrame ==
  ASSUME CountInv, UNCHANGED <<reservations, tunnels, active_tunnels>>
  PROVE  CountInv'
BY DEF CountInv, CapacityRespected, GaugeExact, Used, Held

(* A reservation is made only below the limit. *)
LEMMA CountReserve ==
  ASSUME TypeOK, CountInv, NEW a \in Attempts, NEW k \in Keys, Reserve(a, k),
         UNCHANGED <<tunnels, active_tunnels>>
  PROVE  CountInv'
<1>1. Used' = Used
  BY DEF Used
<1>2. Held' = Held \cup {k} /\ k \notin Held
  BY ConstantsAssumption DEF Held, Reserve, Free, TypeOK
<1>3. Cardinality(Held') = Cardinality(Held) + 1
  BY <1>2, CountsAreNaturals, FS_AddElement
<1>4. Cardinality(Used) + Cardinality(Held) < MaxTunnels
  BY CountsAreNaturals, ConstantsAssumption DEF Reserve, at_capacity
<1> QED
  BY <1>1, <1>3, <1>4, CountsAreNaturals, ConstantsAssumption
  DEF CountInv, CapacityRespected, GaugeExact

(* Releasing frees at most one reservation and touches nothing else. *)
LEMMA CountRelease ==
  ASSUME TypeOK, CountInv, NEW a \in Attempts, Release(a),
         UNCHANGED <<tunnels, active_tunnels>>
  PROVE  CountInv'
<1>1. Used' = Used
  BY DEF Used
<1>2. Held' \in SUBSET Held
  BY DEF Held, Release, TypeOK
<1>3. Cardinality(Held') <= Cardinality(Held) /\ Cardinality(Held') \in Nat
  BY <1>2, CountsAreNaturals, FS_Subset, FS_CardinalityType
<1> QED
  BY <1>1, <1>3, CountsAreNaturals, ConstantsAssumption
  DEF CountInv, CapacityRespected, GaugeExact

(* Publishing moves one endpoint from the reservations to the tunnels. *)
LEMMA CountRegister ==
  ASSUME TypeOK, CountInv, NEW a \in Attempts, key[a] \in Keys,
         OwnsReservation(a), tunnels[key[a]] = None, Register(a)
  PROVE  CountInv'
<1>1. Used' = Used \cup {key[a]} /\ key[a] \notin Used
  BY ConstantsAssumption DEF Used, Register, TypeOK
<1>2. Held' = Held \ {key[a]} /\ key[a] \in Held
  BY ConstantsAssumption DEF Held, Register, TypeOK, OwnsReservation
<1>3. Cardinality(Used') = Cardinality(Used) + 1
  BY <1>1, CountsAreNaturals, FS_AddElement
<1>4. Cardinality(Held') = Cardinality(Held) - 1
  BY <1>2, CountsAreNaturals, FS_RemoveElement
<1>5. active_tunnels' = active_tunnels + 1
  BY DEF Register
<1> QED
  BY <1>3, <1>4, <1>5, CountsAreNaturals, ConstantsAssumption
  DEF CountInv, CapacityRespected, GaugeExact

(* Removing a tunnel frees it, or at most turns it into a reservation. *)
LEMMA CountRemove ==
  ASSUME TypeOK, CountInv, NEW a \in Attempts, RemoveHttp(a) \/ RemoveTcp(a)
  PROVE  CountInv'
<1>1. key[a] \in Keys /\ tunnels[key[a]] = a
  BY DEF RemoveHttp, RemoveTcp, Published, TypeOK
<1>2. Used' = Used \ {key[a]} /\ key[a] \in Used
  BY <1>1, ConstantsAssumption DEF Used, RemoveHttp, RemoveTcp, TypeOK
<1>3. Held' \in SUBSET (Held \cup {key[a]})
  BY <1>1 DEF Held, RemoveHttp, RemoveTcp, TypeOK
<1>4. Cardinality(Used') = Cardinality(Used) - 1
  BY <1>2, CountsAreNaturals, FS_RemoveElement
<1>5. IsFiniteSet(Held \cup {key[a]}) /\ Cardinality(Held \cup {key[a]}) <= Cardinality(Held) + 1
  <2>1. /\ IsFiniteSet(Held \cup {key[a]})
        /\ \/ Cardinality(Held \cup {key[a]}) = Cardinality(Held)
           \/ Cardinality(Held \cup {key[a]}) = Cardinality(Held) + 1
    BY CountsAreNaturals, FS_AddElement
  <2> QED BY <2>1, CountsAreNaturals
<1>6. Cardinality(Held') <= Cardinality(Held \cup {key[a]}) /\ Cardinality(Held') \in Nat
  BY <1>3, <1>5, FS_Subset, FS_CardinalityType
<1>7. Cardinality(Held \cup {key[a]}) \in Nat
  BY <1>5, FS_CardinalityType
<1>8. active_tunnels' = active_tunnels - 1
  BY DEF RemoveHttp, RemoveTcp
<1> QED
  BY <1>4, <1>5, <1>6, <1>7, <1>8, CountsAreNaturals, ConstantsAssumption
  DEF CountInv, CapacityRespected, GaugeExact

(* Every step respects the limit and keeps the gauge exact. *)
LEMMA CountStep == TypeOK /\ OwnershipInv /\ CountInv /\ [Next]_vars => CountInv'
<1> SUFFICES ASSUME TypeOK, OwnershipInv, CountInv, [Next]_vars PROVE CountInv'
  OBVIOUS
<1>1. ASSUME NEW b \in Attempts, SetupStep(b) PROVE CountInv'
  <2>1. CASE RegisterHttp(b) \/ RegisterTcp(b)
    <3>1. pc[b] \in {"prepared", "bound"}
      BY <2>1 DEF RegisterHttp, RegisterTcp
    <3>2. CanRegister(b)
      BY <3>1, RegistrationGuaranteed DEF ReservationGuaranteesRegistration
    <3>3. key[b] \in Keys /\ OwnsReservation(b)
      BY <3>1 DEF OwnershipInv, SetupInv, HolderInv, Holds, Handling, OwnsReservation
    <3>4. Register(b)
      BY <2>1, <3>2 DEF RegisterHttp, RegisterTcp
    <3> QED BY <3>2, <3>3, <3>4, CountRegister DEF CanRegister
  <2>2. CASE SetupFails(b)
    BY <2>2, CountRelease DEF SetupFails
  <2>3. CASE RecordCreated(b) \/ CreateDnsRecord(b) \/ BindTcp(b)
    BY <2>3, CountFrame DEF RecordCreated, CreateDnsRecord, BindTcp
  <2> QED BY <1>1, <2>1, <2>2, <2>3 DEF SetupStep
<1>2. ASSUME NEW b \in Attempts,
             \/ RequestInvalid(b) \/ RequestAnyTcp(b)
             \/ \E n \in Names : RequestHttp(b, n)
             \/ \E p \in Ports : RequestTcp(b, p)
      PROVE  CountInv'
  <2>1. ASSUME Refuse(b) PROVE CountInv'
    BY <2>1, CountFrame DEF Refuse
  <2>2. ASSUME NEW k \in Keys, Admit(b, k) PROVE CountInv'
    BY <2>2, CountReserve DEF Admit
  <2> QED
    BY <1>2, <2>1, <2>2 DEF RequestInvalid, RequestHttp, RequestTcp, RequestAnyTcp, Keys
<1>3. ASSUME NEW b \in Attempts, ListenerStep(b) \/ ListenerError(b) \/ RetainedRelease(b)
      PROVE  CountInv'
  BY <1>3, CountFrame, CountRemove, CountRelease
  DEF ListenerStep, ListenerError, ListenerCancelled, Drop, ListenerSignal,
      ListenerUnregister, ListenerRelease, RetainedRelease
<1>4. ASSUME NEW x \in Closers, CloserStep(x) PROVE CountInv'
  <2>1. ASSUME NEW b \in Attempts, CloseHttp(x, b) \/ CloseTcp(x, b) PROVE CountInv'
    BY <2>1, CountRemove DEF CloseHttp, CloseTcp
  <2>2. CASE StopObserved(x)
    BY <2>2, CountRelease DEF StopObserved, TypeOK
  <2> QED
    BY <1>4, <2>1, <2>2, CountFrame DEF CloserStep, CloseSkip, DeleteDnsRecord, StopTimeout
<1>5. ASSUME NEW c \in Conns, Disconnect(c) \/ ShutdownSession(c) \/ SessionClosed(c)
      PROVE  CountInv'
  BY <1>5, CountFrame DEF Disconnect, ShutdownSession, EndSession, SessionClosed
<1>6. ASSUME NEW S \in SUBSET Attempts, ReapHttp(S) \/ ReapTcp(S) PROVE CountInv'
  BY <1>6, CountFrame DEF ReapHttp, ReapTcp, Scan
<1>7. CASE ReapDone \/ ReaperStop \/ Shutdown
  BY <1>7, CountFrame DEF ReapDone, ReaperStop, Scan, Shutdown
<1>8. CASE UNCHANGED vars
  BY <1>8, CountFrame DEF vars
<1> QED BY <1>1, <1>2, <1>3, <1>4, <1>5, <1>6, <1>7, <1>8 DEF Next

(* Capacity and gauge, together, in every reachable state. *)
LEMMA CountCorrect == Spec => []CountInv
<1>1. Init => CountInv
  <2> SUFFICES ASSUME Init PROVE CountInv
    OBVIOUS
  <2>1. Used = {} /\ Held = {}
    BY DEF Init, Used, Held
  <2>2. Cardinality(Used) = 0 /\ Cardinality(Held) = 0
    BY <2>1, FS_EmptySet
  <2>3. active_tunnels = 0
    BY DEF Init
  <2> QED
    BY <2>2, <2>3, ConstantsAssumption DEF CountInv, CapacityRespected, GaugeExact
<1> QED BY <1>1, CountStep, TypeCorrect, OwnershipCorrect, PTL DEF Spec

(* max_tunnels bounds published tunnels and reservations together, in      *)
(* every interleaving of setups, closings and reapings.                    *)
THEOREM CapacityCorrect == Spec => []CapacityRespected
<1>1. CountInv => CapacityRespected
  BY DEF CountInv
<1> QED BY <1>1, CountCorrect, PTL

(* The active_tunnels gauge is the number of published tunnels. *)
THEOREM GaugeCorrect == Spec => []GaugeExact
<1>1. CountInv => GaugeExact
  BY DEF CountInv
<1> QED BY <1>1, CountCorrect, PTL

-----------------------------------------------------------------------------
(* DNS records. *)

(* What holds of the record of one request.  Only HTTP requests have one,  *)
(* and until create_record has answered the server knows no id.            *)
RecordOf(a) ==
  /\ dns[a] # "none" => DnsEnabled /\ IsHttp(a) /\ pc[a] # "new"
  /\ pc[a] = "reserved" => dns[a] \in {"none", "created"}
  /\ dns[a] = "created" => pc[a] = "reserved"
  /\ dns[a] = "live" =>
       Handling(a) \/ Published(a) \/ \E x \in Closers : busy[x] = a
  /\ dns[a] = "orphan" => pc[a] \in {"up", "refused"} /\ ~Published(a)
  /\ dns[a] = "unanswered" => pc[a] = "refused"

DnsInv == \A a \in Attempts : RecordOf(a)

(* Records do not depend on reservations, listeners or connections. *)
LEMMA DnsFrame ==
  ASSUME DnsInv, UNCHANGED <<dns, pc, key, tunnels, busy>>
  PROVE  DnsInv'
BY DEF DnsInv, RecordOf, IsHttp, Handling, Published

(* A step that concerns one request leaves the records of the others alone *)
(* when it neither publishes, removes nor drops one of them.               *)
LEMMA DnsOneStep ==
  ASSUME DnsInv, NEW a \in Attempts, RecordOf(a)',
         \A b \in Attempts \ {a} :
           /\ dns'[b] = dns[b] /\ pc'[b] = pc[b] /\ key'[b] = key[b]
           /\ Published(b)' <=> Published(b)
           /\ \A x \in Closers : busy[x] = b => busy'[x] = b
  PROVE  DnsInv'
<1> SUFFICES ASSUME NEW b \in Attempts, b # a PROVE RecordOf(b)'
  BY DEF DnsInv
<1>1. RecordOf(b)
  BY DEF DnsInv
<1>2. Handling(b)' <=> Handling(b)
  BY DEF Handling
<1> QED BY <1>1, <1>2 DEF RecordOf, IsHttp

(* A request without a record has nothing to account for. *)
LEMMA NoRecord ==
  ASSUME NEW a \in Attempts, dns'[a] = "none"
  PROVE  RecordOf(a)'
BY DEF RecordOf

(* A port is no name: a TCP tunnel has no record. *)
LEMMA TcpHasNoRecord ==
  ASSUME DnsInv, NEW a \in Attempts, IsTcp(a)
  PROVE  dns[a] = "none"
BY ConstantsAssumption DEF DnsInv, RecordOf, IsTcp, IsHttp

(* A step that only takes one TCP session out of the registry, or out of   *)
(* the hands of a closing task, leaves every record with its owner.        *)
LEMMA DnsTcpStep ==
  ASSUME DnsInv, NEW a \in Attempts, IsTcp(a), UNCHANGED <<dns, pc, key>>,
         \A b \in Attempts \ {a} : Published(b)' <=> Published(b),
         \A b \in Attempts \ {a}, x \in Closers : busy[x] = b => busy'[x] = b
  PROVE  DnsInv'
<1>1. RecordOf(a)'
  BY TcpHasNoRecord, NoRecord
<1> QED BY <1>1, DnsOneStep

(* Setting a tunnel up: a record is created, learnt of, published or lost. *)
LEMMA DnsSetup ==
  ASSUME TypeOK, OwnershipInv, DnsInv, NEW b \in Attempts, SetupStep(b)
  PROVE  DnsInv'
<1>0. RecordOf(b)
  BY DEF DnsInv
<1>1. CASE RegisterHttp(b) \/ RegisterTcp(b)
  <2>1. pc[b] \in {"prepared", "bound"}
    BY <1>1 DEF RegisterHttp, RegisterTcp
  <2>2. CanRegister(b)
    BY <2>1, RegistrationGuaranteed DEF ReservationGuaranteesRegistration
  <2>3. key[b] \in Keys /\ key[b] # None
    BY <2>1, ConstantsAssumption DEF OwnershipInv, SetupInv, Handling
  <2>4. /\ Register(b) /\ pc' = [pc EXCEPT ![b] = "up"]
        /\ UNCHANGED <<dns, key, busy>>
    BY <1>1, <2>2 DEF RegisterHttp, RegisterTcp, closerVars
  <2>5. Published(b)'
    BY <2>3, <2>4 DEF Register, Published, TypeOK
  <2>6. \A c \in Attempts \ {b} : Published(c)' <=> Published(c)
    BY <2>2, <2>3, <2>4, ConstantsAssumption DEF Register, CanRegister, Published, TypeOK
  <2>7. pc'[b] = "up" /\ \A c \in Attempts \ {b} : pc'[c] = pc[c]
    BY <2>4 DEF TypeOK
  <2>8. RecordOf(b)'
    BY <1>0, <2>1, <2>4, <2>5, <2>7 DEF RecordOf, IsHttp
  <2> QED BY <2>4, <2>6, <2>7, <2>8, DnsOneStep
<1>2. CASE RecordCreated(b) \/ SetupFails(b) \/ CreateDnsRecord(b)
  <2>1. /\ pc[b] = "reserved" /\ dns[b] \in {"none", "created"}
        /\ UNCHANGED <<key, tunnels, busy>>
    BY <1>0, <1>2 DEF RecordCreated, SetupFails, CreateDnsRecord, RecordOf, closerVars
  <2>2. \A c \in Attempts \ {b} : pc'[c] = pc[c] /\ dns'[c] = dns[c]
    BY <1>2 DEF RecordCreated, SetupFails, CreateDnsRecord, TypeOK
  <2>3. RecordOf(b)'
    <3>1. CASE RecordCreated(b)
      <4>1. dns'[b] = "created" /\ pc'[b] = "reserved" /\ IsHttp(b) /\ DnsEnabled
        BY <2>1, <3>1 DEF RecordCreated, TypeOK
      <4> QED BY <2>1, <4>1 DEF RecordOf, IsHttp
    <3>2. CASE SetupFails(b)
      <4>1. /\ pc'[b] = "refused" /\ dns'[b] \in {"none", "unanswered"}
            /\ dns'[b] # "none" => dns[b] # "none"
        BY <2>1, <3>2 DEF SetupFails, TypeOK
      <4> QED BY <1>0, <2>1, <4>1 DEF RecordOf, IsHttp
    <3>3. CASE CreateDnsRecord(b)
      <4>1. pc'[b] = "prepared" /\ dns'[b] \in {"none", "live"} /\ IsHttp(b)
        BY <1>0, <2>1, <3>3 DEF CreateDnsRecord, RecordOf, TypeOK
      <4> QED BY <1>0, <2>1, <3>3, <4>1 DEF CreateDnsRecord, RecordOf, IsHttp, Handling, TypeOK
    <3> QED BY <1>2, <3>1, <3>2, <3>3
  <2>4. \A c \in Attempts : Published(c)' <=> Published(c)
    BY <2>1 DEF Published
  <2> QED BY <2>1, <2>2, <2>3, <2>4, DnsOneStep
<1>3. CASE BindTcp(b)
  <2>1. /\ IsTcp(b) /\ UNCHANGED <<dns, key, tunnels, busy>>
        /\ \A c \in Attempts \ {b} : pc'[c] = pc[c]
    BY <1>3 DEF BindTcp, TypeOK, closerVars
  <2>2. RecordOf(b)'
    BY <2>1, TcpHasNoRecord, NoRecord
  <2>3. \A c \in Attempts : Published(c)' <=> Published(c)
    BY <2>1 DEF Published
  <2> QED BY <2>1, <2>2, <2>3, DnsOneStep
<1> QED BY <1>1, <1>2, <1>3 DEF SetupStep

(* Closing tasks: the removal hands the record to the closing task, which  *)
(* deletes it or fails to.                                                 *)
LEMMA DnsClosing ==
  ASSUME TypeOK, OwnershipInv, DnsInv, NEW x \in Closers, CloserStep(x)
  PROVE  DnsInv'
<1>1. ASSUME NEW b \in Attempts, CloseHttp(x, b) PROVE DnsInv'
  <2>1. busy[x] = None /\ busy' = [busy EXCEPT ![x] = b] /\ UNCHANGED <<dns, pc, key>>
    BY <1>1 DEF CloseHttp, Turn
  <2>2. \A c \in Attempts \ {b} : Published(c)' <=> Published(c)
    BY <1>1, ConstantsAssumption DEF CloseHttp, RemoveHttp, Published, TypeOK
  <2>3. /\ busy'[x] = b
        /\ \A c \in Attempts, y \in Closers : busy[y] = c => busy'[y] = c
    BY <2>1, ConstantsAssumption DEF TypeOK
  <2>4. ~Published(b)'
    BY <1>1, ConstantsAssumption DEF CloseHttp, RemoveHttp, Published, TypeOK
  <2>5. RecordOf(b)'
    BY <2>1, <2>3, <2>4 DEF DnsInv, RecordOf, IsHttp
  <2> QED BY <2>1, <2>2, <2>3, <2>5, DnsOneStep
<1>2. ASSUME NEW b \in Attempts, CloseTcp(x, b) PROVE DnsInv'
  <2>1. /\ busy[x] = None /\ busy' = [busy EXCEPT ![x] = b] /\ IsTcp(b)
        /\ UNCHANGED <<dns, pc, key>>
    BY <1>2 DEF CloseTcp, Turn
  <2>2. \A c \in Attempts \ {b} : Published(c)' <=> Published(c)
    BY <1>2, ConstantsAssumption DEF CloseTcp, RemoveTcp, Published, TypeOK
  <2>3. \A c \in Attempts \ {b}, y \in Closers : busy[y] = c => busy'[y] = c
    BY <2>1, ConstantsAssumption DEF TypeOK
  <2> QED BY <2>1, <2>2, <2>3, DnsTcpStep
<1>3. CASE StopObserved(x) \/ StopTimeout(x)
  <2>1. /\ busy[x] \in Attempts /\ IsTcp(busy[x]) /\ busy' = [busy EXCEPT ![x] = None]
        /\ UNCHANGED <<dns, pc, key, tunnels>>
    BY <1>3 DEF StopObserved, StopTimeout, TypeOK
  <2>2. \A c \in Attempts \ {busy[x]} : Published(c)' <=> Published(c)
    BY <2>1 DEF Published
  <2>3. \A c \in Attempts \ {busy[x]}, y \in Closers : busy[y] = c => busy'[y] = c
    BY <2>1 DEF TypeOK
  <2> QED BY <2>1, <2>2, <2>3, DnsTcpStep
<1>4. CASE DeleteDnsRecord(x)
  <2>0. PICK b \in Attempts : b = busy[x]
    BY <1>4 DEF DeleteDnsRecord, TypeOK
  <2>1. /\ b \in Attempts /\ busy' = [busy EXCEPT ![x] = None]
        /\ UNCHANGED <<pc, key, tunnels>>
    BY <1>4 DEF DeleteDnsRecord
  <2>2. pc[b] = "up" /\ ~Published(b)
    BY <1>4, <2>0 DEF DeleteDnsRecord, OwnershipInv, CloserInv
  <2>3. dns'[b] # "live" /\ (dns'[b] \in {"deleted", "orphan"} \/ dns'[b] = dns[b])
    BY <1>4, <2>0 DEF DeleteDnsRecord, TypeOK
  <2>4. dns'[b] # "none" => dns[b] # "none"
    BY <1>4, <2>0 DEF DeleteDnsRecord, TypeOK
  <2>5. \A c \in Attempts \ {b} : dns'[c] = dns[c]
    BY <1>4, <2>0 DEF DeleteDnsRecord, TypeOK
  <2>6. \A c \in Attempts \ {b}, y \in Closers : busy[y] = c => busy'[y] = c
    BY <2>0, <2>1 DEF TypeOK
  <2>7. \A c \in Attempts : Published(c)' <=> Published(c)
    BY <2>1 DEF Published
  <2>8. RecordOf(b)'
    BY <2>1, <2>2, <2>3, <2>4, <2>7 DEF DnsInv, RecordOf, IsHttp
  <2> QED BY <2>1, <2>5, <2>6, <2>7, <2>8, DnsOneStep
<1>5. ASSUME NEW b \in Attempts, CloseSkip(x, b) PROVE DnsInv'
  BY <1>5, DnsFrame DEF CloseSkip
<1> QED BY <1>1, <1>2, <1>3, <1>4, <1>5 DEF CloserStep

(* Every step keeps every record accounted for. *)
LEMMA DnsStep == TypeOK /\ OwnershipInv /\ DnsInv /\ [Next]_vars => DnsInv'
<1> SUFFICES ASSUME TypeOK, OwnershipInv, DnsInv, [Next]_vars PROVE DnsInv'
  OBVIOUS
<1>1. ASSUME NEW b \in Attempts, SetupStep(b) PROVE DnsInv'
  BY <1>1, DnsSetup
<1>2. ASSUME NEW b \in Attempts,
             \/ RequestInvalid(b) \/ RequestAnyTcp(b)
             \/ \E n \in Names : RequestHttp(b, n)
             \/ \E p \in Ports : RequestTcp(b, p)
      PROVE  DnsInv'
  <2>1. /\ pc[b] = "new"
        /\ Refuse(b) \/ \E k \in Keys : Admit(b, k)
        /\ UNCHANGED busy
    BY <1>2
    DEF RequestInvalid, RequestHttp, RequestTcp, RequestAnyTcp, Accepts, Keys, closerVars
  <2>2. dns[b] = "none" /\ UNCHANGED <<dns, tunnels>>
    BY <2>1 DEF DnsInv, RecordOf, Refuse, Admit
  <2>3. \A c \in Attempts \ {b} : pc'[c] = pc[c] /\ key'[c] = key[c]
    BY <2>1 DEF Refuse, Admit, TypeOK
  <2>4. \A c \in Attempts \ {b} : Published(c)' <=> Published(c)
    BY <2>2, <2>3 DEF Published
  <2>5. RecordOf(b)'
    BY <2>2, NoRecord
  <2> QED BY <2>1, <2>2, <2>3, <2>4, <2>5, DnsOneStep
<1>3. ASSUME NEW b \in Attempts, ListenerStep(b) \/ ListenerError(b) \/ RetainedRelease(b)
      PROVE  DnsInv'
  <2>1. ASSUME RemoveTcp(b), listener[b] = "stopped", UNCHANGED setupVars PROVE DnsInv'
    <3>1. IsTcp(b)
      BY <2>1 DEF OwnershipInv, ListenerInv
    <3>2. \A c \in Attempts \ {b} : Published(c)' <=> Published(c)
      BY <2>1, ConstantsAssumption DEF RemoveTcp, Published, TypeOK, setupVars
    <3> QED BY <2>1, <3>1, <3>2, DnsTcpStep DEF setupVars, closerVars
  <2> QED
    BY <1>3, <2>1, DnsFrame
    DEF ListenerStep, ListenerError, ListenerCancelled, Drop, ListenerSignal,
        ListenerUnregister, ListenerRelease, RetainedRelease, setupVars, closerVars
<1>4. ASSUME NEW x \in Closers, CloserStep(x) PROVE DnsInv'
  BY <1>4, DnsClosing
<1>5. ASSUME NEW c \in Conns, Disconnect(c) \/ ShutdownSession(c) \/ SessionClosed(c)
      PROVE  DnsInv'
  BY <1>5, DnsFrame DEF Disconnect, ShutdownSession, EndSession, SessionClosed
<1>6. ASSUME NEW S \in SUBSET Attempts, ReapHttp(S) \/ ReapTcp(S) PROVE DnsInv'
  BY <1>6, DnsFrame DEF ReapHttp, ReapTcp, Scan
<1>7. CASE ReapDone \/ ReaperStop \/ Shutdown
  BY <1>7, DnsFrame DEF ReapDone, ReaperStop, Scan, Shutdown
<1>8. CASE UNCHANGED vars
  BY <1>8, DnsFrame DEF vars
<1> QED BY <1>1, <1>2, <1>3, <1>4, <1>5, <1>6, <1>7, <1>8 DEF Next

(* No record is lost track of without a failed call to Cloudflare: one     *)
(* that is created, or whose id is known, has a request, a published       *)
(* tunnel or a closing task that answers for it, whichever task closes the *)
(* tunnel and at whichever await the others are; one left by a failed      *)
(* deletion has no tunnel any more, and one left by a failed creation      *)
(* never had one.                                                          *)
THEOREM NoDnsRecordForgotten == Spec => []DnsRecordsAccounted
<1>1. Init => DnsInv
  BY DEF Init, DnsInv, RecordOf
<1>2. DnsInv => DnsRecordsAccounted
  BY DEF DnsInv, RecordOf, DnsRecordsAccounted
<1> QED BY <1>1, <1>2, DnsStep, TypeCorrect, OwnershipCorrect, PTL DEF Spec

-----------------------------------------------------------------------------
(* What the clean-up of a connection leaves behind. *)

(* A step that concerns one request of an open connection, and publishes   *)
(* no other, keeps the lists of the closing connections complete.          *)
LEMMA ClosingOpenStep ==
  ASSUME ClosingInv, NEW b \in Attempts, conn[ConnOf[b]] = "open",
         UNCHANGED <<conn, todo, busy>>,
         \A a \in Attempts \ {b} : pc'[a] = pc[a] /\ (Published(a)' => Published(a))
  PROVE  ClosingInv'
<1>1. \A a \in Attempts \ {b} : Handling(a)' => Handling(a)
  BY DEF Handling
<1> QED BY <1>1 DEF ClosingInv

(* So does one that publishes nothing and starts no request. *)
LEMMA ClosingFrame ==
  ASSUME ClosingInv, UNCHANGED <<conn, todo, busy, pc>>,
         \A a \in Attempts : Published(a)' => Published(a)
  PROVE  ClosingInv'
BY DEF ClosingInv, Handling

(* Taking one session out of the registry publishes none. *)
LEMMA RemovalPublishesNothing ==
  ASSUME TypeOK, UNCHANGED key, NEW b \in Attempts,
         tunnels' = [tunnels EXCEPT ![key[b]] = None], Published(b)
  PROVE  ~Published(b)' /\ \A a \in Attempts : Published(a)' => Published(a)
BY ConstantsAssumption DEF TypeOK, Published

LEMMA ClosingStep == TypeOK /\ OwnershipInv /\ ClosingInv /\ [Next]_vars => ClosingInv'
<1> SUFFICES ASSUME TypeOK, OwnershipInv, ClosingInv, [Next]_vars PROVE ClosingInv'
  OBVIOUS
<1> USE ConstantsAssumption
<1>1. ASSUME NEW b \in Attempts, SetupStep(b) PROVE ClosingInv'
  <2>1. Handling(b) /\ conn[ConnOf[b]] = "open"
    <3>1. Handling(b)
      BY <1>1 DEF SetupStep, RecordCreated, SetupFails, CreateDnsRecord, RegisterHttp,
                  BindTcp, RegisterTcp, Handling
    <3> QED BY <3>1 DEF ClosingInv, TypeOK
  <2>2. UNCHANGED <<conn, todo, busy, key>>
    BY <1>1 DEF SetupStep, RecordCreated, SetupFails, CreateDnsRecord, RegisterHttp,
                BindTcp, RegisterTcp, closerVars
  <2>3. \A a \in Attempts \ {b} : pc'[a] = pc[a]
    BY <1>1 DEF SetupStep, RecordCreated, SetupFails, CreateDnsRecord, RegisterHttp,
                BindTcp, RegisterTcp, TypeOK
  <2>4. key[b] \in Keys
    BY <2>1 DEF OwnershipInv, SetupInv
  <2>5. tunnels' = tunnels \/ tunnels' = [tunnels EXCEPT ![key[b]] = b]
    BY <1>1 DEF SetupStep, RecordCreated, SetupFails, CreateDnsRecord, RegisterHttp,
                BindTcp, RegisterTcp, Register
  <2>6. \A a \in Attempts \ {b} : Published(a)' => Published(a)
    BY <2>2, <2>4, <2>5 DEF Published, TypeOK
  <2> QED BY <2>1, <2>2, <2>3, <2>6, ClosingOpenStep
<1>2. ASSUME NEW b \in Attempts,
             \/ RequestInvalid(b) \/ RequestAnyTcp(b)
             \/ \E n \in Names : RequestHttp(b, n)
             \/ \E p \in Ports : RequestTcp(b, p)
      PROVE  ClosingInv'
  <2>1. /\ Accepts(b)
        /\ Refuse(b) \/ \E k \in Keys : Admit(b, k)
        /\ UNCHANGED <<conn, todo, busy>>
    BY <1>2
    DEF RequestInvalid, RequestHttp, RequestTcp, RequestAnyTcp, Keys, closerVars
  <2>2. conn[ConnOf[b]] = "open"
    BY <2>1 DEF Accepts, AtLoop
  <2>3. /\ UNCHANGED tunnels
        /\ \A a \in Attempts \ {b} : pc'[a] = pc[a] /\ key'[a] = key[a]
    BY <2>1 DEF Refuse, Admit, TypeOK
  <2>4. \A a \in Attempts \ {b} : Published(a)' => Published(a)
    BY <2>3 DEF Published
  <2> QED BY <2>1, <2>2, <2>3, <2>4, ClosingOpenStep
<1>3. ASSUME NEW b \in Attempts, ListenerStep(b) \/ ListenerError(b) \/ RetainedRelease(b)
      PROVE  ClosingInv'
  <2>1. UNCHANGED <<conn, todo, busy, pc, key>>
    BY <1>3
    DEF ListenerStep, ListenerError, ListenerCancelled, Drop, ListenerSignal,
        ListenerUnregister, ListenerRelease, RetainedRelease, setupVars, closerVars
  <2>2. UNCHANGED tunnels \/ RemoveTcp(b)
    BY <1>3
    DEF ListenerStep, ListenerError, ListenerCancelled, Drop, ListenerSignal,
        ListenerUnregister, ListenerRelease, RetainedRelease
  <2>3. \A a \in Attempts : Published(a)' => Published(a)
    <3>1. CASE UNCHANGED tunnels
      BY <2>1, <3>1 DEF Published
    <3>2. CASE RemoveTcp(b)
      BY <2>1, <3>2, RemovalPublishesNothing DEF RemoveTcp
    <3> QED BY <2>2, <3>1, <3>2
  <2> QED BY <2>1, <2>3, ClosingFrame
<1>4. ASSUME NEW x \in Closers, NEW b \in Attempts, CloseHttp(x, b) \/ CloseTcp(x, b)
      PROVE  ClosingInv'
  <2>1. /\ b \in todo[x]
        /\ todo' = [todo EXCEPT ![x] = @ \ {b}] /\ busy' = [busy EXCEPT ![x] = b]
        /\ UNCHANGED <<conn, pc, key>>
    BY <1>4 DEF CloseHttp, CloseTcp, Turn
  <2>2. Published(b) /\ tunnels' = [tunnels EXCEPT ![key[b]] = None]
    BY <1>4 DEF CloseHttp, CloseTcp, RemoveHttp, RemoveTcp
  <2>3. ~Published(b)' /\ \A a \in Attempts : Published(a)' => Published(a)
    BY <2>1, <2>2, RemovalPublishesNothing
  <2>4. x \in Conns => ConnOf[b] = x /\ conn[x] = "closing"
    BY <2>1 DEF OwnershipInv, CleanupInv
  <2>5. \A a \in Attempts : Handling(a)' <=> Handling(a)
    BY <2>1 DEF Handling
  <2>6. \A c \in Conns : busy'[c] # None =>
          ConnOf[busy'[c]] = c /\ conn'[c] = "closing"
    BY <2>1, <2>4 DEF ClosingInv, TypeOK, Closers
  <2>7. ASSUME NEW a \in Attempts, conn'[ConnOf[a]] # "open"
        PROVE  ~Handling(a)' /\ (Published(a)' => a \in todo'[ConnOf[a]])
    <3>1. ~Handling(a) /\ (Published(a) => a \in todo[ConnOf[a]])
      BY <2>1, <2>7 DEF ClosingInv
    <3>2. a # b /\ a \in todo[ConnOf[a]] => a \in todo'[ConnOf[a]]
      BY <2>1 DEF TypeOK, Closers
    <3> QED BY <2>3, <2>5, <3>1, <3>2
  <2> QED BY <2>6, <2>7 DEF ClosingInv
<1>5. ASSUME NEW x \in Closers, NEW b \in Attempts, CloseSkip(x, b) PROVE ClosingInv'
  <2>1. \A a \in Attempts :
          (Published(a)' <=> Published(a)) /\ (Handling(a)' <=> Handling(a))
    BY <1>5 DEF CloseSkip, Published, Handling
  <2>2. \A a \in Attempts : a # b /\ a \in todo[ConnOf[a]] => a \in todo'[ConnOf[a]]
    BY <1>5 DEF CloseSkip, TypeOK, Closers
  <2>3. ~Published(b) /\ UNCHANGED <<conn, busy>>
    BY <1>5 DEF CloseSkip
  <2> QED BY <2>1, <2>2, <2>3 DEF ClosingInv
<1>6. ASSUME NEW x \in Closers, DeleteDnsRecord(x) \/ StopObserved(x) \/ StopTimeout(x)
      PROVE  ClosingInv'
  <2>1. busy' = [busy EXCEPT ![x] = None] /\ UNCHANGED <<conn, todo, pc, key, tunnels>>
    BY <1>6 DEF DeleteDnsRecord, StopObserved, StopTimeout
  <2>2. \A a \in Attempts :
          (Published(a)' <=> Published(a)) /\ (Handling(a)' <=> Handling(a))
    BY <2>1 DEF Published, Handling
  <2>3. \A c \in Conns : busy'[c] # None => busy'[c] = busy[c]
    BY <2>1 DEF TypeOK, Closers
  <2> QED BY <2>1, <2>2, <2>3 DEF ClosingInv
<1>7. ASSUME NEW c \in Conns, Disconnect(c) \/ ShutdownSession(c) PROVE ClosingInv'
  <2>1. /\ AtLoop(c) /\ conn' = [conn EXCEPT ![c] = "closing"]
        /\ todo' = [todo EXCEPT ![c] = {a \in Attempts : ConnOf[a] = c /\ pc[a] = "up"}]
        /\ UNCHANGED <<busy, pc, key, tunnels>>
    BY <1>7 DEF Disconnect, ShutdownSession, EndSession
  <2>2. \A a \in Attempts :
          (Published(a)' <=> Published(a)) /\ (Handling(a)' <=> Handling(a))
    BY <2>1 DEF Published, Handling
  <2>3. ASSUME NEW a \in Attempts, ConnOf[a] = c
        PROVE  ~Handling(a) /\ (Published(a) => a \in todo'[c])
    <3>1. ~Handling(a)
      BY <2>1, <2>3 DEF AtLoop
    <3>2. Published(a) => pc[a] = "up"
      BY DEF OwnershipInv, PublishedInv, Published, TypeOK
    <3> QED BY <2>1, <2>3, <3>1, <3>2 DEF TypeOK, Closers
  <2>4. ASSUME NEW a \in Attempts, ConnOf[a] # c
        PROVE  todo'[ConnOf[a]] = todo[ConnOf[a]] /\ conn'[ConnOf[a]] = conn[ConnOf[a]]
    BY <2>1, <2>4 DEF TypeOK, Closers
  <2>5. \A d \in Conns : conn[d] = "closing" => conn'[d] = "closing"
    BY <2>1 DEF TypeOK
  <2> QED BY <2>1, <2>2, <2>3, <2>4, <2>5 DEF ClosingInv
<1>8. ASSUME NEW c \in Conns, SessionClosed(c) PROVE ClosingInv'
  <2>1. \A a \in Attempts :
          (Published(a)' <=> Published(a)) /\ (Handling(a)' <=> Handling(a))
    BY <1>8 DEF SessionClosed, Published, Handling
  <2>2. /\ conn[c] = "closing" /\ busy[c] = None /\ UNCHANGED <<todo, busy>>
        /\ conn' = [conn EXCEPT ![c] = "closed"]
    BY <1>8 DEF SessionClosed
  <2> QED BY <2>1, <2>2 DEF ClosingInv, TypeOK
<1>9. ASSUME NEW S \in SUBSET Attempts, ReapHttp(S) \/ ReapTcp(S) PROVE ClosingInv'
  <2>1. Scan("sleep", "http", S) \/ Scan("http", "tcp", S)
    BY <1>9 DEF ReapHttp, ReapTcp
  <2>2. \A c \in Conns : todo'[c] = todo[c]
    BY <2>1 DEF Scan, TypeOK, Closers
  <2>3. UNCHANGED <<conn, busy, pc, key, tunnels>>
    BY <2>1 DEF Scan
  <2> QED BY <2>2, <2>3 DEF ClosingInv, Published, Handling
<1>10. CASE ReapDone \/ ReaperStop
  <2>1. Scan("tcp", "sleep", {}) \/ Scan("sleep", "stopped", {})
    BY <1>10 DEF ReapDone, ReaperStop
  <2>2. \A c \in Conns : todo'[c] = todo[c]
    BY <2>1 DEF Scan, TypeOK, Closers
  <2>3. UNCHANGED <<conn, busy, pc, key, tunnels>>
    BY <2>1 DEF Scan
  <2> QED BY <2>2, <2>3 DEF ClosingInv, Published, Handling
<1>11. CASE Shutdown \/ UNCHANGED vars
  BY <1>11, ClosingFrame DEF Shutdown, vars, Published
<1> QED
  BY <1>1, <1>2, <1>3, <1>4, <1>5, <1>6, <1>7, <1>8, <1>9, <1>10, <1>11
  DEF Next, CloserStep

(* docs/rgrok-spec.md:482: the clean-up that has ended missed none of the  *)
(* connection's tunnels, for any number of them.                           *)
THEOREM CleanupIsComplete == Spec => []ClosedFreesEverything
<1>1. Init => ClosingInv
  BY ConstantsAssumption DEF Init, ClosingInv, Closers
<1>2. Spec => []ClosingInv
  BY <1>1, ClosingStep, TypeCorrect, OwnershipCorrect, PTL DEF Spec
<1>3. ASSUME TypeOK, OwnershipInv, ClosingInv, DnsRecordsAccounted,
             NEW a \in Attempts, conn[ConnOf[a]] = "closed"
      PROVE  /\ ~Published(a) /\ ~Handling(a)
             /\ OwnsEndpoint(a) \/ SocketOpen(a) =>
                  a \in retained \/ busy[Reaper] = a \/ listener[a] = "removing"
             /\ dns[a] \in {"created", "live"} => busy[Reaper] = a
  <2>1. ~Handling(a)
    BY <1>3 DEF ClosingInv
  <2>2. ~Published(a)
    BY <1>3, ConstantsAssumption DEF ClosingInv, OwnershipInv, CleanupInv
  <2>3. \A x \in Closers : busy[x] = a => x = Reaper
    BY <1>3, ConstantsAssumption DEF ClosingInv, Closers
  <2>4. SocketOpen(a) => OwnsEndpoint(a)
    BY <1>3 DEF OwnershipInv, SocketInv, SocketOpen
  <2>5. OwnsEndpoint(a) => a \in retained \/ busy[Reaper] = a \/ listener[a] = "removing"
    BY <2>1, <2>2, <2>3 DEF OwnsEndpoint, Holds, Stopping, AwaitedBy
  <2>6. dns[a] \in {"created", "live"} => busy[Reaper] = a
    BY <1>3, <2>1, <2>2, <2>3 DEF DnsRecordsAccounted, Handling
  <2> QED BY <2>1, <2>2, <2>4, <2>5, <2>6
<1>4. TypeOK /\ OwnershipInv /\ ClosingInv /\ DnsRecordsAccounted => ClosedFreesEverything
  BY <1>3 DEF ClosedFreesEverything
<1> QED BY <1>2, <1>4, TypeCorrect, OwnershipCorrect, NoDnsRecordForgotten, PTL

-----------------------------------------------------------------------------
(***************************************************************************)
(* The registry implements EndpointLease: every step of TunnelRegistry is  *)
(* one step of the lease specification, or changes no lease and no socket. *)
(***************************************************************************)

leaseVars == <<LeaseMap, SocketMap>>

(* The leased endpoints are the published and the reserved ones. *)
LEMMA LeasedIsUsedOrHeld ==
  ASSUME TypeOK, OwnershipInv
  PROVE  Lease!Leased = Used \cup Held
<1>1. ASSUME NEW k \in Keys, NEW a \in Attempts, <<a, k>> \in LeaseMap
      PROVE  k \in Used \cup Held
  BY <1>1, ConstantsAssumption
  DEF LeaseMap, OwnsEndpoint, Published, Used, Held, OwnershipInv, HolderInv, TypeOK
<1>2. ASSUME NEW k \in Used PROVE \E a \in Attempts : <<a, k>> \in LeaseMap
  <2>1. tunnels[k] \in Attempts /\ key[tunnels[k]] = k
    BY <1>2 DEF Used, TypeOK, OwnershipInv, PublishedInv
  <2> QED
    BY <1>2, <2>1, ConstantsAssumption DEF LeaseMap, OwnsEndpoint, Published, Used
<1>3. ASSUME NEW k \in Held PROVE \E a \in Attempts : <<a, k>> \in LeaseMap
  BY <1>3 DEF LeaseMap, OwnsEndpoint, Held, OwnershipInv, HolderInv
<1> QED BY <1>1, <1>2, <1>3 DEF Lease!Leased, Used, Held

(* No endpoint is published and reserved at once, so the two counts add up. *)
LEMMA LeasedCount ==
  ASSUME TypeOK, OwnershipInv
  PROVE  Cardinality(Lease!Leased) = Cardinality(Used) + Cardinality(Held)
<1>1. Used \cap Held = {}
  <2> SUFFICES ASSUME NEW k \in Used, k \in Held PROVE FALSE
    OBVIOUS
  <2> DEFINE b == tunnels[k]
  <2>1. k \in Keys /\ b \in Attempts /\ key[b] = k /\ pc[b] = "up" /\ Published(b)
    BY ConstantsAssumption DEF Used, TypeOK, OwnershipInv, PublishedInv, Published
  <2>2. PICK a \in Attempts : Holds(a) /\ key[a] = k
    BY <2>1 DEF Held, OwnershipInv, HolderInv
  <2>3. a = b
    BY <2>1, <2>2 DEF OwnershipInv, ExclusiveInv, OwnsEndpoint
  <2>4. Stopping(b)
    BY <2>1, <2>2, <2>3 DEF Holds, Handling
  <2> QED
    BY <2>1, <2>4, ConstantsAssumption
    DEF Stopping, AwaitedBy, OwnershipInv, CloserInv, ListenerInv
<1>2. Cardinality(Used \cup Held) = Cardinality(Used) + Cardinality(Held) - Cardinality(Used \cap Held)
  BY CountsAreNaturals, FS_Union
<1>3. Cardinality(Used \cap Held) = 0
  BY <1>1, FS_EmptySet
<1>4. Cardinality(Lease!Leased) = Cardinality(Used \cup Held)
  BY LeasedIsUsedOrHeld
<1> QED BY <1>2, <1>3, <1>4, CountsAreNaturals

(* What a step does to leases and sockets follows from what it does to     *)
(* each single session.                                                    *)
SameOwner(b) == OwnsEndpoint(b)' <=> OwnsEndpoint(b)
SameSocket(b) == SocketOpen(b)' <=> SocketOpen(b)

(* A step that moves no owner and no socket is invisible in the abstract. *)
LEMMA LeaseStutter ==
  ASSUME UNCHANGED key, \A b \in Attempts : SameOwner(b) /\ SameSocket(b)
  PROVE  UNCHANGED leaseVars
BY DEF LeaseMap, SocketMap, leaseVars, SameOwner, SameSocket

(* A session that gives up its endpoint, its socket closed already. *)
LEMMA LeaseSurrender ==
  ASSUME NEW a \in Attempts, key[a] \in Keys, UNCHANGED key,
         OwnsEndpoint(a), ~OwnsEndpoint(a)', ~SocketOpen(a),
         \A b \in Attempts \ {a} : SameOwner(b),
         \A b \in Attempts : SameSocket(b)
  PROVE  Lease!Next
<1>1. LeaseMap' = LeaseMap \ {<<a, key[a]>>} /\ <<a, key[a]>> \in LeaseMap
  BY DEF LeaseMap, SameOwner
<1>2. SocketMap' = SocketMap /\ <<a, key[a]>> \notin SocketMap
  BY DEF SocketMap, SameSocket
<1> QED BY <1>1, <1>2 DEF Lease!Next, Lease!Surrender

(* A request that is admitted takes a lease nobody has, within the limit. *)
LEMMA LeaseAcquire ==
  ASSUME TypeOK, OwnershipInv, NEW a \in Attempts, NEW k \in Keys, pc[a] = "new",
         Admit(a, k), UNCHANGED closerVars
  PROVE  Lease!Next
<1> USE ConstantsAssumption DEF TypeOK, Admit, closerVars
<1>1. ~OwnsEndpoint(a) /\ ~SocketOpen(a)
  BY DEF OwnershipInv, PublishedInv, ListenerInv, CloserInv, OwnsEndpoint, Holds, Handling,
         Stopping, AwaitedBy, Published, SocketOpen
<1>2. OwnsEndpoint(a)' /\ key'[a] = k
  BY DEF OwnsEndpoint, Holds, Handling
<1>3. \A b \in Attempts \ {a} : SameOwner(b) /\ key'[b] = key[b]
  BY DEF SameOwner, OwnsEndpoint, Holds, Handling, Stopping, AwaitedBy, Published, IsTcp
<1>4. \A b \in Attempts : SameSocket(b)
  BY DEF SameSocket, SocketOpen
<1>5. LeaseMap' = LeaseMap \cup {<<a, k>>}
  BY <1>1, <1>2, <1>3 DEF LeaseMap, SameOwner
<1>6. SocketMap' = SocketMap
  BY <1>1, <1>3, <1>4 DEF SocketMap, SameSocket
<1>7. k \notin Lease!Leased
  BY LeasedIsUsedOrHeld DEF Used, Held, Reserve, Free
<1>8. Cardinality(Lease!Leased) < MaxTunnels
  <2>1. ~(Cardinality(Used) + Cardinality(Held) >= MaxTunnels)
    BY DEF Reserve, at_capacity
  <2> QED BY <2>1, LeasedCount, CountsAreNaturals
<1>9. Lease!Acquire(a, k)
  <2>1. Lease!Cardinality(Lease!Leased) = Cardinality(Lease!Leased)
    BY DEF Lease!Cardinality, Cardinality
  <2> QED BY <1>5, <1>6, <1>7, <1>8, <2>1 DEF Lease!Acquire
<1> QED BY <1>9 DEF Lease!Next


(* Every step of the registry is a lease step or stutters. *)
LEMMA LeaseStep ==
  TypeOK /\ OwnershipInv /\ [Next]_vars => [Lease!Next]_leaseVars
<1> SUFFICES ASSUME TypeOK, OwnershipInv, [Next]_vars
             PROVE  Lease!Next \/ UNCHANGED leaseVars
  OBVIOUS
<1> DEFINE Goal == Lease!Next \/ UNCHANGED leaseVars
<1> USE ConstantsAssumption DEF closerVars, setupVars
<1>0. ASSUME UNCHANGED <<tunnels, key, pc, listener, busy, retained>> PROVE Goal
  BY <1>0, LeaseStutter
  DEF SameOwner, SameSocket, OwnsEndpoint, Holds, Handling, Stopping, AwaitedBy,
      Published, IsTcp, SocketOpen
<1>1. ASSUME NEW a \in Attempts, pc[a] = "new", Refuse(a), UNCHANGED closerVars PROVE Goal
  <2>1. \A b \in Attempts : SameOwner(b) /\ SameSocket(b)
    BY <1>1 DEF Refuse, TypeOK, SameOwner, SameSocket, OwnsEndpoint, Holds, Handling,
                Stopping, AwaitedBy, Published, IsTcp, SocketOpen
  <2> QED BY <1>1, <2>1, LeaseStutter DEF Refuse
<1>2. ASSUME NEW a \in Attempts, NEW k \in Keys, pc[a] = "new", Admit(a, k),
             UNCHANGED closerVars
      PROVE  Goal
  BY <1>2, LeaseAcquire
<1> USE DEF TypeOK, SameOwner, SameSocket, OwnsEndpoint, Holds, Handling, Stopping,
            AwaitedBy, Published, IsTcp, IsHttp, SocketOpen, OwnershipInv, PublishedInv,
            SetupInv, ListenerInv, CloserInv
<1>3. ASSUME NEW a \in Attempts, SetupFails(a) PROVE Goal
  BY <1>3, LeaseSurrender DEF SetupFails
<1>4. ASSUME NEW a \in Attempts, RecordCreated(a) \/ CreateDnsRecord(a) PROVE Goal
  BY <1>4, LeaseStutter DEF RecordCreated, CreateDnsRecord
<1>5. ASSUME NEW a \in Attempts, RegisterHttp(a) \/ RegisterTcp(a) PROVE Goal
  BY <1>5, LeaseStutter, RegistrationGuaranteed
  DEF RegisterHttp, RegisterTcp, Register, CanRegister, ReservationGuaranteesRegistration
<1>6. ASSUME NEW a \in Attempts, BindTcp(a) PROVE Goal
  <2>1. key[a] \in Keys /\ UNCHANGED key
    BY <1>6 DEF BindTcp
  <2>2. SocketMap' = SocketMap \cup {<<a, key[a]>>}
    BY <1>6, <2>1 DEF BindTcp, SocketMap
  <2>3. LeaseMap' = LeaseMap /\ <<a, key[a]>> \in LeaseMap
    BY <1>6, <2>1 DEF BindTcp, LeaseMap
  <2>4. \A b \in Attempts : <<b, key[a]>> \notin SocketMap
    BY <1>6, <2>1 DEF BindTcp, SocketMap
  <2>5. Lease!Open(a, key[a])
    BY <2>2, <2>3, <2>4 DEF Lease!Open
  <2> QED BY <2>1, <2>5 DEF Lease!Next
<1>7. ASSUME NEW a \in Attempts, Drop(a) PROVE Goal
  <2>1. key[a] \in Keys /\ UNCHANGED key
    BY <1>7 DEF Drop
  <2>2. SocketMap' = SocketMap \ {<<a, key[a]>>} /\ <<a, key[a]>> \in SocketMap
    BY <1>7, <2>1 DEF Drop, SocketMap
  <2>3. LeaseMap' = LeaseMap
    BY <1>7 DEF Drop, LeaseMap
  <2>4. Lease!Close(a, key[a])
    BY <2>2, <2>3 DEF Lease!Close
  <2> QED BY <2>1, <2>4 DEF Lease!Next
<1>8. ASSUME NEW a \in Attempts, ListenerSignal(a) PROVE Goal
  BY <1>8, LeaseStutter DEF ListenerSignal
<1>9. ASSUME NEW a \in Attempts, ListenerUnregister(a) PROVE Goal
  BY <1>9, LeaseStutter DEF ListenerUnregister, RemoveTcp
<1>10. ASSUME NEW a \in Attempts, ListenerRelease(a) PROVE Goal
  BY <1>10, LeaseSurrender DEF ListenerRelease
<1>11. ASSUME NEW a \in Attempts, RetainedRelease(a) PROVE Goal
  BY <1>11, LeaseSurrender DEF RetainedRelease, Stopped
<1>12. ASSUME NEW x \in Closers, NEW a \in Attempts, CloseHttp(x, a) PROVE Goal
  <2>1. key[a] \in Keys /\ UNCHANGED key /\ OwnsEndpoint(a) /\ ~SocketOpen(a)
    BY <1>12 DEF CloseHttp, RemoveHttp, Keys
  <2>2. ~OwnsEndpoint(a)'
    BY <1>12 DEF CloseHttp, RemoveHttp, Keys
  <2>3. \A b \in Attempts \ {a} : SameOwner(b)
    BY <1>12 DEF CloseHttp, RemoveHttp, Turn
  <2>4. \A b \in Attempts : SameSocket(b)
    BY <1>12 DEF CloseHttp
  <2> QED BY <2>1, <2>2, <2>3, <2>4, LeaseSurrender
<1>13. ASSUME NEW x \in Closers, NEW a \in Attempts, CloseTcp(x, a) PROVE Goal
  <2>1. OwnsEndpoint(a) /\ OwnsEndpoint(a)'
    BY <1>13 DEF CloseTcp, RemoveTcp
  <2>2. \A b \in Attempts \ {a} : SameOwner(b)
    BY <1>13 DEF CloseTcp, RemoveTcp, Turn
  <2>3. \A b \in Attempts : SameSocket(b)
    BY <1>13 DEF CloseTcp
  <2> QED BY <1>13, <2>1, <2>2, <2>3, LeaseStutter DEF CloseTcp
<1>14. ASSUME NEW x \in Closers, DeleteDnsRecord(x) PROVE Goal
  BY <1>14, LeaseStutter DEF DeleteDnsRecord
<1>15. ASSUME NEW x \in Closers, StopObserved(x) PROVE Goal
  BY <1>15, LeaseSurrender DEF StopObserved, Stopped
<1>16. ASSUME NEW x \in Closers, StopTimeout(x) PROVE Goal
  BY <1>16, LeaseStutter DEF StopTimeout
<1> HIDE DEF Goal
<1>17. ASSUME NEW a \in Attempts, SetupStep(a) PROVE Goal
  BY <1>3, <1>4, <1>5, <1>6, <1>17 DEF SetupStep
<1>18. ASSUME NEW a \in Attempts,
              \/ RequestInvalid(a) \/ RequestAnyTcp(a)
              \/ \E n \in Names : RequestHttp(a, n)
              \/ \E p \in Ports : RequestTcp(a, p)
       PROVE  Goal
  BY <1>1, <1>2, <1>18
  DEF RequestInvalid, RequestHttp, RequestTcp, RequestAnyTcp, Accepts, Keys
<1>19. ASSUME NEW a \in Attempts, ListenerStep(a) \/ ListenerError(a) PROVE Goal
  BY <1>7, <1>8, <1>9, <1>10, <1>19 DEF ListenerStep, ListenerCancelled, ListenerError
<1>20. ASSUME NEW x \in Closers, CloserStep(x) PROVE Goal
  BY <1>0, <1>12, <1>13, <1>14, <1>15, <1>16, <1>20 DEF CloserStep, CloseSkip
<1>21. ASSUME NEW c \in Conns, Disconnect(c) \/ ShutdownSession(c) \/ SessionClosed(c)
       PROVE  Goal
  BY <1>0, <1>21 DEF Disconnect, ShutdownSession, EndSession, SessionClosed
<1>22. ASSUME NEW S \in SUBSET Attempts, ReapHttp(S) \/ ReapTcp(S) PROVE Goal
  BY <1>0, <1>22 DEF ReapHttp, ReapTcp, Scan
<1>23. CASE ReapDone \/ ReaperStop \/ Shutdown \/ UNCHANGED vars
  <2>1. Goal
    BY <1>0, <1>23 DEF ReapDone, ReaperStop, Scan, Shutdown, vars
  <2> QED BY <2>1 DEF Goal
<1>24. ASSUME Next PROVE Goal \/ ReapDone \/ ReaperStop \/ Shutdown
  BY <1>11, <1>17, <1>18, <1>19, <1>20, <1>21, <1>22, <1>24 DEF Next
<1> QED BY <1>23, <1>24 DEF Goal

(* The registry implements exclusive endpoint leases: one session per      *)
(* subdomain or port, at most max_tunnels of them, a socket only under its *)
(* lease, and no lease given back before its socket is closed.             *)
THEOREM RegistryImplementsLease == Spec => ImplementsLease
<1>1. Init => Lease!Init
  BY ConstantsAssumption
  DEF Init, Lease!Init, LeaseMap, SocketMap, OwnsEndpoint, Holds, Handling, Stopping,
      AwaitedBy, Published, SocketOpen
<1> QED
  BY <1>1, LeaseStep, TypeCorrect, OwnershipCorrect, PTL
  DEF Spec, ImplementsLease, Lease!Spec, leaseVars

=============================================================================
