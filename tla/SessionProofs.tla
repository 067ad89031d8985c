--------------------------- MODULE SessionProofs ----------------------------
(***************************************************************************)
(* Proofs about the life of a client: ClientReconnect, the loop that makes *)
(* one session after another, for every set of endpoints, every number of  *)
(* attempts and every pair of delays; and ControlSession, one of these     *)
(* sessions, for every number of requests, every capacity of the queue and *)
(* every window of the transport.                                          *)
(***************************************************************************)
EXTENDS ClientReconnect, ControlSession, SequenceTheorems, TLAPS

-----------------------------------------------------------------------------
(* The loop around the sessions (ClientReconnect). *)

(* A retry is only waited for when another attempt is left. *)
AttemptsLeft == phase = "retry" => attempt < MaxAttempts

(* The server counts an endpoint as this client's only while a session     *)
(* runs on it or is being taken down.                                      *)
NoneHeldOutside ==
  phase \notin {"run", "teardown", "quitting"} => \A e \in Endpoints : holder[e] # "mine"

(* pin_assigned_endpoint: what was printed is what is asked for from then  *)
(* on, and nothing is printed that is not pinned.                          *)
PrintedIsPinned == printed # NoEndpoint => pinned = printed

ReconnectInv ==
  LoopTypeOK /\ AttemptsLeft /\ NoneHeldOutside /\ PrintedIsPinned /\ PrintedAddressServes

(* ReconnectBackoff::next_delay stays between the two delays. *)
LEMMA DelaysInRange ==
  ASSUME NEW d \in InitialDelay..MaxDelay
  PROVE  Doubled(d) \in InitialDelay..MaxDelay
BY ReconnectAssumption DEF Doubled

LEMMA FirstDelayInRange == InitialDelay \in InitialDelay..MaxDelay
BY ReconnectAssumption

LEMMA ReconnectInit == LoopInit => ReconnectInv
<1> SUFFICES ASSUME LoopInit PROVE ReconnectInv
    OBVIOUS
<1>1. LoopTypeOK
  <2>1. shutdown \in BOOLEAN /\ reachable \in BOOLEAN BY Zenon DEF LoopInit
  <2>2. holder \in [Endpoints -> Holders] BY DEF LoopInit, Holders
  <2>3. QED BY <2>1, <2>2, ReconnectAssumption, FirstDelayInRange DEF LoopInit, LoopTypeOK, Phases
<1>2. AttemptsLeft /\ PrintedIsPinned /\ PrintedAddressServes
  BY DEF LoopInit, AttemptsLeft, PrintedIsPinned, PrintedAddressServes
<1>3. NoneHeldOutside BY DEF LoopInit, NoneHeldOutside
<1>4. QED BY <1>1, <1>2, <1>3 DEF ReconnectInv

(* Types and attempts, action by action. *)
LEMMA LoopTypeStep ==
  LoopTypeOK /\ AttemptsLeft /\ [LoopNext]_loopVars => LoopTypeOK' /\ AttemptsLeft'
<1> DEFINE Goal == LoopTypeOK' /\ AttemptsLeft'
<1> SUFFICES ASSUME LoopTypeOK, AttemptsLeft, [LoopNext]_loopVars PROVE Goal
    OBVIOUS
<1> USE ReconnectAssumption, FirstDelayInRange
    DEF LoopTypeOK, AttemptsLeft, Holders, Phases, dials, shown, world
<1>1. CASE ConnectOk BY <1>1 DEF ConnectOk
<1>2. CASE ConnectFails BY <1>2, DelaysInRange DEF ConnectFails, AttemptFails
<1>3. CASE ConnectHangs BY <1>3 DEF ConnectHangs
<1>4. CASE HungFails BY <1>4, DelaysInRange DEF HungFails, AttemptFails
<1>5. CASE RetryElapsed BY <1>5 DEF RetryElapsed
<1>6. CASE WaitElapsed BY <1>6 DEF WaitElapsed
<1>7. ASSUME NEW e \in Endpoints, Registered(e) PROVE Goal
       BY <1>7 DEF Registered
<1>8. CASE Taken BY <1>8, DelaysInRange DEF Taken, Transient
<1>9. CASE HandshakeFails BY <1>9, DelaysInRange DEF HandshakeFails, Transient, MaybeUnheard
<1>10. CASE Rejected BY <1>10 DEF Rejected, MaybeUnheard
<1>11. CASE SessionLost BY <1>11 DEF SessionLost
<1>12. CASE QuitDone BY <1>12 DEF QuitDone, Abandon
<1>13. ASSUME NEW stable \in BOOLEAN, TeardownDone(stable) PROVE Goal
       BY <1>13, DelaysInRange DEF TeardownDone, Abandon
<1>14. CASE InterruptConnect BY <1>14 DEF InterruptConnect
<1>15. CASE InterruptRetry BY <1>15 DEF InterruptRetry
<1>16. CASE InterruptWait BY <1>16 DEF InterruptWait
<1>17. CASE InterruptHandshake BY <1>17 DEF InterruptHandshake, MaybeUnheard
<1>18. CASE InterruptRun BY <1>18 DEF InterruptRun
<1>19. ASSUME NEW e \in Endpoints, ServerNotices(e) PROVE Goal
       BY <1>19 DEF ServerNotices
<1>20. ASSUME NEW e \in Endpoints, ServerEnds(e) PROVE Goal
       BY <1>20 DEF ServerEnds
<1>21. ASSUME NEW e \in Endpoints, ReaperTakes(e) PROVE Goal
       BY <1>21 DEF ReaperTakes
<1>22. ASSUME NEW e \in Endpoints, OtherClient(e) PROVE Goal
       BY <1>22 DEF OtherClient
<1>23. CASE Network BY <1>23 DEF Network
<1>24. CASE CtrlC BY <1>24 DEF CtrlC
<1>25. CASE UNCHANGED loopVars BY <1>25 DEF loopVars
<1> HIDE DEF LoopTypeOK, AttemptsLeft
<1>26. QED
  BY <1>1, <1>2, <1>3, <1>4, <1>5, <1>6, <1>7, <1>8, <1>9, <1>10, <1>11, <1>12,
     <1>13, <1>14, <1>15, <1>16, <1>17, <1>18, <1>19, <1>20, <1>21, <1>22, <1>23, <1>24,
     <1>25
  DEF LoopNext, ConnectStep, AnswerStep, EndStep, Interrupt, EndpointStep

(* Who holds what, what is printed and what is pinned. *)
LEMMA AddressStep == ReconnectInv /\ [LoopNext]_loopVars =>
                       NoneHeldOutside' /\ PrintedIsPinned' /\ PrintedAddressServes'
<1> DEFINE Goal == NoneHeldOutside' /\ PrintedIsPinned' /\ PrintedAddressServes'
<1> SUFFICES ASSUME ReconnectInv, [LoopNext]_loopVars PROVE Goal
    OBVIOUS
<1> USE ReconnectAssumption
    DEF ReconnectInv, LoopTypeOK, Holders, NoneHeldOutside, PrintedIsPinned,
        PrintedAddressServes, dials, shown, world
<1>1. CASE ConnectOk BY <1>1 DEF ConnectOk
<1>2. CASE ConnectFails BY <1>2 DEF ConnectFails, AttemptFails
<1>3. CASE ConnectHangs BY <1>3 DEF ConnectHangs
<1>4. CASE HungFails BY <1>4 DEF HungFails, AttemptFails
<1>5. CASE RetryElapsed BY <1>5 DEF RetryElapsed
<1>6. CASE WaitElapsed BY <1>6 DEF WaitElapsed
<1>7. ASSUME NEW e \in Endpoints, Registered(e) PROVE Goal
  <2>1. printed' = e /\ pinned' = e BY <1>7 DEF Registered, Wanted
  <2>2. \A f \in Endpoints : holder'[f] = "mine" <=> f = e BY <1>7 DEF Registered
  <2>3. QED BY <1>7, <2>1, <2>2 DEF Registered
<1>8. CASE Taken BY <1>8 DEF Taken, Transient
<1>9. CASE HandshakeFails BY <1>9 DEF HandshakeFails, Transient, MaybeUnheard
<1>10. CASE Rejected BY <1>10 DEF Rejected, MaybeUnheard
<1>11. CASE SessionLost BY <1>11 DEF SessionLost
<1>12. CASE QuitDone BY <1>12 DEF QuitDone, Abandon
<1>13. ASSUME NEW stable \in BOOLEAN, TeardownDone(stable) PROVE Goal
       BY <1>13 DEF TeardownDone, Abandon
<1>14. CASE InterruptConnect BY <1>14 DEF InterruptConnect
<1>15. CASE InterruptRetry BY <1>15 DEF InterruptRetry
<1>16. CASE InterruptWait BY <1>16 DEF InterruptWait
<1>17. CASE InterruptHandshake BY <1>17 DEF InterruptHandshake, MaybeUnheard
<1>18. CASE InterruptRun BY <1>18 DEF InterruptRun
<1>19. ASSUME NEW e \in Endpoints, ServerNotices(e) PROVE Goal
       BY <1>19 DEF ServerNotices
<1>20. ASSUME NEW e \in Endpoints, ServerEnds(e) PROVE Goal
       BY <1>20 DEF ServerEnds
<1>21. ASSUME NEW e \in Endpoints, ReaperTakes(e) PROVE Goal
       BY <1>21 DEF ReaperTakes
<1>22. ASSUME NEW e \in Endpoints, OtherClient(e) PROVE Goal
       BY <1>22 DEF OtherClient
<1>23. CASE Network BY <1>23 DEF Network
<1>24. CASE CtrlC BY <1>24 DEF CtrlC
<1>25. CASE UNCHANGED loopVars BY <1>25 DEF loopVars
<1> HIDE DEF ReconnectInv, NoneHeldOutside, PrintedIsPinned, PrintedAddressServes
<1>26. QED
  BY <1>1, <1>2, <1>3, <1>4, <1>5, <1>6, <1>7, <1>8, <1>9, <1>10, <1>11, <1>12,
     <1>13, <1>14, <1>15, <1>16, <1>17, <1>18, <1>19, <1>20, <1>21, <1>22, <1>23, <1>24,
     <1>25
  DEF LoopNext, ConnectStep, AnswerStep, EndStep, Interrupt, EndpointStep

LEMMA ReconnectStep == ReconnectInv /\ [LoopNext]_loopVars => ReconnectInv'
BY LoopTypeStep, AddressStep DEF ReconnectInv

(* tunnel.rs:551 pin_assigned_endpoint: however often the client loses its *)
(* session, meets its own stale one or is overtaken by another client, a   *)
(* running session holds the printed address and no other, until the       *)
(* server takes it: the idle reaper, or the end of its side of the session.*)
THEOREM AddressIsKept == LoopSpec => []PrintedAddressServes
<1>1. ReconnectInv => PrintedAddressServes BY DEF ReconnectInv
<1>2. QED BY <1>1, ReconnectInit, ReconnectStep, PTL DEF LoopSpec

-----------------------------------------------------------------------------
(* One session (ControlSession). *)

USE DEF serverVars, tunnelVars, clientVars, linkVars, adminVars, vars

(* Flags stay Boolean. *)
LEMMA FlagsStep == FlagsOK /\ [Next]_vars => FlagsOK'
<1> SUFFICES ASSUME FlagsOK, [Next]_vars PROVE FlagsOK'
    OBVIOUS
<1> USE DEF FlagsOK
<1>1. CASE AuthTimeout BY <1>1 DEF AuthTimeout
<1>2. CASE AuthReject BY <1>2 DEF AuthReject, Written
<1>3. CASE AuthAccept BY <1>3 DEF AuthAccept
<1>4. CASE AuthCheck BY <1>4 DEF AuthCheck, Written
<1>5. CASE Welcome BY <1>5 DEF Welcome, Written
<1>6. CASE LoopTop BY <1>6 DEF LoopTop
<1>7. CASE ReadLength BY <1>7 DEF ReadLength
<1>8. ASSUME NEW m \in {"TunnelRequest", "Ping"}, ReadMsg(m) PROVE FlagsOK'
      BY <1>8 DEF ReadMsg
<1>9. CASE ReadErr BY <1>9 DEF ReadErr
<1>10. CASE SelectSend BY <1>10 DEF SelectSend, DropRead
<1>11. CASE SelectCancel BY <1>11 DEF SelectCancel
<1>12. CASE SelectEpoch BY <1>12 DEF SelectEpoch, DropRead
<1>13. CASE WriteOut BY <1>13 DEF WriteOut, Written
<1>14. CASE WriteRevoked BY <1>14 DEF WriteRevoked, Written
<1>15. ASSUME NEW m \in {"Busy", "Refused"}, RefuseTunnel(m) PROVE FlagsOK'
      BY <1>15 DEF RefuseTunnel
<1>16. CASE PublishTunnel BY <1>16 DEF PublishTunnel
<1>17. CASE QueueReply BY <1>17 DEF QueueReply
<1>18. CASE Cleanup BY <1>18 DEF Cleanup
<1>19. CASE ClientAuth BY <1>19 DEF ClientAuth, ClientWrites
<1>20. CASE ClientLength BY <1>20 DEF ClientLength, ClientWrites
<1>21. CASE ClientBody BY <1>21 DEF ClientBody, ClientWrites
<1>22. CASE ClientAuthResponse BY <1>22 DEF ClientAuthResponse, ClientMoves
<1>23. CASE ClientRegistrationResponse BY <1>23 DEF ClientRegistrationResponse, ClientMoves, Classify
<1>24. CASE ClientReads BY <1>24 DEF ClientReads
<1>25. CASE ClientLost BY <1>25 DEF ClientLost, ClientMoves
<1>26. CASE ClientTimeout BY <1>26 DEF ClientTimeout, ClientMoves
<1>27. CASE ClientPing BY <1>27 DEF ClientPing
<1>28. CASE ClientStops BY <1>28 DEF ClientStops, ClientMoves
<1>29. CASE LinkDown BY <1>29 DEF LinkDown
<1>30. ASSUME NEW r \in Requests, RequestArrives(r) PROVE FlagsOK'
      BY <1>30 DEF RequestArrives
<1>31. ASSUME NEW r \in Requests, StreamOpenSent(r) PROVE FlagsOK'
      BY <1>31 DEF StreamOpenSent
<1>32. ASSUME NEW r \in Requests, StreamOpenFails(r) PROVE FlagsOK'
      BY <1>32 DEF StreamOpenFails
<1>33. ASSUME NEW r \in Requests, VisitorLeaves(r) PROVE FlagsOK'
      BY <1>33 DEF VisitorLeaves
<1>34. CASE ReapTunnel BY <1>34 DEF ReapTunnel
<1>35. CASE Shutdown BY <1>35 DEF Shutdown
<1>36. ASSUME NEW listed \in BOOLEAN, Reload(listed) PROVE FlagsOK'
      BY <1>36 DEF Reload
<1>37. CASE UNCHANGED vars BY <1>37
<1> HIDE DEF FlagsOK
<1>38. QED
      BY <1>1, <1>2, <1>3, <1>4, <1>5, <1>6, <1>7, <1>8, <1>9, <1>10, <1>11,
         <1>12, <1>13, <1>14, <1>15, <1>16, <1>17, <1>18, <1>19, <1>20,
         <1>21, <1>22, <1>23, <1>24, <1>25, <1>26, <1>27, <1>28, <1>29,
         <1>30, <1>31, <1>32, <1>33, <1>34, <1>35, <1>36, <1>37
      DEF Next, ServerStep, SelectStep, ClientStep, RequestStep

(* What is queued and sent are messages of the protocol, and the queue      *)
(* never exceeds its capacity (control.rs:259).                            *)
LEMMA StreamsStep == StreamsOK /\ [Next]_vars => StreamsOK'
<1> SUFFICES ASSUME StreamsOK, [Next]_vars PROVE StreamsOK'
    OBVIOUS
<1> USE BoundsAssumption DEF StreamsOK, ServerMsgs, ClientFrames
<1>1. CASE AuthTimeout BY <1>1 DEF AuthTimeout
<1>2. CASE AuthReject BY <1>2 DEF AuthReject, Written
<1>3. CASE AuthAccept BY <1>3 DEF AuthAccept
<1>4. CASE AuthCheck
  <2>1. s2c' = s2c \/ s2c' = Append(s2c, "AuthErr") BY <1>4 DEF AuthCheck, Written
  <2>2. Append(s2c, "AuthErr") \in Seq(ServerMsgs) OBVIOUS
  <2>3. UNCHANGED <<c2s, chan, out>> /\ server' \in {"closed", "welcome"} BY <1>4 DEF AuthCheck
  <2>4. QED BY <2>1, <2>2, <2>3
<1>5. CASE Welcome BY <1>5 DEF Welcome, Written
<1>6. CASE LoopTop BY <1>6 DEF LoopTop
<1>7. CASE ReadLength BY <1>7 DEF ReadLength
<1>8. ASSUME NEW m \in {"TunnelRequest", "Ping"}, ReadMsg(m) PROVE StreamsOK'
      BY <1>8 DEF ReadMsg
<1>9. CASE ReadErr BY <1>9 DEF ReadErr
<1>10. CASE SelectSend BY <1>10 DEF SelectSend, DropRead
<1>11. CASE SelectCancel BY <1>11 DEF SelectCancel
<1>12. CASE SelectEpoch BY <1>12 DEF SelectEpoch, DropRead
<1>13. CASE WriteOut BY <1>13 DEF WriteOut, Written
<1>14. CASE WriteRevoked BY <1>14 DEF WriteRevoked, Written
<1>15. ASSUME NEW m \in {"Busy", "Refused"}, RefuseTunnel(m) PROVE StreamsOK'
      BY <1>15 DEF RefuseTunnel
<1>16. CASE PublishTunnel BY <1>16 DEF PublishTunnel
<1>17. CASE QueueReply BY <1>17 DEF QueueReply
<1>18. CASE Cleanup BY <1>18 DEF Cleanup
<1>19. CASE ClientAuth BY <1>19 DEF ClientAuth, ClientWrites
<1>20. CASE ClientLength BY <1>20 DEF ClientLength, ClientWrites
<1>21. CASE ClientBody BY <1>21 DEF ClientBody, ClientWrites
<1>22. CASE ClientAuthResponse BY <1>22 DEF ClientAuthResponse, ClientMoves
<1>23. CASE ClientRegistrationResponse BY <1>23 DEF ClientRegistrationResponse, ClientMoves, Classify
<1>24. CASE ClientReads BY <1>24 DEF ClientReads
<1>25. CASE ClientLost BY <1>25 DEF ClientLost, ClientMoves
<1>26. CASE ClientTimeout BY <1>26 DEF ClientTimeout, ClientMoves
<1>27. CASE ClientPing BY <1>27 DEF ClientPing
<1>28. CASE ClientStops BY <1>28 DEF ClientStops, ClientMoves
<1>29. CASE LinkDown BY <1>29 DEF LinkDown
<1>30. ASSUME NEW r \in Requests, RequestArrives(r) PROVE StreamsOK'
      BY <1>30 DEF RequestArrives
<1>31. ASSUME NEW r \in Requests, StreamOpenSent(r) PROVE StreamsOK'
      BY <1>31 DEF StreamOpenSent
<1>32. ASSUME NEW r \in Requests, StreamOpenFails(r) PROVE StreamsOK'
      BY <1>32 DEF StreamOpenFails
<1>33. ASSUME NEW r \in Requests, VisitorLeaves(r) PROVE StreamsOK'
      BY <1>33 DEF VisitorLeaves
<1>34. CASE ReapTunnel BY <1>34 DEF ReapTunnel
<1>35. CASE Shutdown BY <1>35 DEF Shutdown
<1>36. ASSUME NEW listed \in BOOLEAN, Reload(listed) PROVE StreamsOK'
      BY <1>36 DEF Reload
<1>37. CASE UNCHANGED vars BY <1>37
<1> HIDE DEF StreamsOK
<1>38. QED
      BY <1>1, <1>2, <1>3, <1>4, <1>5, <1>6, <1>7, <1>8, <1>9, <1>10, <1>11,
         <1>12, <1>13, <1>14, <1>15, <1>16, <1>17, <1>18, <1>19, <1>20,
         <1>21, <1>22, <1>23, <1>24, <1>25, <1>26, <1>27, <1>28, <1>29,
         <1>30, <1>31, <1>32, <1>33, <1>34, <1>35, <1>36, <1>37
      DEF Next, ServerStep, SelectStep, ClientStep, RequestStep

(* Phases and counters keep their ranges; no receiver is ahead of the      *)
(* epoch it watches.                                                       *)
LEMMA PhasesStep == PhasesOK /\ [Next]_vars => PhasesOK'
<1> SUFFICES ASSUME PhasesOK, [Next]_vars PROVE PhasesOK'
    OBVIOUS
<1> USE BoundsAssumption DEF PhasesOK, ServerPhases, ClientPhases
<1>1. CASE AuthTimeout BY <1>1 DEF AuthTimeout
<1>2. CASE AuthReject BY <1>2 DEF AuthReject, Written
<1>3. CASE AuthAccept BY <1>3 DEF AuthAccept
<1>4. CASE AuthCheck BY <1>4 DEF AuthCheck, Written
<1>5. CASE Welcome BY <1>5 DEF Welcome, Written
<1>6. CASE LoopTop BY <1>6 DEF LoopTop
<1>7. CASE ReadLength BY <1>7 DEF ReadLength
<1>8. ASSUME NEW m \in {"TunnelRequest", "Ping"}, ReadMsg(m) PROVE PhasesOK'
      BY <1>8 DEF ReadMsg
<1>9. CASE ReadErr BY <1>9 DEF ReadErr
<1>10. CASE SelectSend BY <1>10 DEF SelectSend, DropRead
<1>11. CASE SelectCancel BY <1>11 DEF SelectCancel
<1>12. CASE SelectEpoch BY <1>12 DEF SelectEpoch, DropRead
<1>13. CASE WriteOut BY <1>13 DEF WriteOut, Written
<1>14. CASE WriteRevoked BY <1>14 DEF WriteRevoked, Written
<1>15. ASSUME NEW m \in {"Busy", "Refused"}, RefuseTunnel(m) PROVE PhasesOK'
      BY <1>15 DEF RefuseTunnel
<1>16. CASE PublishTunnel BY <1>16 DEF PublishTunnel
<1>17. CASE QueueReply BY <1>17 DEF QueueReply
<1>18. CASE Cleanup BY <1>18 DEF Cleanup
<1>19. CASE ClientAuth BY <1>19 DEF ClientAuth, ClientWrites
<1>20. CASE ClientLength BY <1>20 DEF ClientLength, ClientWrites
<1>21. CASE ClientBody BY <1>21 DEF ClientBody, ClientWrites
<1>22. CASE ClientAuthResponse BY <1>22 DEF ClientAuthResponse, ClientMoves
<1>23. CASE ClientRegistrationResponse BY <1>23 DEF ClientRegistrationResponse, ClientMoves, Classify
<1>24. CASE ClientReads BY <1>24 DEF ClientReads
<1>25. CASE ClientLost BY <1>25 DEF ClientLost, ClientMoves
<1>26. CASE ClientTimeout BY <1>26 DEF ClientTimeout, ClientMoves
<1>27. CASE ClientPing BY <1>27 DEF ClientPing
<1>28. CASE ClientStops BY <1>28 DEF ClientStops, ClientMoves
<1>29. CASE LinkDown BY <1>29 DEF LinkDown
<1>30. ASSUME NEW r \in Requests, RequestArrives(r) PROVE PhasesOK'
      BY <1>30 DEF RequestArrives
<1>31. ASSUME NEW r \in Requests, StreamOpenSent(r) PROVE PhasesOK'
      BY <1>31 DEF StreamOpenSent
<1>32. ASSUME NEW r \in Requests, StreamOpenFails(r) PROVE PhasesOK'
      BY <1>32 DEF StreamOpenFails
<1>33. ASSUME NEW r \in Requests, VisitorLeaves(r) PROVE PhasesOK'
      BY <1>33 DEF VisitorLeaves
<1>34. CASE ReapTunnel BY <1>34 DEF ReapTunnel
<1>35. CASE Shutdown BY <1>35 DEF Shutdown
<1>36. ASSUME NEW listed \in BOOLEAN, Reload(listed) PROVE PhasesOK'
      BY <1>36 DEF Reload
<1>37. CASE UNCHANGED vars BY <1>37
<1> HIDE DEF PhasesOK
<1>38. QED
      BY <1>1, <1>2, <1>3, <1>4, <1>5, <1>6, <1>7, <1>8, <1>9, <1>10, <1>11,
         <1>12, <1>13, <1>14, <1>15, <1>16, <1>17, <1>18, <1>19, <1>20,
         <1>21, <1>22, <1>23, <1>24, <1>25, <1>26, <1>27, <1>28, <1>29,
         <1>30, <1>31, <1>32, <1>33, <1>34, <1>35, <1>36, <1>37
      DEF Next, ServerStep, SelectStep, ClientStep, RequestStep

(* control.rs:110-355, tunnel.rs:256-549: the session's type invariant.    *)
THEOREM TypeCorrect == Spec => []TypeOK
<1>1. Init => FlagsOK BY DEF Init, FlagsOK
<1>2. Init => StreamsOK BY BoundsAssumption, EmptySeq DEF Init, StreamsOK, ServerMsgs, ClientFrames
<1>3. Init => PhasesOK BY BoundsAssumption DEF Init, PhasesOK, ServerPhases, ClientPhases
<1>4. QED
      BY <1>1, <1>2, <1>3, FlagsStep, StreamsStep, PhasesStep, PTL DEF Spec, TypeOK

-----------------------------------------------------------------------------
(* Groups of steps that leave most of the session alone. *)

ServerIdle == UNCHANGED <<server, late, revoked>>

(* Only handle_client moves itself; only a reload touches the blocklist. *)
LEMMA OthersLeaveServer ==
  ASSUME [Next]_vars, ~ServerStep, ~(\E listed \in BOOLEAN : Reload(listed))
  PROVE  ServerIdle
BY DEF Next, ClientStep, RequestStep, ServerIdle, ClientAuth, ClientLength, ClientBody,
   ClientWrites, ClientAuthResponse, ClientRegistrationResponse, ClientMoves, ClientReads,
   ClientLost, ClientTimeout, ClientPing, ClientStops, LinkDown, RequestArrives,
   StreamOpenSent, StreamOpenFails, VisitorLeaves, ReapTunnel, Shutdown

(* The strengthening: the one late message is not followed by a select. *)
RevocationInv ==
  /\ late <= 1
  /\ late > 0 => revoked /\ server # "select"

(* Every step of handle_client keeps the count of late messages in bound. *)
LEMMA RevocationStep == PhasesOK /\ RevocationInv /\ [Next]_vars => RevocationInv'
<1> SUFFICES ASSUME PhasesOK, RevocationInv, [Next]_vars PROVE RevocationInv'
    OBVIOUS
<1>1. CASE ServerStep
  <2> USE DEF RevocationInv, PhasesOK
  <2>1. ASSUME NEW m \in {"TunnelRequest", "Ping"}, ReadMsg(m) PROVE RevocationInv'
        BY <2>1 DEF ReadMsg
  <2>2. CASE LoopTop BY <2>2 DEF LoopTop
  <2>3. CASE \/ AuthTimeout \/ AuthReject \/ AuthAccept \/ AuthCheck \/ Welcome
             \/ ReadLength \/ ReadErr
        BY <2>3 DEF AuthTimeout, AuthReject, AuthAccept, AuthCheck, Welcome, ReadLength, ReadErr
  <2>4. CASE SelectSend \/ SelectCancel \/ SelectEpoch \/ WriteOut \/ WriteRevoked
        BY <2>4 DEF SelectSend, SelectCancel, SelectEpoch, WriteOut, WriteRevoked
  <2>5. CASE PublishTunnel \/ QueueReply \/ Cleanup
        BY <2>5 DEF PublishTunnel, QueueReply, Cleanup
  <2>6. ASSUME NEW m \in {"Busy", "Refused"}, RefuseTunnel(m) PROVE RevocationInv'
        BY <2>6 DEF RefuseTunnel
  <2>7. QED BY <1>1, <2>1, <2>2, <2>3, <2>4, <2>5, <2>6 DEF ServerStep, SelectStep
<1>2. ASSUME NEW listed \in BOOLEAN, Reload(listed) PROVE RevocationInv'
      BY <1>2 DEF Reload, RevocationInv
<1>3. CASE ServerIdle BY <1>3 DEF ServerIdle, RevocationInv
<1>4. QED BY <1>1, <1>2, <1>3, OthersLeaveServer

(* control.rs:284-299: after a revocation at most one more message of the  *)
(* client is taken up, whatever the order in which select! looks at its    *)
(* branches.                                                               *)
THEOREM RevocationIsPrompt == Spec => []AtMostOneAfterRevocation
<1>1. Init => RevocationInv BY DEF Init, RevocationInv
<1>2. Init => PhasesOK BY BoundsAssumption DEF Init, PhasesOK, ServerPhases, ClientPhases
<1>3. RevocationInv => AtMostOneAfterRevocation BY DEF RevocationInv, AtMostOneAfterRevocation
<1>4. QED BY <1>1, <1>2, <1>3, PhasesStep, RevocationStep, PTL DEF Spec

(* control.rs:633, 648: a handler that waits on its own full queue waits   *)
(* for ever, for every capacity of that queue.                             *)
THEOREM SelfDeadlockIsPermanent == Spec => StuckForever
<1>1. ASSUME StreamsOK, [Next]_vars, Stuck PROVE Stuck'
  <2> USE <1>1, BoundsAssumption DEF Stuck, StreamsOK
  <2>1. CASE ServerStep
    <3>1. server = "reply" /\ ~QueueReply
          BY DEF QueueReply
    <3>2. QED
          BY <2>1, <3>1 DEF ServerStep, SelectStep, AuthTimeout, AuthReject, AuthAccept,
             AuthCheck, Welcome, LoopTop, ReadLength, ReadMsg, ReadErr, SelectSend,
             SelectCancel, SelectEpoch, WriteOut, WriteRevoked, RefuseTunnel,
             PublishTunnel, Cleanup
  <2>2. CASE ReapTunnel BY <2>2 DEF ReapTunnel
  <2>3. ASSUME NEW r \in Requests, RequestStep(r) PROVE Stuck'
        BY <2>3 DEF RequestStep, StreamOpenSent, StreamOpenFails
  <2>4. ASSUME NEW r \in Requests, RequestArrives(r) \/ VisitorLeaves(r) PROVE Stuck'
        BY <2>4 DEF RequestArrives, VisitorLeaves
  <2>5. CASE ClientStep
        BY <2>5 DEF ClientStep, ClientAuth, ClientLength, ClientBody, ClientWrites,
           ClientAuthResponse, ClientRegistrationResponse, ClientMoves, ClientReads, ClientLost
  <2>6. CASE ClientTimeout \/ ClientPing \/ ClientStops \/ LinkDown \/ Shutdown
        BY <2>6 DEF ClientTimeout, ClientPing, ClientStops, ClientMoves, LinkDown, Shutdown
  <2>7. ASSUME NEW listed \in BOOLEAN, Reload(listed) PROVE Stuck'
        BY <2>7 DEF Reload
  <2>8. CASE UNCHANGED vars BY <2>8
  <2> HIDE DEF Stuck
  <2>9. QED BY <1>1, <2>1, <2>2, <2>3, <2>4, <2>5, <2>6, <2>7, <2>8 DEF Next
<1>2. Init => StreamsOK
      BY BoundsAssumption, EmptySeq DEF Init, StreamsOK, ServerMsgs, ClientFrames
<1>3. StreamsOK /\ [Next]_vars => [Stuck => Stuck']_vars BY <1>1
<1>4. QED BY <1>2, <1>3, StreamsStep, PTL DEF Spec, StuckForever

-----------------------------------------------------------------------------
(* What Append, Tail and Head do to the messages in a queue. *)
LEMMA OccursAppend ==
  ASSUME NEW S, NEW seq \in Seq(S), NEW x \in S, NEW m
  PROVE  Occurs(m, Append(seq, x)) <=> (Occurs(m, seq) \/ x = m)
BY DEF Occurs

(* Reading a queue or a stream removes one message and adds none. *)
LEMMA OccursTail ==
  ASSUME NEW S, NEW seq \in Seq(S), seq # <<>>, NEW m
  PROVE  /\ Occurs(m, Tail(seq)) => Occurs(m, seq)
         /\ Head(seq) = m => Occurs(m, seq)
BY DEF Occurs

Alive == registered \/ reaped \/ server \in {"cleanup", "closed"}

(* A tunnel disappears through the reaper or with its session, for good. *)
LEMMA AliveStep == [Next]_vars /\ Alive => Alive'
BY DEF Alive, Next, ServerStep, SelectStep, ClientStep, RequestStep, AuthTimeout, AuthReject,
   AuthAccept, AuthCheck, Welcome, LoopTop, ReadLength, ReadMsg, ReadErr, SelectSend,
   SelectCancel, SelectEpoch, WriteOut, WriteRevoked, RefuseTunnel, PublishTunnel,
   QueueReply, Cleanup, ClientAuth, ClientLength, ClientBody, ClientWrites,
   ClientAuthResponse, ClientRegistrationResponse, ClientMoves, ClientReads, ClientLost,
   ClientTimeout, ClientPing, ClientStops, LinkDown, RequestArrives, StreamOpenSent,
   StreamOpenFails, VisitorLeaves, ReapTunnel, Shutdown, Reload

(* Where a TunnelAck can come from: the step that publishes the tunnel. *)
LEMMA AckedStep ==
  ASSUME StreamsOK, [Next]_vars, ~PublishTunnel, Acked'
  PROVE  Acked
<1> USE DEF Acked, StreamsOK
<1>a. s2c \in Seq(ServerMsgs) /\ chan \in Seq(ServerMsgs) OBVIOUS
<1>b. ASSUME NEW x \in ServerMsgs, Written(x), Occurs("TunnelAck", s2c'), x # "TunnelAck"
      PROVE  Occurs("TunnelAck", s2c)
      BY <1>b, <1>a, OccursAppend DEF Written
<1>1. CASE AuthReject BY <1>1, <1>b DEF AuthReject, ServerMsgs
<1>2. CASE AuthCheck BY <1>2, <1>b DEF AuthCheck, ServerMsgs
<1>3. CASE Welcome BY <1>3, <1>b DEF Welcome, ServerMsgs
<1>4. CASE WriteRevoked BY <1>4, <1>b DEF WriteRevoked, ServerMsgs
<1>5. CASE WriteOut
  <2>1. out \in ServerMsgs BY <1>5 DEF WriteOut
  <2>2. out' = None /\ UNCHANGED <<chan, client>> /\ Written(out) BY <1>5 DEF WriteOut
  <2>3. out' # "TunnelAck" BY <2>2, NoneAssumption DEF ServerMsgs
  <2>4. QED BY <2>1, <2>2, <2>3, <1>b
<1>6. CASE SelectSend BY <1>6, <1>a, OccursTail DEF SelectSend
<1>7. CASE QueueReply
  <2>1. out \in ServerMsgs BY <1>7 DEF QueueReply
  <2>2. out' # "TunnelAck" BY <1>7, NoneAssumption DEF QueueReply, ServerMsgs
  <2>3. QED BY <1>7, <2>1, <2>2, <1>a, OccursAppend DEF QueueReply
<1>8. ASSUME NEW m \in {"TunnelRequest", "Ping"}, ReadMsg(m) PROVE Acked
      BY <1>8 DEF ReadMsg
<1>9. ASSUME NEW m \in {"Busy", "Refused"}, RefuseTunnel(m) PROVE Acked
      BY <1>9 DEF RefuseTunnel
<1>10. CASE ClientRegistrationResponse
       BY <1>10, <1>a, OccursTail DEF ClientRegistrationResponse, ClientMoves, Classify
<1>11. CASE ClientAuthResponse
       BY <1>11, <1>a, OccursTail DEF ClientAuthResponse, ClientMoves
<1>12. CASE ClientReads BY <1>12, <1>a, OccursTail DEF ClientReads
<1>13. CASE ReapTunnel BY <1>13, <1>a, OccursAppend DEF ReapTunnel, ServerMsgs
<1>14. ASSUME NEW r \in Requests, StreamOpenSent(r) PROVE Acked
       BY <1>14, <1>a, OccursAppend DEF StreamOpenSent, ServerMsgs
<1>15. CASE \/ AuthTimeout \/ AuthAccept \/ LoopTop \/ ReadLength \/ ReadErr
            \/ SelectCancel \/ SelectEpoch \/ Cleanup
       BY <1>15 DEF AuthTimeout, AuthAccept, LoopTop, ReadLength, ReadErr, SelectCancel,
          SelectEpoch, Cleanup
<1>16. CASE ClientAuth \/ ClientLength \/ ClientBody \/ ClientLost \/ ClientTimeout \/ ClientStops
       BY <1>16 DEF ClientAuth, ClientLength, ClientBody, ClientWrites, ClientLost,
          ClientTimeout, ClientStops, ClientMoves
<1>17. CASE ClientPing \/ LinkDown \/ Shutdown BY <1>17 DEF ClientPing, LinkDown, Shutdown
<1>18. ASSUME NEW r \in Requests, RequestArrives(r) \/ StreamOpenFails(r) \/ VisitorLeaves(r)
       PROVE Acked
       BY <1>18 DEF RequestArrives, StreamOpenFails, VisitorLeaves
<1>19. ASSUME NEW listed \in BOOLEAN, Reload(listed) PROVE Acked BY <1>19 DEF Reload
<1>20. CASE UNCHANGED vars BY <1>20
<1> HIDE DEF Acked, StreamsOK
<1>21. QED
       BY <1>1, <1>2, <1>3, <1>4, <1>5, <1>6, <1>7, <1>8, <1>9, <1>10, <1>11, <1>12, <1>13,
          <1>14, <1>15, <1>16, <1>17, <1>18, <1>19, <1>20
       DEF Next, ServerStep, SelectStep, ClientStep, RequestStep

(* Nothing makes a request unread again. *)
LEMMA UnreadStep ==
  ASSUME StreamsOK, [Next]_vars, Unread'
  PROVE  Unread
<1> USE DEF Unread, StreamsOK
<1>a. c2s \in Seq(ClientFrames) OBVIOUS
<1>1. CASE AuthReject \/ AuthAccept
      BY <1>1, <1>a, OccursTail DEF AuthReject, AuthAccept
<1>2. CASE ReadLength BY <1>2, <1>a, OccursTail DEF ReadLength
<1>3. ASSUME NEW m \in {"TunnelRequest", "Ping"}, ReadMsg(m) PROVE Unread
      BY <1>3, <1>a, OccursTail DEF ReadMsg
<1>4. CASE SelectSend \/ SelectEpoch BY <1>4 DEF SelectSend, SelectEpoch, DropRead
<1>5. CASE ClientAuth \/ ClientLength \/ ClientBody
      BY <1>5 DEF ClientAuth, ClientLength, ClientBody, ClientWrites
<1>6. CASE ClientPing BY <1>6, <1>a, OccursAppend DEF ClientPing, ClientFrames
<1>7. CASE ClientAuthResponse BY <1>7 DEF ClientAuthResponse, ClientMoves
<1>8. CASE ClientRegistrationResponse
      BY <1>8 DEF ClientRegistrationResponse, ClientMoves, Classify
<1>9. CASE ClientLost \/ ClientTimeout \/ ClientStops
      BY <1>9 DEF ClientLost, ClientTimeout, ClientStops, ClientMoves
<1>10. CASE UNCHANGED <<client, half, desync, c2s>> BY <1>10
<1>11. CASE \/ AuthTimeout \/ AuthCheck \/ Welcome \/ LoopTop \/ ReadErr \/ SelectCancel
            \/ WriteOut \/ WriteRevoked \/ PublishTunnel \/ QueueReply \/ Cleanup
       BY <1>10, <1>11 DEF AuthTimeout, AuthCheck, Welcome, LoopTop, ReadErr, SelectCancel,
          WriteOut, WriteRevoked, PublishTunnel, QueueReply, Cleanup
<1>12. ASSUME NEW m \in {"Busy", "Refused"}, RefuseTunnel(m) PROVE Unread
       BY <1>10, <1>12 DEF RefuseTunnel
<1>13. CASE ClientReads \/ LinkDown \/ ReapTunnel \/ Shutdown \/ UNCHANGED vars
       BY <1>10, <1>13 DEF ClientReads, LinkDown, ReapTunnel, Shutdown
<1>14. ASSUME NEW r \in Requests,
              RequestArrives(r) \/ StreamOpenSent(r) \/ StreamOpenFails(r) \/ VisitorLeaves(r)
       PROVE Unread
       BY <1>10, <1>14 DEF RequestArrives, StreamOpenSent, StreamOpenFails, VisitorLeaves
<1>15. ASSUME NEW listed \in BOOLEAN, Reload(listed) PROVE Unread
       BY <1>10, <1>15 DEF Reload
<1> HIDE DEF Unread, StreamsOK
<1>16. QED
       BY <1>1, <1>2, <1>3, <1>4, <1>5, <1>6, <1>7, <1>8, <1>9, <1>11, <1>12, <1>13,
          <1>14, <1>15
       DEF Next, ServerStep, SelectStep, ClientStep, RequestStep

(* The request is the last thing the client writes before its answer. *)
LEMMA RequestStepInv ==
  ASSUME StreamsOK, UnreadInv, RequestInv, [Next]_vars
  PROVE  RequestInv'
<1> USE DEF RequestInv, StreamsOK
<1>a. c2s \in Seq(ClientFrames) OBVIOUS
<1>b. ASSUME c2s # <<>>, c2s' = Tail(c2s), UNCHANGED <<client, half, desync>> PROVE RequestInv'
  <2>1. Len(c2s') = Len(c2s) - 1 /\ \A i \in 1..Len(c2s') : c2s'[i] = c2s[i + 1]
        BY <1>a, <1>b
  <2>2. ASSUME NEW i \in 1..Len(c2s')
        PROVE  i + 1 \in 1..Len(c2s) /\ c2s'[i] = c2s[i + 1] /\ (i + 1 = Len(c2s) => i = Len(c2s'))
        BY <1>a, <2>1, LenProperties
  <2>3. QED BY <1>b, <2>2
<1>1. CASE AuthReject \/ AuthAccept BY <1>1, <1>b DEF AuthReject, AuthAccept
<1>2. CASE ReadLength BY <1>2, <1>a DEF ReadLength
<1>3. ASSUME NEW m \in {"TunnelRequest", "Ping"}, ReadMsg(m) PROVE RequestInv'
      BY <1>3, <1>a DEF ReadMsg
<1>4. CASE SelectSend \/ SelectEpoch BY <1>4 DEF SelectSend, SelectEpoch, DropRead
<1>5. CASE ClientAuth BY <1>5, <1>a DEF ClientAuth, ClientWrites
<1>6. CASE ClientLength BY <1>6, <1>a DEF ClientLength, ClientWrites
<1>7. CASE ClientBody BY <1>7, <1>a DEF ClientBody, ClientWrites
<1>8. CASE ClientPing
  <2>1. ~Occurs("TunnelRequest", c2s)
        BY <1>8 DEF ClientPing, UnreadInv, Unread, Acked
  <2>2. QED BY <1>8, <1>a, <2>1 DEF ClientPing, Occurs
<1>9. CASE ClientAuthResponse BY <1>9 DEF ClientAuthResponse, ClientMoves
<1>10. CASE ClientRegistrationResponse
       BY <1>10 DEF ClientRegistrationResponse, ClientMoves, Classify
<1>11. CASE ClientLost \/ ClientTimeout \/ ClientStops
       BY <1>11 DEF ClientLost, ClientTimeout, ClientStops, ClientMoves
<1>12. CASE UNCHANGED <<client, half, desync, c2s>> BY <1>12
<1>13. CASE \/ AuthTimeout \/ AuthCheck \/ Welcome \/ LoopTop \/ ReadErr \/ SelectCancel
            \/ WriteOut \/ WriteRevoked \/ PublishTunnel \/ QueueReply \/ Cleanup
       BY <1>12, <1>13 DEF AuthTimeout, AuthCheck, Welcome, LoopTop, ReadErr, SelectCancel,
          WriteOut, WriteRevoked, PublishTunnel, QueueReply, Cleanup
<1>14. ASSUME NEW m \in {"Busy", "Refused"}, RefuseTunnel(m) PROVE RequestInv'
       BY <1>12, <1>14 DEF RefuseTunnel
<1>15. CASE ClientReads \/ LinkDown \/ ReapTunnel \/ Shutdown \/ UNCHANGED vars
       BY <1>12, <1>15 DEF ClientReads, LinkDown, ReapTunnel, Shutdown
<1>16. ASSUME NEW r \in Requests,
              RequestArrives(r) \/ StreamOpenSent(r) \/ StreamOpenFails(r) \/ VisitorLeaves(r)
       PROVE RequestInv'
       BY <1>12, <1>16 DEF RequestArrives, StreamOpenSent, StreamOpenFails, VisitorLeaves
<1>17. ASSUME NEW listed \in BOOLEAN, Reload(listed) PROVE RequestInv'
       BY <1>12, <1>17 DEF Reload
<1> HIDE DEF RequestInv, StreamsOK
<1>18. QED
       BY <1>1, <1>2, <1>3, <1>4, <1>5, <1>6, <1>7, <1>8, <1>9, <1>10, <1>11, <1>13,
          <1>14, <1>15, <1>16, <1>17
       DEF Next, ServerStep, SelectStep, ClientStep, RequestStep

(* handle_control_msg starts on a TunnelRequest only when it is read in    *)
(* full, and then nothing of it is left.                                   *)
LEMMA RegisterStarts ==
  ASSUME StreamsOK, RequestInv, [Next]_vars, server # "register", server' = "register"
  PROVE  ~Unread'
<1>1. ReadMsg("TunnelRequest")
      BY DEF Next, ServerStep, SelectStep, ClientStep, RequestStep, AuthTimeout, AuthReject,
         AuthAccept, AuthCheck, Welcome, LoopTop, ReadLength, ReadMsg, ReadErr, SelectSend,
         SelectCancel, SelectEpoch, WriteOut, WriteRevoked, RefuseTunnel, PublishTunnel,
         QueueReply, Cleanup, ClientAuth, ClientLength, ClientBody, ClientWrites,
         ClientAuthResponse, ClientRegistrationResponse, ClientMoves, ClientReads, ClientLost,
         ClientTimeout, ClientPing, ClientStops, LinkDown, RequestArrives, StreamOpenSent,
         StreamOpenFails, VisitorLeaves, ReapTunnel, Shutdown, Reload
<1>2. c2s \in Seq(ClientFrames) /\ c2s # <<>> /\ c2s[1] = "TunnelRequest"
      BY <1>1 DEF ReadMsg, StreamsOK
<1>3. Len(c2s) = 1 /\ client \notin {"connected", "auth", "authenticated", "half"}
  <2>1. 1 \in 1..Len(c2s) BY <1>2
  <2>2. QED BY <1>2, <2>1 DEF RequestInv
<1>4. Len(c2s') = 0 /\ client' = client /\ ~half' /\ ~desync'
      BY <1>1, <1>2, <1>3 DEF ReadMsg
<1>5. ~Occurs("Length", c2s') /\ ~Occurs("TunnelRequest", c2s')
      BY <1>4 DEF Occurs
<1>6. QED BY <1>3, <1>4, <1>5 DEF Unread

(* The registration handshake, step by step. *)
LEMMA HandshakeStep ==
  ASSUME StreamsOK, HandshakeInv, [Next]_vars
  PROVE  HandshakeInv'
<1> USE DEF HandshakeInv
<1>1. AckInv'
  <2>1. CASE PublishTunnel BY <2>1 DEF PublishTunnel, AckInv
  <2>2. CASE ~PublishTunnel
    <3>1. Acked' => Acked BY <2>2, AckedStep
    <3>2. QED BY <3>1, AliveStep DEF AckInv, Alive
  <2>3. QED BY <2>1, <2>2
<1>2. UnreadInv'
  <2>1. SUFFICES ASSUME Unread' PROVE ~Acked' /\ server' # "register"
        BY DEF UnreadInv
  <2>2. ~Acked /\ server # "register" BY <2>1, UnreadStep DEF UnreadInv
  <2>3. ~PublishTunnel BY <2>2 DEF PublishTunnel
  <2>4. ~Acked' BY <2>2, <2>3, AckedStep
  <2>5. server' # "register" BY <2>1, <2>2, RegisterStarts
  <2>6. QED BY <2>4, <2>5
<1>3. RequestInv' BY RequestStepInv
<1>4. QED BY <1>1, <1>2, <1>3

(* control.rs:283-657 against tunnel.rs:308-442: how far the two ends of   *)
(* the registration handshake can be apart, in every run.                  *)
THEOREM HandshakeCorrect == Spec => []HandshakeInv
<1>1. Init => StreamsOK
      BY BoundsAssumption, EmptySeq DEF Init, StreamsOK, ServerMsgs, ClientFrames
<1>2. Init => HandshakeInv
      BY NoneAssumption DEF Init, HandshakeInv, AckInv, UnreadInv, RequestInv, Acked, Unread,
         Occurs, ServerMsgs
<1>3. QED BY <1>1, <1>2, StreamsStep, HandshakeStep, PTL DEF Spec

(* A client with a TunnelAck has a published tunnel, or the reaper or the  *)
(* end of the session took it (control.rs:556, 633).                       *)
THEOREM AckMeansPublished == Spec => []RunningMeansPublished
<1>1. HandshakeInv => RunningMeansPublished
      BY DEF HandshakeInv, AckInv, Acked, RunningMeansPublished
<1>2. QED BY <1>1, HandshakeCorrect, PTL

(* Dropping the read in select! (control.rs:301) never hurts a running     *)
(* session.                                                                *)
THEOREM RunningNeverDesyncs == Spec => []DesyncOnlyWhileRegistering
<1>1. HandshakeInv => DesyncOnlyWhileRegistering
      BY DEF HandshakeInv, UnreadInv, Unread, Acked, DesyncOnlyWhileRegistering
<1>2. QED BY <1>1, HandshakeCorrect, PTL

=============================================================================
