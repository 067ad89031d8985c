--------------------------- MODULE CertStoreProofs --------------------------
(***************************************************************************)
(* Proofs about CertStore, for every configuration of the TLS source and   *)
(* every number of renewals, polls, failures and crashes.                  *)
(***************************************************************************)
EXTENDS CertStore, TLAPS

(* Nobody provisions unless the certificate is ACME-managed. *)
OnlyManagedProvisions == Managed \/ task.pc \in {"down", "idle"}

(* Without a managed certificate neither the configuration nor the         *)
(* directory changes, so that every start loads the same pair.             *)
UnmanagedIsConstant ==
  ~Managed => {watch, initial, seen} \subseteq {NoPair, load_tls_config(config, disk)}

(* A managed pair is the certificate of an issue and its key. *)
IssuedOrNone(p) == p = NoPair \/ (p.cert = p.key /\ p.cert \in 1..issued)

(* What the directory can hold: keys and certificates up to the last       *)
(* issue, torn files, and the halves of an order that was already valid.   *)
DiskOK ==
  /\ disk.cert \in {NoFile, Torn, Stranger} \cup 1..issued
  /\ disk.key \in {NoFile, Torn, Unpaired} \cup 1..issued

(* From its download to its load, the chain is the last one issued. *)
ChainOK ==
  task.pc \in {"download", "saveCert", "saveKey", "load"} =>
    task.chain = Stranger \/ (task.chain = issued /\ issued > 0)

(* Managed pairs only get newer: what was presented is not newer than what *)
(* is served, that not newer than what was just provisioned, and that not  *)
(* newer than what the next start would load.                              *)
PairsInOrder ==
  Managed =>
    /\ IssuedOrNone(watch) /\ IssuedOrNone(initial)
    /\ IssuedOrNone(seen) /\ IssuedOrNone(task.result)
    /\ initial # NoPair <=> watch # NoPair
    /\ watch # NoPair => seen.cert <= watch.cert
    /\ task.result # NoPair =>
         seen.cert <= task.result.cert /\ watch.cert <= task.result.cert
    /\ load_from_files(disk) # NoPair =>
         /\ seen.cert <= disk.cert /\ watch.cert <= disk.cert
         /\ task.result.cert <= disk.cert

CertInv ==
  /\ TypeOK /\ OnlyManagedProvisions /\ UnmanagedIsConstant
  /\ DiskOK /\ ChainOK /\ PairsInOrder

(* The places and the marks the actions write are of their types.          *)
LEMMA Marks ==
  /\ NoFile \in Files /\ Torn \in Files /\ Stranger \in Files /\ Unpaired \in Files
  /\ NoPair \in Pairs /\ Pair(Byo, Byo) \in Pairs /\ generate_self_signed \in Pairs
BY DEF Files, Pairs, NoFile, Torn, Stranger, Unpaired, NoPair, Pair, Byo, SelfSigned,
       generate_self_signed

LEMMA PlaceNames ==
  /\ "down" \in Places /\ "idle" \in Places /\ "account" \in Places
  /\ "order" \in Places /\ "txt" \in Places /\ "poll" \in Places
  /\ "issue" \in Places /\ "download" \in Places /\ "saveCert" \in Places
  /\ "saveKey" \in Places /\ "load" \in Places /\ "cleanup" \in Places
BY DEF Places

(* Loading yields a certificate with its own key, or NoPair.               *)
LEMMA LoadsAPair ==
  ASSUME NEW d \in Disks
  PROVE  load_from_files(d) \in Pairs
BY DEF Disks, Files, Pairs, load_from_files, Pair, NoPair, NoFile, Torn

LEMMA SelectsAPair ==
  ASSUME NEW d \in Disks, NEW c
  PROVE  load_tls_config(c, d) \in Pairs
BY LoadsAPair, Marks DEF load_tls_config

LEMMA TaskStep == TypeOK /\ [Next]_vars => task' \in Tasks
<1> SUFFICES ASSUME TypeOK, [Next]_vars PROVE task' \in Tasks
    OBVIOUS
<1> task \in Tasks /\ issued \in Nat /\ disk \in Disks
    BY DEF TypeOK
<1> issued + 1 \in Files /\ 0 \in 0..MaxPolls
    BY CertBounds DEF Files
<1>next. \A i \in 0..MaxPolls : i < MaxPolls => i + 1 \in 0..MaxPolls
    BY CertBounds
<1> USE Marks, PlaceNames DEF Tasks, At, Goto, Cleanup, Fault
<1>1. CASE StartFails BY <1>1 DEF StartFails, vars, process
<1>2. CASE StartLoads BY <1>2, SelectsAPair DEF StartLoads, Serve
<1>3. CASE StartProvisions BY <1>3 DEF StartProvisions
<1>4. CASE RestoreAccount BY <1>4 DEF RestoreAccount
<1>5. CASE RestoreTornAccount BY <1>5 DEF RestoreTornAccount
<1>6. CASE CreateAccount BY <1>6 DEF CreateAccount
<1>7. CASE CreateAccountFails BY <1>7 DEF CreateAccountFails
<1>8. CASE NewOrder BY <1>8 DEF NewOrder
<1>9. CASE CreateTxt BY <1>9 DEF CreateTxt
<1>10. CASE CreateTxtUnanswered BY <1>10 DEF CreateTxtUnanswered
<1>11. CASE SetReady BY <1>11 DEF SetReady
<1>12. CASE StillPending BY <1>12, <1>next DEF StillPending
<1>13. CASE Finalize BY <1>13 DEF Finalize
<1>14. CASE Issued BY <1>14 DEF Issued
<1>15. CASE AlreadyValid BY <1>15 DEF AlreadyValid
<1>16. CASE Download BY <1>16 DEF Download
<1>17. CASE AcmeFails BY <1>17 DEF AcmeFails
<1>18. CASE SaveCert BY <1>18 DEF SaveCert
<1>19. CASE SaveCertFails BY <1>19 DEF SaveCertFails
<1>20. CASE SaveKey BY <1>20 DEF SaveKey
<1>21. CASE SaveKeyFails BY <1>21 DEF SaveKeyFails
<1>22. CASE LoadSaved BY <1>22, LoadsAPair DEF LoadSaved
<1>23. CASE delete_record BY <1>23 DEF delete_record
<1>24. CASE delete_record_fails BY <1>24 DEF delete_record_fails
<1>25. CASE ProvisionedAtStart BY <1>25 DEF ProvisionedAtStart, Serve, CleanedUp
<1>26. CASE Renewed BY <1>26 DEF Renewed, CleanedUp
<1>27. CASE RenewalTick BY <1>27 DEF RenewalTick
<1>28. CASE AcceptHttps BY <1>28 DEF AcceptHttps
<1>29. CASE AcceptControl BY <1>29 DEF AcceptControl
<1>30. CASE Age BY <1>30 DEF Age, process
<1>31. CASE Shutdown BY <1>31 DEF Shutdown, Halt
<1>32. CASE Crash BY <1>32 DEF Crash, Halt
<1>33. CASE UNCHANGED vars BY <1>33 DEF vars, process
<1>34. QED
  BY <1>1, <1>2, <1>3, <1>4, <1>5, <1>6, <1>7, <1>8, <1>9, <1>10, <1>11,
     <1>12, <1>13, <1>14, <1>15, <1>16, <1>17, <1>18, <1>19, <1>20, <1>21,
     <1>22, <1>23, <1>24, <1>25, <1>26, <1>27, <1>28, <1>29, <1>30, <1>31,
     <1>32, <1>33
  DEF Next, Start, Succeeds, Fails

LEMMA DiskStep == TypeOK /\ [Next]_vars => disk' \in Disks
<1> SUFFICES ASSUME TypeOK, [Next]_vars PROVE disk' \in Disks
    OBVIOUS
<1> disk \in Disks /\ task.chain \in Files
    BY DEF TypeOK, Tasks
<1> KeyOf(task.chain) \in Files
    BY Marks DEF KeyOf
<1> USE Marks DEF Disks
<1>1. CASE StartFails BY <1>1 DEF StartFails, vars, process
<1>2. CASE StartLoads BY <1>2 DEF StartLoads, TaskOnly
<1>3. CASE StartProvisions BY <1>3 DEF StartProvisions, TaskOnly
<1>4. CASE RestoreAccount BY <1>4 DEF RestoreAccount, TaskOnly
<1>5. CASE RestoreTornAccount BY <1>5 DEF RestoreTornAccount, TaskOnly
<1>6. CASE CreateAccount BY <1>6 DEF CreateAccount
<1>7. CASE CreateAccountFails BY <1>7 DEF CreateAccountFails
<1>8. CASE NewOrder BY <1>8 DEF NewOrder, TaskOnly
<1>9. CASE CreateTxt BY <1>9 DEF CreateTxt, TaskOnly
<1>10. CASE CreateTxtUnanswered BY <1>10 DEF CreateTxtUnanswered, TaskOnly
<1>11. CASE SetReady BY <1>11 DEF SetReady, TaskOnly
<1>12. CASE StillPending BY <1>12 DEF StillPending, TaskOnly
<1>13. CASE Finalize BY <1>13 DEF Finalize, TaskOnly
<1>14. CASE Issued BY <1>14 DEF Issued, TaskOnly
<1>15. CASE AlreadyValid BY <1>15 DEF AlreadyValid, TaskOnly
<1>16. CASE Download BY <1>16 DEF Download, TaskOnly
<1>17. CASE AcmeFails BY <1>17 DEF AcmeFails, TaskOnly
<1>18. CASE SaveCert BY <1>18 DEF SaveCert
<1>19. CASE SaveCertFails BY <1>19 DEF SaveCertFails
<1>20. CASE SaveKey BY <1>20 DEF SaveKey
<1>21. CASE SaveKeyFails BY <1>21 DEF SaveKeyFails
<1>22. CASE LoadSaved BY <1>22 DEF LoadSaved, TaskOnly
<1>23. CASE delete_record BY <1>23 DEF delete_record, TaskOnly
<1>24. CASE delete_record_fails BY <1>24 DEF delete_record_fails, TaskOnly
<1>25. CASE ProvisionedAtStart BY <1>25 DEF ProvisionedAtStart, TaskOnly
<1>26. CASE Renewed BY <1>26 DEF Renewed, TaskOnly
<1>27. CASE RenewalTick BY <1>27 DEF RenewalTick, TaskOnly
<1>28. CASE AcceptHttps BY <1>28 DEF AcceptHttps, TaskOnly
<1>29. CASE AcceptControl BY <1>29 DEF AcceptControl, TaskOnly
<1>30. CASE Age BY <1>30 DEF Age, process
<1>31. CASE Shutdown BY <1>31 DEF Shutdown, Halt
<1>32. CASE Crash BY <1>32 DEF Crash
<1>33. CASE UNCHANGED vars BY <1>33 DEF vars, process
<1>34. QED
  BY <1>1, <1>2, <1>3, <1>4, <1>5, <1>6, <1>7, <1>8, <1>9, <1>10, <1>11,
     <1>12, <1>13, <1>14, <1>15, <1>16, <1>17, <1>18, <1>19, <1>20, <1>21,
     <1>22, <1>23, <1>24, <1>25, <1>26, <1>27, <1>28, <1>29, <1>30, <1>31,
     <1>32, <1>33
  DEF Next, Start, Succeeds, Fails

(* The count of the records is kept by every step, and never runs below    *)
(* zero: a task deletes only what it has created.                          *)
LEMMA ZoneStep ==
  TypeOK /\ TxtRecordsAccounted /\ [Next]_vars => zone' \in Zones /\ TxtRecordsAccounted'
<1> SUFFICES ASSUME TypeOK, TxtRecordsAccounted, [Next]_vars
             PROVE  zone' \in Zones /\ TxtRecordsAccounted'
    OBVIOUS
<1> task \in Tasks /\ zone \in Zones
    BY DEF TypeOK
<1> zone.txt = zone.lost + task.ids /\ (task.pc \in {"idle", "down"} => task.ids = 0)
    BY DEF TxtRecordsAccounted
<1> USE DEF TxtRecordsAccounted, Tasks, Zones, At
<1>1. CASE StartFails BY <1>1 DEF StartFails, vars, process
<1>2. CASE StartLoads BY <1>2 DEF StartLoads, Serve
<1>3. CASE StartProvisions BY <1>3 DEF StartProvisions
<1>4. CASE RestoreAccount BY <1>4 DEF RestoreAccount, Goto, TaskOnly
<1>5. CASE RestoreTornAccount BY <1>5 DEF RestoreTornAccount, Cleanup, TaskOnly
<1>6. CASE CreateAccount BY <1>6 DEF CreateAccount, Goto
<1>7. CASE CreateAccountFails BY <1>7 DEF CreateAccountFails, Cleanup
<1>8. CASE NewOrder BY <1>8 DEF NewOrder, Goto, TaskOnly
<1>9. CASE CreateTxt BY <1>9 DEF CreateTxt
<1>10. CASE CreateTxtUnanswered BY <1>10 DEF CreateTxtUnanswered, Cleanup
<1>11. CASE SetReady BY <1>11 DEF SetReady, Goto, TaskOnly
<1>12. CASE StillPending BY <1>12 DEF StillPending, TaskOnly
<1>13. CASE Finalize BY <1>13 DEF Finalize, Goto, TaskOnly
<1>14. CASE Issued BY <1>14 DEF Issued
<1>15. CASE AlreadyValid BY <1>15 DEF AlreadyValid, TaskOnly
<1>16. CASE Download BY <1>16 DEF Download, Goto, TaskOnly
<1>17. CASE AcmeFails BY <1>17 DEF AcmeFails, Cleanup, TaskOnly
<1>18. CASE SaveCert BY <1>18 DEF SaveCert, Goto
<1>19. CASE SaveCertFails BY <1>19 DEF SaveCertFails, Cleanup
<1>20. CASE SaveKey BY <1>20 DEF SaveKey, Goto
<1>21. CASE SaveKeyFails BY <1>21 DEF SaveKeyFails, Cleanup
<1>22. CASE LoadSaved BY <1>22 DEF LoadSaved, Cleanup, TaskOnly
<1>23. CASE delete_record BY <1>23 DEF delete_record
<1>24. CASE delete_record_fails BY <1>24 DEF delete_record_fails
<1>25. CASE ProvisionedAtStart BY <1>25 DEF ProvisionedAtStart, Serve, CleanedUp
<1>26. CASE Renewed BY <1>26 DEF Renewed, CleanedUp
<1>27. CASE RenewalTick BY <1>27 DEF RenewalTick, Goto, TaskOnly
<1>28. CASE AcceptHttps BY <1>28 DEF AcceptHttps
<1>29. CASE AcceptControl BY <1>29 DEF AcceptControl
<1>30. CASE Age BY <1>30 DEF Age, process
<1>31. CASE Shutdown BY <1>31 DEF Shutdown, Halt
<1>32. CASE Crash BY <1>32 DEF Crash, Halt
<1>33. CASE UNCHANGED vars BY <1>33 DEF vars, process
<1>34. QED
  BY <1>1, <1>2, <1>3, <1>4, <1>5, <1>6, <1>7, <1>8, <1>9, <1>10, <1>11,
     <1>12, <1>13, <1>14, <1>15, <1>16, <1>17, <1>18, <1>19, <1>20, <1>21,
     <1>22, <1>23, <1>24, <1>25, <1>26, <1>27, <1>28, <1>29, <1>30, <1>31,
     <1>32, <1>33
  DEF Next, Start, Succeeds, Fails

LEMMA RestStep ==
  TypeOK /\ [Next]_vars =>
    /\ config' = config
    /\ watch' \in Pairs /\ initial' \in Pairs /\ seen' \in Pairs
    /\ issued' \in Nat /\ ageing' \in 0..MaxAges /\ faults' \in 0..MaxFaults
    /\ cut' \subseteq {"save", "mode", "account"}
<1> DEFINE Rest == /\ config' = config
                   /\ watch' \in Pairs /\ initial' \in Pairs /\ seen' \in Pairs
                   /\ issued' \in Nat /\ ageing' \in 0..MaxAges /\ faults' \in 0..MaxFaults
                   /\ cut' \subseteq {"save", "mode", "account"}
<1> SUFFICES ASSUME TypeOK, [Next]_vars PROVE Rest
    OBVIOUS
<1> /\ watch \in Pairs /\ initial \in Pairs /\ seen \in Pairs
    /\ issued \in Nat /\ ageing \in 0..MaxAges /\ faults \in 0..MaxFaults
    /\ cut \subseteq {"save", "mode", "account"} /\ disk \in Disks
    /\ task.result \in Pairs
    BY DEF TypeOK, Tasks
<1>fault. Fault => faults' \in 0..MaxFaults
    BY CertBounds DEF Fault
<1>age. Age => ageing' \in 0..MaxAges
    BY CertBounds DEF Age
<1>1. CASE StartFails BY <1>1 DEF StartFails, vars, process
<1>2. CASE StartLoads BY <1>2, SelectsAPair DEF StartLoads, Serve
<1>3. CASE StartProvisions BY <1>3 DEF StartProvisions, TaskOnly
<1>4. CASE RestoreAccount BY <1>4 DEF RestoreAccount, TaskOnly
<1>5. CASE RestoreTornAccount BY <1>5 DEF RestoreTornAccount, TaskOnly
<1>6. CASE CreateAccount BY <1>6 DEF CreateAccount, TaskOnly
<1>7. CASE CreateAccountFails BY <1>7, <1>fault DEF CreateAccountFails
<1>8. CASE NewOrder BY <1>8 DEF NewOrder, TaskOnly
<1>9. CASE CreateTxt BY <1>9 DEF CreateTxt, TaskOnly
<1>10. CASE CreateTxtUnanswered BY <1>10, <1>fault DEF CreateTxtUnanswered
<1>11. CASE SetReady BY <1>11 DEF SetReady, TaskOnly
<1>12. CASE StillPending BY <1>12 DEF StillPending, TaskOnly
<1>13. CASE Finalize BY <1>13 DEF Finalize, TaskOnly
<1>14. CASE Issued BY <1>14 DEF Issued, TaskOnly
<1>15. CASE AlreadyValid BY <1>15, <1>fault DEF AlreadyValid, TaskOnly
<1>16. CASE Download BY <1>16 DEF Download, TaskOnly
<1>17. CASE AcmeFails BY <1>17, <1>fault DEF AcmeFails, TaskOnly
<1>18. CASE SaveCert BY <1>18 DEF SaveCert, TaskOnly
<1>19. CASE SaveCertFails BY <1>19, <1>fault DEF SaveCertFails
<1>20. CASE SaveKey BY <1>20 DEF SaveKey, TaskOnly
<1>21. CASE SaveKeyFails BY <1>21, <1>fault DEF SaveKeyFails
<1>22. CASE LoadSaved BY <1>22 DEF LoadSaved, TaskOnly
<1>23. CASE delete_record BY <1>23 DEF delete_record, TaskOnly
<1>24. CASE delete_record_fails BY <1>24, <1>fault DEF delete_record_fails
<1>25. CASE ProvisionedAtStart BY <1>25 DEF ProvisionedAtStart, Serve
<1>26. CASE Renewed BY <1>26 DEF Renewed, TaskOnly
<1>27. CASE RenewalTick BY <1>27 DEF RenewalTick, TaskOnly
<1>28. CASE AcceptHttps BY <1>28 DEF AcceptHttps, Latest
<1>29. CASE AcceptControl BY <1>29 DEF AcceptControl, Latest
<1>30. CASE Age BY <1>30, <1>age DEF Age, process
<1>31. CASE Shutdown BY <1>31, <1>fault, Marks DEF Shutdown, Halt
<1>32. CASE Crash BY <1>32, <1>fault, Marks DEF Crash, Halt
<1>33. CASE UNCHANGED vars BY <1>33 DEF vars, process
<1>34. QED
  BY <1>1, <1>2, <1>3, <1>4, <1>5, <1>6, <1>7, <1>8, <1>9, <1>10, <1>11,
     <1>12, <1>13, <1>14, <1>15, <1>16, <1>17, <1>18, <1>19, <1>20, <1>21,
     <1>22, <1>23, <1>24, <1>25, <1>26, <1>27, <1>28, <1>29, <1>30, <1>31,
     <1>32, <1>33
  DEF Next, Start, Succeeds, Fails

(* The types and the count of the records are kept together. *)
LEMMA TypeStep ==
  TypeOK /\ TxtRecordsAccounted /\ [Next]_vars => TypeOK' /\ TxtRecordsAccounted'
<1> SUFFICES ASSUME TypeOK, TxtRecordsAccounted, [Next]_vars
             PROVE  TypeOK' /\ TxtRecordsAccounted'
    OBVIOUS
<1>1. config \in Configs
    BY DEF TypeOK
<1> QED
    BY <1>1, TaskStep, DiskStep, ZoneStep, RestStep DEF TypeOK

LEMMA TypeInit == Init => TypeOK /\ TxtRecordsAccounted
<1> SUFFICES ASSUME Init PROVE TypeOK /\ TxtRecordsAccounted
    OBVIOUS
<1>1. disk \in Disks /\ issued \in Nat
    BY DEF Init, Disks, Files, NoFile
<1>2. zone \in Zones /\ TxtRecordsAccounted
    BY DEF Init, Zones, TxtRecordsAccounted
<1>3. task \in Tasks
    BY CertBounds, Marks, PlaceNames DEF Init, Tasks
<1> QED
    BY <1>1, <1>2, <1>3, CertBounds, Marks DEF Init, TypeOK

(* Every behaviour accounts for its TXT records: however many attempts     *)
(* fail, crash or are cut short by a shutdown, the records left in the     *)
(* zone are the running attempt's own and those whose deletion or whose    *)
(* answer was lost (tls.rs provision_wildcard_cert, dns.rs                 *)
(* delete_records).                                                        *)
THEOREM NoRecordForgotten == Spec => []TxtRecordsAccounted
<1>1. TypeOK /\ TxtRecordsAccounted /\ [Next]_vars => TypeOK' /\ TxtRecordsAccounted'
    BY TypeStep
<1> QED
    BY TypeInit, <1>1, PTL DEF Spec

-----------------------------------------------------------------------------
(***************************************************************************)
(* What is served.                                                         *)
(***************************************************************************)
LEMMA LoadCases ==
  ASSUME NEW d \in Disks
  PROVE  LET l == load_from_files(d) IN
         IF d.cert = d.key /\ d.cert \notin {NoFile, Torn}
         THEN l # NoPair /\ l.cert = d.cert /\ l.key = d.cert
         ELSE l = NoPair
BY DEF load_from_files, Pair, NoPair, NoFile, Torn, Disks, Files

LEMMA NoPairIsZero == NoPair.cert = 0 /\ NoPair.key = 0
BY DEF NoPair, Pair, NoFile

(* A managed server loads nothing but the pair on disk.                    *)
LEMMA ManagedLoads ==
  Managed => load_tls_config(config, disk) \in {NoPair, load_from_files(disk)}
BY DEF Managed, load_tls_config, select_tls_source

LEMMA OnlyManagedSelectsAcme ==
  ASSUME config \in Configs, select_tls_source(config, disk) = "AcmeProvision"
  PROVE  Managed
BY DEF Configs, Managed, select_tls_source

LEMMA ManagedStep ==
  TypeOK /\ OnlyManagedProvisions /\ [Next]_vars => OnlyManagedProvisions'
<1> SUFFICES ASSUME TypeOK, OnlyManagedProvisions, [Next]_vars
             PROVE  OnlyManagedProvisions'
    OBVIOUS
<1> config' = config
    BY RestStep
<1> USE DEF OnlyManagedProvisions, Managed, At
<1> task \in Tasks
    BY DEF TypeOK
<1> USE DEF Tasks
<1> SUFFICES ASSUME ~Managed PROVE task'.pc \in {"down", "idle"}
    OBVIOUS
<1>1. CASE StartFails BY <1>1 DEF StartFails, vars, process
<1>2. CASE StartLoads BY <1>2 DEF StartLoads, Serve
<1>3. CASE StartProvisions BY <1>3, OnlyManagedSelectsAcme DEF StartProvisions, TypeOK
<1>4. CASE RestoreAccount BY <1>4 DEF RestoreAccount
<1>5. CASE RestoreTornAccount BY <1>5 DEF RestoreTornAccount
<1>6. CASE CreateAccount BY <1>6 DEF CreateAccount
<1>7. CASE CreateAccountFails BY <1>7 DEF CreateAccountFails
<1>8. CASE NewOrder BY <1>8 DEF NewOrder
<1>9. CASE CreateTxt BY <1>9 DEF CreateTxt
<1>10. CASE CreateTxtUnanswered BY <1>10 DEF CreateTxtUnanswered
<1>11. CASE SetReady BY <1>11 DEF SetReady
<1>12. CASE StillPending BY <1>12 DEF StillPending
<1>13. CASE Finalize BY <1>13 DEF Finalize
<1>14. CASE Issued BY <1>14 DEF Issued
<1>15. CASE AlreadyValid BY <1>15 DEF AlreadyValid
<1>16. CASE Download BY <1>16 DEF Download
<1>17. CASE AcmeFails BY <1>17 DEF AcmeFails
<1>18. CASE SaveCert BY <1>18 DEF SaveCert
<1>19. CASE SaveCertFails BY <1>19 DEF SaveCertFails
<1>20. CASE SaveKey BY <1>20 DEF SaveKey
<1>21. CASE SaveKeyFails BY <1>21 DEF SaveKeyFails
<1>22. CASE LoadSaved BY <1>22 DEF LoadSaved
<1>23. CASE delete_record BY <1>23 DEF delete_record
<1>24. CASE delete_record_fails BY <1>24 DEF delete_record_fails
<1>25. CASE ProvisionedAtStart BY <1>25 DEF ProvisionedAtStart, Serve
<1>26. CASE Renewed BY <1>26 DEF Renewed
<1>27. CASE RenewalTick BY <1>27 DEF RenewalTick
<1>28. CASE AcceptHttps BY <1>28 DEF AcceptHttps
<1>29. CASE AcceptControl BY <1>29 DEF AcceptControl
<1>30. CASE Age BY <1>30 DEF Age, process
<1>31. CASE Shutdown BY <1>31 DEF Shutdown, Halt
<1>32. CASE Crash BY <1>32 DEF Crash, Halt
<1>33. CASE UNCHANGED vars BY <1>33 DEF vars, process
<1>34. QED
  BY <1>1, <1>2, <1>3, <1>4, <1>5, <1>6, <1>7, <1>8, <1>9, <1>10, <1>11,
     <1>12, <1>13, <1>14, <1>15, <1>16, <1>17, <1>18, <1>19, <1>20, <1>21,
     <1>22, <1>23, <1>24, <1>25, <1>26, <1>27, <1>28, <1>29, <1>30, <1>31,
     <1>32, <1>33
  DEF Next, Start, Succeeds, Fails

LEMMA UnmanagedStep ==
  TypeOK /\ OnlyManagedProvisions /\ UnmanagedIsConstant /\ [Next]_vars => UnmanagedIsConstant'
<1> SUFFICES ASSUME TypeOK, OnlyManagedProvisions, UnmanagedIsConstant, [Next]_vars, ~Managed
             PROVE  {watch, initial, seen}' \subseteq {NoPair, load_tls_config(config, disk)'}
    BY RestStep DEF UnmanagedIsConstant, Managed
<1> config' = config
    BY RestStep
<1> task \in Tasks /\ disk \in Disks /\ task.pc \in {"down", "idle"}
    BY DEF TypeOK, OnlyManagedProvisions
<1>d. disk' = disk
  <2>1. CASE StartFails BY <2>1 DEF StartFails, vars, process
  <2>2. CASE StartLoads BY <2>2 DEF StartLoads, TaskOnly
  <2>3. CASE StartProvisions BY <2>3 DEF StartProvisions, TaskOnly
  <2>4. CASE RestoreAccount BY <2>4 DEF RestoreAccount, TaskOnly
  <2>5. CASE RestoreTornAccount BY <2>5 DEF RestoreTornAccount, TaskOnly
  <2>6. CASE CreateAccount BY <2>6 DEF CreateAccount, At
  <2>7. CASE CreateAccountFails BY <2>7 DEF CreateAccountFails, At
  <2>8. CASE NewOrder BY <2>8 DEF NewOrder, TaskOnly
  <2>9. CASE CreateTxt BY <2>9 DEF CreateTxt, TaskOnly
  <2>10. CASE CreateTxtUnanswered BY <2>10 DEF CreateTxtUnanswered, TaskOnly
  <2>11. CASE SetReady BY <2>11 DEF SetReady, TaskOnly
  <2>12. CASE StillPending BY <2>12 DEF StillPending, TaskOnly
  <2>13. CASE Finalize BY <2>13 DEF Finalize, TaskOnly
  <2>14. CASE Issued BY <2>14 DEF Issued, TaskOnly
  <2>15. CASE AlreadyValid BY <2>15 DEF AlreadyValid, TaskOnly
  <2>16. CASE Download BY <2>16 DEF Download, TaskOnly
  <2>17. CASE AcmeFails BY <2>17 DEF AcmeFails, TaskOnly
  <2>18. CASE SaveCert BY <2>18 DEF SaveCert, At
  <2>19. CASE SaveCertFails BY <2>19 DEF SaveCertFails, At
  <2>20. CASE SaveKey BY <2>20 DEF SaveKey, At
  <2>21. CASE SaveKeyFails BY <2>21 DEF SaveKeyFails, At
  <2>22. CASE LoadSaved BY <2>22 DEF LoadSaved, TaskOnly
  <2>23. CASE delete_record BY <2>23 DEF delete_record, TaskOnly
  <2>24. CASE delete_record_fails BY <2>24 DEF delete_record_fails, TaskOnly
  <2>25. CASE ProvisionedAtStart BY <2>25 DEF ProvisionedAtStart, TaskOnly
  <2>26. CASE Renewed BY <2>26 DEF Renewed, TaskOnly
  <2>27. CASE RenewalTick BY <2>27 DEF RenewalTick, TaskOnly
  <2>28. CASE AcceptHttps BY <2>28 DEF AcceptHttps, TaskOnly
  <2>29. CASE AcceptControl BY <2>29 DEF AcceptControl, TaskOnly
  <2>30. CASE Age BY <2>30 DEF Age, process
  <2>31. CASE Shutdown BY <2>31 DEF Shutdown, Halt
  <2>32. CASE Crash BY <2>32 DEF Crash, At, Disks
  <2>33. CASE UNCHANGED vars BY <2>33 DEF vars, process
  <2> QED
    BY <2>1, <2>2, <2>3, <2>4, <2>5, <2>6, <2>7, <2>8, <2>9, <2>10,
       <2>11, <2>12, <2>13, <2>14, <2>15, <2>16, <2>17, <2>18, <2>19,
       <2>20, <2>21, <2>22, <2>23, <2>24, <2>25, <2>26, <2>27, <2>28,
       <2>29, <2>30, <2>31, <2>32, <2>33
    DEF Next, Start, Succeeds, Fails
<1> DEFINE l == load_tls_config(config, disk)
<1>l. l' = l
    BY <1>d DEF load_tls_config, select_tls_source, load_from_files
<1> {watch, initial, seen} \subseteq {NoPair, l}
    BY DEF UnmanagedIsConstant
<1> SUFFICES watch' \in {NoPair, l} /\ initial' \in {NoPair, l} /\ seen' \in {NoPair, l}
    BY <1>l
<1> HIDE DEF l
<1>1. CASE StartFails BY <1>1 DEF StartFails, vars, process
<1>2. CASE StartLoads BY <1>2 DEF StartLoads, Serve, l
<1>3. CASE StartProvisions BY <1>3 DEF StartProvisions, TaskOnly
<1>4. CASE RestoreAccount BY <1>4 DEF RestoreAccount, TaskOnly
<1>5. CASE RestoreTornAccount BY <1>5 DEF RestoreTornAccount, TaskOnly
<1>6. CASE CreateAccount BY <1>6 DEF CreateAccount, TaskOnly
<1>7. CASE CreateAccountFails BY <1>7 DEF CreateAccountFails, TaskOnly
<1>8. CASE NewOrder BY <1>8 DEF NewOrder, TaskOnly
<1>9. CASE CreateTxt BY <1>9 DEF CreateTxt, TaskOnly
<1>10. CASE CreateTxtUnanswered BY <1>10 DEF CreateTxtUnanswered, TaskOnly
<1>11. CASE SetReady BY <1>11 DEF SetReady, TaskOnly
<1>12. CASE StillPending BY <1>12 DEF StillPending, TaskOnly
<1>13. CASE Finalize BY <1>13 DEF Finalize, TaskOnly
<1>14. CASE Issued BY <1>14 DEF Issued, TaskOnly
<1>15. CASE AlreadyValid BY <1>15 DEF AlreadyValid, TaskOnly
<1>16. CASE Download BY <1>16 DEF Download, TaskOnly
<1>17. CASE AcmeFails BY <1>17 DEF AcmeFails, TaskOnly
<1>18. CASE SaveCert BY <1>18 DEF SaveCert, TaskOnly
<1>19. CASE SaveCertFails BY <1>19 DEF SaveCertFails, TaskOnly
<1>20. CASE SaveKey BY <1>20 DEF SaveKey, TaskOnly
<1>21. CASE SaveKeyFails BY <1>21 DEF SaveKeyFails, TaskOnly
<1>22. CASE LoadSaved BY <1>22 DEF LoadSaved, TaskOnly
<1>23. CASE delete_record BY <1>23 DEF delete_record, TaskOnly
<1>24. CASE delete_record_fails BY <1>24 DEF delete_record_fails, TaskOnly
<1>25. CASE ProvisionedAtStart BY <1>25 DEF ProvisionedAtStart, Serve, At
<1>26. CASE Renewed BY <1>26 DEF Renewed, At
<1>27. CASE RenewalTick BY <1>27 DEF RenewalTick, TaskOnly
<1>28. CASE AcceptHttps BY <1>28 DEF AcceptHttps, Latest
<1>29. CASE AcceptControl BY <1>29 DEF AcceptControl, Latest
<1>30. CASE Age BY <1>30 DEF Age, process
<1>31. CASE Shutdown BY <1>31 DEF Shutdown, Halt
<1>32. CASE Crash BY <1>32 DEF Crash, Halt
<1>33. CASE UNCHANGED vars BY <1>33 DEF vars, process
<1>34. QED
  BY <1>1, <1>2, <1>3, <1>4, <1>5, <1>6, <1>7, <1>8, <1>9, <1>10, <1>11,
     <1>12, <1>13, <1>14, <1>15, <1>16, <1>17, <1>18, <1>19, <1>20, <1>21,
     <1>22, <1>23, <1>24, <1>25, <1>26, <1>27, <1>28, <1>29, <1>30, <1>31,
     <1>32, <1>33
  DEF Next, Start, Succeeds, Fails

LEMMA DiskChainStep ==
  TypeOK /\ DiskOK /\ ChainOK /\ [Next]_vars => DiskOK' /\ ChainOK'
<1> SUFFICES ASSUME TypeOK, DiskOK, ChainOK, [Next]_vars PROVE DiskOK' /\ ChainOK'
    OBVIOUS
<1> task \in Tasks /\ disk \in Disks /\ issued \in Nat
    BY DEF TypeOK
<1> USE DEF DiskOK, ChainOK, Tasks, Disks, At, NoFile, Torn, Stranger, Unpaired
<1>1. CASE StartFails BY <1>1 DEF StartFails, vars, process
<1>2. CASE StartLoads BY <1>2 DEF StartLoads, Serve
<1>3. CASE StartProvisions BY <1>3 DEF StartProvisions
<1>4. CASE RestoreAccount BY <1>4 DEF RestoreAccount, Goto, TaskOnly
<1>5. CASE RestoreTornAccount BY <1>5 DEF RestoreTornAccount, Cleanup, TaskOnly
<1>6. CASE CreateAccount BY <1>6 DEF CreateAccount, Goto
<1>7. CASE CreateAccountFails BY <1>7 DEF CreateAccountFails, Cleanup
<1>8. CASE NewOrder BY <1>8 DEF NewOrder, Goto, TaskOnly
<1>9. CASE CreateTxt BY <1>9 DEF CreateTxt
<1>10. CASE CreateTxtUnanswered BY <1>10 DEF CreateTxtUnanswered, Cleanup
<1>11. CASE SetReady BY <1>11 DEF SetReady, Goto, TaskOnly
<1>12. CASE StillPending BY <1>12 DEF StillPending, TaskOnly
<1>13. CASE Finalize BY <1>13 DEF Finalize, Goto, TaskOnly
<1>14. CASE Issued BY <1>14 DEF Issued
<1>15. CASE AlreadyValid BY <1>15 DEF AlreadyValid, TaskOnly
<1>16. CASE Download BY <1>16 DEF Download, Goto, TaskOnly
<1>17. CASE AcmeFails BY <1>17 DEF AcmeFails, Cleanup, TaskOnly
<1>18. CASE SaveCert BY <1>18 DEF SaveCert, Goto
<1>19. CASE SaveCertFails BY <1>19 DEF SaveCertFails, Cleanup
<1>20. CASE SaveKey BY <1>20 DEF SaveKey, Goto, KeyOf
<1>21. CASE SaveKeyFails BY <1>21 DEF SaveKeyFails, Cleanup, KeyOf
<1>22. CASE LoadSaved BY <1>22 DEF LoadSaved, Cleanup, TaskOnly
<1>23. CASE delete_record BY <1>23 DEF delete_record
<1>24. CASE delete_record_fails BY <1>24 DEF delete_record_fails
<1>25. CASE ProvisionedAtStart BY <1>25 DEF ProvisionedAtStart, Serve
<1>26. CASE Renewed BY <1>26 DEF Renewed
<1>27. CASE RenewalTick BY <1>27 DEF RenewalTick, Goto, TaskOnly
<1>28. CASE AcceptHttps BY <1>28 DEF AcceptHttps
<1>29. CASE AcceptControl BY <1>29 DEF AcceptControl
<1>30. CASE Age BY <1>30 DEF Age, process
<1>31. CASE Shutdown BY <1>31 DEF Shutdown, Halt
<1>32. CASE Crash BY <1>32 DEF Crash, Halt
<1>33. CASE UNCHANGED vars BY <1>33 DEF vars, process
<1>34. QED
  BY <1>1, <1>2, <1>3, <1>4, <1>5, <1>6, <1>7, <1>8, <1>9, <1>10, <1>11,
     <1>12, <1>13, <1>14, <1>15, <1>16, <1>17, <1>18, <1>19, <1>20, <1>21,
     <1>22, <1>23, <1>24, <1>25, <1>26, <1>27, <1>28, <1>29, <1>30, <1>31,
     <1>32, <1>33
  DEF Next, Start, Succeeds, Fails

(* Nothing that the order of the pairs speaks of changes. *)
PairsUntouched ==
  /\ UNCHANGED <<config, disk, watch, initial, seen, issued>>
  /\ task'.result = task.result

LEMMA UntouchedStaysInOrder == PairsInOrder /\ PairsUntouched => PairsInOrder'
BY DEF PairsInOrder, PairsUntouched, Managed, IssuedOrNone, load_from_files

(* The same for the pairs alone: they stay in order when the pair on disk  *)
(* stays, cannot be loaded any more, or is the one issued last.            *)
LEMMA NewDiskStaysInOrder ==
  ASSUME TypeOK, disk' \in Disks, PairsInOrder,
         UNCHANGED <<config, watch, initial, seen, issued>>,
         task'.result \in {task.result, NoPair},
         \/ disk'.cert = disk.cert /\ disk'.key = disk.key
         \/ load_from_files(disk') = NoPair
         \/ disk'.cert = issued
  PROVE  PairsInOrder'
<1> SUFFICES ASSUME Managed PROVE PairsInOrder'
    BY DEF PairsInOrder, Managed
<1>0. disk \in Disks /\ issued \in Nat
    BY DEF TypeOK
<1>1. /\ IssuedOrNone(watch) /\ IssuedOrNone(initial)
      /\ IssuedOrNone(seen) /\ IssuedOrNone(task.result)
    BY DEF PairsInOrder
<1>2. /\ IssuedOrNone(watch)' /\ IssuedOrNone(initial)'
      /\ IssuedOrNone(seen)' /\ IssuedOrNone(task.result)'
    BY <1>1 DEF IssuedOrNone
<1>3. seen.cert \in 0..issued /\ watch.cert <= issued /\ task.result.cert <= issued
    BY <1>0, <1>1, NoPairIsZero DEF IssuedOrNone
<1>4. /\ initial # NoPair <=> watch # NoPair
      /\ watch # NoPair => seen.cert <= watch.cert
      /\ task.result # NoPair =>
           seen.cert <= task.result.cert /\ watch.cert <= task.result.cert
    BY DEF PairsInOrder
<1>5. ASSUME load_from_files(disk') # NoPair
      PROVE  /\ seen.cert <= disk'.cert /\ watch.cert <= disk'.cert
             /\ task'.result.cert <= disk'.cert
  <2>1. CASE disk'.cert = disk.cert /\ disk'.key = disk.key
    <3>1. load_from_files(disk) # NoPair
        BY <1>5, <2>1, <1>0, LoadCases
    <3>2. /\ seen.cert <= disk.cert /\ watch.cert <= disk.cert
          /\ task.result.cert <= disk.cert /\ disk.cert \notin {NoFile, Torn}
        BY <3>1, <1>0, LoadCases DEF PairsInOrder
    <3>3. 0 <= disk.cert
        BY <3>2, <1>0, <1>3 DEF Disks, Files, NoFile, Torn, Stranger, Unpaired
    <3> QED
        BY <3>2, <3>3, <2>1, NoPairIsZero
  <2>2. CASE disk'.cert = issued
      BY <2>2, <1>0, <1>3, NoPairIsZero
  <2> QED
      BY <1>5, <2>1, <2>2
<1> QED
    BY <1>2, <1>4, <1>5 DEF PairsInOrder

(* The pair a starting server serves, with the ones presented before.      *)
LEMMA ServedStaysInOrder ==
  ASSUME TypeOK, PairsInOrder, Managed, NEW l, l # NoPair, IssuedOrNone(l),
         seen.cert <= l.cert, load_from_files(disk) # NoPair => l.cert <= disk.cert,
         UNCHANGED <<config, disk, seen, issued>>, task'.result = NoPair,
         watch' = l, initial' = l
  PROVE  PairsInOrder'
<1>0. disk \in Disks /\ issued \in Nat
    BY DEF TypeOK
<1>1. load_from_files(disk)' = load_from_files(disk)
    BY DEF load_from_files
<1>2. l.cert \in 1..issued
    BY DEF IssuedOrNone
<1>3. IssuedOrNone(watch)' /\ IssuedOrNone(seen)' /\ IssuedOrNone(NoPair)'
    BY DEF IssuedOrNone, PairsInOrder
<1>4. ASSUME load_from_files(disk) # NoPair
      PROVE  disk.cert >= 0 /\ seen.cert <= disk.cert
    BY <1>0, <1>2, <1>4 DEF PairsInOrder, Disks, Files, NoFile, Torn, Stranger, Unpaired
<1> QED
    BY <1>1, <1>2, <1>3, <1>4, NoPairIsZero DEF PairsInOrder

LEMMA PairsStep ==
  CertInv /\ [Next]_vars => PairsInOrder'
<1> SUFFICES ASSUME CertInv, [Next]_vars, Managed PROVE PairsInOrder'
    BY RestStep DEF CertInv, PairsInOrder, Managed
<1> TypeOK /\ DiskOK /\ ChainOK /\ PairsInOrder
    BY DEF CertInv
<1> task \in Tasks /\ disk \in Disks /\ issued \in Nat /\ disk' \in Disks
    BY DiskStep DEF TypeOK
<1>load. \/ load_from_files(disk) = NoPair
         \/ /\ load_from_files(disk) # NoPair
            /\ load_from_files(disk).cert = disk.cert
            /\ load_from_files(disk).key = disk.cert
            /\ disk.cert \in 1..issued
    BY LoadCases DEF DiskOK, NoFile, Torn, Unpaired, Stranger
<1>same. ASSUME PairsUntouched PROVE PairsInOrder'
    BY <1>same, UntouchedStaysInOrder
<1>disk. ASSUME UNCHANGED <<config, watch, initial, seen, issued>>,
                task'.result \in {task.result, NoPair},
                \/ disk'.cert = disk.cert /\ disk'.key = disk.key
                \/ load_from_files(disk') = NoPair
                \/ disk'.cert = issued
         PROVE  PairsInOrder'
    BY <1>disk, NewDiskStaysInOrder
<1> USE DEF Tasks, At
<1>present. ASSUME UNCHANGED <<config, disk, watch, initial, issued, task>>,
                   initial # NoPair, seen' = Latest
            PROVE  PairsInOrder'
  <2>1. seen' = watch /\ watch # NoPair
      BY <1>present DEF Latest, PairsInOrder
  <2>2. load_from_files(disk)' = load_from_files(disk)
      BY <1>present DEF load_from_files
  <2>3. watch.cert \in 1..issued
      BY <2>1 DEF PairsInOrder, IssuedOrNone
  <2> QED
      BY <1>present, <2>1, <2>2, <2>3 DEF PairsInOrder, IssuedOrNone
<1>halt. ASSUME UNCHANGED <<config, seen, issued>>,
                watch' = NoPair, initial' = NoPair, task'.result = NoPair,
                \/ disk'.cert = disk.cert /\ disk'.key = disk.key
                \/ disk'.cert = Torn \/ disk'.key = Torn
         PROVE  PairsInOrder'
  <2>1. ASSUME load_from_files(disk') # NoPair
        PROVE  /\ load_from_files(disk) # NoPair /\ disk'.cert = disk.cert
               /\ disk.cert \in 1..issued
      BY <1>halt, <2>1, <1>load, LoadCases
  <2>2. IssuedOrNone(NoPair)' /\ IssuedOrNone(seen)'
      BY <1>halt DEF PairsInOrder, IssuedOrNone
  <2> QED
      BY <1>halt, <2>1, <2>2, NoPairIsZero DEF PairsInOrder
<1>1. CASE StartFails BY <1>1, <1>same DEF StartFails, PairsUntouched, vars, process
<1>2. CASE StartLoads
  <2> DEFINE l == load_tls_config(config, disk)
  <2>1. l = load_from_files(disk) /\ l # NoPair
      BY <1>2, ManagedLoads DEF StartLoads
  <2>2. /\ UNCHANGED <<config, disk, seen, issued>> /\ task'.result = NoPair
        /\ watch' = l /\ initial' = l
      BY <1>2 DEF StartLoads, Serve
  <2>3. IssuedOrNone(l)
      BY <2>1, <1>load DEF IssuedOrNone
  <2>4. seen.cert <= l.cert /\ l.cert <= disk.cert
      BY <2>1, <1>load DEF PairsInOrder
  <2> HIDE DEF l
  <2> QED
      BY <2>1, <2>2, <2>3, <2>4, ServedStaysInOrder
<1>3. CASE StartProvisions BY <1>3, <1>same DEF StartProvisions, PairsUntouched
<1>4. CASE RestoreAccount BY <1>4, <1>same DEF RestoreAccount, PairsUntouched, Goto, TaskOnly
<1>5. CASE RestoreTornAccount BY <1>5, <1>disk DEF RestoreTornAccount, Cleanup, TaskOnly
<1>6. CASE CreateAccount BY <1>6, <1>disk DEF CreateAccount, Goto, Disks
<1>7. CASE CreateAccountFails BY <1>7, <1>disk DEF CreateAccountFails, Cleanup, Disks
<1>8. CASE NewOrder BY <1>8, <1>same DEF NewOrder, PairsUntouched, Goto, TaskOnly
<1>9. CASE CreateTxt BY <1>9, <1>same DEF CreateTxt, PairsUntouched
<1>10. CASE CreateTxtUnanswered BY <1>10, <1>disk DEF CreateTxtUnanswered, Cleanup
<1>11. CASE SetReady BY <1>11, <1>same DEF SetReady, PairsUntouched, Goto, TaskOnly
<1>12. CASE StillPending BY <1>12, <1>same DEF StillPending, PairsUntouched, TaskOnly
<1>13. CASE Finalize BY <1>13, <1>same DEF Finalize, PairsUntouched, Goto, TaskOnly
<1>14. CASE Issued
  <2>1. UNCHANGED <<config, disk, watch, initial, seen>> /\ task'.result = task.result
      BY <1>14 DEF Issued
  <2>2. \A p : IssuedOrNone(p) => IssuedOrNone(p)'
      BY <1>14 DEF Issued, IssuedOrNone
  <2> QED
      BY <2>1, <2>2 DEF PairsInOrder, Managed
<1>15. CASE AlreadyValid BY <1>15, <1>same DEF AlreadyValid, PairsUntouched, TaskOnly
<1>16. CASE Download BY <1>16, <1>same DEF Download, PairsUntouched, Goto, TaskOnly
<1>17. CASE AcmeFails BY <1>17, <1>disk DEF AcmeFails, Cleanup, TaskOnly
<1>18. CASE SaveCert
  <2>1. disk'.cert = issued \/ (disk'.cert = Stranger /\ disk'.key = disk.key)
      BY <1>18 DEF SaveCert, Disks, ChainOK
  <2>2. \/ disk'.cert = disk.cert /\ disk'.key = disk.key
        \/ load_from_files(disk') = NoPair
        \/ disk'.cert = issued
      BY <2>1, LoadCases DEF DiskOK, NoFile, Torn, Unpaired, Stranger
  <2> QED
      BY <1>18, <2>2, <1>disk DEF SaveCert, Goto
<1>19. CASE SaveCertFails
  <2>1. disk'.cert = Torn \/ (disk'.cert = disk.cert /\ disk'.key = disk.key)
      BY <1>19 DEF SaveCertFails, Disks, ChainOK
  <2>2. \/ disk'.cert = disk.cert /\ disk'.key = disk.key
        \/ load_from_files(disk') = NoPair
        \/ disk'.cert = issued
      BY <2>1, LoadCases DEF DiskOK, NoFile, Torn, Unpaired, Stranger
  <2> QED
      BY <1>19, <2>2, <1>disk DEF SaveCertFails, Cleanup
<1>20. CASE SaveKey
  <2>1. disk'.cert = disk.cert /\ disk'.key \in {issued, Unpaired}
      BY <1>20 DEF SaveKey, Disks, ChainOK, KeyOf
  <2>2. \/ disk'.cert = disk.cert /\ disk'.key = disk.key
        \/ load_from_files(disk') = NoPair
        \/ disk'.cert = issued
      BY <2>1, LoadCases DEF DiskOK, NoFile, Torn, Unpaired, Stranger
  <2> QED
      BY <1>20, <2>2, <1>disk DEF SaveKey, Goto
<1>21. CASE SaveKeyFails
  <2>1. disk'.cert = disk.cert /\ disk'.key \in {disk.key, issued, Unpaired, Torn}
      BY <1>21 DEF SaveKeyFails, Disks, ChainOK, KeyOf
  <2>2. \/ disk'.cert = disk.cert /\ disk'.key = disk.key
        \/ load_from_files(disk') = NoPair
        \/ disk'.cert = issued
      BY <2>1, LoadCases DEF DiskOK, NoFile, Torn, Unpaired, Stranger
  <2> QED
      BY <1>21, <2>2, <1>disk DEF SaveKeyFails, Cleanup
<1>22. CASE LoadSaved
  <2>1. /\ UNCHANGED <<config, disk, watch, initial, seen, issued>>
        /\ task'.result = load_from_files(disk)
      BY <1>22 DEF LoadSaved, Cleanup, TaskOnly
  <2>2. task'.result = NoPair \/ task'.result.cert = disk.cert
      BY <2>1, <1>load
  <2>3. IssuedOrNone(task.result)'
      BY <2>1, <1>load DEF IssuedOrNone
  <2>4. /\ IssuedOrNone(watch)' /\ IssuedOrNone(initial)' /\ IssuedOrNone(seen)'
        /\ load_from_files(disk)' = load_from_files(disk)
      BY <2>1 DEF PairsInOrder, IssuedOrNone, load_from_files
  <2> QED
      BY <2>1, <2>2, <2>3, <2>4, <1>load, NoPairIsZero DEF PairsInOrder
<1>23. CASE delete_record BY <1>23, <1>same DEF delete_record, PairsUntouched
<1>24. CASE delete_record_fails BY <1>24, <1>same DEF delete_record_fails, PairsUntouched
<1>25. CASE ProvisionedAtStart
  <2>1. CASE task.result # NoPair
    <3>1. /\ UNCHANGED <<config, disk, seen, issued>> /\ task'.result = NoPair
          /\ watch' = task.result /\ initial' = task.result
        BY <1>25, <2>1 DEF ProvisionedAtStart, Serve
    <3> QED
        BY <2>1, <3>1, ServedStaysInOrder DEF PairsInOrder
  <2>2. CASE task.result = NoPair
      BY <1>25, <2>2, <1>same DEF ProvisionedAtStart, PairsUntouched
  <2> QED
      BY <2>1, <2>2
<1>26. CASE Renewed
  <2>1. /\ UNCHANGED <<config, disk, initial, seen, issued>> /\ task'.result = NoPair
        /\ initial # NoPair
        /\ watch' = IF task.result # NoPair THEN task.result ELSE watch
      BY <1>26 DEF Renewed, Up
  <2>2. load_from_files(disk)' = load_from_files(disk)
      BY <2>1 DEF load_from_files
  <2>3. CASE task.result # NoPair
      BY <2>1, <2>2, <2>3, <1>load, NoPairIsZero DEF PairsInOrder, IssuedOrNone
  <2>4. CASE task.result = NoPair
      BY <2>1, <2>2, <2>4, <1>load, NoPairIsZero DEF PairsInOrder, IssuedOrNone
  <2> QED
      BY <2>3, <2>4
<1>27. CASE RenewalTick BY <1>27, <1>same DEF RenewalTick, PairsUntouched, Goto, TaskOnly
<1>28. CASE AcceptHttps
  <2>1. /\ UNCHANGED <<config, disk, watch, initial, issued, task>>
        /\ initial # NoPair /\ seen' = Latest
      BY <1>28 DEF AcceptHttps, Up
  <2> QED
      BY <2>1, <1>present
<1>29. CASE AcceptControl
  <2>1. /\ UNCHANGED <<config, disk, watch, initial, issued, task>>
        /\ initial # NoPair /\ seen' = Latest
      BY <1>29 DEF AcceptControl, Up
  <2> QED
      BY <2>1, <1>present
<1>30. CASE Age BY <1>30, <1>same DEF Age, PairsUntouched, process
<1>31. CASE Shutdown
  <2>1. /\ UNCHANGED <<config, seen, issued>>
        /\ watch' = NoPair /\ initial' = NoPair /\ task'.result = NoPair
      BY <1>31 DEF Shutdown, Halt
  <2>2. \/ disk'.cert = disk.cert /\ disk'.key = disk.key
        \/ disk'.cert = Torn \/ disk'.key = Torn
      BY <1>31 DEF Shutdown, Disks
  <2> QED
      BY <2>1, <2>2, <1>halt
<1>32. CASE Crash
  <2>1. /\ UNCHANGED <<config, seen, issued>>
        /\ watch' = NoPair /\ initial' = NoPair /\ task'.result = NoPair
      BY <1>32 DEF Crash, Halt
  <2>2. \/ disk'.cert = disk.cert /\ disk'.key = disk.key
        \/ disk'.cert = Torn \/ disk'.key = Torn
      BY <1>32 DEF Crash, Disks
  <2> QED
      BY <2>1, <2>2, <1>halt
<1>33. CASE UNCHANGED vars BY <1>33, <1>same DEF PairsUntouched, vars, process
<1>34. QED
  BY <1>1, <1>2, <1>3, <1>4, <1>5, <1>6, <1>7, <1>8, <1>9, <1>10, <1>11,
     <1>12, <1>13, <1>14, <1>15, <1>16, <1>17, <1>18, <1>19, <1>20, <1>21,
     <1>22, <1>23, <1>24, <1>25, <1>26, <1>27, <1>28, <1>29, <1>30, <1>31,
     <1>32, <1>33
  DEF Next, Start, Succeeds, Fails

LEMMA CertInvHolds == Spec => [](CertInv /\ TxtRecordsAccounted)
<1>1. Init => CertInv
  <2> SUFFICES ASSUME Init PROVE CertInv
      OBVIOUS
  <2>1. TypeOK
      BY TypeInit
  <2>2. OnlyManagedProvisions /\ ChainOK
      BY DEF Init, OnlyManagedProvisions, ChainOK
  <2>3. UnmanagedIsConstant
      BY DEF Init, UnmanagedIsConstant
  <2>4. DiskOK
      BY DEF Init, DiskOK
  <2>5. issued \in Nat /\ disk \in Disks /\ (load_from_files(disk) # NoPair => disk.cert = 1)
      BY <2>1, LoadCases DEF Init, TypeOK, NoFile
  <2>6. watch = NoPair /\ initial = NoPair /\ seen = NoPair /\ task.result = NoPair
      BY DEF Init
  <2>7. PairsInOrder
      BY <2>5, <2>6, NoPairIsZero DEF PairsInOrder, IssuedOrNone
  <2> QED
      BY <2>1, <2>2, <2>3, <2>4, <2>7 DEF CertInv
<1>2. CertInv /\ TxtRecordsAccounted /\ [Next]_vars => CertInv' /\ TxtRecordsAccounted'
    BY TypeStep, ManagedStep, UnmanagedStep, DiskChainStep, PairsStep DEF CertInv
<1> QED
    BY TypeInit, <1>1, <1>2, PTL DEF Spec

(* What is presented is a certificate with its own key.                    *)
LEMMA LatestIsLoaded ==
  ASSUME CertInv, Up
  PROVE  IF Managed THEN Latest = watch /\ watch # NoPair
         ELSE Latest = load_tls_config(config, disk) /\ Latest # NoPair
BY DEF CertInv, PairsInOrder, UnmanagedIsConstant, Up, Latest

(* A connection is never accepted with a certificate and the key of        *)
(* another, a torn file or no pair at all: for every configuration and     *)
(* any sequence of failed saves, crashes and restarts (tls.rs              *)
(* load_from_files, cert_renewal_loop, main.rs).                           *)
THEOREM ServesMatchingPairs == Spec => []ServedPairsMatch
<1>1. CertInv => ServedPairsMatch
  <2> SUFFICES ASSUME CertInv, Up
               PROVE  Latest.cert = Latest.key /\ Latest.cert \notin {NoFile, Torn, Stranger}
      BY DEF ServedPairsMatch
  <2>0. disk \in Disks
      BY DEF CertInv, TypeOK
  <2>1. CASE Managed
    <3>1. IssuedOrNone(Latest) /\ Latest # NoPair
        BY <2>1, LatestIsLoaded DEF CertInv, PairsInOrder
    <3> QED
        BY <3>1 DEF IssuedOrNone, NoFile, Torn, Stranger
  <2>2. CASE ~Managed
    <3>1. Latest = load_tls_config(config, disk) /\ Latest # NoPair
        BY <2>2, LatestIsLoaded
    <3>2. Latest \in {Pair(Byo, Byo), generate_self_signed, load_from_files(disk)}
        BY <3>1 DEF load_tls_config
    <3>3. CASE Latest = load_from_files(disk)
      <4>1. Latest.cert = disk.cert /\ Latest.key = disk.cert /\ disk.cert = disk.key
            /\ disk.cert \notin {NoFile, Torn}
          BY <2>0, <3>1, <3>3, LoadCases
      <4>2. disk.cert # Stranger
          BY <4>1 DEF CertInv, DiskOK, NoFile, Torn, Stranger, Unpaired
      <4> QED
          BY <4>1, <4>2
    <3>4. CASE Latest \in {Pair(Byo, Byo), generate_self_signed}
        BY <3>4 DEF Pair, generate_self_signed, Byo, SelfSigned, NoFile, Torn, Stranger
    <3> QED
        BY <3>2, <3>3, <3>4
  <2> QED
      BY <2>1, <2>2
<1> QED
    BY CertInvHolds, <1>1, PTL

(* The certificate presented never goes back to an older one, whatever     *)
(* fails between two connections and however often the process is started  *)
(* again: it is saved before it is served, and what is saved is what the   *)
(* next start loads (tls.rs provision_wildcard_cert, save_cert).           *)
THEOREM RenewalNeverReverts == Spec => NeverBack
<1>1. CertInv /\ [Next]_vars => [seen # NoPair => seen'.cert >= seen.cert]_seen
  <2> SUFFICES ASSUME CertInv, [Next]_vars, seen' # seen, seen # NoPair
               PROVE  seen'.cert >= seen.cert
      OBVIOUS
  <2>1. Up /\ seen' = Latest
    <3>1. CASE StartFails BY <3>1 DEF StartFails, vars, process
    <3>2. CASE StartLoads BY <3>2 DEF StartLoads, TaskOnly
    <3>3. CASE StartProvisions BY <3>3 DEF StartProvisions, TaskOnly
    <3>4. CASE RestoreAccount BY <3>4 DEF RestoreAccount, TaskOnly
    <3>5. CASE RestoreTornAccount BY <3>5 DEF RestoreTornAccount, TaskOnly
    <3>6. CASE CreateAccount BY <3>6 DEF CreateAccount, TaskOnly
    <3>7. CASE CreateAccountFails BY <3>7 DEF CreateAccountFails, TaskOnly
    <3>8. CASE NewOrder BY <3>8 DEF NewOrder, TaskOnly
    <3>9. CASE CreateTxt BY <3>9 DEF CreateTxt, TaskOnly
    <3>10. CASE CreateTxtUnanswered BY <3>10 DEF CreateTxtUnanswered, TaskOnly
    <3>11. CASE SetReady BY <3>11 DEF SetReady, TaskOnly
    <3>12. CASE StillPending BY <3>12 DEF StillPending, TaskOnly
    <3>13. CASE Finalize BY <3>13 DEF Finalize, TaskOnly
    <3>14. CASE Issued BY <3>14 DEF Issued, TaskOnly
    <3>15. CASE AlreadyValid BY <3>15 DEF AlreadyValid, TaskOnly
    <3>16. CASE Download BY <3>16 DEF Download, TaskOnly
    <3>17. CASE AcmeFails BY <3>17 DEF AcmeFails, TaskOnly
    <3>18. CASE SaveCert BY <3>18 DEF SaveCert, TaskOnly
    <3>19. CASE SaveCertFails BY <3>19 DEF SaveCertFails, TaskOnly
    <3>20. CASE SaveKey BY <3>20 DEF SaveKey, TaskOnly
    <3>21. CASE SaveKeyFails BY <3>21 DEF SaveKeyFails, TaskOnly
    <3>22. CASE LoadSaved BY <3>22 DEF LoadSaved, TaskOnly
    <3>23. CASE delete_record BY <3>23 DEF delete_record, TaskOnly
    <3>24. CASE delete_record_fails BY <3>24 DEF delete_record_fails, TaskOnly
    <3>25. CASE ProvisionedAtStart BY <3>25 DEF ProvisionedAtStart, TaskOnly
    <3>26. CASE Renewed BY <3>26 DEF Renewed, TaskOnly
    <3>27. CASE RenewalTick BY <3>27 DEF RenewalTick, TaskOnly
    <3>28. CASE AcceptHttps BY <3>28 DEF AcceptHttps, TaskOnly
    <3>29. CASE AcceptControl BY <3>29 DEF AcceptControl, TaskOnly
    <3>30. CASE Age BY <3>30 DEF Age, process
    <3>31. CASE Shutdown BY <3>31 DEF Shutdown, Halt
    <3>32. CASE Crash BY <3>32 DEF Crash, Halt
    <3>33. CASE UNCHANGED vars BY <3>33 DEF vars, process
    <3> QED
      BY <3>1, <3>2, <3>3, <3>4, <3>5, <3>6, <3>7, <3>8, <3>9, <3>10,
         <3>11, <3>12, <3>13, <3>14, <3>15, <3>16, <3>17, <3>18,
         <3>19, <3>20, <3>21, <3>22, <3>23, <3>24, <3>25, <3>26,
         <3>27, <3>28, <3>29, <3>30, <3>31, <3>32, <3>33
      DEF Next, Start, Succeeds, Fails
  <2>2. CASE Managed
    <3>1. seen' = watch /\ watch # NoPair
        BY <2>1, <2>2, LatestIsLoaded
    <3>2. issued \in Nat /\ IssuedOrNone(watch) /\ IssuedOrNone(seen) /\ seen.cert <= watch.cert
        BY <2>2, <3>1 DEF CertInv, TypeOK, PairsInOrder
    <3> QED
        BY <3>1, <3>2 DEF IssuedOrNone
  <2>3. CASE ~Managed
      BY <2>1, <2>3, LatestIsLoaded DEF CertInv, UnmanagedIsConstant
  <2> QED
      BY <2>2, <2>3
<1> QED
    BY CertInvHolds, <1>1, PTL DEF Spec, NeverBack

=============================================================================
