------------------------------ MODULE CertStore ------------------------------
(***************************************************************************)
(* The server's certificate: selected when the process starts, loaded from *)
(* disk or obtained with ACME, saved as two files, renewed by a background *)
(* loop and handed to every new TLS connection through a watch channel     *)
(* (rgrok-server tls.rs, main.rs, dns.rs, control.rs, proxy.rs).           *)
(*                                                                         *)
(* What survives the process is the directory (`disk`) and the TXT records *)
(* of the challenges at Cloudflare (`zone`).  Everything else is lost by a *)
(* crash, which may happen between any two steps and in the middle of a    *)
(* write.  A certificate is the number of its issue; its key has the same  *)
(* number.  Time is the number of certificates that are within 30 days of  *)
(* their end: they were issued one after the other and expire in that      *)
(* order.                                                                  *)
(***************************************************************************)
EXTENDS Integers

CONSTANTS
  MaxAges,    \* bound: how many certificates come near their end
  MaxFaults,  \* bound: crashes, shutdowns and failures of disk and services
  MaxPolls    \* how often a pending order is polled (30 and 20 in the code)

ASSUME CertBounds ==
  /\ MaxAges \in Nat /\ MaxFaults \in Nat /\ MaxPolls \in Nat

VARIABLES
  config,   \* the parts of config.toml that matter here; never changes
  disk,     \* fullchain.pem, privkey.pem and acme_account.json
  zone,     \* TXT records at Cloudflare: how many there are, how many are lost
  task,     \* the task that provisions: main before it serves, then the loop
  watch,    \* the value of the tls_config watch channel
  initial,  \* the acceptor made at start, NoPair when the process is down
  seen,     \* history: the pair that was presented most recently
  issued,   \* number of certificates issued to this server
  ageing,   \* certificates 1..ageing expire within 30 days
  faults,   \* faults so far
  cut       \* history: which saves were cut short, by a failure or a crash

process == <<task, watch, initial, seen>>
vars == <<config, disk, zone, process, issued, ageing, faults, cut>>

(***************************************************************************)
(* Contents of files.  A file that was being written when the process or   *)
(* the disk failed is torn: it exists and cannot be parsed.                *)
(***************************************************************************)
NoFile     == 0
Torn       == -1
Unpaired   == -2   \* a key made for an order that was already valid
Stranger   == -3   \* the certificate of such an order: of another key
Byo        == -4   \* the operator's own files
SelfSigned == -5

Pair(c, k) == [cert |-> c, key |-> k]
NoPair == Pair(NoFile, NoFile)

Configs ==
  [byo : {"none", "half", "both"}, byoLoads : BOOLEAN,
   cloudflare : {"none", "half", "both"}, perTunnelDns : BOOLEAN,
   sound : BOOLEAN]

\* Config::validate: `sound` stands for the checks of fields that nothing
\* here depends on (secret, domain, ports, limits, the UI's token).
Validates(c) == c.sound /\ (c.perTunnelDns => c.cloudflare = "both")

\* Files of an earlier process, or none.
Init ==
  /\ config \in Configs
  /\ \/ disk = [cert |-> NoFile, key |-> NoFile, account |-> "none"] /\ issued = 0
     \/ disk = [cert |-> 1, key |-> 1, account |-> "good"] /\ issued = 1
  /\ zone = [txt |-> 0, lost |-> 0]
  /\ task = [pc |-> "down", polls |-> 0, chain |-> NoFile, ids |-> 0, result |-> NoPair]
  /\ watch = NoPair /\ initial = NoPair
  /\ seen = NoPair
  /\ ageing = 0 /\ faults = 0 /\ cut = {}

-----------------------------------------------------------------------------
(***************************************************************************)
(* Selecting and loading.                                                  *)
(***************************************************************************)
select_tls_source(c, d) ==
  CASE c.byo = "half" -> "bail"
    [] c.byo = "both" -> "BringYourOwn"
    [] c.byo = "none" /\ d.cert # NoFile /\ d.key # NoFile -> "CachedAcme"
    [] c.byo = "none" /\ (d.cert # NoFile) # (d.key # NoFile) -> "bail"
    [] OTHER -> CASE c.cloudflare = "both" -> "AcmeProvision"
                  [] c.cloudflare = "none" -> "SelfSigned"
                  [] c.cloudflare = "half" -> "bail"

load_from_files_unchecked(d) ==
  IF {d.cert, d.key} \cap {NoFile, Torn} = {} THEN Pair(d.cert, d.key) ELSE NoPair

(* Both files are read and parsed, and rustls refuses a key that is not    *)
(* the certificate's.  NoPair is an error.                                 *)
load_from_files(d) ==
  IF d.cert = d.key /\ d.cert \notin {NoFile, Torn} THEN Pair(d.cert, d.key) ELSE NoPair

generate_self_signed == Pair(SelfSigned, SelfSigned)

load_tls_config(c, d) ==
  CASE select_tls_source(c, d) = "BringYourOwn" ->
         IF c.byoLoads THEN Pair(Byo, Byo) ELSE NoPair
    [] select_tls_source(c, d) = "CachedAcme" -> load_from_files(d)
    [] select_tls_source(c, d) = "SelfSigned" -> generate_self_signed
    [] OTHER -> NoPair

Up == initial # NoPair
Fault == faults < MaxFaults /\ faults' = faults + 1

(* main, from the loaded configuration to "rgrok-server ready": the watch  *)
(* value is sent before any listener is spawned.                           *)
Serve(pair) ==
  /\ watch' = pair /\ initial' = pair
  /\ task' = [task EXCEPT !.pc = "idle", !.result = NoPair, !.chain = NoFile]

StartFails ==
  /\ task.pc = "down"
  /\ \/ ~Validates(config)
     \/ /\ select_tls_source(config, disk) # "AcmeProvision"
        /\ load_tls_config(config, disk) = NoPair
  /\ UNCHANGED vars

StartLoads ==
  /\ task.pc = "down" /\ Validates(config)
  /\ load_tls_config(config, disk) # NoPair
  /\ Serve(load_tls_config(config, disk))
  /\ UNCHANGED <<config, disk, zone, seen, issued, ageing, faults, cut>>

StartProvisions ==
  /\ task.pc = "down" /\ Validates(config)
  /\ select_tls_source(config, disk) = "AcmeProvision"
  /\ task' = [task EXCEPT !.pc = "account"]
  /\ UNCHANGED <<config, disk, zone, watch, initial, seen, issued, ageing, faults, cut>>

-----------------------------------------------------------------------------
(***************************************************************************)
(* provision_wildcard_cert_inner, for main and for the renewal loop alike. *)
(* An error ends it: the records are cleaned up and the error returned.    *)
(***************************************************************************)
At(p) == task.pc = p
Goto(p) == task' = [task EXCEPT !.pc = p, !.polls = 0]
Cleanup(result) == task' = [task EXCEPT !.pc = "cleanup", !.result = result]
TaskOnly == UNCHANGED <<config, disk, zone, watch, initial, seen, issued, ageing, cut>>

RestoreAccount ==
  /\ At("account") /\ disk.account = "good"
  /\ Goto("order")
  /\ TaskOnly /\ UNCHANGED faults

RestoreTornAccount ==
  /\ At("account") /\ disk.account = "torn"
  /\ Cleanup(NoPair)
  /\ TaskOnly /\ UNCHANGED faults

CreateAccount ==
  /\ At("account") /\ disk.account = "none"
  /\ disk' = [disk EXCEPT !.account = "good"]
  /\ Goto("order")
  /\ UNCHANGED <<config, zone, watch, initial, seen, issued, ageing, faults, cut>>

\* The write of the credentials, or the permissions after it, fail.
CreateAccountFails ==
  /\ At("account") /\ disk.account = "none" /\ Fault
  /\ \E a \in {"torn", "good"} :
       /\ disk' = [disk EXCEPT !.account = a]
       /\ cut' = IF a = "torn" THEN cut \cup {"account"} ELSE cut
  /\ Cleanup(NoPair)
  /\ UNCHANGED <<config, zone, watch, initial, seen, issued, ageing>>

NewOrder ==
  /\ At("order")
  /\ Goto("txt")
  /\ TaskOnly /\ UNCHANGED faults

\* One authorization for the wildcard and one for the domain itself.
CreateTxt ==
  /\ At("txt") /\ task.ids < 2
  /\ zone' = [zone EXCEPT !.txt = @ + 1]
  /\ task' = [task EXCEPT !.ids = @ + 1]
  /\ UNCHANGED <<config, disk, watch, initial, seen, issued, ageing, faults, cut>>

\* The record is made and the answer with its id does not arrive or parse.
CreateTxtUnanswered ==
  /\ At("txt") /\ task.ids < 2 /\ Fault
  /\ zone' = [txt |-> zone.txt + 1, lost |-> zone.lost + 1]
  /\ Cleanup(NoPair)
  /\ UNCHANGED <<config, disk, watch, initial, seen, issued, ageing, cut>>

\* The wait for propagation and set_ready on both challenges.
SetReady ==
  /\ At("txt") /\ task.ids = 2
  /\ Goto("poll")
  /\ TaskOnly /\ UNCHANGED faults

StillPending ==
  /\ task.pc \in {"poll", "issue"} /\ task.polls < MaxPolls
  /\ task' = [task EXCEPT !.polls = @ + 1]
  /\ TaskOnly /\ UNCHANGED faults

\* Ready: a new key and its CSR are sent.
Finalize ==
  /\ At("poll")
  /\ Goto("issue")
  /\ TaskOnly /\ UNCHANGED faults

Issued ==
  /\ At("issue")
  /\ issued' = issued + 1
  /\ task' = [task EXCEPT !.pc = "download", !.chain = issued + 1]
  /\ UNCHANGED <<config, disk, zone, watch, initial, seen, ageing, faults, cut>>

\* The order is valid before this process finalized it: its certificate
\* belongs to a key of an earlier attempt, while a new key is made here.
AlreadyValid ==
  /\ At("poll") /\ Fault
  /\ task' = [task EXCEPT !.pc = "download", !.chain = Stranger]
  /\ TaskOnly

Download ==
  /\ At("download")
  /\ Goto("saveCert")
  /\ TaskOnly /\ UNCHANGED faults

\* A request fails, an order is invalid, has an unexpected status, or has
\* been polled too often.
AcmeFails ==
  /\ task.pc \in {"account", "order", "txt", "poll", "issue", "download"}
  /\ ~(At("account") /\ disk.account = "torn")
  /\ Fault
  /\ Cleanup(NoPair)
  /\ TaskOnly

-----------------------------------------------------------------------------
(***************************************************************************)
(* save_cert: the certificate first, then the key, then its permissions.   *)
(* Save and load are one synchronous section of the task: a shutdown does  *)
(* not split them, a crash does.                                           *)
(***************************************************************************)
KeyOf(chain) == IF chain = Stranger THEN Unpaired ELSE chain

SaveCert ==
  /\ At("saveCert")
  /\ disk' = [disk EXCEPT !.cert = task.chain]
  /\ Goto("saveKey")
  /\ cut' = IF task.chain = Stranger THEN cut \cup {"save"} ELSE cut
  /\ UNCHANGED <<config, zone, watch, initial, seen, issued, ageing, faults>>

SaveCertFails ==
  /\ At("saveCert") /\ Fault
  /\ \E f \in {disk.cert, Torn} :
       /\ disk' = [disk EXCEPT !.cert = f]
       /\ cut' = IF f = Torn THEN cut \cup {"save"} ELSE cut
  /\ Cleanup(NoPair)
  /\ UNCHANGED <<config, zone, watch, initial, seen, issued, ageing>>

SaveKeyKeepingOld ==
  /\ At("saveKey")
  /\ disk' = [disk EXCEPT !.key = IF @ = NoFile THEN KeyOf(task.chain) ELSE @]
  /\ Goto("load")
  /\ UNCHANGED <<config, zone, watch, initial, seen, issued, ageing, faults, cut>>

SaveKey ==
  /\ At("saveKey")
  /\ disk' = [disk EXCEPT !.key = KeyOf(task.chain)]
  /\ Goto("load")
  /\ UNCHANGED <<config, zone, watch, initial, seen, issued, ageing, faults, cut>>

\* The write fails before or after truncating the file, or the file is whole
\* and its permissions cannot be set.
SaveKeyFails ==
  /\ At("saveKey") /\ Fault
  /\ \E f \in {disk.key, Torn, KeyOf(task.chain)} :
       /\ disk' = [disk EXCEPT !.key = f]
       /\ cut' = cut \cup {IF f = KeyOf(task.chain) THEN "mode" ELSE "save"}
  /\ Cleanup(NoPair)
  /\ UNCHANGED <<config, zone, watch, initial, seen, issued, ageing>>

LoadSaved ==
  /\ At("load")
  /\ Cleanup(load_from_files(disk))
  /\ TaskOnly /\ UNCHANGED faults

-----------------------------------------------------------------------------
(***************************************************************************)
(* The end of provision_wildcard_cert: every record id is tried, whatever  *)
(* happened before; a failed deletion does not change the result.          *)
(***************************************************************************)
delete_record ==
  /\ At("cleanup") /\ task.ids > 0
  /\ zone' = [zone EXCEPT !.txt = @ - 1]
  /\ task' = [task EXCEPT !.ids = @ - 1]
  /\ UNCHANGED <<config, disk, watch, initial, seen, issued, ageing, faults, cut>>

\* The record stays, or it is gone and the answer was lost.
delete_record_fails ==
  /\ At("cleanup") /\ task.ids > 0 /\ Fault
  /\ \/ zone' = [zone EXCEPT !.lost = @ + 1]
     \/ zone' = [zone EXCEPT !.txt = @ - 1]
  /\ task' = [task EXCEPT !.ids = @ - 1]
  /\ UNCHANGED <<config, disk, watch, initial, seen, issued, ageing, cut>>

\* Cleanup only after success, as with a `?` before delete_records.
CleanedUpOnlyOnSuccess == task.ids = 0 \/ task.result = NoPair

CleanedUp == task.ids = 0

\* main serves with the new pair or gives up.
ProvisionedAtStart ==
  /\ At("cleanup") /\ CleanedUp /\ ~Up
  /\ IF task.result # NoPair
     THEN Serve(task.result)
     ELSE /\ task' = [task EXCEPT !.pc = "down", !.chain = NoFile, !.ids = 0]
          /\ UNCHANGED <<watch, initial>>
  /\ UNCHANGED <<config, disk, zone, seen, issued, ageing, faults, cut>>

RenewedOrReset ==
  /\ At("cleanup") /\ CleanedUp /\ Up
  /\ watch' = task.result
  /\ task' = [task EXCEPT !.pc = "idle", !.result = NoPair, !.chain = NoFile, !.ids = 0]
  /\ UNCHANGED <<config, disk, zone, initial, seen, issued, ageing, faults, cut>>

\* The loop sends the new pair, or logs the error and waits for its next tick.
Renewed ==
  /\ At("cleanup") /\ CleanedUp /\ Up
  /\ watch' = IF task.result # NoPair THEN task.result ELSE watch
  /\ task' = [task EXCEPT !.pc = "idle", !.result = NoPair, !.chain = NoFile, !.ids = 0]
  /\ UNCHANGED <<config, disk, zone, initial, seen, issued, ageing, faults, cut>>

-----------------------------------------------------------------------------
(***************************************************************************)
(* cert_renewal_loop.  A tick that finds nothing to do changes nothing.    *)
(***************************************************************************)
\* Of a file that cannot be parsed the expiry is an error, not a yes.
cert_expires_within(f) == f \in 1..ageing

Managed == config.cloudflare = "both" /\ config.byo = "none"

RenewalTick ==
  /\ At("idle") /\ Managed
  /\ disk.cert # NoFile /\ cert_expires_within(disk.cert)
  /\ Goto("account")
  /\ TaskOnly /\ UNCHANGED faults

(***************************************************************************)
(* Connections.  An acceptor is made from the latest value for every new   *)
(* connection; without a production certificate the control port is plain. *)
(***************************************************************************)
LatestInitial == initial

Latest == IF watch # NoPair THEN watch ELSE initial

AcceptHttps ==
  /\ Up /\ seen' = Latest
  /\ UNCHANGED <<config, disk, zone, task, watch, initial, issued, ageing, faults, cut>>

AcceptControl ==
  /\ Up /\ initial # generate_self_signed
  /\ seen' = Latest
  /\ UNCHANGED <<config, disk, zone, task, watch, initial, issued, ageing, faults, cut>>

(***************************************************************************)
(* The environment: time, crashes and shutdowns.  systemd starts the       *)
(* server again (deploy/rgrok-server.service, Restart=always).             *)
(***************************************************************************)
Age ==
  /\ ageing < MaxAges /\ ageing < issued
  /\ ageing' = ageing + 1
  /\ UNCHANGED <<config, disk, zone, process, issued, faults, cut>>

Halt ==
  /\ task' = [pc |-> "down", polls |-> 0, chain |-> NoFile, ids |-> 0, result |-> NoPair]
  /\ watch' = NoPair /\ initial' = NoPair
  /\ UNCHANGED seen
  /\ zone' = [zone EXCEPT !.lost = @ + task.ids]

Synchronous == {"saveCert", "saveKey", "load"}

Shutdown ==
  /\ task.pc \notin {"down"} \cup Synchronous /\ Fault
  /\ Halt
  /\ UNCHANGED <<config, disk, issued, ageing, cut>>

Crash ==
  /\ ~At("down") /\ Fault
  /\ \E c \in {disk.cert} \cup (IF At("saveCert") THEN {Torn} ELSE {}),
        k \in {disk.key} \cup (IF At("saveKey") THEN {Torn} ELSE {}),
        a \in {disk.account} \cup
                (IF At("account") /\ disk.account = "none" THEN {"torn"} ELSE {}) :
       /\ disk' = [cert |-> c, key |-> k, account |-> a]
       /\ cut' = cut \cup (IF a # disk.account THEN {"account"} ELSE {})
                     \cup (IF c # disk.cert \/ At("saveKey") THEN {"save"} ELSE {})
  /\ Halt
  /\ UNCHANGED <<config, issued, ageing>>

-----------------------------------------------------------------------------
Start == StartFails \/ StartLoads \/ StartProvisions

Succeeds ==
  \/ RestoreAccount \/ RestoreTornAccount \/ CreateAccount \/ NewOrder
  \/ CreateTxt \/ SetReady \/ Finalize \/ Issued \/ Download
  \/ SaveCert \/ SaveKey \/ LoadSaved
  \/ delete_record \/ ProvisionedAtStart \/ Renewed

Fails ==
  \/ CreateAccountFails \/ CreateTxtUnanswered \/ AlreadyValid \/ AcmeFails
  \/ SaveCertFails \/ SaveKeyFails \/ delete_record_fails

Next ==
  \/ Start \/ Succeeds \/ Fails \/ StillPending \/ RenewalTick
  \/ AcceptHttps \/ AcceptControl
  \/ Age \/ Shutdown \/ Crash

(* The process is started again, the loop's timer ticks, and the services  *)
(* answer once they stop failing: after MaxFaults faults nothing but the   *)
(* successful step is left, however long an order was pending.             *)
Fairness == WF_vars(Start) /\ WF_vars(Succeeds) /\ WF_vars(RenewalTick)

Spec == Init /\ [][Next]_vars /\ Fairness

-----------------------------------------------------------------------------
Files == {NoFile, Torn, Stranger, Unpaired} \cup Nat
Pairs == [cert : Files \cup {Byo, SelfSigned}, key : Files \cup {Byo, SelfSigned}]
Places == {"down", "idle", "account", "order", "txt", "poll", "issue", "download",
           "saveCert", "saveKey", "load", "cleanup"}
Disks == [cert : Files, key : Files, account : {"none", "torn", "good"}]
Zones == [txt : Nat, lost : Nat]
Tasks == [pc : Places, polls : 0..MaxPolls, chain : Files, ids : 0..2, result : Pairs]

(* The files, the task's place, the channel, and the bounds.               *)
TypeOK ==
  /\ config \in Configs
  /\ disk \in Disks /\ zone \in Zones /\ task \in Tasks
  /\ watch \in Pairs /\ initial \in Pairs /\ seen \in Pairs
  /\ issued \in Nat /\ ageing \in 0..MaxAges /\ faults \in 0..MaxFaults
  /\ cut \subseteq {"save", "mode", "account"}

(* Whatever the directory holds after failures and crashes, the pair that  *)
(* connections are accepted with is a certificate and its own key: the     *)
(* load after every save and at every start refuses a mixed or torn pair   *)
(* (tls.rs load_from_files), and a running server keeps a pair to serve.   *)
ServedPairsMatch ==
  Up => Latest.cert = Latest.key /\ Latest.cert \notin {NoFile, Torn, Stranger}

(* A TXT record of a challenge is deleted at the end of every attempt,     *)
(* successful or not (tls.rs provision_wildcard_cert, dns.rs               *)
(* delete_records).  What is left in the zone once no attempt runs are     *)
(* records whose deletion failed, whose creation was never answered, or    *)
(* whose process died.                                                     *)
TxtRecordsAccounted ==
  zone.txt = zone.lost + task.ids /\ (task.pc \in {"idle", "down"} => task.ids = 0)

(* From one accepted connection to the next, across failed renewals,       *)
(* crashes and restarts, the certificate presented never goes back to an   *)
(* older one: it is saved before it is served, and a renewal that fails    *)
(* leaves the served one alone (tls.rs cert_renewal_loop).                 *)
NeverBack ==
  [][seen # NoPair => seen'.cert >= seen.cert]_seen

(* A server whose certificate comes near its end presents a renewed one in *)
(* the end, unless the process goes down or a save was cut short.  The     *)
(* exception is real: the new certificate is written first, so the next    *)
(* ticks find it "still valid" on disk and never try again while the old   *)
(* one is served.                                                          *)
DueIsReplaced ==
  (Up /\ Managed /\ cert_expires_within(Latest.cert))
    ~> (~Up \/ ~cert_expires_within(Latest.cert) \/ cut # {})

(* With a usable configuration a stopped server comes up again, whatever   *)
(* failed or crashed before, unless the crash or the failure fell into the *)
(* write of the certificate, the key or the account: then the pair on disk *)
(* is incomplete or does not match, or the account cannot be read, and     *)
(* every later start ends with an error (tls.rs:50).                       *)
ComesUp ==
  (task.pc = "down" /\ Validates(config)
     /\ (config.byo = "none" \/ (config.byo = "both" /\ config.byoLoads))
     /\ config.cloudflare # "half")
    ~> (Up \/ cut \cap {"save", "account"} # {})

=============================================================================
