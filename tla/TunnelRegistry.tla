--------------------------- MODULE TunnelRegistry ---------------------------
(***************************************************************************)
(* The tunnel registry of the rgrok server (tunnel_manager.rs) with every  *)
(* task that changes it: the control tasks that set tunnels up and tear    *)
(* them down (control.rs), the listener task of each TCP tunnel            *)
(* (control.rs, proxy.rs) and the idle reaper.                             *)
(*                                                                         *)
(* One step is one critical section of the `reservations` mutex, or one    *)
(* awaited effect between two of them, so tasks interleave exactly where   *)
(* the code lets them.                                                     *)
(***************************************************************************)
EXTENDS Integers, FiniteSets

CONSTANTS
  Conns,        \* authenticated control connections (one task each)
  Reaper,       \* the idle reaper task
  Attempts,     \* TunnelRequests; an attempt is also the Arc<TunnelSession> it builds
  ConnOf,       \* the connection that carries each attempt
  Ids, IdOf,    \* the id the client put in the request: nothing makes it unique
  Names,        \* subdomains
  PortStart, PortEnd,   \* server.tcp_port_range, half open as the code reads it
  MaxTunnels,   \* server.max_tunnels
  DnsEnabled,   \* cloudflare.per_tunnel_dns
  None

Ports == PortStart .. (PortEnd - 1)
Keys == Names \cup Ports
Closers == Conns \cup {Reaper}

ASSUME ConstantsAssumption ==
  /\ Reaper \notin Conns
  /\ ConnOf \in [Attempts -> Conns]
  /\ IdOf \in [Attempts -> Ids]
  /\ PortStart \in Nat /\ PortEnd \in Nat
  /\ MaxTunnels \in Nat
  /\ DnsEnabled \in BOOLEAN
  /\ Names \cap Ports = {}
  /\ None \notin Attempts \cup Ids \cup Keys

ASSUME FiniteAssumption == IsFiniteSet(Names)

VARIABLES
  reservations,   \* ReservationKey -> id of the owner, None when absent
  tunnels,        \* the maps `tunnels` and `tcp_tunnels`: key -> session
  active_tunnels, \* metrics gauge
  pc,             \* how far the control task is with each attempt
  key,            \* the subdomain or port of an attempt, None before it has one
  listener,       \* the listener task of a TCP attempt
  dns,            \* the DNS record of an HTTP attempt, as it is at Cloudflare
  conn,           \* the control connections
  todo,           \* sessions a closing task has still to visit
  busy,           \* the session a closing task is awaiting
  retained,       \* sessions with a background task that holds their port
  phase,          \* the idle reaper
  cancel          \* ServerState.cancel

vars == <<reservations, tunnels, active_tunnels, pc, key, listener, dns, conn,
          todo, busy, retained, phase, cancel>>

(* The socket of a TCP attempt exists from bind until the listener is dropped. *)
SocketOpen(a) == listener[a] = "open"

IsTcp(a) == key[a] \in Ports
IsHttp(a) == key[a] \in Names
Published(a) == key[a] # None /\ tunnels[key[a]] = a

TypeOK ==
  /\ reservations \in [Keys -> Ids \cup {None}]
  /\ tunnels \in [Keys -> Attempts \cup {None}]
  /\ active_tunnels \in Int
  /\ pc \in [Attempts -> {"new", "reserved", "prepared", "bound", "up", "refused"}]
  /\ key \in [Attempts -> Keys \cup {None}]
  /\ listener \in [Attempts -> {"off", "open", "dropped", "stopped", "removing", "done"}]
  /\ dns \in [Attempts -> {"none", "created", "live", "deleted", "orphan", "unanswered"}]
  /\ conn \in [Conns -> {"open", "closing", "closed"}]
  /\ todo \in [Closers -> SUBSET Attempts]
  /\ busy \in [Closers -> Attempts \cup {None}]
  /\ retained \in SUBSET Attempts
  /\ phase \in {"sleep", "http", "tcp", "stopped"}
  /\ cancel \in BOOLEAN

Init ==
  /\ reservations = [k \in Keys |-> None]
  /\ tunnels = [k \in Keys |-> None]
  /\ active_tunnels = 0
  /\ pc = [a \in Attempts |-> "new"]
  /\ key = [a \in Attempts |-> None]
  /\ listener = [a \in Attempts |-> "off"]
  /\ dns = [a \in Attempts |-> "none"]
  /\ conn = [c \in Conns |-> "open"]
  /\ todo = [x \in Closers |-> {}]
  /\ busy = [x \in Closers |-> None]
  /\ retained = {}
  /\ phase = "sleep"
  /\ cancel = FALSE

-----------------------------------------------------------------------------
(* The registry's own operations: one critical section each. *)

Used == {k \in Keys : tunnels[k] # None}
Held == {k \in Keys : reservations[k] # None}

at_capacity == Cardinality(Used) + Cardinality(Held) >= MaxTunnels

(* Mutant: only the maps are looked up. *)
FreeIgnoringReservations(k) == tunnels[k] = None

Free(k) == tunnels[k] = None /\ reservations[k] = None

(* reserve_http_tunnel, reserve_tcp_port: the name is taken under its owner's id. *)
Reserve(a, k) ==
  /\ Free(k) /\ ~at_capacity
  /\ reservations' = [reservations EXCEPT ![k] = IdOf[a]]

(* release_http_tunnel, release_tcp_port_reservation: only for the same id. *)
Release(a) ==
  reservations' = IF reservations[key[a]] = IdOf[a]
                  THEN [reservations EXCEPT ![key[a]] = None]
                  ELSE reservations

(* The checks of register_tunnel and try_register_tcp_tunnel. *)
OwnsReservation(a) == reservations[key[a]] = IdOf[a]

CanRegister(a) ==
  /\ tunnels[key[a]] = None
  /\ reservations[key[a]] # None => OwnsReservation(a)
  /\ OwnsReservation(a) \/ ~at_capacity

(* Mutant: the reservation stays behind. *)
RegisterKeepingReservation(a) ==
  /\ tunnels' = [tunnels EXCEPT ![key[a]] = a]
  /\ active_tunnels' = active_tunnels + 1
  /\ UNCHANGED reservations

(* Publishing consumes the reservation in the same critical section. *)
Register(a) ==
  /\ tunnels' = [tunnels EXCEPT ![key[a]] = a]
  /\ reservations' = [reservations EXCEPT ![key[a]] = None]
  /\ active_tunnels' = active_tunnels + 1

(* remove_tunnel_if_owner: the caller's Arc must be the published one. *)
RemoveHttp(a) ==
  /\ Published(a)
  /\ tunnels' = [tunnels EXCEPT ![key[a]] = None]
  /\ active_tunnels' = active_tunnels - 1
  /\ UNCHANGED reservations

(* Mutant: the port is free while its socket is still bound. *)
RemoveTcpFreeing(a) ==
  /\ Published(a)
  /\ tunnels' = [tunnels EXCEPT ![key[a]] = None]
  /\ active_tunnels' = active_tunnels - 1
  /\ UNCHANGED reservations

(* Mutant: whatever has the port is removed. *)
RemoveTcpAnyOwner(a) ==
  /\ tunnels[key[a]] # None
  /\ tunnels' = [tunnels EXCEPT ![key[a]] = None]
  /\ reservations' = [reservations EXCEPT ![key[a]] = IdOf[tunnels[key[a]]]]
  /\ active_tunnels' = active_tunnels - 1

(* remove_tcp_tunnel_if_owner: the entry turns back into a reservation.    *)
(* Its two cancellation tokens are cancelled here and nowhere else, so a   *)
(* session is cancelled exactly when it is up and no longer published.     *)
RemoveTcp(a) ==
  /\ Published(a)
  /\ tunnels' = [tunnels EXCEPT ![key[a]] = None]
  /\ reservations' = [reservations EXCEPT ![key[a]] = IdOf[a]]
  /\ active_tunnels' = active_tunnels - 1

Cancelled(a) == pc[a] = "up" /\ ~Published(a)

-----------------------------------------------------------------------------
(* handle_control_msg: a connection handles one request at a time.         *)

Handling(a) == pc[a] \in {"reserved", "prepared", "bound"}

AtLoop(c) == conn[c] = "open" /\ \A a \in Attempts : ConnOf[a] = c => ~Handling(a)

Accepts(a) == pc[a] = "new" /\ AtLoop(ConnOf[a])

closerVars == <<conn, todo, busy, retained, phase, cancel>>

Refuse(a) ==
  /\ pc' = [pc EXCEPT ![a] = "refused"]
  /\ UNCHANGED <<reservations, tunnels, active_tunnels, key, listener, dns>>

Admit(a, k) ==
  /\ Reserve(a, k)
  /\ pc' = [pc EXCEPT ![a] = "reserved"]
  /\ key' = [key EXCEPT ![a] = k]
  /\ UNCHANGED <<tunnels, active_tunnels, listener, dns>>

(* An invalid subdomain or a port outside the range: error 400. *)
RequestInvalid(a) == Accepts(a) /\ Refuse(a) /\ UNCHANGED closerVars

(* A requested or a generated subdomain. *)
RequestHttp(a, n) ==
  /\ Accepts(a)
  /\ IF Free(n) /\ ~at_capacity THEN Admit(a, n) ELSE Refuse(a)
  /\ UNCHANGED closerVars

RequestTcp(a, p) ==
  /\ Accepts(a)
  /\ IF Free(p) /\ ~at_capacity THEN Admit(a, p) ELSE Refuse(a)
  /\ UNCHANGED closerVars

(* No port requested: the first free one of the range. *)
FirstFree(p) == Free(p) /\ \A q \in Ports : q < p => ~Free(q)

RequestAnyTcp(a) ==
  /\ Accepts(a)
  /\ \/ \E p \in Ports : FirstFree(p) /\ Admit(a, p)
     \/ ((\A p \in Ports : ~Free(p)) \/ at_capacity) /\ Refuse(a)
  /\ UNCHANGED closerVars

(* Cloudflare carries out the POST of create_record; its answer is still   *)
(* on its way, and with it the record's id.                                *)
RecordCreated(a) ==
  /\ pc[a] = "reserved" /\ IsHttp(a) /\ DnsEnabled /\ dns[a] = "none"
  /\ dns' = [dns EXCEPT ![a] = "created"]
  /\ UNCHANGED <<reservations, tunnels, active_tunnels, pc, key, listener, closerVars>>

(* bcrypt, the DNS API or bind fails: release the reservation, then answer *)
(* with an error.  A bind fails too when the server still has the port.    *)
(* When the answer about a created record is lost, refused by              *)
(* error_for_status, no JSON or without an id, nobody knows which record   *)
(* to delete and it stays.                                                 *)
SetupFails(a) ==
  /\ pc[a] = "reserved"
  /\ Release(a)
  /\ pc' = [pc EXCEPT ![a] = "refused"]
  /\ dns' = [dns EXCEPT ![a] = IF @ = "created" THEN "unanswered" ELSE @]
  /\ UNCHANGED <<tunnels, active_tunnels, key, listener, closerVars>>

(* create_record returns the record's id, which the session keeps. *)
CreateDnsRecord(a) ==
  /\ pc[a] = "reserved" /\ IsHttp(a)
  /\ DnsEnabled => dns[a] = "created"
  /\ dns' = [dns EXCEPT ![a] = IF DnsEnabled THEN "live" ELSE @]
  /\ pc' = [pc EXCEPT ![a] = "prepared"]
  /\ UNCHANGED <<reservations, tunnels, active_tunnels, key, listener, closerVars>>

(* register_tunnel; on an error release, answer 409 and delete the record. *)
RegisterHttp(a) ==
  /\ pc[a] = "prepared"
  /\ IF CanRegister(a)
     THEN Register(a) /\ pc' = [pc EXCEPT ![a] = "up"] /\ UNCHANGED dns
     ELSE /\ Release(a)
          /\ pc' = [pc EXCEPT ![a] = "refused"]
          /\ \E d \in {"deleted", "orphan"} :
               dns' = [dns EXCEPT ![a] = IF @ = "live" THEN d ELSE @]
          /\ UNCHANGED <<tunnels, active_tunnels>>
  /\ UNCHANGED <<key, listener, closerVars>>

(* TcpListener::bind before the tunnel is published. *)
BindTcp(a) ==
  /\ pc[a] = "reserved" /\ IsTcp(a)
  /\ \A b \in Attempts : key[b] = key[a] => ~SocketOpen(b)
  /\ pc' = [pc EXCEPT ![a] = "bound"]
  /\ listener' = [listener EXCEPT ![a] = "open"]
  /\ UNCHANGED <<reservations, tunnels, active_tunnels, key, dns, closerVars>>

(* try_register_tcp_tunnel, then the listener task is spawned; on an error *)
(* the listener is dropped before the reservation is released.             *)
RegisterTcp(a) ==
  /\ pc[a] = "bound"
  /\ IF CanRegister(a)
     THEN Register(a) /\ pc' = [pc EXCEPT ![a] = "up"] /\ UNCHANGED listener
     ELSE /\ Release(a)
          /\ pc' = [pc EXCEPT ![a] = "refused"]
          /\ listener' = [listener EXCEPT ![a] = "done"]
          /\ UNCHANGED <<tunnels, active_tunnels>>
  /\ UNCHANGED <<key, dns, closerVars>>

-----------------------------------------------------------------------------
(* The listener task of a TCP tunnel. *)

setupVars == <<pc, key, dns, closerVars>>

Drop(a) ==
  /\ pc[a] = "up" /\ SocketOpen(a)
  /\ listener' = [listener EXCEPT ![a] = "dropped"]
  /\ UNCHANGED <<reservations, tunnels, active_tunnels, setupVars>>

(* serve_tcp_tunnel_on_listener returns: one of its tokens, or accept failed. *)
ListenerCancelled(a) == (Cancelled(a) \/ cancel) /\ Drop(a)
ListenerError(a) == Drop(a)

(* listener_stopped_tx.send(()) *)
ListenerSignal(a) ==
  /\ listener[a] = "dropped"
  /\ listener' = [listener EXCEPT ![a] = "stopped"]
  /\ UNCHANGED <<reservations, tunnels, active_tunnels, setupVars>>

ListenerUnregister(a) ==
  /\ listener[a] = "stopped"
  /\ \/ RemoveTcp(a) /\ listener' = [listener EXCEPT ![a] = "removing"]
     \/ /\ ~Published(a)
        /\ listener' = [listener EXCEPT ![a] = "done"]
        /\ UNCHANGED <<reservations, tunnels, active_tunnels>>
  /\ UNCHANGED setupVars

ListenerRelease(a) ==
  /\ listener[a] = "removing"
  /\ Release(a)
  /\ listener' = [listener EXCEPT ![a] = "done"]
  /\ UNCHANGED <<tunnels, active_tunnels, setupVars>>

-----------------------------------------------------------------------------
(* Closing tasks: the cleanup of handle_client, and the reaper.  Both walk *)
(* a list of sessions: HTTP tunnels first, then TCP tunnels, one at a time.*)

Turn(x, a) ==
  /\ busy[x] = None /\ a \in todo[x]
  /\ IsTcp(a) => \A b \in todo[x] : IsTcp(b)

(* Mutant: the DNS record is forgotten. *)
CloseHttpForgettingDns(x, a) ==
  /\ Turn(x, a) /\ IsHttp(a)
  /\ RemoveHttp(a)
  /\ todo' = [todo EXCEPT ![x] = @ \ {a}]
  /\ UNCHANGED <<pc, key, listener, dns, conn, busy, retained, phase, cancel>>

CloseHttp(x, a) ==
  /\ Turn(x, a) /\ IsHttp(a)
  /\ RemoveHttp(a)
  /\ todo' = [todo EXCEPT ![x] = @ \ {a}]
  /\ busy' = [busy EXCEPT ![x] = a]
  /\ UNCHANGED <<pc, key, listener, dns, conn, retained, phase, cancel>>

(* delete_dns_record: best effort. *)
DeleteDnsRecord(x) ==
  /\ busy[x] # None /\ IsHttp(busy[x])
  /\ \/ dns' = [dns EXCEPT ![busy[x]] = IF @ = "live" THEN "deleted" ELSE @]
     \/ dns' = [dns EXCEPT ![busy[x]] = IF @ = "live" THEN "orphan" ELSE @]
  /\ busy' = [busy EXCEPT ![x] = None]
  /\ UNCHANGED <<reservations, tunnels, active_tunnels, pc, key, listener, conn,
                 todo, retained, phase, cancel>>

(* shutdown_tcp_tunnel_if_owner, up to its wait for the listener. *)
CloseTcp(x, a) ==
  /\ Turn(x, a) /\ IsTcp(a)
  /\ RemoveTcp(a)
  /\ todo' = [todo EXCEPT ![x] = @ \ {a}]
  /\ busy' = [busy EXCEPT ![x] = a]
  /\ UNCHANGED <<pc, key, listener, dns, conn, retained, phase, cancel>>

(* Mutant: a tunnel that is gone already ends the whole clean-up. *)
CloseSkipReturning(x, a) ==
  /\ Turn(x, a) /\ ~Published(a)
  /\ todo' = [todo EXCEPT ![x] = {}]
  /\ UNCHANGED <<reservations, tunnels, active_tunnels, pc, key, listener, dns,
                 conn, busy, retained, phase, cancel>>

(* The session is not the owner any more: nothing to do. *)
CloseSkip(x, a) ==
  /\ Turn(x, a) /\ ~Published(a)
  /\ todo' = [todo EXCEPT ![x] = @ \ {a}]
  /\ UNCHANGED <<reservations, tunnels, active_tunnels, pc, key, listener, dns,
                 conn, busy, retained, phase, cancel>>

Stopped(a) == listener[a] \in {"stopped", "removing", "done"}

StopObserved(x) ==
  /\ busy[x] # None /\ IsTcp(busy[x]) /\ Stopped(busy[x])
  /\ Release(busy[x])
  /\ busy' = [busy EXCEPT ![x] = None]
  /\ UNCHANGED <<tunnels, active_tunnels, pc, key, listener, dns, conn, todo,
                 retained, phase, cancel>>

(* Mutant: after five seconds the port is given back, socket or not. *)
StopTimeoutReleasing(x) ==
  /\ busy[x] # None /\ IsTcp(busy[x]) /\ ~Stopped(busy[x])
  /\ Release(busy[x])
  /\ busy' = [busy EXCEPT ![x] = None]
  /\ UNCHANGED <<tunnels, active_tunnels, pc, key, listener, dns, conn, todo,
                 retained, phase, cancel>>

(* Mutant: after five seconds nobody waits any more. *)
StopTimeoutForgetting(x) ==
  /\ busy[x] # None /\ IsTcp(busy[x]) /\ ~Stopped(busy[x])
  /\ busy' = [busy EXCEPT ![x] = None]
  /\ UNCHANGED <<reservations, tunnels, active_tunnels, pc, key, listener, dns,
                 conn, todo, retained, phase, cancel>>

(* Five seconds passed: a background task takes over the port. *)
StopTimeout(x) ==
  /\ busy[x] # None /\ IsTcp(busy[x]) /\ ~Stopped(busy[x])
  /\ retained' = retained \cup {busy[x]}
  /\ busy' = [busy EXCEPT ![x] = None]
  /\ UNCHANGED <<reservations, tunnels, active_tunnels, pc, key, listener, dns,
                 conn, todo, phase, cancel>>

RetainedRelease(a) ==
  /\ a \in retained /\ Stopped(a)
  /\ Release(a)
  /\ retained' = retained \ {a}
  /\ UNCHANGED <<tunnels, active_tunnels, pc, key, listener, dns, conn, todo,
                 busy, phase, cancel>>

-----------------------------------------------------------------------------
(* handle_client leaves its loop and cleans up what it registered.         *)

EndSession(c) ==
  /\ AtLoop(c)
  /\ conn' = [conn EXCEPT ![c] = "closing"]
  /\ todo' = [todo EXCEPT ![c] = {a \in Attempts : ConnOf[a] = c /\ pc[a] = "up"}]
  /\ UNCHANGED <<reservations, tunnels, active_tunnels, pc, key, listener, dns,
                 busy, retained, phase, cancel>>

(* A read or write error, or a revoked token; or the server shuts down. *)
Disconnect(c) == EndSession(c)
ShutdownSession(c) == cancel /\ EndSession(c)

SessionClosed(c) ==
  /\ conn[c] = "closing" /\ todo[c] = {} /\ busy[c] = None
  /\ conn' = [conn EXCEPT ![c] = "closed"]
  /\ UNCHANGED <<reservations, tunnels, active_tunnels, pc, key, listener, dns,
                 todo, busy, retained, phase, cancel>>

(* reap_idle_tunnels: one scan of each map.  Which published tunnels are   *)
(* idle at the scan is any set here.                                       *)
Scan(from, to, S) ==
  /\ phase = from /\ todo[Reaper] = {} /\ busy[Reaper] = None
  /\ phase' = to
  /\ todo' = [todo EXCEPT ![Reaper] = S]
  /\ UNCHANGED <<reservations, tunnels, active_tunnels, pc, key, listener, dns,
                 conn, busy, retained, cancel>>

ReapHttp(S) == (\A a \in S : Published(a) /\ IsHttp(a)) /\ Scan("sleep", "http", S)
ReapTcp(S) == (\A a \in S : Published(a) /\ IsTcp(a)) /\ Scan("http", "tcp", S)
ReapDone == Scan("tcp", "sleep", {})
ReaperStop == cancel /\ Scan("sleep", "stopped", {})

Shutdown ==
  /\ ~cancel /\ cancel' = TRUE
  /\ UNCHANGED <<reservations, tunnels, active_tunnels, pc, key, listener, dns,
                 conn, todo, busy, retained, phase>>

-----------------------------------------------------------------------------
SetupStep(a) ==
  \/ RecordCreated(a) \/ SetupFails(a) \/ CreateDnsRecord(a) \/ RegisterHttp(a)
  \/ BindTcp(a) \/ RegisterTcp(a)

ListenerStep(a) ==
  \/ ListenerCancelled(a) \/ ListenerSignal(a)
  \/ ListenerUnregister(a) \/ ListenerRelease(a)

CloserStep(x) ==
  \/ \E a \in Attempts : CloseHttp(x, a) \/ CloseTcp(x, a) \/ CloseSkip(x, a)
  \/ DeleteDnsRecord(x) \/ StopObserved(x) \/ StopTimeout(x)

Next ==
  \/ \E a \in Attempts :
       \/ RequestInvalid(a) \/ RequestAnyTcp(a)
       \/ \E n \in Names : RequestHttp(a, n)
       \/ \E p \in Ports : RequestTcp(a, p)
       \/ SetupStep(a)
       \/ ListenerStep(a) \/ ListenerError(a)
       \/ RetainedRelease(a)
  \/ \E x \in Closers : CloserStep(x)
  \/ \E c \in Conns : Disconnect(c) \/ ShutdownSession(c) \/ SessionClosed(c)
  \/ \E S \in SUBSET Attempts : ReapHttp(S) \/ ReapTcp(S)
  \/ ReapDone \/ ReaperStop \/ Shutdown

Spec == Init /\ [][Next]_vars

(* Tokio polls every ready task again; the DNS API and bind return.  No    *)
(* client is assumed to send, to disconnect or to come back.               *)
Fairness ==
  /\ \A a \in Attempts :
       /\ WF_vars(SetupStep(a)) /\ WF_vars(ListenerStep(a))
       /\ WF_vars(RetainedRelease(a))
  /\ \A x \in Closers : WF_vars(CloserStep(x))
  /\ \A c \in Conns : WF_vars(SessionClosed(c)) /\ WF_vars(ShutdownSession(c))

FairSpec == Spec /\ Fairness

-----------------------------------------------------------------------------
(* Who is answerable for an endpoint: a request being set up, a published  *)
(* tunnel, or a TCP tunnel that is being shut down.                        *)

AwaitedBy(x, a) == busy[x] = a /\ IsTcp(a)

Stopping(a) ==
  \/ \E x \in Closers : AwaitedBy(x, a)
  \/ a \in retained
  \/ listener[a] = "removing"

Holds(a) == Handling(a) \/ Stopping(a)

OwnsEndpoint(a) == Holds(a) \/ Published(a)

LeaseMap == {p \in Attempts \X Keys : key[p[1]] = p[2] /\ OwnsEndpoint(p[1])}
SocketMap == {p \in Attempts \X Keys : key[p[1]] = p[2] /\ SocketOpen(p[1])}

Lease == INSTANCE EndpointLease WITH
  Sessions <- Attempts, Endpoints <- Keys, Max <- MaxTunnels,
  leases <- LeaseMap, sockets <- SocketMap

(* tunnel_manager.rs:503 counts in-flight reservations like active tunnels,*)
(* and remove_tcp_tunnel_if_owner turns an entry back into a reservation:  *)
(* whatever the interleaving of setups, closings and reapings, the server  *)
(* never holds more than max_tunnels endpoints.                            *)
CapacityRespected == Cardinality(Used) + Cardinality(Held) <= MaxTunnels

(* tunnel_manager.rs:353 "preventing a new registration from racing a      *)
(* still-bound socket": when a request has a port reserved and is about to *)
(* bind it, no listener of this server, dying ones included, has it open.  *)
NoRaceWithBoundSocket ==
  \A a, b \in Attempts :
    pc[a] = "reserved" /\ key[b] = key[a] => ~SocketOpen(b)

(* control.rs:556, 590: the 409 answers after a successful reservation are *)
(* unreachable.  No other task, not even one that carries the same client  *)
(* supplied id, can take or drop the reservation during the setup.         *)
ReservationGuaranteesRegistration ==
  \A a \in Attempts : pc[a] \in {"prepared", "bound"} => CanRegister(a)

(* tunnel_manager.rs:195 "A disconnected older session can otherwise       *)
(* remove a newer tunnel": a published tunnel disappears only because its  *)
(* own connection is closing, the reaper picked this very session, or its  *)
(* own listener stopped; and it is never replaced in place.                *)
RemovedForOwnReason ==
  [][\A a \in Attempts : Published(a) /\ ~Published(a)' =>
       /\ tunnels'[key[a]] = None
       /\ \/ conn[ConnOf[a]] = "closing"
          \/ a \in todo[Reaper]
          \/ listener[a] = "stopped"]_vars

(* dns.rs:35-67, and delete_dns_record after every removal (control.rs:345,*)
(* 564, tunnel_manager.rs:470): which records can be at Cloudflare.  One   *)
(* nobody failed on belongs to a request that waits for the answer about   *)
(* it, to a tunnel that is set up or published, or to a task about to      *)
(* delete it.  One without an owner is there because its deletion failed,  *)
(* after its tunnel was gone, or because the answer to its creation        *)
(* failed: then its request was refused, so no client ever got an address  *)
(* whose record the server lost track of.                                  *)
DnsRecordsAccounted ==
  \A a \in Attempts :
    /\ dns[a] = "created" => pc[a] = "reserved"
    /\ dns[a] = "live" =>
         Handling(a) \/ Published(a) \/ \E x \in Closers : busy[x] = a
    /\ dns[a] = "orphan" => pc[a] \in {"up", "refused"} /\ ~Published(a)
    /\ dns[a] = "unanswered" => pc[a] = "refused"

(* The active_tunnels gauge counts what is published, whichever of the     *)
(* three removal paths wins.                                               *)
GaugeExact == active_tunnels = Cardinality(Used)

(* Every reservation is temporary: it becomes a tunnel or is given back,   *)
(* the ports retained after the five second timeout included.  And the     *)
(* clean-up of a connection ends, though it waits for listeners, for the   *)
(* DNS API and behind the reaper.                                          *)
ReservationsAreTemporary ==
  /\ \A k \in Keys : reservations[k] # None ~> reservations[k] = None
  /\ \A c \in Conns : conn[c] = "closing" ~> conn[c] = "closed"

(* docs/rgrok-spec.md:482 "On client disconnect: remove all tunnel         *)
(* registrations": when the clean-up of handle_client has ended, none of   *)
(* the connection's tunnels, however many it had and whatever the reaper   *)
(* and the listeners did to them between its awaits, is left behind.  None *)
(* is published.  A port is still held, or its socket still open, only     *)
(* while the background task of a stop that took too long, the reaper, or  *)
(* the tunnel's own listener is giving it back, and a DNS record stays     *)
(* only while the reaper is deleting it or after a deletion that failed.   *)
ClosedFreesEverything ==
  \A a \in Attempts : conn[ConnOf[a]] = "closed" =>
    /\ ~Published(a) /\ ~Handling(a)
    /\ OwnsEndpoint(a) \/ SocketOpen(a) =>
         a \in retained \/ busy[Reaper] = a \/ listener[a] = "removing"
    /\ dns[a] \in {"created", "live"} => busy[Reaper] = a

(* The registry implements exclusive leases of endpoints. *)
ImplementsLease == Lease!Spec

-----------------------------------------------------------------------------
(* The inductive invariant behind these properties: every endpoint in use  *)
(* has exactly one session answerable for it, and one task acts for that   *)
(* session.                                                                *)

PublishedInv ==
  \A k \in Keys : tunnels[k] # None =>
    key[tunnels[k]] = k /\ pc[tunnels[k]] = "up"

SetupInv ==
  \A a \in Attempts :
    /\ Handling(a) \/ pc[a] = "up" => key[a] \in Keys
    /\ pc[a] = "prepared" => IsHttp(a)
    /\ pc[a] = "bound" => IsTcp(a)

ListenerInv ==
  \A a \in Attempts :
    /\ listener[a] # "off" => IsTcp(a)
    /\ listener[a] = "open" => pc[a] \in {"bound", "up"}
    /\ listener[a] \in {"dropped", "stopped", "removing"} => pc[a] = "up"
    /\ listener[a] = "done" => pc[a] \in {"up", "refused"}
    /\ pc[a] = "bound" => SocketOpen(a)
    /\ listener[a] = "removing" => ~Published(a)

CloserInv ==
  /\ \A x \in Closers : \A a \in todo[x] : pc[a] = "up"
  /\ \A x \in Closers : busy[x] # None =>
       /\ pc[busy[x]] = "up" /\ ~Published(busy[x])
       /\ busy[x] \notin retained /\ listener[busy[x]] # "removing"
       /\ \A y \in Closers : busy[y] = busy[x] => y = x
  /\ \A a \in retained :
       pc[a] = "up" /\ IsTcp(a) /\ ~Published(a) /\ listener[a] # "removing"

HolderInv ==
  /\ \A a \in Attempts : Holds(a) => reservations[key[a]] = IdOf[a]
  /\ \A k \in Keys : reservations[k] # None => \E a \in Attempts : Holds(a) /\ key[a] = k

ExclusiveInv ==
  \A a, b \in Attempts :
    key[a] = key[b] /\ OwnsEndpoint(a) /\ OwnsEndpoint(b) => a = b

SocketInv ==
  \A a \in Attempts : listener[a] \in {"open", "dropped"} => OwnsEndpoint(a)

(* A task that cleans up acts for its own connection. *)
CleanupInv ==
  \A c \in Conns : \A a \in todo[c] : ConnOf[a] = c /\ conn[c] = "closing"

(* What its list has to hold for the clean-up to miss nothing. *)
ClosingInv ==
  /\ \A c \in Conns : busy[c] # None => ConnOf[busy[c]] = c /\ conn[c] = "closing"
  /\ \A a \in Attempts : conn[ConnOf[a]] # "open" =>
       ~Handling(a) /\ (Published(a) => a \in todo[ConnOf[a]])

(* tunnel_manager.rs:114-418, all of it: reservations, published tunnels,  *)
(* listener tasks and closing tasks agree on who answers for an endpoint.  *)
OwnershipInv ==
  /\ PublishedInv /\ SetupInv /\ ListenerInv /\ CloserInv
  /\ HolderInv /\ ExclusiveInv /\ SocketInv /\ CleanupInv

=============================================================================
