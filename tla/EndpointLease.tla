---------------------------- MODULE EndpointLease ---------------------------
(***************************************************************************)
(* What the tunnel registry promises about public endpoints, without       *)
(* mutexes, reservations, listener tasks or reapers: an endpoint           *)
(* (subdomain or port) is leased to at most one session at a time, at most *)
(* Max endpoints are leased, a port's socket is opened only by the session *)
(* that leases the port, and a lease ends only when its socket is gone.    *)
(***************************************************************************)
EXTENDS Integers, FiniteSets

CONSTANTS Sessions, Endpoints, Max

VARIABLES
  leases,    \* pairs <<session, endpoint>>
  sockets    \* the pairs whose socket is open

Leased == {e \in Endpoints : \E s \in Sessions : <<s, e>> \in leases}

Init == leases = {} /\ sockets = {}

(* A session takes an endpoint nobody leases, while there is room. *)
Acquire(s, e) ==
  /\ e \notin Leased
  /\ Cardinality(Leased) < Max
  /\ leases' = leases \cup {<<s, e>>}
  /\ UNCHANGED sockets

(* The holder of a port binds it; nobody else has it open. *)
Open(s, e) ==
  /\ <<s, e>> \in leases
  /\ \A t \in Sessions : <<t, e>> \notin sockets
  /\ sockets' = sockets \cup {<<s, e>>}
  /\ UNCHANGED leases

Close(s, e) ==
  /\ <<s, e>> \in sockets
  /\ sockets' = sockets \ {<<s, e>>}
  /\ UNCHANGED leases

Surrender(s, e) ==
  /\ <<s, e>> \in leases
  /\ <<s, e>> \notin sockets
  /\ leases' = leases \ {<<s, e>>}
  /\ UNCHANGED sockets

Next ==
  \E s \in Sessions, e \in Endpoints :
    Acquire(s, e) \/ Open(s, e) \/ Close(s, e) \/ Surrender(s, e)

Spec == Init /\ [][Next]_<<leases, sockets>>

=============================================================================
