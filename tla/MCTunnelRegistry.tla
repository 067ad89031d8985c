-------------------------- MODULE MCTunnelRegistry --------------------------
(* Instances of TunnelRegistry for TLC. *)
EXTENDS TunnelRegistry

CONSTANTS c1, c2, a1, a2, a3, i1, i2

(* a1 and a2 come over one connection, a3 over another (a reconnecting     *)
(* client, or a stranger).  a1 and a3 carry the same client supplied id.   *)
MCConnOf == [a \in Attempts |-> IF a = a3 THEN c2 ELSE c1]
MCIdOf == [a \in Attempts |-> IF a = a2 THEN i2 ELSE i1]

=============================================================================
