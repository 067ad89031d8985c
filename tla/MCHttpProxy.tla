----------------------------- MODULE MCHttpProxy ----------------------------
(* Instances of HttpProxy for TLC. *)
EXTENDS HttpProxy

CONSTANTS r1, r2, p1, s1, s2, good, bad

(* A protected tunnel and an open one, registered in either order. *)
MCPassword == [s \in Sessions |-> IF s = s1 THEN good ELSE None]

=============================================================================
