---------------------------- MODULE MCIdleReaper ----------------------------
(* Up to two tunnels and two visitors, an idle period of two ticks, and a  *)
(* clock that runs long enough for a second pass after the first traffic.  *)
EXTENDS IdleReaper

CONSTANTS h1, t1, v1, v2

=============================================================================
