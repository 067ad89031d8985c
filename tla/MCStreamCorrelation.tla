------------------------ MODULE MCStreamCorrelation -------------------------
(* Three requests over the ids 0..2, from every value of the counter, so   *)
(* that the wrap to 0 lies between any two of them.  The channel has   *)
(* room for one, so that two of them wait.                                 *)
EXTENDS StreamCorrelation

CONSTANTS r1, r2, r3

=============================================================================
