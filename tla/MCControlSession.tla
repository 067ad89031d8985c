-------------------------- MODULE MCControlSession --------------------------
(* Control session instances: two public requests against a queue of two   *)
(* or three entries, so that it can be filled behind the server's back.    *)
EXTENDS ControlSession

CONSTANTS r1, r2

=============================================================================
