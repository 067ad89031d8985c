-------------------------- MODULE MCClientReconnect -------------------------
(* Two endpoints, three connection attempts, delays 1, 2, 4 and then the   *)
(* cap of 5, which is not a power of two, as 60 is not.                    *)
EXTENDS ClientReconnect

CONSTANTS e1, e2

=============================================================================
