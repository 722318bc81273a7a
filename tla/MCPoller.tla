------------------------------ MODULE MCPoller ------------------------------
(* A finite instance of Poller for TLC. *)
EXTENDS Poller

CONSTANTS c1, c2
=============================================================================
