---------------------------- MODULE MCEventLoop ----------------------------
(* Finite instances of EventLoop for TLC. *)
EXTENDS EventLoop

CONSTANTS t1, t2, t3, a, b
=============================================================================
