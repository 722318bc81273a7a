------------------------- MODULE MCEventLoopThread -------------------------
(* Finite instances of EventLoopThread for TLC. *)
EXTENDS EventLoopThread

CONSTANTS t1, t2, t3, main
=============================================================================
