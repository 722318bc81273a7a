-------------------------- MODULE MCTcpConnection --------------------------
(* Finite instances of TcpConnection for TLC. *)
EXTENDS TcpConnection

CONSTANTS m1, m2, main
=============================================================================
