---------------------------- MODULE MCTimerQueue ----------------------------
(* Finite instances of TimerQueue for TLC. *)
EXTENDS TimerQueue
=============================================================================
