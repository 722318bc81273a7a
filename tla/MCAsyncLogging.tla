--------------------------- MODULE MCAsyncLogging ---------------------------
(* Finite instances of AsyncLogging for TLC. *)
EXTENDS AsyncLogging

CONSTANTS l1, l2, l3, l4
=============================================================================
