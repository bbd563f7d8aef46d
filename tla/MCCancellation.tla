--------------------------- MODULE MCCancellation ---------------------------
(* A small instance of Cancellation for TLC. *)
EXTENDS Cancellation
=============================================================================
