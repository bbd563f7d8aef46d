----------------------------- MODULE MCMessaging -----------------------------
(* A small instance of Messaging for TLC: one conversation that both sides   *)
(* read, and a second one on the same job.                                   *)
EXTENDS Messaging

CONSTANTS f1, f2

BothOfOne == {f1} \X {"client", "freelancer"}
=============================================================================
