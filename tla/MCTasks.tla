------------------------------- MODULE MCTasks -------------------------------
(* A small instance of Tasks for TLC. *)
EXTENDS Tasks
=============================================================================
