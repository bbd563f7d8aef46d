------------------------------- MODULE MCTeams -------------------------------
(* A small instance of Teams for TLC. *)
EXTENDS Teams
=============================================================================
