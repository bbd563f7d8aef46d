----------------------------- MODULE MCAccounts ------------------------------
(* Two requests at a time beside the list actions and the clock. *)
EXTENDS Accounts, TLC

Symmetry == Permutations(Requests)
=============================================================================
