----------------------------- MODULE MCWallets ------------------------------
(* A small instance of Wallets for TLC. *)
EXTENDS Wallets, TLC

Symmetry == Permutations(Users)
=============================================================================
