------------------------------ MODULE MCPayout ------------------------------
(* A small instance of Payout for TLC. *)
EXTENDS Payout, TLC

Symmetry == Permutations(Freelancers)

\* A freeze only disables movements of the wallet: its step is checked and
\* nothing after it.
Thawed == \A u \in Users : ~ wallet[u].frozen
=============================================================================
