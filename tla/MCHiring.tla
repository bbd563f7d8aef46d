------------------------------ MODULE MCHiring ------------------------------
(* A small instance of Hiring for TLC. *)
EXTENDS Hiring, TLC

Symmetry == Permutations(Freelancers)

\* A freeze only disables movements of the wallet: its step is checked and
\* nothing after it.
Thawed == \A u \in Users : ~ wallet[u].frozen
=============================================================================
