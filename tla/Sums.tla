-------------------------------- MODULE Sums --------------------------------
(***************************************************************************)
(* Aggregates over the rows of a table: f maps a row's key to the amount   *)
(* it contributes.                                                         *)
(***************************************************************************)
EXTENDS Integers, FiniteSetsExt

\* Sum('amount') over the rows of a table whose primary keys are 1..n.
SumTo(f, n) ==
  LET partial[i \in 0..n] == IF i = 0 THEN 0 ELSE partial[i - 1] + f[i]
  IN  partial[n]

\* The sum over a set of rows that have no numbers.
SumOver(f, S) == MapThenSumSet(LAMBDA x : f[x], S)

=============================================================================
