------------------------------ MODULE Treasury ------------------------------
(***************************************************************************)
(* What SkillBridge promises about money, whatever the wallets look like   *)
(* inside (src/apps/core/templates/core/terms.html:19-22): a user's coins  *)
(* are what the user started with, plus the deposits that were verified,   *)
(* minus the withdrawals that were paid, plus or minus what other users    *)
(* paid or were paid.  Coins are never created or destroyed in between.    *)
(***************************************************************************)
EXTENDS Integers

CONSTANTS
  Users,
  OpeningBalance,   \* what every new user is given
  Payments          \* the sums that can move at once, all of them positive

VARIABLES
  coins,     \* coins[u]: everything u holds, in whatever bucket
  verified,  \* verified[u]: the sum of u's verified deposits
  paid       \* paid[u]: the sum of the withdrawals paid out to u

vars == <<coins, verified, paid>>

Init ==
  /\ coins = [u \in Users |-> OpeningBalance]
  /\ verified = [u \in Users |-> 0]
  /\ paid = [u \in Users |-> 0]

Verify(u, amount) ==
  /\ coins' = [coins EXCEPT ![u] = @ + amount]
  /\ verified' = [verified EXCEPT ![u] = @ + amount]
  /\ UNCHANGED paid

\* Nobody is paid out more than what they hold.
Pay(u, amount) ==
  /\ coins[u] >= amount
  /\ coins' = [coins EXCEPT ![u] = @ - amount]
  /\ paid' = [paid EXCEPT ![u] = @ + amount]
  /\ UNCHANGED verified

Transfer(u, v, amount) ==
  /\ u # v
  /\ coins[u] >= amount
  /\ coins' = [coins EXCEPT ![u] = @ - amount, ![v] = @ + amount]
  /\ UNCHANGED <<verified, paid>>

Next ==
  \E u \in Users, amount \in Payments :
    \/ Verify(u, amount)
    \/ Pay(u, amount)
    \/ \E v \in Users : Transfer(u, v, amount)

Spec == Init /\ [][Next]_vars

=============================================================================
