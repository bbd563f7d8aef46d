------------------------------ MODULE Settlement ------------------------------
(***************************************************************************)
(* What the completion of an agreement does to the wallets, without state: *)
(* the last part of complete_agreement_and_release_payment() of            *)
(* src/apps/agreements/services.py.                                        *)
(*                                                                         *)
(* The amount is taken from the reserved balance when that holds it, and   *)
(* afterwards the whole reserved_amount of the job is returned as if       *)
(* nothing had been taken.                                                 *)
(***************************************************************************)
EXTENDS Ledger

\* The first bucket that holds the amount, the available one if none does.
PaymentBucket(w, amount) ==
  CASE w.reserved >= amount -> "reserved"
    [] w.reserved < amount /\ w.escrow >= amount -> "escrow"
    [] OTHER -> "available"

\* Faulty variant: the payment stays on the platform, in the client's wallet.
ChargedInternally(w, amount) ==
  Moved(w, PaymentBucket(w, amount), "available", amount, "PROJECT_PAYMENT")

Charged(w, amount) ==
  Moved(w, PaymentBucket(w, amount), "external", amount, "PROJECT_PAYMENT")

\* A share of nothing is not moved.
AfterShare(w, amount) == IF amount > 0 THEN Charged(w, amount) ELSE w

\* Neither movement of the client's wallet raises; "held" is the job's
\* reserved_amount.
CanSettle(w, amount, held) ==
  /\ amount > 0 => CanMove(w, PaymentBucket(w, amount), "external", amount)
  /\ held > 0 => CanMove(AfterShare(w, amount), "reserved", "available", held)

\* Faulty variant: nothing is returned of what the job had reserved.
SettledKeepingRest(w, amount, held) == AfterShare(w, amount)

\* The client's wallet after the payment and the release.
Settled(w, amount, held) ==
  LET after == AfterShare(w, amount)
  IN  IF held > 0
      THEN Moved(after, "reserved", "available", held, "BUDGET_RELEASE") ELSE after

Paid(w, amount) ==
  IF amount > 0 THEN Moved(w, "external", "available", amount, "PROJECT_PAYMENT") ELSE w

=============================================================================
