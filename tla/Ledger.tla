------------------------------- MODULE Ledger -------------------------------
(***************************************************************************)
(* The wallet arithmetic of src/apps/wallets/ledger.py: a wallet row and   *)
(* the one function through which every SkillCoin movement passes, move(). *)
(* The module has no state; the modules that keep wallets apply its        *)
(* operators to their rows.  Amounts are whole cents.                      *)
(*                                                                         *)
(* A wallet row carries, beside its three balances, the four lifetime      *)
(* counters, the freeze flag, and "posted": the sum of the delta column of *)
(* its WalletTransaction rows.  The rows themselves are never updated or   *)
(* deleted and only their sum is read back by the reconciliation.          *)
(***************************************************************************)
EXTENDS Integers

Bucket == {"available", "reserved", "escrow", "external"}

Kind == {"DEPOSIT", "BUDGET_RESERVATION", "BUDGET_RELEASE", "ESCROW_HOLD",
         "ESCROW_RELEASE", "PROJECT_PAYMENT", "REFUND", "WITHDRAWAL",
         "WITHDRAWAL_REVERSAL", "ADJUSTMENT"}

Wallet == [available : Nat, reserved : Nat, escrow : Nat,
           deposited : Nat, withdrawn : Nat, earned : Nat, spent : Nat,
           frozen : BOOLEAN, posted : Int]

\* A fresh row holding "coins" that no ledger row accounts for.
NewWallet(coins) ==
  [available |-> coins, reserved |-> 0, escrow |-> 0,
   deposited |-> 0, withdrawn |-> 0, earned |-> 0, spent |-> 0,
   frozen |-> FALSE, posted |-> 0]

Total(w) == w.available + w.reserved + w.escrow

\* Faulty variant of CanMove: the source balance is not checked.
CanMoveUnchecked(w, src, dst, amount) ==
  /\ amount > 0
  /\ src # dst
  /\ w.frozen => src = "external"

\* Faulty variant of CanMove: a frozen wallet moves like any other.
CanMoveThawed(w, src, dst, amount) ==
  /\ amount > 0
  /\ src # dst
  /\ src # "external" => w[src] >= amount

(***************************************************************************)
(* move() raises, and the enclosing transaction rolls back, unless the     *)
(* amount is positive, the bucket changes, a frozen wallet is only         *)
(* credited from outside and the source bucket holds the amount.           *)
(***************************************************************************)
CanMove(w, src, dst, amount) ==
  /\ amount > 0
  /\ src # dst
  /\ w.frozen => src = "external"
  /\ src # "external" => w[src] >= amount

(***************************************************************************)
(* The row after a successful move().  The delta that is posted is the     *)
(* difference between the totals read before and after the balances are    *)
(* written, and every movement that leaves for or arrives from EXTERNAL    *)
(* counts as withdrawn or deposited, whatever its kind.                    *)
(***************************************************************************)
Rebalanced(w, src, dst, amount) ==
  LET net(b) == (IF dst = b THEN amount ELSE 0) - (IF src = b THEN amount ELSE 0)
  IN  [w EXCEPT !.available = @ + net("available"),
                !.reserved  = @ + net("reserved"),
                !.escrow    = @ + net("escrow")]

\* Faulty variant of Moved: the amount is posted, whatever the totals did.
MovedPostingAmount(w, src, dst, amount, kind) ==
  [Rebalanced(w, src, dst, amount) EXCEPT
     !.deposited = IF src = "external" THEN @ + amount ELSE @,
     !.withdrawn = IF dst = "external" THEN @ + amount ELSE @,
     !.earned    = IF kind = "PROJECT_PAYMENT" THEN @ + amount ELSE @,
     !.spent     = IF kind = "ESCROW_HOLD" THEN @ + amount ELSE @,
     !.posted    = @ + amount]

Moved(w, src, dst, amount, kind) ==
  LET after == Rebalanced(w, src, dst, amount)
  IN  [after EXCEPT
         !.deposited = IF src = "external" THEN @ + amount ELSE @,
         !.withdrawn = IF dst = "external" THEN @ + amount ELSE @,
         !.earned    = IF kind = "PROJECT_PAYMENT" THEN @ + amount ELSE @,
         !.spent     = IF kind = "ESCROW_HOLD" THEN @ + amount ELSE @,
         !.posted    = @ + Total(after) - Total(w)]

=============================================================================
