------------------------------ MODULE Wallets -------------------------------
(***************************************************************************)
(* Wallets, deposits and withdrawals: src/apps/wallets/services.py on top  *)
(* of src/apps/wallets/ledger.py.  One action per service function.  Every *)
(* function runs in one database transaction that re-reads its rows before *)
(* it decides, so it is one atomic step; a call that raises rolls back and *)
(* is not a step, and neither is a repeated approval or rejection, which   *)
(* returns before it writes anything.                                      *)
(*                                                                         *)
(* A table of rows is a function from primary keys 1..n to rows; a row     *)
(* that has not been inserted yet has status "NONE".  MaxDeposits and      *)
(* MaxWithdrawals bound how many requests a behaviour can file.            *)
(***************************************************************************)
EXTENDS Ledger, Sums

CONSTANTS
  Users,
  OpeningBalance,   \* what apps/accounts/signals.py puts into a new wallet
  Amounts,          \* the amounts users may ask for, in cents
  TrxIds,           \* the transaction IDs of the payment provider
  MaxDeposits, MaxWithdrawals,
  NoUser, NoTrx     \* the user and the transaction ID of a row that has none

ASSUME ConstantsAssumption ==
  /\ OpeningBalance \in Nat
  /\ Amounts \subseteq Nat
  /\ MaxDeposits \in Nat /\ MaxWithdrawals \in Nat
  /\ NoUser \notin Users /\ NoTrx \notin TrxIds

Deposits == 1..MaxDeposits
Withdrawals == 1..MaxWithdrawals

Status == {"NONE", "PENDING", "APPROVED", "REJECTED"}

DepositRow == [user : Users \cup {NoUser}, amount : Nat,
               trx : TrxIds \cup {NoTrx}, status : Status]
WithdrawalRow == [user : Users \cup {NoUser}, amount : Nat, status : Status]

VARIABLES
  wallet,      \* wallet[u]: the Wallet row of user u
  deposit,     \* the Deposit table
  withdrawal,  \* the Withdrawal table
  credits,     \* credits[d]: DEPOSIT ledger rows posted for deposit d
  payouts,     \* payouts[w]: ledger rows that paid withdrawal w out
  returns      \* returns[w]: WITHDRAWAL_REVERSAL rows posted for withdrawal w

vars == <<wallet, deposit, withdrawal, credits, payouts, returns>>

Init ==
  /\ wallet = [u \in Users |-> NewWallet(OpeningBalance)]
  /\ deposit = [d \in Deposits |->
       [user |-> NoUser, amount |-> 0, trx |-> NoTrx, status |-> "NONE"]]
  /\ withdrawal = [w \in Withdrawals |->
       [user |-> NoUser, amount |-> 0, status |-> "NONE"]]
  /\ credits = [d \in Deposits |-> 0]
  /\ payouts = [w \in Withdrawals |-> 0]
  /\ returns = [w \in Withdrawals |-> 0]

-----------------------------------------------------------------------------
\* ledger.move() on the locked row of u.
Move(u, src, dst, amount, kind) ==
  /\ CanMove(wallet[u], src, dst, amount)
  /\ wallet' = [wallet EXCEPT ![u] = Moved(@, src, dst, amount, kind)]

\* Primary keys are handed out in order.
NextKey(table, k) ==
  /\ table[k].status = "NONE"
  /\ \A i \in DOMAIN table : i < k => table[i].status # "NONE"

\* Faulty variant: the claim is credited before anybody verified it.
CreateDepositCredited(d, u, amount, trx) ==
  /\ NextKey(deposit, d)
  /\ Move(u, "external", "available", amount, "DEPOSIT")
  /\ deposit' = [deposit EXCEPT ![d] =
       [user |-> u, amount |-> amount, trx |-> trx, status |-> "PENDING"]]
  /\ UNCHANGED <<withdrawal, credits, payouts, returns>>

CreateDeposit(d, u, amount, trx) ==
  /\ NextKey(deposit, d)
  /\ amount > 0
  /\ deposit' = [deposit EXCEPT ![d] =
       [user |-> u, amount |-> amount, trx |-> trx, status |-> "PENDING"]]
  /\ UNCHANGED <<wallet, withdrawal, credits, payouts, returns>>

\* Faulty variant: only the claims of the same user are searched.
TrxUsedByUser(d) ==
  /\ deposit[d].trx # NoTrx
  /\ \E e \in Deposits \ {d} : /\ deposit[e].trx = deposit[d].trx
                               /\ deposit[e].user = deposit[d].user
                               /\ deposit[e].status = "APPROVED"

\* Another deposit with the same, non-empty transaction ID was approved.
TrxUsed(d) ==
  /\ deposit[d].trx # NoTrx
  /\ \E e \in Deposits \ {d} : /\ deposit[e].trx = deposit[d].trx
                               /\ deposit[e].status = "APPROVED"

\* Faulty variant: an approved deposit can be approved again.
ApproveDepositAgain(d) ==
  /\ deposit[d].status \in {"PENDING", "APPROVED"}
  /\ ~ TrxUsed(d)
  /\ Move(deposit[d].user, "external", "available", deposit[d].amount, "DEPOSIT")
  /\ deposit' = [deposit EXCEPT ![d].status = "APPROVED"]
  /\ credits' = [credits EXCEPT ![d] = @ + 1]
  /\ UNCHANGED <<withdrawal, payouts, returns>>

ApproveDeposit(d) ==
  /\ deposit[d].status = "PENDING"
  /\ ~ TrxUsed(d)
  /\ Move(deposit[d].user, "external", "available", deposit[d].amount, "DEPOSIT")
  /\ deposit' = [deposit EXCEPT ![d].status = "APPROVED"]
  /\ credits' = [credits EXCEPT ![d] = @ + 1]
  /\ UNCHANGED <<withdrawal, payouts, returns>>

RejectDeposit(d) ==
  /\ deposit[d].status = "PENDING"
  /\ deposit' = [deposit EXCEPT ![d].status = "REJECTED"]
  /\ UNCHANGED <<wallet, withdrawal, credits, payouts, returns>>

\* The row and the reservation are one transaction: both or neither.
RequestWithdrawal(w, u, amount) ==
  /\ NextKey(withdrawal, w)
  /\ Move(u, "available", "reserved", amount, "WITHDRAWAL")
  /\ withdrawal' = [withdrawal EXCEPT ![w] =
       [user |-> u, amount |-> amount, status |-> "PENDING"]]
  /\ UNCHANGED <<deposit, credits, payouts, returns>>

\* Faulty variant: the payout is taken from the available balance.
ApproveWithdrawalUnreserved(w) ==
  /\ withdrawal[w].status = "PENDING"
  /\ Move(withdrawal[w].user, "available", "external", withdrawal[w].amount, "WITHDRAWAL")
  /\ withdrawal' = [withdrawal EXCEPT ![w].status = "APPROVED"]
  /\ payouts' = [payouts EXCEPT ![w] = @ + 1]
  /\ UNCHANGED <<deposit, credits, returns>>

ApproveWithdrawal(w) ==
  /\ withdrawal[w].status = "PENDING"
  /\ Move(withdrawal[w].user, "reserved", "external", withdrawal[w].amount, "WITHDRAWAL")
  /\ withdrawal' = [withdrawal EXCEPT ![w].status = "APPROVED"]
  /\ payouts' = [payouts EXCEPT ![w] = @ + 1]
  /\ UNCHANGED <<deposit, credits, returns>>

\* Faulty variant: the reservation leaves the platform instead of coming back.
RejectWithdrawalForfeited(w) ==
  /\ withdrawal[w].status = "PENDING"
  /\ Move(withdrawal[w].user, "reserved", "external", withdrawal[w].amount,
          "WITHDRAWAL_REVERSAL")
  /\ withdrawal' = [withdrawal EXCEPT ![w].status = "REJECTED"]
  /\ returns' = [returns EXCEPT ![w] = @ + 1]
  /\ UNCHANGED <<deposit, credits, payouts>>

RejectWithdrawal(w) ==
  /\ withdrawal[w].status = "PENDING"
  /\ Move(withdrawal[w].user, "reserved", "available", withdrawal[w].amount,
          "WITHDRAWAL_REVERSAL")
  /\ withdrawal' = [withdrawal EXCEPT ![w].status = "REJECTED"]
  /\ returns' = [returns EXCEPT ![w] = @ + 1]
  /\ UNCHANGED <<deposit, credits, payouts>>

SetWalletFrozen(u, flag) ==
  /\ wallet' = [wallet EXCEPT ![u].frozen = flag]
  /\ UNCHANGED <<deposit, withdrawal, credits, payouts, returns>>

Next ==
  \/ \E d \in Deposits :
       \/ \E u \in Users, amount \in Amounts, trx \in TrxIds \cup {NoTrx} :
            CreateDeposit(d, u, amount, trx)
       \/ ApproveDeposit(d)
       \/ RejectDeposit(d)
  \/ \E w \in Withdrawals :
       \/ \E u \in Users, amount \in Amounts : RequestWithdrawal(w, u, amount)
       \/ ApproveWithdrawal(w)
       \/ RejectWithdrawal(w)
  \/ \E u \in Users, flag \in BOOLEAN : SetWalletFrozen(u, flag)

Spec == Init /\ [][Next]_vars

-----------------------------------------------------------------------------
\* What the rows of u in one status add up to, as wallet_summary() reports it.
Counted(row, u, status) ==
  IF row.user = u /\ row.status = status THEN row.amount ELSE 0

Share(table, u, status) == [k \in DOMAIN table |-> Counted(table[k], u, status)]

DepositSum(u, status) == SumTo(Share(deposit, u, status), MaxDeposits)
WithdrawalSum(u, status) == SumTo(Share(withdrawal, u, status), MaxWithdrawals)

\* Every variable holds rows of its table; in particular no balance is ever
\* negative, which models.py also asks of the database in three constraints.
TypeOK ==
  /\ wallet \in [Users -> Wallet]
  /\ deposit \in [Deposits -> DepositRow]
  /\ withdrawal \in [Withdrawals -> WithdrawalRow]
  /\ credits \in [Deposits -> Nat]
  /\ payouts \in [Withdrawals -> Nat]
  /\ returns \in [Withdrawals -> Nat]

\* A wallet's balances, its two lifetime counters and the sum of its ledger
\* rows always agree, up to the opening balance that was never posted.
BooksBalance ==
  \A u \in Users :
    /\ Total(wallet[u]) = OpeningBalance + wallet[u].posted
    /\ wallet[u].posted = wallet[u].deposited - wallet[u].withdrawn

\* A request's status says exactly what was posted for it: an approved deposit
\* was credited once, an approved withdrawal paid once, a rejected one returned
\* once, and nothing else was posted.
SettledOnce ==
  /\ \A d \in Deposits :
       credits[d] = IF deposit[d].status = "APPROVED" THEN 1 ELSE 0
  /\ \A w \in Withdrawals :
       /\ payouts[w] = IF withdrawal[w].status = "APPROVED" THEN 1 ELSE 0
       /\ returns[w] = IF withdrawal[w].status = "REJECTED" THEN 1 ELSE 0

\* help.html:15: "Each transaction ID can be claimed once."  Of all deposits
\* that name a transaction ID at most one was credited, and at most once.
TrxClaimedOnce ==
  \A d, e \in Deposits :
    /\ credits[d] <= 1
    /\ (/\ credits[d] > 0 /\ credits[e] > 0
        /\ deposit[d].trx # NoTrx
        /\ deposit[d].trx = deposit[e].trx) => d = e

\* help.html:22-26: what a wallet keeps reserved is exactly what its pending
\* withdrawals ask for, so a pending withdrawal can always be paid or returned.
ReservedBacksWithdrawals ==
  \A u \in Users : wallet[u].reserved = WithdrawalSum(u, "PENDING")

\* terms.html:19-22: SkillCoin enters when a deposit is verified and leaves
\* when a withdrawal is paid, and at no other moment.
CashConserved ==
  \A u \in Users :
    Total(wallet[u]) =
      OpeningBalance + DepositSum(u, "APPROVED") - WithdrawalSum(u, "APPROVED")

\* models.py:17: a freeze "blocks every outgoing movement".  While a wallet
\* stays frozen nothing moves in it but what a verified deposit adds.
FrozenKeepsMoney ==
  [][\A u \in Users : wallet[u].frozen /\ wallet'[u].frozen =>
       /\ wallet'[u].available >= wallet[u].available
       /\ wallet'[u].reserved = wallet[u].reserved
       /\ wallet'[u].escrow = wallet[u].escrow]_vars

\* The wallets implement the treasury.
Abstract == INSTANCE Treasury WITH
  coins    <- [u \in Users |-> Total(wallet[u])],
  verified <- [u \in Users |-> DepositSum(u, "APPROVED")],
  paid     <- [u \in Users |-> WithdrawalSum(u, "APPROVED")],
  Payments <- Amounts \ {0}

ImplementsTreasury == Abstract!Spec

=============================================================================
