---------------------------- MODULE AdminConsole ----------------------------
(***************************************************************************)
(* The administrators' pages for deposits and withdrawals, DepositAdmin    *)
(* and WithdrawalAdmin of src/apps/wallets/admin.py, next to the service   *)
(* functions of Wallets, which the list actions of the same pages call.    *)
(*                                                                         *)
(* A change form holds a copy of the row as it was when the page was opened*)
(* and posts every field back, the status included.  save_model() compares *)
(* the posted status with the row of the moment: a decision on a pending   *)
(* row goes through the service, anything else is written as it was posted.*)
(* The status is a field like any other: an administrator may leave it as  *)
(* the form shows it (to add a note) or pick another.  Opening a form does *)
(* not lock the row, and another administrator may settle it meanwhile.    *)
(* The add form inserts a row with any status.                             *)
(*                                                                         *)
(* MaxForms bounds how many change forms a behaviour opens.                *)
(***************************************************************************)
EXTENDS Wallets

CONSTANT MaxForms
ASSUME MaxFormsAssumption == MaxForms \in Nat

VARIABLES
  depositForm,     \* depositForm[d]: the status the open form of d shows,
  withdrawalForm,  \* or "NONE" when no form of that row is open
  opened,          \* how many change forms were opened
  reopened,        \* reopened[d]: times a settled deposit became pending again
  rewound          \* rewound[w]: times a settled withdrawal became pending again

consoleVars == <<depositForm, withdrawalForm, opened, reopened, rewound>>
allVars == <<vars, consoleVars>>

ConsoleInit ==
  /\ Init
  /\ depositForm = [d \in Deposits |-> "NONE"]
  /\ withdrawalForm = [w \in Withdrawals |-> "NONE"]
  /\ opened = 0
  /\ reopened = [d \in Deposits |-> 0]
  /\ rewound = [w \in Withdrawals |-> 0]

-----------------------------------------------------------------------------
\* What a form can post, whatever it shows: the choices of the status field.
Postable == {"PENDING", "APPROVED", "REJECTED"}

\* save_model() turns this change of status into a service call.
Decides(old, posted) == old = "PENDING" /\ posted \in {"APPROVED", "REJECTED"}

Reopens(old, posted) == old \in {"APPROVED", "REJECTED"} /\ posted = "PENDING"

OpenDepositForm(d) ==
  /\ deposit[d].status # "NONE"
  /\ depositForm[d] = "NONE"
  /\ opened < MaxForms
  /\ depositForm' = [depositForm EXCEPT ![d] = deposit[d].status]
  /\ opened' = opened + 1
  /\ UNCHANGED <<vars, withdrawalForm, reopened, rewound>>

\* Everything but a decision is super().save_model(): the row as it was posted.
SaveRawDeposit(d, posted) ==
  /\ ~ Decides(deposit[d].status, posted)
  /\ deposit' = [deposit EXCEPT ![d].status = posted]
  /\ reopened' = [reopened EXCEPT
       ![d] = IF Reopens(deposit[d].status, posted) THEN @ + 1 ELSE @]
  /\ UNCHANGED <<wallet, withdrawal, credits, payouts, returns>>

SaveDepositForm(d, posted) ==
  /\ depositForm[d] # "NONE"
  /\ \/ /\ posted = "APPROVED"
        /\ ApproveDeposit(d)
        /\ UNCHANGED reopened
     \/ /\ posted = "REJECTED"
        /\ RejectDeposit(d)
        /\ UNCHANGED reopened
     \/ SaveRawDeposit(d, posted)
  /\ depositForm' = [depositForm EXCEPT ![d] = "NONE"]
  /\ UNCHANGED <<withdrawalForm, opened, rewound>>

\* The add form is not a change: the row is stored with the status it names.
AddDeposit(d, u, amount, trx, posted) ==
  /\ NextKey(deposit, d)
  /\ deposit' = [deposit EXCEPT ![d] =
       [user |-> u, amount |-> amount, trx |-> trx, status |-> posted]]
  /\ UNCHANGED <<wallet, withdrawal, credits, payouts, returns, consoleVars>>

OpenWithdrawalForm(w) ==
  /\ withdrawal[w].status # "NONE"
  /\ withdrawalForm[w] = "NONE"
  /\ opened < MaxForms
  /\ withdrawalForm' = [withdrawalForm EXCEPT ![w] = withdrawal[w].status]
  /\ opened' = opened + 1
  /\ UNCHANGED <<vars, depositForm, reopened, rewound>>

SaveRawWithdrawal(w, posted) ==
  /\ ~ Decides(withdrawal[w].status, posted)
  /\ withdrawal' = [withdrawal EXCEPT ![w].status = posted]
  /\ rewound' = [rewound EXCEPT
       ![w] = IF Reopens(withdrawal[w].status, posted) THEN @ + 1 ELSE @]
  /\ UNCHANGED <<wallet, deposit, credits, payouts, returns>>

SaveWithdrawalForm(w, posted) ==
  /\ withdrawalForm[w] # "NONE"
  /\ \/ /\ posted = "APPROVED"
        /\ ApproveWithdrawal(w)
        /\ UNCHANGED rewound
     \/ /\ posted = "REJECTED"
        /\ RejectWithdrawal(w)
        /\ UNCHANGED rewound
     \/ SaveRawWithdrawal(w, posted)
  /\ withdrawalForm' = [withdrawalForm EXCEPT ![w] = "NONE"]
  /\ UNCHANGED <<depositForm, opened, reopened>>

\* Unlike request_withdrawal() it reserves nothing.
AddWithdrawal(w, u, amount, posted) ==
  /\ NextKey(withdrawal, w)
  /\ withdrawal' = [withdrawal EXCEPT ![w] =
       [user |-> u, amount |-> amount, status |-> posted]]
  /\ UNCHANGED <<wallet, deposit, credits, payouts, returns, consoleVars>>

ConsoleNext ==
  \/ Next /\ UNCHANGED consoleVars
  \/ \E d \in Deposits :
       \/ OpenDepositForm(d)
       \/ \E posted \in Postable : SaveDepositForm(d, posted)
       \/ \E u \in Users, amount \in Amounts, trx \in TrxIds \cup {NoTrx},
             posted \in Postable : AddDeposit(d, u, amount, trx, posted)
  \/ \E w \in Withdrawals :
       \/ OpenWithdrawalForm(w)
       \/ \E posted \in Postable : SaveWithdrawalForm(w, posted)
       \/ \E u \in Users, amount \in Amounts, posted \in Postable :
            AddWithdrawal(w, u, amount, posted)

ConsoleSpec == ConsoleInit /\ [][ConsoleNext]_allVars

-----------------------------------------------------------------------------
ConsoleTypeOK ==
  /\ TypeOK
  /\ depositForm \in [Deposits -> Status]
  /\ withdrawalForm \in [Withdrawals -> Status]
  /\ opened \in 0..MaxForms
  /\ reopened \in [Deposits -> Nat]
  /\ rewound \in [Withdrawals -> Nat]

\* A request is settled again only if a saved form, old or edited, made the
\* settled row pending again in between: every credit or payout but the first
\* costs one such save (wallets/admin.py:76, 96).
RepeatsNeedReopening ==
  /\ \A d \in Deposits : credits[d] <= 1 + reopened[d]
  /\ \A w \in Withdrawals : payouts[w] + returns[w] <= 1 + rewound[w]

Posted(table, counts, u) ==
  [k \in DOMAIN table |->
     IF table[k].user = u THEN counts[k] * table[k].amount ELSE 0]

\* Whatever status the forms write, a wallet holds what its ledger rows say:
\* they can falsify a status but never move money that was not posted.
MoneyFollowsPostings ==
  \A u \in Users :
    Total(wallet[u]) = OpeningBalance
                       + SumTo(Posted(deposit, credits, u), MaxDeposits)
                       - SumTo(Posted(withdrawal, payouts, u), MaxWithdrawals)

=============================================================================
