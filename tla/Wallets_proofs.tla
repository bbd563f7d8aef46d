--------------------------- MODULE Wallets_proofs ---------------------------
(***************************************************************************)
(* The invariants of Wallets hold for every set of users, amounts and      *)
(* transaction IDs and for every number of requests.                       *)
(*                                                                         *)
(* Two of them are not inductive alone.  That reserved balances match the  *)
(* pending withdrawals, and totals the settled ones, needs to know that a  *)
(* filed row has an owner and an amount (FiledRows); that a transaction ID *)
(* is credited once needs that credits follow the status (SettledOnce) and *)
(* that no two approved rows share the ID (ApprovedOnce).  IInv is the     *)
(* conjunction.                                                            *)
(***************************************************************************)
EXTENDS Wallets, Ledger_proofs

FiledRows ==
  /\ \A d \in Deposits : deposit[d].status # "NONE" =>
       deposit[d].user \in Users /\ deposit[d].amount \in Amounts
  /\ \A w \in Withdrawals : withdrawal[w].status # "NONE" =>
       withdrawal[w].user \in Users /\ withdrawal[w].amount \in Amounts

ApprovedOnce ==
  \A d, e \in Deposits :
    /\ deposit[d].status = "APPROVED" /\ deposit[e].status = "APPROVED"
    /\ deposit[d].trx # NoTrx
    /\ deposit[d].trx = deposit[e].trx
    => d = e

IInv ==
  /\ TypeOK
  /\ FiledRows
  /\ BooksBalance
  /\ SettledOnce
  /\ ApprovedOnce
  /\ ReservedBacksWithdrawals
  /\ CashConserved

-----------------------------------------------------------------------------
\* The shape of a table that Share can add up.
Table(table, n) ==
  /\ table = [k \in 1..n |-> table[k]]
  /\ \A k \in 1..n : table[k].amount \in Int

RowWritten(after, table, k, row) == after = [table EXCEPT ![k] = row]

\* What a table's rows contribute are integers.
LEMMA ShareType ==
  ASSUME NEW n \in Nat, NEW table, Table(table, n), NEW u, NEW status
  PROVE  Share(table, u, status) \in [1..n -> Int]
BY DEF Table, Share, Counted

\* Writing one row changes what a user's rows add up to by what that row
\* contributes after, less what it contributed before.
LEMMA ShareUpdate ==
  ASSUME NEW n \in Nat, NEW table, Table(table, n), NEW k \in 1..n,
         NEW row, row.amount \in Int, NEW u, NEW status,
         NEW after, RowWritten(after, table, k, row)
  PROVE  SumTo(Share(after, u, status), n)
           = SumTo(Share(table, u, status), n)
             - Counted(table[k], u, status) + Counted(row, u, status)
<1> DEFINE f == Share(table, u, status)
           v == Counted(row, u, status)
<1>1. f \in [1..n -> Int] /\ v \in Int
  BY ShareType DEF Counted
<1>2. f[k] = Counted(table[k], u, status)
  BY DEF Table, Share
<1>3. Share(after, u, status) = [f EXCEPT ![k] = v]
  BY DEF Table, Share, RowWritten
<1> HIDE DEF f, v
<1>4. SumTo([f EXCEPT ![k] = v], n) = SumTo(f, n) - f[k] + v
  BY <1>1, SumToUpdate
<1> QED BY <1>2, <1>3, <1>4 DEF f, v

\* The aggregates are integers.
LEMMA SumTypes ==
  ASSUME TypeOK
  PROVE  \A u, s : DepositSum(u, s) \in Int /\ WithdrawalSum(u, s) \in Int
<1>1. Table(deposit, MaxDeposits) /\ MaxDeposits \in Nat
  BY ConstantsAssumption DEF Table, TypeOK, Deposits, DepositRow
<1>2. Table(withdrawal, MaxWithdrawals) /\ MaxWithdrawals \in Nat
  BY ConstantsAssumption DEF Table, TypeOK, Withdrawals, WithdrawalRow
<1> QED BY <1>1, <1>2, ShareType, SumToInt DEF DepositSum, WithdrawalSum

\* ShareUpdate for the two tables of the specification.
LEMMA DepositUpdate ==
  ASSUME TypeOK, NEW d \in Deposits, NEW row \in DepositRow,
         deposit' = [deposit EXCEPT ![d] = row], NEW u \in Users, NEW status
  PROVE  /\ DepositSum(u, status) \in Int
         /\ Counted(deposit[d], u, status) \in Int /\ Counted(row, u, status) \in Int
         /\ DepositSum(u, status)' = DepositSum(u, status)
              - Counted(deposit[d], u, status) + Counted(row, u, status)
<1>1. Table(deposit, MaxDeposits) /\ MaxDeposits \in Nat /\ d \in 1..MaxDeposits
  BY ConstantsAssumption DEF Table, TypeOK, Deposits, DepositRow
<1>2. /\ row.amount \in Int /\ deposit[d].amount \in Int
      /\ RowWritten(deposit', deposit, d, row)
  BY DEF RowWritten, TypeOK, DepositRow
<1>3. DepositSum(u, status) \in Int
  BY <1>1, ShareType, SumToInt DEF DepositSum
<1>4. SumTo(Share(deposit', u, status), MaxDeposits)
        = SumTo(Share(deposit, u, status), MaxDeposits)
          - Counted(deposit[d], u, status) + Counted(row, u, status)
  BY <1>1, <1>2, ShareUpdate
<1> QED BY <1>2, <1>3, <1>4 DEF DepositSum, Counted

\* See DepositUpdate.
LEMMA WithdrawalUpdate ==
  ASSUME TypeOK, NEW w \in Withdrawals, NEW row \in WithdrawalRow,
         withdrawal' = [withdrawal EXCEPT ![w] = row], NEW u \in Users, NEW status
  PROVE  /\ WithdrawalSum(u, status) \in Int
         /\ Counted(withdrawal[w], u, status) \in Int /\ Counted(row, u, status) \in Int
         /\ WithdrawalSum(u, status)' = WithdrawalSum(u, status)
              - Counted(withdrawal[w], u, status) + Counted(row, u, status)
<1>1. /\ Table(withdrawal, MaxWithdrawals) /\ MaxWithdrawals \in Nat
      /\ w \in 1..MaxWithdrawals
  BY ConstantsAssumption DEF Table, TypeOK, Withdrawals, WithdrawalRow
<1>2. /\ row.amount \in Int /\ withdrawal[w].amount \in Int
      /\ RowWritten(withdrawal', withdrawal, w, row)
  BY DEF RowWritten, TypeOK, WithdrawalRow
<1>3. WithdrawalSum(u, status) \in Int
  BY <1>1, ShareType, SumToInt DEF WithdrawalSum
<1>4. SumTo(Share(withdrawal', u, status), MaxWithdrawals)
        = SumTo(Share(withdrawal, u, status), MaxWithdrawals)
          - Counted(withdrawal[w], u, status) + Counted(row, u, status)
  BY <1>1, <1>2, ShareUpdate
<1> QED BY <1>2, <1>3, <1>4 DEF WithdrawalSum, Counted

\* Sums of a table that is not written do not change.
LEMMA SumsUnchanged ==
  /\ deposit' = deposit => \A u, s : DepositSum(u, s)' = DepositSum(u, s)
  /\ withdrawal' = withdrawal => \A u, s : WithdrawalSum(u, s)' = WithdrawalSum(u, s)
BY DEF DepositSum, WithdrawalSum

\* A movement on the row of u: what it does to u and that nobody else notices.
LEMMA MoveEffect ==
  ASSUME TypeOK, NEW u \in Users, NEW src \in Bucket, NEW dst \in Bucket,
         NEW amount \in Nat, NEW kind, Move(u, src, dst, amount, kind)
  PROVE  /\ wallet' \in [Users -> Wallet]
         /\ CanMove(wallet[u], src, dst, amount)
         /\ \A v \in Users : v # u => wallet'[v] = wallet[v]
         /\ wallet'[u].available = wallet[u].available + Net("available", src, dst, amount)
         /\ wallet'[u].reserved = wallet[u].reserved + Net("reserved", src, dst, amount)
         /\ wallet'[u].escrow = wallet[u].escrow + Net("escrow", src, dst, amount)
         /\ wallet'[u].frozen = wallet[u].frozen
         /\ wallet'[u].deposited = wallet[u].deposited + IF src = "external" THEN amount ELSE 0
         /\ wallet'[u].withdrawn = wallet[u].withdrawn + IF dst = "external" THEN amount ELSE 0
         /\ Total(wallet'[u]) = Total(wallet[u]) + Inflow(src, dst, amount)
         /\ wallet'[u].posted = wallet[u].posted + Inflow(src, dst, amount)
<1> DEFINE w == wallet[u]
           m == Moved(w, src, dst, amount, kind)
<1>1. w \in Wallet /\ CanMove(w, src, dst, amount)
  BY DEF TypeOK, Move
<1>2. wallet' = [wallet EXCEPT ![u] = m] /\ wallet \in [Users -> Wallet]
  BY DEF TypeOK, Move
<1> HIDE DEF w
<1>3. m \in Wallet
  BY <1>1, MovedType
<1>4. /\ m.available = w.available + Net("available", src, dst, amount)
      /\ m.reserved = w.reserved + Net("reserved", src, dst, amount)
      /\ m.escrow = w.escrow + Net("escrow", src, dst, amount)
      /\ m.frozen = w.frozen
      /\ m.deposited = w.deposited + IF src = "external" THEN amount ELSE 0
      /\ m.withdrawn = w.withdrawn + IF dst = "external" THEN amount ELSE 0
      /\ Total(m) = Total(w) + Inflow(src, dst, amount)
      /\ m.posted = w.posted + Inflow(src, dst, amount)
  BY <1>1, MovedEffect
<1> HIDE DEF m
<1>5. wallet'[u] = m /\ \A v \in Users : v # u => wallet'[v] = wallet[v]
  BY <1>2
<1>6. wallet' \in [Users -> Wallet]
  BY <1>2, <1>3
<1> QED BY <1>1, <1>4, <1>5, <1>6 DEF w

\* A step of the requests for money keeps the types and the rows.
LEMMA RequestsKeepRows ==
  ASSUME TypeOK, FiledRows, [Next]_vars
  PROVE  TypeOK' /\ FiledRows'
<1> USE ConstantsAssumption
<1>1. ASSUME NEW d \in Deposits, NEW u \in Users, NEW amount \in Amounts,
             NEW trx \in TrxIds \cup {NoTrx}, CreateDeposit(d, u, amount, trx)
      PROVE  TypeOK' /\ FiledRows'
  <2>1. [user |-> u, amount |-> amount, trx |-> trx, status |-> "PENDING"] \in DepositRow
    BY DEF DepositRow, Status
  <2> QED
    BY <1>1, <2>1 DEF CreateDeposit, TypeOK, FiledRows
<1>2. ASSUME NEW d \in Deposits, ApproveDeposit(d) PROVE TypeOK' /\ FiledRows'
  <2>1. deposit[d].user \in Users /\ deposit[d].amount \in Nat
    BY <1>2 DEF ApproveDeposit, FiledRows, TypeOK, DepositRow
  <2>2. wallet' \in [Users -> Wallet]
    BY <1>2, <2>1, MoveEffect DEF ApproveDeposit, Bucket
  <2>3. [deposit[d] EXCEPT !.status = "APPROVED"] \in DepositRow
    BY DEF TypeOK, DepositRow, Status
  <2> QED
    BY <1>2, <2>2, <2>3 DEF ApproveDeposit, TypeOK, FiledRows, DepositRow
<1>3. ASSUME NEW d \in Deposits, RejectDeposit(d) PROVE TypeOK' /\ FiledRows'
  <2>1. [deposit[d] EXCEPT !.status = "REJECTED"] \in DepositRow
    BY DEF TypeOK, DepositRow, Status
  <2> QED
    BY <1>3, <2>1 DEF RejectDeposit, TypeOK, FiledRows, DepositRow
<1>4. ASSUME NEW w \in Withdrawals, NEW u \in Users, NEW amount \in Amounts,
             RequestWithdrawal(w, u, amount)
      PROVE  TypeOK' /\ FiledRows'
  <2>1. wallet' \in [Users -> Wallet]
    BY <1>4, MoveEffect DEF RequestWithdrawal, Bucket
  <2>2. [user |-> u, amount |-> amount, status |-> "PENDING"] \in WithdrawalRow
    BY DEF WithdrawalRow, Status
  <2> QED
    BY <1>4, <2>1, <2>2 DEF RequestWithdrawal, TypeOK, FiledRows
<1>5. ASSUME NEW w \in Withdrawals, ApproveWithdrawal(w) \/ RejectWithdrawal(w)
      PROVE  TypeOK' /\ FiledRows'
  <2>1. withdrawal[w].user \in Users /\ withdrawal[w].amount \in Nat
    BY <1>5 DEF ApproveWithdrawal, RejectWithdrawal, FiledRows, TypeOK, WithdrawalRow
  <2>2. wallet' \in [Users -> Wallet]
    BY <1>5, <2>1, MoveEffect DEF ApproveWithdrawal, RejectWithdrawal, Bucket
  <2>3. \A s \in Status : [withdrawal[w] EXCEPT !.status = s] \in WithdrawalRow
    BY DEF TypeOK, WithdrawalRow
  <2>4. \E s \in Status : withdrawal' = [withdrawal EXCEPT ![w].status = s]
    BY <1>5 DEF ApproveWithdrawal, RejectWithdrawal, Status
  <2>5. /\ withdrawal' \in [Withdrawals -> WithdrawalRow]
        /\ credits' \in [Deposits -> Nat] /\ payouts' \in [Withdrawals -> Nat]
        /\ returns' \in [Withdrawals -> Nat] /\ UNCHANGED deposit
    BY <1>5, <2>3, <2>4 DEF ApproveWithdrawal, RejectWithdrawal, TypeOK
  <2>6. FiledRows'
    BY <1>5, <2>1, <2>4, <2>5 DEF TypeOK, FiledRows, WithdrawalRow, ApproveWithdrawal, RejectWithdrawal
  <2> QED
    BY <2>2, <2>5, <2>6 DEF TypeOK
<1>6. ASSUME NEW u \in Users, NEW flag \in BOOLEAN, SetWalletFrozen(u, flag)
      PROVE  TypeOK' /\ FiledRows'
  BY <1>6 DEF SetWalletFrozen, TypeOK, FiledRows, Wallet
<1>7. CASE UNCHANGED vars
  BY <1>7 DEF vars, TypeOK, FiledRows
<1> QED
  BY <1>1, <1>2, <1>3, <1>4, <1>5, <1>6, <1>7 DEF Next

-----------------------------------------------------------------------------
\* Every behaviour starts in the inductive invariant.
LEMMA InitIInv == Init => IInv
<1> SUFFICES ASSUME Init PROVE IInv
  OBVIOUS
<1> USE ConstantsAssumption DEF Init
<1>1. TypeOK
  BY DEF TypeOK, NewWallet, Wallet, DepositRow, WithdrawalRow, Status
<1>2. FiledRows
  BY DEF FiledRows
<1>3. BooksBalance
  BY DEF BooksBalance, NewWallet, Total
<1>4. SettledOnce
  BY DEF SettledOnce
<1>5. ApprovedOnce
  BY DEF ApprovedOnce
<1>6. ASSUME NEW u \in Users, NEW status
      PROVE  DepositSum(u, status) = 0 /\ WithdrawalSum(u, status) = 0
  <2>1. /\ Share(deposit, u, status) = [k \in 1..MaxDeposits |-> 0]
        /\ Share(withdrawal, u, status) = [k \in 1..MaxWithdrawals |-> 0]
    BY DEF Share, Counted, Deposits, Withdrawals
  <2> QED BY <2>1, SumToZero DEF DepositSum, WithdrawalSum
<1>7. ReservedBacksWithdrawals
  BY <1>6 DEF ReservedBacksWithdrawals, NewWallet
<1>8. CashConserved
  BY <1>6 DEF CashConserved, NewWallet, Total
<1> QED BY <1>1, <1>2, <1>3, <1>4, <1>5, <1>7, <1>8 DEF IInv

\* Filing a deposit moves no money.
LEMMA CreateDepositIInv ==
  ASSUME IInv, NEW d \in Deposits, NEW u \in Users, NEW amount \in Amounts,
         NEW trx \in TrxIds \cup {NoTrx}, CreateDeposit(d, u, amount, trx)
  PROVE  IInv'
<1> DEFINE row == [user |-> u, amount |-> amount, trx |-> trx, status |-> "PENDING"]
<1>1. row \in DepositRow /\ deposit[d].status = "NONE"
  BY ConstantsAssumption DEF DepositRow, Status, CreateDeposit, NextKey
<1>2. deposit' = [deposit EXCEPT ![d] = row]
  BY DEF CreateDeposit
<1> USE DEF IInv
<1>3. TypeOK'
  BY <1>1, <1>2 DEF TypeOK, CreateDeposit
<1>4. FiledRows'
  BY <1>1, <1>2 DEF FiledRows, TypeOK, CreateDeposit
<1>5. BooksBalance'
  BY DEF BooksBalance, CreateDeposit
<1>6. SettledOnce'
  BY <1>1, <1>2 DEF SettledOnce, TypeOK, CreateDeposit
<1>7. ApprovedOnce'
  BY <1>1, <1>2 DEF ApprovedOnce, TypeOK
<1> HIDE DEF row
<1>8. ASSUME NEW v \in Users PROVE DepositSum(v, "APPROVED")' = DepositSum(v, "APPROVED")
  <2>1. /\ Counted(deposit[d], v, "APPROVED") = 0
        /\ Counted(row, v, "APPROVED") = 0
    BY <1>1 DEF Counted, row
  <2>2. /\ DepositSum(v, "APPROVED") \in Int
        /\ DepositSum(v, "APPROVED")' = DepositSum(v, "APPROVED")
             - Counted(deposit[d], v, "APPROVED") + Counted(row, v, "APPROVED")
    BY <1>1, <1>2, DepositUpdate
  <2> QED BY <2>1, <2>2
<1>9. \A v \in Users : \A s : WithdrawalSum(v, s)' = WithdrawalSum(v, s)
  BY SumsUnchanged DEF CreateDeposit
<1>10. ReservedBacksWithdrawals'
  BY <1>9 DEF ReservedBacksWithdrawals, CreateDeposit
<1>11. CashConserved'
  BY <1>8, <1>9 DEF CashConserved, CreateDeposit
<1> QED BY <1>3, <1>4, <1>5, <1>6, <1>7, <1>10, <1>11

\* An approval credits the owner once and adds the same to the approved sum.
LEMMA ApproveDepositIInv ==
  ASSUME IInv, NEW d \in Deposits, ApproveDeposit(d)
  PROVE  IInv'
<1> DEFINE u == deposit[d].user
           amount == deposit[d].amount
           row == [deposit[d] EXCEPT !.status = "APPROVED"]
<1> USE DEF IInv
<1>1. /\ row \in DepositRow /\ deposit[d].status = "PENDING"
      /\ deposit \in [Deposits -> DepositRow]
      /\ row.user = u /\ row.amount = amount /\ row.status = "APPROVED"
      /\ row.trx = deposit[d].trx
  BY DEF TypeOK, DepositRow, Status, ApproveDeposit
<1>2. deposit' = [deposit EXCEPT ![d] = row]
  BY DEF ApproveDeposit
<1>3. u \in Users /\ amount \in Nat /\ amount \in Amounts
  BY <1>1, ConstantsAssumption DEF FiledRows
<1>4. Move(u, "external", "available", amount, "DEPOSIT")
  BY DEF ApproveDeposit
<1> HIDE DEF u, amount
<1>5. /\ wallet' \in [Users -> Wallet]
      /\ \A v \in Users : v # u => wallet'[v] = wallet[v]
      /\ wallet'[u].reserved = wallet[u].reserved
      /\ wallet'[u].deposited = wallet[u].deposited + amount
      /\ wallet'[u].withdrawn = wallet[u].withdrawn
      /\ Total(wallet'[u]) = Total(wallet[u]) + amount
      /\ wallet'[u].posted = wallet[u].posted + amount
  <2>1. wallet[u] \in Wallet
    BY <1>3 DEF TypeOK
  <2>2. /\ Net("reserved", "external", "available", amount) = 0
        /\ Inflow("external", "available", amount) = amount
    BY <1>3 DEF Net, Inflow
  <2>3. Total(wallet[u]) \in Int /\ wallet[u].posted \in Int /\ wallet[u].reserved \in Int
        /\ wallet[u].deposited \in Int /\ wallet[u].withdrawn \in Int
    BY <2>1 DEF Wallet, Total
  <2>4. "external" \in Bucket /\ "available" \in Bucket
    BY DEF Bucket
  <2>5. /\ wallet' \in [Users -> Wallet]
        /\ \A v \in Users : v # u => wallet'[v] = wallet[v]
        /\ wallet'[u].reserved
             = wallet[u].reserved + Net("reserved", "external", "available", amount)
        /\ wallet'[u].deposited = wallet[u].deposited + amount
        /\ wallet'[u].withdrawn = wallet[u].withdrawn + 0
        /\ Total(wallet'[u]) = Total(wallet[u]) + Inflow("external", "available", amount)
        /\ wallet'[u].posted
             = wallet[u].posted + Inflow("external", "available", amount)
    BY <1>3, <1>4, <2>4, MoveEffect
  <2> QED BY <2>2, <2>3, <2>5
<1> HIDE DEF row
<1>6. TypeOK'
  BY <1>1, <1>2, <1>5 DEF TypeOK, ApproveDeposit
<1>7. FiledRows'
  BY <1>1, <1>2, <1>3 DEF FiledRows, ApproveDeposit
<1>8. BooksBalance'
  <2> SUFFICES ASSUME NEW v \in Users
               PROVE  /\ Total(wallet'[v]) = OpeningBalance + wallet'[v].posted
                      /\ wallet'[v].posted = wallet'[v].deposited - wallet'[v].withdrawn
    BY DEF BooksBalance, Total
  <2>1. /\ Total(wallet[v]) = OpeningBalance + wallet[v].posted
        /\ wallet[v].posted = wallet[v].deposited - wallet[v].withdrawn
        /\ wallet[v].posted \in Int /\ wallet[v].deposited \in Int
        /\ wallet[v].withdrawn \in Int /\ OpeningBalance \in Int /\ amount \in Int
    BY <1>3, ConstantsAssumption DEF BooksBalance, TypeOK, Wallet
  <2> QED BY <1>5, <2>1
<1>9. SettledOnce'
  BY <1>1, <1>2 DEF SettledOnce, TypeOK, ApproveDeposit
<1>10. ApprovedOnce'
  BY <1>1, <1>2 DEF ApprovedOnce, ApproveDeposit, TrxUsed
<1>11. ASSUME NEW v \in Users
       PROVE  /\ DepositSum(v, "APPROVED")' = DepositSum(v, "APPROVED")
                                              + IF v = u THEN amount ELSE 0
              /\ DepositSum(v, "APPROVED") \in Int
  <2>1. /\ Counted(deposit[d], v, "APPROVED") = 0
        /\ Counted(row, v, "APPROVED") = IF v = u THEN amount ELSE 0
    BY <1>1 DEF Counted
  <2>2. /\ DepositSum(v, "APPROVED") \in Int
        /\ DepositSum(v, "APPROVED")' = DepositSum(v, "APPROVED")
             - Counted(deposit[d], v, "APPROVED") + Counted(row, v, "APPROVED")
    BY <1>1, <1>2, DepositUpdate
  <2> QED BY <1>3, <2>1, <2>2
<1>12. \A v \in Users : \A s : WithdrawalSum(v, s)' = WithdrawalSum(v, s)
  BY SumsUnchanged DEF ApproveDeposit
<1>13. ReservedBacksWithdrawals'
  BY <1>5, <1>12 DEF ReservedBacksWithdrawals
<1>14. CashConserved'
  <2> SUFFICES ASSUME NEW v \in Users
               PROVE  Total(wallet'[v]) = OpeningBalance + DepositSum(v, "APPROVED")'
                                          - WithdrawalSum(v, "APPROVED")'
    BY DEF CashConserved, Total
  <2>1. Total(wallet[v]) = OpeningBalance + DepositSum(v, "APPROVED")
                           - WithdrawalSum(v, "APPROVED")
    BY DEF CashConserved
  <2>2. WithdrawalSum(v, "APPROVED") \in Int /\ OpeningBalance \in Int /\ amount \in Int
    BY <1>3, ConstantsAssumption, SumTypes
  <2> QED BY <1>5, <1>11, <1>12, <2>1, <2>2
<1> QED BY <1>6, <1>7, <1>8, <1>9, <1>10, <1>13, <1>14

\* A rejection is a status change: no sum of pending or approved withdrawals
\* and no approved deposit is affected.
LEMMA RejectDepositIInv ==
  ASSUME IInv, NEW d \in Deposits, RejectDeposit(d)
  PROVE  IInv'
<1> DEFINE row == [deposit[d] EXCEPT !.status = "REJECTED"]
<1> USE DEF IInv
<1>1. /\ row \in DepositRow /\ deposit[d].status = "PENDING"
      /\ deposit \in [Deposits -> DepositRow]
      /\ row.user = deposit[d].user /\ row.status = "REJECTED"
  BY DEF TypeOK, DepositRow, Status, RejectDeposit
<1>2. deposit' = [deposit EXCEPT ![d] = row]
  BY DEF RejectDeposit
<1> HIDE DEF row
<1>3. TypeOK'
  BY <1>1, <1>2 DEF TypeOK, RejectDeposit
<1>4. FiledRows'
  BY <1>1, <1>2 DEF FiledRows, RejectDeposit
<1>5. BooksBalance'
  BY DEF BooksBalance, RejectDeposit
<1>6. SettledOnce'
  BY <1>1, <1>2 DEF SettledOnce, RejectDeposit
<1>7. ApprovedOnce'
  BY <1>1, <1>2 DEF ApprovedOnce
<1>8. ASSUME NEW v \in Users PROVE DepositSum(v, "APPROVED")' = DepositSum(v, "APPROVED")
  <2>1. /\ Counted(deposit[d], v, "APPROVED") = 0
        /\ Counted(row, v, "APPROVED") = 0
    BY <1>1 DEF Counted
  <2>2. /\ DepositSum(v, "APPROVED") \in Int
        /\ DepositSum(v, "APPROVED")' = DepositSum(v, "APPROVED")
             - Counted(deposit[d], v, "APPROVED") + Counted(row, v, "APPROVED")
    BY <1>1, <1>2, DepositUpdate
  <2> QED BY <2>1, <2>2
<1>9. \A v \in Users : \A s : WithdrawalSum(v, s)' = WithdrawalSum(v, s)
  BY SumsUnchanged DEF RejectDeposit
<1>10. ReservedBacksWithdrawals'
  BY <1>9 DEF ReservedBacksWithdrawals, RejectDeposit
<1>11. CashConserved'
  BY <1>8, <1>9 DEF CashConserved, RejectDeposit
<1> QED BY <1>3, <1>4, <1>5, <1>6, <1>7, <1>10, <1>11

-----------------------------------------------------------------------------
\* What the three withdrawal actions have in common: one row is written and one
\* movement made for its owner, such that the reserved bucket follows the
\* pending amount and the total follows the approved one.
LEMMA WithdrawalStep ==
  ASSUME IInv, NEW w \in Withdrawals, NEW row \in WithdrawalRow,
         NEW src \in Bucket, NEW dst \in Bucket, NEW kind,
         row.user \in Users, row.amount \in Amounts,
         Move(row.user, src, dst, row.amount, kind),
         withdrawal' = [withdrawal EXCEPT ![w] = row],
         UNCHANGED <<deposit, credits>>,
         payouts' \in [Withdrawals -> Nat], returns' \in [Withdrawals -> Nat],
         SettledOnce',
         \A v \in Users : Counted(row, v, "PENDING") - Counted(withdrawal[w], v, "PENDING")
                          = IF v = row.user THEN Net("reserved", src, dst, row.amount) ELSE 0,
         \A v \in Users : Counted(withdrawal[w], v, "APPROVED") - Counted(row, v, "APPROVED")
                          = IF v = row.user THEN Inflow(src, dst, row.amount) ELSE 0
  PROVE  IInv'
<1> DEFINE u == row.user
           net == Net("reserved", src, dst, row.amount)
           inflow == Inflow(src, dst, row.amount)
<1> USE DEF IInv
<1>1. u \in Users /\ row.amount \in Nat /\ net \in Int /\ inflow \in Int
  BY DEF WithdrawalRow, Net, Inflow
<1>2. /\ wallet' \in [Users -> Wallet]
      /\ \A v \in Users : v # u => wallet'[v] = wallet[v]
      /\ wallet'[u].reserved = wallet[u].reserved + net
      /\ wallet'[u].deposited - wallet'[u].withdrawn
           = wallet[u].deposited - wallet[u].withdrawn + inflow
      /\ Total(wallet'[u]) = Total(wallet[u]) + inflow
      /\ wallet'[u].posted = wallet[u].posted + inflow
  <2> DEFINE a == IF src = "external" THEN row.amount ELSE 0
             b == IF dst = "external" THEN row.amount ELSE 0
  <2>1. /\ wallet' \in [Users -> Wallet]
        /\ \A v \in Users : v # u => wallet'[v] = wallet[v]
        /\ wallet'[u].reserved = wallet[u].reserved + net
        /\ wallet'[u].deposited = wallet[u].deposited + a
        /\ wallet'[u].withdrawn = wallet[u].withdrawn + b
        /\ Total(wallet'[u]) = Total(wallet[u]) + inflow
        /\ wallet'[u].posted = wallet[u].posted + inflow
    BY <1>1, MoveEffect
  <2>2. a \in Int /\ b \in Int /\ inflow = a - b
    BY <1>1 DEF Inflow
  <2>3. wallet[u].deposited \in Int /\ wallet[u].withdrawn \in Int
    BY <1>1 DEF TypeOK, Wallet
  <2> HIDE DEF a, b, inflow
  <2>4. wallet'[u].deposited - wallet'[u].withdrawn
          = wallet[u].deposited - wallet[u].withdrawn + inflow
    BY <2>1, <2>2, <2>3
  <2> QED BY <2>1, <2>4
<1> HIDE DEF u, net, inflow
<1>3. TypeOK'
  BY <1>2 DEF TypeOK
<1>4. FiledRows'
  BY DEF FiledRows, TypeOK
<1>5. BooksBalance'
  <2> SUFFICES ASSUME NEW v \in Users
               PROVE  /\ Total(wallet'[v]) = OpeningBalance + wallet'[v].posted
                      /\ wallet'[v].posted = wallet'[v].deposited - wallet'[v].withdrawn
    BY DEF BooksBalance, Total
  <2>1. /\ Total(wallet[v]) = OpeningBalance + wallet[v].posted
        /\ wallet[v].posted = wallet[v].deposited - wallet[v].withdrawn
        /\ wallet[v].posted \in Int /\ wallet[v].deposited \in Int
        /\ wallet[v].withdrawn \in Int /\ OpeningBalance \in Int
    BY ConstantsAssumption DEF BooksBalance, TypeOK, Wallet
  <2>2. CASE v = u
    BY <1>1, <1>2, <2>1, <2>2
  <2>3. CASE v # u
    BY <1>2, <2>1, <2>3
  <2> QED BY <2>2, <2>3
<1>6. ApprovedOnce'
  BY DEF ApprovedOnce
<1>7. ASSUME NEW v \in Users
      PROVE  /\ WithdrawalSum(v, "PENDING")'
                  = WithdrawalSum(v, "PENDING") + IF v = u THEN net ELSE 0
             /\ WithdrawalSum(v, "APPROVED")'
                  = WithdrawalSum(v, "APPROVED") - IF v = u THEN inflow ELSE 0
             /\ WithdrawalSum(v, "PENDING") \in Int
             /\ WithdrawalSum(v, "APPROVED") \in Int
  <2> DEFINE p == WithdrawalSum(v, "PENDING")
             q == WithdrawalSum(v, "APPROVED")
             p0 == Counted(withdrawal[w], v, "PENDING")
             q0 == Counted(withdrawal[w], v, "APPROVED")
             p1 == Counted(row, v, "PENDING")
             q1 == Counted(row, v, "APPROVED")
  <2>1. p \in Int /\ p0 \in Int /\ p1 \in Int /\ p' = p - p0 + p1
    BY WithdrawalUpdate
  <2>2. q \in Int /\ q0 \in Int /\ q1 \in Int /\ q' = q - q0 + q1
    BY WithdrawalUpdate
  <2>3. /\ p1 - p0 = IF v = u THEN net ELSE 0
        /\ q0 - q1 = IF v = u THEN inflow ELSE 0
    BY DEF u, net, inflow
  <2> HIDE DEF p, q, p0, q0, p1, q1
  <2>4. /\ p' = p + (IF v = u THEN net ELSE 0)
        /\ q' = q - (IF v = u THEN inflow ELSE 0)
    BY <1>1, <2>1, <2>2, <2>3
  <2> QED BY <2>1, <2>2, <2>4 DEF p, q
<1>8. \A v \in Users : \A s : DepositSum(v, s)' = DepositSum(v, s)
  BY SumsUnchanged
<1>9. ReservedBacksWithdrawals'
  <2> SUFFICES ASSUME NEW v \in Users
               PROVE  wallet'[v].reserved = WithdrawalSum(v, "PENDING")'
    BY DEF ReservedBacksWithdrawals
  <2>1. wallet[v].reserved = WithdrawalSum(v, "PENDING")
    BY DEF ReservedBacksWithdrawals
  <2>2. CASE v = u
    BY <1>2, <1>7, <2>1, <2>2
  <2>3. CASE v # u
    BY <1>2, <1>7, <2>1, <2>3
  <2> QED BY <2>2, <2>3
<1>10. CashConserved'
  <2> SUFFICES ASSUME NEW v \in Users
               PROVE  Total(wallet'[v]) = OpeningBalance + DepositSum(v, "APPROVED")'
                                          - WithdrawalSum(v, "APPROVED")'
    BY DEF CashConserved, Total
  <2>1. Total(wallet[v]) = OpeningBalance + DepositSum(v, "APPROVED")
                           - WithdrawalSum(v, "APPROVED")
    BY DEF CashConserved
  <2>2. DepositSum(v, "APPROVED") \in Int /\ OpeningBalance \in Int
    BY ConstantsAssumption, SumTypes
  <2>3. CASE v = u
    BY <1>1, <1>2, <1>7, <1>8, <2>1, <2>2, <2>3
  <2>4. CASE v # u
    BY <1>2, <1>7, <1>8, <2>1, <2>2, <2>4
  <2> QED BY <2>3, <2>4
<1> QED BY <1>3, <1>4, <1>5, <1>6, <1>9, <1>10

\* A request moves what the new pending row asks for into the reserved bucket.
LEMMA RequestWithdrawalIInv ==
  ASSUME IInv, NEW w \in Withdrawals, NEW u \in Users, NEW amount \in Amounts,
         RequestWithdrawal(w, u, amount)
  PROVE  IInv'
<1> DEFINE row == [user |-> u, amount |-> amount, status |-> "PENDING"]
<1>1. /\ row \in WithdrawalRow /\ withdrawal[w].status = "NONE"
      /\ row.user = u /\ row.amount = amount /\ row.status = "PENDING"
      /\ amount \in Nat
  BY ConstantsAssumption DEF WithdrawalRow, Status, RequestWithdrawal, NextKey
<1>2. /\ withdrawal' = [withdrawal EXCEPT ![w] = row]
      /\ withdrawal \in [Withdrawals -> WithdrawalRow]
      /\ Move(u, "available", "reserved", amount, "WITHDRAWAL")
      /\ UNCHANGED <<deposit, credits>>
  BY DEF IInv, TypeOK, RequestWithdrawal
<1> HIDE DEF row
<1>3. /\ payouts' \in [Withdrawals -> Nat] /\ returns' \in [Withdrawals -> Nat]
      /\ SettledOnce'
  BY <1>1, <1>2 DEF IInv, TypeOK, SettledOnce, RequestWithdrawal
<1>4. \A v \in Users : Counted(row, v, "PENDING") - Counted(withdrawal[w], v, "PENDING")
        = IF v = u THEN Net("reserved", "available", "reserved", amount) ELSE 0
  BY <1>1 DEF Counted, Net
<1>5. \A v \in Users : Counted(withdrawal[w], v, "APPROVED") - Counted(row, v, "APPROVED")
        = IF v = u THEN Inflow("available", "reserved", amount) ELSE 0
  BY <1>1 DEF Counted, Inflow
<1>6. "available" \in Bucket /\ "reserved" \in Bucket
  BY DEF Bucket
<1> QED BY <1>1, <1>2, <1>3, <1>4, <1>5, <1>6, WithdrawalStep

\* A payout takes the reservation of the row out of the platform.
LEMMA ApproveWithdrawalIInv ==
  ASSUME IInv, NEW w \in Withdrawals, ApproveWithdrawal(w)
  PROVE  IInv'
<1> DEFINE u == withdrawal[w].user
           amount == withdrawal[w].amount
           row == [withdrawal[w] EXCEPT !.status = "APPROVED"]
<1>1. /\ row \in WithdrawalRow /\ withdrawal[w].status = "PENDING"
      /\ row.user = u /\ row.amount = amount /\ row.status = "APPROVED"
      /\ u \in Users /\ amount \in Amounts
  BY DEF IInv, TypeOK, FiledRows, WithdrawalRow, Status, ApproveWithdrawal
<1>2. /\ withdrawal' = [withdrawal EXCEPT ![w] = row]
      /\ withdrawal \in [Withdrawals -> WithdrawalRow]
      /\ Move(u, "reserved", "external", amount, "WITHDRAWAL")
      /\ UNCHANGED <<deposit, credits>>
  BY DEF IInv, TypeOK, ApproveWithdrawal
<1> HIDE DEF row, u, amount
<1>3. /\ payouts' \in [Withdrawals -> Nat] /\ returns' \in [Withdrawals -> Nat]
      /\ SettledOnce'
  BY <1>1, <1>2 DEF IInv, TypeOK, SettledOnce, ApproveWithdrawal
<1>4. \A v \in Users : Counted(row, v, "PENDING") - Counted(withdrawal[w], v, "PENDING")
        = IF v = u THEN Net("reserved", "reserved", "external", amount) ELSE 0
  BY <1>1, ConstantsAssumption DEF Counted, Net, u, amount
<1>5. \A v \in Users : Counted(withdrawal[w], v, "APPROVED") - Counted(row, v, "APPROVED")
        = IF v = u THEN Inflow("reserved", "external", amount) ELSE 0
  BY <1>1 DEF Counted, Inflow
<1>6. "reserved" \in Bucket /\ "external" \in Bucket
  BY DEF Bucket
<1> QED BY <1>1, <1>2, <1>3, <1>4, <1>5, <1>6, WithdrawalStep

\* A rejection returns the reservation of the row to the available balance.
LEMMA RejectWithdrawalIInv ==
  ASSUME IInv, NEW w \in Withdrawals, RejectWithdrawal(w)
  PROVE  IInv'
<1> DEFINE u == withdrawal[w].user
           amount == withdrawal[w].amount
           row == [withdrawal[w] EXCEPT !.status = "REJECTED"]
<1>1. /\ row \in WithdrawalRow /\ withdrawal[w].status = "PENDING"
      /\ row.user = u /\ row.amount = amount /\ row.status = "REJECTED"
      /\ u \in Users /\ amount \in Amounts
  BY DEF IInv, TypeOK, FiledRows, WithdrawalRow, Status, RejectWithdrawal
<1>2. /\ withdrawal' = [withdrawal EXCEPT ![w] = row]
      /\ withdrawal \in [Withdrawals -> WithdrawalRow]
      /\ Move(u, "reserved", "available", amount, "WITHDRAWAL_REVERSAL")
      /\ UNCHANGED <<deposit, credits>>
  BY DEF IInv, TypeOK, RejectWithdrawal
<1> HIDE DEF row, u, amount
<1>3. /\ payouts' \in [Withdrawals -> Nat] /\ returns' \in [Withdrawals -> Nat]
      /\ SettledOnce'
  BY <1>1, <1>2 DEF IInv, TypeOK, SettledOnce, RejectWithdrawal
<1>4. \A v \in Users : Counted(row, v, "PENDING") - Counted(withdrawal[w], v, "PENDING")
        = IF v = u THEN Net("reserved", "reserved", "available", amount) ELSE 0
  BY <1>1, ConstantsAssumption DEF Counted, Net, u, amount
<1>5. \A v \in Users : Counted(withdrawal[w], v, "APPROVED") - Counted(row, v, "APPROVED")
        = IF v = u THEN Inflow("reserved", "available", amount) ELSE 0
  BY <1>1 DEF Counted, Inflow
<1>6. "reserved" \in Bucket /\ "available" \in Bucket
  BY DEF Bucket
<1> QED BY <1>1, <1>2, <1>3, <1>4, <1>5, <1>6, WithdrawalStep

\* The freeze flag is in no balance.
LEMMA SetWalletFrozenIInv ==
  ASSUME IInv, NEW u \in Users, NEW flag \in BOOLEAN, SetWalletFrozen(u, flag)
  PROVE  IInv'
<1> USE DEF IInv
<1>1. /\ wallet' = [wallet EXCEPT ![u] = [wallet[u] EXCEPT !.frozen = flag]]
      /\ wallet \in [Users -> Wallet]
      /\ UNCHANGED <<deposit, withdrawal, credits, payouts, returns>>
  BY DEF TypeOK, SetWalletFrozen
<1>2. /\ wallet' \in [Users -> Wallet]
      /\ \A v \in Users :
           /\ wallet'[v].reserved = wallet[v].reserved
           /\ wallet'[v].posted = wallet[v].posted
           /\ wallet'[v].deposited = wallet[v].deposited
           /\ wallet'[v].withdrawn = wallet[v].withdrawn
           /\ Total(wallet'[v]) = Total(wallet[v])
  BY <1>1 DEF Wallet, Total
<1>3. TypeOK' /\ FiledRows' /\ SettledOnce' /\ ApprovedOnce'
  BY <1>1, <1>2 DEF TypeOK, FiledRows, SettledOnce, ApprovedOnce
<1>4. BooksBalance'
  BY <1>2 DEF BooksBalance, Total
<1>5. \A v, s : /\ DepositSum(v, s)' = DepositSum(v, s)
                /\ WithdrawalSum(v, s)' = WithdrawalSum(v, s)
  BY <1>1, SumsUnchanged
<1>6. ReservedBacksWithdrawals' /\ CashConserved'
  BY <1>2, <1>5 DEF ReservedBacksWithdrawals, CashConserved, Total
<1> QED BY <1>3, <1>4, <1>6

-----------------------------------------------------------------------------
\* Every step of the specification preserves the inductive invariant.
LEMMA NextIInv == IInv /\ [Next]_vars => IInv'
<1> SUFFICES ASSUME IInv, [Next]_vars PROVE IInv'
  OBVIOUS
<1>1. ASSUME NEW d \in Deposits, NEW u \in Users, NEW amount \in Amounts,
             NEW trx \in TrxIds \cup {NoTrx}, CreateDeposit(d, u, amount, trx)
      PROVE  IInv'
  BY <1>1, CreateDepositIInv
<1>2. ASSUME NEW d \in Deposits, ApproveDeposit(d) PROVE IInv'
  BY <1>2, ApproveDepositIInv
<1>3. ASSUME NEW d \in Deposits, RejectDeposit(d) PROVE IInv'
  BY <1>3, RejectDepositIInv
<1>4. ASSUME NEW w \in Withdrawals, NEW u \in Users, NEW amount \in Amounts,
             RequestWithdrawal(w, u, amount)
      PROVE  IInv'
  BY <1>4, RequestWithdrawalIInv
<1>5. ASSUME NEW w \in Withdrawals, ApproveWithdrawal(w) PROVE IInv'
  BY <1>5, ApproveWithdrawalIInv
<1>6. ASSUME NEW w \in Withdrawals, RejectWithdrawal(w) PROVE IInv'
  BY <1>6, RejectWithdrawalIInv
<1>7. ASSUME NEW u \in Users, NEW flag \in BOOLEAN, SetWalletFrozen(u, flag)
      PROVE  IInv'
  BY <1>7, SetWalletFrozenIInv
<1>8. CASE UNCHANGED vars
  <2>1. \A v, s : /\ DepositSum(v, s)' = DepositSum(v, s)
                  /\ WithdrawalSum(v, s)' = WithdrawalSum(v, s)
    BY <1>8, SumsUnchanged DEF vars
  <2> QED
    BY <1>8, <2>1 DEF vars, IInv, TypeOK, FiledRows, BooksBalance, SettledOnce,
                      ApprovedOnce, ReservedBacksWithdrawals, CashConserved, Total
<1> QED BY <1>1, <1>2, <1>3, <1>4, <1>5, <1>6, <1>7, <1>8 DEF Next

\* The inductive invariant holds in every reachable state.
THEOREM Inductive == Spec => []IInv
BY InitIInv, NextIInv, PTL DEF Spec

\* Balances stay non-negative whatever is requested, approved and rejected.
THEOREM TypeCorrect == Spec => []TypeOK
<1>1. IInv => TypeOK
  BY DEF IInv
<1> QED BY <1>1, Inductive, PTL

\* Balances, lifetime counters and ledger rows agree.
THEOREM BooksAlwaysBalance == Spec => []BooksBalance
<1>1. IInv => BooksBalance
  BY DEF IInv
<1> QED BY <1>1, Inductive, PTL

\* A request is settled once, as its status says.
THEOREM AlwaysSettledOnce == Spec => []SettledOnce
<1>1. IInv => SettledOnce
  BY DEF IInv
<1> QED BY <1>1, Inductive, PTL

\* A transaction ID is claimed once.
THEOREM TrxAlwaysClaimedOnce == Spec => []TrxClaimedOnce
<1>1. IInv => TrxClaimedOnce
  BY DEF IInv, SettledOnce, ApprovedOnce, TrxClaimedOnce
<1> QED BY <1>1, Inductive, PTL

\* The reserved balance is what the pending withdrawals ask for.
THEOREM ReservedAlwaysBacked == Spec => []ReservedBacksWithdrawals
<1>1. IInv => ReservedBacksWithdrawals
  BY DEF IInv
<1> QED BY <1>1, Inductive, PTL

\* Coins enter with a verified deposit and leave with a paid withdrawal.
THEOREM CashAlwaysConserved == Spec => []CashConserved
<1>1. IInv => CashConserved
  BY DEF IInv
<1> QED BY <1>1, Inductive, PTL

-----------------------------------------------------------------------------
\* Nothing leaves a wallet that stays frozen: only a deposit moves coins in it.
THEOREM FrozenAlwaysKeepsMoney == Spec => FrozenKeepsMoney
<1> DEFINE Kept ==
      \A u \in Users : wallet[u].frozen /\ wallet'[u].frozen =>
        /\ wallet'[u].available >= wallet[u].available
        /\ wallet'[u].reserved = wallet[u].reserved
        /\ wallet'[u].escrow = wallet[u].escrow
<1>1. ASSUME IInv, [Next]_vars PROVE Kept
  <2>1. wallet \in [Users -> Wallet]
    BY <1>1 DEF IInv, TypeOK
  <2>2. CASE wallet' = wallet
    BY <2>1, <2>2 DEF Wallet
  <2>3. ASSUME NEW u \in Users, NEW flag \in BOOLEAN, SetWalletFrozen(u, flag)
        PROVE  Kept
    BY <2>1, <2>3 DEF SetWalletFrozen, Wallet
  <2>4. ASSUME NEW u \in Users, NEW src \in Bucket, NEW dst \in Bucket,
               NEW amount \in Nat, NEW kind, Move(u, src, dst, amount, kind),
               src = "external" => dst = "available"
        PROVE  Kept
    <3>1. /\ \A v \in Users : v # u => wallet'[v] = wallet[v]
          /\ wallet[u].frozen => src = "external"
          /\ wallet'[u].available = wallet[u].available + Net("available", src, dst, amount)
          /\ wallet'[u].reserved = wallet[u].reserved + Net("reserved", src, dst, amount)
          /\ wallet'[u].escrow = wallet[u].escrow + Net("escrow", src, dst, amount)
      <4>1. TypeOK
        BY <1>1 DEF IInv
      <4> QED BY <4>1, <2>4, MoveEffect DEF CanMove
    <3>2. \A v \in Users : /\ wallet[v].available \in Int /\ wallet[v].reserved \in Int
                           /\ wallet[v].escrow \in Int
      BY <2>1 DEF Wallet
    <3>3. wallet[u].frozen => /\ Net("available", src, dst, amount) = amount
                              /\ Net("reserved", src, dst, amount) = 0
                              /\ Net("escrow", src, dst, amount) = 0
      BY <2>4, <3>1 DEF Net
    <3>4. ASSUME NEW v \in Users, wallet[v].frozen
          PROVE  /\ wallet'[v].available >= wallet[v].available
                 /\ wallet'[v].reserved = wallet[v].reserved
                 /\ wallet'[v].escrow = wallet[v].escrow
      <4>1. CASE v = u
        BY <2>4, <3>1, <3>2, <3>3, <3>4, <4>1
      <4>2. CASE v # u
        BY <3>1, <3>2, <4>2
      <4> QED BY <4>1, <4>2
    <3> QED BY <3>4
  <2>5. ASSUME NEW d \in Deposits, ApproveDeposit(d) PROVE Kept
    <3>1. /\ deposit[d].user \in Users /\ deposit[d].amount \in Nat
          /\ Move(deposit[d].user, "external", "available", deposit[d].amount, "DEPOSIT")
      BY <1>1, <2>5 DEF ApproveDeposit, IInv, TypeOK, FiledRows, DepositRow
    <3>2. "external" \in Bucket /\ "available" \in Bucket
      BY DEF Bucket
    <3> HIDE DEF Kept
    <3> QED BY <2>4, <3>1, <3>2
  <2>6. ASSUME NEW w \in Withdrawals, NEW u \in Users, NEW amount \in Amounts,
               RequestWithdrawal(w, u, amount)
        PROVE  Kept
    <3>1. amount \in Nat /\ Move(u, "available", "reserved", amount, "WITHDRAWAL")
      BY <2>6, ConstantsAssumption DEF RequestWithdrawal
    <3>2. "available" \in Bucket /\ "reserved" \in Bucket /\ "available" # "external"
      BY DEF Bucket
    <3> HIDE DEF Kept
    <3> QED BY <2>4, <3>1, <3>2
  <2>7. ASSUME NEW w \in Withdrawals, ApproveWithdrawal(w) \/ RejectWithdrawal(w)
        PROVE  Kept
    <3>1. withdrawal[w].user \in Users /\ withdrawal[w].amount \in Nat
      BY <1>1, <2>7
         DEF ApproveWithdrawal, RejectWithdrawal, IInv, TypeOK, FiledRows, WithdrawalRow
    <3>2. \/ Move(withdrawal[w].user, "reserved", "external", withdrawal[w].amount,
                  "WITHDRAWAL")
          \/ Move(withdrawal[w].user, "reserved", "available", withdrawal[w].amount,
                  "WITHDRAWAL_REVERSAL")
      BY <2>7 DEF ApproveWithdrawal, RejectWithdrawal
    <3>3. /\ "reserved" \in Bucket /\ "external" \in Bucket /\ "available" \in Bucket
          /\ "reserved" # "external"
      BY DEF Bucket
    <3> HIDE DEF Kept
    <3> QED BY <2>4, <3>1, <3>2, <3>3
  <2>8. wallet' # wallet =>
          \/ \E d \in Deposits : ApproveDeposit(d)
          \/ \E w \in Withdrawals :
               \/ \E u \in Users, amount \in Amounts : RequestWithdrawal(w, u, amount)
               \/ ApproveWithdrawal(w) \/ RejectWithdrawal(w)
          \/ \E u \in Users, flag \in BOOLEAN : SetWalletFrozen(u, flag)
    BY <1>1 DEF Next, vars, CreateDeposit, RejectDeposit
  <2> HIDE DEF Kept
  <2> QED BY <2>2, <2>3, <2>5, <2>6, <2>7, <2>8
<1>2. IInv /\ [Next]_vars => [Kept]_vars
  BY <1>1
<1> QED BY <1>2, Inductive, PTL DEF FrozenKeepsMoney, Spec

-----------------------------------------------------------------------------
\* A step that changes no total and no settled sum is a stutter of the treasury.
LEMMA TreasuryStutters ==
  ASSUME \A v \in Users : /\ Total(wallet'[v]) = Total(wallet[v])
                          /\ DepositSum(v, "APPROVED")' = DepositSum(v, "APPROVED")
                          /\ WithdrawalSum(v, "APPROVED")' = WithdrawalSum(v, "APPROVED")
  PROVE  UNCHANGED Abstract!vars
BY DEF Abstract!vars, Total

\* Two functions that differ at one user only.
LEMMA ChangeAtOne ==
  ASSUME NEW f, NEW g, NEW u \in Users,
         f = [v \in Users |-> f[v]], g = [v \in Users |-> g[v]],
         \A v \in Users : v # u => g[v] = f[v]
  PROVE  g = [f EXCEPT ![u] = g[u]]
<1>1. ASSUME NEW v \in Users PROVE g[v] = [f EXCEPT ![u] = g[u]][v]
  <2>1. CASE v = u
    BY <2>1
  <2>2. CASE v # u
    BY <2>2
  <2> QED BY <2>1, <2>2
<1>2. [f EXCEPT ![u] = g[u]] = [v \in Users |-> [f EXCEPT ![u] = g[u]][v]]
  OBVIOUS
<1>3. [v \in Users |-> g[v]] = [v \in Users |-> [f EXCEPT ![u] = g[u]][v]]
  BY <1>1
<1> QED BY <1>2, <1>3

\* A step that adds to one user's total and verified deposits verifies a deposit.
LEMMA TreasuryVerifies ==
  ASSUME NEW u \in Users, NEW amount \in Int,
         \A v \in Users :
           /\ Total(wallet'[v]) = Total(wallet[v]) + IF v = u THEN amount ELSE 0
           /\ DepositSum(v, "APPROVED")'
                = DepositSum(v, "APPROVED") + IF v = u THEN amount ELSE 0
           /\ WithdrawalSum(v, "APPROVED")' = WithdrawalSum(v, "APPROVED")
           /\ Total(wallet[v]) \in Int /\ DepositSum(v, "APPROVED") \in Int
  PROVE  Abstract!Verify(u, amount)
<1> DEFINE Coins == [v \in Users |-> Total(wallet[v])]
           CoinsAfter == [v \in Users |-> Total(wallet'[v])]
           Sum == [v \in Users |-> DepositSum(v, "APPROVED")]
           SumAfter == [v \in Users |-> DepositSum(v, "APPROVED")']
<1>1. CoinsAfter = [Coins EXCEPT ![u] = Coins[u] + amount]
  <2>1. /\ Coins = [v \in Users |-> Coins[v]]
        /\ CoinsAfter = [v \in Users |-> CoinsAfter[v]]
        /\ \A v \in Users : v # u => CoinsAfter[v] = Coins[v]
        /\ CoinsAfter[u] = Coins[u] + amount
    OBVIOUS
  <2> HIDE DEF Coins, CoinsAfter
  <2>2. CoinsAfter = [Coins EXCEPT ![u] = CoinsAfter[u]]
    BY <2>1, ChangeAtOne
  <2> QED BY <2>1, <2>2
<1>2. SumAfter = [Sum EXCEPT ![u] = Sum[u] + amount]
  <2>1. /\ Sum = [v \in Users |-> Sum[v]]
        /\ SumAfter = [v \in Users |-> SumAfter[v]]
        /\ \A v \in Users : v # u => SumAfter[v] = Sum[v]
        /\ SumAfter[u] = Sum[u] + amount
    OBVIOUS
  <2> HIDE DEF Sum, SumAfter
  <2>2. SumAfter = [Sum EXCEPT ![u] = SumAfter[u]]
    BY <2>1, ChangeAtOne
  <2> QED BY <2>1, <2>2
<1>3. [v \in Users |-> WithdrawalSum(v, "APPROVED")']
        = [v \in Users |-> WithdrawalSum(v, "APPROVED")]
  OBVIOUS
<1> QED BY <1>1, <1>2, <1>3 DEF Abstract!Verify, Total

\* A step that takes from one user's total what is added to the paid withdrawals
\* is a payment.
LEMMA TreasuryPays ==
  ASSUME NEW u \in Users, NEW amount \in Int,
         Total(wallet[u]) >= amount,
         \A v \in Users :
           /\ Total(wallet'[v]) = Total(wallet[v]) - IF v = u THEN amount ELSE 0
           /\ WithdrawalSum(v, "APPROVED")'
                = WithdrawalSum(v, "APPROVED") + IF v = u THEN amount ELSE 0
           /\ DepositSum(v, "APPROVED")' = DepositSum(v, "APPROVED")
           /\ Total(wallet[v]) \in Int /\ WithdrawalSum(v, "APPROVED") \in Int
  PROVE  Abstract!Pay(u, amount)
<1> DEFINE Coins == [v \in Users |-> Total(wallet[v])]
           CoinsAfter == [v \in Users |-> Total(wallet'[v])]
           Sum == [v \in Users |-> WithdrawalSum(v, "APPROVED")]
           SumAfter == [v \in Users |-> WithdrawalSum(v, "APPROVED")']
<1>1. CoinsAfter = [Coins EXCEPT ![u] = Coins[u] - amount]
  <2>1. /\ Coins = [v \in Users |-> Coins[v]]
        /\ CoinsAfter = [v \in Users |-> CoinsAfter[v]]
        /\ \A v \in Users : v # u => CoinsAfter[v] = Coins[v]
        /\ CoinsAfter[u] = Coins[u] - amount
    OBVIOUS
  <2> HIDE DEF Coins, CoinsAfter
  <2>2. CoinsAfter = [Coins EXCEPT ![u] = CoinsAfter[u]]
    BY <2>1, ChangeAtOne
  <2> QED BY <2>1, <2>2
<1>2. SumAfter = [Sum EXCEPT ![u] = Sum[u] + amount]
  <2>1. /\ Sum = [v \in Users |-> Sum[v]]
        /\ SumAfter = [v \in Users |-> SumAfter[v]]
        /\ \A v \in Users : v # u => SumAfter[v] = Sum[v]
        /\ SumAfter[u] = Sum[u] + amount
    OBVIOUS
  <2> HIDE DEF Sum, SumAfter
  <2>2. SumAfter = [Sum EXCEPT ![u] = SumAfter[u]]
    BY <2>1, ChangeAtOne
  <2> QED BY <2>1, <2>2
<1>3. [v \in Users |-> DepositSum(v, "APPROVED")']
        = [v \in Users |-> DepositSum(v, "APPROVED")]
  OBVIOUS
<1> QED BY <1>1, <1>2, <1>3 DEF Abstract!Pay, Total

\* What writing a deposit row does to the approved sum.
LEMMA ApprovedDeposits ==
  ASSUME TypeOK, FiledRows, NEW d \in Deposits, NEW row \in DepositRow,
         deposit' = [deposit EXCEPT ![d] = row],
         deposit[d].status # "APPROVED", NEW v \in Users
  PROVE  /\ DepositSum(v, "APPROVED") \in Int
         /\ DepositSum(v, "APPROVED")'
              = DepositSum(v, "APPROVED") + Counted(row, v, "APPROVED")
<1>1. Counted(deposit[d], v, "APPROVED") = 0
  BY DEF Counted
<1>2. /\ DepositSum(v, "APPROVED") \in Int
      /\ Counted(row, v, "APPROVED") \in Int
      /\ DepositSum(v, "APPROVED")' = DepositSum(v, "APPROVED")
           - Counted(deposit[d], v, "APPROVED") + Counted(row, v, "APPROVED")
  BY DepositUpdate
<1> QED BY <1>1, <1>2

\* What writing a withdrawal row does to the approved sum.
LEMMA ApprovedWithdrawals ==
  ASSUME TypeOK, FiledRows, NEW w \in Withdrawals, NEW row \in WithdrawalRow,
         withdrawal' = [withdrawal EXCEPT ![w] = row],
         withdrawal[w].status # "APPROVED", NEW v \in Users
  PROVE  /\ WithdrawalSum(v, "APPROVED") \in Int
         /\ WithdrawalSum(v, "APPROVED")'
              = WithdrawalSum(v, "APPROVED") + Counted(row, v, "APPROVED")
<1>1. Counted(withdrawal[w], v, "APPROVED") = 0
  BY DEF Counted
<1>2. /\ WithdrawalSum(v, "APPROVED") \in Int
      /\ Counted(row, v, "APPROVED") \in Int
      /\ WithdrawalSum(v, "APPROVED")' = WithdrawalSum(v, "APPROVED")
           - Counted(withdrawal[w], v, "APPROVED") + Counted(row, v, "APPROVED")
  BY WithdrawalUpdate
<1> QED BY <1>1, <1>2

\* What a movement does to every user's total.
LEMMA TotalEffect ==
  ASSUME TypeOK, NEW u \in Users, NEW src \in Bucket, NEW dst \in Bucket,
         NEW amount \in Nat, NEW kind, Move(u, src, dst, amount, kind)
  PROVE  /\ \A v \in Users :
              /\ Total(wallet[v]) \in Int
              /\ Total(wallet'[v])
                   = Total(wallet[v]) + IF v = u THEN Inflow(src, dst, amount) ELSE 0
         /\ amount > 0
         /\ src = "reserved" => Total(wallet[u]) >= amount
<1>1. \A v \in Users : wallet[v] \in Wallet
  BY DEF TypeOK
<1>2. /\ \A v \in Users : v # u => wallet'[v] = wallet[v]
      /\ Total(wallet'[u]) = Total(wallet[u]) + Inflow(src, dst, amount)
      /\ CanMove(wallet[u], src, dst, amount)
  BY <1>1, MoveEffect
<1>3. \A v \in Users : Total(wallet[v]) \in Int
  BY <1>1 DEF Total, Wallet
<1>4. amount > 0 /\ (src = "reserved" => wallet[u].reserved >= amount)
  BY <1>2 DEF CanMove
<1>5. wallet[u].reserved \in Nat /\ wallet[u].available \in Nat /\ wallet[u].escrow \in Nat
  BY <1>1 DEF Wallet
<1>6. src = "reserved" => Total(wallet[u]) >= amount
  BY <1>4, <1>5 DEF Total
<1> QED BY <1>2, <1>3, <1>4, <1>6

-----------------------------------------------------------------------------
\* Filing or rejecting a deposit changes nothing the treasury counts.
LEMMA UnsettledDeposit ==
  ASSUME TypeOK, FiledRows, NEW d \in Deposits, NEW row \in DepositRow,
         deposit' = [deposit EXCEPT ![d] = row],
         deposit[d].status # "APPROVED", row.status # "APPROVED",
         UNCHANGED <<wallet, withdrawal>>
  PROVE  UNCHANGED Abstract!vars
<1>1. \A v \in Users : DepositSum(v, "APPROVED")' = DepositSum(v, "APPROVED")
  <2> SUFFICES ASSUME NEW v \in Users
               PROVE  DepositSum(v, "APPROVED")' = DepositSum(v, "APPROVED")
    OBVIOUS
  <2>1. Counted(row, v, "APPROVED") = 0
    BY DEF Counted
  <2>2. /\ DepositSum(v, "APPROVED") \in Int
        /\ DepositSum(v, "APPROVED")'
             = DepositSum(v, "APPROVED") + Counted(row, v, "APPROVED")
    BY ApprovedDeposits
  <2> QED BY <2>1, <2>2
<1>2. \A v, s : WithdrawalSum(v, s)' = WithdrawalSum(v, s)
  BY SumsUnchanged
<1> QED BY <1>1, <1>2, TreasuryStutters

\* Neither does a movement between two buckets of one wallet.
LEMMA UnsettledWithdrawal ==
  ASSUME TypeOK, FiledRows, NEW w \in Withdrawals, NEW row \in WithdrawalRow,
         withdrawal' = [withdrawal EXCEPT ![w] = row],
         withdrawal[w].status # "APPROVED", row.status # "APPROVED",
         NEW u \in Users, NEW src \in {"available", "reserved"},
         NEW dst \in {"available", "reserved"}, NEW amount \in Nat, NEW kind,
         Move(u, src, dst, amount, kind), UNCHANGED deposit
  PROVE  UNCHANGED Abstract!vars
<1>1. \A v \in Users : WithdrawalSum(v, "APPROVED")' = WithdrawalSum(v, "APPROVED")
  <2> SUFFICES ASSUME NEW v \in Users
               PROVE  WithdrawalSum(v, "APPROVED")' = WithdrawalSum(v, "APPROVED")
    OBVIOUS
  <2>1. Counted(row, v, "APPROVED") = 0
    BY DEF Counted
  <2>2. /\ WithdrawalSum(v, "APPROVED") \in Int
        /\ WithdrawalSum(v, "APPROVED")'
             = WithdrawalSum(v, "APPROVED") + Counted(row, v, "APPROVED")
    BY ApprovedWithdrawals
  <2> QED BY <2>1, <2>2
<1>2. \A v, s : DepositSum(v, s)' = DepositSum(v, s)
  BY SumsUnchanged
<1>3. src \in Bucket /\ dst \in Bucket /\ Inflow(src, dst, amount) = 0
  BY DEF Bucket, Inflow
<1>4. \A v \in Users :
        /\ Total(wallet[v]) \in Int
        /\ Total(wallet'[v])
             = Total(wallet[v]) + IF v = u THEN Inflow(src, dst, amount) ELSE 0
  BY <1>3, TotalEffect
<1>5. \A v \in Users : Total(wallet'[v]) = Total(wallet[v])
  BY <1>3, <1>4
<1> QED BY <1>1, <1>2, <1>5, TreasuryStutters

\* An approved deposit is a verified one.
LEMMA ApproveDepositVerifies ==
  ASSUME TypeOK, FiledRows, NEW d \in Deposits, ApproveDeposit(d)
  PROVE  Abstract!Next
<1> DEFINE u == deposit[d].user
           amount == deposit[d].amount
           row == [deposit[d] EXCEPT !.status = "APPROVED"]
<1>1. /\ row \in DepositRow /\ deposit[d].status = "PENDING"
      /\ row.user = u /\ row.amount = amount /\ row.status = "APPROVED"
      /\ u \in Users /\ amount \in Amounts /\ amount \in Nat
  BY DEF TypeOK, FiledRows, DepositRow, Status, ApproveDeposit
<1>2. /\ deposit' = [deposit EXCEPT ![d] = row]
      /\ Move(u, "external", "available", amount, "DEPOSIT")
      /\ UNCHANGED withdrawal
  BY DEF ApproveDeposit
<1> HIDE DEF u, amount, row
<1>3. /\ "external" \in Bucket /\ "available" \in Bucket
      /\ Inflow("external", "available", amount) = amount
  BY <1>1 DEF Bucket, Inflow
<1>4. /\ \A v \in Users :
           /\ Total(wallet[v]) \in Int
           /\ Total(wallet'[v]) = Total(wallet[v])
                + IF v = u THEN Inflow("external", "available", amount) ELSE 0
      /\ amount > 0
  BY <1>1, <1>2, <1>3, TotalEffect
<1>5. \A v \in Users :
        /\ DepositSum(v, "APPROVED") \in Int
        /\ DepositSum(v, "APPROVED")'
             = DepositSum(v, "APPROVED") + Counted(row, v, "APPROVED")
  BY <1>1, <1>2, ApprovedDeposits
<1>6. \A v \in Users : Counted(row, v, "APPROVED") = IF v = u THEN amount ELSE 0
  BY <1>1 DEF Counted
<1>7. \A v, s : WithdrawalSum(v, s)' = WithdrawalSum(v, s)
  BY <1>2, SumsUnchanged
<1>8. \A v \in Users :
        /\ Total(wallet'[v]) = Total(wallet[v]) + IF v = u THEN amount ELSE 0
        /\ DepositSum(v, "APPROVED")'
             = DepositSum(v, "APPROVED") + IF v = u THEN amount ELSE 0
        /\ WithdrawalSum(v, "APPROVED")' = WithdrawalSum(v, "APPROVED")
        /\ Total(wallet[v]) \in Int /\ DepositSum(v, "APPROVED") \in Int
  BY <1>3, <1>4, <1>5, <1>6, <1>7
<1>9. Abstract!Verify(u, amount)
  BY <1>1, <1>8, TreasuryVerifies
<1> QED BY <1>1, <1>4, <1>9 DEF Abstract!Next

\* An approved withdrawal is a paid one.
LEMMA ApproveWithdrawalPays ==
  ASSUME TypeOK, FiledRows, NEW w \in Withdrawals, ApproveWithdrawal(w)
  PROVE  Abstract!Next
<1> DEFINE u == withdrawal[w].user
           amount == withdrawal[w].amount
           row == [withdrawal[w] EXCEPT !.status = "APPROVED"]
<1>1. /\ row \in WithdrawalRow /\ withdrawal[w].status = "PENDING"
      /\ row.user = u /\ row.amount = amount /\ row.status = "APPROVED"
      /\ u \in Users /\ amount \in Amounts /\ amount \in Nat
  BY DEF TypeOK, FiledRows, WithdrawalRow, Status, ApproveWithdrawal
<1>2. /\ withdrawal' = [withdrawal EXCEPT ![w] = row]
      /\ Move(u, "reserved", "external", amount, "WITHDRAWAL")
      /\ UNCHANGED deposit
  BY DEF ApproveWithdrawal
<1> HIDE DEF u, amount, row
<1>3. /\ "external" \in Bucket /\ "reserved" \in Bucket
      /\ Inflow("reserved", "external", amount) = - amount
  BY <1>1 DEF Bucket, Inflow
<1>4. /\ \A v \in Users :
           /\ Total(wallet[v]) \in Int
           /\ Total(wallet'[v]) = Total(wallet[v])
                + IF v = u THEN Inflow("reserved", "external", amount) ELSE 0
      /\ amount > 0 /\ Total(wallet[u]) >= amount
  BY <1>1, <1>2, <1>3, TotalEffect
<1>5. \A v \in Users :
        /\ WithdrawalSum(v, "APPROVED") \in Int
        /\ WithdrawalSum(v, "APPROVED")'
             = WithdrawalSum(v, "APPROVED") + Counted(row, v, "APPROVED")
  BY <1>1, <1>2, ApprovedWithdrawals
<1>6. \A v \in Users : Counted(row, v, "APPROVED") = IF v = u THEN amount ELSE 0
  BY <1>1 DEF Counted
<1>7. \A v, s : DepositSum(v, s)' = DepositSum(v, s)
  BY <1>2, SumsUnchanged
<1>8. \A v \in Users :
        /\ Total(wallet'[v]) = Total(wallet[v]) - IF v = u THEN amount ELSE 0
        /\ WithdrawalSum(v, "APPROVED")'
             = WithdrawalSum(v, "APPROVED") + IF v = u THEN amount ELSE 0
        /\ DepositSum(v, "APPROVED")' = DepositSum(v, "APPROVED")
        /\ Total(wallet[v]) \in Int /\ WithdrawalSum(v, "APPROVED") \in Int
  BY <1>1, <1>3, <1>4, <1>5, <1>6, <1>7
<1>9. Abstract!Pay(u, amount)
  BY <1>1, <1>4, <1>8, TreasuryPays
<1> QED BY <1>1, <1>4, <1>9 DEF Abstract!Next

\* The wallets start as the treasury does.
LEMMA TreasuryInit == Init => Abstract!Init
<1> SUFFICES ASSUME Init PROVE Abstract!Init
  OBVIOUS
<1>1. ASSUME NEW u \in Users
      PROVE  /\ DepositSum(u, "APPROVED") = 0 /\ WithdrawalSum(u, "APPROVED") = 0
             /\ Total(wallet[u]) = OpeningBalance
  <2>1. /\ Share(deposit, u, "APPROVED") = [k \in 1..MaxDeposits |-> 0]
        /\ Share(withdrawal, u, "APPROVED") = [k \in 1..MaxWithdrawals |-> 0]
    BY DEF Init, Share, Counted, Deposits, Withdrawals
  <2>2. Total(wallet[u]) = OpeningBalance
    BY ConstantsAssumption DEF Init, NewWallet, Total
  <2> QED BY <2>1, <2>2, ConstantsAssumption, SumToZero DEF DepositSum, WithdrawalSum
<1> QED BY <1>1 DEF Abstract!Init

\* Every step of the wallets is a step or a stutter of the treasury.
LEMMA TreasuryStep ==
  ASSUME TypeOK, FiledRows, [Next]_vars
  PROVE  [Abstract!Next]_(Abstract!vars)
<1>1. ASSUME NEW d \in Deposits, NEW u \in Users, NEW amount \in Amounts,
             NEW trx \in TrxIds \cup {NoTrx}, CreateDeposit(d, u, amount, trx)
      PROVE  UNCHANGED Abstract!vars
  <2> DEFINE row == [user |-> u, amount |-> amount, trx |-> trx, status |-> "PENDING"]
  <2>1. row \in DepositRow /\ deposit[d].status # "APPROVED" /\ row.status # "APPROVED"
    BY <1>1, ConstantsAssumption DEF DepositRow, Status, CreateDeposit, NextKey
  <2>2. deposit' = [deposit EXCEPT ![d] = row] /\ UNCHANGED <<wallet, withdrawal>>
    BY <1>1 DEF CreateDeposit
  <2> HIDE DEF row
  <2> QED BY <2>1, <2>2, UnsettledDeposit
<1>2. ASSUME NEW d \in Deposits, RejectDeposit(d)
      PROVE  UNCHANGED Abstract!vars
  <2> DEFINE row == [deposit[d] EXCEPT !.status = "REJECTED"]
  <2>1. row \in DepositRow /\ deposit[d].status # "APPROVED" /\ row.status # "APPROVED"
    BY <1>2 DEF DepositRow, Status, RejectDeposit, TypeOK
  <2>2. deposit' = [deposit EXCEPT ![d] = row] /\ UNCHANGED <<wallet, withdrawal>>
    BY <1>2 DEF RejectDeposit
  <2> HIDE DEF row
  <2> QED BY <2>1, <2>2, UnsettledDeposit
<1>3. ASSUME NEW w \in Withdrawals, NEW u \in Users, NEW amount \in Amounts,
             RequestWithdrawal(w, u, amount)
      PROVE  UNCHANGED Abstract!vars
  <2> DEFINE row == [user |-> u, amount |-> amount, status |-> "PENDING"]
  <2>1. /\ row \in WithdrawalRow /\ row.status # "APPROVED" /\ amount \in Nat
        /\ withdrawal[w].status # "APPROVED"
    BY <1>3, ConstantsAssumption DEF WithdrawalRow, Status, RequestWithdrawal, NextKey
  <2>2. /\ withdrawal' = [withdrawal EXCEPT ![w] = row] /\ UNCHANGED deposit
        /\ Move(u, "available", "reserved", amount, "WITHDRAWAL")
    BY <1>3 DEF RequestWithdrawal
  <2> HIDE DEF row
  <2> QED BY <2>1, <2>2, UnsettledWithdrawal
<1>4. ASSUME NEW w \in Withdrawals, RejectWithdrawal(w)
      PROVE  UNCHANGED Abstract!vars
  <2> DEFINE row == [withdrawal[w] EXCEPT !.status = "REJECTED"]
             u == withdrawal[w].user
             amount == withdrawal[w].amount
  <2>1. /\ row \in WithdrawalRow /\ row.status # "APPROVED" /\ amount \in Nat
        /\ withdrawal[w].status # "APPROVED" /\ u \in Users
    BY <1>4 DEF WithdrawalRow, Status, RejectWithdrawal, TypeOK, FiledRows
  <2>2. /\ withdrawal' = [withdrawal EXCEPT ![w] = row] /\ UNCHANGED deposit
        /\ Move(u, "reserved", "available", amount, "WITHDRAWAL_REVERSAL")
    BY <1>4 DEF RejectWithdrawal
  <2> HIDE DEF row, u, amount
  <2> QED BY <2>1, <2>2, UnsettledWithdrawal
<1>5. ASSUME NEW u \in Users, NEW flag \in BOOLEAN, SetWalletFrozen(u, flag)
      PROVE  UNCHANGED Abstract!vars
  <2>1. /\ \A v \in Users : Total(wallet'[v]) = Total(wallet[v])
        /\ UNCHANGED <<deposit, withdrawal>>
    BY <1>5 DEF TypeOK, SetWalletFrozen, Wallet, Total
  <2>2. \A v, s : /\ DepositSum(v, s)' = DepositSum(v, s)
                  /\ WithdrawalSum(v, s)' = WithdrawalSum(v, s)
    BY <2>1, SumsUnchanged
  <2> QED BY <2>1, <2>2, TreasuryStutters
<1>6. CASE UNCHANGED vars
  <2>1. \A v, s : /\ DepositSum(v, s)' = DepositSum(v, s)
                  /\ WithdrawalSum(v, s)' = WithdrawalSum(v, s)
    BY <1>6, SumsUnchanged DEF vars
  <2>2. \A v \in Users : Total(wallet'[v]) = Total(wallet[v])
    BY <1>6 DEF vars
  <2> QED BY <2>1, <2>2, TreasuryStutters
<1> QED
  BY <1>1, <1>2, <1>3, <1>4, <1>5, <1>6, ApproveDepositVerifies, ApproveWithdrawalPays
     DEF Next

\* The wallets implement the treasury: no interleaving of requests, approvals,
\* rejections and freezes creates or destroys coins behind its back.
THEOREM WalletsImplementTreasury == Spec => ImplementsTreasury
<1>1. IInv /\ [Next]_vars => [Abstract!Next]_(Abstract!vars)
  BY TreasuryStep DEF IInv
<1> QED BY <1>1, TreasuryInit, Inductive, PTL DEF Spec, ImplementsTreasury, Abstract!Spec

=============================================================================
