------------------------- MODULE AdminConsole_proofs -------------------------
(***************************************************************************)
(* The invariants of AdminConsole hold for every set of users and amounts, *)
(* for every number of requests and for every number of open forms.        *)
(*                                                                         *)
(* The forms break what Wallets promises of the statuses, and the proofs   *)
(* of Wallets_proofs with it.  What remains is proved from less.  That a   *)
(* repeated settlement needs a reopened row is inductive once it counts    *)
(* the settlement still to come (Reopenings).  That money follows the      *)
(* postings needs that nothing is posted for a row before it is filed,     *)
(* because filing it decides its owner and amount (Unposted).  That rows,  *)
(* once filed, stay so rests on forms showing filed rows only              *)
(* (FormsOfRows).                                                          *)
(***************************************************************************)
EXTENDS AdminConsole, Wallets_proofs

\* An open form shows a row of the table.
FormsOfRows ==
  /\ \A d \in Deposits : depositForm[d] # "NONE" => deposit[d].status # "NONE"
  /\ \A w \in Withdrawals : withdrawalForm[w] # "NONE" => withdrawal[w].status # "NONE"

\* Nothing is posted for a row that has not been filed.
Unposted ==
  /\ \A d \in Deposits : deposit[d].status = "NONE" => credits[d] = 0
  /\ \A w \in Withdrawals : withdrawal[w].status = "NONE" => payouts[w] = 0

\* A row that has not been settled may be settled once more.
ToCome(status) == IF status \in {"NONE", "PENDING"} THEN 1 ELSE 0

\* RepeatsNeedReopening, with the settlement to come.
Reopenings ==
  /\ \A d \in Deposits : credits[d] + ToCome(deposit[d].status) <= 1 + reopened[d]
  /\ \A w \in Withdrawals :
       payouts[w] + returns[w] + ToCome(withdrawal[w].status) <= 1 + rewound[w]

\* The inductive invariant.
ConsoleIInv ==
  /\ ConsoleTypeOK
  /\ FiledRows
  /\ FormsOfRows
  /\ Unposted
  /\ Reopenings
  /\ MoneyFollowsPostings

-----------------------------------------------------------------------------
(* What a form or an add form writes without the services.                 *)

\* A deposit row written as it was posted: the status of a filed row, or a new
\* row for which nothing is posted yet.
RawDeposit(d, row) ==
  /\ deposit' = [deposit EXCEPT ![d] = row]
  /\ UNCHANGED <<wallet, withdrawal, credits, payouts, returns>>
  /\ row \in DepositRow /\ row.status # "NONE"
  /\ row.user \in Users /\ row.amount \in Amounts
  /\ \/ deposit[d].status = "NONE"
     \/ row.user = deposit[d].user /\ row.amount = deposit[d].amount

\* The same for a withdrawal.
RawWithdrawal(w, row) ==
  /\ withdrawal' = [withdrawal EXCEPT ![w] = row]
  /\ UNCHANGED <<wallet, deposit, credits, payouts, returns>>
  /\ row \in WithdrawalRow /\ row.status # "NONE"
  /\ row.user \in Users /\ row.amount \in Amounts
  /\ \/ withdrawal[w].status = "NONE"
     \/ row.user = withdrawal[w].user /\ row.amount = withdrawal[w].amount

\* What SaveRawDeposit writes, from a form that shows a filed row.
LEMMA SavedRawDeposit ==
  ASSUME TypeOK, FiledRows, NEW d \in Deposits, NEW posted \in Status \ {"NONE"},
         deposit[d].status # "NONE", SaveRawDeposit(d, posted)
  PROVE  RawDeposit(d, [deposit[d] EXCEPT !.status = posted])
<1>1. deposit[d] \in DepositRow /\ deposit[d].user \in Users /\ deposit[d].amount \in Amounts
  BY DEF TypeOK, FiledRows
<1>2. deposit' = [deposit EXCEPT ![d] = [deposit[d] EXCEPT !.status = posted]]
  BY DEF SaveRawDeposit
<1> QED
  BY <1>1, <1>2 DEF SaveRawDeposit, RawDeposit, DepositRow

\* What SaveRawWithdrawal writes.
LEMMA SavedRawWithdrawal ==
  ASSUME TypeOK, FiledRows, NEW w \in Withdrawals, NEW posted \in Status \ {"NONE"},
         withdrawal[w].status # "NONE", SaveRawWithdrawal(w, posted)
  PROVE  RawWithdrawal(w, [withdrawal[w] EXCEPT !.status = posted])
<1>1. /\ withdrawal[w] \in WithdrawalRow /\ withdrawal[w].user \in Users
      /\ withdrawal[w].amount \in Amounts
  BY DEF TypeOK, FiledRows
<1>2. withdrawal' = [withdrawal EXCEPT ![w] = [withdrawal[w] EXCEPT !.status = posted]]
  BY DEF SaveRawWithdrawal
<1> QED
  BY <1>1, <1>2 DEF SaveRawWithdrawal, RawWithdrawal, WithdrawalRow

\* What the add forms write.
LEMMA AddedRows ==
  ASSUME NEW u \in Users, NEW amount \in Amounts, NEW posted \in Status \ {"NONE"}
  PROVE  /\ \A d \in Deposits, trx \in TrxIds \cup {NoTrx} :
              AddDeposit(d, u, amount, trx, posted) =>
                RawDeposit(d, [user |-> u, amount |-> amount, trx |-> trx, status |-> posted])
         /\ \A w \in Withdrawals :
              AddWithdrawal(w, u, amount, posted) =>
                RawWithdrawal(w, [user |-> u, amount |-> amount, status |-> posted])
BY ConstantsAssumption
   DEF AddDeposit, AddWithdrawal, NextKey, RawDeposit, RawWithdrawal, DepositRow, WithdrawalRow

\* Writing such rows keeps the types and the filed rows filed.
LEMMA RawKeepsRows ==
  ASSUME TypeOK, FiledRows,
         \/ \E d \in Deposits : \E row : RawDeposit(d, row)
         \/ \E w \in Withdrawals : \E row : RawWithdrawal(w, row)
  PROVE  TypeOK' /\ FiledRows'
BY DEF RawDeposit, RawWithdrawal, TypeOK, FiledRows

-----------------------------------------------------------------------------
(* What the postings of a table add up to.                                 *)

\* The shape of a table that Posted can add up, and of two that differ in a row.
Postings(table, counts, n) ==
  DOMAIN table = 1..n /\ \A i \in 1..n : table[i].amount \in Nat /\ counts[i] \in Nat

SameBut(k, table, counts, after, times, n) ==
  \A i \in (1..n) \ {k} : after[i] = table[i] /\ times[i] = counts[i]

\* When one row and its counter change, the sum changes by that row's part.
LEMMA PostedUpdate ==
  ASSUME NEW n \in Nat, NEW table, NEW counts, NEW after, NEW times, NEW k \in 1..n, NEW u,
         Postings(table, counts, n), Postings(after, times, n),
         SameBut(k, table, counts, after, times, n)
  PROVE  /\ SumTo(Posted(table, counts, u), n) \in Int
         /\ SumTo(Posted(after, times, u), n)
              = SumTo(Posted(table, counts, u), n)
                - Posted(table, counts, u)[k] + Posted(after, times, u)[k]
<1> DEFINE f == Posted(table, counts, u)
           g == Posted(after, times, u)
<1>1. f \in [1..n -> Int]
  <2>1. \A i \in 1..n : counts[i] * table[i].amount \in Int
    BY DEF Postings
  <2> QED
    BY <2>1 DEF Posted, Postings
<1>2. g \in [1..n -> Int] /\ \A i \in 1..n : i # k => g[i] = f[i]
  <2>1. \A i \in 1..n : times[i] * after[i].amount \in Int
    BY DEF Postings
  <2> QED
    BY <2>1 DEF Posted, Postings, SameBut
<1> DEFINE v == g[k]
<1> HIDE DEF f, g
<1>3. g = [f EXCEPT ![k] = v] /\ v \in Int
  BY <1>1, <1>2
<1> HIDE DEF v
<1>4. SumTo([f EXCEPT ![k] = v], n) = SumTo(f, n) - f[k] + v
  BY <1>1, <1>3, SumToUpdate
<1>5. SumTo(f, n) \in Int
  BY <1>1, SumToInt
<1> QED
  BY <1>3, <1>4, <1>5 DEF f, g, v

\* The two sums of MoneyFollowsPostings.
DepositsPosted(u) == SumTo(Posted(deposit, credits, u), MaxDeposits)
WithdrawalsPosted(u) == SumTo(Posted(withdrawal, payouts, u), MaxWithdrawals)

\* What one row contributes.
Part(row, times, u) == IF row.user = u THEN times * row.amount ELSE 0

\* PostedUpdate for the deposits.
LEMMA DepositsPostedUpdate ==
  ASSUME TypeOK, TypeOK', NEW d \in Deposits, NEW u,
         \A e \in Deposits \ {d} : deposit'[e] = deposit[e] /\ credits'[e] = credits[e]
  PROVE  /\ DepositsPosted(u) \in Int
         /\ DepositsPosted(u)' = DepositsPosted(u)
              - Part(deposit[d], credits[d], u) + Part(deposit'[d], credits'[d], u)
<1>1. /\ d \in 1..MaxDeposits /\ MaxDeposits \in Nat
      /\ Postings(deposit, credits, MaxDeposits) /\ Postings(deposit', credits', MaxDeposits)
  BY ConstantsAssumption DEF TypeOK, Deposits, DepositRow, Postings
<1>2. SameBut(d, deposit, credits, deposit', credits', MaxDeposits)
  BY DEF Deposits, SameBut
<1>3. /\ SumTo(Posted(deposit, credits, u), MaxDeposits) \in Int
      /\ SumTo(Posted(deposit', credits', u), MaxDeposits)
           = SumTo(Posted(deposit, credits, u), MaxDeposits)
             - Posted(deposit, credits, u)[d] + Posted(deposit', credits', u)[d]
  BY <1>1, <1>2, PostedUpdate
<1>4. /\ Posted(deposit, credits, u)[d] = Part(deposit[d], credits[d], u)
      /\ Posted(deposit', credits', u)[d] = Part(deposit'[d], credits'[d], u)
  BY <1>1 DEF Posted, Postings, Part
<1> QED
  BY <1>3, <1>4 DEF DepositsPosted

\* PostedUpdate for the withdrawals.
LEMMA WithdrawalsPostedUpdate ==
  ASSUME TypeOK, TypeOK', NEW w \in Withdrawals, NEW u,
         \A x \in Withdrawals \ {w} : withdrawal'[x] = withdrawal[x] /\ payouts'[x] = payouts[x]
  PROVE  /\ WithdrawalsPosted(u) \in Int
         /\ WithdrawalsPosted(u)' = WithdrawalsPosted(u)
              - Part(withdrawal[w], payouts[w], u) + Part(withdrawal'[w], payouts'[w], u)
<1>1. /\ w \in 1..MaxWithdrawals /\ MaxWithdrawals \in Nat
      /\ Postings(withdrawal, payouts, MaxWithdrawals) /\ Postings(withdrawal', payouts', MaxWithdrawals)
  BY ConstantsAssumption DEF TypeOK, Withdrawals, WithdrawalRow, Postings
<1>2. SameBut(w, withdrawal, payouts, withdrawal', payouts', MaxWithdrawals)
  BY DEF Withdrawals, SameBut
<1>3. /\ SumTo(Posted(withdrawal, payouts, u), MaxWithdrawals) \in Int
      /\ SumTo(Posted(withdrawal', payouts', u), MaxWithdrawals)
           = SumTo(Posted(withdrawal, payouts, u), MaxWithdrawals)
             - Posted(withdrawal, payouts, u)[w] + Posted(withdrawal', payouts', u)[w]
  BY <1>1, <1>2, PostedUpdate
<1>4. /\ Posted(withdrawal, payouts, u)[w] = Part(withdrawal[w], payouts[w], u)
      /\ Posted(withdrawal', payouts', u)[w] = Part(withdrawal'[w], payouts'[w], u)
  BY <1>1 DEF Posted, Postings, Part
<1> QED
  BY <1>3, <1>4 DEF WithdrawalsPosted

\* Both sums are integers, and so are the totals.
LEMMA PostedTypes ==
  ASSUME TypeOK, NEW u \in Users
  PROVE  DepositsPosted(u) \in Int /\ WithdrawalsPosted(u) \in Int /\ Total(wallet[u]) \in Int
<1>1. Posted(deposit, credits, u) \in [1..MaxDeposits -> Int]
  <2>1. /\ DOMAIN deposit = 1..MaxDeposits
        /\ \A i \in 1..MaxDeposits : deposit[i].amount \in Nat /\ credits[i] \in Nat
    BY DEF TypeOK, Deposits, DepositRow
  <2>2. \A i \in 1..MaxDeposits : credits[i] * deposit[i].amount \in Int
    BY <2>1
  <2> QED
    BY <2>1, <2>2 DEF Posted
<1>2. Posted(withdrawal, payouts, u) \in [1..MaxWithdrawals -> Int]
  <2>1. /\ DOMAIN withdrawal = 1..MaxWithdrawals
        /\ \A i \in 1..MaxWithdrawals : withdrawal[i].amount \in Nat /\ payouts[i] \in Nat
    BY DEF TypeOK, Withdrawals, WithdrawalRow
  <2>2. \A i \in 1..MaxWithdrawals : payouts[i] * withdrawal[i].amount \in Int
    BY <2>1
  <2> QED
    BY <2>1, <2>2 DEF Posted
<1>3. Total(wallet[u]) \in Int
  BY DEF TypeOK, Wallet, Total
<1> QED
  BY <1>1, <1>2, <1>3, ConstantsAssumption, SumToInt DEF DepositsPosted, WithdrawalsPosted

\* Nothing is posted: the sums are the ones before.
LEMMA PostedUnchanged ==
  /\ UNCHANGED <<deposit, credits>> => \A u : DepositsPosted(u)' = DepositsPosted(u)
  /\ UNCHANGED <<withdrawal, payouts>> => \A u : WithdrawalsPosted(u)' = WithdrawalsPosted(u)
BY DEF DepositsPosted, WithdrawalsPosted

-----------------------------------------------------------------------------
(* Money follows the postings.                                             *)

\* A step that moves no coins into or out of a wallet and leaves each row's part
\* of the sums as it was.
LEMMA NothingPosted ==
  ASSUME TypeOK, TypeOK', MoneyFollowsPostings,
         \A u \in Users : Total(wallet'[u]) = Total(wallet[u]),
         NEW d \in Deposits \cup {0}, NEW w \in Withdrawals \cup {0},
         \A e \in Deposits \ {d} : deposit'[e] = deposit[e] /\ credits'[e] = credits[e],
         \A x \in Withdrawals \ {w} : withdrawal'[x] = withdrawal[x] /\ payouts'[x] = payouts[x],
         d \in Deposits => \A u \in Users : Part(deposit'[d], credits'[d], u)
                                              = Part(deposit[d], credits[d], u),
         w \in Withdrawals => \A u \in Users : Part(withdrawal'[w], payouts'[w], u)
                                                 = Part(withdrawal[w], payouts[w], u)
  PROVE  MoneyFollowsPostings'
<1> SUFFICES ASSUME NEW u \in Users
             PROVE  Total(wallet'[u]) = OpeningBalance + DepositsPosted(u)' - WithdrawalsPosted(u)'
  BY DEF MoneyFollowsPostings, DepositsPosted, WithdrawalsPosted
<1>1. Posted(deposit', credits', u) = Posted(deposit, credits, u)
  <2>1. DOMAIN deposit = Deposits /\ DOMAIN deposit' = Deposits
    BY DEF TypeOK
  <2>2. \A e \in Deposits : Part(deposit'[e], credits'[e], u) = Part(deposit[e], credits[e], u)
    OBVIOUS
  <2> QED
    BY <2>1, <2>2 DEF Posted, Part
<1>2. Posted(withdrawal', payouts', u) = Posted(withdrawal, payouts, u)
  <2>1. DOMAIN withdrawal = Withdrawals /\ DOMAIN withdrawal' = Withdrawals
    BY DEF TypeOK
  <2>2. \A x \in Withdrawals :
          Part(withdrawal'[x], payouts'[x], u) = Part(withdrawal[x], payouts[x], u)
    OBVIOUS
  <2> QED
    BY <2>1, <2>2 DEF Posted, Part
<1> QED
  BY <1>1, <1>2 DEF MoneyFollowsPostings, DepositsPosted, WithdrawalsPosted

\* Rows written as they were posted move nothing: a filed row keeps its owner
\* and amount, and for a new one nothing was posted.
LEMMA RawMovesNothing ==
  ASSUME TypeOK, FiledRows, Unposted, MoneyFollowsPostings,
         \/ \E d \in Deposits : \E row : RawDeposit(d, row)
         \/ \E w \in Withdrawals : \E row : RawWithdrawal(w, row)
  PROVE  MoneyFollowsPostings' /\ Unposted'
<1>0. TypeOK'
  BY RawKeepsRows
<1>1. Unposted'
  BY DEF RawDeposit, RawWithdrawal, Unposted, TypeOK
<1>2. \A amount \in Nat : 0 * amount = 0
  OBVIOUS
<1>3. ASSUME NEW d \in Deposits, NEW row, RawDeposit(d, row) PROVE MoneyFollowsPostings'
  <2>1. /\ deposit'[d] = row /\ \A e \in Deposits \ {d} : deposit'[e] = deposit[e]
        /\ UNCHANGED <<wallet, withdrawal, credits, payouts>>
    BY <1>3 DEF RawDeposit, TypeOK
  <2>2. ASSUME NEW u \in Users
        PROVE  Part(deposit'[d], credits'[d], u) = Part(deposit[d], credits[d], u)
    <3>1. CASE deposit[d].status = "NONE"
      <4>1. /\ credits[d] = 0 /\ credits'[d] = 0
            /\ deposit[d].amount \in Nat /\ deposit'[d].amount \in Nat
        BY <1>0, <2>1, <3>1 DEF Unposted, TypeOK, DepositRow
      <4> QED
        BY <1>2, <4>1 DEF Part
    <3>2. CASE row.user = deposit[d].user /\ row.amount = deposit[d].amount
      BY <2>1, <3>2 DEF Part
    <3> QED
      BY <1>3, <3>1, <3>2 DEF RawDeposit
  <2>3. \A u \in Users : Total(wallet'[u]) = Total(wallet[u])
    BY <2>1
  <2>4. \A x \in Withdrawals \ {0} : withdrawal'[x] = withdrawal[x] /\ payouts'[x] = payouts[x]
    BY <2>1
  <2>5. 0 \notin Withdrawals
    BY DEF Withdrawals
  <2> QED
    BY <1>0, <2>1, <2>2, <2>3, <2>4, <2>5, NothingPosted
<1>4. ASSUME NEW w \in Withdrawals, NEW row, RawWithdrawal(w, row) PROVE MoneyFollowsPostings'
  <2>1. /\ withdrawal'[w] = row /\ \A x \in Withdrawals \ {w} : withdrawal'[x] = withdrawal[x]
        /\ UNCHANGED <<wallet, deposit, credits, payouts>>
    BY <1>4 DEF RawWithdrawal, TypeOK
  <2>2. ASSUME NEW u \in Users
        PROVE  Part(withdrawal'[w], payouts'[w], u) = Part(withdrawal[w], payouts[w], u)
    <3>1. CASE withdrawal[w].status = "NONE"
      <4>1. /\ payouts[w] = 0 /\ payouts'[w] = 0
            /\ withdrawal[w].amount \in Nat /\ withdrawal'[w].amount \in Nat
        BY <1>0, <2>1, <3>1 DEF Unposted, TypeOK, WithdrawalRow
      <4> QED
        BY <1>2, <4>1 DEF Part
    <3>2. CASE row.user = withdrawal[w].user /\ row.amount = withdrawal[w].amount
      BY <2>1, <3>2 DEF Part
    <3> QED
      BY <1>4, <3>1, <3>2 DEF RawWithdrawal
  <2>3. \A u \in Users : Total(wallet'[u]) = Total(wallet[u])
    BY <2>1
  <2>4. \A e \in Deposits \ {0} : deposit'[e] = deposit[e] /\ credits'[e] = credits[e]
    BY <2>1
  <2>5. 0 \notin Deposits
    BY DEF Deposits
  <2> QED
    BY <1>0, <2>1, <2>2, <2>3, <2>4, <2>5, NothingPosted
<1> QED
  BY <1>1, <1>3, <1>4

\* An approved deposit adds to the wallet what it posts.
LEMMA ApproveDepositPosts ==
  ASSUME TypeOK, TypeOK', FiledRows, MoneyFollowsPostings, NEW d \in Deposits, ApproveDeposit(d)
  PROVE  MoneyFollowsPostings'
<1> DEFINE c == deposit[d].user
           amount == deposit[d].amount
<1>1. /\ c \in Users /\ amount \in Nat /\ credits[d] \in Nat
      /\ Move(c, "external", "available", amount, "DEPOSIT")
      /\ UNCHANGED <<withdrawal, payouts>>
      /\ deposit'[d].user = c /\ deposit'[d].amount = amount /\ credits'[d] = credits[d] + 1
      /\ \A e \in Deposits \ {d} : deposit'[e] = deposit[e] /\ credits'[e] = credits[e]
  BY DEF ApproveDeposit, FiledRows, TypeOK, DepositRow
<1> SUFFICES ASSUME NEW u \in Users
             PROVE  Total(wallet'[u]) = OpeningBalance + DepositsPosted(u)' - WithdrawalsPosted(u)'
  BY DEF MoneyFollowsPostings, DepositsPosted, WithdrawalsPosted
<1>2. /\ DepositsPosted(u) \in Int
      /\ DepositsPosted(u)' = DepositsPosted(u)
           - Part(deposit[d], credits[d], u) + Part(deposit'[d], credits'[d], u)
  BY <1>1, DepositsPostedUpdate
<1>3. (credits[d] + 1) * amount = credits[d] * amount + amount /\ credits[d] * amount \in Int
  <2> HIDE DEF amount
  <2> QED
    BY <1>1
<1>4. /\ Part(deposit[d], credits[d], u) = IF c = u THEN credits[d] * amount ELSE 0
      /\ Part(deposit'[d], credits'[d], u) = IF c = u THEN credits[d] * amount + amount ELSE 0
  BY <1>1, <1>3 DEF Part
<1>5. Total(wallet'[u]) = Total(wallet[u]) + IF u = c THEN amount ELSE 0
  <2>1. /\ "external" \in Bucket /\ "available" \in Bucket
        /\ Inflow("external", "available", amount) = amount
    BY <1>1 DEF Bucket, Inflow
  <2> HIDE DEF c, amount
  <2> QED
    BY <1>1, <2>1, TotalEffect
<1>6. /\ Total(wallet[u]) = OpeningBalance + DepositsPosted(u) - WithdrawalsPosted(u)
      /\ WithdrawalsPosted(u)' = WithdrawalsPosted(u)
  BY <1>1, PostedUnchanged DEF MoneyFollowsPostings, DepositsPosted, WithdrawalsPosted
<1>7. WithdrawalsPosted(u) \in Int /\ OpeningBalance \in Int
  BY PostedTypes, ConstantsAssumption
<1> DEFINE m == credits[d] * amount
<1> HIDE DEF c, amount, m
<1>8. DepositsPosted(u)' = DepositsPosted(u) + IF u = c THEN amount ELSE 0
  BY <1>1, <1>2, <1>3, <1>4 DEF m
<1> QED
  BY <1>1, <1>2, <1>5, <1>6, <1>7, <1>8

\* An approved withdrawal takes from the wallet what it posts.
LEMMA ApproveWithdrawalPosts ==
  ASSUME TypeOK, TypeOK', FiledRows, MoneyFollowsPostings, NEW w \in Withdrawals,
         ApproveWithdrawal(w)
  PROVE  MoneyFollowsPostings'
<1> DEFINE c == withdrawal[w].user
           amount == withdrawal[w].amount
<1>1. /\ c \in Users /\ amount \in Nat /\ payouts[w] \in Nat
      /\ Move(c, "reserved", "external", amount, "WITHDRAWAL")
      /\ UNCHANGED <<deposit, credits>>
      /\ withdrawal'[w].user = c /\ withdrawal'[w].amount = amount /\ payouts'[w] = payouts[w] + 1
      /\ \A x \in Withdrawals \ {w} : withdrawal'[x] = withdrawal[x] /\ payouts'[x] = payouts[x]
  BY DEF ApproveWithdrawal, FiledRows, TypeOK, WithdrawalRow
<1> SUFFICES ASSUME NEW u \in Users
             PROVE  Total(wallet'[u]) = OpeningBalance + DepositsPosted(u)' - WithdrawalsPosted(u)'
  BY DEF MoneyFollowsPostings, DepositsPosted, WithdrawalsPosted
<1>2. /\ WithdrawalsPosted(u) \in Int
      /\ WithdrawalsPosted(u)' = WithdrawalsPosted(u)
           - Part(withdrawal[w], payouts[w], u) + Part(withdrawal'[w], payouts'[w], u)
  BY <1>1, WithdrawalsPostedUpdate
<1>3. (payouts[w] + 1) * amount = payouts[w] * amount + amount /\ payouts[w] * amount \in Int
  <2> HIDE DEF amount
  <2> QED
    BY <1>1
<1>4. /\ Part(withdrawal[w], payouts[w], u) = IF c = u THEN payouts[w] * amount ELSE 0
      /\ Part(withdrawal'[w], payouts'[w], u) = IF c = u THEN payouts[w] * amount + amount ELSE 0
  BY <1>1, <1>3 DEF Part
<1>5. Total(wallet'[u]) = Total(wallet[u]) - IF u = c THEN amount ELSE 0
  <2>1. /\ "reserved" \in Bucket /\ "external" \in Bucket
        /\ Inflow("reserved", "external", amount) = - amount
    BY <1>1 DEF Bucket, Inflow
  <2> HIDE DEF c, amount
  <2>2. /\ Total(wallet[u]) \in Int
        /\ Total(wallet'[u]) = Total(wallet[u])
             + IF u = c THEN Inflow("reserved", "external", amount) ELSE 0
    BY <1>1, <2>1, TotalEffect
  <2> QED
    BY <1>1, <2>1, <2>2
<1>6. /\ Total(wallet[u]) = OpeningBalance + DepositsPosted(u) - WithdrawalsPosted(u)
      /\ DepositsPosted(u)' = DepositsPosted(u)
  BY <1>1, PostedUnchanged DEF MoneyFollowsPostings, DepositsPosted, WithdrawalsPosted
<1>7. DepositsPosted(u) \in Int /\ OpeningBalance \in Int
  BY PostedTypes, ConstantsAssumption
<1> DEFINE m == payouts[w] * amount
<1> HIDE DEF c, amount, m
<1>8. WithdrawalsPosted(u)' = WithdrawalsPosted(u) + IF u = c THEN amount ELSE 0
  BY <1>1, <1>2, <1>3, <1>4 DEF m
<1> QED
  BY <1>1, <1>2, <1>5, <1>6, <1>7, <1>8

\* A movement between two balances of a wallet keeps every total.
LEMMA InternalMove ==
  ASSUME TypeOK, NEW u \in Users, NEW src \in Bucket \ {"external"},
         NEW dst \in Bucket \ {"external"}, NEW amount \in Nat, NEW kind,
         Move(u, src, dst, amount, kind)
  PROVE  \A v \in Users : Total(wallet'[v]) = Total(wallet[v])
<1>1. Inflow(src, dst, amount) = 0
  BY DEF Inflow
<1>2. \A v \in Users : /\ Total(wallet[v]) \in Int
                       /\ Total(wallet'[v])
                            = Total(wallet[v]) + IF v = u THEN Inflow(src, dst, amount) ELSE 0
  BY TotalEffect
<1> QED
  BY <1>1, <1>2

\* A step that moves no coins into or out of a wallet, and of the requests
\* changes the status only.
LEMMA NothingSettled ==
  ASSUME TypeOK, TypeOK', MoneyFollowsPostings, UNCHANGED <<credits, payouts>>,
         \A u \in Users : Total(wallet'[u]) = Total(wallet[u]),
         \A d \in Deposits : /\ deposit'[d].user = deposit[d].user
                             /\ deposit'[d].amount = deposit[d].amount,
         \A w \in Withdrawals : /\ withdrawal'[w].user = withdrawal[w].user
                                /\ withdrawal'[w].amount = withdrawal[w].amount
  PROVE  MoneyFollowsPostings'
<1> SUFFICES ASSUME NEW u \in Users
             PROVE  Total(wallet'[u]) = OpeningBalance + DepositsPosted(u)' - WithdrawalsPosted(u)'
  BY DEF MoneyFollowsPostings, DepositsPosted, WithdrawalsPosted
<1>1. Posted(deposit', credits', u) = Posted(deposit, credits, u)
  BY DEF Posted, TypeOK
<1>2. Posted(withdrawal', payouts', u) = Posted(withdrawal, payouts, u)
  BY DEF Posted, TypeOK
<1> QED
  BY <1>1, <1>2 DEF MoneyFollowsPostings, DepositsPosted, WithdrawalsPosted

\* The services keep money with the postings.
LEMMA ServicesKeepMoney ==
  ASSUME TypeOK, FiledRows, Unposted, MoneyFollowsPostings, [Next]_vars
  PROVE  MoneyFollowsPostings' /\ Unposted'
<1> USE ConstantsAssumption
<1>0. TypeOK'
  BY RequestsKeepRows
<1>1. ASSUME NEW d \in Deposits, NEW u \in Users, NEW amount \in Amounts,
             NEW trx \in TrxIds \cup {NoTrx}, CreateDeposit(d, u, amount, trx)
      PROVE  MoneyFollowsPostings' /\ Unposted'
  <2>1. RawDeposit(d, [user |-> u, amount |-> amount, trx |-> trx, status |-> "PENDING"])
    BY <1>1 DEF CreateDeposit, NextKey, RawDeposit, DepositRow, Status
  <2> QED
    BY <2>1, RawMovesNothing
<1>2. ASSUME NEW d \in Deposits, ApproveDeposit(d) PROVE MoneyFollowsPostings' /\ Unposted'
  <2>1. MoneyFollowsPostings'
    BY <1>0, <1>2, ApproveDepositPosts
  <2>2. Unposted'
    BY <1>2 DEF ApproveDeposit, Unposted, TypeOK, DepositRow
  <2> QED
    BY <2>1, <2>2
<1>3. ASSUME NEW d \in Deposits, RejectDeposit(d) PROVE MoneyFollowsPostings' /\ Unposted'
  <2>1. MoneyFollowsPostings'
    <3>1. /\ UNCHANGED <<wallet, withdrawal, credits, payouts>>
          /\ \A e \in Deposits : /\ deposit'[e].user = deposit[e].user
                                 /\ deposit'[e].amount = deposit[e].amount
      BY <1>3 DEF RejectDeposit, TypeOK, DepositRow
    <3> QED
      BY <1>0, <3>1, NothingSettled
  <2>2. Unposted'
    BY <1>3 DEF RejectDeposit, Unposted, TypeOK, DepositRow
  <2> QED
    BY <2>1, <2>2
<1>4. ASSUME NEW w \in Withdrawals, NEW u \in Users, NEW amount \in Amounts,
             RequestWithdrawal(w, u, amount)
      PROVE  MoneyFollowsPostings' /\ Unposted'
  <2> DEFINE row == [user |-> u, amount |-> amount, status |-> "PENDING"]
  <2>1. /\ payouts[w] = 0 /\ payouts'[w] = 0 /\ row.amount \in Nat /\ withdrawal[w].amount \in Nat
        /\ withdrawal'[w] = row /\ UNCHANGED <<deposit, credits, payouts>>
        /\ \A x \in Withdrawals \ {w} : withdrawal'[x] = withdrawal[x]
    BY <1>4 DEF RequestWithdrawal, NextKey, Unposted, TypeOK, WithdrawalRow
  <2>2. \A v \in Users : Total(wallet'[v]) = Total(wallet[v])
    BY <1>4, InternalMove DEF RequestWithdrawal, Bucket
  <2>3. \A v \in Users : Part(withdrawal'[w], payouts'[w], v) = Part(withdrawal[w], payouts[w], v)
    <3>1. \A n \in Nat : 0 * n = 0
      OBVIOUS
    <3> HIDE DEF row
    <3> QED
      BY <2>1, <3>1 DEF Part
  <2>4. 0 \notin Deposits /\ \A e \in Deposits \ {0} : deposit'[e] = deposit[e] /\ credits'[e] = credits[e]
    BY <2>1 DEF Deposits
  <2>5. MoneyFollowsPostings'
    <3> HIDE DEF row
    <3> QED
      BY <1>0, <2>1, <2>2, <2>3, <2>4, NothingPosted
  <2>6. Unposted'
    BY <2>1 DEF Unposted
  <2> QED
    BY <2>5, <2>6
<1>5. ASSUME NEW w \in Withdrawals, ApproveWithdrawal(w) PROVE MoneyFollowsPostings' /\ Unposted'
  <2>1. MoneyFollowsPostings'
    BY <1>0, <1>5, ApproveWithdrawalPosts
  <2>2. Unposted'
    BY <1>5 DEF ApproveWithdrawal, Unposted, TypeOK, WithdrawalRow
  <2> QED
    BY <2>1, <2>2
<1>6. ASSUME NEW w \in Withdrawals, RejectWithdrawal(w) PROVE MoneyFollowsPostings' /\ Unposted'
  <2>1. MoneyFollowsPostings'
    <3>1. /\ UNCHANGED <<deposit, credits, payouts>>
          /\ \A x \in Withdrawals : /\ withdrawal'[x].user = withdrawal[x].user
                                    /\ withdrawal'[x].amount = withdrawal[x].amount
      BY <1>6 DEF RejectWithdrawal, TypeOK, WithdrawalRow
    <3>2. withdrawal[w].user \in Users /\ withdrawal[w].amount \in Nat
      BY <1>6 DEF RejectWithdrawal, FiledRows, TypeOK, WithdrawalRow
    <3>3. \A v \in Users : Total(wallet'[v]) = Total(wallet[v])
      BY <1>6, <3>2, InternalMove DEF RejectWithdrawal, Bucket
    <3> QED
      BY <1>0, <3>1, <3>3, NothingSettled
  <2>2. Unposted'
    BY <1>6 DEF RejectWithdrawal, Unposted, TypeOK, WithdrawalRow
  <2> QED
    BY <2>1, <2>2
<1>7. ASSUME NEW u \in Users, NEW flag \in BOOLEAN, SetWalletFrozen(u, flag)
      PROVE  MoneyFollowsPostings' /\ Unposted'
  <2>1. \A v \in Users : Total(wallet'[v]) = Total(wallet[v])
    BY <1>7 DEF SetWalletFrozen, TypeOK, Wallet, Total
  <2>2. UNCHANGED <<deposit, withdrawal, credits, payouts>>
    BY <1>7 DEF SetWalletFrozen
  <2> QED
    BY <1>0, <2>1, <2>2, NothingSettled DEF Unposted
<1>8. CASE UNCHANGED vars
  <2>1. UNCHANGED <<wallet, deposit, withdrawal, credits, payouts>>
    BY <1>8 DEF vars
  <2> QED
    BY <1>0, <2>1, NothingSettled DEF Unposted
<1> QED
  BY <1>1, <1>2, <1>3, <1>4, <1>5, <1>6, <1>7, <1>8 DEF Next

-----------------------------------------------------------------------------
(* The settlements and the forms.                                          *)

\* A service settles a pending row only, and its settlement no longer is to come.
LEMMA ServicesSettleOnce ==
  ASSUME ConsoleTypeOK, Reopenings, [Next]_vars, UNCHANGED <<reopened, rewound>>
  PROVE  Reopenings'
<1> USE DEF Reopenings, ToCome, ConsoleTypeOK, TypeOK, DepositRow, WithdrawalRow
<1>1. ASSUME NEW d \in Deposits, NEW u \in Users, NEW amount \in Amounts,
             NEW trx \in TrxIds \cup {NoTrx}, CreateDeposit(d, u, amount, trx)
      PROVE  Reopenings'
  BY <1>1 DEF CreateDeposit, NextKey
<1>2. ASSUME NEW d \in Deposits, ApproveDeposit(d) PROVE Reopenings'
  BY <1>2 DEF ApproveDeposit
<1>3. ASSUME NEW d \in Deposits, RejectDeposit(d) PROVE Reopenings'
  BY <1>3 DEF RejectDeposit
<1>4. ASSUME NEW w \in Withdrawals, NEW u \in Users, NEW amount \in Amounts,
             RequestWithdrawal(w, u, amount)
      PROVE  Reopenings'
  BY <1>4 DEF RequestWithdrawal, NextKey
<1>5. ASSUME NEW w \in Withdrawals, ApproveWithdrawal(w) PROVE Reopenings'
  BY <1>5 DEF ApproveWithdrawal
<1>6. ASSUME NEW w \in Withdrawals, RejectWithdrawal(w) PROVE Reopenings'
  BY <1>6 DEF RejectWithdrawal
<1>7. ASSUME NEW u \in Users, NEW flag \in BOOLEAN, SetWalletFrozen(u, flag) PROVE Reopenings'
  BY <1>7 DEF SetWalletFrozen
<1>8. CASE UNCHANGED vars
  BY <1>8 DEF vars
<1> QED
  BY <1>1, <1>2, <1>3, <1>4, <1>5, <1>6, <1>7, <1>8 DEF Next

\* No row, once filed, disappears.
StillFiled ==
  /\ \A d \in Deposits : deposit[d].status # "NONE" => deposit'[d].status # "NONE"
  /\ \A w \in Withdrawals : withdrawal[w].status # "NONE" => withdrawal'[w].status # "NONE"

\* The services delete no row.
LEMMA ServicesKeepFiled ==
  ASSUME TypeOK, [Next]_vars
  PROVE  StillFiled
<1> USE DEF StillFiled, TypeOK, DepositRow, WithdrawalRow
<1>1. ASSUME NEW d \in Deposits, NEW u \in Users, NEW amount \in Amounts,
             NEW trx \in TrxIds \cup {NoTrx}, CreateDeposit(d, u, amount, trx)
      PROVE  StillFiled
  BY <1>1 DEF CreateDeposit
<1>2. ASSUME NEW d \in Deposits, ApproveDeposit(d) \/ RejectDeposit(d) PROVE StillFiled
  BY <1>2 DEF ApproveDeposit, RejectDeposit
<1>3. ASSUME NEW w \in Withdrawals, NEW u \in Users, NEW amount \in Amounts,
             RequestWithdrawal(w, u, amount)
      PROVE  StillFiled
  BY <1>3 DEF RequestWithdrawal
<1>4. ASSUME NEW w \in Withdrawals, ApproveWithdrawal(w) \/ RejectWithdrawal(w) PROVE StillFiled
  BY <1>4 DEF ApproveWithdrawal, RejectWithdrawal
<1>5. ASSUME NEW u \in Users, NEW flag \in BOOLEAN, SetWalletFrozen(u, flag) PROVE StillFiled
  BY <1>5 DEF SetWalletFrozen
<1>6. CASE UNCHANGED vars
  BY <1>6 DEF vars
<1> QED
  BY <1>1, <1>2, <1>3, <1>4, <1>5, <1>6 DEF Next

\* Neither do rows written as they were posted.
LEMMA RawKeepsFiled ==
  ASSUME TypeOK,
         \/ \E d \in Deposits : \E row : RawDeposit(d, row)
         \/ \E w \in Withdrawals : \E row : RawWithdrawal(w, row)
  PROVE  StillFiled
BY DEF RawDeposit, RawWithdrawal, TypeOK, StillFiled

\* Saving a deposit form makes the settlement of a settled row come again only
\* when it counts the row as reopened.
LEMMA RawDepositCounted ==
  ASSUME ConsoleTypeOK, Reopenings, NEW d \in Deposits, NEW posted \in Status \ {"NONE"},
         deposit[d].status # "NONE", SaveRawDeposit(d, posted), UNCHANGED rewound
  PROVE  Reopenings' /\ reopened' \in [Deposits -> Nat]
BY DEF SaveRawDeposit, Reopens, Decides, Reopenings, ToCome, ConsoleTypeOK, TypeOK, DepositRow,
       WithdrawalRow, Status

\* Saving a withdrawal form.
LEMMA RawWithdrawalCounted ==
  ASSUME ConsoleTypeOK, Reopenings, NEW w \in Withdrawals, NEW posted \in Status \ {"NONE"},
         withdrawal[w].status # "NONE", SaveRawWithdrawal(w, posted), UNCHANGED reopened
  PROVE  Reopenings' /\ rewound' \in [Withdrawals -> Nat]
BY DEF SaveRawWithdrawal, Reopens, Decides, Reopenings, ToCome, ConsoleTypeOK, TypeOK, DepositRow,
       WithdrawalRow, Status

\* The add forms: whatever status the new row has, nothing was posted for it.
LEMMA AddedCounted ==
  ASSUME ConsoleTypeOK, Reopenings, NEW u \in Users, NEW amount \in Amounts,
         NEW posted \in Status \ {"NONE"},
         \/ \E d \in Deposits, trx \in TrxIds \cup {NoTrx} : AddDeposit(d, u, amount, trx, posted)
         \/ \E w \in Withdrawals : AddWithdrawal(w, u, amount, posted)
  PROVE  Reopenings'
<1> USE DEF Reopenings, ToCome, ConsoleTypeOK, TypeOK, DepositRow, WithdrawalRow, NextKey,
            consoleVars
<1>1. ASSUME NEW d \in Deposits, NEW trx \in TrxIds \cup {NoTrx},
             AddDeposit(d, u, amount, trx, posted)
      PROVE  Reopenings'
  BY <1>1 DEF AddDeposit
<1>2. ASSUME NEW w \in Withdrawals, AddWithdrawal(w, u, amount, posted) PROVE Reopenings'
  BY <1>2 DEF AddWithdrawal
<1> QED
  BY <1>1, <1>2

-----------------------------------------------------------------------------
(* The steps of the console, by what they do to the tables.                *)

\* A step of the services, or one that leaves them all as they are.
ServiceStep == [Next]_vars /\ UNCHANGED <<reopened, rewound>>

\* A step that writes a row as it was posted.
RawStep ==
  /\ \/ \E d \in Deposits : \E row : RawDeposit(d, row)
     \/ \E w \in Withdrawals : \E row : RawWithdrawal(w, row)
  /\ Reopenings' /\ reopened' \in [Deposits -> Nat] /\ rewound' \in [Withdrawals -> Nat]

\* Either kind keeps all that ConsoleIInv says of the tables.
LEMMA TablesStay ==
  ASSUME ConsoleIInv, ServiceStep \/ RawStep
  PROVE  /\ TypeOK' /\ reopened' \in [Deposits -> Nat] /\ rewound' \in [Withdrawals -> Nat]
         /\ FiledRows' /\ StillFiled /\ Unposted' /\ Reopenings' /\ MoneyFollowsPostings'
<1> USE DEF ConsoleIInv
<1>0. TypeOK
  BY DEF ConsoleTypeOK
<1>1. CASE ServiceStep
  <2>1. TypeOK' /\ FiledRows'
    BY <1>0, <1>1, RequestsKeepRows DEF ServiceStep
  <2>2. StillFiled
    BY <1>0, <1>1, ServicesKeepFiled DEF ServiceStep
  <2>3. Unposted' /\ MoneyFollowsPostings'
    BY <1>0, <1>1, ServicesKeepMoney DEF ServiceStep
  <2>4. Reopenings'
    BY <1>1, ServicesSettleOnce DEF ServiceStep
  <2>5. reopened' \in [Deposits -> Nat] /\ rewound' \in [Withdrawals -> Nat]
    BY <1>1 DEF ServiceStep, ConsoleTypeOK
  <2> QED
    BY <2>1, <2>2, <2>3, <2>4, <2>5
<1>2. CASE RawStep
  BY <1>0, <1>2, RawKeepsRows, RawKeepsFiled, RawMovesNothing DEF RawStep
<1> QED
  BY <1>1, <1>2

\* What a form can post are the statuses of filed rows.
LEMMA PostableOfFiled == Postable = Status \ {"NONE"}
BY DEF Postable, Status

\* Saving a form is a service call or writes the row as it was posted.
LEMMA SavedForms ==
  ASSUME ConsoleIInv
  PROVE  /\ \A d \in Deposits, posted \in Postable :
              SaveDepositForm(d, posted) => ServiceStep \/ RawStep
         /\ \A w \in Withdrawals, posted \in Postable :
              SaveWithdrawalForm(w, posted) => ServiceStep \/ RawStep
<1>1. TypeOK /\ FiledRows /\ Reopenings /\ ConsoleTypeOK
  BY DEF ConsoleIInv, ConsoleTypeOK
<1>2. ASSUME NEW d \in Deposits, NEW posted \in Postable, SaveDepositForm(d, posted)
      PROVE  ServiceStep \/ RawStep
  <2>1. /\ deposit[d].status # "NONE"
        /\ posted \in Status \ {"NONE"}
        /\ UNCHANGED rewound
    BY <1>1, <1>2, PostableOfFiled DEF SaveDepositForm, ConsoleIInv, FormsOfRows, ConsoleTypeOK
  <2>2. CASE SaveRawDeposit(d, posted)
    <3>1. RawDeposit(d, [deposit[d] EXCEPT !.status = posted])
      BY <1>1, <2>1, <2>2, SavedRawDeposit
    <3>2. Reopenings' /\ reopened' \in [Deposits -> Nat]
      BY <1>1, <2>1, <2>2, RawDepositCounted
    <3>3. rewound' \in [Withdrawals -> Nat]
      BY <1>1, <2>1 DEF ConsoleTypeOK
    <3> QED
      BY <3>1, <3>2, <3>3 DEF RawStep
  <2>3. CASE (ApproveDeposit(d) \/ RejectDeposit(d)) /\ UNCHANGED reopened
    BY <2>1, <2>3 DEF ServiceStep, Next
  <2> QED
    BY <1>2, <2>2, <2>3 DEF SaveDepositForm
<1>3. ASSUME NEW w \in Withdrawals, NEW posted \in Postable, SaveWithdrawalForm(w, posted)
      PROVE  ServiceStep \/ RawStep
  <2>1. /\ withdrawal[w].status # "NONE"
        /\ posted \in Status \ {"NONE"}
        /\ UNCHANGED reopened
    BY <1>1, <1>3, PostableOfFiled DEF SaveWithdrawalForm, ConsoleIInv, FormsOfRows, ConsoleTypeOK
  <2>2. CASE SaveRawWithdrawal(w, posted)
    <3>1. RawWithdrawal(w, [withdrawal[w] EXCEPT !.status = posted])
      BY <1>1, <2>1, <2>2, SavedRawWithdrawal
    <3>2. Reopenings' /\ rewound' \in [Withdrawals -> Nat]
      BY <1>1, <2>1, <2>2, RawWithdrawalCounted
    <3>3. reopened' \in [Deposits -> Nat]
      BY <1>1, <2>1 DEF ConsoleTypeOK
    <3> QED
      BY <3>1, <3>2, <3>3 DEF RawStep
  <2>3. CASE (ApproveWithdrawal(w) \/ RejectWithdrawal(w)) /\ UNCHANGED rewound
    BY <2>1, <2>3 DEF ServiceStep, Next
  <2> QED
    BY <1>3, <2>2, <2>3 DEF SaveWithdrawalForm
<1> QED
  BY <1>2, <1>3

\* The add forms write a row as it was posted.
LEMMA AddForms ==
  ASSUME ConsoleIInv, NEW u \in Users, NEW amount \in Amounts, NEW posted \in Status \ {"NONE"},
         \/ \E d \in Deposits, trx \in TrxIds \cup {NoTrx} : AddDeposit(d, u, amount, trx, posted)
         \/ \E w \in Withdrawals : AddWithdrawal(w, u, amount, posted)
  PROVE  RawStep
<1>1. UNCHANGED <<reopened, rewound>>
  BY DEF AddDeposit, AddWithdrawal, consoleVars
<1>2. /\ Reopenings' /\ reopened' \in [Deposits -> Nat] /\ rewound' \in [Withdrawals -> Nat]
  BY <1>1, AddedCounted DEF ConsoleIInv, ConsoleTypeOK
<1>3. \/ \E d \in Deposits : \E row : RawDeposit(d, row)
      \/ \E w \in Withdrawals : \E row : RawWithdrawal(w, row)
  BY AddedRows
<1> QED
  BY <1>2, <1>3 DEF RawStep

-----------------------------------------------------------------------------
(* The theorems.                                                           *)

\* ConsoleIInv is inductive: it holds at first,
LEMMA ConsoleStarts == ConsoleInit => ConsoleIInv
<1> SUFFICES ASSUME ConsoleInit PROVE ConsoleIInv
  OBVIOUS
<1> USE ConstantsAssumption
<1>1. Init
  BY DEF ConsoleInit
<1>2. TypeOK /\ FiledRows
  BY <1>1, InitIInv DEF IInv
<1>3. ConsoleTypeOK /\ FormsOfRows
  BY <1>2, MaxFormsAssumption DEF ConsoleInit, ConsoleTypeOK, FormsOfRows, Status
<1>4. Unposted /\ Reopenings
  BY DEF ConsoleInit, Init, Unposted, Reopenings, ToCome
<1>5. MoneyFollowsPostings
  <2> SUFFICES ASSUME NEW u \in Users
               PROVE  Total(wallet[u]) = OpeningBalance + DepositsPosted(u) - WithdrawalsPosted(u)
    BY DEF MoneyFollowsPostings, DepositsPosted, WithdrawalsPosted
  <2>1. 0 * 0 = 0
    OBVIOUS
  <2>2. Posted(deposit, credits, u) = [d \in 1..MaxDeposits |-> 0]
    BY <1>1, <2>1 DEF Init, Posted, Deposits
  <2>3. Posted(withdrawal, payouts, u) = [w \in 1..MaxWithdrawals |-> 0]
    BY <1>1, <2>1 DEF Init, Posted, Withdrawals
  <2>4. DepositsPosted(u) = 0 /\ WithdrawalsPosted(u) = 0
    BY <2>2, <2>3, SumToZero DEF DepositsPosted, WithdrawalsPosted
  <2>5. Total(wallet[u]) = OpeningBalance
    BY <1>1 DEF Init, NewWallet, Total
  <2> QED
    BY <2>4, <2>5
<1> QED
  BY <1>2, <1>3, <1>4, <1>5 DEF ConsoleIInv

\* and every step keeps it.
LEMMA ConsoleStays == ConsoleIInv /\ [ConsoleNext]_allVars => ConsoleIInv'
<1> SUFFICES ASSUME ConsoleIInv, [ConsoleNext]_allVars PROVE ConsoleIInv'
  OBVIOUS
<1> DEFINE FormsStay ==
      /\ depositForm' \in [Deposits -> Status]
      /\ withdrawalForm' \in [Withdrawals -> Status]
      /\ opened' \in 0..MaxForms
      /\ \A d \in Deposits : depositForm'[d] # "NONE" => deposit[d].status # "NONE"
      /\ \A w \in Withdrawals : withdrawalForm'[w] # "NONE" => withdrawal[w].status # "NONE"
<1>1. /\ depositForm \in [Deposits -> Status]
      /\ withdrawalForm \in [Withdrawals -> Status]
      /\ opened \in 0..MaxForms
      /\ TypeOK /\ FormsOfRows /\ MaxForms \in Nat
  BY MaxFormsAssumption DEF ConsoleIInv, ConsoleTypeOK
<1>2. \A x, y \in Nat : x \in 0..y /\ x < y => x + 1 \in 0..y
  OBVIOUS
<1>3. ASSUME ServiceStep \/ RawStep, FormsStay PROVE ConsoleIInv'
  <2>1. /\ TypeOK' /\ reopened' \in [Deposits -> Nat] /\ rewound' \in [Withdrawals -> Nat]
        /\ FiledRows' /\ StillFiled /\ Unposted' /\ Reopenings' /\ MoneyFollowsPostings'
    BY <1>3, TablesStay
  <2>2. FormsOfRows'
    BY <1>3, <2>1 DEF FormsOfRows, StillFiled
  <2> QED
    BY <1>3, <2>1, <2>2 DEF ConsoleIInv, ConsoleTypeOK
<1>4. CASE \/ Next /\ UNCHANGED consoleVars
           \/ UNCHANGED allVars
  <2>1. ServiceStep /\ UNCHANGED consoleVars
    BY <1>4 DEF ServiceStep, allVars, consoleVars
  <2>2. FormsStay
    BY <1>1, <2>1 DEF FormsOfRows, consoleVars
  <2> QED
    BY <1>3, <2>1, <2>2
<1>5. ASSUME NEW d \in Deposits, OpenDepositForm(d) PROVE ConsoleIInv'
  <2>1. ServiceStep
    BY <1>5 DEF OpenDepositForm, ServiceStep
  <2>2. FormsStay
    BY <1>1, <1>2, <1>5 DEF OpenDepositForm, FormsOfRows, TypeOK, DepositRow
  <2> QED
    BY <1>3, <2>1, <2>2
<1>6. ASSUME NEW w \in Withdrawals, OpenWithdrawalForm(w) PROVE ConsoleIInv'
  <2>1. ServiceStep
    BY <1>6 DEF OpenWithdrawalForm, ServiceStep
  <2>2. FormsStay
    BY <1>1, <1>2, <1>6 DEF OpenWithdrawalForm, FormsOfRows, TypeOK, WithdrawalRow
  <2> QED
    BY <1>3, <2>1, <2>2
<1>7. ASSUME NEW d \in Deposits, NEW posted \in Postable, SaveDepositForm(d, posted)
      PROVE  ConsoleIInv'
  <2>1. FormsStay
    BY <1>1, <1>7 DEF SaveDepositForm, FormsOfRows, Status
  <2> QED
    BY <1>3, <1>7, <2>1, SavedForms
<1>8. ASSUME NEW w \in Withdrawals, NEW posted \in Postable, SaveWithdrawalForm(w, posted)
      PROVE  ConsoleIInv'
  <2>1. FormsStay
    BY <1>1, <1>8 DEF SaveWithdrawalForm, FormsOfRows, Status
  <2> QED
    BY <1>3, <1>8, <2>1, SavedForms
<1>9. ASSUME NEW u \in Users, NEW amount \in Amounts, NEW posted \in Postable,
             \/ \E d \in Deposits, trx \in TrxIds \cup {NoTrx} :
                  AddDeposit(d, u, amount, trx, posted)
             \/ \E w \in Withdrawals : AddWithdrawal(w, u, amount, posted)
      PROVE  ConsoleIInv'
  <2>1. UNCHANGED consoleVars
    BY <1>9 DEF AddDeposit, AddWithdrawal, consoleVars
  <2>2. FormsStay
    BY <1>1, <2>1 DEF FormsOfRows, consoleVars
  <2> QED
    BY <1>3, <1>9, <2>2, AddForms, PostableOfFiled
<1> QED
  BY <1>4, <1>5, <1>6, <1>7, <1>8, <1>9 DEF ConsoleNext

\* Every behaviour of the console keeps the inductive invariant.
THEOREM ConsoleInductive == ConsoleSpec => []ConsoleIInv
<1> QED
  BY ConsoleStarts, ConsoleStays, PTL DEF ConsoleSpec

\* The tables and the forms hold rows and statuses throughout.
THEOREM ConsoleTypesKept == ConsoleSpec => []ConsoleTypeOK
<1>1. ConsoleIInv => ConsoleTypeOK
  BY DEF ConsoleIInv
<1> QED
  BY <1>1, ConsoleInductive, PTL

\* However many administrators keep forms open, and however many requests there
\* are: each settlement of a request but its first costs one save that reopens it.
THEOREM RepeatsAlwaysNeedReopening == ConsoleSpec => []RepeatsNeedReopening
<1>1. ConsoleIInv => RepeatsNeedReopening
  BY DEF ConsoleIInv, ConsoleTypeOK, TypeOK, Reopenings, ToCome, RepeatsNeedReopening
<1> QED
  BY <1>1, ConsoleInductive, PTL

\* Whatever status the forms write, no coin moves without a ledger row.
THEOREM MoneyAlwaysFollowsPostings == ConsoleSpec => []MoneyFollowsPostings
<1>1. ConsoleIInv => MoneyFollowsPostings
  BY DEF ConsoleIInv
<1> QED
  BY <1>1, ConsoleInductive, PTL

=============================================================================
