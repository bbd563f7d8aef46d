---------------------------- MODULE Tasks_proofs ----------------------------
(***************************************************************************)
(* What Tasks keeps for any team, price, allocation and number of tasks.   *)
(*                                                                         *)
(* The safety properties speak of payments, each of which is made for a    *)
(* task and its assignee.  They are inductive together with two facts: a   *)
(* task that nobody created was never paid (creating it decides who its    *)
(* payments count for), and before the completion there is no share of the *)
(* lead.  The rest is arithmetic: what the completion hands out adds up.   *)
(***************************************************************************)
EXTENDS Tasks, Ledger_proofs

\* The type of every variable.
TasksTypeOK ==
  /\ wallet \in [Users -> Wallet]
  /\ held \in Nat
  /\ done \in BOOLEAN
  /\ task \in [TaskIds -> TaskRow]
  /\ subtask \in [SubtaskIds -> SubtaskRow]
  /\ update \in {NoUpdate} \cup [sub : SubtaskIds, new : SubtaskPosts, todo : BOOLEAN]
  /\ due \subseteq TaskIds
  /\ paid \in [TaskIds -> Nat]
  /\ share \in Nat

\* Nothing is paid for a task before it is created.
UncreatedUnpaid == \A t \in TaskIds : task[t].status = "NONE" => paid[t] = 0

\* The lead has no share before the completion.
NoShareYet == ~ done => share = 0

\* The inductive invariant.
TasksIInv ==
  TasksTypeOK /\ UncreatedUnpaid /\ NoShareYet /\ EarnedOncePerTask /\ CoinsConserved

\* What the constants are.
LEMMA TeamFacts ==
  /\ IsFiniteSet(Users) /\ Client \in Users /\ Lead \in Users /\ Client # Lead
  /\ Client \notin {Lead} \cup Members /\ {Lead} \cup Members \subseteq Users
  /\ MaxTasks \in Nat /\ MaxSubtasks \in Nat /\ Price \in Nat /\ Opening \in Nat
  /\ Amounts \subseteq Nat /\ Coins \subseteq Nat
  /\ TaskPosts \subseteq TaskStatus \ {"COMPLETED"} /\ SubtaskPosts \subseteq SubtaskStatus
<1>1. IsFiniteSet({Client} \cup {Lead}) /\ IsFiniteSet(Members)
  BY TasksAssumption, FS_Singleton, FS_Union
<1>2. Users = ({Client} \cup {Lead}) \cup Members
  BY DEF Users
<1>3. IsFiniteSet(Users)
  BY <1>1, <1>2, FS_Union
<1> QED
  BY <1>3, TasksAssumption, PostsAssumption DEF Users

\* When one user's part changes, the sum over the users changes by the difference.
LEMMA UsersSumUpdate ==
  \A f \in [Users -> Int], k \in Users, v \in Int :
    /\ SumOver(f, Users) \in Int
    /\ SumOver([f EXCEPT ![k] = v], Users) = SumOver(f, Users) - f[k] + v
<1>1. IsFiniteSet(Users)
  BY TeamFacts
<1>2. \A S : IsFiniteSet(S) =>
        \A f \in [S -> Int], k \in S, v \in Int :
          /\ SumOver(f, S) \in Int
          /\ SumOver([f EXCEPT ![k] = v], S) = SumOver(f, S) - f[k] + v
  BY SumOverUpdate
<1> QED
  BY <1>1, <1>2

\* When every user is given what the rows that name him or her contribute, the
\* sum over the users grows by the aggregate over the rows.
LEMMA UsersSumShares ==
  \A N \in Nat : \A a \in [1..N -> Users], D \in [1..N -> Int], g \in [Users -> Int] :
    SumOver([u \in Users |-> g[u] + SumTo(PartOf(a, D, u, N), N)], Users)
      = SumOver(g, Users) + SumTo(D, N)
<1>1. IsFiniteSet(Users)
  BY TeamFacts
<1>2. \A S : IsFiniteSet(S) =>
        \A N \in Nat : \A a \in [1..N -> S], D \in [1..N -> Int], g \in [S -> Int] :
          SumOver([u \in S |-> g[u] + SumTo(PartOf(a, D, u, N), N)], S)
            = SumOver(g, S) + SumTo(D, N)
  BY SumOverShares
<1> QED
  BY <1>1, <1>2

-----------------------------------------------------------------------------
(* What the completion hands out.                                          *)

\* The assignee of each task.
Assigned == [t \in TaskIds |-> task[t].assignee]

\* What remains when the members have been paid before.
AtFirst == IF AlreadyPaidToMembers < Price THEN Price - AlreadyPaidToMembers ELSE 0

\* One step of Remaining: what is left of r once task n has been seen to.
Left(r, n) ==
  IF n \notin PendingMemberTasks THEN r
  ELSE IF task[n].amount < r THEN r - task[n].amount ELSE 0

\* r is what remains after each of the first N tasks.
IsRest(r, N) == r = [n \in 0..N |-> IF n = 0 THEN AtFirst ELSE Left(r[n - 1], n)]

\* What the payments add up to is a number.
LEMMA PaymentTypes ==
  ASSUME TasksTypeOK
  PROVE  /\ ForMember(paid) \in [1..MaxTasks -> Nat]
         /\ AlreadyPaidToMembers \in Nat /\ AtFirst \in Nat
         /\ \A n \in TaskIds, r \in Nat : Left(r, n) \in Nat /\ Left(r, n) <= r
<1>1. ForMember(paid) \in [1..MaxTasks -> Nat]
  BY DEF TasksTypeOK, ForMember, TaskIds
<1>2. AlreadyPaidToMembers \in Nat
  BY <1>1, TeamFacts, SumToNat DEF AlreadyPaidToMembers
<1>3. AtFirst \in Nat
  BY <1>2, TeamFacts DEF AtFirst
<1>4. \A n \in TaskIds : task[n].amount \in Nat
  BY DEF TasksTypeOK, TaskRow
<1> QED
  BY <1>1, <1>2, <1>3, <1>4 DEF Left

\* The recursive function Remaining exists.
LEMMA RestExists ==
  ASSUME TasksTypeOK
  PROVE  \E r \in [0..MaxTasks -> Nat] : IsRest(r, MaxTasks)
<1> DEFINE P == {n \in 0..MaxTasks : \E r \in [0..n -> Nat] : IsRest(r, n)}
<1>1. 0 \in P
  <2> DEFINE r == [i \in 0..0 |-> AtFirst]
  <2>1. r \in [0..0 -> Nat] /\ IsRest(r, 0)
    BY PaymentTypes DEF IsRest
  <2> QED
    BY <2>1, TeamFacts
<1>2. ASSUME NEW n \in 0..MaxTasks, n \in P, n < MaxTasks PROVE n + 1 \in P
  <2>1. PICK r \in [0..n -> Nat] : IsRest(r, n)
    BY <1>2
  <2> DEFINE q == [i \in 0..(n + 1) |-> IF i = n + 1 THEN Left(r[n], n + 1) ELSE r[i]]
  <2>2. n \in Nat /\ n + 1 \in TaskIds /\ n + 1 \in 0..MaxTasks
    BY <1>2, TeamFacts DEF TaskIds
  <2>3. q \in [0..(n + 1) -> Nat]
    <3>1. r[n] \in Nat
      BY <2>2
    <3>2. Left(r[n], n + 1) \in Nat
      BY <2>2, <3>1, PaymentTypes
    <3> QED
      BY <2>2, <3>2
  <2>4. \A i \in 0..n : r[i] = IF i = 0 THEN AtFirst ELSE Left(r[i - 1], i)
    BY <2>1 DEF IsRest
  <2>5. ASSUME NEW i \in 0..(n + 1)
        PROVE  q[i] = IF i = 0 THEN AtFirst ELSE Left(q[i - 1], i)
    <3>1. CASE i = n + 1
      BY <2>2, <3>1
    <3>2. CASE i \in 0..n
      BY <2>2, <2>4, <3>2
    <3> QED
      BY <2>2, <3>1, <3>2
  <2>6. \E s \in [0..(n + 1) -> Nat] : IsRest(s, n + 1)
    <3>1. IsRest(q, n + 1)
      <4> HIDE DEF q
      <4> QED
        BY <2>3, <2>5 DEF IsRest
    <3> HIDE DEF q
    <3> QED
      BY <2>3, <3>1
  <2> QED
    BY <2>2, <2>6
<1>3. MaxTasks \in P
  <2>1. MaxTasks \in Nat
    BY TeamFacts
  <2> HIDE DEF P
  <2> QED
    BY <1>1, <1>2, <2>1, UpTo
<1> QED
  BY <1>3

\* What the completion has left, task by task.
LEMMA RemainingSteps ==
  ASSUME TasksTypeOK
  PROVE  /\ Remaining \in [0..MaxTasks -> Nat]
         /\ Remaining[0] = AtFirst
         /\ \A t \in TaskIds : Remaining[t] = Left(Remaining[t - 1], t)
<1> DEFINE r == CHOOSE r : IsRest(r, MaxTasks)
<1>1. IsRest(r, MaxTasks)
  BY RestExists
<1>2. Remaining = r
  BY DEF Remaining, IsRest, AtFirst, Left
<1> HIDE DEF r
<1>3. r = [n \in 0..MaxTasks |-> IF n = 0 THEN AtFirst ELSE Left(r[n - 1], n)]
  BY <1>1 DEF IsRest
<1>4. r[0] = AtFirst /\ \A t \in TaskIds : t \in 0..MaxTasks /\ r[t] = Left(r[t - 1], t)
  BY <1>3, TeamFacts DEF TaskIds
<1> DEFINE P == {n \in 0..MaxTasks : r[n] \in Nat}
<1>5. 0..MaxTasks \subseteq P
  <2>1. 0 \in P
    BY <1>4, PaymentTypes, TeamFacts
  <2>2. ASSUME NEW n \in 0..MaxTasks, n \in P, n < MaxTasks PROVE n + 1 \in P
    <3>1. n + 1 \in TaskIds /\ n + 1 \in 0..MaxTasks /\ (n + 1) - 1 = n
      BY <2>2, TeamFacts DEF TaskIds
    <3> QED
      BY <1>4, <2>2, <3>1, PaymentTypes
  <2> HIDE DEF P
  <2> QED
    BY <2>1, <2>2, TeamFacts, UpTo
<1>6. r \in [0..MaxTasks -> Nat]
  BY <1>3, <1>5
<1> QED
  BY <1>2, <1>4, <1>6

\* What is left never grows.
LEMMA RemainingShrinks ==
  ASSUME TasksTypeOK, NEW t \in 0..MaxTasks
  PROVE  Remaining[MaxTasks] <= Remaining[t]
<1> DEFINE r == Remaining
           P == {n \in 0..(MaxTasks - t) : r[t + n] <= r[t]}
<1>0. /\ MaxTasks \in Nat /\ r \in [0..MaxTasks -> Nat]
      /\ \A n \in TaskIds : r[n] = Left(r[n - 1], n)
  BY TeamFacts, RemainingSteps
<1> HIDE DEF r
<1>1. 0 \in P
  BY <1>0
<1>2. ASSUME NEW n \in 0..(MaxTasks - t), n \in P, n < MaxTasks - t PROVE n + 1 \in P
  <2>1. /\ t + n \in 0..MaxTasks /\ t + n + 1 \in TaskIds /\ n + 1 \in 0..(MaxTasks - t)
        /\ (t + n + 1) - 1 = t + n /\ t + (n + 1) = t + n + 1
    BY <1>0, <1>2 DEF TaskIds
  <2>2. r[t + n + 1] = Left(r[t + n], t + n + 1) /\ r[t + n] <= r[t] /\ r[t + n] \in Nat
        /\ r[t] \in Nat
    BY <1>0, <1>2, <2>1
  <2>3. r[t + n + 1] \in Nat /\ r[t + n + 1] <= r[t + n]
    BY <2>1, <2>2, PaymentTypes
  <2>4. r[t + n + 1] <= r[t]
    BY <2>2, <2>3
  <2> QED
    BY <2>1, <2>4
<1>3. MaxTasks - t \in Nat
  BY <1>0
<1>4. MaxTasks - t \in P
  <2> HIDE DEF P
  <2>1. 0..(MaxTasks - t) \subseteq P
    BY <1>1, <1>2, <1>3, UpTo
  <2> QED
    BY <1>3, <2>1
<1>5. t + (MaxTasks - t) = MaxTasks
  BY <1>0
<1> QED
  BY <1>4, <1>5 DEF r

\* What is handed out for each task, and in all.
LEMMA DisbursedFacts ==
  ASSUME TasksTypeOK
  PROVE  /\ Disbursed \in [1..MaxTasks -> Nat]
         /\ \A t \in TaskIds : t \notin PendingMemberTasks => Disbursed[t] = 0
         /\ \A t \in PendingMemberTasks :
              Remaining[MaxTasks] > 0 => Disbursed[t] = task[t].amount
         /\ Remaining[0] \in Nat /\ Remaining[MaxTasks] \in Nat
         /\ Remaining[MaxTasks] <= Remaining[0]
         /\ SumTo(Disbursed, MaxTasks) = Remaining[0] - Remaining[MaxTasks]
<1>1. /\ MaxTasks \in Nat /\ Remaining \in [0..MaxTasks -> Nat]
      /\ \A t \in TaskIds : Remaining[t] = Left(Remaining[t - 1], t)
  BY TeamFacts, RemainingSteps
<1>2. ASSUME NEW t \in TaskIds
      PROVE  /\ t \in 0..MaxTasks /\ t - 1 \in 0..MaxTasks
             /\ Remaining[t - 1] \in Nat /\ Remaining[t] \in Nat
             /\ Remaining[t] <= Remaining[t - 1]
             /\ Disbursed[t] = Remaining[t - 1] - Remaining[t] /\ Disbursed[t] \in Nat
  <2>1. t \in 0..MaxTasks /\ t - 1 \in 0..MaxTasks
    BY <1>1 DEF TaskIds
  <2>2. Remaining[t - 1] \in Nat /\ Remaining[t] \in Nat /\ Remaining[t] <= Remaining[t - 1]
    BY <1>1, <2>1, PaymentTypes
  <2>3. Disbursed[t] = Remaining[t - 1] - Remaining[t]
    BY DEF Disbursed
  <2> QED
    BY <2>1, <2>2, <2>3
<1>3. Disbursed \in [1..MaxTasks -> Nat]
  BY <1>2 DEF Disbursed, TaskIds
<1>4. ASSUME NEW t \in TaskIds, t \notin PendingMemberTasks PROVE Disbursed[t] = 0
  BY <1>1, <1>2, <1>4 DEF Left
<1>5. ASSUME NEW t \in PendingMemberTasks, Remaining[MaxTasks] > 0
      PROVE  Disbursed[t] = task[t].amount
  <2>1. t \in TaskIds /\ task[t].amount \in Nat
    BY DEF PendingMemberTasks, TasksTypeOK, TaskRow
  <2>2. Remaining[MaxTasks] <= Remaining[t] /\ Remaining[MaxTasks] \in Nat
    BY <1>1, <1>2, <2>1, RemainingShrinks
  <2>3. Remaining[t] # 0 /\ Remaining[t] = Left(Remaining[t - 1], t)
    BY <1>1, <1>2, <1>5, <2>1, <2>2
  <2>4. Remaining[t] = Remaining[t - 1] - task[t].amount
    BY <2>3 DEF Left
  <2> QED
    BY <1>2, <2>1, <2>4
<1>6. /\ Remaining[0] \in Nat /\ Remaining[MaxTasks] \in Nat
      /\ Remaining[MaxTasks] <= Remaining[0]
  BY <1>1, RemainingShrinks
<1>7. SumTo(Disbursed, MaxTasks) = Remaining[0] - Remaining[MaxTasks]
  <2>1. Disbursed = [i \in 1..MaxTasks |-> Remaining[i - 1] - Remaining[i]]
    BY DEF Disbursed, TaskIds
  <2>2. Remaining \in [0..MaxTasks -> Int]
    BY <1>1
  <2> QED
    BY <1>1, <2>1, <2>2, SumToSteps
<1> QED
  BY <1>3, <1>4, <1>5, <1>6, <1>7

-----------------------------------------------------------------------------
(* What was paid to whom.                                                  *)

\* What the payments of the tasks of u add up to.
EarnedBy(u) == SumTo(PartOf(Assigned, paid, u, MaxTasks), MaxTasks)

\* What the completion adds to that.
SharedWith(u) == SumTo(PartOf(Assigned, Disbursed, u, MaxTasks), MaxTasks)

\* What each wallet holds.
Totals == [u \in Users |-> Total(wallet[u])]

\* The properties in these words.
LEMMA InTheseWords ==
  /\ EarnedOncePerTask <=> \A u \in {Lead} \cup Members :
                             wallet[u].earned = EarnedBy(u) + (IF u = Lead THEN share ELSE 0)
  /\ EarnedOncePerTask' <=> \A u \in {Lead} \cup Members :
                             wallet'[u].earned = EarnedBy(u)' + (IF u = Lead THEN share' ELSE 0)
  /\ CoinsConserved <=> SumOver(Totals, Users) = Cardinality(Users) * Opening
  /\ CoinsConserved' <=> SumOver(Totals', Users) = Cardinality(Users) * Opening
  /\ \A u : Credited(u) = SharedWith(u) + (IF u = Lead THEN Remaining[MaxTasks] ELSE 0)
<1>1. \A u : [t \in TaskIds |-> IF task[t].assignee = u THEN paid[t] ELSE 0]
               = PartOf(Assigned, paid, u, MaxTasks)
  BY DEF PartOf, Assigned, TaskIds
<1>2. \A u : [t \in TaskIds |-> IF task'[t].assignee = u THEN paid'[t] ELSE 0]
               = PartOf(Assigned', paid', u, MaxTasks)
  BY DEF PartOf, Assigned, TaskIds
<1>3. \A u : [t \in TaskIds |-> IF task[t].assignee = u THEN Disbursed[t] ELSE 0]
               = PartOf(Assigned, Disbursed, u, MaxTasks)
  BY DEF PartOf, Assigned, TaskIds
<1>4. Totals' = [u \in Users |-> Total(wallet'[u])]
  BY DEF Totals, Total
<1>5. \A u : EarnedBy(u)' = SumTo(PartOf(Assigned', paid', u, MaxTasks), MaxTasks)
  BY DEF EarnedBy, PartOf, Assigned
<1> QED
  BY <1>1, <1>2, <1>3, <1>4, <1>5
     DEF EarnedOncePerTask, EarnedBy, CoinsConserved, Totals, Credited, SharedWith

\* They are numbers.
LEMMA PartTypes ==
  ASSUME TasksTypeOK, NEW u
  PROVE  /\ Assigned \in [1..MaxTasks -> {Lead} \cup Members]
         /\ Assigned \in [1..MaxTasks -> Users]
         /\ PartOf(Assigned, paid, u, MaxTasks) \in [1..MaxTasks -> Nat]
         /\ PartOf(Assigned, Disbursed, u, MaxTasks) \in [1..MaxTasks -> Nat]
         /\ EarnedBy(u) \in Nat /\ SharedWith(u) \in Nat
         /\ Totals \in [Users -> Int]
<1>1. Assigned \in [1..MaxTasks -> {Lead} \cup Members]
  BY DEF Assigned, TaskIds, TasksTypeOK, TaskRow
<1>2. Disbursed \in [1..MaxTasks -> Nat]
  BY DisbursedFacts
<1>3. /\ PartOf(Assigned, paid, u, MaxTasks) \in [1..MaxTasks -> Nat]
      /\ PartOf(Assigned, Disbursed, u, MaxTasks) \in [1..MaxTasks -> Nat]
  BY <1>1, <1>2 DEF PartOf, TasksTypeOK, TaskIds
<1>4. EarnedBy(u) \in Nat /\ SharedWith(u) \in Nat
  BY <1>3, TeamFacts, SumToNat DEF EarnedBy, SharedWith
<1>5. Totals \in [Users -> Int]
  BY DEF Totals, TasksTypeOK, Wallet, Total
<1> QED
  BY <1>1, <1>3, <1>4, <1>5, TeamFacts

\* A step that makes no payment, and changes the assignee of none that was paid.
LEMMA NothingPaid ==
  ASSUME TasksTypeOK, EarnedOncePerTask, CoinsConserved, UNCHANGED <<paid, share>>,
         \A u \in Users : /\ wallet'[u].earned = wallet[u].earned
                          /\ Total(wallet'[u]) = Total(wallet[u]),
         \A t \in TaskIds : task'[t].assignee = task[t].assignee \/ paid[t] = 0
  PROVE  EarnedOncePerTask' /\ CoinsConserved'
<1>1. ASSUME NEW u PROVE EarnedBy(u)' = EarnedBy(u)
  <2>1. PartOf(Assigned', paid', u, MaxTasks) = PartOf(Assigned, paid, u, MaxTasks)
    BY DEF PartOf, Assigned, TaskIds
  <2> QED
    BY <2>1 DEF EarnedBy
<1>2. Totals' = Totals
  BY DEF Totals
<1> QED
  BY <1>1, <1>2, InTheseWords, TeamFacts

-----------------------------------------------------------------------------
(* The steps that move no payment.                                         *)

\* Those on tasks, subtasks and pages, which no wallet notices.
LEMMA QuietSteps ==
  ASSUME TasksIInv,
         UNCHANGED <<wallet, held, done, paid, share>>,
         TasksTypeOK',
         \A t \in TaskIds : \/ task'[t].assignee = task[t].assignee
                            \/ paid[t] = 0,
         \A t \in TaskIds : task'[t].status = "NONE" => task[t].status = "NONE"
  PROVE  TasksIInv'
<1>1. EarnedOncePerTask' /\ CoinsConserved'
  BY NothingPaid DEF TasksIInv
<1>2. UncreatedUnpaid' /\ NoShareYet'
  BY DEF TasksIInv, UncreatedUnpaid, NoShareYet
<1> QED
  BY <1>1, <1>2 DEF TasksIInv

\* The types after each of them.
LEMMA TablesKeepTypes ==
  ASSUME TasksTypeOK, UNCHANGED <<wallet, held, done, paid, share>>,
         \/ \E t \in TaskIds :
              \/ \E u \in {Lead} \cup Members, amount \in Amounts : CreateTask(t, u, amount)
              \/ UploadTaskFile(t) \/ ReviewLapses(t) \/ VisitFails(t)
              \/ \E new \in TaskPosts : UpdateTaskStatus(t, new)
              \/ \E s \in SubtaskIds : CreateSubtask(s, t)
         \/ \E s \in SubtaskIds, new \in SubtaskPosts : ReadSubtask(s, new)
         \/ UpdateSubtaskStatus \/ UpdateFails \/ VisitProject
         \/ UNCHANGED tVars
  PROVE  /\ TasksTypeOK'
         /\ \A t \in TaskIds : \/ task'[t].assignee = task[t].assignee
                               \/ task[t].status = "NONE"
         /\ \A t \in TaskIds : task'[t].status = "NONE" => task[t].status = "NONE"
<1> DEFINE RowsStay ==
      /\ \A t \in TaskIds : \/ task'[t].assignee = task[t].assignee
                            \/ task[t].status = "NONE"
      /\ \A t \in TaskIds : task'[t].status = "NONE" => task[t].status = "NONE"
<1> SUFFICES TasksTypeOK' /\ RowsStay
  OBVIOUS
<1>0. /\ wallet' = wallet /\ held' = held /\ done' = done /\ paid' = paid /\ share' = share
  OBVIOUS
<1>1. ASSUME NEW t \in TaskIds, NEW u \in {Lead} \cup Members, NEW amount \in Amounts,
             CreateTask(t, u, amount)
      PROVE  TasksTypeOK' /\ RowsStay
  <2>1. [assignee |-> u, amount |-> amount, status |-> "TODO", file |-> FALSE, lapsed |-> FALSE]
          \in TaskRow
    BY TeamFacts DEF TaskRow, TaskStatus, SubtaskStatus
  <2> QED
    BY <1>0, <1>1, <2>1 DEF CreateTask, Next1, TasksTypeOK
<1>2. ASSUME NEW t \in TaskIds, UploadTaskFile(t) PROVE TasksTypeOK' /\ RowsStay
  <2>1. task[t] \in TaskRow /\ [task[t] EXCEPT !.file = TRUE] \in TaskRow
    BY DEF TasksTypeOK, TaskRow
  <2>2. task' = [task EXCEPT ![t] = [task[t] EXCEPT !.file = TRUE]]
    BY <1>2 DEF UploadTaskFile
  <2>3. TasksTypeOK'
    BY <1>0, <1>2, <2>1, <2>2 DEF UploadTaskFile, TasksTypeOK
  <2> QED
    BY <2>2, <2>3 DEF TasksTypeOK, TaskRow
<1>3. ASSUME NEW t \in TaskIds, ReviewLapses(t) PROVE TasksTypeOK' /\ RowsStay
  <2>1. task[t] \in TaskRow /\ [task[t] EXCEPT !.lapsed = TRUE] \in TaskRow
    BY DEF TasksTypeOK, TaskRow
  <2>2. task' = [task EXCEPT ![t] = [task[t] EXCEPT !.lapsed = TRUE]]
    BY <1>3 DEF ReviewLapses
  <2>3. TasksTypeOK'
    BY <1>0, <1>3, <2>1, <2>2 DEF ReviewLapses, TasksTypeOK
  <2> QED
    BY <2>2, <2>3 DEF TasksTypeOK, TaskRow
<1>4. ASSUME NEW t \in TaskIds, VisitFails(t) PROVE TasksTypeOK' /\ RowsStay
  BY <1>0, <1>4 DEF VisitFails, TasksTypeOK
<1>5. ASSUME NEW t \in TaskIds, NEW new \in TaskPosts, UpdateTaskStatus(t, new)
      PROVE  TasksTypeOK' /\ RowsStay
  <2> DEFINE row == [task[t] EXCEPT !.status = new, !.lapsed = FALSE]
  <2>1. new \in TaskStatus /\ new # "NONE" /\ task[t] \in TaskRow /\ row \in TaskRow
    BY TeamFacts DEF TasksTypeOK, TaskRow, TaskStatus, SubtaskStatus
  <2>2. task' = [task EXCEPT ![t] = row]
    BY <1>5 DEF UpdateTaskStatus
  <2>3. row.assignee = task[t].assignee /\ row.status = new
    BY <2>1 DEF TaskRow
  <2> HIDE DEF row
  <2>4. TasksTypeOK'
    BY <1>0, <1>5, <2>1, <2>2 DEF UpdateTaskStatus, TasksTypeOK
  <2> QED
    BY <2>1, <2>2, <2>3, <2>4 DEF TasksTypeOK
<1>6. ASSUME NEW t \in TaskIds, NEW s \in SubtaskIds, CreateSubtask(s, t)
      PROVE  TasksTypeOK' /\ RowsStay
  <2>1. [of |-> t, status |-> "TODO"] \in SubtaskRow
    BY TeamFacts DEF SubtaskRow, SubtaskStatus, TaskIds
  <2> QED
    BY <1>0, <1>6, <2>1 DEF CreateSubtask, TasksTypeOK
<1>7. ASSUME NEW s \in SubtaskIds, NEW new \in SubtaskPosts, ReadSubtask(s, new)
      PROVE  TasksTypeOK' /\ RowsStay
  <2>1. update' \in [sub : SubtaskIds, new : SubtaskPosts, todo : BOOLEAN]
    BY <1>7 DEF ReadSubtask
  <2> QED
    BY <1>0, <1>7, <2>1 DEF ReadSubtask, TasksTypeOK
<1>8. CASE UpdateSubtaskStatus
  <2>1. update \in [sub : SubtaskIds, new : SubtaskPosts, todo : BOOLEAN]
    BY <1>8 DEF UpdateSubtaskStatus, TasksTypeOK
  <2> DEFINE s == update.sub
             t == subtask[s].of
             sub == [subtask[s] EXCEPT !.status = update.new]
  <2>2. s \in SubtaskIds /\ update.new \in SubtaskStatus /\ subtask[s] \in SubtaskRow
        /\ sub \in SubtaskRow
    BY <2>1, TeamFacts DEF TasksTypeOK, SubtaskRow
  <2>3. subtask' = [subtask EXCEPT ![s] = sub] /\ update' = NoUpdate /\ due' = due
    BY <1>8 DEF UpdateSubtaskStatus
  <2>4. PICK new \in {"COMPLETED", "IN_PROGRESS", task[t].status} :
          task' = [task EXCEPT ![t].status = new]
    BY <1>8 DEF UpdateSubtaskStatus
  <2>5. \A k \in TaskIds : /\ task[k] \in TaskRow
                           /\ \/ task'[k] = task[k]
                              \/ /\ task'[k] = [task[k] EXCEPT !.status = new]
                                 /\ new \in {"COMPLETED", "IN_PROGRESS", task[k].status}
    BY <2>4 DEF TasksTypeOK
  <2>6. \A k \in TaskIds : /\ task'[k] \in TaskRow
                           /\ task'[k].assignee = task[k].assignee
                           /\ task'[k].status = "NONE" => task[k].status = "NONE"
    BY <2>5 DEF TaskRow, TaskStatus, SubtaskStatus
  <2>7. task' \in [TaskIds -> TaskRow]
    BY <2>4, <2>6 DEF TasksTypeOK
  <2>8. subtask' \in [SubtaskIds -> SubtaskRow]
    <3> HIDE DEF s, sub
    <3> QED
      BY <2>2, <2>3 DEF TasksTypeOK
  <2> QED
    BY <1>0, <2>3, <2>6, <2>7, <2>8 DEF TasksTypeOK
<1>9. CASE UpdateFails
  BY <1>0, <1>9 DEF UpdateFails, TasksTypeOK
<1>10. CASE VisitProject
  BY <1>0, <1>10 DEF VisitProject, TasksTypeOK
<1>11. CASE UNCHANGED tVars
  BY <1>0, <1>11 DEF tVars, TasksTypeOK
<1> QED
  BY <1>1, <1>2, <1>3, <1>4, <1>5, <1>6, <1>7, <1>8, <1>9, <1>10, <1>11

\* A movement inside the client's wallet.
LEMMA ClientMoves ==
  ASSUME TasksIInv, UNCHANGED <<held, done, task, subtask, update, due, paid, share>>,
         NEW w \in Wallet, wallet' = [wallet EXCEPT ![Client] = w],
         Total(w) = Total(wallet[Client])
  PROVE  TasksIInv'
<1>1. TasksTypeOK /\ EarnedOncePerTask /\ CoinsConserved /\ UncreatedUnpaid /\ NoShareYet
  BY DEF TasksIInv
<1>2. TasksTypeOK'
  BY <1>1 DEF TasksTypeOK
<1>3. UncreatedUnpaid' /\ NoShareYet'
  BY <1>1 DEF UncreatedUnpaid, NoShareYet
<1>4. \A u : EarnedBy(u)' = EarnedBy(u)
  <2>1. Assigned' = Assigned
    BY DEF Assigned
  <2> QED
    BY <2>1 DEF EarnedBy
<1>5. \A u \in {Lead} \cup Members : wallet'[u] = wallet[u]
  BY <1>1, TeamFacts DEF TasksTypeOK
<1>6. Totals' = Totals
  BY <1>1, TeamFacts DEF Totals, TasksTypeOK
<1>7. EarnedOncePerTask' /\ CoinsConserved'
  BY <1>1, <1>4, <1>5, <1>6, InTheseWords
<1> QED
  BY <1>2, <1>3, <1>7 DEF TasksIInv

\* The client's own steps.
LEMMA ClientSteps ==
  ASSUME TasksIInv,
         \/ \E amount \in Coins : TopUp(amount) \/ ReserveElsewhere(amount)
         \/ \E frozen \in BOOLEAN : SetWalletFrozen(frozen)
  PROVE  TasksIInv'
<1> DEFINE c == wallet[Client]
<1>0. c \in Wallet
  BY TeamFacts DEF TasksIInv, TasksTypeOK
<1>1. ASSUME NEW amount \in Coins, TopUp(amount) PROVE TasksIInv'
  <2> DEFINE w == Moved(c, "available", "escrow", amount, "ESCROW_HOLD")
  <2>1. /\ "available" \in Bucket /\ "escrow" \in Bucket /\ amount \in Nat
        /\ Inflow("available", "escrow", amount) = 0
        /\ CanMove(c, "available", "escrow", amount)
    BY <1>1, TeamFacts DEF Bucket, Inflow, TopUp
  <2>2. w \in Wallet
    BY <1>0, <2>1, MovedType
  <2>3. Total(w) = Total(c) + Inflow("available", "escrow", amount) /\ Total(c) \in Int
    BY <1>0, <2>1, MovedEffect DEF Total, Wallet
  <2>4. wallet' = [wallet EXCEPT ![Client] = w]
    BY <1>1 DEF TopUp
  <2>5. UNCHANGED <<held, done, task, subtask, update, due, paid, share>>
    BY <1>1 DEF TopUp
  <2> HIDE DEF w
  <2>6. Total(w) = Total(c)
    BY <2>1, <2>3
  <2> QED
    BY <2>2, <2>4, <2>5, <2>6, ClientMoves
<1>2. ASSUME NEW amount \in Coins, ReserveElsewhere(amount) PROVE TasksIInv'
  <2> DEFINE w == Moved(c, "available", "reserved", amount, "BUDGET_RESERVATION")
  <2>1. /\ "available" \in Bucket /\ "reserved" \in Bucket /\ amount \in Nat
        /\ Inflow("available", "reserved", amount) = 0
        /\ CanMove(c, "available", "reserved", amount)
    BY <1>2, TeamFacts DEF Bucket, Inflow, ReserveElsewhere
  <2>2. w \in Wallet
    BY <1>0, <2>1, MovedType
  <2>3. Total(w) = Total(c) + Inflow("available", "reserved", amount) /\ Total(c) \in Int
    BY <1>0, <2>1, MovedEffect DEF Total, Wallet
  <2>4. wallet' = [wallet EXCEPT ![Client] = w]
    BY <1>2 DEF ReserveElsewhere
  <2>5. UNCHANGED <<held, done, task, subtask, update, due, paid, share>>
    BY <1>2 DEF ReserveElsewhere
  <2> HIDE DEF w
  <2>6. Total(w) = Total(c)
    BY <2>1, <2>3
  <2> QED
    BY <2>2, <2>4, <2>5, <2>6, ClientMoves
<1>3. ASSUME NEW frozen \in BOOLEAN, SetWalletFrozen(frozen) PROVE TasksIInv'
  <2> DEFINE w == [c EXCEPT !.frozen = frozen]
  <2>1. w \in Wallet /\ Total(w) = Total(c)
    BY <1>0 DEF Wallet, Total
  <2>2. wallet' = [wallet EXCEPT ![Client] = w]
    BY <1>3 DEF SetWalletFrozen
  <2>3. UNCHANGED <<held, done, task, subtask, update, due, paid, share>>
    BY <1>3 DEF SetWalletFrozen
  <2> HIDE DEF w
  <2> QED
    BY <2>1, <2>2, <2>3, ClientMoves
<1> QED
  BY <1>1, <1>2, <1>3

-----------------------------------------------------------------------------
(* The steps that pay.                                                     *)

\* The payment of a task: the client's wallet and the assignee's change by its
\* amount, and its payment is written down.
TaskPaid(t) ==
  \E c, w \in Wallet :
    /\ wallet' = [wallet EXCEPT ![Client] = c, ![task[t].assignee] = w]
    /\ Total(c) = Total(wallet[Client]) - task[t].amount
    /\ Total(w) = Total(wallet[task[t].assignee]) + task[t].amount
    /\ w.earned = wallet[task[t].assignee].earned + task[t].amount
    /\ paid[t] = 0
    /\ paid' = [paid EXCEPT ![t] = task[t].amount]

\* An approval pays for the task as a whole or moves nothing.
LEMMA ApprovalPays ==
  ASSUME TasksTypeOK, NEW t \in TaskIds, ApproveTask(t)
  PROVE  TaskPaid(t) \/ UNCHANGED <<wallet, paid>>
<1> SUFFICES ASSUME Payable(t) PROVE TaskPaid(t)
  BY DEF ApproveTask
<1> DEFINE amount == task[t].amount
           a == task[t].assignee
           c == Moved(wallet[Client], "escrow", "external", amount, "ESCROW_RELEASE")
           w == Paid(wallet[a], amount)
<1>1. /\ amount \in Nat /\ a \in {Lead} \cup Members /\ a \in Users /\ a # Client
      /\ wallet[Client] \in Wallet /\ wallet[a] \in Wallet
      /\ "escrow" \in Bucket /\ "external" \in Bucket
      /\ Inflow("escrow", "external", amount) = - amount
  BY TeamFacts DEF TasksTypeOK, TaskRow, Bucket, Inflow
<1>2. /\ CanMove(wallet[Client], "escrow", "external", amount)
      /\ wallet' = [wallet EXCEPT ![Client] = c, ![a] = Paid(@, amount)]
      /\ paid[t] = 0 /\ paid' = [paid EXCEPT ![t] = amount]
  BY DEF ApproveTask, Payable
<1>3. wallet' = [wallet EXCEPT ![Client] = c, ![a] = w]
  <2> HIDE DEF a, c, amount
  <2> QED
    BY <1>1, <1>2
<1>4. c \in Wallet
  BY <1>1, <1>2, MovedType
<1>5. Total(c) = Total(wallet[Client]) + Inflow("escrow", "external", amount)
  BY <1>1, <1>2, MovedEffect
<1>6. Total(wallet[Client]) \in Int
  BY <1>1 DEF Total, Wallet
<1>7. w \in Wallet /\ Total(w) = Total(wallet[a]) + amount /\ w.earned = wallet[a].earned + amount
  BY <1>1, PaidEffect
<1> HIDE DEF c, w, a, amount
<1>8. Total(c) = Total(wallet[Client]) - amount
  BY <1>1, <1>5, <1>6
<1> QED
  BY <1>2, <1>3, <1>4, <1>7, <1>8 DEF TaskPaid, a, amount

\* A payment keeps earnings and coins with what is written down.
LEMMA PaymentCounts ==
  ASSUME TasksTypeOK, EarnedOncePerTask, CoinsConserved, UNCHANGED share,
         NEW t \in TaskIds, TaskPaid(t), UNCHANGED Assigned
  PROVE  EarnedOncePerTask' /\ CoinsConserved'
<1> DEFINE amount == task[t].amount
           a == task[t].assignee
<1>1. PICK c \in Wallet, w \in Wallet :
        /\ wallet' = [wallet EXCEPT ![Client] = c, ![a] = w]
        /\ Total(c) = Total(wallet[Client]) - amount
        /\ Total(w) = Total(wallet[a]) + amount
        /\ w.earned = wallet[a].earned + amount
        /\ paid[t] = 0
        /\ paid' = [paid EXCEPT ![t] = amount]
  BY DEF TaskPaid
<1>2. /\ t \in 1..MaxTasks /\ amount \in Nat /\ a \in {Lead} \cup Members /\ a \in Users
      /\ a # Client /\ Client \in Users /\ Assigned[t] = a /\ MaxTasks \in Nat
      /\ wallet \in [Users -> Wallet]
  BY TeamFacts DEF TasksTypeOK, TaskRow, TaskIds, Assigned
<1> HIDE DEF a, amount
<1>3. ASSUME NEW u
      PROVE  EarnedBy(u)' = EarnedBy(u) + IF u = a THEN amount ELSE 0
  <2> DEFINE f == PartOf(Assigned, paid, u, MaxTasks)
             g == PartOf(Assigned', paid', u, MaxTasks)
  <2>1. f \in [1..MaxTasks -> Nat] /\ EarnedBy(u) = SumTo(f, MaxTasks) /\ EarnedBy(u) \in Nat
    BY PartTypes DEF EarnedBy
  <2>2. EarnedBy(u)' = SumTo(g, MaxTasks)
    BY DEF EarnedBy
  <2>3. CASE u = a
    <3>1. f[t] = 0 /\ g = [f EXCEPT ![t] = amount]
      BY <1>1, <1>2, <2>3 DEF PartOf, TasksTypeOK, TaskIds
    <3> HIDE DEF f, g
    <3>2. f \in [1..MaxTasks -> Int] /\ amount \in Int
      BY <1>2, <2>1
    <3>3. SumTo([f EXCEPT ![t] = amount], MaxTasks) = SumTo(f, MaxTasks) - f[t] + amount
      BY <1>2, <3>2, SumToUpdate
    <3> QED
      BY <1>2, <2>1, <2>2, <2>3, <3>1, <3>3
  <2>4. CASE u # a
    <3>1. g = f
      BY <1>1, <1>2, <2>4 DEF PartOf, TasksTypeOK, TaskIds
    <3> QED
      BY <2>1, <2>2, <2>4, <3>1
  <2> QED
    BY <2>3, <2>4
<1>4. ASSUME NEW u \in {Lead} \cup Members
      PROVE  wallet'[u].earned = EarnedBy(u)' + (IF u = Lead THEN share' ELSE 0)
  <2>1. wallet'[u].earned = wallet[u].earned + IF u = a THEN amount ELSE 0
    <3>1. u \in Users /\ u # Client /\ wallet[u].earned \in Nat
      BY <1>2, TeamFacts DEF Wallet
    <3> QED
      BY <1>1, <1>2, <3>1
  <2>2. wallet[u].earned = EarnedBy(u) + (IF u = Lead THEN share ELSE 0)
    BY InTheseWords
  <2>3. EarnedBy(u) \in Nat /\ share \in Nat
    BY PartTypes DEF TasksTypeOK
  <2> QED
    BY <1>2, <1>3, <2>1, <2>2, <2>3
<1>5. SumOver(Totals', Users) = SumOver(Totals, Users)
  <2> DEFINE x == Totals[Client] - amount
             y == Totals[a] + amount
             mid == [Totals EXCEPT ![Client] = x]
             z == [mid EXCEPT ![a] = y]
  <2>0. \A f \in [Users -> Int], k \in Users, v \in Int :
          /\ SumOver(f, Users) \in Int
          /\ SumOver([f EXCEPT ![k] = v], Users) = SumOver(f, Users) - f[k] + v
    BY UsersSumUpdate
  <2>1. /\ Totals \in [Users -> Int] /\ x \in Int /\ y \in Int
        /\ mid \in [Users -> Int] /\ mid[a] = Totals[a]
    BY <1>2, PartTypes
  <2>2. Totals' = z
    BY <1>1, <1>2 DEF Totals
  <2>3. Totals[Client] \in Int /\ Totals[a] \in Int
    BY <1>2, <2>1
  <2>4. z = [mid EXCEPT ![a] = y] /\ mid = [Totals EXCEPT ![Client] = x]
        /\ x = Totals[Client] - amount /\ y = Totals[a] + amount
    OBVIOUS
  <2> HIDE DEF mid, x, y, z
  <2>5. SumOver(z, Users) = SumOver(mid, Users) - mid[a] + y
    BY <1>2, <2>0, <2>1, <2>4
  <2>6. /\ SumOver(Totals, Users) \in Int
        /\ SumOver(mid, Users) = SumOver(Totals, Users) - Totals[Client] + x
    <3>1. Totals \in [Users -> Int] /\ Client \in Users /\ x \in Int
      BY <1>2, <2>1
    <3>2. mid = [Totals EXCEPT ![Client] = x]
      BY <2>4
    <3> QED
      BY <2>0, <3>1, <3>2
  <2> QED
    BY <1>2, <2>1, <2>2, <2>3, <2>4, <2>5, <2>6
<1> QED
  BY <1>4, <1>5, InTheseWords

\* An approval, by hand or by the page.
LEMMA ApprovalKeeps ==
  ASSUME TasksIInv, NEW t \in TaskIds, ApproveTask(t), due' \subseteq TaskIds
  PROVE  TasksIInv'
<1>1. TasksTypeOK /\ EarnedOncePerTask /\ CoinsConserved /\ UncreatedUnpaid /\ NoShareYet
  BY DEF TasksIInv
<1> DEFINE row == [task[t] EXCEPT !.status = "COMPLETED"]
<1>2. /\ task[t] \in TaskRow /\ row \in TaskRow /\ row.assignee = task[t].assignee
      /\ row.status = "COMPLETED"
  BY <1>1 DEF TasksTypeOK, TaskRow, TaskStatus, SubtaskStatus
<1>3. /\ task' = [task EXCEPT ![t] = row] /\ task[t].status # "NONE"
      /\ UNCHANGED <<held, done, subtask, update, share>>
  BY DEF ApproveTask
<1> HIDE DEF row
<1>4. Assigned' = Assigned
  BY <1>1, <1>2, <1>3 DEF Assigned, TasksTypeOK
<1>5. TaskPaid(t) \/ UNCHANGED <<wallet, paid>>
  BY <1>1, ApprovalPays
<1>6. EarnedOncePerTask' /\ CoinsConserved'
  <2>1. CASE TaskPaid(t)
    BY <1>1, <1>3, <1>4, <2>1, PaymentCounts
  <2>2. CASE UNCHANGED <<wallet, paid>>
    <3>1. \A k \in TaskIds : task'[k].assignee = task[k].assignee
      BY <1>1, <1>2, <1>3 DEF TasksTypeOK
    <3> QED
      BY <1>1, <1>3, <2>2, <3>1, NothingPaid
  <2> QED
    BY <1>5, <2>1, <2>2
<1>7. wallet' \in [Users -> Wallet] /\ paid' \in [TaskIds -> Nat]
      /\ \A k \in TaskIds \ {t} : paid'[k] = paid[k]
  <2>1. task[t].assignee \in Users /\ task[t].amount \in Nat /\ Client \in Users
    BY <1>2, TeamFacts DEF TaskRow
  <2>2. wallet \in [Users -> Wallet] /\ paid \in [TaskIds -> Nat]
    BY <1>1 DEF TasksTypeOK
  <2> QED
    BY <1>5, <2>1, <2>2 DEF TaskPaid
<1>8. TasksTypeOK'
  BY <1>1, <1>2, <1>3, <1>7 DEF TasksTypeOK
<1>9. UncreatedUnpaid' /\ NoShareYet'
  BY <1>1, <1>2, <1>3, <1>7 DEF UncreatedUnpaid, NoShareYet, TasksTypeOK
<1> QED
  BY <1>6, <1>8, <1>9 DEF TasksIInv
\* What the client pays when the agreement is completed: all that remained of
\* the price, the members' part from the escrow and then the lead's.
LEMMA ClientPays ==
  ASSUME TasksTypeOK, CompleteAgreement
  PROVE  LET w == Settled(AfterTeam, Remaining[MaxTasks], held)
         IN  w \in Wallet /\ Total(w) = Total(wallet[Client]) - Remaining[0]
<1> DEFINE c == wallet[Client]
           total == Remaining[0] - Remaining[MaxTasks]
           rest == Remaining[MaxTasks]
           a == AfterTeam
<1>1. /\ Remaining[0] \in Nat /\ rest \in Nat /\ total \in Nat /\ held \in Nat
      /\ c \in Wallet /\ Total(c) \in Int
  <2>1. Remaining[0] \in Nat /\ rest \in Nat /\ rest <= Remaining[0]
    BY DisbursedFacts
  <2>2. held \in Nat /\ c \in Wallet
    BY TeamFacts DEF TasksTypeOK
  <2>3. Total(c) \in Int
    BY <2>2 DEF Wallet, Total
  <2> QED
    BY <2>1, <2>2, <2>3
<1>2. /\ total > 0 => CanMove(c, "escrow", "external", total)
      /\ CanSettle(a, rest, held)
  BY DEF CompleteAgreement
<1>3. a = IF total > 0 THEN Moved(c, "escrow", "external", total, "ESCROW_RELEASE") ELSE c
  BY DEF AfterTeam
<1>4. Remaining[0] = total + rest
  BY <1>1
<1> HIDE DEF a, total, rest, c
<1>5. a \in Wallet /\ Total(a) = Total(c) - total
  <2>1. CASE total = 0
    BY <1>1, <1>3, <2>1
  <2>2. CASE total > 0
    <3>1. /\ "escrow" \in Bucket /\ "external" \in Bucket
          /\ Inflow("escrow", "external", total) = - total
      BY <1>1 DEF Bucket, Inflow
    <3> DEFINE m == Moved(c, "escrow", "external", total, "ESCROW_RELEASE")
    <3>2. m \in Wallet
      BY <1>1, <1>2, <2>2, <3>1, MovedType
    <3>3. Total(m) = Total(c) + Inflow("escrow", "external", total)
      BY <1>1, <1>2, <2>2, <3>1, MovedEffect
    <3>4. a = m
      BY <1>3, <2>2
    <3> HIDE DEF m
    <3> QED
      BY <1>1, <3>1, <3>2, <3>3, <3>4
  <2> QED
    BY <1>1, <2>1, <2>2
<1> DEFINE w == Settled(a, rest, held)
<1>6. w \in Wallet /\ Total(w) = Total(a) - rest
  BY <1>1, <1>2, <1>5, SettledEffect
<1> HIDE DEF w
<1>7. w \in Wallet /\ Total(w) = Total(c) - Remaining[0]
  BY <1>1, <1>4, <1>5, <1>6
<1> QED
  BY <1>7 DEF w, a, rest, c

\* What the completion credits to a freelancer, and what that does.
LEMMA TeamIsPaid ==
  ASSUME TasksTypeOK, CompleteAgreement, NEW u \in {Lead} \cup Members
  PROVE  /\ Credited(u) = SharedWith(u) + (IF u = Lead THEN Remaining[MaxTasks] ELSE 0)
         /\ wallet'[u] \in Wallet
         /\ wallet'[u].earned = wallet[u].earned + Credited(u)
         /\ Total(wallet'[u]) = Total(wallet[u]) + Credited(u)
<1>1. Credited(u) = SharedWith(u) + (IF u = Lead THEN Remaining[MaxTasks] ELSE 0)
  BY InTheseWords
<1>2. SharedWith(u) \in Nat /\ Remaining[MaxTasks] \in Nat
  BY PartTypes, DisbursedFacts
<1>3. Credited(u) \in Nat
  BY <1>1, <1>2
<1>4. u \in Users /\ u # Client /\ wallet[u] \in Wallet
  BY TeamFacts DEF TasksTypeOK
<1>5. wallet'[u] = Paid(wallet[u], Credited(u))
  BY <1>4 DEF CompleteAgreement
<1> DEFINE k == Credited(u)
           w == wallet[u]
<1>6. k \in Nat /\ w \in Wallet
  BY <1>3, <1>4
<1> HIDE DEF k, w
<1>7. /\ Paid(w, k) \in Wallet
      /\ Paid(w, k).earned = w.earned + k
      /\ Total(Paid(w, k)) = Total(w) + k
  BY <1>6, PaidEffect
<1> QED
  BY <1>1, <1>5, <1>7 DEF k, w

\* The payments that are written down grow by what is handed out.
LEMMA PaymentsGrow ==
  ASSUME TasksTypeOK, CompleteAgreement, NEW u
  PROVE  EarnedBy(u)' = EarnedBy(u) + SharedWith(u)
<1> DEFINE f == PartOf(Assigned, paid, u, MaxTasks)
           g == PartOf(Assigned, Disbursed, u, MaxTasks)
           h == PartOf(Assigned', paid', u, MaxTasks)
<1>1. f \in [1..MaxTasks -> Nat] /\ g \in [1..MaxTasks -> Nat] /\ MaxTasks \in Nat
  BY PartTypes, TeamFacts
<1>2. Assigned' = Assigned
  BY DEF CompleteAgreement, Assigned
<1>3. \A t \in 1..MaxTasks : paid'[t] = paid[t] + Disbursed[t]
  BY DEF CompleteAgreement, TaskIds
<1>4. Disbursed \in [1..MaxTasks -> Nat] /\ paid \in [1..MaxTasks -> Nat]
  BY DisbursedFacts DEF TasksTypeOK, TaskIds
<1>5. h = [i \in 1..MaxTasks |-> f[i] + g[i]]
  BY <1>2, <1>3, <1>4 DEF PartOf
<1>6. EarnedBy(u)' = SumTo(h, MaxTasks)
  BY DEF EarnedBy
<1>7. EarnedBy(u) = SumTo(f, MaxTasks) /\ SharedWith(u) = SumTo(g, MaxTasks)
  BY DEF EarnedBy, SharedWith
<1> HIDE DEF f, g, h
<1>8. f \in [1..MaxTasks -> Int] /\ g \in [1..MaxTasks -> Int]
  BY <1>1
<1>9. SumTo([i \in 1..MaxTasks |-> f[i] + g[i]], MaxTasks)
        = SumTo(f, MaxTasks) + SumTo(g, MaxTasks)
  BY <1>1, <1>8, SumToAdd
<1> QED
  BY <1>5, <1>6, <1>7, <1>9

\* No task is given to the client.
LEMMA ClientHasNoShare ==
  ASSUME TasksTypeOK
  PROVE  SharedWith(Client) = 0
<1>1. \A t \in 1..MaxTasks : Assigned[t] # Client
  BY PartTypes, TeamFacts
<1>2. PartOf(Assigned, Disbursed, Client, MaxTasks) = [k \in 1..MaxTasks |-> 0]
  BY <1>1 DEF PartOf
<1> QED
  BY <1>2, SumToZero, TeamFacts DEF SharedWith

\* What the client pays is what the team receives.
LEMMA CompletionConserves ==
  ASSUME TasksTypeOK, CompleteAgreement
  PROVE  SumOver(Totals', Users) = SumOver(Totals, Users)
<1> DEFINE rest == Remaining[MaxTasks]
           x == Totals[Client] - Remaining[0]
           y == Totals[Lead] + rest
           mid == [Totals EXCEPT ![Client] = x]
           g == [mid EXCEPT ![Lead] = y]
           given == [u \in Users |-> g[u] + SumTo(PartOf(Assigned, Disbursed, u, MaxTasks), MaxTasks)]
<1>1. /\ Remaining[0] \in Nat /\ rest \in Nat
      /\ SumTo(Disbursed, MaxTasks) = Remaining[0] - rest
      /\ Disbursed \in [1..MaxTasks -> Int]
  BY DisbursedFacts
<1>2. /\ Client \in Users /\ Lead \in Users /\ Client # Lead /\ MaxTasks \in Nat
      /\ Users = {Client} \cup ({Lead} \cup Members)
  BY TeamFacts DEF Users
<1>3. Totals \in [Users -> Int] /\ Assigned \in [1..MaxTasks -> Users]
      /\ \A u : SharedWith(u) \in Nat
  BY PartTypes
<1>4. Totals[Client] \in Int /\ Totals[Lead] \in Int /\ x \in Int /\ y \in Int
  BY <1>1, <1>2, <1>3
<1>5. /\ mid = [Totals EXCEPT ![Client] = x] /\ g = [mid EXCEPT ![Lead] = y]
      /\ x = Totals[Client] - Remaining[0] /\ y = Totals[Lead] + rest
      /\ mid \in [Users -> Int] /\ mid[Lead] = Totals[Lead] /\ g \in [Users -> Int]
      /\ \A u \in Users : g[u] = IF u = Lead THEN y ELSE IF u = Client THEN x ELSE Totals[u]
  BY <1>2, <1>3, <1>4
<1> HIDE DEF rest, x, y, mid, g
<1>6. Totals' = given
  <2>1. ASSUME NEW u \in Users PROVE Totals'[u] = g[u] + SharedWith(u)
    <3>1. Totals'[u] = Total(wallet'[u]) /\ Totals[u] = Total(wallet[u])
      BY DEF Totals
    <3>2. CASE u = Client
      <4>1. Total(wallet'[u]) = Total(wallet[Client]) - Remaining[0]
        BY <1>2, <3>2, ClientPays DEF CompleteAgreement
      <4>2. SharedWith(u) = 0
        BY <3>2, ClientHasNoShare
      <4> QED
        BY <1>2, <1>4, <1>5, <3>1, <3>2, <4>1, <4>2
    <3>3. CASE u \in {Lead} \cup Members
      <4>1. Total(wallet'[u]) = Total(wallet[u]) + (SharedWith(u) + (IF u = Lead THEN rest ELSE 0))
        BY <3>3, TeamIsPaid DEF rest
      <4>2. u # Client /\ SharedWith(u) \in Nat /\ Totals[u] \in Int
        BY <1>3, <3>3, TeamFacts
      <4> QED
        BY <1>1, <1>5, <3>1, <4>1, <4>2
    <3> QED
      BY <1>2, <3>2, <3>3
  <2>2. Totals' = [u \in Users |-> Totals'[u]]
    BY DEF Totals
  <2> QED
    BY <2>1, <2>2 DEF SharedWith
<1>7. SumOver(given, Users) = SumOver(g, Users) + SumTo(Disbursed, MaxTasks)
  <2>1. /\ MaxTasks \in Nat /\ Assigned \in [1..MaxTasks -> Users]
        /\ Disbursed \in [1..MaxTasks -> Int] /\ g \in [Users -> Int]
    BY <1>1, <1>2, <1>3, <1>5
  <2> QED
    BY <2>1, UsersSumShares
<1>8. SumOver(g, Users) = SumOver(mid, Users) - mid[Lead] + y
  <2>1. mid \in [Users -> Int] /\ Lead \in Users /\ y \in Int /\ g = [mid EXCEPT ![Lead] = y]
    BY <1>2, <1>4, <1>5
  <2> QED
    BY <2>1, UsersSumUpdate
<1>9. /\ SumOver(Totals, Users) \in Int
      /\ SumOver(mid, Users) = SumOver(Totals, Users) - Totals[Client] + x
  <2>1. Totals \in [Users -> Int] /\ Client \in Users /\ x \in Int
    BY <1>2, <1>3, <1>4
  <2>2. mid = [Totals EXCEPT ![Client] = x]
    BY <1>5
  <2> QED
    BY <2>1, <2>2, UsersSumUpdate
<1> HIDE DEF given
<1> QED
  BY <1>1, <1>4, <1>5, <1>6, <1>7, <1>8, <1>9

\* The completion of the agreement.
LEMMA CompletionKeeps ==
  ASSUME TasksIInv, CompleteAgreement
  PROVE  TasksIInv'
<1>1. TasksTypeOK /\ EarnedOncePerTask /\ CoinsConserved /\ UncreatedUnpaid /\ NoShareYet
  BY DEF TasksIInv
<1>2. /\ ~ done /\ done' = TRUE /\ held' = 0 /\ share' = Remaining[MaxTasks]
      /\ paid' = [t \in TaskIds |-> paid[t] + Disbursed[t]]
      /\ UNCHANGED <<task, subtask, update, due>>
      /\ wallet' = [u \in Users |-> wallet'[u]]
  BY DEF CompleteAgreement
<1>3. /\ Remaining[MaxTasks] \in Nat
      /\ \A t \in TaskIds : /\ Disbursed[t] \in Nat
                            /\ t \notin PendingMemberTasks => Disbursed[t] = 0
  BY <1>1, DisbursedFacts DEF TaskIds
<1>4. \A u \in Users : wallet'[u] \in Wallet
  <2>1. wallet'[Client] \in Wallet
    BY <1>1, TeamFacts, ClientPays DEF CompleteAgreement
  <2> QED
    BY <1>1, <2>1, TeamIsPaid DEF Users
<1>5. TasksTypeOK'
  <2>1. wallet' \in [Users -> Wallet]
    BY <1>2, <1>4
  <2>2. paid' \in [TaskIds -> Nat]
    BY <1>1, <1>2, <1>3 DEF TasksTypeOK
  <2> QED
    BY <1>1, <1>2, <1>3, <2>1, <2>2 DEF TasksTypeOK
<1>6. UncreatedUnpaid' /\ NoShareYet'
  BY <1>1, <1>2, <1>3 DEF UncreatedUnpaid, NoShareYet, PendingMemberTasks
<1>7. ASSUME NEW u \in {Lead} \cup Members
      PROVE  wallet'[u].earned = EarnedBy(u)' + (IF u = Lead THEN share' ELSE 0)
  <2>1. wallet[u].earned = EarnedBy(u) + 0
    BY <1>1, <1>2, InTheseWords, PartTypes DEF NoShareYet
  <2>2. wallet'[u].earned = wallet[u].earned + (SharedWith(u) + (IF u = Lead THEN share' ELSE 0))
    BY <1>1, <1>2, TeamIsPaid
  <2>3. EarnedBy(u)' = EarnedBy(u) + SharedWith(u)
    BY <1>1, PaymentsGrow
  <2>4. EarnedBy(u) \in Nat /\ SharedWith(u) \in Nat /\ share' \in Nat
    BY <1>1, <1>2, <1>3, PartTypes
  <2> QED
    BY <2>1, <2>2, <2>3, <2>4
<1>8. EarnedOncePerTask' /\ CoinsConserved'
  BY <1>1, <1>7, CompletionConserves, InTheseWords
<1> QED
  BY <1>5, <1>6, <1>8 DEF TasksIInv

-----------------------------------------------------------------------------
(* The theorems.                                                           *)

\* The project starts with nothing paid, and with what the client opened its
\* wallet with partly reserved.
LEMMA TasksStart ==
  ASSUME TasksInit
  PROVE  TasksIInv
<1> DEFINE o == NewWallet(Opening)
           c == Moved(o, "available", "reserved", Price, "BUDGET_RESERVATION")
           f == [u \in Users |-> Opening]
<1>1. /\ o \in Wallet /\ Total(o) = Opening /\ o.earned = 0 /\ o.available = Opening
      /\ ~ o.frozen
  BY TeamFacts DEF NewWallet, Wallet, Total
<1>2. /\ Opening \in Nat /\ Price \in Nat /\ Price > 0 /\ Price <= Opening
      /\ MaxTasks \in Nat /\ MaxSubtasks \in Nat
  BY TasksAssumption
<1>3. wallet = [u \in Users |-> IF u = Client THEN c ELSE o]
  BY DEF TasksInit
<1>4. /\ "available" \in Bucket /\ "reserved" \in Bucket
      /\ Inflow("available", "reserved", Price) = 0
  BY DEF Bucket, Inflow
<1> HIDE DEF o
<1>5. CanMove(o, "available", "reserved", Price)
  BY <1>1, <1>2 DEF CanMove
<1>6. c \in Wallet /\ Total(c) = Total(o) + Inflow("available", "reserved", Price)
  BY <1>1, <1>2, <1>4, <1>5, MovedType, MovedEffect
<1> HIDE DEF c
<1>7. \A u \in Users : wallet[u] \in Wallet /\ Total(wallet[u]) = Opening
  BY <1>1, <1>2, <1>3, <1>4, <1>6
<1>8. TasksTypeOK
  <2>1. wallet \in [Users -> Wallet]
    BY <1>3, <1>7
  <2>2. [assignee |-> Lead, amount |-> 0, status |-> "NONE", file |-> FALSE, lapsed |-> FALSE]
          \in TaskRow
    BY DEF TaskRow
  <2>3. [of |-> 0, status |-> "NONE"] \in SubtaskRow
    BY <1>2 DEF SubtaskRow
  <2>4. /\ task \in [TaskIds -> TaskRow] /\ subtask \in [SubtaskIds -> SubtaskRow]
        /\ held \in Nat /\ done \in BOOLEAN /\ update = NoUpdate /\ due \subseteq TaskIds
        /\ paid \in [TaskIds -> Nat] /\ share \in Nat
    BY <1>2, <2>2, <2>3 DEF TasksInit
  <2> QED
    BY <2>1, <2>4 DEF TasksTypeOK
<1>9. UncreatedUnpaid /\ NoShareYet
  BY DEF UncreatedUnpaid, NoShareYet, TasksInit
<1>10. EarnedOncePerTask
  <2>1. ASSUME NEW u \in {Lead} \cup Members PROVE wallet[u].earned = 0 /\ EarnedBy(u) = 0
    <3>1. wallet[u].earned = 0
      BY <1>1, <1>3, TeamFacts
    <3>2. PartOf(Assigned, paid, u, MaxTasks) = [k \in 1..MaxTasks |-> 0]
      BY DEF PartOf, TasksInit, TaskIds
    <3>3. EarnedBy(u) = 0
      BY <1>2, <3>2, SumToZero DEF EarnedBy
    <3> QED
      BY <3>1, <3>3
  <2>2. share = 0
    BY DEF TasksInit
  <2> QED
    BY <2>1, <2>2, InTheseWords
<1>11. CoinsConserved
  <2>1. Totals = f
    BY <1>7 DEF Totals
  <2>2. IsFiniteSet(Users) /\ Opening \in Int
    BY <1>2, TeamFacts
  <2>3. SumOver(f, Users) = Cardinality(Users) * Opening
    BY <2>2, SumOverConstant
  <2> HIDE DEF f
  <2> QED
    BY <2>1, <2>3, InTheseWords
<1> QED
  BY <1>8, <1>9, <1>10, <1>11 DEF TasksIInv

\* Every step keeps the inductive invariant.
LEMMA TasksStep ==
  ASSUME TasksIInv, [TasksNext]_tVars
  PROVE  TasksIInv'
<1> DEFINE Table ==
      \/ \E t \in TaskIds :
           \/ \E u \in {Lead} \cup Members, amount \in Amounts : CreateTask(t, u, amount)
           \/ UploadTaskFile(t) \/ ReviewLapses(t) \/ VisitFails(t)
           \/ \E new \in TaskPosts : UpdateTaskStatus(t, new)
           \/ \E s \in SubtaskIds : CreateSubtask(s, t)
      \/ \E s \in SubtaskIds, new \in SubtaskPosts : ReadSubtask(s, new)
      \/ UpdateSubtaskStatus \/ UpdateFails \/ VisitProject
      \/ UNCHANGED tVars
<1>1. CASE Table
  <2>1. UNCHANGED <<wallet, held, done, paid, share>>
    BY <1>1 DEF CreateTask, UploadTaskFile, ReviewLapses, VisitFails, UpdateTaskStatus,
                CreateSubtask, ReadSubtask, UpdateSubtaskStatus, UpdateFails, VisitProject, tVars
  <2>2. /\ TasksTypeOK'
        /\ \A t \in TaskIds : \/ task'[t].assignee = task[t].assignee
                              \/ task[t].status = "NONE"
        /\ \A t \in TaskIds : task'[t].status = "NONE" => task[t].status = "NONE"
    BY <1>1, <2>1, TablesKeepTypes DEF TasksIInv
  <2>3. \A t \in TaskIds : task'[t].assignee = task[t].assignee \/ paid[t] = 0
    BY <2>2 DEF TasksIInv, UncreatedUnpaid
  <2> QED
    BY <2>1, <2>2, <2>3, QuietSteps
<1>2. ASSUME NEW t \in TaskIds, AutoApprove(t) PROVE TasksIInv'
  <2>1. ApproveTask(t) /\ due' \subseteq TaskIds
    BY <1>2 DEF AutoApprove, TasksIInv, TasksTypeOK
  <2> QED
    BY <2>1, ApprovalKeeps
<1>3. ASSUME NEW t \in TaskIds, ApproveTask(t) /\ UNCHANGED due PROVE TasksIInv'
  <2>1. due' \subseteq TaskIds
    BY <1>3 DEF TasksIInv, TasksTypeOK
  <2> QED
    BY <1>3, <2>1, ApprovalKeeps
<1>4. CASE CompleteAgreement
  BY <1>4, CompletionKeeps
<1>5. CASE \/ \E amount \in Coins : TopUp(amount) \/ ReserveElsewhere(amount)
           \/ \E frozen \in BOOLEAN : SetWalletFrozen(frozen)
  BY <1>5, ClientSteps
<1>6. \/ Table \/ CompleteAgreement
      \/ \E t \in TaskIds : AutoApprove(t) \/ (ApproveTask(t) /\ UNCHANGED due)
      \/ \E amount \in Coins : TopUp(amount) \/ ReserveElsewhere(amount)
      \/ \E frozen \in BOOLEAN : SetWalletFrozen(frozen)
  BY Zenon DEF TasksNext
<1> HIDE DEF Table
<1> QED
  BY <1>1, <1>2, <1>3, <1>4, <1>5, <1>6

\* The invariant of the induction holds of every behaviour.
THEOREM TasksInductive == TasksSpec => []TasksIInv
<1>1. TasksInit => TasksIInv
  BY TasksStart
<1>2. TasksIInv /\ [TasksNext]_tVars => TasksIInv'
  BY TasksStep
<1> QED
  BY <1>1, <1>2, PTL DEF TasksSpec

\* Every row is a row of its table in every state.
THEOREM TasksTypesKept == TasksSpec => []TasksTypeOK
<1>1. TasksIInv => TasksTypeOK
  BY DEF TasksIInv
<1> QED
  BY <1>1, TasksInductive, PTL

\* However approvals by hand, by pages on old copies and the completion follow
\* each other, every task is paid for once: what a freelancer has earned is
\* what the payments of his or her tasks say.
THEOREM EveryTaskEarnedOnce == TasksSpec => []EarnedOncePerTask
<1>1. TasksIInv => EarnedOncePerTask
  BY DEF TasksIInv
<1> QED
  BY <1>1, TasksInductive, PTL

\* No approval, top-up or completion makes a coin or loses one.
THEOREM CoinsAlwaysConserved == TasksSpec => []CoinsConserved
<1>1. TasksIInv => CoinsConserved
  BY DEF TasksIInv
<1> QED
  BY <1>1, TasksInductive, PTL

\* A step that completes the agreement hands out the price.
LEMMA CompletionShares ==
  ASSUME TasksIInv, [TasksNext]_tVars, done', ~ done
  PROVE  /\ IF AlreadyPaidToMembers <= Price
            THEN SumTo([t \in TaskIds |-> IF task[t].assignee # Lead THEN paid'[t] ELSE 0], MaxTasks)
                   + share' = Price
            ELSE /\ SumTo([t \in TaskIds |-> IF task[t].assignee # Lead THEN paid'[t] ELSE 0], MaxTasks)
                      = AlreadyPaidToMembers
                 /\ share' = 0
         /\ share' > 0 => \A t \in PendingMemberTasks : paid'[t] = task[t].amount
<1>0. TasksTypeOK
  BY DEF TasksIInv
<1>1. CompleteAgreement
  BY DEF TasksNext, CreateTask, UploadTaskFile, ReviewLapses, AutoApprove, VisitFails,
         UpdateTaskStatus, CreateSubtask, ReadSubtask, UpdateSubtaskStatus, UpdateFails,
         VisitProject, TopUp, ReserveElsewhere, SetWalletFrozen, ApproveTask, tVars
<1> DEFINE f == ForMember(paid)
           h == [t \in TaskIds |-> IF task[t].assignee # Lead THEN paid'[t] ELSE 0]
           rest == Remaining[MaxTasks]
<1>2. /\ share' = rest /\ \A t \in TaskIds : paid'[t] = paid[t] + Disbursed[t]
  BY <1>1 DEF CompleteAgreement
<1>3. /\ Disbursed \in [1..MaxTasks -> Nat]
      /\ \A t \in TaskIds : t \notin PendingMemberTasks => Disbursed[t] = 0
      /\ \A t \in PendingMemberTasks : rest > 0 => Disbursed[t] = task[t].amount
      /\ Remaining[0] \in Nat /\ rest \in Nat /\ rest <= Remaining[0]
      /\ SumTo(Disbursed, MaxTasks) = Remaining[0] - rest
  BY <1>0, DisbursedFacts
<1>4. /\ f \in [1..MaxTasks -> Nat] /\ MaxTasks \in Nat /\ Price \in Nat
      /\ AlreadyPaidToMembers \in Nat /\ SumTo(f, MaxTasks) = AlreadyPaidToMembers
  BY <1>0, PaymentTypes, TeamFacts DEF AlreadyPaidToMembers
<1>5. h = [t \in 1..MaxTasks |-> f[t] + Disbursed[t]]
  <2>1. ASSUME NEW t \in 1..MaxTasks PROVE h[t] = f[t] + Disbursed[t]
    <3>1. t \in TaskIds /\ paid[t] \in Nat /\ Disbursed[t] \in Nat
      BY <1>0, <1>3 DEF TaskIds, TasksTypeOK
    <3>2. task[t].assignee = Lead => Disbursed[t] = 0
      BY <1>3, <3>1 DEF PendingMemberTasks
    <3> QED
      BY <1>2, <3>1, <3>2 DEF ForMember
  <2> QED
    BY <2>1 DEF TaskIds
<1>6. Remaining[0] = IF AlreadyPaidToMembers < Price THEN Price - AlreadyPaidToMembers ELSE 0
  BY <1>0, RemainingSteps DEF AtFirst
<1>7. \A t \in PendingMemberTasks : paid[t] = 0 /\ t \in TaskIds /\ task[t].amount \in Nat
  BY <1>0 DEF PendingMemberTasks, TasksTypeOK, TaskRow
<1> HIDE DEF f, h, rest
<1>8. SumTo(h, MaxTasks) = AlreadyPaidToMembers + (Remaining[0] - rest)
  <2>1. f \in [1..MaxTasks -> Int] /\ Disbursed \in [1..MaxTasks -> Int]
    BY <1>3, <1>4
  <2> QED
    BY <1>3, <1>4, <1>5, <2>1, SumToAdd
<1>9. /\ IF AlreadyPaidToMembers <= Price
         THEN SumTo(h, MaxTasks) + share' = Price
         ELSE SumTo(h, MaxTasks) = AlreadyPaidToMembers /\ share' = 0
      /\ share' > 0 => \A t \in PendingMemberTasks : paid'[t] = task[t].amount
  <2> DEFINE before == AlreadyPaidToMembers
             r == Remaining[0]
  <2>1. /\ before \in Nat /\ r \in Nat /\ rest \in Nat /\ rest <= r /\ Price \in Nat
        /\ r = IF before < Price THEN Price - before ELSE 0
        /\ SumTo(h, MaxTasks) = before + (r - rest) /\ share' = rest
    BY <1>2, <1>3, <1>4, <1>6, <1>8
  <2> HIDE DEF before, r
  <2>2. IF before <= Price
        THEN SumTo(h, MaxTasks) + share' = Price
        ELSE SumTo(h, MaxTasks) = before /\ share' = 0
    BY <2>1
  <2>3. ASSUME NEW t \in PendingMemberTasks, share' > 0 PROVE paid'[t] = task[t].amount
    BY <1>2, <1>3, <1>7, <2>3
  <2> QED
    BY <2>2, <2>3 DEF before
<1> QED
  BY <1>9 DEF h

\* The completion spends the agreed price once, whatever was paid to members
\* before, and leaves none of their completed tasks unpaid to pay the lead.
THEOREM PriceAlwaysShared == TasksSpec => PriceIsShared
<1>1. TasksIInv /\ [TasksNext]_tVars =>
        [done' /\ ~ done =>
           LET toMembers == SumTo([t \in TaskIds |->
                 IF task[t].assignee # Lead THEN paid'[t] ELSE 0], MaxTasks)
           IN  /\ IF AlreadyPaidToMembers <= Price
                  THEN toMembers + share' = Price
                  ELSE toMembers = AlreadyPaidToMembers /\ share' = 0
               /\ share' > 0 => \A t \in PendingMemberTasks : paid'[t] = task[t].amount]_tVars
  BY CompletionShares
<1> QED
  BY <1>1, TasksInductive, PTL DEF TasksSpec, PriceIsShared

=============================================================================
