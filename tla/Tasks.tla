-------------------------------- MODULE Tasks --------------------------------
(***************************************************************************)
(* The tasks of one project and what they earn: src/apps/tasks/services.py *)
(* with its views, the automatic approval that the project's page performs *)
(* (projects/views.py:33), and the completion of the agreement, which pays *)
(* the team before the lead (agreements/services.py:62).                   *)
(*                                                                         *)
(* The project is under way: the client's wallet reserves its price.       *)
(* Tasks are paid from the client's escrow balance.  Nothing in the web    *)
(* application fills that; the ledger's top-up does, and is an action of   *)
(* its own here.  Who may post what is left out: the lead may post         *)
(* everything that anybody may.                                            *)
(*                                                                         *)
(* Two requests decide on copies.  A page that is being built holds the    *)
(* submitted tasks it has read ("due") and approves them one by one; a     *)
(* subtask is updated next to its parent as the view read it ("update").   *)
(***************************************************************************)
EXTENDS Settlement, Sums

CONSTANTS Client, Lead, Members, Price, Opening, Amounts, Coins,
          TaskPosts, SubtaskPosts, MaxTasks, MaxSubtasks

ASSUME TasksAssumption ==
  /\ Client # Lead /\ {Client, Lead} \cap Members = {} /\ IsFiniteSet(Members)
  /\ Price \in Nat \ {0} /\ Opening \in Nat /\ Price <= Opening
  /\ Amounts \subseteq Nat /\ Coins \subseteq Nat \ {0}
  /\ MaxTasks \in Nat /\ MaxSubtasks \in Nat

SubtaskStatus == {"TODO", "IN_PROGRESS", "IN_REVIEW", "COMPLETED"}
TaskStatus == SubtaskStatus \cup {"CANCELLED"}

\* Bounds: the statuses that are posted for a task, beside COMPLETED, and for a
\* subtask.
ASSUME PostsAssumption ==
  TaskPosts \subseteq TaskStatus \ {"COMPLETED"} /\ SubtaskPosts \subseteq SubtaskStatus

Users == {Client, Lead} \cup Members
TaskIds == 1..MaxTasks
SubtaskIds == 1..MaxSubtasks

VARIABLES
  wallet,   \* the Wallet rows
  held,     \* reserved_amount of the job
  done,     \* the agreement and its project are COMPLETED
  task,     \* the Task rows
  subtask,  \* the Subtask rows
  update,   \* the running request that updates a subtask
  due,      \* lapsed tasks that project pages in the making are about to approve
  paid,     \* what the PROJECT_PAYMENT row of each task and its assignee says
  share     \* what the completion paid to the lead

tVars == <<wallet, held, done, task, subtask, update, due, paid, share>>

\* "lapsed": the review window has passed since the task was submitted.
TaskRow == [assignee : {Lead} \cup Members, amount : Nat,
            status : TaskStatus \cup {"NONE"}, file : BOOLEAN, lapsed : BOOLEAN]
SubtaskRow == [of : 0..MaxTasks, status : SubtaskStatus \cup {"NONE"}]

NoUpdate == [sub |-> 0]

TasksInit ==
  /\ wallet = [u \in Users |->
       IF u = Client
       THEN Moved(NewWallet(Opening), "available", "reserved", Price, "BUDGET_RESERVATION")
       ELSE NewWallet(Opening)]
  /\ held = Price
  /\ done = FALSE
  /\ task = [t \in TaskIds |-> [assignee |-> Lead, amount |-> 0, status |-> "NONE",
                                file |-> FALSE, lapsed |-> FALSE]]
  /\ subtask = [s \in SubtaskIds |-> [of |-> 0, status |-> "NONE"]]
  /\ update = NoUpdate
  /\ due = {}
  /\ paid = [t \in TaskIds |-> 0]
  /\ share = 0

Next1(table, k) == table[k].status = "NONE" /\ \A j \in 1..(k-1) : table[j].status # "NONE"

-----------------------------------------------------------------------------
(* Tasks and subtasks.                                                     *)

CreateTask(t, u, amount) ==
  /\ Next1(task, t)
  /\ task' = [task EXCEPT ![t] = [assignee |-> u, amount |-> amount, status |-> "TODO",
                                  file |-> FALSE, lapsed |-> FALSE]]
  /\ UNCHANGED <<wallet, held, done, subtask, update, due, paid, share>>

UploadTaskFile(t) ==
  /\ task[t].status # "NONE" /\ ~ task[t].file
  /\ task' = [task EXCEPT ![t].file = TRUE]
  /\ UNCHANGED <<wallet, held, done, subtask, update, due, paid, share>>

\* update_task_status() with any status but COMPLETED.  Submitting, again or
\* for the first time, starts the review window.
UpdateTaskStatus(t, new) ==
  /\ task[t].status # "NONE"
  /\ new = "IN_REVIEW" /\ task[t].amount > 0 => task[t].file
  /\ task' = [task EXCEPT ![t].status = new, ![t].lapsed = FALSE]
  /\ UNCHANGED <<wallet, held, done, subtask, update, due, paid, share>>

\* The review window passes; nothing is written.
ReviewLapses(t) ==
  /\ task[t].status = "IN_REVIEW" /\ ~ task[t].lapsed
  /\ task' = [task EXCEPT ![t].lapsed = TRUE]
  /\ UNCHANGED <<wallet, held, done, subtask, update, due, paid, share>>

\* Faulty variant: no look at what has been paid for the task already.
PayableAgain(t) ==
  /\ task[t].amount > 0
  /\ wallet[Client].escrow >= task[t].amount

\* The payment of a task goes ahead.
Payable(t) ==
  /\ task[t].amount > 0 /\ paid[t] = 0
  /\ wallet[Client].escrow >= task[t].amount

\* update_task_status() with COMPLETED, by hand or automatically.  A movement
\* that raises takes the whole call back: its handler names a logger that the
\* module does not have.
ApproveTask(t) ==
  LET amount == task[t].amount
  IN  /\ task[t].status # "NONE"
      /\ task' = [task EXCEPT ![t].status = "COMPLETED"]
      /\ IF Payable(t)
         THEN /\ CanMove(wallet[Client], "escrow", "external", amount)
              /\ wallet' = [wallet EXCEPT
                   ![Client] = Moved(@, "escrow", "external", amount, "ESCROW_RELEASE"),
                   ![task[t].assignee] = Paid(@, amount)]
              /\ paid' = [paid EXCEPT ![t] = amount]
         ELSE UNCHANGED <<wallet, paid>>
      /\ UNCHANGED <<held, done, subtask, update, share>>

CreateSubtask(s, t) ==
  /\ Next1(subtask, s)
  /\ task[t].status # "NONE"
  /\ subtask' = [subtask EXCEPT ![s] = [of |-> t, status |-> "TODO"]]
  /\ UNCHANGED <<wallet, held, done, task, update, due, paid, share>>

\* The view reads the subtask and its task; a status it has already is ignored.
ReadSubtask(s, new) ==
  /\ update = NoUpdate
  /\ subtask[s].status \notin {"NONE", new}
  /\ update' = [sub |-> s, new |-> new, todo |-> task[subtask[s].of].status = "TODO"]
  /\ UNCHANGED <<wallet, held, done, task, subtask, due, paid, share>>

\* The last subtask to be completed completes the task, without paying for it;
\* the first to be started starts the task as it was when it was read.
UpdateSubtaskStatus ==
  LET s == update.sub
      t == subtask[s].of
      rows == [subtask EXCEPT ![s].status = update.new]
      all == \A r \in SubtaskIds : rows[r].of = t => rows[r].status = "COMPLETED"
  IN  /\ update # NoUpdate
      /\ subtask' = rows
      /\ task' = [task EXCEPT ![t].status =
           IF update.new = "COMPLETED" /\ all THEN "COMPLETED"
           ELSE IF update.new = "IN_PROGRESS" /\ update.todo THEN "IN_PROGRESS" ELSE @]
      /\ update' = NoUpdate
      /\ UNCHANGED <<wallet, held, done, due, paid, share>>

UpdateFails ==
  /\ update # NoUpdate /\ update' = NoUpdate
  /\ UNCHANGED <<wallet, held, done, task, subtask, due, paid, share>>

-----------------------------------------------------------------------------
(* The project's page.                                                     *)

Lapsed(t) == task[t].status = "IN_REVIEW" /\ task[t].lapsed

\* The page reads the submitted tasks.  (It asks for the age of each when its
\* turn comes, which is taken together with the read here.)
VisitProject ==
  /\ due' = due \cup {t \in TaskIds : Lapsed(t)}
  /\ due' # due
  /\ UNCHANGED <<wallet, held, done, task, subtask, update, paid, share>>

\* Faulty variant: a task nobody can pay for now is not approved.
AutoApproveFunded(t) ==
  /\ t \in due
  /\ Payable(t)
  /\ ApproveTask(t)
  /\ due' = due \ {t}

\* check_and_auto_approve_task() approves the copy, whatever became of the task.
AutoApprove(t) ==
  /\ t \in due
  /\ ApproveTask(t)
  /\ due' = due \ {t}

\* The page fails before it reaches t.
VisitFails(t) ==
  /\ t \in due
  /\ due' = due \ {t}
  /\ UNCHANGED <<wallet, held, done, task, subtask, update, paid, share>>

-----------------------------------------------------------------------------
(* The client's money.                                                     *)

\* hold_escrow_from_available(): a top-up of the project's escrow.
TopUp(amount) ==
  /\ CanMove(wallet[Client], "available", "escrow", amount)
  /\ wallet' = [wallet EXCEPT
       ![Client] = Moved(@, "available", "escrow", amount, "ESCROW_HOLD")]
  /\ UNCHANGED <<held, done, task, subtask, update, due, paid, share>>

\* The client publishes another job.
ReserveElsewhere(amount) ==
  /\ CanMove(wallet[Client], "available", "reserved", amount)
  /\ wallet' = [wallet EXCEPT
       ![Client] = Moved(@, "available", "reserved", amount, "BUDGET_RESERVATION")]
  /\ UNCHANGED <<held, done, task, subtask, update, due, paid, share>>

SetWalletFrozen(frozen) ==
  /\ wallet[Client].frozen # frozen
  /\ wallet' = [wallet EXCEPT ![Client].frozen = frozen]
  /\ UNCHANGED <<held, done, task, subtask, update, due, paid, share>>

-----------------------------------------------------------------------------
(* The completion of the agreement.                                        *)

ForMember(f) == [t \in TaskIds |-> IF task[t].assignee # Lead THEN f[t] ELSE 0]

AlreadyPaidToMembers == SumTo(ForMember(paid), MaxTasks)

PendingMemberTasks ==
  {t \in TaskIds : /\ task[t].status = "COMPLETED" /\ task[t].assignee # Lead
                   /\ task[t].amount > 0 /\ paid[t] = 0}

\* Faulty variant: what was paid before does not count against the price.
RemainingUnreduced ==
  LET rest[n \in 0..MaxTasks] ==
        IF n = 0 THEN Price
        ELSE IF n \notin PendingMemberTasks THEN rest[n-1]
             ELSE IF task[n].amount < rest[n-1] THEN rest[n-1] - task[n].amount ELSE 0
  IN  rest

\* What is left of the price once the first n tasks have been seen to.
Remaining ==
  LET rest[n \in 0..MaxTasks] ==
        IF n = 0
        THEN IF AlreadyPaidToMembers < Price THEN Price - AlreadyPaidToMembers ELSE 0
        ELSE IF n \notin PendingMemberTasks THEN rest[n-1]
             ELSE IF task[n].amount < rest[n-1] THEN rest[n-1] - task[n].amount ELSE 0
  IN  rest

Disbursed == [t \in TaskIds |-> Remaining[t-1] - Remaining[t]]

\* Faulty variant: each member is credited with the whole allocation.
CreditedInFull(u) ==
  SumTo([t \in TaskIds |-> IF task[t].assignee = u /\ t \in PendingMemberTasks
                           THEN task[t].amount ELSE 0], MaxTasks)
    + (IF u = Lead THEN Remaining[MaxTasks] ELSE 0)

\* What the completion credits to a freelancer.
Credited(u) ==
  SumTo([t \in TaskIds |-> IF task[t].assignee = u THEN Disbursed[t] ELSE 0], MaxTasks)
    + (IF u = Lead THEN Remaining[MaxTasks] ELSE 0)

\* The client's wallet once the team is paid, in one movement for all members.
AfterTeam ==
  LET total == Remaining[0] - Remaining[MaxTasks]
  IN  IF total > 0
      THEN Moved(wallet[Client], "escrow", "external", total, "ESCROW_RELEASE")
      ELSE wallet[Client]

CompleteAgreement ==
  LET total == Remaining[0] - Remaining[MaxTasks]
      rest == Remaining[MaxTasks]
  IN  /\ ~ done
      /\ total > 0 => CanMove(wallet[Client], "escrow", "external", total)
      /\ CanSettle(AfterTeam, rest, held)
      /\ wallet' = [u \in Users |-> IF u = Client THEN Settled(AfterTeam, rest, held)
                                    ELSE Paid(wallet[u], Credited(u))]
      /\ paid' = [t \in TaskIds |-> paid[t] + Disbursed[t]]
      /\ share' = rest
      /\ held' = 0
      /\ done' = TRUE
      /\ UNCHANGED <<task, subtask, update, due>>

-----------------------------------------------------------------------------
TasksNext ==
  \/ \E t \in TaskIds :
       \/ \E u \in {Lead} \cup Members, amount \in Amounts : CreateTask(t, u, amount)
       \/ UploadTaskFile(t) \/ ReviewLapses(t) \/ AutoApprove(t) \/ VisitFails(t)
       \/ ApproveTask(t) /\ UNCHANGED due
       \/ \E new \in TaskPosts : UpdateTaskStatus(t, new)
       \/ \E s \in SubtaskIds : CreateSubtask(s, t)
  \/ \E s \in SubtaskIds, new \in SubtaskPosts : ReadSubtask(s, new)
  \/ UpdateSubtaskStatus \/ UpdateFails \/ VisitProject \/ CompleteAgreement
  \/ \E amount \in Coins : TopUp(amount) \/ ReserveElsewhere(amount)
  \/ \E frozen \in BOOLEAN : SetWalletFrozen(frozen)

\* The page of a project with submitted work is opened again and again, and not
\* every time it fails before it reaches a given task.
TasksFairness == WF_tVars(VisitProject) /\ \A t \in TaskIds : SF_tVars(AutoApprove(t))

TasksSpec == TasksInit /\ [][TasksNext]_tVars /\ TasksFairness

-----------------------------------------------------------------------------
\* A freelancer has earned what the payments of the tasks say, each once, and
\* the lead's share: approval by hand, by the page, by several pages and by the
\* completion all look for the payment of a task before they make it.
EarnedOncePerTask ==
  \A u \in {Lead} \cup Members :
    wallet[u].earned =
      SumTo([t \in TaskIds |-> IF task[t].assignee = u THEN paid[t] ELSE 0], MaxTasks)
        + (IF u = Lead THEN share ELSE 0)

\* Between the client and the team no coin appears or disappears.
CoinsConserved ==
  SumOver([u \in Users |-> Total(wallet[u])], Users) = Cardinality(Users) * Opening

\* The completion spends the price once: the payments to members, earlier ones
\* included, and the lead's share add up to the price, unless the members had
\* more than that already; and no completed task of a member is left unpaid
\* while there is something left for the lead.
PriceIsShared ==
  [][done' /\ ~ done =>
       LET toMembers == SumTo([t \in TaskIds |->
             IF task[t].assignee # Lead THEN paid'[t] ELSE 0], MaxTasks)
       IN  /\ IF AlreadyPaidToMembers <= Price
              THEN toMembers + share' = Price
              ELSE toMembers = AlreadyPaidToMembers /\ share' = 0
           /\ share' > 0 => \A t \in PendingMemberTasks : paid'[t] = task[t].amount]_tVars

\* A submission nobody reviews in time is approved, or somebody deals with it;
\* only a frozen wallet of the client can stand against that.
LapsedReviewEnds ==
  \A t \in TaskIds : Lapsed(t) ~> (~ Lapsed(t) \/ wallet[Client].frozen)

=============================================================================
