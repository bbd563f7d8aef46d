# SkillBridge: a verification development

SkillBridge (`src/`) is a Django marketplace. Clients publish jobs and reserve
their budgets, freelancers propose, both negotiate, the client pays for the
delivered work, and administrators confirm deposits and pay withdrawals. This
directory holds TLA+ modules translated from that code, TLC configurations that
check them on small instances, and proofs for every instance that TLAPS checks.

- Check a run: `tlc -config MCWallets.cfg MCWallets.tla`.
- Check the proofs: `tlapm Wallets_proofs.tla`, and the other `*_proofs.tla` likewise.
- `PROJECT.json` lists the runs, the mutants that show what each property can
  catch, the source lines of every definition, the findings and the hazards.

## 1. Inventory

| Component | State | Operations | Interacts with |
|---|---|---|---|
| Ledger (`wallets/ledger.py`) | `Wallet` rows: three balances, four lifetime counters, a freeze flag; `WalletTransaction` rows | `move()` and its wrappers | called by wallets, marketplace, negotiations, agreements, tasks |
| Wallet services (`wallets/services.py`) | `Deposit`, `Withdrawal` | create, approve, reject; freeze | ledger, notifications, admin console |
| Admin console (`wallets/admin.py`) | the open change forms of administrators | change form, add form, list actions | wallet services, or the rows directly |
| Marketplace (`marketplace/services.py`) | `Job` with `budget`, `reserved_amount`, `status`, `proposal_count` | create, publish, update, cancel | reserves budgets in the ledger |
| Proposals (`proposals/services.py`) | `Proposal` | submit, withdraw, reject | job's status and counter |
| Negotiations (`negotiations/services.py`) | `Negotiation`, `Offer` with expiry | open, offer, reject, accept, cancel | proposals, jobs, ledger, agreements |
| Agreements (`agreements/services.py`) | `Agreement` | create, submit work, complete and pay | ledger, jobs, projects, tasks |
| Projects, teams (`projects/`) | `Project`, `Team`, `TeamMember`, `TeamInvitation`, `Review` | create, invite, answer, comment, review; the project list and page, which write | agreements, tasks |
| Tasks (`tasks/services.py`) | `Task`, `Subtask`, files | status changes, automatic approval after 48 h, payment | ledger, projects, agreements |
| Accounts (`accounts/`) | `User`, `EmailVerificationToken` | register, send and follow links, log in, settings, password, suspend, reinstate; the admin's change form and password page | creates wallets by a signal |
| Messaging (`messaging/`) | `Conversation`, `Message`, unread counters, receipts; the open pages | open, send, read, poll | jobs |
| Notifications (`notifications/`) | `Notification`, e-mail | notify, mark read | called by everything |
| Profiles, portfolios, core pages and assistant | single-owner rows, text | forms and queries | read the others |
| Escrow (`escrow/`) | `Escrow` | fund, release | nothing: not in `INSTALLED_APPS` |

### How a request runs

Almost every service function is decorated with `transaction.atomic()`, and
those that move money read their rows again inside the transaction
(`select_for_update().get(pk=...)`) before they decide. The database is SQLite
(`config/settings.py:24`), whose transactions are serializable: of two that
overlap, the second writer waits or fails. Four rules of modelling follow.

1. A service function that reads its rows in its transaction is one atomic
   action. All it calls is part of the action.
2. A call that raises rolls back and changes nothing, so it is not a step.
3. A decision taken on an object that was read *before* the transaction (a
   view's object, an administrator's form) takes two steps, and anything may
   happen between them.
4. A function without a transaction (`respond_to_invitation()`, `login()`, a
   view that calls several services) is as many steps as it has writes, and the
   process may die between them.

### What is hard here, and what would be correct

- **Stale decisions.** Administrators' change forms and `open_negotiation()`
  decide on old rows. Correct: a request is settled once unless a form makes it
  pending again, a freelancer has one
  live proposal on a job, and a hire is final.
- **One balance for several promises.** `reserved_balance` backs pending
  withdrawals and job budgets together. Correct: it is always the sum of both.
- **Competing hires.** Several negotiations of one job end independently.
  Correct: an agreement has exactly one accepted offer, and what it owes is reserved.
- **Retries.** Approvals, rejections and payments are posted again. Correct:
  nothing is posted a second time.
- **Several movements in one operation.** Payment is a debit, a credit and a
  release. Correct: all or none, and no coin is created.
- **Time.** Offers and invitations expire without anything being written.
  Correct: at most one offer of a negotiation, and one invitation of a person,
  is open.
- **Saves of old rows.** An answer to an invitation, a subtask's parent, the
  settings page and the admin's pages of a user save what was read before.
  Correct: nobody gets into a team uninvited, no task is paid twice, and a ban, a
  verification or a password is undone only by who decides so, or by a request
  that loaded the row before, of the few kinds that can.
- **Half-done requests.** A process may die between saving an answer and adding
  the member; a page may be lost after its messages were marked read. Correct:
  nothing else than that is lost.
- **What must happen at last.** A review window passes and nobody acts; an open
  page polls through failures. Correct: the task is approved, the page catches up.
- **Books kept twice.** Balances, posted deltas and lifetime counters;
  `proposal_count` and the proposals; unread counters and receipts. Correct:
  they agree.

`PROJECT.json` lists each of these under `hazards`, at its line, with the
properties that cover it; one (view counts of portfolios) has none.

## 2. Modules

| Module | Models | State |
|---|---|---|
| `Ledger` | a wallet row and `move()` | none (operators) |
| `Sums` | summing over rows | none |
| `Treasury` | abstract specification: what a user holds is the opening balance plus verified deposits minus paid withdrawals, plus or minus payments between users | `coins`, `verified`, `paid` |
| `Wallets` | `wallets/services.py` | `wallet`, `deposit`, `withdrawal`; the ledger rows posted for each request (`credits`, `payouts`, `returns`) |
| `AdminConsole` | `wallets/admin.py`, on `Wallets` | the open forms; how often a saved form reopened a row |
| `Hiring` | jobs, proposals, negotiations and the creation of agreements, on `Wallets` | `job`, `proposal`, `opening`, `negotiation`, `offer`, `agreement` |
| `Cancellation` | `cancel_job()`, on `Hiring` | `refundDue`: cancelled jobs that held a reservation |
| `Projects` | projects made by the project list, and reviews, on `Hiring` | `listed`: agreements read and not yet handled; `made`, `finished`, `reviews` |
| `Settlement` | what a completion does to the client's and the freelancer's wallets | none (operators) |
| `Payout` | `complete_agreement_and_release_payment()`, on `Projects` and `Settlement` | none of its own |
| `Tasks` | `tasks/services.py`, the automatic approval by the project's page, and the completion with the payment of team members, on `Settlement` | `wallet`, `held`, `done`, `task`, `subtask`; the copies running requests hold (`update`, `due`); what was paid (`paid`, `share`) |
| `Teams` | invitations, answers and membership of one team | `members`, `invitation`; the running answers (`answer`); `lost` |
| `Messaging` | the conversations of one job, their pages and the polling script | `initiator`, `log`, `unread`, `receipts`, `jobCount`; `page`, `seen`, `lost` |
| `Accounts` | one account, its links, and the requests and admin pages that hold a copy of it | `account`, `token`, `request`, `now`; history `everVerified` |
| `MC*` | the instances TLC checks | |
| `*_proofs` | theorems about every module above but `Cancellation` (section 4) | |

`Hiring` extends `Wallets`, `Projects` extends `Hiring`, and `Payout` puts
them together with `Settlement`; `Tasks` reuses `Settlement` on a state of its
own, because the tasks of a project interact with its client's wallet and not
with the negotiations before it.

A table is a function from primary keys to rows, and a row not inserted yet
has status `"NONE"`. Amounts are whole cents (`MoneyField` has two decimals),
and `posted` is the sum of a wallet's `delta` column. One action stands for one
service function and carries its name in TLA+ spelling: `ApproveDeposit` is
`approve_deposit`. Actions of `Hiring` that differ from that:

- `BeginOpenRoom`, `OpenNegotiation` and `OpenNegotiationRefused` are one
  request to `open_room`: the view reads the proposal, then the transaction
  writes whatever the proposal has become, or the constraint
  `unique_active_proposal_per_job` rolls it back. `opening` holds the proposals
  that were read and not yet written.
- `CreateAndPublishJob` is `create_job(publish=True)`, one transaction.
- `OfferExpires` is time passing `expires_at`. The row stays ACTIVE in the
  table; the model says `"LAPSED"` because `is_actionable` tells them apart.
  `expire_stale_offers()` has no caller and is not an action.
- `AcceptOffer` includes the top-up and `create_agreement_from_offer()`.

Of the later modules:

- `ReadInvitation`, then `RefuseExpired` or `SaveAnswer`, then `JoinTeam` are one
  request to `respond_invitation`. `AnswerDies` is its process dying; `lost`
  remembers acceptances that never became members. `old` stands for 48 hours
  passing, as `is_expired` has it.
- `VisitProject` and `AutoApprove` are the page of a project: it reads the
  submitted tasks and approves the lapsed ones one by one, each in a transaction
  (`due` holds those still to come). `ApproveTask` is `update_task_status()` with
  COMPLETED; `UpdateTaskStatus` is the same function with any other status.
- `ReadSubtask` and `UpdateSubtaskStatus` are one request: the view reads the
  subtask and its task, the service uses the task as it was read.
- `TopUp` is `hold_escrow_from_available()`. No view calls it; without it no
  escrow balance is ever positive and no task is paid before the completion.
- `OpenPage` and `RenderPage` are the two halves of the view `detail`; a poll is
  one step, answered or failed.
- `LoadUser` is the middleware (or the login backend) reading the user,
  `LoadByAdmin` an administrator opening the change form or sending the password
  page; the action that ends the request is the save (`SavedBy`).
  `SetPasswordByAdmin` is the page `UserAdmin` inherits from `DjangoUserAdmin`
  (`accounts/admin.py:7`): like `SaveSettings` it writes the whole row it loaded.
- `SaveDepositForm` and `SaveWithdrawalForm` post any status, whatever the form
  shows: the status is a field like any other. `reopened` and `rewound` count the
  saves that made a settled row pending again.

Definitions called "Faulty variant" are plausible bugs. No specification uses
them; the mutants put one in place of the definition that follows it.

## 3. Runs

Fairness is assumed only where a program, not a person, has to act.

- `Teams`: `WF(JoinTeam(r))`. Between saving an acceptance and adding the member
  no one has to do anything: the request runs on, or its process dies
  (`AnswerDies`, which remains possible).
- `Tasks`: `WF(VisitProject)` and `SF(AutoApprove(t))`. This is the one
  assumption about people: that the page of a project with submitted work is
  opened again and again. Approval happens on that page and nowhere else, so without
  a visit nothing is approved. Each visit may fail before it reaches a task, so
  the approval needs strong fairness: not every visit fails.
- `Messaging`: `WF(Poll(f, s))`. The script sets a timer, which fires. Whether the
  request is answered or fails is not fair: that a page gives up after repeated
  failures is part of the property.

Nothing makes an administrator decide or a party answer, so the other modules
have safety properties only.

| Run | Shows | Bounds |
|---|---|---|
| `wallets` (pass) | Balances, posted deltas and counters agree; a request is settled once; a transaction ID is credited once; the reserved balance is what pending withdrawals ask for; money enters and leaves only with settled requests; a freeze keeps it; the wallets implement `Treasury` | 2 users, 2 deposits, 2 withdrawals, amounts 0 to 2, opening balance 2, one transaction ID |
| `console` (pass) | A request is settled again only after a saved form, old or edited, has made it pending again, one save per repetition; and whatever status forms write the wallet holds what was posted | 1 user, 2 deposits, 2 withdrawals, 2 forms |
| `console_trx` (violation) | One such save lets a transaction ID be credited twice | the same |
| `hiring` (pass) | The reserved balance is what withdrawals and jobs hold together; one live offer per negotiation; agreements and accepted offers correspond; an unpaid agreement is funded; one live proposal per freelancer and job; `proposal_count` never too high; a hire is final | 1 client, 2 freelancers, 1 job, 2 proposals, 2 rounds, 1 withdrawal, amounts 1 and 2, 2 coins |
| `hiring_spent_once` (violation) | Two hires on one job share a reservation | the same |
| `cancellation` (violation) | A cancelled job keeps its reservation, because `cancel_job()` always rolls back | the same |
| `payout` (pass) | An agreement is paid once, for its price; payments are transfers of `Treasury`; nothing stays reserved without a commitment; no more projects are finished or reviewed than agreements are paid | 1 client, 2 freelancers with wallets, 1 job, 2 proposals, 1 round, 1 withdrawal, 3 coins |
| `payout_funded` (violation) | A funded agreement cannot be completed in the ordinary case | the same, 2 coins |
| `teams` (pass) | Whoever is a member was invited; one open invitation each; who accepts is a member at last | 2 invitees, 2 invitations, 2 answers at a time |
| `tasks` (pass) | Each task is paid once, however many approvals meet; no coin appears; the completion spends the price once and pays members before the lead; a lapsed submission is approved unless the client's wallet is frozen | 1 lead, 1 member, 2 tasks, 1 subtask, price 3, allocation 2, 9 coins |
| `messaging` (pass) | Unread counters, receipts and the job's counter agree; nothing is marked read that was not shown, unless its page was lost; an open page shows every message or gives up | 2 conversations on a job, readers of one, 3 messages, batches of 1, 2 failures |
| `accounts` (pass) | One link is good at a time; which requests can undo a ban, a verification or a password; an account never verified has an unused link | 3 links, 2 requests or admin pages at a time, 2 passwords, 1 unit of time |

Why these bounds are enough. Every property relates at most two rows of a
table, or a row and the balances of its owner. Two deposits compete for a
transaction ID, two withdrawals for a balance, two proposals for a job, two
rounds make an offer and its answer. Amounts 1 and 2 against 2 or 3 coins give
all cases of enough, exactly enough, and too little; amount 0 in `wallets`
meets the check for positive amounts. What the bounds leave out, the proofs
cover for all but the liveness properties.

Two invitations let one lapse and be replaced, or go to two people, while two
answers race. Two tasks of allocation 2 against a price of 3 make the second
allocation exceed what is left. The script gives up after 5 failures and fetches
100 messages; with 2 and 1, three messages need several polls with failures in
between. Two requests that hold a copy are enough for one to save over the other.

Deadlock is checked except in `teams`: once both invitations are answered nothing
is left to do there.

`Thawed` (in `MCHiring` and `MCPayout`) cuts a behaviour after a freeze: freezing
only disables movements, and `wallets` explores it fully. `HiringTypeOK` and
the other invariants are still checked in the frozen state itself. Freelancers
(users in `MCWallets`) are symmetric: no definition and no property tells two
of them apart.

Refused calls are not steps, so a model cannot show that a call *fails* when it
should not. `FundedWorkCanBePaid` says this as a state predicate: whenever work
is delivered and its price reserved, the movements of the completion go through.

## 4. What is proved

Every invariant and every action property that a passing run checks is also a
theorem, for every value of the constants that the named assumptions of the
modules allow; so is the refinement of `Treasury`. What remains to TLC is named
at the end of this section.

| Proofs | About | Inductive invariant |
|---|---|---|
| `Ledger_proofs` | lemmas on `Sums`, `Ledger` and `Settlement` | |
| `Wallets_proofs` | `Wallets`, and that it implements `Treasury` | `IInv` |
| `AdminConsole_proofs` | `AdminConsole` | `ConsoleIInv` |
| `Hiring_proofs` | `Hiring`; `Projects` and `Payout` with their refinement of `Treasury` | `HiringIInv`, `PayoutIInv`, both on `HiringShape` |
| `Tasks_proofs` | `Tasks` | `TasksIInv` |
| `Teams_proofs` | `Teams` | `TeamsIInv` |
| `Accounts_proofs` | `Accounts` | one per theorem |
| `Messaging_proofs` | `Messaging` | `ReadIInv`, `CountIInv` |

The assumptions are that bounds are naturals, that amounts are, that the
markers `NoUser` and `NoTrx` are nobody's, and what the code says of roles:
clients and freelancers are different users with wallets
(`HiringAssumption`, `PayoutAssumption`), and a team is finite
(`TasksAssumption`). TLC evaluates them on the runs.

**Sums.** `SumTo` and the sums over users are recursive functions, and nothing
is known of a recursive function until its recursion is justified.
`Ledger_proofs` proves that the partial sums exist, and from that what changing
one row does to a sum (`SumToUpdate`, `SumOverUpdate`), what sums of nothing and
of differences are, and that what is dealt out to users row by row adds up to the
sum over the rows (`SumOverShares`). Most invariants about money are then a
matter of which row and which bucket an action changes. The other lemmas say
what `move()`, a payment and a settlement do to each part of a wallet.

**Wallets.** `IInv` is `TypeOK`, `BooksBalance`, `SettledOnce`,
`TrxClaimedOnce`, `ReservedBacksWithdrawals`, `CashConserved`, and two facts they
do not imply by themselves.

- `FiledRows`: a row that was filed belongs to a user and has a positive
  amount. Without it an approval could name no wallet, or move nothing.
- `ApprovedOnce`: of deposits with the same transaction ID at most one is
  approved. `TrxClaimedOnce` speaks of what was credited; the induction step of
  `ApproveDeposit` needs it of statuses, and `SettledOnce` translates.

The refinement maps a user's coins to `Total(wallet[u])`. Only approvals move the
total; reservations and their returns are stutters.

**Admin console.** A change form breaks what `Wallets` promises of statuses, and
with it most of `IInv`. `ConsoleIInv` starts again from `FiledRows`. That a
repeated settlement needs a reopened row is inductive only if it counts the
settlement that a pending row still has to come (`Reopenings`); that money follows
the postings needs that nothing is posted for a row before it is filed
(`Unposted`), and that forms show filed rows only (`FormsOfRows`).

**Hiring.** `HiringShape` says which rows go together: a job that is published has
a client, reserves nothing in a draft, and has a freelancer only past the search
(`JobStages`); a proposal is on a published job (`ProposedJobs`); a room is open
for a proposal that was read as open and has not been withdrawn since
(`RoomsOfProposals`); with `OneLiveOffer` and `AgreementFollowsOffer` it is
inductive. Each part is needed: without `RoomsOfProposals`, accepting an offer
could revive a withdrawn proposal; without `ProposedJobs`, hiring could touch a
draft. What jobs and proposals may become in a step are the lemmas `JobsMoveOn` and
`ProposalsMoveOn`, and `HireIsFinal` follows from the first. The money and
the counter rest on the shape and not the other way round
(`ReservationBacked`, `FundingStays`, `CountStays`). For
`ReservedBacksCommitments` the proof looks at the difference `Gap(u)` between
what a wallet reserves and what its withdrawals and jobs hold, and shows that no
step changes it, whatever it is.

**Payout.** That last point is what the completion needs: it breaks
`ReservedBacksCommitments` and `AgreementFunded`, since it returns the whole
reservation whatever it backed. `PayoutIInv` keeps `HiringShape`, and
`NothingStranded` says that the gap is at most zero, and zero until the client's
first completion: `GapStays` carries it over every step of hiring, and
`CompletionGap` shows that a completion only makes it smaller.
`EarningsMatchCompletions` is a sum over proposals of sums over rounds, of which
the completion changes one summand for both parties (`CompletionEarns`), and
which no other step changes because agreements that exist keep their parties and
prices (`PaidStay`, `PartiesStay`). `ProjectPerPayment` follows from counting:
a completion finishes at most one project (`CompletesOne`) and pays exactly one
agreement that was unpaid (`CompletionNotAhead`). In the refinement the
completion is a `Transfer`; that its amount is one of the amounts the ledger
moves, and not zero, is `PricedOffers`. `OrdinaryWorkAlwaysStuck` is the
counterpart of the run `payout_funded`: a client who reserves one job and
nothing else can never complete its agreement, whatever the amounts.

**Tasks.** `TasksIInv` is the types, `EarnedOncePerTask`, `CoinsConserved` and two
facts: a task nobody created was never paid (`UncreatedUnpaid`, because creating
it decides whom its payments count for), and there is no share of the lead before
the completion (`NoShareYet`). The completion pays one task after another out of
what the earlier ones left, which the model writes as a recursive function;
`PriceIsShared` is that what it takes in each round adds up to the price.

**Teams.** `TeamsIInv` adds `AnswersHaveRows` to the properties: a running answer
that has been saved belongs to a row that is no longer open, and one that has been
read to a row that was made. Without it `JoinTeam` could add somebody whose
invitation was still open. A row that was made is never unmade, nor reopened
(`RowsAlwaysMoveOn`), and every step keeps what running answers hold
(`AnswersKeepRows`).

**Accounts.** `UndoneByOldRowsOnly` is proved step by step and needs the types
only: a request that ends with another row than it loaded is one of the exceptions
(`OldRequests`), and a login on a row whose standing has not changed ends only a
suspension that was over (`BarStays`). `UnverifiedHasLink` is inductive together
with the fact that a verified account was verified at some time. It leans on the
order of tests in `verify_email()`: an expired link is refused before it is marked
used, so following links can use up the last one only by verifying.

**Messaging.** Both invariants add `ReceiptsOfMessages`, that only messages that
were sent have receipts: without it a message could be sent that is marked read
already, and the counter would not count it.

**Only model-checked.** The properties under fairness,
`AcceptedLeadsToMembership`, `LapsedReviewEnds` and `OpenPageShowsAll`, are out of
the prover's reach. `Cancellation` has only the property that its run violates.
The invariants of one module are not inherited by the next: beside job
reservations `ReservedBacksWithdrawals` is false and `ReservedBacksCommitments`
takes its place, and in `Payout` `NothingStranded` takes the place of that. The
type invariants of `Tasks`, `Teams`, `Accounts` and `Messaging` are proved and no
run repeats them; that of `Payout` is `HiringTypeOK` in `HiringShape` and
`ProjectRows`.

## 5. Disagreements found

Each of these is a run expected to fail; `PROJECT.json` quotes the lines.

1. `wallets/admin.py:76` writes whatever status a form posts over a settled
   request, left there by an old form or picked on a fresh one, and it can be
   settled again (`console_trx`).
2. `negotiations/services.py:110` lets two agreements share one reservation
   (`hiring_spent_once`).
3. `marketplace/services.py:112` calls `notify_many()` with positional
   arguments it takes by keyword only; cancelling a job always rolls back
   (`cancellation`).
4. `agreements/services.py:117` returns the whole reservation after the price
   was taken out of it (`payout_funded`). The completion fails unless other
   commitments of the client are reserved too, and then it takes what those had
   reserved. `NothingStranded` states what remains true: the reserved balance can
   fall short of the commitments after a completion but never exceed them.

Others are built into the models as the code has them, without a run:

- `accounts/signals.py:13` gives every wallet 5000.00 beside the ledger, so
  `reconcile_wallets` reports every user from the start
  (`tests/unit/test_wallets.py:24` expects a new wallet to be empty).
- The client's `lifetime_earned` grows with every payment the client makes, since
  debit and credit share a transaction type; `EarningsMatchCompletions` says so.
- `agreements/services.py:79` completes the newest project of the job, which with
  two agreements may be the other one's. `ProjectPerPayment` is what remains true.
- Projects are made by the project list, for agreements that are ACTIVE. Once
  work is submitted the agreement is not ACTIVE any more, and an agreement whose
  list nobody opened before that never gets a project.
- `help.html:37-38` says of a project's files: "Only the client, the hired
  freelancer and active team members." `has_access()` (`projects/models.py:30`)
  also admits everybody with a PENDING invitation, even after its 48 hours, since
  nothing writes EXPIRED until somebody answers. `MembersWereInvited` is about
  membership only and says nothing of access.
- The settings page saves every column (`accounts/views.py:130`), the admin's
  password page too, and a login ends a suspension by the row it loaded
  (`accounts/services.py:154`). Each can undo a ban of the meantime, the first two
  also a verification; `UndoneByOldRowsOnly` names what can undo what.
- An invitation lives 48 hours (`projects/models.py:71`); the setting
  `TEAM_INVITE_EXPIRY_HOURS` says 168 (`config/settings.py:58`) and is not read.
- `terms.html:35-37` says that funding a project moves its price into escrow.
  No view does; the completion pays the lead out of the reserved balance, and
  members, whom `release_payment()` pays from escrow, cannot be paid unless
  somebody has filled it.
- Payments to the lead for tasks of the lead's own do not count against the price.
  `PriceIsShared` is about members and the lead's share.
- `tasks/services.py:116` names a `logger` the module does not have, so a payment
  that raises takes the approval back with it; on the project's page it takes the
  whole page. `LapsedReviewEnds` excepts a frozen wallet for that reason.
- A job conversation is unique for its job and initiator
  (`messaging/models.py:41`), so a client who opened one on a job cannot
  open a second; `OpenJobConversation` has that as a guard.
- `terms.html:45` says a dispute freezes the escrow. A dispute is a row and changes
  nothing else.

## 6. Simplifications

- Checks that only refuse a call (verification, deadlines, text lengths,
  minimum deposits) and descriptive fields are left out: they remove
  behaviours and no property needs them. A user has one role.
- `move(..., allow_frozen=True)` is used by `adjust()` only, which has no
  caller.
- Of a deposit or withdrawal form the status is modelled; editing its amount or
  user is not.
- `JobAdmin` and `WalletAdmin` can edit rows directly and are not modelled.
  `moderate_job()` imports an app that does not exist and cannot succeed.
- `Payout` covers agreements without completed tasks of team members, `Tasks`
  those with them; `Tasks` has one agreement, whose client has other
  commitments (`ReserveElsewhere`).
- In `Tasks` the age of a submission is looked at when the page reads it, not
  when its turn comes. Who may post what is left out: the lead may post
  everything that anybody may. The bounds `TaskPosts` and `SubtaskPosts` name the
  statuses that are posted.
- `Teams` leaves out administrators who act in a user's place, and what
  `has_access()` lets members and invitees do (section 5).
- `Accounts` has one verification code per link and no two links with the same
  code; a unit of time is the 48 hours a link lives. Closed accounts are treated
  by the code as banned ones are. `EndRequest` may end any request without a save.
  The admin page of the links, which can edit `used_at`, is not modelled, and
  neither is a change form that edits verification and standing at once.

## 7. Plan

Done, in this order: `Ledger`, `Sums`, `Treasury`, `Wallets` with proofs;
`AdminConsole`; `Hiring`, `Cancellation`; `Payout`; `Teams` and `Accounts` with
proofs; `Projects`, `Tasks`, `Messaging`; the proofs of `Messaging`, `Hiring`,
`AdminConsole`, `Tasks`, `Projects` and `Payout`. Next:

1. `Tasks` with two projects of one client, whose escrow balance they share.
2. The refunds of `Cancellation` as they would be if the call were repaired, and
   what of `HiringIInv` that keeps.

### Not modelled

- Notifications: rows that nothing decides on.
- Profiles and portfolios: forms over rows of one owner, directory queries and
  statistics. `portfolios/services.py:45` saves whole rows beside an atomic
  counter and can lose views; nothing depends on them.
- The assistant, search, selectors, page rendering, forms and URLs: text and
  queries. They are the largest part of the code by lines, and they change no
  state that another component reads.
- `apps/escrow`: not in `INSTALLED_APPS`; its models cannot be imported, and the
  imports in the core are guarded.
- Management commands: `init_platform` and `seed_demo` fill an empty database,
  `recompute_metrics` and `recalculate_ratings` import modules that do not exist,
  `reconcile_wallets` reads only.
- Disputes, `create_team()` (a project always has a team), `assign_subtask()`,
  project conversations and archiving (no caller): see `PROJECT.json`.
- Migrations, tests, settings: the schema is read from the models, and tests and
  settings as statements of intent.
