------------------------------- MODULE Hiring -------------------------------
(***************************************************************************)
(* From a job's draft to its agreement: src/apps/marketplace/services.py,  *)
(* proposals/services.py, negotiations/services.py and the first half of   *)
(* agreements/services.py, on the client's wallet and next to the client's *)
(* withdrawals (Wallets), which draw on the same balances.                 *)
(*                                                                         *)
(* One action per service function.  A function is one transaction that    *)
(* reads its rows again before it decides; the exception is                *)
(* open_negotiation(), which decides on the proposal the view has read     *)
(* before the transaction began, so it takes two steps here.               *)
(* cancel_job() always rolls back and changes nothing; the requests that   *)
(* reach it are in Cancellation.                                           *)
(*                                                                         *)
(* Left out: deadlines, verification and the other checks that only refuse *)
(* a call (they remove behaviours, and no property needs them), and the    *)
(* job's descriptive fields.  A user has one role, so nobody proposes on   *)
(* their own job.  MaxJobs, MaxProposals and MaxOffers (per negotiation)   *)
(* bound what a behaviour can file.                                        *)
(***************************************************************************)
EXTENDS Wallets, FiniteSets

CONSTANTS Clients, Freelancers, MaxJobs, MaxProposals, MaxOffers

ASSUME HiringAssumption ==
  /\ Clients \subseteq Users
  /\ Clients \cap Freelancers = {}
  /\ NoUser \notin Freelancers
  /\ MaxJobs \in Nat /\ MaxProposals \in Nat /\ MaxOffers \in Nat

Jobs == 1..MaxJobs
Proposals == 1..MaxProposals
Rounds == 1..MaxOffers

JobStatus == {"NONE", "DRAFT", "OPEN", "PROPOSAL_RECEIVED", "NEGOTIATING",
              "HIRED", "IN_PROGRESS", "COMPLETED", "CANCELLED"}
OpenJob == {"OPEN", "PROPOSAL_RECEIVED", "NEGOTIATING"}
Cancellable == OpenJob \cup {"DRAFT"}

ProposalStatus ==
  {"NONE", "SUBMITTED", "NEGOTIATING", "ACCEPTED", "REJECTED", "WITHDRAWN"}
OpenProposal == {"SUBMITTED", "NEGOTIATING"}

\* "LAPSED" stands for a row that is ACTIVE in the table though its expires_at
\* has passed.
OfferStatus == {"NONE", "ACTIVE", "LAPSED", "ACCEPTED", "REJECTED", "COUNTERED",
                "WITHDRAWN"}
Side == {"client", "freelancer"}

JobRow == [client : Clients \cup {NoUser}, budget : Nat, reserved : Nat,
           status : JobStatus, hired : Freelancers \cup {NoUser}, count : Nat]
ProposalRow == [job : 0..MaxJobs, freelancer : Freelancers \cup {NoUser},
                amount : Nat, status : ProposalStatus]
NegotiationRow == [status : {"NONE", "ACTIVE", "ACCEPTED", "CANCELLED"},
                   rounds : 0..MaxOffers, current : 0..MaxOffers]
OfferRow == [sender : Side, amount : Nat, final : BOOLEAN,
             status : OfferStatus]
AgreementStatus == {"NONE", "ACTIVE", "IN_PROGRESS", "COMPLETED"}

VARIABLES
  job,          \* the Job table; count is proposal_count
  proposal,     \* the Proposal table
  opening,      \* proposals that a request to open a room has read as open
  negotiation,  \* negotiation[p]: the one negotiation of proposal p
  offer,        \* offer[p][i]: its offer of round i
  agreement     \* agreement[p][i]: the status of the agreement of that offer

hiringVars == <<job, proposal, opening, negotiation, offer, agreement>>
books == <<deposit, withdrawal, credits, payouts, returns>>
hVars == <<vars, hiringVars>>

HiringInit ==
  /\ Init
  /\ job = [j \in Jobs |-> [client |-> NoUser, budget |-> 0, reserved |-> 0,
       status |-> "NONE", hired |-> NoUser, count |-> 0]]
  /\ proposal = [p \in Proposals |->
       [job |-> 0, freelancer |-> NoUser, amount |-> 0, status |-> "NONE"]]
  /\ opening = {}
  /\ negotiation = [p \in Proposals |->
       [status |-> "NONE", rounds |-> 0, current |-> 0]]
  /\ offer = [p \in Proposals |-> [i \in Rounds |->
       [sender |-> "client", amount |-> 0, final |-> FALSE, status |-> "NONE"]]]
  /\ agreement = [p \in Proposals |-> [i \in Rounds |-> "NONE"]]

-----------------------------------------------------------------------------
(* marketplace/services.py *)

\* create_job() without publish=True.
CreateJob(j, c, budget) ==
  /\ NextKey(job, j)
  /\ budget > 0
  /\ job' = [job EXCEPT ![j].client = c, ![j].budget = budget, ![j].status = "DRAFT"]
  /\ UNCHANGED <<vars, proposal, opening, negotiation, offer, agreement>>

\* create_job(publish=True): one transaction, so a budget the client cannot
\* reserve leaves no draft behind.
CreateAndPublishJob(j, c, budget) ==
  /\ NextKey(job, j)
  /\ Move(c, "available", "reserved", budget, "BUDGET_RESERVATION")
  /\ job' = [job EXCEPT ![j].client = c, ![j].budget = budget,
                        ![j].reserved = budget, ![j].status = "OPEN"]
  /\ UNCHANGED <<books, proposal, opening, negotiation, offer, agreement>>

PublishJob(j) ==
  /\ job[j].status = "DRAFT"
  /\ Move(job[j].client, "available", "reserved", job[j].budget, "BUDGET_RESERVATION")
  /\ job' = [job EXCEPT ![j].reserved = job[j].budget, ![j].status = "OPEN"]
  /\ UNCHANGED <<books, proposal, opening, negotiation, offer, agreement>>

\* Faulty variant: the budget of a published job can be edited as well, and
\* the reservation is taken to be the new budget.
UpdateJobPublished(j, budget) ==
  /\ job[j].status \in Cancellable
  /\ budget > 0
  /\ job' = [job EXCEPT ![j].budget = budget,
       ![j].reserved = IF job[j].status = "DRAFT" THEN @ ELSE budget]
  /\ UNCHANGED <<vars, proposal, opening, negotiation, offer, agreement>>

\* The other fields can be edited until somebody is hired; the budget only in
\* a draft.
UpdateJob(j, budget) ==
  /\ job[j].status = "DRAFT"
  /\ budget > 0
  /\ job' = [job EXCEPT ![j].budget = budget]
  /\ UNCHANGED <<vars, proposal, opening, negotiation, offer, agreement>>

-----------------------------------------------------------------------------
(* proposals/services.py *)

\* The freelancer has a proposal on the job other than p that is not withdrawn,
\* which the database constraint unique_active_proposal_per_job also counts.
AlreadyProposed(f, j, p) ==
  \E q \in Proposals \ {p} : /\ proposal[q].status \notin {"NONE", "WITHDRAWN"}
                             /\ proposal[q].freelancer = f
                             /\ proposal[q].job = j

SubmitProposal(p, f, j, amount) ==
  /\ NextKey(proposal, p)
  /\ job[j].status \in OpenJob
  /\ ~ AlreadyProposed(f, j, p)
  /\ amount > 0
  /\ proposal' = [proposal EXCEPT ![p] =
       [job |-> j, freelancer |-> f, amount |-> amount, status |-> "SUBMITTED"]]
  /\ job' = [job EXCEPT ![j].count = @ + 1,
       ![j].status = IF @ = "OPEN" THEN "PROPOSAL_RECEIVED" ELSE @]
  /\ UNCHANGED <<vars, opening, negotiation, offer, agreement>>

\* Faulty variant: the counter of the job is left as it was.
WithdrawProposalUncounted(p) ==
  /\ proposal[p].status = "SUBMITTED"
  /\ proposal' = [proposal EXCEPT ![p].status = "WITHDRAWN"]
  /\ UNCHANGED <<vars, job, opening, negotiation, offer, agreement>>

WithdrawProposal(p) ==
  /\ proposal[p].status = "SUBMITTED"
  /\ proposal' = [proposal EXCEPT ![p].status = "WITHDRAWN"]
  /\ job' = [job EXCEPT ![proposal[p].job].count = IF @ > 0 THEN @ - 1 ELSE @]
  /\ UNCHANGED <<vars, opening, negotiation, offer, agreement>>

\* The negotiation of the proposal, if there is one, stays active.
RejectProposal(p) ==
  /\ proposal[p].status \in OpenProposal
  /\ proposal' = [proposal EXCEPT ![p].status = "REJECTED"]
  /\ UNCHANGED <<vars, job, opening, negotiation, offer, agreement>>

-----------------------------------------------------------------------------
(* negotiations/services.py *)

\* The client's request reads the proposal before open_negotiation() begins.  A
\* request that finds the room open already is redirected to it and not a step.
BeginOpenRoom(p) ==
  /\ proposal[p].status \in OpenProposal
  /\ negotiation[p].status = "NONE"
  /\ opening' = opening \cup {p}
  /\ UNCHANGED <<vars, job, proposal, negotiation, offer, agreement>>

\* Faulty variant: the job is negotiated again, whoever was hired.
NegotiatedAlways(status) == "NEGOTIATING"

\* What open_negotiation() does to the job, hired or not.
Negotiated(status) ==
  IF status \in {"HIRED", "IN_PROGRESS", "COMPLETED"} THEN status ELSE "NEGOTIATING"

\* Faulty variant: without unique_active_proposal_per_job.
OpenNegotiationUnconstrained(p) ==
  /\ p \in opening
  /\ MaxOffers > 0
  /\ negotiation' = [negotiation EXCEPT ![p] =
       [status |-> "ACTIVE", rounds |-> 1, current |-> 1]]
  /\ offer' = [offer EXCEPT ![p][1] =
       [sender |-> "freelancer", amount |-> proposal[p].amount, final |-> FALSE,
        status |-> "ACTIVE"]]
  /\ proposal' = [proposal EXCEPT ![p].status = "NEGOTIATING"]
  /\ job' = [job EXCEPT ![proposal[p].job].status = Negotiated(@)]
  /\ opening' = opening \ {p}
  /\ UNCHANGED <<vars, agreement>>

\* The freelancer's opening offer, and the proposal's status whatever it is by
\* now; a status that would break the uniqueness constraint rolls it all back.
OpenNegotiation(p) ==
  /\ p \in opening
  /\ MaxOffers > 0
  /\ ~ AlreadyProposed(proposal[p].freelancer, proposal[p].job, p)
  /\ negotiation' = [negotiation EXCEPT ![p] =
       [status |-> "ACTIVE", rounds |-> 1, current |-> 1]]
  /\ offer' = [offer EXCEPT ![p][1] =
       [sender |-> "freelancer", amount |-> proposal[p].amount, final |-> FALSE,
        status |-> "ACTIVE"]]
  /\ proposal' = [proposal EXCEPT ![p].status = "NEGOTIATING"]
  /\ job' = [job EXCEPT ![proposal[p].job].status = Negotiated(@)]
  /\ opening' = opening \ {p}
  /\ UNCHANGED <<vars, agreement>>

\* The uniqueness constraint refuses the status, and nothing is written.
OpenNegotiationRefused(p) ==
  /\ p \in opening
  /\ AlreadyProposed(proposal[p].freelancer, proposal[p].job, p)
  /\ opening' = opening \ {p}
  /\ UNCHANGED <<vars, job, proposal, negotiation, offer, agreement>>

\* Offer.is_actionable of the current offer.
Actionable(p) ==
  /\ negotiation[p].current # 0
  /\ offer[p][negotiation[p].current].status = "ACTIVE"

\* The row of the current offer, when there is one, in its new status.
Superseded(p, status) ==
  [offer[p] EXCEPT ![negotiation[p].current].status = status]

\* Faulty variant: an offer that has expired keeps its status.
AnsweredActionable(p) ==
  IF Actionable(p) THEN Superseded(p, "COUNTERED") ELSE offer[p]

\* The offers once the current one, expired or not, was answered by another.
Answered(p) ==
  IF /\ negotiation[p].current # 0
     /\ offer[p][negotiation[p].current].status \in {"ACTIVE", "LAPSED"}
  THEN Superseded(p, "COUNTERED") ELSE offer[p]

\* An offer awaiting an answer can be countered by the other party, unless it
\* was final; one that has expired can be replaced by either.
SendOffer(p, side, amount, final) ==
  LET i == negotiation[p].rounds + 1
      k == negotiation[p].current
  IN  /\ negotiation[p].status = "ACTIVE"
      /\ i <= MaxOffers
      /\ Actionable(p) => offer[p][k].sender # side /\ ~ offer[p][k].final
      /\ amount > 0
      /\ offer' = [offer EXCEPT ![p] = [Answered(p) EXCEPT ![i] =
           [sender |-> side, amount |-> amount, final |-> final,
            status |-> "ACTIVE"]]]
      /\ negotiation' = [negotiation EXCEPT ![p].rounds = i, ![p].current = i]
      /\ UNCHANGED <<vars, job, proposal, opening, agreement>>

RejectOffer(p) ==
  /\ Actionable(p)
  /\ offer' = [offer EXCEPT ![p] = Superseded(p, "REJECTED")]
  /\ negotiation' = [negotiation EXCEPT ![p].current = 0]
  /\ UNCHANGED <<vars, job, proposal, opening, agreement>>

\* Faulty variant: a negotiation that was accepted can still be cancelled.
CancelNegotiationClosed(p) ==
  /\ negotiation[p].status # "NONE"
  /\ offer' = [offer EXCEPT ![p] =
       IF negotiation[p].current # 0 THEN Superseded(p, "WITHDRAWN") ELSE @]
  /\ negotiation' = [negotiation EXCEPT ![p].status = "CANCELLED", ![p].current = 0]
  /\ UNCHANGED <<vars, job, proposal, opening, agreement>>

CancelNegotiation(p) ==
  /\ negotiation[p].status = "ACTIVE"
  /\ offer' = [offer EXCEPT ![p] =
       IF negotiation[p].current # 0 THEN Superseded(p, "WITHDRAWN") ELSE @]
  /\ negotiation' = [negotiation EXCEPT ![p].status = "CANCELLED", ![p].current = 0]
  /\ UNCHANGED <<vars, job, proposal, opening, agreement>>

\* expires_at passes.  Nothing writes the row: expire_stale_offers() has no caller.
OfferExpires(p) ==
  /\ Actionable(p)
  /\ offer' = [offer EXCEPT ![p] = Superseded(p, "LAPSED")]
  /\ UNCHANGED <<vars, job, proposal, opening, negotiation, agreement>>

-----------------------------------------------------------------------------
(* accept_offer() and agreements/services.py *)

Larger(a, b) == IF a >= b THEN a ELSE b

\* The amount on the table, the job it is for.
Offered(p) == offer[p][negotiation[p].current].amount
JobOf(p) == job[proposal[p].job]

\* What the job's reservation lacks.
Shortfall(p) == Offered(p) - JobOf(p).reserved

\* Faulty variant: reserved_amount is missing from the saved fields.
RaisedBudgetOnly(row, amount) ==
  IF amount > row.reserved
  THEN [row EXCEPT !.budget = Larger(@, amount)]
  ELSE row

\* The job after the shortfall was reserved.
Raised(row, amount) ==
  IF amount > row.reserved
  THEN [row EXCEPT !.reserved = amount, !.budget = Larger(@, amount)]
  ELSE row

\* Terms above the reservation are accepted only if the client's available
\* balance can make up the difference.
ReserveShortfall(p) ==
  \/ /\ Shortfall(p) > 0
     /\ Move(JobOf(p).client, "available", "reserved", Shortfall(p),
             "BUDGET_RESERVATION")
  \/ /\ Shortfall(p) <= 0
     /\ UNCHANGED wallet

\* The proposal is accepted, whatever it had become, and the job's other open
\* proposals are rejected; their negotiations stay as they are.
Chosen(p) ==
  [q \in Proposals |->
     CASE q = p -> [proposal[q] EXCEPT !.status = "ACCEPTED"]
       [] /\ q # p
          /\ proposal[q].job = proposal[p].job
          /\ proposal[q].status \in OpenProposal ->
             [proposal[q] EXCEPT !.status = "REJECTED"]
       [] OTHER -> proposal[q]]

\* create_agreement_from_offer() included.  Neither function looks at the
\* status of the job or asks whether somebody was hired before.
AcceptOffer(p) ==
  LET k == negotiation[p].current
      j == proposal[p].job
  IN  /\ Actionable(p)
      /\ ReserveShortfall(p)
      /\ offer' = [offer EXCEPT ![p] = Superseded(p, "ACCEPTED")]
      /\ negotiation' = [negotiation EXCEPT ![p].status = "ACCEPTED"]
      /\ agreement' = [agreement EXCEPT ![p][k] = "ACTIVE"]
      /\ job' = [job EXCEPT ![j] =
           [Raised(@, Offered(p)) EXCEPT !.hired = proposal[p].freelancer,
                                         !.status = "HIRED"]]
      /\ proposal' = Chosen(p)
      /\ UNCHANGED <<books, opening>>

SubmitWork(p, i) ==
  /\ agreement[p][i] \in {"ACTIVE", "IN_PROGRESS"}
  /\ agreement' = [agreement EXCEPT ![p][i] = "IN_PROGRESS"]
  /\ job' = [job EXCEPT ![proposal[p].job].status =
       IF @ = "HIRED" THEN "IN_PROGRESS" ELSE @]
  /\ UNCHANGED <<vars, proposal, opening, negotiation, offer>>

HiringStep ==
  \/ \E j \in Jobs, budget \in Amounts :
       \/ \E c \in Clients : \/ CreateJob(j, c, budget)
                             \/ CreateAndPublishJob(j, c, budget)
       \/ UpdateJob(j, budget)
  \/ \E j \in Jobs : PublishJob(j)
  \/ \E p \in Proposals :
       \/ \E f \in Freelancers, j \in Jobs, amount \in Amounts :
            SubmitProposal(p, f, j, amount)
       \/ WithdrawProposal(p)
       \/ RejectProposal(p)
       \/ BeginOpenRoom(p)
       \/ OpenNegotiation(p)
       \/ OpenNegotiationRefused(p)
       \/ \E side \in Side, amount \in Amounts, final \in BOOLEAN :
            SendOffer(p, side, amount, final)
       \/ RejectOffer(p)
       \/ CancelNegotiation(p)
       \/ OfferExpires(p)
       \/ AcceptOffer(p)
       \/ \E i \in Rounds : SubmitWork(p, i)

HiringNext == HiringStep \/ (Next /\ UNCHANGED hiringVars)

HiringSpec == HiringInit /\ [][HiringNext]_hVars

-----------------------------------------------------------------------------
HiringTypeOK ==
  /\ TypeOK
  /\ job \in [Jobs -> JobRow]
  /\ proposal \in [Proposals -> ProposalRow]
  /\ opening \subseteq Proposals
  /\ negotiation \in [Proposals -> NegotiationRow]
  /\ offer \in [Proposals -> [Rounds -> OfferRow]]
  /\ agreement \in [Proposals -> [Rounds -> AgreementStatus]]

ReservedFor(u) ==
  [j \in Jobs |-> IF job[j].client = u THEN job[j].reserved ELSE 0]

\* help.html:17-20: a balance is reserved because it is committed.  What a
\* wallet keeps reserved is what its pending withdrawals and its jobs hold
\* together, so no commitment of one kind can eat one of the other.
ReservedBacksCommitments ==
  \A u \in Users :
    wallet[u].reserved = WithdrawalSum(u, "PENDING") + SumTo(ReservedFor(u), MaxJobs)

\* A negotiation has at most one offer that waits for an answer: the current
\* one, and only while the negotiation is active.
OneLiveOffer ==
  \A p \in Proposals, i \in Rounds :
    offer[p][i].status \in {"ACTIVE", "LAPSED"} =>
      /\ negotiation[p].current = i
      /\ negotiation[p].status = "ACTIVE"

\* An agreement exists for exactly the accepted offers; it closed its
\* negotiation, its proposal is the accepted one and its job has a freelancer.
AgreementFollowsOffer ==
  \A p \in Proposals :
    /\ \A i \in Rounds :
         /\ agreement[p][i] # "NONE" <=> offer[p][i].status = "ACCEPTED"
         /\ agreement[p][i] # "NONE" =>
              /\ negotiation[p].status = "ACCEPTED"
              /\ negotiation[p].current = i
              /\ proposal[p].status = "ACCEPTED"
              /\ job[proposal[p].job].hired # NoUser
    /\ proposal[p].status = "ACCEPTED" =>
         \E i \in Rounds : agreement[p][i] # "NONE"

Unpaid == {"ACTIVE", "IN_PROGRESS"}

\* What an unpaid agreement owes is never more than its job keeps reserved.
AgreementFunded ==
  \A p \in Proposals, i \in Rounds :
    agreement[p][i] \in Unpaid => offer[p][i].amount <= job[proposal[p].job].reserved

\* A freelancer has at most one live proposal on a job, even when a stale
\* request brings a withdrawn one back.
OneProposalEach ==
  \A p, q \in Proposals :
    /\ proposal[p].status \notin {"NONE", "WITHDRAWN"}
    /\ proposal[q].status \notin {"NONE", "WITHDRAWN"}
    /\ proposal[p].job = proposal[q].job
    /\ proposal[p].freelancer = proposal[q].freelancer
    => p = q

\* proposal_count never says more than there are live proposals; it says less
\* once a stale request has brought a withdrawn one back.
CountNotAhead ==
  \A j \in Jobs :
    job[j].count <= Cardinality({p \in Proposals :
      proposal[p].job = j /\ proposal[p].status \notin {"NONE", "WITHDRAWN"}})

\* Once somebody is hired, no later proposal, negotiation or edit opens the
\* job again.
HireIsFinal ==
  [][\A j \in Jobs : job[j].hired # NoUser =>
       /\ job'[j].hired # NoUser
       /\ job'[j].status \notin Cancellable]_hVars

Owed(p) ==
  SumTo([i \in Rounds |-> IF agreement[p][i] \in Unpaid THEN offer[p][i].amount ELSE 0],
        MaxOffers)

OwedOn(j) ==
  SumTo([p \in Proposals |-> IF proposal[p].job = j THEN Owed(p) ELSE 0], MaxProposals)

\* help.html:19-20: reserved balance "cannot be spent twice".  All that is owed
\* on a job together is covered by what the job keeps reserved.
ReservationSpentOnce == \A j \in Jobs : OwedOn(j) <= job[j].reserved

=============================================================================
