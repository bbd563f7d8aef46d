------------------------------- MODULE Payout -------------------------------
(***************************************************************************)
(* The end of an agreement: complete_agreement_and_release_payment() of    *)
(* src/apps/agreements/services.py, next to everything that can happen     *)
(* before and beside it (Hiring, Projects, Wallets).                       *)
(*                                                                         *)
(* The client's debit, the freelancer's credit, the return of the job's    *)
(* reservation and the new statuses are one transaction: if any movement   *)
(* raises, none of them happens (Settlement).                              *)
(*                                                                         *)
(* Agreements without completed tasks of team members: the freelancer is   *)
(* paid the whole amount.  (Tasks models the payment of team members.)     *)
(***************************************************************************)
EXTENDS Projects, Settlement

ASSUME PayoutAssumption == Freelancers \subseteq Users

\* Faulty variant: a completed agreement can be approved and paid again.
CompleteAgreementAgain(p, i) ==
  LET amount == offer[p][i].amount
      c == JobOf(p).client
      f == proposal[p].freelancer
  IN  /\ agreement[p][i] # "NONE"
      /\ CanSettle(wallet[c], amount, JobOf(p).reserved)
      /\ wallet' = [wallet EXCEPT ![c] = Settled(@, amount, JobOf(p).reserved),
                                  ![f] = Paid(@, amount)]
      /\ job' = [job EXCEPT ![proposal[p].job].reserved = 0,
                            ![proposal[p].job].status = "COMPLETED"]
      /\ agreement' = [agreement EXCEPT ![p][i] = "COMPLETED"]
      /\ finished' = finished \cup CompletedWith(proposal[p].job)
      /\ UNCHANGED <<books, proposal, opening, negotiation, offer, listed, made, reviews>>

\* The work need not have been submitted.
CompleteAgreement(p, i) ==
  LET amount == offer[p][i].amount
      c == JobOf(p).client
      f == proposal[p].freelancer
  IN  /\ agreement[p][i] \in Unpaid
      /\ CanSettle(wallet[c], amount, JobOf(p).reserved)
      /\ wallet' = [wallet EXCEPT ![c] = Settled(@, amount, JobOf(p).reserved),
                                  ![f] = Paid(@, amount)]
      /\ job' = [job EXCEPT ![proposal[p].job].reserved = 0,
                            ![proposal[p].job].status = "COMPLETED"]
      /\ agreement' = [agreement EXCEPT ![p][i] = "COMPLETED"]
      /\ finished' = finished \cup CompletedWith(proposal[p].job)
      /\ UNCHANGED <<books, proposal, opening, negotiation, offer, listed, made, reviews>>

PayoutNext ==
  \/ HiringNext /\ UNCHANGED pVars
  \/ ProjectsStep
  \/ \E p \in Proposals, i \in Rounds : CompleteAgreement(p, i)

PayoutVars == <<hVars, pVars>>

PayoutSpec == HiringInit /\ ProjectsInit /\ [][PayoutNext]_PayoutVars

-----------------------------------------------------------------------------
\* What u was paid, or paid, for completed work.
CompletedFor(u) ==
  [p \in Proposals |->
     IF proposal[p].freelancer = u \/ (proposal[p].job # 0 /\ JobOf(p).client = u)
     THEN SumTo([i \in Rounds |->
            IF agreement[p][i] = "COMPLETED" THEN offer[p][i].amount ELSE 0], MaxOffers)
     ELSE 0]

\* tests/integration/test_delivery_and_payout_flow.py:96: lifetime_earned is
\* what completed agreements were worth, each counted once.  The debit is a
\* PROJECT_PAYMENT too, so the client's counter grows by the same amount.
EarningsMatchCompletions ==
  \A u \in Users : wallet[u].earned = SumTo(CompletedFor(u), MaxProposals)

Completions(u) ==
  {p \in Proposals : /\ proposal[p].job # 0 /\ JobOf(p).client = u
                     /\ \E i \in Rounds : agreement[p][i] = "COMPLETED"}

\* Nothing stays reserved without a pending withdrawal or a job to show for it,
\* and until a client's first completed agreement nothing is missing either.
\* (A completion may take what other commitments have reserved.)
NothingStranded ==
  \A u \in Users :
    LET committed == WithdrawalSum(u, "PENDING") + SumTo(ReservedFor(u), MaxJobs)
    IN  /\ wallet[u].reserved <= committed
        /\ Completions(u) = {} => wallet[u].reserved = committed

\* What is paid for and what is done agree: no more projects are finished, or
\* reviewed, than agreements are paid, though a payment may finish the project
\* of another agreement on the same job.
ProjectPerPayment ==
  Cardinality(finished \cup {r[1] : r \in reviews})
    <= Cardinality({a \in Agreements : agreement[a[1]][a[2]] = "COMPLETED"})

\* The wallets of clients and freelancers implement the treasury: a completed
\* agreement moves coins from one user to another and creates none.
PaymentsImplementTreasury == Abstract!Spec

\* tests/integration/test_delivery_and_payout_flow.py:81-96: work of a hired
\* freelancer is approved while the job still reserves its price; the payment
\* goes through.  Only a freeze of the client's wallet may stand against it.
FundedWorkCanBePaid ==
  \A p \in Proposals, i \in Rounds :
    /\ agreement[p][i] = "IN_PROGRESS"
    /\ offer[p][i].amount <= JobOf(p).reserved
    /\ ~ wallet[JobOf(p).client].frozen
    => CanSettle(wallet[JobOf(p).client], offer[p][i].amount, JobOf(p).reserved)

=============================================================================
