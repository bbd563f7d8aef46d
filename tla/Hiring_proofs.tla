---------------------------- MODULE Hiring_proofs -----------------------------
(***************************************************************************)
(* The invariants of Hiring and of Payout, which extends it, hold for      *)
(* every set of clients, freelancers and amounts and for every number of   *)
(* jobs, proposals and rounds.                                             *)
(*                                                                         *)
(* None of them is inductive alone.  HiringShape collects what they rest   *)
(* on: which status of a job goes with which of its fields (JobStages),    *)
(* that proposals are on published jobs (ProposedJobs), and that a room is *)
(* open for a proposal that was read as open, and for no other             *)
(* (RoomsOfProposals).  HiringIInv adds the invariants about money and     *)
(* counters, which depend on the shape and not the other way round.        *)
(*                                                                         *)
(* The completion of an agreement breaks two of Hiring's invariants (the   *)
(* reservation is returned whole, whatever it backed), so PayoutIInv keeps *)
(* the shape and replaces them by what is left: nothing is reserved        *)
(* without a commitment, and what was earned is what was completed.  Gap   *)
(* measures the one against the other: no step of Hiring changes it, and a *)
(* completion only makes it smaller.                                       *)
(***************************************************************************)
EXTENDS Payout, Wallets_proofs, FiniteSetTheorems

Hired == {"HIRED", "IN_PROGRESS", "COMPLETED"}
Unpublished == {"NONE", "DRAFT"}

\* A job belongs to a client from its draft on, reserves nothing before it is
\* published, and has a freelancer only when it is past the search for one.
JobStages ==
  \A j \in Jobs :
    /\ job[j].status # "NONE" => job[j].client \in Clients
    /\ job[j].status \in Unpublished => job[j].reserved = 0
    /\ job[j].hired # NoUser => job[j].status \in Hired

\* A proposal names a freelancer and a job that was published.
ProposedJobs ==
  \A p \in Proposals : proposal[p].status # "NONE" =>
    /\ proposal[p].job \in Jobs
    /\ proposal[p].freelancer \in Freelancers
    /\ job[proposal[p].job].status \notin Unpublished

\* A proposal whose room was opened has not been withdrawn since, and a request
\* that is about to open a room finds none.
RoomsOfProposals ==
  \A p \in Proposals :
    /\ negotiation[p].status # "NONE" =>
         proposal[p].status \in {"NEGOTIATING", "REJECTED", "ACCEPTED"}
    /\ p \in opening => negotiation[p].status = "NONE" /\ proposal[p].status # "NONE"

\* Types, and which rows go together: inductive by itself.
HiringShape ==
  /\ HiringTypeOK
  /\ FiledRows
  /\ JobStages
  /\ ProposedJobs
  /\ RoomsOfProposals
  /\ OneLiveOffer
  /\ AgreementFollowsOffer

\* The inductive invariant: the shape, and the money and counters that rest on it.
HiringIInv ==
  /\ HiringShape
  /\ ReservedBacksCommitments
  /\ AgreementFunded
  /\ OneProposalEach
  /\ CountNotAhead

-----------------------------------------------------------------------------
(* The wallets beside the jobs.                                            *)

\* A withdrawal row that is written together with a movement for its owner:
\* the reserved balance keeps its distance to the pending sum.
LEMMA WithdrawalKeepsDistance ==
  ASSUME TypeOK, NEW w \in Withdrawals, NEW row \in WithdrawalRow, row.user \in Users,
         withdrawal' = [withdrawal EXCEPT ![w] = row],
         NEW src \in Bucket, NEW dst \in Bucket, NEW kind,
         Move(row.user, src, dst, row.amount, kind),
         \A v \in Users : Counted(row, v, "PENDING") - Counted(withdrawal[w], v, "PENDING")
                          = IF v = row.user THEN Net("reserved", src, dst, row.amount) ELSE 0,
         NEW u \in Users
  PROVE  wallet'[u].reserved - WithdrawalSum(u, "PENDING")'
           = wallet[u].reserved - WithdrawalSum(u, "PENDING")
<1> DEFINE net == Net("reserved", src, dst, row.amount)
           p == WithdrawalSum(u, "PENDING")
           before == Counted(withdrawal[w], u, "PENDING")
           after == Counted(row, u, "PENDING")
<1>1. row.amount \in Nat /\ net \in Int
  BY DEF WithdrawalRow, Net
<1>2. p \in Int /\ before \in Int /\ after \in Int /\ p' = p - before + after
  BY WithdrawalUpdate
<1>3. after - before = IF u = row.user THEN net ELSE 0
  OBVIOUS
<1>4. /\ \A v \in Users : v # row.user => wallet'[v] = wallet[v]
      /\ wallet'[row.user].reserved = wallet[row.user].reserved + net
  BY <1>1, MoveEffect
<1>5. wallet[u].reserved \in Int
  BY DEF TypeOK, Wallet
<1> HIDE DEF net, p, before, after
<1>6. wallet'[u].reserved - p' = wallet[u].reserved - p
  <2>1. CASE u = row.user
    BY <1>1, <1>2, <1>3, <1>4, <1>5, <2>1
  <2>2. CASE u # row.user
    BY <1>2, <1>3, <1>4, <1>5, <2>2
  <2> QED
    BY <2>1, <2>2
<1> QED
  BY <1>6 DEF p

\* What a wallet reserves beyond its pending withdrawals is not touched by
\* requests for money: it belongs to the jobs.
LEMMA RequestsKeepDistance ==
  ASSUME TypeOK, FiledRows, [Next]_vars, NEW u \in Users
  PROVE  wallet'[u].reserved - WithdrawalSum(u, "PENDING")'
           = wallet[u].reserved - WithdrawalSum(u, "PENDING")
<1> USE ConstantsAssumption
<1>0. wallet[u].reserved \in Int
  BY DEF TypeOK, Wallet
<1>1. CASE withdrawal' = withdrawal /\ wallet'[u].reserved = wallet[u].reserved
  BY <1>1, SumsUnchanged
<1>2. ASSUME NEW d \in Deposits, ApproveDeposit(d)
      PROVE  withdrawal' = withdrawal /\ wallet'[u].reserved = wallet[u].reserved
  <2>1. deposit[d].user \in Users /\ deposit[d].amount \in Nat
    BY <1>2 DEF ApproveDeposit, FiledRows, TypeOK, DepositRow
  <2>2. /\ \A v \in Users : v # deposit[d].user => wallet'[v] = wallet[v]
        /\ wallet'[deposit[d].user].reserved = wallet[deposit[d].user].reserved
             + Net("reserved", "external", "available", deposit[d].amount)
    BY <1>2, <2>1, MoveEffect DEF ApproveDeposit, Bucket
  <2> QED
    BY <1>0, <1>2, <2>1, <2>2 DEF ApproveDeposit, Net
<1>3. ASSUME NEW w \in Withdrawals, NEW v \in Users, NEW amount \in Amounts,
             RequestWithdrawal(w, v, amount)
      PROVE  wallet'[u].reserved - WithdrawalSum(u, "PENDING")'
               = wallet[u].reserved - WithdrawalSum(u, "PENDING")
  <2> DEFINE row == [user |-> v, amount |-> amount, status |-> "PENDING"]
  <2>1. row \in WithdrawalRow /\ row.user \in Users
    BY DEF WithdrawalRow, Status
  <2>2. /\ withdrawal' = [withdrawal EXCEPT ![w] = row]
        /\ Move(row.user, "available", "reserved", row.amount, "WITHDRAWAL")
    BY <1>3 DEF RequestWithdrawal
  <2>3. \A x \in Users : Counted(row, x, "PENDING") - Counted(withdrawal[w], x, "PENDING")
          = IF x = row.user THEN Net("reserved", "available", "reserved", row.amount) ELSE 0
    BY <1>3, <2>1 DEF RequestWithdrawal, NextKey, Counted, Net
  <2>4. "available" \in Bucket /\ "reserved" \in Bucket
    BY DEF Bucket
  <2> HIDE DEF row
  <2> QED
    BY <2>1, <2>2, <2>3, <2>4, WithdrawalKeepsDistance
<1>4. ASSUME NEW w \in Withdrawals, NEW dst \in {"external", "available"}, NEW kind,
             NEW s \in {"APPROVED", "REJECTED"}, withdrawal[w].status = "PENDING",
             Move(withdrawal[w].user, "reserved", dst, withdrawal[w].amount, kind),
             withdrawal' = [withdrawal EXCEPT ![w].status = s]
      PROVE  wallet'[u].reserved - WithdrawalSum(u, "PENDING")'
               = wallet[u].reserved - WithdrawalSum(u, "PENDING")
  <2> DEFINE row == [withdrawal[w] EXCEPT !.status = s]
  <2>1. /\ row \in WithdrawalRow /\ row.user = withdrawal[w].user
        /\ row.amount = withdrawal[w].amount /\ row.status = s
        /\ row.user \in Users /\ row.amount \in Nat
    BY <1>4 DEF TypeOK, FiledRows, WithdrawalRow, Status
  <2>2. /\ withdrawal' = [withdrawal EXCEPT ![w] = row]
        /\ Move(row.user, "reserved", dst, row.amount, kind)
    BY <1>4, <2>1
  <2>3. \A x \in Users : Counted(row, x, "PENDING") - Counted(withdrawal[w], x, "PENDING")
          = IF x = row.user THEN Net("reserved", "reserved", dst, row.amount) ELSE 0
    <3> HIDE DEF row
    <3> QED
      BY <1>4, <2>1 DEF Counted, Net
  <2>4. "reserved" \in Bucket /\ dst \in Bucket
    BY DEF Bucket
  <2> HIDE DEF row
  <2> QED
    BY <2>1, <2>2, <2>3, <2>4, WithdrawalKeepsDistance
<1>5. ASSUME NEW w \in Withdrawals, ApproveWithdrawal(w) \/ RejectWithdrawal(w)
      PROVE  wallet'[u].reserved - WithdrawalSum(u, "PENDING")'
               = wallet[u].reserved - WithdrawalSum(u, "PENDING")
  BY <1>4, <1>5 DEF ApproveWithdrawal, RejectWithdrawal
<1>6. ASSUME NEW v \in Users, NEW flag \in BOOLEAN, SetWalletFrozen(v, flag)
      PROVE  withdrawal' = withdrawal /\ wallet'[u].reserved = wallet[u].reserved
  BY <1>6 DEF SetWalletFrozen, TypeOK, Wallet
<1> QED
  BY <1>1, <1>2, <1>3, <1>5, <1>6
     DEF Next, vars, CreateDeposit, RejectDeposit

-----------------------------------------------------------------------------
(* Types and shape.                                                        *)

\* A movement by move() keeps the types of the wallets and touches no table.
LEMMA MoveKeepsTypes ==
  ASSUME TypeOK, NEW u \in Users, NEW amount \in Nat, NEW kind,
         Move(u, "available", "reserved", amount, kind), UNCHANGED books
  PROVE  TypeOK'
<1>1. wallet' \in [Users -> Wallet]
  BY MoveEffect DEF Bucket
<1> QED
  BY <1>1 DEF TypeOK, books

\* A job of the table has a client with a wallet.
LEMMA JobsHaveClients ==
  ASSUME HiringShape, NEW j \in Jobs, job[j].status # "NONE"
  PROVE  job[j].client \in Users
BY HiringAssumption DEF HiringShape, JobStages

\* An offer that can be accepted is the current one of an active negotiation,
\* of a live proposal on a published job.
LEMMA ActionableOffers ==
  ASSUME HiringShape, NEW p \in Proposals, Actionable(p)
  PROVE  /\ negotiation[p].current \in Rounds
         /\ negotiation[p].status = "ACTIVE"
         /\ proposal[p].status \in {"NEGOTIATING", "REJECTED"}
         /\ proposal[p].job \in Jobs
         /\ proposal[p].freelancer \in Freelancers
         /\ job[proposal[p].job].status \notin Unpublished
         /\ JobOf(p).client \in Users
         /\ Offered(p) \in Nat
         /\ \A i \in Rounds : agreement[p][i] = "NONE"
<1> USE DEF HiringShape
<1>1. negotiation[p].current \in Rounds
  BY DEF Actionable, HiringTypeOK, NegotiationRow, Rounds
<1>2. negotiation[p].status = "ACTIVE"
  BY <1>1 DEF OneLiveOffer, Actionable
<1>3. \A i \in Rounds : agreement[p][i] = "NONE"
  BY <1>2 DEF AgreementFollowsOffer
<1>4. proposal[p].status \in {"NEGOTIATING", "REJECTED"}
  BY <1>2, <1>3 DEF RoomsOfProposals, AgreementFollowsOffer
<1>5. /\ proposal[p].job \in Jobs /\ proposal[p].freelancer \in Freelancers
      /\ job[proposal[p].job].status \notin Unpublished
  BY <1>4 DEF ProposedJobs
<1>6. JobOf(p).client \in Users
  BY <1>5, JobsHaveClients DEF JobOf, Unpublished
<1>7. Offered(p) \in Nat
  BY <1>1 DEF Offered, HiringTypeOK, OfferRow
<1> QED
  BY <1>1, <1>2, <1>3, <1>4, <1>5, <1>6, <1>7

\* Rows of which the code writes some columns are rows.
LEMMA RowsKeepTypes ==
  /\ \A row \in JobRow, s \in JobStatus : [row EXCEPT !.status = s] \in JobRow
  /\ \A row \in JobRow, n \in Nat : [row EXCEPT !.count = n] \in JobRow
  /\ \A row \in JobRow, n \in Nat, s \in JobStatus :
       [row EXCEPT !.count = n, !.status = s] \in JobRow
  /\ \A row \in OfferRow, s \in OfferStatus : [row EXCEPT !.status = s] \in OfferRow
  /\ \A row \in NegotiationRow : /\ [row EXCEPT !.current = 0] \in NegotiationRow
                                 /\ [row EXCEPT !.status = "CANCELLED", !.current = 0]
                                      \in NegotiationRow
<1>1. \A row \in JobRow, s \in JobStatus : [row EXCEPT !.status = s] \in JobRow
  BY DEF JobRow
<1>2. \A row \in JobRow, n \in Nat : [row EXCEPT !.count = n] \in JobRow
  BY DEF JobRow
<1>3. \A row \in JobRow, n \in Nat, s \in JobStatus :
        [row EXCEPT !.count = n, !.status = s] \in JobRow
  BY DEF JobRow
<1>4. \A row \in OfferRow, s \in OfferStatus : [row EXCEPT !.status = s] \in OfferRow
  BY DEF OfferRow
<1>5. \A row \in NegotiationRow : /\ [row EXCEPT !.current = 0] \in NegotiationRow
                                 /\ [row EXCEPT !.status = "CANCELLED", !.current = 0]
                                      \in NegotiationRow
  <2>1. 0 \in 0..MaxOffers
    BY HiringAssumption
  <2>2. \A row \in NegotiationRow : [row EXCEPT !.current = 0] \in NegotiationRow
    BY <2>1 DEF NegotiationRow
  <2>3. \A row \in NegotiationRow :
          [row EXCEPT !.status = "CANCELLED", !.current = 0] \in NegotiationRow
    BY <2>1 DEF NegotiationRow
  <2> QED
    BY <2>2, <2>3
<1> QED
  BY <1>1, <1>2, <1>3, <1>4, <1>5

\* Giving the current offer another status keeps offers offers, when there is a
\* current one and when there is none.
LEMMA SupersededType ==
  ASSUME HiringTypeOK, NEW p \in Proposals, NEW s \in OfferStatus
  PROVE  Superseded(p, s) \in [Rounds -> OfferRow]
<1> DEFINE k == negotiation[p].current
<1> SUFFICES [offer[p] EXCEPT ![k].status = s] \in [Rounds -> OfferRow]
  BY DEF Superseded
<1> HIDE DEF k
<1>1. CASE k \in Rounds
  <2>1. [offer[p][k] EXCEPT !.status = s] \in OfferRow
    <3>1. offer[p][k] \in OfferRow
      BY <1>1 DEF HiringTypeOK
    <3> QED
      BY <3>1, RowsKeepTypes
  <2>2. [offer[p] EXCEPT ![k].status = s]
          = [offer[p] EXCEPT ![k] = [offer[p][k] EXCEPT !.status = s]]
    OBVIOUS
  <2> QED
    BY <2>1, <2>2 DEF HiringTypeOK
<1>2. CASE k \notin Rounds
  <2>1. [offer[p] EXCEPT ![k].status = s] = offer[p]
    BY <1>2 DEF HiringTypeOK
  <2>2. offer[p] \in [Rounds -> OfferRow]
    BY DEF HiringTypeOK
  <2> QED
    BY <2>1, <2>2
<1> QED
  BY <1>1, <1>2

\* Every step of Hiring keeps the types.
LEMMA HiringTypesStay ==
  ASSUME HiringShape, [HiringNext]_hVars
  PROVE  HiringTypeOK' /\ FiledRows'
<1> USE ConstantsAssumption, HiringAssumption DEF HiringShape
<1>0. ASSUME UNCHANGED vars PROVE TypeOK' /\ FiledRows'
  BY <1>0 DEF HiringTypeOK, TypeOK, FiledRows, vars
<1>a. ASSUME TypeOK', UNCHANGED books PROVE FiledRows'
  BY <1>a DEF FiledRows, books
<1>1. ASSUME NEW j \in Jobs, NEW c \in Clients, NEW budget \in Amounts, CreateJob(j, c, budget)
      PROVE  HiringTypeOK' /\ FiledRows'
  <2>1. [job[j] EXCEPT !.client = c, !.budget = budget, !.status = "DRAFT"] \in JobRow
    BY DEF HiringTypeOK, JobRow, JobStatus
  <2>2. job' = [job EXCEPT ![j] =
           [job[j] EXCEPT !.client = c, !.budget = budget, !.status = "DRAFT"]]
    BY <1>1 DEF CreateJob, HiringTypeOK, JobRow
  <2> QED
    BY <1>0, <1>1, <2>1, <2>2 DEF CreateJob, HiringTypeOK
<1>2. ASSUME NEW j \in Jobs, NEW c \in Clients, NEW budget \in Amounts,
             CreateAndPublishJob(j, c, budget)
      PROVE  HiringTypeOK' /\ FiledRows'
  <2>1. TypeOK' /\ FiledRows'
    BY <1>a, <1>2, MoveKeepsTypes DEF CreateAndPublishJob, HiringTypeOK
  <2> QED
    <3>1. [job[j] EXCEPT !.client = c, !.budget = budget, !.reserved = budget,
                         !.status = "OPEN"] \in JobRow
      BY DEF HiringTypeOK, JobRow, JobStatus
    <3>2. job' = [job EXCEPT ![j] =
             [job[j] EXCEPT !.client = c, !.budget = budget, !.reserved = budget,
                            !.status = "OPEN"]]
      BY <1>2 DEF CreateAndPublishJob, HiringTypeOK, JobRow
    <3> QED
      BY <1>2, <2>1, <3>1, <3>2 DEF CreateAndPublishJob, HiringTypeOK
<1>3. ASSUME NEW j \in Jobs, PublishJob(j) PROVE HiringTypeOK' /\ FiledRows'
  <2>1. job[j].client \in Users /\ job[j].budget \in Nat
    BY <1>3, JobsHaveClients DEF PublishJob, HiringTypeOK, JobRow
  <2>2. TypeOK' /\ FiledRows'
    BY <1>a, <1>3, <2>1, MoveKeepsTypes DEF PublishJob, HiringTypeOK
  <2> QED
    BY <1>3, <2>1, <2>2 DEF PublishJob, HiringTypeOK, JobRow, JobStatus
<1>4. ASSUME NEW j \in Jobs, NEW budget \in Amounts, UpdateJob(j, budget)
      PROVE  HiringTypeOK' /\ FiledRows'
  BY <1>0, <1>4 DEF UpdateJob, HiringTypeOK, JobRow
<1>5. ASSUME NEW p \in Proposals, NEW f \in Freelancers, NEW j \in Jobs, NEW amount \in Amounts,
             SubmitProposal(p, f, j, amount)
      PROVE  HiringTypeOK' /\ FiledRows'
  <2>1. [job |-> j, freelancer |-> f, amount |-> amount, status |-> "SUBMITTED"] \in ProposalRow
    BY DEF ProposalRow, ProposalStatus, Jobs
  <2>2. job' \in [Jobs -> JobRow]
    <3>1. [job[j] EXCEPT !.count = job[j].count + 1,
             !.status = IF job[j].status = "OPEN" THEN "PROPOSAL_RECEIVED"
                        ELSE job[j].status] \in JobRow
      <4>1. job[j] \in JobRow
        BY DEF HiringTypeOK
      <4>2. job[j].count + 1 \in Nat /\ job[j].status \in JobStatus
        BY <4>1 DEF JobRow
      <4> QED
        BY <4>1, <4>2, RowsKeepTypes DEF JobStatus
    <3>2. job' = [job EXCEPT ![j] = [job[j] EXCEPT !.count = job[j].count + 1,
             !.status = IF job[j].status = "OPEN" THEN "PROPOSAL_RECEIVED"
                        ELSE job[j].status]]
      BY <1>5 DEF SubmitProposal, HiringTypeOK, JobRow
    <3> QED
      BY <3>1, <3>2 DEF HiringTypeOK
  <2> QED
    BY <1>0, <1>5, <2>1, <2>2 DEF SubmitProposal, HiringTypeOK
<1>6. ASSUME NEW p \in Proposals, WithdrawProposal(p) PROVE HiringTypeOK' /\ FiledRows'
  <2> DEFINE j == proposal[p].job
  <2>1. [job[j] EXCEPT !.count = IF job[j].count > 0 THEN job[j].count - 1 ELSE job[j].count]
          \in JobRow
    <3>1. job[j] \in JobRow
      BY <1>6 DEF WithdrawProposal, ProposedJobs, HiringTypeOK
    <3>2. job[j].count \in Nat
      BY <3>1 DEF JobRow
    <3> DEFINE n == IF job[j].count > 0 THEN job[j].count - 1 ELSE job[j].count
    <3>3. n \in Nat
      BY <3>2
    <3> HIDE DEF j, n
    <3>4. [job[j] EXCEPT !.count = n] \in JobRow
      BY <3>1, <3>3, RowsKeepTypes
    <3> QED
      BY <3>4 DEF n
  <2>2. job' = [job EXCEPT ![j] =
          [job[j] EXCEPT !.count = IF job[j].count > 0 THEN job[j].count - 1 ELSE job[j].count]]
    BY <1>6 DEF WithdrawProposal, ProposedJobs, HiringTypeOK, JobRow
  <2>3. job' \in [Jobs -> JobRow]
    BY <2>1, <2>2 DEF HiringTypeOK
  <2>4. proposal' \in [Proposals -> ProposalRow]
    BY <1>6 DEF WithdrawProposal, HiringTypeOK, ProposalRow, ProposalStatus
  <2> QED
    BY <1>0, <1>6, <2>3, <2>4 DEF WithdrawProposal, HiringTypeOK
<1>7. ASSUME NEW p \in Proposals, RejectProposal(p) PROVE HiringTypeOK' /\ FiledRows'
  BY <1>0, <1>7 DEF RejectProposal, HiringTypeOK, ProposalRow, ProposalStatus
<1>8. ASSUME NEW p \in Proposals, BeginOpenRoom(p) \/ OpenNegotiationRefused(p)
      PROVE  HiringTypeOK' /\ FiledRows'
  BY <1>0, <1>8 DEF BeginOpenRoom, OpenNegotiationRefused, HiringTypeOK
<1>9. ASSUME NEW p \in Proposals, OpenNegotiation(p) PROVE HiringTypeOK' /\ FiledRows'
  <2>1. [status |-> "ACTIVE", rounds |-> 1, current |-> 1] \in NegotiationRow
    BY <1>9 DEF OpenNegotiation, NegotiationRow
  <2>2. [sender |-> "freelancer", amount |-> proposal[p].amount, final |-> FALSE,
         status |-> "ACTIVE"] \in OfferRow
    BY DEF HiringTypeOK, ProposalRow, OfferRow, Side, OfferStatus
  <2>3. job' \in [Jobs -> JobRow]
    <3> DEFINE j == proposal[p].job
    <3>1. j \in Jobs
      BY <1>9 DEF OpenNegotiation, RoomsOfProposals, ProposedJobs
    <3>2. [job[j] EXCEPT !.status = Negotiated(job[j].status)] \in JobRow
      <4>1. job[j] \in JobRow /\ Negotiated(job[j].status) \in JobStatus
        BY <3>1 DEF HiringTypeOK, JobRow, JobStatus, Negotiated
      <4> QED
        BY <4>1, RowsKeepTypes
    <3>3. job' = [job EXCEPT ![j] = [job[j] EXCEPT !.status = Negotiated(job[j].status)]]
      BY <1>9 DEF OpenNegotiation
    <3> QED
      BY <3>2, <3>3 DEF HiringTypeOK
  <2>4. proposal' \in [Proposals -> ProposalRow]
    BY <1>9 DEF OpenNegotiation, HiringTypeOK, ProposalRow, ProposalStatus
  <2> QED
    BY <1>0, <1>9, <2>1, <2>2, <2>3, <2>4 DEF OpenNegotiation, HiringTypeOK
<1>11. ASSUME NEW p \in Proposals, NEW side \in Side, NEW amount \in Amounts,
              NEW final \in BOOLEAN, SendOffer(p, side, amount, final)
       PROVE  HiringTypeOK' /\ FiledRows'
  <2> DEFINE i == negotiation[p].rounds + 1
             row == [sender |-> side, amount |-> amount, final |-> final, status |-> "ACTIVE"]
  <2>1. row \in OfferRow /\ i \in 0..MaxOffers
    BY <1>11 DEF SendOffer, HiringTypeOK, NegotiationRow, OfferRow, OfferStatus
  <2>2. Answered(p) \in [Rounds -> OfferRow]
    BY SupersededType DEF Answered, OfferStatus, HiringTypeOK
  <2>3. /\ offer' = [offer EXCEPT ![p] = [Answered(p) EXCEPT ![i] = row]]
        /\ negotiation' = [negotiation EXCEPT ![p].rounds = i, ![p].current = i]
    BY <1>11 DEF SendOffer
  <2> HIDE DEF i, row
  <2>4. offer' \in [Proposals -> [Rounds -> OfferRow]]
    BY <2>1, <2>2, <2>3 DEF HiringTypeOK
  <2>5. negotiation' \in [Proposals -> NegotiationRow]
    BY <2>1, <2>3 DEF HiringTypeOK, NegotiationRow
  <2> QED
    BY <1>0, <1>11, <2>4, <2>5 DEF SendOffer, HiringTypeOK
<1>12. ASSUME NEW p \in Proposals, RejectOffer(p) \/ CancelNegotiation(p) \/ OfferExpires(p)
       PROVE  HiringTypeOK' /\ FiledRows'
  <2>1. offer' \in [Proposals -> [Rounds -> OfferRow]]
    <3>1. \A s \in OfferStatus : Superseded(p, s) \in [Rounds -> OfferRow]
      BY SupersededType DEF HiringTypeOK
    <3>2. \E f \in [Rounds -> OfferRow] : offer' = [offer EXCEPT ![p] = f]
      BY <1>12, <3>1 DEF RejectOffer, CancelNegotiation, OfferExpires, OfferStatus, HiringTypeOK
    <3> QED
      BY <3>2 DEF HiringTypeOK
  <2>2. negotiation' \in [Proposals -> NegotiationRow]
    <3>1. /\ [negotiation[p] EXCEPT !.current = 0] \in NegotiationRow
          /\ [negotiation[p] EXCEPT !.status = "CANCELLED", !.current = 0] \in NegotiationRow
      BY RowsKeepTypes DEF HiringTypeOK
    <3>2. \/ negotiation' = [negotiation EXCEPT ![p] = [negotiation[p] EXCEPT !.current = 0]]
          \/ negotiation' = [negotiation EXCEPT ![p] =
               [negotiation[p] EXCEPT !.status = "CANCELLED", !.current = 0]]
          \/ negotiation' = negotiation
      BY <1>12 DEF RejectOffer, CancelNegotiation, OfferExpires, HiringTypeOK, NegotiationRow
    <3> QED
      BY <3>1, <3>2 DEF HiringTypeOK
  <2> QED
    BY <1>0, <1>12, <2>1, <2>2 DEF RejectOffer, CancelNegotiation, OfferExpires, HiringTypeOK
<1>13. ASSUME NEW p \in Proposals, AcceptOffer(p) PROVE HiringTypeOK' /\ FiledRows'
  <2>1. /\ negotiation[p].current \in Rounds /\ proposal[p].job \in Jobs
        /\ proposal[p].freelancer \in Freelancers
        /\ JobOf(p).client \in Users /\ Offered(p) \in Nat
    BY <1>13, ActionableOffers DEF AcceptOffer
  <2>2. JobOf(p) \in JobRow
    BY <2>1 DEF JobOf, HiringTypeOK
  <2>3. TypeOK'
    <3>1. CASE UNCHANGED wallet
      BY <1>13, <3>1 DEF AcceptOffer, books, HiringTypeOK, TypeOK
    <3>2. CASE /\ Shortfall(p) > 0
               /\ Move(JobOf(p).client, "available", "reserved", Shortfall(p),
                       "BUDGET_RESERVATION")
      <4>1. Shortfall(p) \in Nat
        BY <2>1, <2>2, <3>2 DEF Shortfall, JobRow
      <4> QED
        BY <1>13, <2>1, <3>2, <4>1, MoveKeepsTypes DEF AcceptOffer, HiringTypeOK
    <3> QED
      BY <1>13, <3>1, <3>2 DEF AcceptOffer, ReserveShortfall
  <2>4. FiledRows'
    BY <1>a, <1>13, <2>3 DEF AcceptOffer
  <2>5. [Raised(JobOf(p), Offered(p)) EXCEPT !.hired = proposal[p].freelancer,
                                             !.status = "HIRED"] \in JobRow
    BY <2>1, <2>2 DEF Raised, Larger, JobRow, JobStatus
  <2>6. job' \in [Jobs -> JobRow]
    BY <1>13, <2>1, <2>5 DEF AcceptOffer, HiringTypeOK, JobOf
  <2>7. proposal' \in [Proposals -> ProposalRow]
    BY <1>13 DEF AcceptOffer, Chosen, HiringTypeOK, ProposalRow, ProposalStatus
  <2>8. offer' \in [Proposals -> [Rounds -> OfferRow]]
    BY <1>13, SupersededType DEF AcceptOffer, OfferStatus, HiringTypeOK
  <2>9. negotiation' \in [Proposals -> NegotiationRow]
    BY <1>13 DEF AcceptOffer, HiringTypeOK, NegotiationRow
  <2> QED
    BY <1>13, <2>1, <2>3, <2>4, <2>6, <2>7, <2>8, <2>9
       DEF AcceptOffer, HiringTypeOK, AgreementStatus
<1>14. ASSUME NEW p \in Proposals, NEW i \in Rounds, SubmitWork(p, i)
       PROVE  HiringTypeOK' /\ FiledRows'
  <2>1. job' \in [Jobs -> JobRow]
    <3> DEFINE j == proposal[p].job
    <3>1. j \in Jobs
      BY <1>14 DEF SubmitWork, Unpaid, AgreementFollowsOffer, ProposedJobs
    <3>2. [job[j] EXCEPT !.status = IF job[j].status = "HIRED" THEN "IN_PROGRESS"
                                    ELSE job[j].status] \in JobRow
      <4>1. job[j] \in JobRow
        BY <3>1 DEF HiringTypeOK
      <4>2. job[j].status \in JobStatus
        BY <4>1 DEF JobRow
      <4> HIDE DEF j
      <4> QED
        BY <4>1, <4>2, RowsKeepTypes DEF JobStatus
    <3>3. job' = [job EXCEPT ![j] =
            [job[j] EXCEPT !.status = IF job[j].status = "HIRED" THEN "IN_PROGRESS"
                                      ELSE job[j].status]]
      BY <1>14 DEF SubmitWork
    <3> QED
      BY <3>2, <3>3 DEF HiringTypeOK
  <2> QED
    BY <1>0, <1>14, <2>1 DEF SubmitWork, HiringTypeOK, AgreementStatus
<1>15. CASE Next /\ UNCHANGED hiringVars
  BY <1>15, RequestsKeepRows DEF HiringTypeOK, hiringVars
<1>16. CASE UNCHANGED hVars
  BY <1>0, <1>16 DEF hVars, hiringVars, HiringTypeOK
<1> QED
  BY <1>1, <1>2, <1>3, <1>4, <1>5, <1>6, <1>7, <1>8, <1>9, <1>11, <1>12, <1>13, <1>14, <1>15,
     <1>16 DEF HiringNext, HiringStep

\* Accepting an offer raises the reservation of the job to it, and never lowers
\* it; of the other columns it touches the budget only.
LEMMA RaisedEffect ==
  ASSUME NEW row \in JobRow, NEW amount \in Nat
  PROVE  /\ Raised(row, amount) \in JobRow
         /\ Raised(row, amount).client = row.client
         /\ Raised(row, amount).count = row.count
         /\ Raised(row, amount).reserved = IF amount > row.reserved THEN amount ELSE row.reserved
<1> DEFINE budget == Larger(row.budget, amount)
<1>1. budget \in Nat
  BY DEF Larger, JobRow
<1>2. CASE amount > row.reserved
  <2>1. Raised(row, amount) = [row EXCEPT !.reserved = amount, !.budget = budget]
    BY <1>2 DEF Raised
  <2> HIDE DEF budget
  <2> QED
    BY <1>1, <1>2, <2>1 DEF JobRow
<1>3. CASE ~ (amount > row.reserved)
  BY <1>3 DEF Raised
<1> QED
  BY <1>2, <1>3

\* What a step may do to a job: it keeps its client, its reservation never
\* shrinks, once published it stays published, and once somebody is hired it
\* keeps a freelancer and a status that goes with one.
JobMoves(j) ==
  /\ job[j].status # "NONE" => job'[j].client = job[j].client
  /\ job'[j].reserved >= job[j].reserved
  /\ job[j].status \notin Unpublished => job'[j].status \notin Unpublished
  /\ job[j].hired # NoUser => job'[j].hired # NoUser /\ job'[j].status \in Hired
  /\ job'[j].status # "NONE" => job'[j].client \in Clients
  /\ job'[j].status \in Unpublished => job'[j].reserved = 0
  /\ job'[j].hired # NoUser => job'[j].status \in Hired

\* Every step moves every job that way; JobStages is kept with it.
LEMMA JobsMoveOn ==
  ASSUME HiringShape, [HiringNext]_hVars
  PROVE  \A j \in Jobs : JobMoves(j)
<1> USE DEF HiringShape, JobMoves
<1>0. \A j \in Jobs : job[j] \in JobRow /\ job[j].reserved \in Nat
  BY DEF HiringTypeOK, JobRow
<1>u. ASSUME UNCHANGED job PROVE \A j \in Jobs : JobMoves(j)
  BY <1>0, <1>u DEF JobStages
<1>1. ASSUME NEW j \in Jobs, NEW c \in Clients, NEW budget \in Amounts,
             CreateJob(j, c, budget) \/ CreateAndPublishJob(j, c, budget)
      PROVE  \A k \in Jobs : JobMoves(k)
  <2>1. \A k \in Jobs : k # j => job'[k] = job[k]
    BY <1>1 DEF CreateJob, CreateAndPublishJob, HiringTypeOK
  <2>2. job[j].status = "NONE" /\ job[j].reserved = 0 /\ job[j].hired = NoUser
    BY <1>1 DEF CreateJob, CreateAndPublishJob, NextKey, JobStages, Unpublished, Hired
  <2>3. /\ job'[j].client = c /\ job'[j].hired = NoUser
        /\ \/ job'[j].status = "DRAFT" /\ job'[j].reserved = 0
           \/ job'[j].status = "OPEN" /\ job'[j].reserved = budget
    BY <1>0, <1>1, <2>2 DEF CreateJob, CreateAndPublishJob, HiringTypeOK, JobRow
  <2>4. budget \in Nat
    BY ConstantsAssumption
  <2>5. JobMoves(j)
    BY <2>2, <2>3, <2>4 DEF Unpublished
  <2> QED
    BY <1>0, <2>1, <2>5 DEF JobStages
<1>2. ASSUME NEW j \in Jobs, NEW budget \in Amounts, UpdateJob(j, budget)
      PROVE  \A k \in Jobs : JobMoves(k)
  <2>1. \A k \in Jobs : /\ job'[k].client = job[k].client /\ job'[k].status = job[k].status
                        /\ job'[k].reserved = job[k].reserved /\ job'[k].hired = job[k].hired
    BY <1>2 DEF UpdateJob, HiringTypeOK, JobRow
  <2> QED
    BY <1>0, <2>1 DEF JobStages
<1>3. ASSUME NEW j \in Jobs, PublishJob(j) PROVE \A k \in Jobs : JobMoves(k)
  <2>1. \A k \in Jobs : k # j => job'[k] = job[k]
    BY <1>3 DEF PublishJob, HiringTypeOK
  <2>2. /\ job[j].status = "DRAFT" /\ job[j].reserved = 0 /\ job[j].hired = NoUser
        /\ job[j].budget \in Nat
    BY <1>0, <1>3 DEF PublishJob, JobStages, Unpublished, Hired, JobRow
  <2>3. /\ job'[j].client = job[j].client /\ job'[j].hired = job[j].hired
        /\ job'[j].status = "OPEN" /\ job'[j].reserved = job[j].budget
    BY <1>0, <1>3 DEF PublishJob, HiringTypeOK, JobRow
  <2>4. JobMoves(j)
    BY <2>2, <2>3 DEF Unpublished, JobStages
  <2> QED
    BY <1>0, <2>1, <2>4 DEF JobStages
\* A step that writes the status of j, and of the other fields only count.
<1>4. ASSUME NEW j \in Jobs, NEW s,
             \A k \in Jobs : /\ job'[k].client = job[k].client
                             /\ job'[k].reserved = job[k].reserved
                             /\ job'[k].hired = job[k].hired
                             /\ job'[k].status = IF k = j THEN s ELSE job[k].status,
             job[j].status \notin Unpublished, s \notin Unpublished,
             job[j].status \in Hired => s \in Hired
      PROVE  \A k \in Jobs : JobMoves(k)
  BY <1>0, <1>4 DEF JobStages, Unpublished
<1>5. ASSUME NEW p \in Proposals, NEW f \in Freelancers, NEW j \in Jobs, NEW amount \in Amounts,
             SubmitProposal(p, f, j, amount)
      PROVE  \A k \in Jobs : JobMoves(k)
  <2> DEFINE s == IF job[j].status = "OPEN" THEN "PROPOSAL_RECEIVED" ELSE job[j].status
  <2>1. \A k \in Jobs : /\ job'[k].client = job[k].client
                        /\ job'[k].reserved = job[k].reserved
                        /\ job'[k].hired = job[k].hired
                        /\ job'[k].status = IF k = j THEN s ELSE job[k].status
    BY <1>0, <1>5 DEF SubmitProposal, HiringTypeOK, JobRow
  <2>2. job[j].status \notin Unpublished /\ job[j].status \notin Hired /\ s \notin Unpublished
    BY <1>5 DEF SubmitProposal, OpenJob, Unpublished, Hired
  <2> HIDE DEF s
  <2> QED
    BY <1>4, <2>1, <2>2
<1>6. ASSUME NEW p \in Proposals, WithdrawProposal(p) PROVE \A k \in Jobs : JobMoves(k)
  <2>1. \A k \in Jobs : /\ job'[k].client = job[k].client /\ job'[k].status = job[k].status
                        /\ job'[k].reserved = job[k].reserved /\ job'[k].hired = job[k].hired
    BY <1>6 DEF WithdrawProposal, HiringTypeOK, JobRow
  <2> QED
    BY <1>0, <2>1 DEF JobStages
<1>7. ASSUME NEW p \in Proposals, OpenNegotiation(p) PROVE \A k \in Jobs : JobMoves(k)
  <2> DEFINE j == proposal[p].job
             s == Negotiated(job[j].status)
  <2>1. j \in Jobs /\ job[j].status \notin Unpublished
    BY <1>7 DEF OpenNegotiation, RoomsOfProposals, ProposedJobs
  <2>2. \A k \in Jobs : /\ job'[k].client = job[k].client
                        /\ job'[k].reserved = job[k].reserved
                        /\ job'[k].hired = job[k].hired
                        /\ job'[k].status = IF k = j THEN s ELSE job[k].status
    BY <1>0, <1>7 DEF OpenNegotiation, HiringTypeOK, JobRow
  <2>3. s \notin Unpublished /\ (job[j].status \in Hired => s \in Hired)
    BY <2>1 DEF Negotiated, Unpublished, Hired
  <2> HIDE DEF j, s
  <2> QED
    BY <1>4, <2>1, <2>2, <2>3
<1>8. ASSUME NEW p \in Proposals, AcceptOffer(p) PROVE \A k \in Jobs : JobMoves(k)
  <2> DEFINE j == proposal[p].job
             row == Raised(job[j], Offered(p))
  <2>1. /\ j \in Jobs /\ job[j].status \notin Unpublished /\ Offered(p) \in Nat
        /\ proposal[p].freelancer \in Freelancers
    BY <1>8, ActionableOffers DEF AcceptOffer
  <2>2. row \in JobRow /\ row.client = job[j].client /\ row.reserved >= job[j].reserved
    <3>1. job[j] \in JobRow /\ job[j].reserved \in Nat /\ Offered(p) \in Nat
      BY <1>0, <2>1
    <3> HIDE DEF j
    <3>2. /\ row \in JobRow /\ row.client = job[j].client
          /\ row.reserved = IF Offered(p) > job[j].reserved THEN Offered(p) ELSE job[j].reserved
      BY <3>1, RaisedEffect
    <3> HIDE DEF row
    <3> QED
      BY <3>1, <3>2
  <2>3. job' = [job EXCEPT ![j] = [row EXCEPT !.hired = proposal[p].freelancer,
                                              !.status = "HIRED"]]
    BY <1>8 DEF AcceptOffer
  <2> HIDE DEF j, row
  <2>4. \A k \in Jobs : k # j => job'[k] = job[k]
    BY <2>3 DEF HiringTypeOK
  <2>5. /\ job'[j].client = row.client /\ job'[j].reserved = row.reserved
        /\ job'[j].hired # NoUser /\ job'[j].status = "HIRED"
    BY <2>1, <2>2, <2>3, HiringAssumption DEF HiringTypeOK, JobRow
  <2>6. JobMoves(j)
    BY <2>1, <2>2, <2>5 DEF Unpublished, Hired, JobStages
  <2> QED
    BY <1>0, <2>4, <2>6 DEF JobStages
<1>9. ASSUME NEW p \in Proposals, NEW i \in Rounds, SubmitWork(p, i)
      PROVE  \A k \in Jobs : JobMoves(k)
  <2> DEFINE j == proposal[p].job
             s == IF job[j].status = "HIRED" THEN "IN_PROGRESS" ELSE job[j].status
  <2>1. j \in Jobs /\ job[j].status \notin Unpublished
    BY <1>9 DEF SubmitWork, AgreementFollowsOffer, ProposedJobs
  <2>2. \A k \in Jobs : /\ job'[k].client = job[k].client
                        /\ job'[k].reserved = job[k].reserved
                        /\ job'[k].hired = job[k].hired
                        /\ job'[k].status = IF k = j THEN s ELSE job[k].status
    BY <1>0, <1>9 DEF SubmitWork, HiringTypeOK, JobRow
  <2>3. s \notin Unpublished /\ (job[j].status \in Hired => s \in Hired)
    BY <2>1 DEF Unpublished, Hired
  <2> HIDE DEF j, s
  <2> QED
    BY <1>4, <2>1, <2>2, <2>3
<1>10. ASSUME NEW p \in Proposals,
              \/ RejectProposal(p) \/ BeginOpenRoom(p) \/ OpenNegotiationRefused(p)
              \/ RejectOffer(p) \/ CancelNegotiation(p) \/ OfferExpires(p)
       PROVE  \A k \in Jobs : JobMoves(k)
  BY <1>u, <1>10 DEF RejectProposal, BeginOpenRoom, OpenNegotiationRefused, RejectOffer,
                     CancelNegotiation, OfferExpires
<1>11. ASSUME NEW p \in Proposals, NEW side \in Side, NEW amount \in Amounts,
              NEW final \in BOOLEAN, SendOffer(p, side, amount, final)
       PROVE  \A k \in Jobs : JobMoves(k)
  BY <1>u, <1>11 DEF SendOffer
<1>12. CASE UNCHANGED hiringVars
  BY <1>u, <1>12 DEF hiringVars
<1> HIDE DEF JobMoves
<1> QED
  BY <1>1, <1>2, <1>3, <1>5, <1>6, <1>7, <1>8, <1>9, <1>10, <1>11, <1>12
     DEF HiringNext, HiringStep, hVars

\* What a step may do to a proposal: once filed it stays filed, with the job,
\* the freelancer and the amount it was filed with; and it is filed on a job
\* that searches.
ProposalMoves(p) ==
  IF proposal[p].status = "NONE"
  THEN \/ proposal'[p].status = "NONE"
       \/ /\ proposal'[p].status = "SUBMITTED"
          /\ proposal'[p].job \in Jobs /\ proposal'[p].freelancer \in Freelancers
          /\ job[proposal'[p].job].status \in OpenJob
  ELSE /\ proposal'[p].status # "NONE"
       /\ proposal'[p].job = proposal[p].job
       /\ proposal'[p].freelancer = proposal[p].freelancer
       /\ proposal'[p].amount = proposal[p].amount

\* Accepting an offer closes its own proposal and the open ones beside it, and
\* changes nothing of them but the status.
LEMMA ChosenEffect ==
  ASSUME HiringTypeOK, NEW p \in Proposals, NEW q \in Proposals
  PROVE  /\ Chosen(p)[q].job = proposal[q].job
         /\ Chosen(p)[q].freelancer = proposal[q].freelancer
         /\ Chosen(p)[q].amount = proposal[q].amount
         /\ Chosen(p)[q].status =
              IF q = p THEN "ACCEPTED"
              ELSE IF proposal[q].job = proposal[p].job /\ proposal[q].status \in OpenProposal
              THEN "REJECTED" ELSE proposal[q].status
<1>1. proposal[q] \in ProposalRow
  BY DEF HiringTypeOK
<1>2. CASE q = p
  BY <1>1, <1>2 DEF Chosen, ProposalRow
<1>3. CASE q # p /\ proposal[q].job = proposal[p].job /\ proposal[q].status \in OpenProposal
  BY <1>1, <1>3 DEF Chosen, ProposalRow
<1>4. CASE q # p /\ ~ (proposal[q].job = proposal[p].job /\ proposal[q].status \in OpenProposal)
  BY <1>1, <1>4 DEF Chosen
<1> QED
  BY <1>2, <1>3, <1>4

\* Every step moves every proposal that way.
LEMMA ProposalsMoveOn ==
  ASSUME HiringShape, [HiringNext]_hVars
  PROVE  \A p \in Proposals : ProposalMoves(p)
<1> USE DEF HiringShape, ProposalMoves
<1>u. ASSUME UNCHANGED proposal PROVE \A p \in Proposals : ProposalMoves(p)
  BY <1>u
<1>1. ASSUME NEW p \in Proposals, NEW f \in Freelancers, NEW j \in Jobs, NEW amount \in Amounts,
             SubmitProposal(p, f, j, amount)
      PROVE  \A q \in Proposals : ProposalMoves(q)
  BY <1>1 DEF SubmitProposal, NextKey, HiringTypeOK
\* A step that writes the status of p, filed before.
<1>2. ASSUME NEW p \in Proposals, NEW s, proposal' = [proposal EXCEPT ![p].status = s],
             proposal[p].status # "NONE", s # "NONE"
      PROVE  \A q \in Proposals : ProposalMoves(q)
  BY <1>2 DEF HiringTypeOK, ProposalRow
<1>3. ASSUME NEW p \in Proposals,
             WithdrawProposal(p) \/ RejectProposal(p) \/ OpenNegotiation(p)
      PROVE  \A q \in Proposals : ProposalMoves(q)
  <2> HIDE DEF ProposalMoves
  <2> QED
    BY <1>2, <1>3 DEF WithdrawProposal, RejectProposal, OpenNegotiation, OpenProposal,
                      RoomsOfProposals
<1>4. ASSUME NEW p \in Proposals, AcceptOffer(p)
      PROVE  \A q \in Proposals : ProposalMoves(q)
  <2>1. proposal' = Chosen(p) /\ proposal[p].status # "NONE"
    BY <1>4, ActionableOffers DEF AcceptOffer
  <2>2. \A q \in Proposals : /\ proposal'[q].job = proposal[q].job
                             /\ proposal'[q].freelancer = proposal[q].freelancer
                             /\ proposal'[q].amount = proposal[q].amount
                             /\ \/ proposal'[q].status = proposal[q].status
                                \/ /\ proposal[q].status # "NONE"
                                   /\ proposal'[q].status \in {"ACCEPTED", "REJECTED"}
    BY <2>1, ChosenEffect DEF OpenProposal
  <2> QED
    BY <2>2
<1>5. CASE UNCHANGED hiringVars
  BY <1>u, <1>5 DEF hiringVars
<1>6. ASSUME NEW p \in Proposals,
             \/ BeginOpenRoom(p) \/ OpenNegotiationRefused(p) \/ RejectOffer(p)
             \/ CancelNegotiation(p) \/ OfferExpires(p)
             \/ \E side \in Side, amount \in Amounts, final \in BOOLEAN :
                  SendOffer(p, side, amount, final)
             \/ \E i \in Rounds : SubmitWork(p, i)
      PROVE  UNCHANGED proposal
  BY <1>6 DEF BeginOpenRoom, OpenNegotiationRefused, RejectOffer, CancelNegotiation,
              OfferExpires, SendOffer, SubmitWork
<1>7. ASSUME NEW j \in Jobs,
             \/ PublishJob(j)
             \/ \E budget \in Amounts :
                  \/ UpdateJob(j, budget)
                  \/ \E c \in Clients : CreateJob(j, c, budget) \/ CreateAndPublishJob(j, c, budget)
      PROVE  UNCHANGED proposal
  BY <1>7 DEF PublishJob, UpdateJob, CreateJob, CreateAndPublishJob
<1> HIDE DEF ProposalMoves
<1> QED
  BY <1>u, <1>1, <1>3, <1>4, <1>5, <1>6, <1>7 DEF HiringNext, HiringStep, hVars

\* Jobs that were published stay so, and proposals are only filed on them.
LEMMA ProposedJobsStay ==
  ASSUME HiringShape, [HiringNext]_hVars
  PROVE  JobStages' /\ ProposedJobs'
<1>1. \A j \in Jobs : JobMoves(j)
  BY JobsMoveOn
<1>2. \A p \in Proposals : ProposalMoves(p)
  BY ProposalsMoveOn
<1>3. JobStages'
  BY <1>1 DEF JobStages, JobMoves
<1>4. ASSUME NEW p \in Proposals, proposal'[p].status # "NONE"
      PROVE  /\ proposal'[p].job \in Jobs
             /\ proposal'[p].freelancer \in Freelancers
             /\ job'[proposal'[p].job].status \notin Unpublished
  <2>1. /\ proposal'[p].job \in Jobs
        /\ proposal'[p].freelancer \in Freelancers
        /\ job[proposal'[p].job].status \notin Unpublished
    BY <1>2, <1>4 DEF ProposalMoves, HiringShape, ProposedJobs, OpenJob, Unpublished
  <2> QED
    BY <1>1, <2>1 DEF JobMoves
<1> QED
  BY <1>3, <1>4 DEF ProposedJobs

\* A room is opened for a proposal that was read as open, once; the other
\* requests leave a proposal with a room negotiated, rejected or accepted.
LEMMA RoomsStay ==
  ASSUME HiringShape, [HiringNext]_hVars
  PROVE  RoomsOfProposals'
<1> USE DEF HiringShape, RoomsOfProposals
<1>u. ASSUME UNCHANGED <<proposal, opening, negotiation>> PROVE RoomsOfProposals'
  BY <1>u
<1>1. ASSUME NEW p \in Proposals, NEW f \in Freelancers, NEW j \in Jobs, NEW amount \in Amounts,
             SubmitProposal(p, f, j, amount)
      PROVE  RoomsOfProposals'
  BY <1>1 DEF SubmitProposal, NextKey, HiringTypeOK
<1>2. ASSUME NEW p \in Proposals, WithdrawProposal(p) \/ RejectProposal(p)
      PROVE  RoomsOfProposals'
  <2>1. /\ \A q \in Proposals : q # p => proposal'[q] = proposal[q]
        /\ UNCHANGED <<opening, negotiation>>
    BY <1>2 DEF WithdrawProposal, RejectProposal, HiringTypeOK
  <2>2. \/ proposal[p].status = "SUBMITTED" /\ proposal'[p].status = "WITHDRAWN"
        \/ proposal[p].status # "NONE" /\ proposal'[p].status = "REJECTED"
    BY <1>2 DEF WithdrawProposal, RejectProposal, OpenProposal, HiringTypeOK, ProposalRow
  <2> QED
    BY <2>1, <2>2
<1>3. ASSUME NEW p \in Proposals, BeginOpenRoom(p) \/ OpenNegotiationRefused(p)
      PROVE  RoomsOfProposals'
  BY <1>3 DEF BeginOpenRoom, OpenNegotiationRefused, OpenProposal
<1>4. ASSUME NEW p \in Proposals, OpenNegotiation(p) PROVE RoomsOfProposals'
  BY <1>4 DEF OpenNegotiation, HiringTypeOK, ProposalRow
<1>5. ASSUME NEW p \in Proposals,
             \/ RejectOffer(p) \/ CancelNegotiation(p)
             \/ \E side \in Side, amount \in Amounts, final \in BOOLEAN :
                  SendOffer(p, side, amount, final)
      PROVE  RoomsOfProposals'
  <2>1. negotiation[p].status = "ACTIVE"
    BY <1>5, ActionableOffers DEF RejectOffer, CancelNegotiation, SendOffer
  <2>2. /\ \A q \in Proposals : q # p => negotiation'[q] = negotiation[q]
        /\ UNCHANGED <<proposal, opening>>
    BY <1>5 DEF RejectOffer, CancelNegotiation, SendOffer, HiringTypeOK
  <2> QED
    BY <2>1, <2>2
<1>6. ASSUME NEW p \in Proposals, AcceptOffer(p) PROVE RoomsOfProposals'
  <2>1. negotiation[p].status = "ACTIVE" /\ UNCHANGED opening
    BY <1>6, ActionableOffers DEF AcceptOffer
  <2>2. \A q \in Proposals : q # p => negotiation'[q] = negotiation[q]
    BY <1>6 DEF AcceptOffer, HiringTypeOK
  <2>3. proposal' = Chosen(p)
    BY <1>6 DEF AcceptOffer
  <2>4. \A q \in Proposals : /\ proposal'[p].status = "ACCEPTED"
                             /\ \/ proposal'[q].status = proposal[q].status
                                \/ /\ proposal[q].status # "NONE"
                                   /\ proposal'[q].status \in {"ACCEPTED", "REJECTED"}
    BY <2>1, <2>3, ChosenEffect DEF OpenProposal
  <2> QED
    BY <2>1, <2>2, <2>4
<1>7. ASSUME NEW p \in Proposals, OfferExpires(p) \/ \E i \in Rounds : SubmitWork(p, i)
      PROVE  RoomsOfProposals'
  BY <1>u, <1>7 DEF OfferExpires, SubmitWork
<1>8. ASSUME NEW j \in Jobs,
             \/ PublishJob(j)
             \/ \E budget \in Amounts :
                  \/ UpdateJob(j, budget)
                  \/ \E c \in Clients : CreateJob(j, c, budget) \/ CreateAndPublishJob(j, c, budget)
      PROVE  RoomsOfProposals'
  BY <1>u, <1>8 DEF PublishJob, UpdateJob, CreateJob, CreateAndPublishJob
<1>9. CASE UNCHANGED hiringVars
  BY <1>u, <1>9 DEF hiringVars
<1> HIDE DEF RoomsOfProposals, HiringShape
<1> QED
  BY <1>1, <1>2, <1>3, <1>4, <1>5, <1>6, <1>7, <1>8, <1>9 DEF HiringNext, HiringStep, hVars

\* The new status reaches the current offer, and no other column or row.
LEMMA SupersededEffect ==
  ASSUME HiringTypeOK, NEW p \in Proposals, NEW s, NEW i \in Rounds
  PROVE  /\ Superseded(p, s)[i].status =
              IF i = negotiation[p].current THEN s ELSE offer[p][i].status
         /\ Superseded(p, s)[i].amount = offer[p][i].amount
<1>1. offer[p][i] \in OfferRow /\ offer[p] \in [Rounds -> OfferRow]
  BY DEF HiringTypeOK
<1>2. CASE i = negotiation[p].current
  BY <1>1, <1>2 DEF Superseded, OfferRow
<1>3. CASE i # negotiation[p].current
  BY <1>1, <1>3 DEF Superseded, OfferRow
<1> QED
  BY <1>2, <1>3

\* What sending an offer does: the offer before it, expired or not, is
\* countered, the new one is live and current.
LEMMA SendOfferEffect ==
  ASSUME HiringShape, NEW p \in Proposals, NEW side \in Side, NEW amount \in Amounts,
         NEW final \in BOOLEAN, SendOffer(p, side, amount, final)
  PROVE  \E k \in Rounds :
           /\ negotiation[p].status = "ACTIVE"
           /\ negotiation'[p].status = "ACTIVE" /\ negotiation'[p].current = k
           /\ offer'[p][k].status = "ACTIVE" /\ offer'[p][k].amount = amount
           /\ \A i \in Rounds \ {k} :
                /\ offer'[p][i].status =
                     IF offer[p][i].status \in {"ACTIVE", "LAPSED"} THEN "COUNTERED"
                     ELSE offer[p][i].status
                /\ offer'[p][i].amount = offer[p][i].amount
           /\ \A q \in Proposals \ {p} : offer'[q] = offer[q] /\ negotiation'[q] = negotiation[q]
<1> USE HiringAssumption DEF HiringShape
<1> DEFINE k == negotiation[p].rounds + 1
           row == [sender |-> side, amount |-> amount, final |-> final, status |-> "ACTIVE"]
<1>1. /\ k \in Rounds /\ negotiation[p].status = "ACTIVE"
      /\ offer' = [offer EXCEPT ![p] = [Answered(p) EXCEPT ![k] = row]]
      /\ negotiation' = [negotiation EXCEPT ![p].rounds = k, ![p].current = k]
  BY DEF SendOffer, HiringTypeOK, NegotiationRow, Rounds
<1> HIDE DEF k
<1>2. Answered(p) \in [Rounds -> OfferRow]
  BY SupersededType DEF Answered, HiringTypeOK, OfferStatus
<1>3. offer'[p] = [Answered(p) EXCEPT ![k] = row]
  BY <1>1 DEF HiringTypeOK
<1>4. offer'[p][k] = row /\ \A i \in Rounds \ {k} : offer'[p][i] = Answered(p)[i]
  BY <1>1, <1>2, <1>3
<1>5. /\ negotiation'[p].status = "ACTIVE" /\ negotiation'[p].current = k
      /\ \A q \in Proposals \ {p} : offer'[q] = offer[q] /\ negotiation'[q] = negotiation[q]
  BY <1>1 DEF HiringTypeOK, NegotiationRow
<1>6. ASSUME NEW i \in Rounds
      PROVE  /\ Answered(p)[i].status =
                  IF offer[p][i].status \in {"ACTIVE", "LAPSED"} THEN "COUNTERED"
                  ELSE offer[p][i].status
             /\ Answered(p)[i].amount = offer[p][i].amount
  <2>1. offer[p][i].status \in {"ACTIVE", "LAPSED"} => negotiation[p].current = i /\ i # 0
    BY DEF OneLiveOffer, Rounds
  <2>2. /\ Superseded(p, "COUNTERED")[i].status =
              IF i = negotiation[p].current THEN "COUNTERED" ELSE offer[p][i].status
        /\ Superseded(p, "COUNTERED")[i].amount = offer[p][i].amount
    BY SupersededEffect
  <2> QED
    BY <2>1, <2>2 DEF Answered
<1>7. /\ offer'[p][k].status = "ACTIVE" /\ offer'[p][k].amount = amount
      /\ \A i \in Rounds \ {k} :
           /\ offer'[p][i].status =
                IF offer[p][i].status \in {"ACTIVE", "LAPSED"} THEN "COUNTERED"
                ELSE offer[p][i].status
           /\ offer'[p][i].amount = offer[p][i].amount
  BY <1>4, <1>6
<1> HIDE DEF row
<1> k \in Rounds
  BY <1>1
<1> WITNESS k \in Rounds
<1> QED
  BY <1>1, <1>5, <1>7

\* A negotiation that stops being awaited, by a rejection, a cancellation or an
\* acceptance, keeps no live offer; one that expires stays the current one.
LEMMA AnswersEffect ==
  ASSUME HiringShape, NEW p \in Proposals,
         RejectOffer(p) \/ CancelNegotiation(p) \/ OfferExpires(p) \/ AcceptOffer(p)
  PROVE  /\ negotiation[p].status = "ACTIVE"
         /\ \A q \in Proposals \ {p} : offer'[q] = offer[q] /\ negotiation'[q] = negotiation[q]
         /\ \A i \in Rounds : offer'[p][i].amount = offer[p][i].amount
         /\ \/ /\ \A i \in Rounds : \/ offer'[p][i].status \in {"REJECTED", "WITHDRAWN"}
                                    \/ /\ offer'[p][i].status = offer[p][i].status
                                       /\ offer'[p][i].status \notin {"ACTIVE", "LAPSED"}
               /\ ~ AcceptOffer(p)
            \/ /\ UNCHANGED negotiation
               /\ \A i \in Rounds : offer'[p][i].status =
                    IF i = negotiation[p].current THEN "LAPSED" ELSE offer[p][i].status
               /\ ~ AcceptOffer(p)
            \/ /\ AcceptOffer(p)
               /\ negotiation'[p].status = "ACCEPTED"
               /\ negotiation'[p].current = negotiation[p].current
               /\ negotiation[p].current \in Rounds
               /\ \A i \in Rounds : offer'[p][i].status =
                    IF i = negotiation[p].current THEN "ACCEPTED" ELSE offer[p][i].status
<1> USE DEF HiringShape
<1>1. negotiation[p].status = "ACTIVE"
  BY ActionableOffers DEF RejectOffer, CancelNegotiation, OfferExpires, AcceptOffer
<1>2. \A q \in Proposals \ {p} : offer'[q] = offer[q] /\ negotiation'[q] = negotiation[q]
  BY DEF RejectOffer, CancelNegotiation, OfferExpires, AcceptOffer, HiringTypeOK
<1>3. \A s : \A i \in Rounds :
        /\ Superseded(p, s)[i].status =
             IF i = negotiation[p].current THEN s ELSE offer[p][i].status
        /\ Superseded(p, s)[i].amount = offer[p][i].amount
  BY SupersededEffect
<1>4. \A i \in Rounds : /\ offer[p][i].status \in {"ACTIVE", "LAPSED"} => negotiation[p].current = i
                        /\ i # 0
  BY DEF OneLiveOffer, Rounds
<1>5. ASSUME RejectOffer(p) \/ CancelNegotiation(p)
      PROVE  \A i \in Rounds :
               /\ offer'[p][i].amount = offer[p][i].amount
               /\ \/ offer'[p][i].status \in {"REJECTED", "WITHDRAWN"}
                  \/ /\ offer'[p][i].status = offer[p][i].status
                     /\ offer'[p][i].status \notin {"ACTIVE", "LAPSED"}
  <2>1. \/ \E s \in {"REJECTED", "WITHDRAWN"} : offer'[p] = Superseded(p, s)
        \/ offer'[p] = offer[p] /\ negotiation[p].current = 0
    BY <1>5 DEF RejectOffer, CancelNegotiation, HiringTypeOK
  <2> QED
    BY <1>3, <1>4, <2>1
<1>6. ASSUME OfferExpires(p)
      PROVE  /\ UNCHANGED negotiation
             /\ \A i \in Rounds : /\ offer'[p][i].amount = offer[p][i].amount
                                  /\ offer'[p][i].status =
                                       IF i = negotiation[p].current THEN "LAPSED"
                                       ELSE offer[p][i].status
  <2>1. offer'[p] = Superseded(p, "LAPSED") /\ UNCHANGED negotiation
    BY <1>6 DEF OfferExpires, HiringTypeOK
  <2> QED
    BY <1>3, <2>1
<1>7. ASSUME AcceptOffer(p)
      PROVE  /\ negotiation'[p].status = "ACCEPTED"
             /\ negotiation'[p].current = negotiation[p].current
             /\ negotiation[p].current \in Rounds
             /\ \A i \in Rounds : /\ offer'[p][i].amount = offer[p][i].amount
                                  /\ offer'[p][i].status =
                                       IF i = negotiation[p].current THEN "ACCEPTED"
                                       ELSE offer[p][i].status
  <2>1. /\ offer'[p] = Superseded(p, "ACCEPTED")
        /\ negotiation' = [negotiation EXCEPT ![p].status = "ACCEPTED"]
    BY <1>7 DEF AcceptOffer, HiringTypeOK
  <2>2. /\ negotiation'[p].status = "ACCEPTED"
        /\ negotiation'[p].current = negotiation[p].current
    BY <2>1 DEF HiringTypeOK, NegotiationRow
  <2>3. negotiation[p].current \in Rounds
    BY <1>7, ActionableOffers DEF AcceptOffer
  <2> QED
    BY <1>3, <2>1, <2>2, <2>3
<1>8. CASE AcceptOffer(p)
  BY <1>1, <1>2, <1>7, <1>8
<1>9. CASE ~ AcceptOffer(p)
  BY <1>1, <1>2, <1>5, <1>6, <1>9
<1> QED
  BY <1>8, <1>9

\* What opening a room does: it finds no live offer, puts the freelancer's in
\* place, and makes it current.
LEMMA OpenNegotiationEffect ==
  ASSUME HiringShape, NEW p \in Proposals, OpenNegotiation(p)
  PROVE  /\ 1 \in Rounds
         /\ negotiation[p].status = "NONE"
         /\ negotiation'[p].status = "ACTIVE" /\ negotiation'[p].current = 1
         /\ offer'[p][1].status = "ACTIVE"
         /\ \A i \in Rounds \ {1} : offer'[p][i] = offer[p][i]
         /\ \A q \in Proposals \ {p} : offer'[q] = offer[q] /\ negotiation'[q] = negotiation[q]
<1>1. 1 \in Rounds /\ negotiation[p].status = "NONE"
  BY HiringAssumption DEF OpenNegotiation, HiringShape, RoomsOfProposals, Rounds
<1> QED
  BY <1>1 DEF OpenNegotiation, HiringShape, HiringTypeOK

\* Every step keeps one live offer per negotiation.
LEMMA LiveOffersStay ==
  ASSUME HiringShape, [HiringNext]_hVars
  PROVE  OneLiveOffer'
<1> USE DEF OneLiveOffer
<1>0. OneLiveOffer
  BY DEF HiringShape
<1>u. ASSUME UNCHANGED <<offer, negotiation>> PROVE OneLiveOffer'
  BY <1>0, <1>u
<1>1. ASSUME NEW p \in Proposals, OpenNegotiation(p) PROVE OneLiveOffer'
  BY <1>0, <1>1, OpenNegotiationEffect
<1>2. ASSUME NEW p \in Proposals, NEW side \in Side, NEW amount \in Amounts,
             NEW final \in BOOLEAN, SendOffer(p, side, amount, final)
      PROVE  OneLiveOffer'
  BY <1>0, <1>2, SendOfferEffect
<1>3. ASSUME NEW p \in Proposals,
             RejectOffer(p) \/ CancelNegotiation(p) \/ OfferExpires(p) \/ AcceptOffer(p)
      PROVE  OneLiveOffer'
  <2>1. /\ \A q \in Proposals \ {p} : offer'[q] = offer[q] /\ negotiation'[q] = negotiation[q]
        /\ \/ \A i \in Rounds : offer'[p][i].status \notin {"ACTIVE", "LAPSED"}
           \/ /\ UNCHANGED negotiation
              /\ \A i \in Rounds : offer'[p][i].status =
                   IF i = negotiation[p].current THEN "LAPSED" ELSE offer[p][i].status
           \/ /\ negotiation[p].current \in Rounds
              /\ \A i \in Rounds : offer'[p][i].status =
                   IF i = negotiation[p].current THEN "ACCEPTED" ELSE offer[p][i].status
        /\ negotiation[p].status = "ACTIVE"
    BY <1>3, AnswersEffect
  <2> QED
    BY <1>0, <2>1
<1>4. ASSUME NEW p \in Proposals,
             \/ WithdrawProposal(p) \/ RejectProposal(p) \/ BeginOpenRoom(p)
             \/ OpenNegotiationRefused(p)
             \/ \E f \in Freelancers, j \in Jobs, amount \in Amounts : SubmitProposal(p, f, j, amount)
             \/ \E i \in Rounds : SubmitWork(p, i)
      PROVE  OneLiveOffer'
  BY <1>u, <1>4 DEF WithdrawProposal, RejectProposal, BeginOpenRoom, OpenNegotiationRefused,
                    SubmitProposal, SubmitWork
<1>5. ASSUME NEW j \in Jobs,
             \/ PublishJob(j)
             \/ \E budget \in Amounts :
                  \/ UpdateJob(j, budget)
                  \/ \E c \in Clients : CreateJob(j, c, budget) \/ CreateAndPublishJob(j, c, budget)
      PROVE  OneLiveOffer'
  BY <1>u, <1>5 DEF PublishJob, UpdateJob, CreateJob, CreateAndPublishJob
<1>6. CASE UNCHANGED hiringVars
  BY <1>u, <1>6 DEF hiringVars
<1> HIDE DEF OneLiveOffer
<1> QED
  BY <1>1, <1>2, <1>3, <1>4, <1>5, <1>6 DEF HiringNext, HiringStep, hVars

\* The agreements of one proposal follow its offers: the body of
\* AgreementFollowsOffer.
Followed(p) ==
  /\ \A i \in Rounds :
       /\ agreement[p][i] # "NONE" <=> offer[p][i].status = "ACCEPTED"
       /\ agreement[p][i] # "NONE" =>
            /\ negotiation[p].status = "ACCEPTED"
            /\ negotiation[p].current = i
            /\ proposal[p].status = "ACCEPTED"
            /\ job[proposal[p].job].hired # NoUser
  /\ proposal[p].status = "ACCEPTED" => \E i \in Rounds : agreement[p][i] # "NONE"

\* The agreements and accepted offers of p are the ones before, in a room that
\* is as before when there are any.
Undisturbed(p) ==
  /\ \A i \in Rounds : /\ agreement'[p][i] # "NONE" <=> agreement[p][i] # "NONE"
                       /\ offer'[p][i].status = "ACCEPTED" <=> offer[p][i].status = "ACCEPTED"
  /\ \/ negotiation'[p] = negotiation[p]
     \/ \A i \in Rounds : agreement[p][i] = "NONE"
  /\ proposal'[p].status = "ACCEPTED" <=> proposal[p].status = "ACCEPTED"

\* Then the agreements go on following the offers.
LEMMA UndisturbedFollows ==
  ASSUME HiringShape, NEW p \in Proposals, Undisturbed(p), ProposalMoves(p),
         \A j \in Jobs : JobMoves(j)
  PROVE  Followed(p)'
<1>1. Followed(p)
  BY DEF HiringShape, AgreementFollowsOffer, Followed
<1>2. ASSUME NEW i \in Rounds, agreement[p][i] # "NONE"
      PROVE  job'[proposal'[p].job].hired # NoUser
  BY <1>1, <1>2 DEF Followed, HiringShape, ProposedJobs, ProposalMoves, JobMoves
<1> QED
  BY <1>1, <1>2 DEF Followed, Undisturbed

\* Every step keeps agreements following the accepted offers.
LEMMA AgreementsStay ==
  ASSUME HiringShape, [HiringNext]_hVars
  PROVE  AgreementFollowsOffer'
<1>1. \A p \in Proposals : ProposalMoves(p)
  BY ProposalsMoveOn
<1>2. \A j \in Jobs : JobMoves(j)
  BY JobsMoveOn
<1>3. ASSUME \A q \in Proposals : Undisturbed(q) PROVE AgreementFollowsOffer'
  <2>1. \A q \in Proposals : Followed(q)'
    BY <1>1, <1>2, <1>3, UndisturbedFollows
  <2> QED
    BY <2>1 DEF AgreementFollowsOffer, Followed
<1>u. ASSUME UNCHANGED <<offer, negotiation, agreement>>,
             \A q \in Proposals : proposal'[q].status = "ACCEPTED" <=> proposal[q].status = "ACCEPTED"
      PROVE  AgreementFollowsOffer'
  BY <1>3, <1>u DEF Undisturbed
\* Where an answer is awaited, or a room is being opened, nothing was agreed.
<1>a. ASSUME NEW p \in Proposals, negotiation[p].status # "ACCEPTED"
      PROVE  /\ \A i \in Rounds : agreement[p][i] = "NONE" /\ offer[p][i].status # "ACCEPTED"
             /\ proposal[p].status # "ACCEPTED"
  BY <1>a DEF HiringShape, AgreementFollowsOffer
<1>4. ASSUME NEW p \in Proposals, NEW f \in Freelancers, NEW j \in Jobs, NEW amount \in Amounts,
             SubmitProposal(p, f, j, amount)
      PROVE  AgreementFollowsOffer'
  BY <1>u, <1>4 DEF SubmitProposal, NextKey, HiringShape, HiringTypeOK
<1>5. ASSUME NEW p \in Proposals, WithdrawProposal(p) \/ RejectProposal(p)
      PROVE  AgreementFollowsOffer'
  <2>1. /\ \A q \in Proposals : q # p => proposal'[q] = proposal[q]
        /\ UNCHANGED <<offer, negotiation, agreement>>
        /\ proposal[p].status # "ACCEPTED" /\ proposal'[p].status # "ACCEPTED"
    BY <1>5 DEF WithdrawProposal, RejectProposal, OpenProposal, HiringShape, HiringTypeOK,
                ProposalRow
  <2> QED
    BY <1>u, <2>1
<1>6. ASSUME NEW p \in Proposals, BeginOpenRoom(p) \/ OpenNegotiationRefused(p)
      PROVE  AgreementFollowsOffer'
  BY <1>u, <1>6 DEF BeginOpenRoom, OpenNegotiationRefused
<1>7. ASSUME NEW p \in Proposals, OpenNegotiation(p) PROVE AgreementFollowsOffer'
  <2>1. /\ \A i \in Rounds : agreement[p][i] = "NONE" /\ offer[p][i].status # "ACCEPTED"
        /\ proposal[p].status # "ACCEPTED"
    BY <1>7, <1>a, OpenNegotiationEffect
  <2>2. /\ UNCHANGED agreement
        /\ \A q \in Proposals : q # p => proposal'[q] = proposal[q]
        /\ proposal'[p].status = "NEGOTIATING"
    BY <1>7 DEF OpenNegotiation, HiringShape, HiringTypeOK, ProposalRow
  <2>3. Undisturbed(p)
    BY <1>7, <2>1, <2>2, OpenNegotiationEffect DEF Undisturbed
  <2>4. \A q \in Proposals \ {p} : Undisturbed(q)
    BY <1>7, <2>2, OpenNegotiationEffect DEF Undisturbed
  <2> QED
    BY <1>3, <2>3, <2>4
<1>8. ASSUME NEW p \in Proposals, NEW side \in Side, NEW amount \in Amounts,
             NEW final \in BOOLEAN, SendOffer(p, side, amount, final)
      PROVE  AgreementFollowsOffer'
  <2>1. UNCHANGED <<agreement, proposal>>
    BY <1>8 DEF SendOffer
  <2>2. \A i \in Rounds : agreement[p][i] = "NONE" /\ offer[p][i].status # "ACCEPTED"
    BY <1>8, <1>a DEF SendOffer
  <2>3. Undisturbed(p)
    BY <1>8, <2>1, <2>2, SendOfferEffect DEF Undisturbed
  <2>4. \A q \in Proposals \ {p} : Undisturbed(q)
    BY <1>8, <2>1, SendOfferEffect DEF Undisturbed
  <2> QED
    BY <1>3, <2>3, <2>4
<1>9. ASSUME NEW p \in Proposals, RejectOffer(p) \/ CancelNegotiation(p) \/ OfferExpires(p)
      PROVE  AgreementFollowsOffer'
  <2>1. UNCHANGED <<agreement, proposal>> /\ ~ AcceptOffer(p)
    <3>1. UNCHANGED <<agreement, proposal>>
      BY <1>9 DEF RejectOffer, CancelNegotiation, OfferExpires
    <3>2. AcceptOffer(p) => proposal'[p].status = "ACCEPTED" /\ proposal[p].status # "ACCEPTED"
      BY ActionableOffers, ChosenEffect DEF AcceptOffer, HiringShape
    <3> QED
      BY <3>1, <3>2
  <2>2. \A i \in Rounds : agreement[p][i] = "NONE" /\ offer[p][i].status # "ACCEPTED"
    BY <1>9, <1>a, AnswersEffect
  <2>3. Undisturbed(p)
    <3>1. \A i \in Rounds : offer'[p][i].status # "ACCEPTED"
      BY <1>9, <2>1, <2>2, AnswersEffect
    <3> QED
      BY <2>1, <2>2, <3>1 DEF Undisturbed
  <2>4. \A q \in Proposals \ {p} : Undisturbed(q)
    BY <1>9, <2>1, AnswersEffect DEF Undisturbed
  <2> QED
    BY <1>3, <2>3, <2>4
<1>10. ASSUME NEW p \in Proposals, AcceptOffer(p) PROVE AgreementFollowsOffer'
  <2> DEFINE k == negotiation[p].current
  <2>1. /\ k \in Rounds /\ proposal[p].job \in Jobs /\ proposal[p].freelancer \in Freelancers
        /\ proposal[p].status # "NONE"
    BY <1>10, ActionableOffers DEF AcceptOffer
  <2>2. /\ \A q \in Proposals \ {p} : offer'[q] = offer[q] /\ negotiation'[q] = negotiation[q]
        /\ negotiation'[p].status = "ACCEPTED" /\ negotiation'[p].current = k
        /\ \A i \in Rounds : offer'[p][i].status = IF i = k THEN "ACCEPTED" ELSE offer[p][i].status
        /\ \A i \in Rounds : agreement[p][i] = "NONE" /\ offer[p][i].status # "ACCEPTED"
    BY <1>10, <1>a, AnswersEffect
  <2>3. /\ \A q \in Proposals \ {p} : agreement'[q] = agreement[q]
        /\ \A i \in Rounds : agreement'[p][i] = IF i = k THEN "ACTIVE" ELSE agreement[p][i]
    BY <1>10, <2>1 DEF AcceptOffer, HiringShape, HiringTypeOK
  <2>4. proposal' = Chosen(p) /\ job'[proposal[p].job].hired = proposal[p].freelancer
    <3>1. Raised(job[proposal[p].job], Offered(p)) \in JobRow
      BY <1>10, <2>1, RaisedEffect, ActionableOffers DEF AcceptOffer, HiringShape, HiringTypeOK
    <3> QED
      BY <1>10, <2>1, <3>1 DEF AcceptOffer, HiringShape, HiringTypeOK, JobRow
  <2>5. \A q \in Proposals :
          /\ proposal'[p].status = "ACCEPTED" /\ proposal'[p].job = proposal[p].job
          /\ q # p => (proposal'[q].status = "ACCEPTED" <=> proposal[q].status = "ACCEPTED")
    BY <2>4, ChosenEffect DEF OpenProposal, HiringShape
  <2> HIDE DEF k
  <2>6. Followed(p)'
    BY <2>1, <2>2, <2>3, <2>4, <2>5, HiringAssumption DEF Followed
  <2>7. \A q \in Proposals \ {p} : Undisturbed(q)
    BY <2>2, <2>3, <2>5 DEF Undisturbed
  <2>8. \A q \in Proposals \ {p} : Followed(q)'
    BY <1>1, <1>2, <2>7, UndisturbedFollows
  <2> QED
    BY <2>6, <2>8 DEF AgreementFollowsOffer, Followed
<1>11. ASSUME NEW p \in Proposals, NEW i \in Rounds, SubmitWork(p, i) PROVE AgreementFollowsOffer'
  <2>1. /\ UNCHANGED <<proposal, negotiation, offer>>
        /\ \A q \in Proposals, m \in Rounds : agreement'[q][m] # "NONE" <=> agreement[q][m] # "NONE"
    BY <1>11 DEF SubmitWork, HiringShape, HiringTypeOK
  <2>2. \A q \in Proposals : Undisturbed(q)
    BY <2>1 DEF Undisturbed
  <2> QED
    BY <1>3, <2>2
<1>12. ASSUME NEW j \in Jobs,
              \/ PublishJob(j)
              \/ \E budget \in Amounts :
                   \/ UpdateJob(j, budget)
                   \/ \E c \in Clients : CreateJob(j, c, budget) \/ CreateAndPublishJob(j, c, budget)
       PROVE  AgreementFollowsOffer'
  BY <1>u, <1>12 DEF PublishJob, UpdateJob, CreateJob, CreateAndPublishJob
<1>13. CASE UNCHANGED hiringVars
  BY <1>u, <1>13 DEF hiringVars
<1> QED
  BY <1>4, <1>5, <1>6, <1>7, <1>8, <1>9, <1>10, <1>11, <1>12, <1>13 DEF HiringNext, HiringStep, hVars

\* The shape is inductive.
LEMMA ShapeStays ==
  ASSUME HiringShape, [HiringNext]_hVars
  PROVE  HiringShape'
BY HiringTypesStay, ProposedJobsStay, RoomsStay, LiveOffersStay, AgreementsStay DEF HiringShape

-----------------------------------------------------------------------------
(* Uniqueness and the counter of proposals.                                *)

Live(p) == proposal[p].status \notin {"NONE", "WITHDRAWN"}
LiveOn(j) == {p \in Proposals : proposal[p].job = j /\ Live(p)}

\* A proposal comes to live only by being submitted or by a room that a stale
\* request opens for it, and both look for another of the same freelancer first.
LEMMA ComingToLive ==
  ASSUME HiringShape, [HiringNext]_hVars, NEW p \in Proposals, ~ Live(p), Live(p)'
  PROVE  /\ \A q \in Proposals \ {p} : proposal'[q] = proposal[q]
         /\ ~ \E q \in Proposals \ {p} : /\ Live(q)
                                         /\ proposal[q].freelancer = proposal'[p].freelancer
                                         /\ proposal[q].job = proposal'[p].job
<1> USE DEF HiringShape
<1>1. ASSUME NEW r \in Proposals, NEW f \in Freelancers, NEW j \in Jobs, NEW amount \in Amounts,
             SubmitProposal(r, f, j, amount)
      PROVE  /\ \A q \in Proposals \ {p} : proposal'[q] = proposal[q]
             /\ ~ \E q \in Proposals \ {p} : /\ Live(q)
                                             /\ proposal[q].freelancer = proposal'[p].freelancer
                                             /\ proposal[q].job = proposal'[p].job
  <2>1. \A q \in Proposals \ {r} : proposal'[q] = proposal[q]
    BY <1>1 DEF SubmitProposal, HiringTypeOK
  <2>2. r = p
    BY <2>1 DEF Live
  <2>3. proposal'[p].freelancer = f /\ proposal'[p].job = j
    BY <1>1, <2>2 DEF SubmitProposal, HiringTypeOK
  <2> QED
    BY <1>1, <2>1, <2>2, <2>3 DEF SubmitProposal, AlreadyProposed, Live
<1>2. ASSUME NEW r \in Proposals, OpenNegotiation(r)
      PROVE  /\ \A q \in Proposals \ {p} : proposal'[q] = proposal[q]
             /\ ~ \E q \in Proposals \ {p} : /\ Live(q)
                                             /\ proposal[q].freelancer = proposal'[p].freelancer
                                             /\ proposal[q].job = proposal'[p].job
  <2>1. \A q \in Proposals \ {r} : proposal'[q] = proposal[q]
    BY <1>2 DEF OpenNegotiation, HiringTypeOK
  <2>2. r = p
    BY <2>1 DEF Live
  <2>3. proposal'[p].freelancer = proposal[p].freelancer /\ proposal'[p].job = proposal[p].job
    BY <1>2, <2>2 DEF OpenNegotiation, HiringTypeOK, ProposalRow
  <2> QED
    BY <1>2, <2>1, <2>2, <2>3 DEF OpenNegotiation, AlreadyProposed, Live
<1>3. ASSUME NEW r \in Proposals, WithdrawProposal(r) \/ RejectProposal(r) PROVE FALSE
  <2>1. /\ \A q \in Proposals : q # r => proposal'[q] = proposal[q]
        /\ proposal[r].status \in OpenProposal
    BY <1>3 DEF WithdrawProposal, RejectProposal, OpenProposal, HiringTypeOK
  <2> QED
    BY <2>1 DEF Live, OpenProposal
<1>4. ASSUME NEW r \in Proposals, AcceptOffer(r) PROVE FALSE
  <2>1. proposal' = Chosen(r) /\ proposal[r].status \in {"NEGOTIATING", "REJECTED"}
    BY <1>4, ActionableOffers DEF AcceptOffer
  <2> QED
    BY <2>1, ChosenEffect DEF Live, OpenProposal
<1>u. ASSUME UNCHANGED proposal PROVE FALSE
  BY <1>u DEF Live
<1>5. ASSUME NEW r \in Proposals,
             \/ BeginOpenRoom(r) \/ OpenNegotiationRefused(r) \/ RejectOffer(r)
             \/ CancelNegotiation(r) \/ OfferExpires(r)
             \/ \E side \in Side, amount \in Amounts, final \in BOOLEAN :
                  SendOffer(r, side, amount, final)
             \/ \E i \in Rounds : SubmitWork(r, i)
      PROVE  FALSE
  BY <1>u, <1>5 DEF BeginOpenRoom, OpenNegotiationRefused, RejectOffer, CancelNegotiation,
                    OfferExpires, SendOffer, SubmitWork
<1>6. ASSUME NEW j \in Jobs,
             \/ PublishJob(j)
             \/ \E budget \in Amounts :
                  \/ UpdateJob(j, budget)
                  \/ \E c \in Clients : CreateJob(j, c, budget) \/ CreateAndPublishJob(j, c, budget)
      PROVE  FALSE
  BY <1>u, <1>6 DEF PublishJob, UpdateJob, CreateJob, CreateAndPublishJob
<1>7. CASE UNCHANGED hiringVars
  BY <1>u, <1>7 DEF hiringVars
<1> QED
  BY <1>1, <1>2, <1>3, <1>4, <1>5, <1>6, <1>7 DEF HiringNext, HiringStep, hVars

\* Every step keeps a freelancer's live proposals on a job to one.
LEMMA OneProposalStays ==
  ASSUME HiringShape, OneProposalEach, [HiringNext]_hVars
  PROVE  OneProposalEach'
<1> SUFFICES ASSUME NEW p \in Proposals, NEW q \in Proposals, p # q, Live(p)', Live(q)',
                    proposal'[p].job = proposal'[q].job,
                    proposal'[p].freelancer = proposal'[q].freelancer
             PROVE  FALSE
  BY DEF OneProposalEach, Live
<1>1. Live(p) \/ Live(q)
  BY ComingToLive DEF Live
<1>2. CASE Live(p) /\ Live(q)
  BY <1>2, ProposalsMoveOn DEF ProposalMoves, OneProposalEach, Live
<1>3. CASE ~ Live(p)
  BY <1>1, <1>3, ComingToLive
<1>4. CASE ~ Live(q)
  BY <1>1, <1>4, ComingToLive
<1> QED
  BY <1>2, <1>3, <1>4

\* A set of proposals can be counted.
LEMMA ProposalsFinite ==
  \A S \in SUBSET Proposals : IsFiniteSet(S) /\ Cardinality(S) \in Nat
<1>1. IsFiniteSet(Proposals)
  BY HiringAssumption, FS_Interval DEF Proposals
<1> QED
  BY <1>1, FS_Subset, FS_CardinalityType

\* Every step keeps the counter of a job at or below the number of its live
\* proposals.
LEMMA CountStays ==
  ASSUME HiringShape, CountNotAhead, [HiringNext]_hVars
  PROVE  CountNotAhead'
<1> USE DEF HiringShape
<1>0. \A j \in Jobs : /\ job[j].count \in Nat /\ job[j].count <= Cardinality(LiveOn(j))
                      /\ LiveOn(j) \in SUBSET Proposals
                      /\ IsFiniteSet(LiveOn(j)) /\ Cardinality(LiveOn(j)) \in Nat
                      /\ LiveOn(j)' \in SUBSET Proposals
                      /\ IsFiniteSet(LiveOn(j)') /\ Cardinality(LiveOn(j)') \in Nat
  <2>1. \A j \in Jobs : /\ LiveOn(j) \in SUBSET Proposals
                        /\ LiveOn(j)' \in SUBSET Proposals
    BY DEF LiveOn
  <2>2. \A j \in Jobs : job[j].count \in Nat /\ job[j].count <= Cardinality(LiveOn(j))
    BY DEF HiringTypeOK, JobRow, CountNotAhead, LiveOn, Live
  <2> QED
    BY <2>1, <2>2, ProposalsFinite
<1> SUFFICES ASSUME NEW j \in Jobs PROVE job'[j].count <= Cardinality(LiveOn(j)')
  BY DEF CountNotAhead, LiveOn, Live
\* A step that leaves the counter alone and takes no proposal out of the set.
<1>a. ASSUME job'[j].count = job[j].count, \A p \in Proposals : Live(p) => Live(p)'
      PROVE  job'[j].count <= Cardinality(LiveOn(j)')
  <2>1. \A p \in Proposals : Live(p) => proposal'[p].job = proposal[p].job
    BY ProposalsMoveOn DEF ProposalMoves, Live
  <2>2. LiveOn(j) \subseteq LiveOn(j)'
    BY <1>a, <2>1 DEF LiveOn
  <2>3. Cardinality(LiveOn(j)) <= Cardinality(LiveOn(j)')
    BY <1>0, <2>2, FS_Subset
  <2> QED
    BY <1>0, <1>a, <2>3
<1>1. ASSUME NEW p \in Proposals, NEW f \in Freelancers, NEW k \in Jobs, NEW amount \in Amounts,
             SubmitProposal(p, f, k, amount)
      PROVE  job'[j].count <= Cardinality(LiveOn(j)')
  <2>1. /\ ~ Live(p) /\ proposal'[p].job = k /\ Live(p)'
        /\ \A q \in Proposals \ {p} : proposal'[q] = proposal[q]
    BY <1>1 DEF SubmitProposal, NextKey, HiringTypeOK, Live
  <2>2. job'[j].count = IF j = k THEN job[j].count + 1 ELSE job[j].count
    BY <1>1 DEF SubmitProposal, HiringTypeOK, JobRow
  <2>3. CASE j = k
    <3>1. LiveOn(j)' = LiveOn(j) \cup {p} /\ p \notin LiveOn(j)
      BY <2>1, <2>3 DEF LiveOn, Live
    <3>2. Cardinality(LiveOn(j)') = Cardinality(LiveOn(j)) + 1
      BY <1>0, <3>1, FS_AddElement
    <3> QED
      BY <1>0, <2>2, <2>3, <3>2
  <2>4. CASE j # k
    <3>1. \A q \in Proposals : Live(q) => Live(q)'
      BY <2>1 DEF Live
    <3> QED
      BY <1>a, <2>2, <2>4, <3>1
  <2> QED
    BY <2>3, <2>4
<1>2. ASSUME NEW p \in Proposals, WithdrawProposal(p)
      PROVE  job'[j].count <= Cardinality(LiveOn(j)')
  <2> DEFINE k == proposal[p].job
  <2>1. /\ Live(p) /\ ~ Live(p)' /\ k \in Jobs
        /\ \A q \in Proposals \ {p} : proposal'[q] = proposal[q]
    BY <1>2 DEF WithdrawProposal, HiringTypeOK, ProposalRow, Live, ProposedJobs
  <2>2. job'[j].count =
          IF j = k /\ job[j].count > 0 THEN job[j].count - 1 ELSE job[j].count
    BY <1>2, <2>1 DEF WithdrawProposal, HiringTypeOK, JobRow
  <2>3. CASE j = k
    <3>1. LiveOn(j)' = LiveOn(j) \ {p} /\ p \in LiveOn(j)
      BY <2>1, <2>3 DEF LiveOn, Live
    <3>2. Cardinality(LiveOn(j)') = Cardinality(LiveOn(j)) - 1
      BY <1>0, <3>1, FS_RemoveElement
    <3> HIDE DEF k
    <3> QED
      BY <1>0, <2>2, <2>3, <3>2
  <2>4. CASE j # k
    <3>1. LiveOn(j)' = LiveOn(j)
      BY <2>1, <2>4 DEF LiveOn, Live
    <3> QED
      BY <1>0, <2>2, <2>4, <3>1
  <2> QED
    BY <2>3, <2>4
<1>3. ASSUME NEW p \in Proposals, RejectProposal(p)
      PROVE  job'[j].count <= Cardinality(LiveOn(j)')
  <2>1. /\ \A q \in Proposals \ {p} : proposal'[q] = proposal[q]
        /\ proposal'[p].status = "REJECTED" /\ UNCHANGED job
    BY <1>3 DEF RejectProposal, HiringTypeOK, ProposalRow
  <2> QED
    BY <1>a, <2>1 DEF Live
<1>4. ASSUME NEW p \in Proposals, OpenNegotiation(p)
      PROVE  job'[j].count <= Cardinality(LiveOn(j)')
  <2>1. /\ \A q \in Proposals \ {p} : proposal'[q] = proposal[q]
        /\ proposal'[p].status = "NEGOTIATING"
    BY <1>4 DEF OpenNegotiation, HiringTypeOK, ProposalRow
  <2>2. job'[j].count = job[j].count
    BY <1>4 DEF OpenNegotiation, HiringTypeOK, JobRow
  <2> QED
    BY <1>a, <2>1, <2>2 DEF Live
<1>5. ASSUME NEW p \in Proposals, AcceptOffer(p)
      PROVE  job'[j].count <= Cardinality(LiveOn(j)')
  <2>1. \A q \in Proposals : Live(q) => Live(q)'
    <3>1. proposal' = Chosen(p)
      BY <1>5 DEF AcceptOffer
    <3> QED
      BY <3>1, ChosenEffect DEF Live
  <2>2. job'[j].count = job[j].count
    <3> DEFINE k == proposal[p].job
    <3>1. k \in Jobs /\ job[k] \in JobRow /\ Offered(p) \in Nat
      BY <1>5, ActionableOffers DEF AcceptOffer, HiringTypeOK
    <3> DEFINE row == Raised(job[k], Offered(p))
    <3>2. job' = [job EXCEPT ![k] = [row EXCEPT !.hired = proposal[p].freelancer,
                                                !.status = "HIRED"]]
      BY <1>5 DEF AcceptOffer
    <3>3. row \in JobRow /\ row.count = job[k].count
      BY <3>1, RaisedEffect
    <3> HIDE DEF k, row
    <3> QED
      BY <3>1, <3>2, <3>3 DEF HiringTypeOK, JobRow
  <2> QED
    BY <1>a, <2>1, <2>2
<1>u. ASSUME UNCHANGED proposal, job'[j].count = job[j].count
      PROVE  job'[j].count <= Cardinality(LiveOn(j)')
  BY <1>a, <1>u DEF Live
<1>6. ASSUME NEW p \in Proposals,
             \/ BeginOpenRoom(p) \/ OpenNegotiationRefused(p) \/ RejectOffer(p)
             \/ CancelNegotiation(p) \/ OfferExpires(p)
             \/ \E side \in Side, amount \in Amounts, final \in BOOLEAN :
                  SendOffer(p, side, amount, final)
             \/ \E i \in Rounds : SubmitWork(p, i)
      PROVE  job'[j].count <= Cardinality(LiveOn(j)')
  <2>1. UNCHANGED proposal /\ job'[j].count = job[j].count
    <3>1. ASSUME NEW i \in Rounds, SubmitWork(p, i)
          PROVE  UNCHANGED proposal /\ job'[j].count = job[j].count
      BY <3>1 DEF SubmitWork, HiringTypeOK, JobRow
    <3>2. ASSUME \/ BeginOpenRoom(p) \/ OpenNegotiationRefused(p) \/ RejectOffer(p)
                 \/ CancelNegotiation(p) \/ OfferExpires(p)
                 \/ \E side \in Side, amount \in Amounts, final \in BOOLEAN :
                      SendOffer(p, side, amount, final)
          PROVE  UNCHANGED <<proposal, job>>
      BY <3>2 DEF BeginOpenRoom, OpenNegotiationRefused, RejectOffer, CancelNegotiation,
                  OfferExpires, SendOffer
    <3> QED
      BY <1>6, <3>1, <3>2
  <2> QED
    BY <1>u, <2>1
<1>7. ASSUME NEW k \in Jobs,
             \/ PublishJob(k)
             \/ \E budget \in Amounts :
                  \/ UpdateJob(k, budget)
                  \/ \E c \in Clients : CreateJob(k, c, budget) \/ CreateAndPublishJob(k, c, budget)
      PROVE  job'[j].count <= Cardinality(LiveOn(j)')
  <2>1. UNCHANGED proposal /\ job'[j].count = job[j].count
    <3>1. UNCHANGED proposal
      BY <1>7 DEF PublishJob, UpdateJob, CreateJob, CreateAndPublishJob
    <3>2. ASSUME PublishJob(k) PROVE job'[j].count = job[j].count
      BY <3>2 DEF PublishJob, HiringTypeOK, JobRow
    <3>3. ASSUME NEW budget \in Amounts, UpdateJob(k, budget)
          PROVE  job'[j].count = job[j].count
      BY <3>3 DEF UpdateJob, HiringTypeOK, JobRow
    <3>4. ASSUME NEW budget \in Amounts, NEW c \in Clients,
                 CreateJob(k, c, budget) \/ CreateAndPublishJob(k, c, budget)
          PROVE  job'[j].count = job[j].count
      <4>1. CASE CreateJob(k, c, budget)
        BY <4>1 DEF CreateJob, HiringTypeOK, JobRow
      <4>2. CASE CreateAndPublishJob(k, c, budget)
        BY <4>2 DEF CreateAndPublishJob, HiringTypeOK, JobRow
      <4> QED
        BY <3>4, <4>1, <4>2
    <3> QED
      BY <1>7, <3>1, <3>2, <3>3, <3>4
  <2> QED
    BY <1>u, <2>1
<1>8. CASE UNCHANGED hiringVars
  BY <1>u, <1>8 DEF hiringVars
<1> QED
  BY <1>1, <1>2, <1>3, <1>4, <1>5, <1>6, <1>7, <1>8 DEF HiringNext, HiringStep, hVars

-----------------------------------------------------------------------------
(* The money behind the jobs.                                              *)

\* Every step keeps unpaid agreements within the reservation of their job: the
\* offer of an agreement keeps its amount, the reservation does not shrink, and
\* accepting an offer raises it to the offer.
LEMMA FundingStays ==
  ASSUME HiringShape, AgreementFunded, [HiringNext]_hVars
  PROVE  AgreementFunded'
<1> USE DEF HiringShape
<1>0. HiringTypeOK'
  BY HiringTypesStay
<1>1. \A q \in Proposals : ProposalMoves(q)
  BY ProposalsMoveOn
<1>2. \A j \in Jobs : JobMoves(j)
  BY JobsMoveOn
\* An agreement that was owed before, for the same amount, on the same job.
<1>3. ASSUME NEW p \in Proposals, NEW i \in Rounds, agreement[p][i] \in Unpaid,
             offer'[p][i].amount = offer[p][i].amount
      PROVE  offer'[p][i].amount <= job'[proposal'[p].job].reserved
  <2> DEFINE j == proposal[p].job
  <2>1. offer[p][i].amount <= job[j].reserved
    BY <1>3 DEF AgreementFunded
  <2>2. proposal[p].status = "ACCEPTED"
    BY <1>3 DEF AgreementFollowsOffer, Unpaid
  <2>3. j \in Jobs /\ proposal'[p].job = j
    BY <1>1, <2>2 DEF ProposedJobs, ProposalMoves
  <2>4. /\ job'[j].reserved >= job[j].reserved
        /\ offer[p][i].amount \in Nat /\ job[j].reserved \in Nat /\ job'[j].reserved \in Nat
    BY <1>0, <1>2, <2>3 DEF JobMoves, HiringTypeOK, OfferRow, JobRow
  <2> HIDE DEF j
  <2> QED
    BY <1>3, <2>1, <2>3, <2>4
\* Where no agreement was made and no agreed offer touched, nothing new is owed.
<1>4. ASSUME \A p \in Proposals, i \in Rounds :
               agreement'[p][i] \in Unpaid =>
                 agreement[p][i] \in Unpaid /\ offer'[p][i].amount = offer[p][i].amount
      PROVE  AgreementFunded'
  BY <1>3, <1>4 DEF AgreementFunded
<1>u. ASSUME UNCHANGED <<offer, agreement>> PROVE AgreementFunded'
  BY <1>4, <1>u
<1>5. ASSUME NEW p \in Proposals, OpenNegotiation(p) PROVE AgreementFunded'
  <2>1. /\ \A i \in Rounds : agreement[p][i] = "NONE"
        /\ \A q \in Proposals \ {p} : offer'[q] = offer[q]
        /\ UNCHANGED agreement
    <3>1. negotiation[p].status = "NONE" /\ \A q \in Proposals \ {p} : offer'[q] = offer[q]
      BY <1>5, OpenNegotiationEffect
    <3> QED
      BY <1>5, <3>1 DEF OpenNegotiation, AgreementFollowsOffer
  <2> QED
    BY <1>4, <2>1 DEF Unpaid
<1>6. ASSUME NEW p \in Proposals, NEW side \in Side, NEW amount \in Amounts,
             NEW final \in BOOLEAN, SendOffer(p, side, amount, final)
      PROVE  AgreementFunded'
  <2>1. /\ negotiation[p].status = "ACTIVE"
        /\ \A q \in Proposals \ {p} : offer'[q] = offer[q]
        /\ UNCHANGED agreement
    BY <1>6, SendOfferEffect DEF SendOffer
  <2>2. \A i \in Rounds : agreement[p][i] = "NONE"
    BY <2>1 DEF AgreementFollowsOffer
  <2> QED
    BY <1>4, <2>1, <2>2 DEF Unpaid
<1>7. ASSUME NEW p \in Proposals, RejectOffer(p) \/ CancelNegotiation(p) \/ OfferExpires(p)
      PROVE  AgreementFunded'
  <2>1. /\ \A q \in Proposals \ {p} : offer'[q] = offer[q]
        /\ \A i \in Rounds : offer'[p][i].amount = offer[p][i].amount
    BY <1>7, AnswersEffect
  <2>2. UNCHANGED agreement
    BY <1>7 DEF RejectOffer, CancelNegotiation, OfferExpires
  <2> QED
    BY <1>4, <2>1, <2>2
<1>8. ASSUME NEW p \in Proposals, AcceptOffer(p) PROVE AgreementFunded'
  <2> DEFINE k == negotiation[p].current
             j == proposal[p].job
             row == Raised(job[j], Offered(p))
  <2>1. /\ k \in Rounds /\ j \in Jobs /\ Offered(p) \in Nat
        /\ \A i \in Rounds : agreement[p][i] = "NONE"
        /\ job[j] \in JobRow /\ proposal[p].status # "NONE"
    BY <1>8, ActionableOffers DEF AcceptOffer, HiringTypeOK
  <2>2. /\ \A q \in Proposals \ {p} : offer'[q] = offer[q]
        /\ \A i \in Rounds : offer'[p][i].amount = offer[p][i].amount
    BY <1>8, AnswersEffect
  <2>3. /\ \A q \in Proposals \ {p} : agreement'[q] = agreement[q]
        /\ \A i \in Rounds : i # k => agreement'[p][i] = "NONE"
    BY <1>8, <2>1 DEF AcceptOffer, HiringTypeOK
  <2>4. row \in JobRow /\ row.reserved >= Offered(p)
    <3>1. /\ row \in JobRow /\ job[j].reserved \in Nat
          /\ row.reserved = IF Offered(p) > job[j].reserved THEN Offered(p) ELSE job[j].reserved
      BY <2>1, RaisedEffect DEF JobRow
    <3> HIDE DEF row, j
    <3> QED
      BY <2>1, <3>1
  <2>5. job' = [job EXCEPT ![j] = [row EXCEPT !.hired = proposal[p].freelancer,
                                              !.status = "HIRED"]]
    BY <1>8 DEF AcceptOffer
  <2>6. proposal'[p].job = j
    BY <1>1, <2>1 DEF ProposalMoves
  <2>7. offer'[p][k].amount <= job'[proposal'[p].job].reserved
    <3>1. offer'[p][k].amount = Offered(p)
      BY <2>1, <2>2 DEF Offered
    <3> HIDE DEF row, j, k
    <3>2. job'[j].reserved = row.reserved
      BY <2>1, <2>4, <2>5 DEF HiringTypeOK, JobRow
    <3> QED
      BY <2>4, <2>6, <3>1, <3>2
  <2> HIDE DEF row, j, k
  <2>8. ASSUME NEW q \in Proposals, NEW i \in Rounds, agreement'[q][i] \in Unpaid
        PROVE  offer'[q][i].amount <= job'[proposal'[q].job].reserved
    <3>1. CASE q # p
      BY <1>3, <2>2, <2>3, <2>8, <3>1
    <3>2. CASE q = p
      BY <2>3, <2>7, <2>8, <3>2 DEF Unpaid
    <3> QED
      BY <3>1, <3>2
  <2> QED
    BY <2>8 DEF AgreementFunded
<1>9. ASSUME NEW p \in Proposals, NEW i \in Rounds, SubmitWork(p, i) PROVE AgreementFunded'
  BY <1>4, <1>9 DEF SubmitWork, HiringTypeOK, Unpaid
<1>10. ASSUME NEW p \in Proposals,
              \/ WithdrawProposal(p) \/ RejectProposal(p) \/ BeginOpenRoom(p)
              \/ OpenNegotiationRefused(p)
              \/ \E f \in Freelancers, j \in Jobs, amount \in Amounts : SubmitProposal(p, f, j, amount)
       PROVE  AgreementFunded'
  BY <1>u, <1>10 DEF WithdrawProposal, RejectProposal, BeginOpenRoom, OpenNegotiationRefused,
                     SubmitProposal
<1>11. ASSUME NEW j \in Jobs,
              \/ PublishJob(j)
              \/ \E budget \in Amounts :
                   \/ UpdateJob(j, budget)
                   \/ \E c \in Clients : CreateJob(j, c, budget) \/ CreateAndPublishJob(j, c, budget)
       PROVE  AgreementFunded'
  BY <1>u, <1>11 DEF PublishJob, UpdateJob, CreateJob, CreateAndPublishJob
<1>12. CASE UNCHANGED hiringVars
  BY <1>u, <1>12 DEF hiringVars
<1> HIDE DEF HiringShape
<1> QED
  BY <1>5, <1>6, <1>7, <1>8, <1>9, <1>10, <1>11, <1>12 DEF HiringNext, HiringStep, hVars

\* What the jobs of u keep reserved.
JobSum(u) == SumTo(ReservedFor(u), MaxJobs)

\* The sum is an integer.
LEMMA JobSumInt ==
  ASSUME HiringTypeOK, NEW u
  PROVE  JobSum(u) \in Int
<1>1. ReservedFor(u) \in [1..MaxJobs -> Int] /\ MaxJobs \in Nat
  BY HiringAssumption DEF ReservedFor, HiringTypeOK, JobRow, Jobs
<1> QED
  BY <1>1, SumToInt DEF JobSum

\* When one job's row changes, the sum changes by that row's part.
LEMMA JobSumUpdate ==
  ASSUME HiringTypeOK, HiringTypeOK', NEW u \in Users, NEW j \in Jobs,
         \A k \in Jobs \ {j} : ReservedFor(u)'[k] = ReservedFor(u)[k]
  PROVE  /\ JobSum(u) \in Int
         /\ JobSum(u)' = JobSum(u) - ReservedFor(u)[j] + ReservedFor(u)'[j]
<1> DEFINE f == ReservedFor(u)
           g == ReservedFor(u)'
<1>1. f \in [1..MaxJobs -> Int] /\ g \in [1..MaxJobs -> Int] /\ MaxJobs \in Nat
  BY HiringAssumption DEF ReservedFor, HiringTypeOK, JobRow, Jobs
<1>2. j \in 1..MaxJobs /\ \A k \in 1..MaxJobs : k # j => g[k] = f[k]
  BY DEF Jobs
<1>3. JobSum(u) = SumTo(f, MaxJobs) /\ JobSum(u)' = SumTo(g, MaxJobs)
  BY DEF JobSum
<1> HIDE DEF f, g
<1>4. g = [f EXCEPT ![j] = g[j]] /\ g[j] \in Int
  BY <1>1, <1>2
<1>5. SumTo([f EXCEPT ![j] = g[j]], MaxJobs) = SumTo(f, MaxJobs) - f[j] + g[j]
  BY <1>1, <1>2, <1>4, SumToUpdate
<1>6. SumTo(f, MaxJobs) \in Int
  BY <1>1, SumToInt
<1> QED
  BY <1>3, <1>4, <1>5, <1>6 DEF f, g

\* What u's wallet keeps reserved beyond its pending withdrawals and its jobs.
Gap(u) == wallet[u].reserved - WithdrawalSum(u, "PENDING") - JobSum(u)

\* The three are integers, and ReservedBacksCommitments says that the gap is zero.
LEMMA GapTypes ==
  ASSUME HiringTypeOK
  PROVE  /\ \A u \in Users : /\ wallet[u].reserved \in Nat
                              /\ WithdrawalSum(u, "PENDING") \in Int /\ JobSum(u) \in Int
         /\ ReservedBacksCommitments <=> \A u \in Users : Gap(u) = 0
<1>1. ASSUME NEW u \in Users
      PROVE  /\ wallet[u].reserved \in Nat
             /\ WithdrawalSum(u, "PENDING") \in Int /\ JobSum(u) \in Int
  BY SumTypes, JobSumInt DEF HiringTypeOK, TypeOK, Wallet
<1>2. ASSUME NEW u \in Users
      PROVE  wallet[u].reserved = WithdrawalSum(u, "PENDING") + SumTo(ReservedFor(u), MaxJobs)
               <=> Gap(u) = 0
  <2> DEFINE r == wallet[u].reserved
             w == WithdrawalSum(u, "PENDING")
             s == JobSum(u)
  <2>1. r \in Nat /\ w \in Int /\ s \in Int
    BY <1>1
  <2>2. Gap(u) = r - w - s /\ s = SumTo(ReservedFor(u), MaxJobs)
    BY DEF Gap, JobSum
  <2> HIDE DEF r, w, s
  <2>3. r = w + s <=> r - w - s = 0
    BY <2>1
  <2> QED
    BY <2>2, <2>3 DEF r, w
<1> QED
  BY <1>1, <1>2 DEF ReservedBacksCommitments

\* The same after a step, when it kept the types.
LEMMA GapTypesAfter ==
  ASSUME HiringTypeOK', NEW u \in Users
  PROVE  /\ wallet'[u].reserved \in Nat
         /\ WithdrawalSum(u, "PENDING")' \in Int /\ JobSum(u)' \in Int
<1>1. wallet'[u].reserved \in Nat
  BY DEF HiringTypeOK, TypeOK, Wallet
<1>2. WithdrawalSum(u, "PENDING")' \in Int
  <2>1. Table(withdrawal', MaxWithdrawals) /\ MaxWithdrawals \in Nat
    BY ConstantsAssumption DEF Table, HiringTypeOK, TypeOK, Withdrawals, WithdrawalRow
  <2>2. SumTo(Share(withdrawal', u, "PENDING"), MaxWithdrawals) \in Int
    BY <2>1, ShareType, SumToInt
  <2> QED
    BY <2>2 DEF WithdrawalSum
<1>3. JobSum(u)' \in Int
  <2>1. ReservedFor(u)' \in [1..MaxJobs -> Int] /\ MaxJobs \in Nat
    BY HiringAssumption DEF ReservedFor, HiringTypeOK, JobRow, Jobs
  <2>2. SumTo(ReservedFor(u)', MaxJobs) \in Int
    BY <2>1, SumToInt
  <2> QED
    BY <2>2 DEF JobSum
<1> QED
  BY <1>1, <1>2, <1>3

\* A reservation for a job: the client's reserved balance and the job's row grow
\* by the same amount.
LEMMA ReservationBacked ==
  ASSUME HiringTypeOK, HiringTypeOK', NEW u \in Users,
         NEW j \in Jobs, NEW c \in Users, NEW n \in Nat, NEW kind,
         Move(c, "available", "reserved", n, kind), UNCHANGED books,
         \A k \in Jobs \ {j} : job'[k] = job[k],
         job[j].client = c \/ job[j].reserved = 0,
         job'[j].client = c, job'[j].reserved = job[j].reserved + n
  PROVE  Gap(u)' = Gap(u)
<1>1. WithdrawalSum(u, "PENDING")' = WithdrawalSum(u, "PENDING") /\ WithdrawalSum(u, "PENDING") \in Int
  BY SumsUnchanged, SumTypes DEF books, HiringTypeOK
<1>2. wallet[u].reserved \in Int
  BY DEF HiringTypeOK, TypeOK, Wallet
<1>3. wallet'[u].reserved = wallet[u].reserved + IF u = c THEN n ELSE 0
  <2>1. /\ \A v \in Users : v # c => wallet'[v] = wallet[v]
        /\ wallet'[c].reserved = wallet[c].reserved + Net("reserved", "available", "reserved", n)
    BY MoveEffect DEF Bucket, HiringTypeOK
  <2>2. Net("reserved", "available", "reserved", n) = n
    BY DEF Net
  <2> QED
    BY <1>2, <2>1, <2>2
<1>4. /\ JobSum(u) \in Int
      /\ JobSum(u)' = JobSum(u) - ReservedFor(u)[j] + ReservedFor(u)'[j]
  <2>1. \A k \in Jobs \ {j} : ReservedFor(u)'[k] = ReservedFor(u)[k]
    BY DEF ReservedFor
  <2> QED
    BY <2>1, JobSumUpdate
<1>5. /\ job[j].reserved \in Nat
      /\ ReservedFor(u)[j] = IF u = job[j].client THEN job[j].reserved ELSE 0
      /\ ReservedFor(u)'[j] = IF u = c THEN job[j].reserved + n ELSE 0
  BY DEF ReservedFor, HiringTypeOK, JobRow
<1>6. JobSum(u)' = JobSum(u) + IF u = c THEN n ELSE 0
  <2>1. CASE u = c
    <3>1. ReservedFor(u)[j] = job[j].reserved /\ ReservedFor(u)'[j] = job[j].reserved + n
      BY <1>5, <2>1
    <3> QED
      BY <1>4, <1>5, <2>1, <3>1
  <2>2. CASE u # c
    <3>1. ReservedFor(u)[j] = 0 /\ ReservedFor(u)'[j] = 0
      BY <1>5, <2>2
    <3> QED
      BY <1>4, <2>2, <3>1
  <2> QED
    BY <2>1, <2>2
<1>7. CASE u = c
  BY <1>1, <1>2, <1>3, <1>4, <1>6, <1>7 DEF Gap
<1>8. CASE u # c
  BY <1>1, <1>2, <1>3, <1>4, <1>6, <1>8 DEF Gap
<1> QED
  BY <1>7, <1>8

\* A step that moves no money and leaves every job's part of the sum as it is.
LEMMA CommitmentsUntouched ==
  ASSUME UNCHANGED vars, NEW u \in Users,
         \A k \in Jobs : \/ job'[k].client = job[k].client /\ job'[k].reserved = job[k].reserved
                         \/ job'[k].reserved = 0 /\ job[k].reserved = 0
  PROVE  Gap(u)' = Gap(u)
<1>1. ReservedFor(u)' = ReservedFor(u)
  BY DEF ReservedFor
<1>2. WithdrawalSum(u, "PENDING")' = WithdrawalSum(u, "PENDING") /\ UNCHANGED wallet
  BY SumsUnchanged DEF vars
<1> QED
  BY <1>1, <1>2 DEF Gap, JobSum

\* Every step keeps what a wallet reserves as far from what its pending
\* withdrawals and its jobs hold as it was.
LEMMA GapStays ==
  ASSUME HiringShape, [HiringNext]_hVars, NEW u \in Users
  PROVE  Gap(u)' = Gap(u)
<1> USE ConstantsAssumption, HiringAssumption
<1>0. /\ HiringTypeOK /\ HiringTypeOK' /\ JobStages
      /\ \A j \in Jobs : job[j] \in JobRow
  BY HiringTypesStay DEF HiringShape, HiringTypeOK
<1>1. ASSUME NEW j \in Jobs, NEW c \in Clients, NEW budget \in Amounts, CreateJob(j, c, budget)
      PROVE  Gap(u)' = Gap(u)
  <2>1. job[j].reserved = 0
    BY <1>0, <1>1 DEF CreateJob, NextKey, JobStages, Unpublished
  <2>2. \A k \in Jobs : \/ job'[k].client = job[k].client /\ job'[k].reserved = job[k].reserved
                        \/ job'[k].reserved = 0 /\ job[k].reserved = 0
    BY <1>0, <1>1, <2>1 DEF CreateJob, HiringTypeOK, JobRow
  <2> QED
    BY <1>0, <1>1, <2>2, CommitmentsUntouched DEF CreateJob
<1>2. ASSUME NEW j \in Jobs, NEW c \in Clients, NEW budget \in Amounts,
             CreateAndPublishJob(j, c, budget)
      PROVE  Gap(u)' = Gap(u)
  <2>1. job[j].reserved = 0
    BY <1>0, <1>2 DEF CreateAndPublishJob, NextKey, JobStages, Unpublished
  <2>2. /\ \A k \in Jobs \ {j} : job'[k] = job[k]
        /\ job'[j].client = c /\ job'[j].reserved = job[j].reserved + budget
    BY <1>0, <1>2, <2>1 DEF CreateAndPublishJob, HiringTypeOK, JobRow
  <2>3. Move(c, "available", "reserved", budget, "BUDGET_RESERVATION") /\ UNCHANGED books
    BY <1>2 DEF CreateAndPublishJob
  <2> QED
    BY <1>0, <2>1, <2>2, <2>3, ReservationBacked
<1>3. ASSUME NEW j \in Jobs, PublishJob(j) PROVE Gap(u)' = Gap(u)
  <2>1. job[j].reserved = 0 /\ job[j].client \in Users /\ job[j].budget \in Nat
    BY <1>0, <1>3, JobsHaveClients DEF PublishJob, JobStages, Unpublished, JobRow
  <2>2. /\ \A k \in Jobs \ {j} : job'[k] = job[k]
        /\ job'[j].client = job[j].client /\ job'[j].reserved = job[j].reserved + job[j].budget
    BY <1>0, <1>3, <2>1 DEF PublishJob, HiringTypeOK, JobRow
  <2>3. /\ Move(job[j].client, "available", "reserved", job[j].budget, "BUDGET_RESERVATION")
        /\ UNCHANGED books
    BY <1>3 DEF PublishJob
  <2> QED
    BY <1>0, <2>1, <2>2, <2>3, ReservationBacked
\* A step that writes neither the client nor the reservation of a job.
<1>4. ASSUME UNCHANGED vars,
             \A k \in Jobs : job'[k].client = job[k].client /\ job'[k].reserved = job[k].reserved
      PROVE  Gap(u)' = Gap(u)
  BY <1>0, <1>4, CommitmentsUntouched
<1>5. ASSUME NEW j \in Jobs, NEW budget \in Amounts, UpdateJob(j, budget)
      PROVE  Gap(u)' = Gap(u)
  BY <1>0, <1>4, <1>5 DEF UpdateJob, HiringTypeOK, JobRow
<1>6. ASSUME NEW p \in Proposals, NEW f \in Freelancers, NEW j \in Jobs, NEW amount \in Amounts,
             SubmitProposal(p, f, j, amount)
      PROVE  Gap(u)' = Gap(u)
  BY <1>0, <1>4, <1>6 DEF SubmitProposal, HiringTypeOK, JobRow
<1>7. ASSUME NEW p \in Proposals, WithdrawProposal(p) PROVE Gap(u)' = Gap(u)
  BY <1>0, <1>4, <1>7 DEF WithdrawProposal, HiringTypeOK, JobRow
<1>8. ASSUME NEW p \in Proposals, OpenNegotiation(p) PROVE Gap(u)' = Gap(u)
  BY <1>0, <1>4, <1>8 DEF OpenNegotiation, HiringTypeOK, JobRow
<1>9. ASSUME NEW p \in Proposals, NEW i \in Rounds, SubmitWork(p, i)
      PROVE  Gap(u)' = Gap(u)
  BY <1>0, <1>4, <1>9 DEF SubmitWork, HiringTypeOK, JobRow
<1>10. ASSUME NEW p \in Proposals, AcceptOffer(p) PROVE Gap(u)' = Gap(u)
  <2> DEFINE j == proposal[p].job
             row == Raised(job[j], Offered(p))
  <2>1. /\ j \in Jobs /\ Offered(p) \in Nat /\ job[j] \in JobRow
        /\ job[j].client \in Users /\ JobOf(p) = job[j]
    BY <1>0, <1>10, ActionableOffers DEF AcceptOffer, JobOf
  <2>2. /\ row \in JobRow /\ row.client = job[j].client /\ job[j].reserved \in Nat
        /\ row.reserved = IF Offered(p) > job[j].reserved THEN Offered(p) ELSE job[j].reserved
    BY <2>1, RaisedEffect DEF JobRow
  <2>3. job' = [job EXCEPT ![j] = [row EXCEPT !.hired = proposal[p].freelancer,
                                              !.status = "HIRED"]]
    BY <1>10 DEF AcceptOffer
  <2>4. Shortfall(p) = Offered(p) - job[j].reserved
    BY <2>1 DEF Shortfall
  <2>5. UNCHANGED books /\ ReserveShortfall(p)
    BY <1>10 DEF AcceptOffer
  <2> HIDE DEF j, row
  <2>6. /\ \A k \in Jobs \ {j} : job'[k] = job[k]
        /\ job'[j].client = job[j].client /\ job'[j].reserved = row.reserved
    BY <1>0, <2>1, <2>2, <2>3 DEF HiringTypeOK, JobRow
  <2>7. CASE Shortfall(p) > 0
    <3>1. Shortfall(p) \in Nat /\ job'[j].reserved = job[j].reserved + Shortfall(p)
      BY <2>1, <2>2, <2>4, <2>6, <2>7
    <3>2. Move(job[j].client, "available", "reserved", Shortfall(p), "BUDGET_RESERVATION")
      BY <2>1, <2>2, <2>4, <2>5, <2>7 DEF ReserveShortfall
    <3> QED
      BY <1>0, <2>1, <2>5, <2>6, <3>1, <3>2, ReservationBacked
  <2>8. CASE ~ (Shortfall(p) > 0)
    <3>1. UNCHANGED vars
      BY <2>5, <2>8 DEF ReserveShortfall, books, vars
    <3>2. job'[j].reserved = job[j].reserved
      BY <2>1, <2>2, <2>4, <2>6, <2>8
    <3> QED
      BY <1>4, <2>6, <3>1, <3>2
  <2> QED
    BY <2>7, <2>8
<1>11. ASSUME NEW p \in Proposals,
              \/ RejectProposal(p) \/ BeginOpenRoom(p) \/ OpenNegotiationRefused(p)
              \/ RejectOffer(p) \/ CancelNegotiation(p) \/ OfferExpires(p)
              \/ \E side \in Side, amount \in Amounts, final \in BOOLEAN :
                   SendOffer(p, side, amount, final)
       PROVE  Gap(u)' = Gap(u)
  BY <1>4, <1>11 DEF RejectProposal, BeginOpenRoom, OpenNegotiationRefused, RejectOffer,
                     CancelNegotiation, OfferExpires, SendOffer
<1>12. CASE [Next]_vars /\ UNCHANGED job
  <2> DEFINE r == wallet[u].reserved
             w == WithdrawalSum(u, "PENDING")
             s == JobSum(u)
  <2>1. r' - w' = r - w
    BY <1>0, <1>12, RequestsKeepDistance DEF HiringShape, HiringTypeOK
  <2>2. s' = s
    BY <1>12 DEF JobSum, ReservedFor
  <2>3. Gap(u)' = (r' - w') - s' /\ Gap(u) = (r - w) - s
    BY DEF Gap
  <2> HIDE DEF r, w, s
  <2> QED
    BY <2>1, <2>2, <2>3
<1> QED
  BY <1>1, <1>2, <1>3, <1>5, <1>6, <1>7, <1>8, <1>9, <1>10, <1>11, <1>12
     DEF HiringNext, HiringStep, hVars, hiringVars

\* So it stays equal once it is.
LEMMA CommitmentsStay ==
  ASSUME HiringShape, ReservedBacksCommitments, [HiringNext]_hVars
  PROVE  ReservedBacksCommitments'
<1>1. HiringTypeOK /\ HiringTypeOK'
  BY HiringTypesStay DEF HiringShape
<1> SUFFICES ASSUME NEW u \in Users
             PROVE  wallet'[u].reserved = WithdrawalSum(u, "PENDING")' + JobSum(u)'
  BY DEF ReservedBacksCommitments, JobSum
<1> DEFINE r == wallet'[u].reserved
           w == WithdrawalSum(u, "PENDING")'
           s == JobSum(u)'
<1>2. r - w - s = 0
  <2>1. Gap(u)' = 0
    BY <1>1, GapTypes, GapStays
  <2> QED
    BY <2>1 DEF Gap
<1>3. r \in Nat /\ w \in Int /\ s \in Int
  BY <1>1, GapTypesAfter
<1> HIDE DEF r, w, s
<1>4. r = w + s
  BY <1>2, <1>3
<1> QED
  BY <1>4 DEF r, w, s

-----------------------------------------------------------------------------
(* The theorems.                                                           *)

\* Nothing is filed, reserved or agreed at the start.
LEMMA HiringStarts == HiringInit => HiringIInv
<1> SUFFICES ASSUME HiringInit PROVE HiringIInv
  OBVIOUS
<1> USE ConstantsAssumption, HiringAssumption DEF HiringInit
<1>1. TypeOK /\ FiledRows /\ ReservedBacksWithdrawals
  BY InitIInv DEF IInv
<1>2. job \in [Jobs -> JobRow]
  BY DEF JobRow, JobStatus
<1>3. proposal \in [Proposals -> ProposalRow] /\ negotiation \in [Proposals -> NegotiationRow]
  BY DEF ProposalRow, ProposalStatus, NegotiationRow
<1>4. /\ offer \in [Proposals -> [Rounds -> OfferRow]]
      /\ agreement \in [Proposals -> [Rounds -> AgreementStatus]]
  BY DEF OfferRow, Side, OfferStatus, AgreementStatus
<1>5. HiringTypeOK
  BY <1>1, <1>2, <1>3, <1>4 DEF HiringTypeOK
<1>6. JobStages /\ ProposedJobs /\ RoomsOfProposals
  BY DEF JobStages, ProposedJobs, RoomsOfProposals, Unpublished
<1>7. OneLiveOffer /\ AgreementFollowsOffer /\ AgreementFunded /\ OneProposalEach
  BY DEF OneLiveOffer, AgreementFollowsOffer, AgreementFunded, Unpaid, OneProposalEach
<1>8. CountNotAhead
  <2>1. \A j \in Jobs : LiveOn(j) \in SUBSET Proposals
    BY DEF LiveOn
  <2>2. \A j \in Jobs : Cardinality(LiveOn(j)) \in Nat
    BY <2>1, ProposalsFinite
  <2>3. \A j \in Jobs : job[j].count = 0
    OBVIOUS
  <2> QED
    BY <2>2, <2>3 DEF CountNotAhead, LiveOn, Live
<1>9. ReservedBacksCommitments
  <2>1. \A u \in Users : ReservedFor(u) = [j \in 1..MaxJobs |-> 0]
    BY DEF ReservedFor, Jobs
  <2>2. SumTo([j \in 1..MaxJobs |-> 0], MaxJobs) = 0
    BY SumToZero
  <2>3. \A u \in Users : /\ wallet[u].reserved = WithdrawalSum(u, "PENDING")
                         /\ wallet[u].reserved \in Int
    BY <1>1 DEF ReservedBacksWithdrawals, TypeOK, Wallet
  <2> QED
    BY <2>1, <2>2, <2>3 DEF ReservedBacksCommitments
<1> QED
  BY <1>1, <1>5, <1>6, <1>7, <1>8, <1>9 DEF HiringIInv, HiringShape

\* HiringIInv is inductive.
LEMMA HiringStays == HiringIInv /\ [HiringNext]_hVars => HiringIInv'
BY ShapeStays, CommitmentsStay, FundingStays, OneProposalStays, CountStays DEF HiringIInv

\* The invariant of every behaviour, from the job's draft to its agreement.
THEOREM HiringInductive == HiringSpec => []HiringIInv
BY HiringStarts, HiringStays, PTL DEF HiringSpec

\* Every table holds its rows and no balance or reservation is negative, for
\* any number of clients, jobs, proposals and offers.
THEOREM HiringTypesKept == HiringSpec => []HiringTypeOK
<1>1. HiringIInv => HiringTypeOK
  BY DEF HiringIInv, HiringShape
<1> QED
  BY <1>1, HiringInductive, PTL

\* What a wallet keeps reserved is always what its pending withdrawals and its
\* jobs hold together: no publication, acceptance or withdrawal eats into what
\* another has reserved.
THEOREM ReservationsAlwaysBacked == HiringSpec => []ReservedBacksCommitments
<1>1. HiringIInv => ReservedBacksCommitments
  BY DEF HiringIInv
<1> QED
  BY <1>1, HiringInductive, PTL

\* A negotiation always has at most one offer waiting for an answer, the current
\* one, and none once it is closed.
THEOREM AlwaysOneLiveOffer == HiringSpec => []OneLiveOffer
<1>1. HiringIInv => OneLiveOffer
  BY DEF HiringIInv, HiringShape
<1> QED
  BY <1>1, HiringInductive, PTL

\* Agreements always stand for exactly the accepted offers, in a closed
\* negotiation of the accepted proposal on a job with a freelancer.
THEOREM AgreementsAlwaysFollow == HiringSpec => []AgreementFollowsOffer
<1>1. HiringIInv => AgreementFollowsOffer
  BY DEF HiringIInv, HiringShape
<1> QED
  BY <1>1, HiringInductive, PTL

\* Each unpaid agreement is always within what its job keeps reserved.
THEOREM AgreementsAlwaysFunded == HiringSpec => []AgreementFunded
<1>1. HiringIInv => AgreementFunded
  BY DEF HiringIInv
<1> QED
  BY <1>1, HiringInductive, PTL

\* A freelancer never has two live proposals on a job, stale requests to open
\* a room included.
THEOREM AlwaysOneProposalEach == HiringSpec => []OneProposalEach
<1>1. HiringIInv => OneProposalEach
  BY DEF HiringIInv
<1> QED
  BY <1>1, HiringInductive, PTL

\* proposal_count is never ahead of the live proposals of the job.
THEOREM CountNeverAhead == HiringSpec => []CountNotAhead
<1>1. HiringIInv => CountNotAhead
  BY DEF HiringIInv
<1> QED
  BY <1>1, HiringInductive, PTL

\* Once a freelancer is hired, no step opens the job again or takes the
\* freelancer away.
THEOREM HireAlwaysFinal == HiringSpec => HireIsFinal
<1>1. ASSUME HiringIInv, [HiringNext]_hVars
      PROVE  [\A j \in Jobs : job[j].hired # NoUser =>
                /\ job'[j].hired # NoUser
                /\ job'[j].status \notin Cancellable]_hVars
  <2>1. \A j \in Jobs : JobMoves(j)
    BY <1>1, JobsMoveOn DEF HiringIInv
  <2> QED
    BY <2>1 DEF JobMoves, Hired, Cancellable, OpenJob
<1> QED
  BY <1>1, HiringInductive, PTL DEF HiringSpec, HireIsFinal

-----------------------------------------------------------------------------
(* Payments.                                                               *)

\* The agreements that are paid.
PaidAgreements == {a \in Agreements : agreement[a[1]][a[2]] = "COMPLETED"}

\* Projects, read or made or finished, are those of agreements, and reviews are
\* of finished ones.
ProjectRows ==
  /\ listed \subseteq Agreements
  /\ made \in Seq(Agreements)
  /\ finished \subseteq Agreements
  /\ reviews \subseteq finished \X Users

\* What is proposed, and what can be or was accepted, has a price the ledger
\* moves.
PricedOffers ==
  /\ \A p \in Proposals :
       proposal[p].status # "NONE" => proposal[p].amount \in Amounts \ {0}
  /\ \A p \in Proposals, i \in Rounds :
       offer[p][i].status \in {"ACTIVE", "LAPSED", "ACCEPTED"} =>
         offer[p][i].amount \in Amounts \ {0}

\* Every payment finishes one project at most.
FinishedNotAhead == Cardinality(finished) <= Cardinality(PaidAgreements)

\* The inductive invariant of the payments.
PayoutIInv ==
  /\ HiringShape
  /\ ProjectRows
  /\ PricedOffers
  /\ EarningsMatchCompletions
  /\ NothingStranded
  /\ FinishedNotAhead

\* No step before the completion touches the offers of a room in which something
\* was agreed, pays an agreement or takes a payment back.
LEMMA PaidStay ==
  ASSUME HiringShape, [HiringNext]_hVars, NEW p \in Proposals, NEW i \in Rounds
  PROVE  /\ agreement'[p][i] = "COMPLETED" <=> agreement[p][i] = "COMPLETED"
         /\ agreement[p][i] # "NONE" => offer'[p] = offer[p]
<1> DEFINE Stays == /\ agreement'[p][i] = "COMPLETED" <=> agreement[p][i] = "COMPLETED"
                    /\ agreement[p][i] # "NONE" => offer'[p] = offer[p]
<1>a. agreement[p][i] # "NONE" => negotiation[p].status = "ACCEPTED"
  BY DEF HiringShape, AgreementFollowsOffer
<1>1. ASSUME UNCHANGED <<offer, agreement>> PROVE Stays
  BY <1>1
<1>2. ASSUME NEW q \in Proposals, UNCHANGED agreement, negotiation[q].status # "ACCEPTED",
             \A r \in Proposals \ {q} : offer'[r] = offer[r]
      PROVE  Stays
  BY <1>a, <1>2
<1>3. ASSUME NEW q \in Proposals, OpenNegotiation(q) PROVE Stays
  <2>1. UNCHANGED agreement
    BY <1>3 DEF OpenNegotiation
  <2>2. negotiation[q].status = "NONE" /\ \A r \in Proposals \ {q} : offer'[r] = offer[r]
    BY <1>3, OpenNegotiationEffect
  <2> QED
    BY <1>2, <2>1, <2>2
<1>4. ASSUME NEW q \in Proposals, NEW side \in Side, NEW amount \in Amounts,
             NEW final \in BOOLEAN, SendOffer(q, side, amount, final)
      PROVE  Stays
  <2>1. UNCHANGED agreement
    BY <1>4 DEF SendOffer
  <2>2. negotiation[q].status = "ACTIVE" /\ \A r \in Proposals \ {q} : offer'[r] = offer[r]
    BY <1>4, SendOfferEffect
  <2> QED
    BY <1>2, <2>1, <2>2
<1>5. ASSUME NEW q \in Proposals, RejectOffer(q) \/ CancelNegotiation(q) \/ OfferExpires(q)
      PROVE  Stays
  <2>1. UNCHANGED agreement
    BY <1>5 DEF RejectOffer, CancelNegotiation, OfferExpires
  <2>2. negotiation[q].status = "ACTIVE" /\ \A r \in Proposals \ {q} : offer'[r] = offer[r]
    BY <1>5, AnswersEffect
  <2> QED
    BY <1>2, <2>1, <2>2
<1>6. ASSUME NEW q \in Proposals, AcceptOffer(q) PROVE Stays
  <2>1. negotiation[q].status = "ACTIVE" /\ \A r \in Proposals \ {q} : offer'[r] = offer[r]
    BY <1>6, AnswersEffect
  <2>2. \A m \in Rounds : agreement[q][m] = "NONE"
    BY <1>6, ActionableOffers DEF AcceptOffer
  <2>3. /\ \A r \in Proposals \ {q} : agreement'[r] = agreement[r]
        /\ \A m \in Rounds : agreement'[q][m] \in {"ACTIVE", agreement[q][m]}
    BY <1>6 DEF AcceptOffer, HiringShape, HiringTypeOK
  <2>4. CASE p = q
    BY <2>2, <2>3, <2>4
  <2>5. CASE p # q
    BY <2>1, <2>3, <2>5
  <2> QED
    BY <2>4, <2>5
<1>7. ASSUME NEW q \in Proposals, NEW m \in Rounds, SubmitWork(q, m) PROVE Stays
  <2>1. /\ UNCHANGED offer
        /\ agreement' = [agreement EXCEPT ![q][m] = "IN_PROGRESS"]
        /\ agreement[q][m] \in {"ACTIVE", "IN_PROGRESS"}
    BY <1>7 DEF SubmitWork
  <2>2. agreement'[p][i] = IF p = q /\ i = m THEN "IN_PROGRESS" ELSE agreement[p][i]
    BY <2>1 DEF HiringShape, HiringTypeOK
  <2> QED
    BY <2>1, <2>2
<1>12. ASSUME NEW q \in Proposals, NEW f \in Freelancers, NEW j \in Jobs, NEW amount \in Amounts,
             SubmitProposal(q, f, j, amount)
      PROVE  Stays
  BY <1>1, <1>12 DEF SubmitProposal
<1>8. ASSUME NEW q \in Proposals,
             \/ WithdrawProposal(q) \/ RejectProposal(q)
             \/ BeginOpenRoom(q) \/ OpenNegotiationRefused(q)
      PROVE  Stays
  <2>1. UNCHANGED <<offer, agreement>>
    BY <1>8 DEF WithdrawProposal, RejectProposal, BeginOpenRoom, OpenNegotiationRefused
  <2> QED
    BY <2>1, <1>1
<1>9. ASSUME NEW j \in Jobs,
             \/ PublishJob(j)
             \/ \E budget \in Amounts :
                  \/ UpdateJob(j, budget)
                  \/ \E c \in Clients : CreateJob(j, c, budget) \/ CreateAndPublishJob(j, c, budget)
      PROVE  Stays
  <2>1. UNCHANGED <<offer, agreement>>
    BY <1>9 DEF PublishJob, UpdateJob, CreateJob, CreateAndPublishJob
  <2> QED
    BY <2>1, <1>1
<1>10. ASSUME UNCHANGED hiringVars PROVE Stays
  BY <1>1, <1>10 DEF hiringVars
<1> HIDE DEF Stays
<1>11. Stays
  BY <1>3, <1>4, <1>5, <1>6, <1>7, <1>8, <1>12, <1>9, <1>10 DEF HiringNext, HiringStep, hVars
<1> QED
  BY <1>11 DEF Stays

\* An agreement that exists belongs to a freelancer and to the job of a client,
\* now and after the step.
LEMMA PartiesStay ==
  ASSUME HiringShape, [HiringNext]_hVars, NEW p \in Proposals, NEW i \in Rounds,
         agreement[p][i] # "NONE"
  PROVE  /\ proposal[p].job \in Jobs /\ proposal'[p].job = proposal[p].job
         /\ proposal'[p].freelancer = proposal[p].freelancer
         /\ JobOf(p)'.client = JobOf(p).client
<1>1. proposal[p].status = "ACCEPTED"
  BY DEF HiringShape, AgreementFollowsOffer
<1>2. proposal[p].job \in Jobs /\ job[proposal[p].job].status # "NONE"
  BY <1>1 DEF HiringShape, ProposedJobs, Unpublished
<1>3. proposal'[p].job = proposal[p].job /\ proposal'[p].freelancer = proposal[p].freelancer
  BY <1>1, ProposalsMoveOn DEF ProposalMoves
<1>4. job'[proposal[p].job].client = job[proposal[p].job].client
  BY <1>2, JobsMoveOn DEF JobMoves
<1> QED
  BY <1>2, <1>3, <1>4 DEF JobOf

\* A movement that is no payment leaves what everybody has earned.
LEMMA MoveKeepsEarned ==
  ASSUME TypeOK, NEW u \in Users, NEW src \in Bucket, NEW dst \in Bucket,
         NEW amount \in Nat, NEW kind, kind # "PROJECT_PAYMENT",
         Move(u, src, dst, amount, kind)
  PROVE  \A v \in Users : wallet'[v].earned = wallet[v].earned
<1> DEFINE w == wallet[u]
           m == Moved(w, src, dst, amount, kind)
<1>1. w \in Wallet /\ CanMove(w, src, dst, amount) /\ w.earned \in Nat
  BY DEF TypeOK, Move, Wallet
<1>2. wallet' = [wallet EXCEPT ![u] = m] /\ wallet \in [Users -> Wallet]
  BY DEF TypeOK, Move
<1> HIDE DEF w
<1>3. m.earned = w.earned + IF kind = "PROJECT_PAYMENT" THEN amount ELSE 0
  BY <1>1, MovedEffect
<1> HIDE DEF m
<1>4. wallet'[u] = m /\ \A v \in Users : v # u => wallet'[v] = wallet[v]
  BY <1>2
<1>5. m.earned = w.earned
  BY <1>1, <1>3
<1> QED
  BY <1>4, <1>5 DEF w

\* Requests for money earn nobody anything.
LEMMA RequestsEarnNothing ==
  ASSUME TypeOK, FiledRows, [Next]_vars
  PROVE  \A v \in Users : wallet'[v].earned = wallet[v].earned
<1> USE ConstantsAssumption
<1> "available" \in Bucket /\ "reserved" \in Bucket /\ "external" \in Bucket
  BY DEF Bucket
<1>1. ASSUME UNCHANGED wallet PROVE \A v \in Users : wallet'[v].earned = wallet[v].earned
  BY <1>1
<1>2. ASSUME NEW d \in Deposits, ApproveDeposit(d)
      PROVE  \A v \in Users : wallet'[v].earned = wallet[v].earned
  <2>1. deposit[d].user \in Users /\ deposit[d].amount \in Nat
    BY <1>2 DEF ApproveDeposit, FiledRows, TypeOK, DepositRow
  <2>2. Move(deposit[d].user, "external", "available", deposit[d].amount, "DEPOSIT")
    BY <1>2 DEF ApproveDeposit
  <2> QED
    BY <2>1, <2>2, MoveKeepsEarned
<1>3. ASSUME NEW w \in Withdrawals, NEW u \in Users, NEW amount \in Amounts,
             RequestWithdrawal(w, u, amount)
      PROVE  \A v \in Users : wallet'[v].earned = wallet[v].earned
  <2>1. Move(u, "available", "reserved", amount, "WITHDRAWAL") /\ amount \in Nat
    BY <1>3 DEF RequestWithdrawal
  <2> QED
    BY <2>1, MoveKeepsEarned
<1>4. ASSUME NEW w \in Withdrawals, ApproveWithdrawal(w) \/ RejectWithdrawal(w)
      PROVE  \A v \in Users : wallet'[v].earned = wallet[v].earned
  <2>1. withdrawal[w].user \in Users /\ withdrawal[w].amount \in Nat
    BY <1>4 DEF ApproveWithdrawal, RejectWithdrawal, FiledRows, TypeOK, WithdrawalRow
  <2>2. \/ Move(withdrawal[w].user, "reserved", "external", withdrawal[w].amount, "WITHDRAWAL")
        \/ Move(withdrawal[w].user, "reserved", "available", withdrawal[w].amount,
                "WITHDRAWAL_REVERSAL")
    BY <1>4 DEF ApproveWithdrawal, RejectWithdrawal
  <2> QED
    BY <2>1, <2>2, MoveKeepsEarned
<1>5. ASSUME NEW u \in Users, NEW flag \in BOOLEAN, SetWalletFrozen(u, flag)
      PROVE  \A v \in Users : wallet'[v].earned = wallet[v].earned
  <2>1. wallet' = [wallet EXCEPT ![u] = [wallet[u] EXCEPT !.frozen = flag]]
    BY <1>5 DEF SetWalletFrozen, TypeOK
  <2>2. [wallet[u] EXCEPT !.frozen = flag].earned = wallet[u].earned
    BY DEF TypeOK, Wallet
  <2> QED
    BY <2>1, <2>2 DEF TypeOK
<1>6. ASSUME NEW d \in Deposits,
             \/ RejectDeposit(d)
             \/ \E u \in Users, amount \in Amounts, trx \in TrxIds \cup {NoTrx} :
                  CreateDeposit(d, u, amount, trx)
      PROVE  UNCHANGED wallet
  BY <1>6 DEF RejectDeposit, CreateDeposit
<1>7. CASE UNCHANGED vars
  BY <1>1, <1>7 DEF vars
<1> QED
  BY <1>1, <1>2, <1>3, <1>4, <1>5, <1>6, <1>7 DEF Next

\* What a step of the hiring does to money, if it does anything: it reserves.
LEMMA HiringReserves ==
  ASSUME HiringShape, HiringStep
  PROVE  /\ UNCHANGED books
         /\ \/ UNCHANGED wallet
            \/ \E c \in Users, n \in Nat :
                 Move(c, "available", "reserved", n, "BUDGET_RESERVATION")
<1> USE ConstantsAssumption, HiringAssumption
<1> DEFINE Reserves == /\ UNCHANGED books
                       /\ \/ UNCHANGED wallet
                          \/ \E c \in Users, n \in Nat :
                               Move(c, "available", "reserved", n, "BUDGET_RESERVATION")
<1>1. ASSUME UNCHANGED vars PROVE Reserves
  BY <1>1 DEF vars, books
<1>2. ASSUME NEW j \in Jobs, NEW c \in Clients, NEW budget \in Amounts,
             CreateJob(j, c, budget) \/ CreateAndPublishJob(j, c, budget)
      PROVE  Reserves
  <2>1. CASE CreateJob(j, c, budget)
    BY <1>1, <2>1 DEF CreateJob
  <2>2. CASE CreateAndPublishJob(j, c, budget)
    <3>1. Move(c, "available", "reserved", budget, "BUDGET_RESERVATION") /\ UNCHANGED books
      BY <2>2 DEF CreateAndPublishJob
    <3>2. c \in Users /\ budget \in Nat
      OBVIOUS
    <3> QED
      BY <3>1, <3>2
  <2> QED
    BY <1>2, <2>1, <2>2
<1>3. ASSUME NEW j \in Jobs, PublishJob(j) PROVE Reserves
  <2>1. job[j].client \in Users /\ job[j].budget \in Nat
    BY <1>3, JobsHaveClients DEF PublishJob, HiringShape, HiringTypeOK, JobRow
  <2>2. /\ Move(job[j].client, "available", "reserved", job[j].budget, "BUDGET_RESERVATION")
        /\ UNCHANGED books
    BY <1>3 DEF PublishJob
  <2> QED
    BY <2>1, <2>2
<1>4. ASSUME NEW p \in Proposals, AcceptOffer(p) PROVE Reserves
  <2>1. /\ proposal[p].job \in Jobs /\ Offered(p) \in Nat /\ JobOf(p).client \in Users
        /\ JobOf(p).reserved \in Nat
    BY <1>4, ActionableOffers DEF AcceptOffer, JobOf, HiringShape, HiringTypeOK, JobRow
  <2>2. Shortfall(p) > 0 => Shortfall(p) \in Nat
    BY <2>1 DEF Shortfall
  <2>3. ReserveShortfall(p) /\ UNCHANGED books
    BY <1>4 DEF AcceptOffer
  <2> QED
    BY <2>1, <2>2, <2>3 DEF ReserveShortfall
<1>5. ASSUME NEW j \in Jobs, NEW budget \in Amounts, UpdateJob(j, budget) PROVE Reserves
  BY <1>1, <1>5 DEF UpdateJob
<1>6. ASSUME NEW p \in Proposals, NEW f \in Freelancers, NEW j \in Jobs, NEW amount \in Amounts,
             SubmitProposal(p, f, j, amount)
      PROVE  Reserves
  BY <1>1, <1>6 DEF SubmitProposal
<1>7. ASSUME NEW p \in Proposals, NEW side \in Side, NEW amount \in Amounts,
             NEW final \in BOOLEAN, SendOffer(p, side, amount, final)
      PROVE  Reserves
  BY <1>1, <1>7 DEF SendOffer
<1>8. ASSUME NEW p \in Proposals,
             \/ WithdrawProposal(p) \/ RejectProposal(p) \/ BeginOpenRoom(p)
             \/ OpenNegotiation(p) \/ OpenNegotiationRefused(p)
             \/ RejectOffer(p) \/ CancelNegotiation(p) \/ OfferExpires(p)
             \/ \E i \in Rounds : SubmitWork(p, i)
      PROVE  Reserves
  <2>1. UNCHANGED vars
    BY <1>8 DEF WithdrawProposal, RejectProposal, BeginOpenRoom, OpenNegotiation,
                OpenNegotiationRefused, RejectOffer, CancelNegotiation, OfferExpires, SubmitWork
  <2> QED
    BY <1>1, <2>1
<1> HIDE DEF Reserves
<1>9. Reserves
  BY <1>2, <1>3, <1>4, <1>5, <1>6, <1>7, <1>8 DEF HiringStep
<1> QED
  BY <1>9 DEF Reserves

\* No step before the completion earns anybody anything.
LEMMA EarnedStays ==
  ASSUME HiringShape, [HiringNext]_hVars
  PROVE  \A v \in Users : wallet'[v].earned = wallet[v].earned
<1>1. TypeOK /\ FiledRows
  BY DEF HiringShape, HiringTypeOK
<1>2. CASE HiringStep
  <2>1. "available" \in Bucket /\ "reserved" \in Bucket
    BY DEF Bucket
  <2> QED
    BY <1>1, <1>2, <2>1, HiringReserves, MoveKeepsEarned
<1>3. CASE [Next]_vars
  BY <1>1, <1>3, RequestsEarnNothing
<1> QED
  BY <1>2, <1>3 DEF HiringNext, hVars

\* To the treasury it is a verification, a payment out or nothing.
LEMMA HiringTreasury ==
  ASSUME HiringShape, [HiringNext]_hVars
  PROVE  [Abstract!Next]_(Abstract!vars)
<1>1. TypeOK /\ FiledRows
  BY DEF HiringShape, HiringTypeOK
<1>2. CASE HiringStep
  <2>1. \A u, s : /\ DepositSum(u, s)' = DepositSum(u, s)
                  /\ WithdrawalSum(u, s)' = WithdrawalSum(u, s)
    BY <1>2, HiringReserves, SumsUnchanged DEF books
  <2>2. \A u \in Users : Total(wallet'[u]) = Total(wallet[u])
    <3>1. CASE UNCHANGED wallet
      BY <3>1
    <3>2. ASSUME NEW c \in Users, NEW n \in Nat,
                 Move(c, "available", "reserved", n, "BUDGET_RESERVATION")
          PROVE  \A u \in Users : Total(wallet'[u]) = Total(wallet[u])
      <4>1. /\ "available" \in Bucket /\ "reserved" \in Bucket
            /\ Inflow("available", "reserved", n) = 0
        BY DEF Bucket, Inflow
      <4>2. \A u \in Users :
              /\ Total(wallet[u]) \in Int
              /\ Total(wallet'[u]) = Total(wallet[u])
                   + IF u = c THEN Inflow("available", "reserved", n) ELSE 0
        BY <1>1, <3>2, <4>1, TotalEffect
      <4> QED
        BY <4>1, <4>2
    <3> QED
      BY <1>2, <3>1, <3>2, HiringReserves
  <2> QED
    BY <2>1, <2>2, TreasuryStutters
<1>3. CASE [Next]_vars
  BY <1>1, <1>3, TreasuryStep
<1> QED
  BY <1>2, <1>3 DEF HiringNext, hVars

-----------------------------------------------------------------------------
(* What completed work was worth.                                          *)

\* What an agreement has paid, and what the agreements of a proposal have.
PaidPrice(p) == [i \in Rounds |-> IF agreement[p][i] = "COMPLETED" THEN offer[p][i].amount ELSE 0]
Worth(p) == SumTo(PaidPrice(p), MaxOffers)

\* u is paid, or pays, for the work of proposal p.
Party(u, p) ==
  proposal[p].freelancer = u \/ (proposal[p].job # 0 /\ JobOf(p).client = u)

\* Worths are integers, and zero before anything is paid.
LEMMA WorthTypes ==
  ASSUME HiringTypeOK, NEW p \in Proposals
  PROVE  /\ PaidPrice(p) \in [1..MaxOffers -> Int]
         /\ Worth(p) \in Int
         /\ (\A i \in Rounds : agreement[p][i] # "COMPLETED") => Worth(p) = 0
<1>1. PaidPrice(p) \in [1..MaxOffers -> Int] /\ MaxOffers \in Nat
  BY HiringAssumption DEF PaidPrice, HiringTypeOK, OfferRow, Rounds
<1>2. ASSUME \A i \in Rounds : agreement[p][i] # "COMPLETED" PROVE Worth(p) = 0
  <2>1. PaidPrice(p) = [i \in 1..MaxOffers |-> 0]
    BY <1>2 DEF PaidPrice, Rounds
  <2> QED
    BY <1>1, <2>1, SumToZero DEF Worth
<1> QED
  BY <1>1, <1>2, SumToInt DEF Worth

\* CompletedFor says who is concerned by which worth.
LEMMA CompletedForParts ==
  ASSUME HiringTypeOK, NEW u
  PROVE  /\ CompletedFor(u) = [p \in Proposals |-> IF Party(u, p) THEN Worth(p) ELSE 0]
         /\ CompletedFor(u) \in [1..MaxProposals -> Int]
<1>1. CompletedFor(u) = [p \in Proposals |-> IF Party(u, p) THEN Worth(p) ELSE 0]
  BY DEF CompletedFor, Party, Worth, PaidPrice
<1>2. \A p \in Proposals : Worth(p) \in Int
  BY WorthTypes
<1> QED
  BY <1>1, <1>2 DEF Proposals

\* No step before the completion changes the worth of completed work, or whom
\* it concerns.
LEMMA CompletedForStays ==
  ASSUME HiringShape, [HiringNext]_hVars, NEW u
  PROVE  CompletedFor(u)' = CompletedFor(u)
<1> DEFINE part(p) == IF Party(u, p) THEN Worth(p) ELSE 0
<1>1. HiringTypeOK /\ HiringTypeOK'
  BY HiringTypesStay DEF HiringShape
<1>2. ASSUME NEW p \in Proposals PROVE part(p)' = part(p)
  <2>1. CASE \E i \in Rounds : agreement[p][i] = "COMPLETED"
    <3>1. /\ proposal'[p].job = proposal[p].job /\ proposal'[p].freelancer = proposal[p].freelancer
          /\ JobOf(p)'.client = JobOf(p).client
      BY <2>1, PartiesStay
    <3>2. PaidPrice(p)' = PaidPrice(p)
      BY <2>1, PaidStay DEF PaidPrice
    <3> QED
      BY <3>1, <3>2 DEF Party, Worth
  <2>2. CASE \A i \in Rounds : agreement[p][i] # "COMPLETED"
    <3>1. \A i \in Rounds : agreement'[p][i] # "COMPLETED"
      BY <2>2, PaidStay
    <3>2. Worth(p) = 0
      BY <1>1, <2>2, WorthTypes
    <3>3. Worth(p)' = 0
      <4>1. PaidPrice(p)' = [i \in 1..MaxOffers |-> 0] /\ MaxOffers \in Nat
        BY <3>1, HiringAssumption DEF PaidPrice, Rounds
      <4> QED
        BY <4>1, SumToZero DEF Worth
    <3> QED
      BY <3>2, <3>3
  <2> QED
    BY <2>1, <2>2
<1>3. CompletedFor(u) = [p \in Proposals |-> part(p)]
  BY <1>1, CompletedForParts
<1>4. CompletedFor(u)' = [p \in Proposals |-> part(p)']
  BY DEF CompletedFor, Party, Worth, PaidPrice
<1> HIDE DEF part
<1> QED
  BY <1>2, <1>3, <1>4

\* The clients who have completed nothing yet remain so.
LEMMA CompletionsStay ==
  ASSUME HiringShape, [HiringNext]_hVars, NEW u
  PROVE  Completions(u) # {} => Completions(u)' # {}
<1> SUFFICES ASSUME NEW p \in Completions(u) PROVE p \in Completions(u)'
  OBVIOUS
<1>1. PICK i \in Rounds : agreement[p][i] = "COMPLETED"
  BY DEF Completions
<1>2. p \in Proposals /\ proposal[p].job # 0 /\ JobOf(p).client = u
  BY DEF Completions
<1>3. proposal'[p].job = proposal[p].job /\ JobOf(p)'.client = JobOf(p).client
  BY <1>1, <1>2, PartiesStay
<1>4. agreement'[p][i] = "COMPLETED"
  BY <1>1, <1>2, PaidStay
<1> QED
  BY <1>2, <1>3, <1>4 DEF Completions

-----------------------------------------------------------------------------
(* Prices.                                                                 *)

Priced == {"ACTIVE", "LAPSED", "ACCEPTED"}

\* A proposal that is filed has the price it was submitted with.
LEMMA ProposalsPriced ==
  ASSUME HiringShape, PricedOffers, [HiringNext]_hVars, NEW p \in Proposals,
         proposal'[p].status # "NONE"
  PROVE  proposal'[p].amount \in Amounts \ {0}
<1>1. CASE proposal[p].status # "NONE"
  BY <1>1, ProposalsMoveOn DEF ProposalMoves, PricedOffers
<1>2. CASE proposal[p].status = "NONE"
  <2> DEFINE Priced2 == proposal'[p].amount \in Amounts \ {0}
  <2>1. ASSUME NEW q \in Proposals, NEW f \in Freelancers, NEW j \in Jobs,
               NEW amount \in Amounts, SubmitProposal(q, f, j, amount)
        PROVE  Priced2
    <3>1. /\ proposal' = [proposal EXCEPT ![q] =
                 [job |-> j, freelancer |-> f, amount |-> amount, status |-> "SUBMITTED"]]
          /\ amount > 0
      BY <2>1 DEF SubmitProposal
    <3>2. CASE p = q
      BY <3>1, <3>2, ConstantsAssumption DEF HiringShape, HiringTypeOK
    <3>3. CASE p # q
      <4>1. proposal'[p] = proposal[p]
        BY <3>1, <3>3
      <4> QED
        BY <1>2, <4>1
    <3> QED
      BY <3>2, <3>3
  <2>2. ASSUME NEW q \in Proposals, NEW s, proposal' = [proposal EXCEPT ![q].status = s],
               proposal[q].status # "NONE"
        PROVE  Priced2
    <3>1. proposal'[p] = proposal[p]
      BY <1>2, <2>2
    <3> QED
      BY <1>2, <3>1
  <2>3. ASSUME NEW q \in Proposals, WithdrawProposal(q) PROVE Priced2
    BY <2>2, <2>3 DEF WithdrawProposal
  <2>4. ASSUME NEW q \in Proposals, RejectProposal(q) PROVE Priced2
    <3>1. /\ proposal' = [proposal EXCEPT ![q].status = "REJECTED"]
          /\ proposal[q].status # "NONE"
      BY <2>4 DEF RejectProposal, OpenProposal
    <3> QED
      BY <2>2, <3>1
  <2>5. ASSUME NEW q \in Proposals, OpenNegotiation(q) PROVE Priced2
    <3>1. /\ proposal' = [proposal EXCEPT ![q].status = "NEGOTIATING"]
          /\ proposal[q].status # "NONE"
      BY <2>5 DEF OpenNegotiation, HiringShape, RoomsOfProposals
    <3> QED
      BY <2>2, <3>1
  <2>6. ASSUME NEW q \in Proposals, AcceptOffer(q) PROVE Priced2
    <3>1. proposal[q].status # "NONE" /\ proposal' = Chosen(q)
      BY <2>6, ActionableOffers DEF AcceptOffer
    <3>2. HiringTypeOK
      BY DEF HiringShape
    <3>3. proposal'[p].status = "NONE"
      BY <1>2, <3>1, <3>2, ChosenEffect DEF OpenProposal
    <3> QED
      BY <3>3
  <2>7. ASSUME UNCHANGED proposal PROVE Priced2
    BY <1>2, <2>7
  <2>8. ASSUME NEW q \in Proposals, NEW side \in Side, NEW amount \in Amounts,
               NEW final \in BOOLEAN, SendOffer(q, side, amount, final)
        PROVE  Priced2
    BY <2>7, <2>8 DEF SendOffer
  <2>9. ASSUME NEW q \in Proposals,
               \/ BeginOpenRoom(q) \/ OpenNegotiationRefused(q) \/ RejectOffer(q)
               \/ CancelNegotiation(q) \/ OfferExpires(q) \/ \E i \in Rounds : SubmitWork(q, i)
        PROVE  Priced2
    <3>1. UNCHANGED proposal
      BY <2>9 DEF BeginOpenRoom, OpenNegotiationRefused, RejectOffer, CancelNegotiation,
                  OfferExpires, SubmitWork
    <3> QED
      BY <2>7, <3>1
  <2>10. ASSUME NEW j \in Jobs,
                \/ PublishJob(j)
                \/ \E budget \in Amounts :
                     \/ UpdateJob(j, budget)
                     \/ \E c \in Clients : CreateJob(j, c, budget) \/ CreateAndPublishJob(j, c, budget)
         PROVE  Priced2
    <3>1. UNCHANGED proposal
      BY <2>10 DEF PublishJob, UpdateJob, CreateJob, CreateAndPublishJob
    <3> QED
      BY <2>7, <3>1
  <2>11. ASSUME UNCHANGED hiringVars PROVE Priced2
    BY <2>7, <2>11 DEF hiringVars
  <2> HIDE DEF Priced2
  <2>12. Priced2
    BY <2>1, <2>3, <2>4, <2>5, <2>6, <2>8, <2>9, <2>10, <2>11 DEF HiringNext, HiringStep, hVars
  <2> QED
    BY <2>12 DEF Priced2
<1> QED
  BY <1>1, <1>2

\* An offer that can be accepted, or was, has the price it was sent with.
LEMMA OffersPriced ==
  ASSUME HiringShape, PricedOffers, [HiringNext]_hVars, NEW p \in Proposals, NEW i \in Rounds,
         offer'[p][i].status \in Priced
  PROVE  offer'[p][i].amount \in Amounts \ {0}
<1> DEFINE Kept == offer'[p][i].amount \in Amounts \ {0}
<1>a. ASSUME offer'[p][i].amount = offer[p][i].amount, offer[p][i].status \in Priced
      PROVE  Kept
  BY <1>a DEF PricedOffers, Priced
<1>b. HiringTypeOK
  BY DEF HiringShape
<1>1. ASSUME offer'[p] = offer[p] PROVE Kept
  BY <1>a, <1>1
<1>2. ASSUME NEW q \in Proposals, OpenNegotiation(q) PROVE Kept
  <2>1. CASE p # q
    BY <1>1, <1>2, <2>1, OpenNegotiationEffect
  <2>2. CASE p = q /\ i # 1
    <3>1. offer'[p][i] = offer[p][i]
      BY <1>2, <2>2, OpenNegotiationEffect
    <3> QED
      BY <1>a, <3>1
  <2>3. CASE p = q /\ i = 1
    <3>1. offer'[p][1].amount = proposal[p].amount
      BY <1>2, <1>b, <2>3 DEF OpenNegotiation, HiringTypeOK
    <3>2. proposal[p].status # "NONE"
      BY <1>2, <2>3 DEF OpenNegotiation, HiringShape, RoomsOfProposals
    <3> QED
      BY <2>3, <3>1, <3>2 DEF PricedOffers
  <2> QED
    BY <2>1, <2>2, <2>3
<1>3. ASSUME NEW q \in Proposals, NEW side \in Side, NEW amount \in Amounts,
             NEW final \in BOOLEAN, SendOffer(q, side, amount, final)
      PROVE  Kept
  <2>1. PICK k \in Rounds :
           /\ offer'[q][k].amount = amount
           /\ \A m \in Rounds \ {k} :
                /\ offer'[q][m].status =
                     IF offer[q][m].status \in {"ACTIVE", "LAPSED"} THEN "COUNTERED"
                     ELSE offer[q][m].status
                /\ offer'[q][m].amount = offer[q][m].amount
           /\ \A r \in Proposals \ {q} : offer'[r] = offer[r]
    BY <1>3, SendOfferEffect
  <2>2. amount \in Amounts \ {0}
    BY <1>3, ConstantsAssumption DEF SendOffer
  <2>3. CASE p # q
    BY <1>1, <2>1, <2>3
  <2>4. CASE p = q /\ i = k
    BY <2>1, <2>2, <2>4
  <2>5. CASE p = q /\ i # k
    <3>1. offer[p][i].status \in Priced /\ offer'[p][i].amount = offer[p][i].amount
      BY <2>1, <2>5 DEF Priced
    <3> QED
      BY <1>a, <3>1
  <2> QED
    BY <2>3, <2>4, <2>5
<1>4. ASSUME NEW q \in Proposals, NEW s \in OfferStatus, Actionable(q),
             offer' = [offer EXCEPT ![q] = Superseded(q, s)]
      PROVE  Kept
  <2>1. CASE p # q
    <3>1. offer'[p] = offer[p]
      BY <1>4, <2>1
    <3> QED
      BY <1>1, <3>1
  <2>2. CASE p = q
    <3>1. offer'[p] = Superseded(p, s)
      BY <1>4, <1>b, <2>2 DEF HiringTypeOK
    <3>2. /\ offer'[p][i].status =
               IF i = negotiation[p].current THEN s ELSE offer[p][i].status
          /\ offer'[p][i].amount = offer[p][i].amount
      BY <1>b, <3>1, SupersededEffect
    <3>3. offer[p][negotiation[p].current].status = "ACTIVE"
      BY <1>4, <2>2 DEF Actionable
    <3>4. offer[p][i].status \in Priced
      BY <3>2, <3>3 DEF Priced
    <3> QED
      BY <1>a, <3>2, <3>4
  <2> QED
    BY <2>1, <2>2
<1>5. ASSUME NEW q \in Proposals, RejectOffer(q) \/ OfferExpires(q) \/ AcceptOffer(q)
      PROVE  Kept
  BY <1>4, <1>5 DEF RejectOffer, OfferExpires, AcceptOffer, OfferStatus
<1>6. ASSUME NEW q \in Proposals, CancelNegotiation(q) PROVE Kept
  <2>1. CASE p # q
    <3>1. offer'[p] = offer[p]
      BY <1>6, <2>1 DEF CancelNegotiation
    <3> QED
      BY <1>1, <3>1
  <2>2. CASE p = q
    <3>1. offer'[p] = IF negotiation[p].current # 0 THEN Superseded(p, "WITHDRAWN") ELSE offer[p]
      BY <1>6, <1>b, <2>2 DEF CancelNegotiation, HiringTypeOK
    <3>2. /\ Superseded(p, "WITHDRAWN")[i].status =
               IF i = negotiation[p].current THEN "WITHDRAWN" ELSE offer[p][i].status
          /\ Superseded(p, "WITHDRAWN")[i].amount = offer[p][i].amount
      BY <1>b, SupersededEffect
    <3>3. offer[p][i].status \in Priced /\ offer'[p][i].amount = offer[p][i].amount
      BY <3>1, <3>2 DEF Priced
    <3> QED
      BY <1>a, <3>3
  <2> QED
    BY <2>1, <2>2
<1>7. ASSUME UNCHANGED offer PROVE Kept
  BY <1>1, <1>7
<1>8. ASSUME NEW q \in Proposals, NEW f \in Freelancers, NEW j \in Jobs, NEW amount \in Amounts,
             SubmitProposal(q, f, j, amount)
      PROVE  Kept
  BY <1>7, <1>8 DEF SubmitProposal
<1>9. ASSUME NEW q \in Proposals,
             \/ WithdrawProposal(q) \/ RejectProposal(q)
             \/ BeginOpenRoom(q) \/ OpenNegotiationRefused(q) \/ \E m \in Rounds : SubmitWork(q, m)
      PROVE  Kept
  <2>1. UNCHANGED offer
    BY <1>9 DEF WithdrawProposal, RejectProposal, BeginOpenRoom, OpenNegotiationRefused, SubmitWork
  <2> QED
    BY <1>7, <2>1
<1>10. ASSUME NEW j \in Jobs,
              \/ PublishJob(j)
              \/ \E budget \in Amounts :
                   \/ UpdateJob(j, budget)
                   \/ \E c \in Clients : CreateJob(j, c, budget) \/ CreateAndPublishJob(j, c, budget)
       PROVE  Kept
  <2>1. UNCHANGED offer
    BY <1>10 DEF PublishJob, UpdateJob, CreateJob, CreateAndPublishJob
  <2> QED
    BY <1>7, <2>1
<1>11. ASSUME UNCHANGED hiringVars PROVE Kept
  BY <1>7, <1>11 DEF hiringVars
<1> HIDE DEF Kept
<1>12. Kept
  BY <1>2, <1>3, <1>5, <1>6, <1>8, <1>9, <1>10, <1>11 DEF HiringNext, HiringStep, hVars
<1> QED
  BY <1>12 DEF Kept

\* Prices are named by proposals and offers, and none is changed afterwards.
LEMMA PricesStay ==
  ASSUME HiringShape, PricedOffers, [HiringNext]_hVars
  PROVE  PricedOffers'
BY ProposalsPriced, OffersPriced DEF PricedOffers, Priced

-----------------------------------------------------------------------------
(* The completion.                                                         *)

\* Who is paid by whom, what, for which job.
LEMMA CompletionParties ==
  ASSUME HiringShape, NEW p \in Proposals, NEW i \in Rounds, CompleteAgreement(p, i)
  PROVE  /\ proposal[p].job \in Jobs /\ proposal[p].job # 0
         /\ JobOf(p).client \in Clients /\ JobOf(p).client \in Users
         /\ proposal[p].freelancer \in Freelancers /\ proposal[p].freelancer \in Users
         /\ JobOf(p).client # proposal[p].freelancer
         /\ JobOf(p).reserved \in Nat /\ JobOf(p) \in JobRow
         /\ JobOf(p).hired # NoUser /\ JobOf(p).status \in Hired
         /\ offer[p][i].amount \in Nat /\ offer[p][i].status = "ACCEPTED"
         /\ agreement[p][i] # "NONE" /\ agreement[p][i] # "COMPLETED"
<1>1. agreement[p][i] # "NONE" /\ agreement[p][i] # "COMPLETED"
  BY DEF CompleteAgreement, Unpaid
<1>2. /\ proposal[p].status = "ACCEPTED" /\ job[proposal[p].job].hired # NoUser
      /\ offer[p][i].status = "ACCEPTED"
  BY <1>1 DEF HiringShape, AgreementFollowsOffer
<1>3. proposal[p].job \in Jobs /\ proposal[p].freelancer \in Freelancers
  BY <1>2 DEF HiringShape, ProposedJobs
<1>4. JobOf(p).hired # NoUser /\ JobOf(p).status \in Hired
  BY <1>2, <1>3 DEF HiringShape, JobStages, JobOf
<1>5. JobOf(p).client \in Clients
  BY <1>3, <1>4 DEF HiringShape, JobStages, JobOf, Hired
<1>6. JobOf(p) \in JobRow /\ JobOf(p).reserved \in Nat
  BY <1>3 DEF HiringShape, HiringTypeOK, JobOf, JobRow
<1>7. offer[p][i].amount \in Nat
  BY DEF HiringShape, HiringTypeOK, OfferRow
<1>8. proposal[p].job # 0
  BY <1>3, HiringAssumption DEF Jobs
<1> QED
  BY <1>1, <1>2, <1>3, <1>4, <1>5, <1>6, <1>7, <1>8, HiringAssumption, PayoutAssumption

\* What the completion does to the wallets: the client pays, the freelancer is
\* paid, and the job's whole reservation is returned, taken or not.
LEMMA CompletionPays ==
  ASSUME HiringShape, NEW p \in Proposals, NEW i \in Rounds, CompleteAgreement(p, i)
  PROVE  LET c == JobOf(p).client
             f == proposal[p].freelancer
             amount == offer[p][i].amount
         IN  /\ wallet' \in [Users -> Wallet]
             /\ \A u \in Users \ {c, f} : wallet'[u] = wallet[u]
             /\ wallet'[f].reserved = wallet[f].reserved
             /\ wallet'[f].earned = wallet[f].earned + amount
             /\ Total(wallet'[f]) = Total(wallet[f]) + amount
             /\ wallet'[c].reserved = wallet[c].reserved - JobOf(p).reserved
                  - IF wallet[c].reserved >= amount THEN amount ELSE 0
             /\ wallet'[c].earned = wallet[c].earned + amount
             /\ Total(wallet'[c]) = Total(wallet[c]) - amount
<1> DEFINE c == JobOf(p).client
           f == proposal[p].freelancer
           amount == offer[p][i].amount
           held == JobOf(p).reserved
<1>1. /\ c \in Users /\ f \in Users /\ c # f /\ amount \in Nat /\ held \in Nat
  BY CompletionParties
<1>2. /\ wallet' = [wallet EXCEPT ![c] = Settled(@, amount, held), ![f] = Paid(@, amount)]
      /\ CanSettle(wallet[c], amount, held)
  BY DEF CompleteAgreement
<1>3. wallet \in [Users -> Wallet]
  BY DEF HiringShape, HiringTypeOK, TypeOK
<1> HIDE DEF c, f, amount, held
<1>4. /\ \A u \in Users \ {c, f} : wallet'[u] = wallet[u]
      /\ wallet'[f] = Paid(wallet[f], amount) /\ wallet'[c] = Settled(wallet[c], amount, held)
      /\ DOMAIN wallet' = Users /\ wallet' = [u \in Users |-> wallet'[u]]
  BY <1>1, <1>2, <1>3
<1>5. wallet[c] \in Wallet /\ wallet[f] \in Wallet
  BY <1>1, <1>3
<1>6. /\ wallet'[f] \in Wallet
      /\ wallet'[f].reserved = wallet[f].reserved
      /\ wallet'[f].earned = wallet[f].earned + amount
      /\ Total(wallet'[f]) = Total(wallet[f]) + amount
  BY <1>1, <1>4, <1>5, PaidEffect
<1>7. /\ wallet'[c] \in Wallet
      /\ wallet'[c].reserved = wallet[c].reserved - held
           - IF wallet[c].reserved >= amount THEN amount ELSE 0
      /\ wallet'[c].earned = wallet[c].earned + amount
      /\ Total(wallet'[c]) = Total(wallet[c]) - amount
  BY <1>1, <1>2, <1>4, <1>5, SettledEffect
<1>8. wallet' \in [Users -> Wallet]
  BY <1>3, <1>4, <1>6, <1>7
<1> QED
  BY <1>4, <1>6, <1>7, <1>8 DEF c, f, amount, held

\* What it does to the rows: the job is completed and reserves nothing, the
\* agreement is paid, and no other row is touched.
LEMMA CompletionRows ==
  ASSUME HiringShape, NEW p \in Proposals, NEW i \in Rounds, CompleteAgreement(p, i)
  PROVE  LET j == proposal[p].job
         IN  /\ \A k \in Jobs \ {j} : job'[k] = job[k]
             /\ job'[j] \in JobRow
             /\ job'[j].client = job[j].client /\ job'[j].hired = job[j].hired
             /\ job'[j].reserved = 0 /\ job'[j].status = "COMPLETED"
             /\ job' \in [Jobs -> JobRow]
             /\ agreement' \in [Proposals -> [Rounds -> AgreementStatus]]
             /\ \A q \in Proposals, m \in Rounds :
                  agreement'[q][m] = IF q = p /\ m = i THEN "COMPLETED" ELSE agreement[q][m]
             /\ UNCHANGED <<books, proposal, opening, negotiation, offer>>
<1> DEFINE j == proposal[p].job
           row == [job[j] EXCEPT !.reserved = 0, !.status = "COMPLETED"]
<1>1. j \in Jobs /\ job[j] \in JobRow
  BY CompletionParties DEF JobOf
<1>2. job' = [job EXCEPT ![j] = row] /\ job \in [Jobs -> JobRow]
  BY DEF CompleteAgreement, HiringShape, HiringTypeOK
<1>3. /\ row \in JobRow /\ row.client = job[j].client /\ row.hired = job[j].hired
      /\ row.reserved = 0 /\ row.status = "COMPLETED"
  BY <1>1 DEF JobRow, JobStatus
<1> HIDE DEF j, row
<1>4. /\ \A k \in Jobs \ {j} : job'[k] = job[k]
      /\ job'[j] = row /\ job' \in [Jobs -> JobRow]
  BY <1>1, <1>2, <1>3
<1>5. /\ agreement' \in [Proposals -> [Rounds -> AgreementStatus]]
      /\ \A q \in Proposals, m \in Rounds :
           agreement'[q][m] = IF q = p /\ m = i THEN "COMPLETED" ELSE agreement[q][m]
  BY DEF CompleteAgreement, HiringShape, HiringTypeOK, AgreementStatus
<1>6. UNCHANGED <<books, proposal, opening, negotiation, offer>>
  BY DEF CompleteAgreement
<1> QED
  BY <1>3, <1>4, <1>5, <1>6 DEF j

\* The completion keeps the types and which rows go together.
LEMMA CompletionShape ==
  ASSUME HiringShape, NEW p \in Proposals, NEW i \in Rounds, CompleteAgreement(p, i)
  PROVE  HiringShape'
<1> DEFINE j == proposal[p].job
<1>1. /\ \A k \in Jobs \ {j} : job'[k] = job[k]
      /\ job'[j].client = job[j].client /\ job'[j].hired = job[j].hired
      /\ job'[j].reserved = 0 /\ job'[j].status = "COMPLETED"
      /\ job' \in [Jobs -> JobRow]
      /\ agreement' \in [Proposals -> [Rounds -> AgreementStatus]]
      /\ \A q \in Proposals, m \in Rounds :
           agreement'[q][m] = IF q = p /\ m = i THEN "COMPLETED" ELSE agreement[q][m]
      /\ UNCHANGED <<books, proposal, opening, negotiation, offer>>
  BY CompletionRows
<1>2. /\ j \in Jobs /\ job[j].client \in Clients /\ job[j].hired # NoUser
      /\ agreement[p][i] # "NONE"
  BY CompletionParties DEF JobOf
<1>3. wallet' \in [Users -> Wallet]
  BY CompletionPays
<1> USE DEF HiringShape
<1> HIDE DEF j
<1>4. HiringTypeOK'
  BY <1>1, <1>3 DEF HiringTypeOK, TypeOK, books
<1>5. FiledRows'
  BY <1>1 DEF FiledRows, books
<1>6. JobStages'
  <2>1. ASSUME NEW k \in Jobs
        PROVE  /\ job'[k].status # "NONE" => job'[k].client \in Clients
               /\ job'[k].status \in Unpublished => job'[k].reserved = 0
               /\ job'[k].hired # NoUser => job'[k].status \in Hired
    BY <1>1, <1>2 DEF JobStages, Unpublished, Hired
  <2> QED
    BY <2>1 DEF JobStages
<1>7. ProposedJobs'
  BY <1>1, <1>2 DEF ProposedJobs, Unpublished
<1>8. RoomsOfProposals'
  BY <1>1 DEF RoomsOfProposals
<1>9. OneLiveOffer'
  BY <1>1 DEF OneLiveOffer
<1>10. AgreementFollowsOffer'
  <2>1. ASSUME NEW q \in Proposals, NEW m \in Rounds
        PROVE  agreement'[q][m] = "NONE" <=> agreement[q][m] = "NONE"
    BY <1>1, <1>2
  <2>2. ASSUME NEW q \in Proposals, job[proposal[q].job].hired # NoUser,
               proposal[q].status = "ACCEPTED"
        PROVE  job'[proposal'[q].job].hired # NoUser
    BY <1>1, <1>2, <2>2 DEF ProposedJobs
  <2> QED
    BY <1>1, <2>1, <2>2 DEF AgreementFollowsOffer
<1> QED
  BY <1>4, <1>5, <1>6, <1>7, <1>8, <1>9, <1>10

\* It may take from what else the client's wallet has reserved, and gives nobody
\* a reservation without a commitment.
LEMMA CompletionGap ==
  ASSUME HiringShape, NEW p \in Proposals, NEW i \in Rounds, CompleteAgreement(p, i),
         NEW u \in Users
  PROVE  /\ u # JobOf(p).client => Gap(u)' = Gap(u)
         /\ Gap(u)' <= Gap(u)
         /\ Gap(u) \in Int
<1> DEFINE j == proposal[p].job
           c == JobOf(p).client
           f == proposal[p].freelancer
           taken == IF wallet[c].reserved >= offer[p][i].amount THEN offer[p][i].amount ELSE 0
           r == wallet[u].reserved
           r2 == wallet'[u].reserved
           w == WithdrawalSum(u, "PENDING")
           s == JobSum(u)
           s2 == JobSum(u)'
           held == job[j].reserved
<1>1. /\ j \in Jobs /\ c \in Users /\ c # f /\ offer[p][i].amount \in Nat /\ held \in Nat
      /\ c = job[j].client
  BY CompletionParties DEF JobOf
<1>2. taken \in Nat
  BY <1>1
<1>3. HiringTypeOK /\ HiringTypeOK'
  BY CompletionShape DEF HiringShape
<1>4. r \in Int /\ w \in Int /\ s \in Int
  BY <1>3, GapTypes
<1>5. /\ \A k \in Jobs \ {j} : job'[k] = job[k]
      /\ job'[j].client = job[j].client /\ job'[j].reserved = 0
      /\ UNCHANGED books
  BY CompletionRows
<1>6. w' = w
  BY <1>5, SumsUnchanged DEF books
<1>7. s2 = s - IF u = c THEN held ELSE 0
  <2>1. /\ \A k \in Jobs \ {j} : ReservedFor(u)'[k] = ReservedFor(u)[k]
        /\ ReservedFor(u)[j] = IF u = c THEN held ELSE 0
        /\ ReservedFor(u)'[j] = 0
    BY <1>1, <1>5 DEF ReservedFor
  <2>2. JobSum(u)' = JobSum(u) - ReservedFor(u)[j] + ReservedFor(u)'[j]
    BY <1>1, <1>3, <2>1, JobSumUpdate
  <2> QED
    BY <1>1, <1>4, <2>1, <2>2
<1>8. r2 = r - IF u = c THEN held + taken ELSE 0
  <2>1. /\ \A v \in Users \ {c, f} : wallet'[v] = wallet[v]
        /\ wallet'[f].reserved = wallet[f].reserved
        /\ wallet'[c].reserved = wallet[c].reserved - held - taken
    BY CompletionPays DEF JobOf
  <2> HIDE DEF held, taken, c, f
  <2> QED
    BY <1>1, <1>2, <1>4, <2>1
<1>9. Gap(u) = r - w - s /\ Gap(u)' = r2 - w' - s2
  BY DEF Gap
<1> HIDE DEF held, taken, c, f, r, r2, w, s, s2
<1>10. /\ u # c => Gap(u)' = Gap(u)
       /\ Gap(u)' <= Gap(u)
       /\ Gap(u) \in Int
  BY <1>1, <1>2, <1>4, <1>6, <1>7, <1>8, <1>9
<1> QED
  BY <1>10 DEF c

\* It adds its price to what the two parties were paid or paid, and to nobody
\* else's.
LEMMA CompletionEarns ==
  ASSUME HiringShape, NEW p \in Proposals, NEW i \in Rounds, CompleteAgreement(p, i),
         NEW u \in Users
  PROVE  SumTo(CompletedFor(u), MaxProposals)'
           = SumTo(CompletedFor(u), MaxProposals)
             + IF u \in {JobOf(p).client, proposal[p].freelancer}
               THEN offer[p][i].amount ELSE 0
<1> DEFINE j == proposal[p].job
           c == JobOf(p).client
           f == proposal[p].freelancer
           amount == offer[p][i].amount
           extra == IF u \in {c, f} THEN amount ELSE 0
           g == CompletedFor(u)
           h == CompletedFor(u)'
           sum == SumTo(g, MaxProposals)
           sum2 == SumTo(CompletedFor(u), MaxProposals)'
           part == g[p] + extra
<1>1. /\ j \in Jobs /\ j # 0 /\ c = job[j].client /\ amount \in Nat
      /\ agreement[p][i] # "COMPLETED"
  BY CompletionParties DEF JobOf
<1>2. HiringTypeOK /\ HiringTypeOK'
  BY CompletionShape DEF HiringShape
<1>3. /\ \A k \in Jobs \ {j} : job'[k] = job[k]
      /\ job'[j].client = job[j].client
      /\ \A q \in Proposals, m \in Rounds :
           agreement'[q][m] = IF q = p /\ m = i THEN "COMPLETED" ELSE agreement[q][m]
      /\ UNCHANGED <<proposal, offer>>
  BY CompletionRows
<1>4. \A q \in Proposals : proposal[q].job \in 0..MaxJobs
  BY <1>2 DEF HiringTypeOK, ProposalRow
<1>5. \A q \in Proposals : Party(u, q)' <=> Party(u, q)
  <2>1. ASSUME NEW q \in Proposals PROVE proposal[q].job # 0 => JobOf(q)'.client = JobOf(q).client
    BY <1>1, <1>3, <1>4, HiringAssumption DEF JobOf, Jobs
  <2> QED
    BY <1>3, <2>1 DEF Party
<1>6. \A q \in Proposals \ {p} : Worth(q)' = Worth(q)
  <2>1. ASSUME NEW q \in Proposals \ {p} PROVE PaidPrice(q)' = PaidPrice(q)
    BY <1>3 DEF PaidPrice
  <2> QED
    BY <2>1 DEF Worth
<1>7. Worth(p)' = Worth(p) + amount /\ Worth(p) \in Int
  <2> DEFINE b == PaidPrice(p)
  <2>1. b \in [1..MaxOffers -> Int] /\ i \in 1..MaxOffers /\ MaxOffers \in Nat
    BY <1>2, WorthTypes, HiringAssumption DEF Rounds
  <2>2. PaidPrice(p)' = [b EXCEPT ![i] = amount]
    BY <1>3 DEF PaidPrice
  <2>3. b[i] = 0
    BY <1>1 DEF PaidPrice
  <2>4. Worth(p)' = SumTo([b EXCEPT ![i] = amount], MaxOffers) /\ Worth(p) = SumTo(b, MaxOffers)
    BY <2>2 DEF Worth
  <2>5. Worth(p) \in Int
    BY <1>2, WorthTypes
  <2>7. amount \in Int
    BY <1>1
  <2> HIDE DEF b, amount
  <2>6. SumTo([b EXCEPT ![i] = amount], MaxOffers) = SumTo(b, MaxOffers) - b[i] + amount
    BY <2>1, <2>7, SumToUpdate
  <2> QED
    BY <1>1, <2>3, <2>4, <2>5, <2>6
<1>8. /\ g = [q \in Proposals |-> IF Party(u, q) THEN Worth(q) ELSE 0]
      /\ g \in [1..MaxProposals -> Int]
  BY <1>2, CompletedForParts
<1>9. h = [q \in Proposals |-> IF Party(u, q)' THEN Worth(q)' ELSE 0]
  BY DEF CompletedFor, Party, Worth, PaidPrice
<1>10. Party(u, p) <=> u \in {c, f}
  BY <1>1 DEF Party
<1> HIDE DEF amount, c, f, g, h
<1>11. h = [g EXCEPT ![p] = part]
  <2>1. h[p] = part
    BY <1>1, <1>5, <1>7, <1>8, <1>9, <1>10
  <2>2. \A q \in Proposals \ {p} : h[q] = g[q]
    BY <1>5, <1>6, <1>8, <1>9
  <2>3. h = [q \in Proposals |-> h[q]] /\ g = [q \in Proposals |-> g[q]]
    BY <1>8, <1>9
  <2> HIDE DEF part
  <2> QED
    BY <2>1, <2>2, <2>3
<1>12. /\ p \in 1..MaxProposals /\ MaxProposals \in Nat /\ extra \in Int /\ g[p] \in Int
       /\ part \in Int
  BY <1>1, <1>8, HiringAssumption DEF Proposals
<1>13. sum2 = SumTo(h, MaxProposals)
  BY DEF h
<1>14. sum \in Int
  BY <1>8, <1>12, SumToInt
<1> HIDE DEF extra, sum, sum2
<1>15. SumTo([g EXCEPT ![p] = part], MaxProposals) = sum - g[p] + part
  <2> HIDE DEF part
  <2> QED
    BY <1>8, <1>12, SumToUpdate DEF sum
<1>16. sum2 = sum + extra
  BY <1>11, <1>12, <1>13, <1>14, <1>15
<1> QED
  BY <1>16 DEF sum, sum2, extra, g, amount, c, f

\* A payment completes no more than one project.
LEMMA CompletesOne ==
  ASSUME ProjectRows, NEW j
  PROVE  CompletedWith(j) = {} \/ \E a \in Agreements : CompletedWith(j) = {a}
<1> DEFINE N == {n \in OfJob(j) : \A k \in OfJob(j) : k <= n}
<1>1. made \in Seq(Agreements)
  BY DEF ProjectRows
<1>2. OfJob(j) \subseteq 1..Len(made) /\ Len(made) \in Nat
  BY <1>1 DEF OfJob
<1>3. CompletedWith(j) = {made[n] : n \in N}
  BY DEF CompletedWith
<1>4. CASE N = {}
  BY <1>3, <1>4
<1>5. CASE N # {}
  <2>1. PICK n \in N : TRUE
    BY <1>5
  <2>2. \A m \in N : m = n
    BY <1>2, <2>1
  <2>3. made[n] \in Agreements
    BY <1>1, <1>2, <2>1
  <2> HIDE DEF N
  <2>4. CompletedWith(j) = {made[n]}
    BY <1>3, <2>1, <2>2
  <2> QED
    BY <2>3, <2>4
<1> QED
  BY <1>4, <1>5

\* Sets of agreements are finite.
LEMMA AgreementsFinite ==
  \A S \in SUBSET Agreements : IsFiniteSet(S) /\ Cardinality(S) \in Nat
<1>1. IsFiniteSet(Proposals) /\ IsFiniteSet(Rounds)
  BY HiringAssumption, FS_Interval DEF Proposals, Rounds
<1>2. IsFiniteSet(Agreements)
  BY <1>1, FS_Product DEF Agreements
<1> QED
  BY <1>2, FS_Subset, FS_CardinalityType

\* Adding what a payment completes adds one project and one paid agreement.
LEMMA CompletionNotAhead ==
  ASSUME HiringShape, ProjectRows, FinishedNotAhead,
         NEW p \in Proposals, NEW i \in Rounds, CompleteAgreement(p, i)
  PROVE  FinishedNotAhead'
<1> DEFINE a == <<p, i>>
           P == PaidAgreements
           D == CompletedWith(proposal[p].job)
<1>1. agreement[p][i] # "COMPLETED"
  BY CompletionParties
<1>2. \A q \in Proposals, m \in Rounds :
        agreement'[q][m] = IF q = p /\ m = i THEN "COMPLETED" ELSE agreement[q][m]
  BY CompletionRows
<1>3. a \in Agreements /\ a \notin P /\ PaidAgreements' = P \cup {a}
  BY <1>1, <1>2 DEF Agreements, PaidAgreements
<1>4. P \subseteq Agreements /\ finished \subseteq Agreements
  BY DEF PaidAgreements, ProjectRows
<1>5. finished' = finished \cup D
  BY DEF CompleteAgreement
<1>6. D = {} \/ \E b \in Agreements : D = {b}
  BY CompletesOne
<1>7. /\ IsFiniteSet(P) /\ Cardinality(P) \in Nat
      /\ IsFiniteSet(finished) /\ Cardinality(finished) \in Nat
  BY <1>4, AgreementsFinite
<1> HIDE DEF a, P, D
<1>8. Cardinality(P \cup {a}) = Cardinality(P) + 1
  BY <1>3, <1>7, FS_AddElement
<1>9. Cardinality(finished \cup D) <= Cardinality(finished) + 1
  <2>1. CASE D = {}
    <3>1. finished \cup D = finished
      BY <2>1
    <3> QED
      BY <1>7, <3>1
  <2>2. ASSUME NEW b \in Agreements, D = {b}
        PROVE  Cardinality(finished \cup D) <= Cardinality(finished) + 1
    <3>1. CASE b \in finished
      <4>1. finished \cup D = finished
        BY <2>2, <3>1
      <4>2. Cardinality(finished \cup D) = Cardinality(finished)
        BY <4>1
      <4> QED
        BY <1>7, <4>2
    <3>2. CASE b \notin finished
      <4>1. Cardinality(finished \cup {b}) = Cardinality(finished) + 1
        BY <1>7, <3>2, FS_AddElement
      <4>2. Cardinality(finished \cup D) = Cardinality(finished) + 1
        BY <2>2, <4>1
      <4> QED
        BY <1>7, <4>2
    <3> QED
      BY <3>1, <3>2
  <2> QED
    BY <1>6, <2>1, <2>2
<1>10. Cardinality(finished) <= Cardinality(P)
  BY DEF FinishedNotAhead, P
<1>11. Cardinality(finished \cup D) \in Int
  <2>1. finished \cup D \in SUBSET Agreements
    BY <1>4, <1>6
  <2> QED
    BY <2>1, AgreementsFinite
<1>12. Cardinality(finished') <= Cardinality(PaidAgreements')
  BY <1>3, <1>5, <1>7, <1>8, <1>9, <1>10, <1>11
<1> QED
  BY <1>12 DEF FinishedNotAhead

-----------------------------------------------------------------------------
(* What stays reserved.                                                    *)

\* NothingStranded in terms of the gap.
LEMMA StrandedGaps ==
  ASSUME HiringTypeOK, NothingStranded, NEW u \in Users
  PROVE  /\ Gap(u) \in Int /\ Gap(u) <= 0
         /\ Completions(u) = {} => Gap(u) = 0
<1> DEFINE r == wallet[u].reserved
           w == WithdrawalSum(u, "PENDING")
           s == JobSum(u)
<1>1. r \in Nat /\ w \in Int /\ s \in Int
  BY GapTypes
<1>2. r <= w + s /\ (Completions(u) = {} => r = w + s)
  BY DEF NothingStranded, JobSum
<1>3. Gap(u) = r - w - s
  BY DEF Gap
<1> HIDE DEF r, w, s
<1> QED
  BY <1>1, <1>2, <1>3

\* The same after a step.
LEMMA GapsStrand ==
  ASSUME HiringTypeOK',
         \A u \in Users : /\ Gap(u)' <= 0
                          /\ Completions(u)' = {} => Gap(u)' = 0
  PROVE  NothingStranded'
<1> SUFFICES ASSUME NEW u \in Users
             PROVE  /\ wallet'[u].reserved <= WithdrawalSum(u, "PENDING")' + JobSum(u)'
                    /\ Completions(u)' = {} =>
                         wallet'[u].reserved = WithdrawalSum(u, "PENDING")' + JobSum(u)'
  BY DEF NothingStranded, JobSum
<1> DEFINE r == wallet'[u].reserved
           w == WithdrawalSum(u, "PENDING")'
           s == JobSum(u)'
<1>1. r \in Nat /\ w \in Int /\ s \in Int
  BY GapTypesAfter
<1>2. r - w - s <= 0 /\ (Completions(u)' = {} => r - w - s = 0)
  BY DEF Gap
<1> HIDE DEF r, w, s
<1>3. r <= w + s /\ (Completions(u)' = {} => r = w + s)
  BY <1>1, <1>2
<1> QED
  BY <1>3 DEF r, w, s

\* A completion is one of the client's completions from then on, and takes no
\* earlier one away.
LEMMA CompletionCounts ==
  ASSUME HiringShape, NEW p \in Proposals, NEW i \in Rounds, CompleteAgreement(p, i),
         NEW u \in Users
  PROVE  /\ u = JobOf(p).client => Completions(u)' # {}
         /\ Completions(u) # {} => Completions(u)' # {}
<1>1. /\ proposal[p].job \in Jobs /\ proposal[p].job # 0
      /\ job[proposal[p].job].client = JobOf(p).client
  BY CompletionParties DEF JobOf
<1>2. /\ \A k \in Jobs \ {proposal[p].job} : job'[k] = job[k]
      /\ job'[proposal[p].job].client = job[proposal[p].job].client
      /\ \A q \in Proposals, m \in Rounds :
           agreement'[q][m] = IF q = p /\ m = i THEN "COMPLETED" ELSE agreement[q][m]
      /\ UNCHANGED proposal
  BY CompletionRows
<1>3. \A q \in Proposals : proposal[q].job \in 0..MaxJobs
  BY DEF HiringShape, HiringTypeOK, ProposalRow
<1>4. ASSUME NEW q \in Proposals, proposal[q].job # 0, JobOf(q).client = u,
             \E m \in Rounds : agreement'[q][m] = "COMPLETED"
      PROVE  q \in Completions(u)'
  <2>1. JobOf(q)'.client = JobOf(q).client
    BY <1>1, <1>2, <1>3, <1>4, HiringAssumption DEF JobOf, Jobs
  <2> QED
    BY <1>2, <1>4, <2>1 DEF Completions
<1>5. u = JobOf(p).client => p \in Completions(u)'
  BY <1>1, <1>2, <1>4
<1>6. \A q \in Completions(u) : q \in Completions(u)'
  BY <1>2, <1>4 DEF Completions
<1> QED
  BY <1>5, <1>6

-----------------------------------------------------------------------------
(* The treasury behind the payments.                                       *)

\* What one user has less the other has more: a transfer of the treasury.
LEMMA TreasuryTransfers ==
  ASSUME NEW u \in Users, NEW v \in Users, u # v, NEW amount \in Int,
         Total(wallet[u]) >= amount,
         Total(wallet'[u]) = Total(wallet[u]) - amount,
         Total(wallet'[v]) = Total(wallet[v]) + amount,
         \A x \in Users \ {u, v} : Total(wallet'[x]) = Total(wallet[x]),
         UNCHANGED <<deposit, withdrawal>>
  PROVE  Abstract!Transfer(u, v, amount)
<1> DEFINE Coins == [x \in Users |-> Total(wallet[x])]
           CoinsAfter == [x \in Users |-> Total(wallet'[x])]
<1>1. CoinsAfter = [Coins EXCEPT ![u] = Coins[u] - amount, ![v] = Coins[v] + amount]
  <2>1. /\ Coins = [x \in Users |-> Coins[x]]
        /\ CoinsAfter = [x \in Users |-> CoinsAfter[x]]
        /\ \A x \in Users \ {u, v} : CoinsAfter[x] = Coins[x]
        /\ CoinsAfter[u] = Coins[u] - amount /\ CoinsAfter[v] = Coins[v] + amount
    OBVIOUS
  <2> HIDE DEF Coins, CoinsAfter
  <2> QED
    BY <2>1
<1>2. Coins[u] >= amount
  OBVIOUS
<1>3. \A x, s : /\ DepositSum(x, s)' = DepositSum(x, s)
                /\ WithdrawalSum(x, s)' = WithdrawalSum(x, s)
  BY SumsUnchanged
<1>4. /\ [x \in Users |-> DepositSum(x, "APPROVED")']
           = [x \in Users |-> DepositSum(x, "APPROVED")]
      /\ [x \in Users |-> WithdrawalSum(x, "APPROVED")']
           = [x \in Users |-> WithdrawalSum(x, "APPROVED")]
  BY <1>3
<1> QED
  BY <1>1, <1>2, <1>4 DEF Abstract!Transfer

\* The completion is a transfer from the client to the freelancer.
LEMMA CompletionTransfers ==
  ASSUME HiringShape, PricedOffers,
         NEW p \in Proposals, NEW i \in Rounds, CompleteAgreement(p, i)
  PROVE  Abstract!Next
<1> DEFINE c == JobOf(p).client
           f == proposal[p].freelancer
           amount == offer[p][i].amount
<1>1. /\ c \in Users /\ f \in Users /\ c # f /\ amount \in Nat
      /\ offer[p][i].status = "ACCEPTED"
  BY CompletionParties
<1>2. amount \in Amounts \ {0}
  BY <1>1 DEF PricedOffers
<1>3. /\ wallet' \in [Users -> Wallet]
      /\ \A u \in Users \ {c, f} : wallet'[u] = wallet[u]
      /\ Total(wallet'[f]) = Total(wallet[f]) + amount
      /\ Total(wallet'[c]) = Total(wallet[c]) - amount
  BY CompletionPays
<1>4. UNCHANGED <<deposit, withdrawal>>
  BY CompletionRows DEF books
<1> HIDE DEF c, f, amount
<1>5. Total(wallet[c]) >= amount
  <2>1. Total(wallet'[c]) \in Nat
    BY <1>1, <1>3 DEF Total, Wallet
  <2>2. Total(wallet[c]) \in Int
    BY <1>1 DEF HiringShape, HiringTypeOK, TypeOK, Total, Wallet
  <2> QED
    BY <1>1, <1>3, <2>1, <2>2
<1>6. \A u \in Users \ {c, f} : Total(wallet'[u]) = Total(wallet[u])
  BY <1>3
<1>7. Abstract!Transfer(c, f, amount)
  BY <1>1, <1>3, <1>4, <1>5, <1>6, TreasuryTransfers
<1> QED
  BY <1>1, <1>2, <1>7 DEF Abstract!Next

-----------------------------------------------------------------------------
(* The invariant.                                                          *)

\* Every step keeps projects those of agreements.
LEMMA ProjectRowsStay ==
  ASSUME ProjectRows, [PayoutNext]_PayoutVars
  PROVE  ProjectRows'
<1> USE DEF ProjectRows
<1>1. ASSUME UNCHANGED pVars PROVE ProjectRows'
  BY <1>1 DEF pVars
<1>2. CASE OpenProjectList
  BY <1>2 DEF OpenProjectList
<1>3. ASSUME NEW a \in Agreements, CreateProjectFromAgreement(a) PROVE ProjectRows'
  BY <1>3 DEF CreateProjectFromAgreement
<1>4. ASSUME NEW a \in Agreements, NEW u \in Users, SubmitReview(a, u) PROVE ProjectRows'
  BY <1>4 DEF SubmitReview
<1>5. ASSUME NEW p \in Proposals, NEW i \in Rounds, CompleteAgreement(p, i)
      PROVE  ProjectRows'
  <2>1. CompletedWith(proposal[p].job) \subseteq Agreements
    BY CompletesOne
  <2> QED
    BY <1>5, <2>1 DEF CompleteAgreement
<1> QED
  BY <1>1, <1>2, <1>3, <1>4, <1>5 DEF PayoutNext, ProjectsStep, PayoutVars

\* The three kinds of steps.
LEMMA PayoutSteps ==
  ASSUME [PayoutNext]_PayoutVars
  PROVE  \/ [HiringNext]_hVars /\ UNCHANGED finished
         \/ \E p \in Proposals, i \in Rounds : CompleteAgreement(p, i)
<1>1. CASE HiringNext /\ UNCHANGED pVars
  BY <1>1 DEF pVars
<1>2. CASE ProjectsStep
  <2>1. UNCHANGED <<hVars, finished>>
    BY <1>2 DEF ProjectsStep, OpenProjectList, CreateProjectFromAgreement, SubmitReview
  <2> QED
    BY <2>1
<1>3. CASE UNCHANGED PayoutVars
  BY <1>3 DEF PayoutVars, pVars
<1> QED
  BY <1>1, <1>2, <1>3 DEF PayoutNext

\* Every step keeps the invariant.
LEMMA PayoutStays == PayoutIInv /\ [PayoutNext]_PayoutVars => PayoutIInv'
<1> SUFFICES ASSUME PayoutIInv, [PayoutNext]_PayoutVars PROVE PayoutIInv'
  OBVIOUS
<1>a. /\ HiringShape /\ ProjectRows /\ PricedOffers /\ EarningsMatchCompletions
      /\ NothingStranded /\ FinishedNotAhead /\ HiringTypeOK
  BY DEF PayoutIInv, HiringShape
<1>b. \A u \in Users : /\ wallet[u].earned \in Int
                       /\ wallet[u].earned = SumTo(CompletedFor(u), MaxProposals)
  BY <1>a DEF HiringTypeOK, TypeOK, Wallet, EarningsMatchCompletions
<1>1. ProjectRows'
  BY <1>a, ProjectRowsStay
<1>2. ASSUME [HiringNext]_hVars, UNCHANGED finished PROVE PayoutIInv'
  <2>1. HiringShape' /\ PricedOffers'
    BY <1>2, <1>a, ShapeStays, PricesStay
  <2>2. EarningsMatchCompletions'
    <3>1. ASSUME NEW u \in Users
          PROVE  wallet'[u].earned = SumTo(CompletedFor(u)', MaxProposals)
      BY <1>2, <1>a, <1>b, EarnedStays, CompletedForStays
    <3> QED
      BY <3>1 DEF EarningsMatchCompletions
  <2>3. NothingStranded'
    <3>1. \A u \in Users : /\ Gap(u)' <= 0
                           /\ Completions(u)' = {} => Gap(u)' = 0
      BY <1>2, <1>a, StrandedGaps, GapStays, CompletionsStay
    <3> QED
      BY <2>1, <3>1, GapsStrand DEF HiringShape
  <2>4. FinishedNotAhead'
    <3>1. PaidAgreements' = PaidAgreements
      BY <1>2, <1>a, PaidStay DEF PaidAgreements, Agreements
    <3> QED
      BY <1>2, <1>a, <3>1 DEF FinishedNotAhead
  <2> QED
    BY <1>1, <2>1, <2>2, <2>3, <2>4 DEF PayoutIInv
<1>3. ASSUME NEW p \in Proposals, NEW i \in Rounds, CompleteAgreement(p, i) PROVE PayoutIInv'
  <2>1. HiringShape'
    BY <1>3, <1>a, CompletionShape
  <2>2. PricedOffers'
    <3>1. UNCHANGED <<proposal, offer>>
      BY <1>3 DEF CompleteAgreement
    <3> QED
      BY <1>a, <3>1 DEF PricedOffers
  <2>3. EarningsMatchCompletions'
    <3> SUFFICES ASSUME NEW u \in Users
                 PROVE  wallet'[u].earned = SumTo(CompletedFor(u), MaxProposals)'
      BY DEF EarningsMatchCompletions
    <3> DEFINE c == JobOf(p).client
               f == proposal[p].freelancer
               amount == offer[p][i].amount
               sum2 == SumTo(CompletedFor(u), MaxProposals)'
    <3>1. c # f /\ c \in Users /\ f \in Users /\ amount \in Nat
      BY <1>3, <1>a, CompletionParties
    <3>2. /\ \A v \in Users \ {c, f} : wallet'[v] = wallet[v]
          /\ wallet'[f].earned = wallet[f].earned + amount
          /\ wallet'[c].earned = wallet[c].earned + amount
      BY <1>3, <1>a, CompletionPays
    <3>3. sum2 = SumTo(CompletedFor(u), MaxProposals) + IF u \in {c, f} THEN amount ELSE 0
      BY <1>3, <1>a, CompletionEarns
    <3> HIDE DEF c, f, amount, sum2
    <3>4. wallet'[u].earned = sum2
      BY <1>b, <3>1, <3>2, <3>3
    <3> QED
      BY <3>4 DEF sum2
  <2>4. NothingStranded'
    <3>1. ASSUME NEW u \in Users
          PROVE  /\ Gap(u)' <= 0
                 /\ Completions(u)' = {} => Gap(u)' = 0
      <4>1. /\ Gap(u) \in Int /\ Gap(u) <= 0
            /\ Completions(u) = {} => Gap(u) = 0
        BY <1>a, StrandedGaps
      <4>2. /\ u # JobOf(p).client => Gap(u)' = Gap(u)
            /\ Gap(u)' <= Gap(u)
        BY <1>3, <1>a, CompletionGap
      <4>3. /\ u = JobOf(p).client => Completions(u)' # {}
            /\ Completions(u) # {} => Completions(u)' # {}
        BY <1>3, <1>a, CompletionCounts
      <4>4. Gap(u)' \in Int
        BY <2>1, GapTypesAfter DEF HiringShape, Gap
      <4> QED
        BY <4>1, <4>2, <4>3, <4>4
    <3> QED
      BY <2>1, <3>1, GapsStrand DEF HiringShape
  <2>5. FinishedNotAhead'
    BY <1>3, <1>a, CompletionNotAhead
  <2> QED
    BY <1>1, <2>1, <2>2, <2>3, <2>4, <2>5 DEF PayoutIInv
<1> QED
  BY <1>2, <1>3, PayoutSteps

\* Nothing is paid and nothing made at the start.
LEMMA PayoutStarts == HiringInit /\ ProjectsInit => PayoutIInv
<1> SUFFICES ASSUME HiringInit, ProjectsInit PROVE PayoutIInv
  OBVIOUS
<1>1. HiringShape /\ HiringTypeOK /\ ReservedBacksCommitments
  BY HiringStarts DEF HiringIInv, HiringShape
<1>2. \A p \in Proposals, i \in Rounds :
        agreement[p][i] # "COMPLETED" /\ offer[p][i].status = "NONE"
  BY DEF HiringInit
<1>3. \A p \in Proposals : proposal[p].status = "NONE"
  BY DEF HiringInit
<1>4. ProjectRows
  BY DEF ProjectsInit, ProjectRows
<1>5. PricedOffers
  BY <1>2, <1>3 DEF PricedOffers
<1>6. EarningsMatchCompletions
  <2> SUFFICES ASSUME NEW u \in Users
               PROVE  wallet[u].earned = SumTo(CompletedFor(u), MaxProposals)
    BY DEF EarningsMatchCompletions
  <2>1. wallet[u].earned = 0
    BY DEF HiringInit, Init, NewWallet
  <2>2. CompletedFor(u) = [p \in 1..MaxProposals |-> 0] /\ MaxProposals \in Nat
    <3>1. \A p \in Proposals : Worth(p) = 0
      BY <1>1, <1>2, WorthTypes
    <3>2. CompletedFor(u) = [p \in Proposals |-> IF Party(u, p) THEN Worth(p) ELSE 0]
      BY <1>1, CompletedForParts
    <3> QED
      BY <3>1, <3>2, HiringAssumption DEF Proposals
  <2> QED
    BY <2>1, <2>2, SumToZero
<1>7. NothingStranded
  <2> SUFFICES ASSUME NEW u \in Users
               PROVE  LET committed == WithdrawalSum(u, "PENDING") + SumTo(ReservedFor(u), MaxJobs)
                      IN  /\ wallet[u].reserved <= committed
                          /\ Completions(u) = {} => wallet[u].reserved = committed
    BY DEF NothingStranded
  <2>1. wallet[u].reserved = WithdrawalSum(u, "PENDING") + SumTo(ReservedFor(u), MaxJobs)
    BY <1>1 DEF ReservedBacksCommitments
  <2>2. wallet[u].reserved \in Nat
    BY <1>1, GapTypes
  <2> QED
    BY <2>1, <2>2
<1>8. FinishedNotAhead
  <2>1. finished = {} /\ PaidAgreements = {}
    BY <1>2 DEF ProjectsInit, PaidAgreements, Agreements
  <2>2. Cardinality({}) = 0
    BY FS_EmptySet
  <2> QED
    BY <2>1, <2>2 DEF FinishedNotAhead
<1> QED
  BY <1>1, <1>4, <1>5, <1>6, <1>7, <1>8 DEF PayoutIInv

\* The invariant of every behaviour, from the job's draft to the review of the
\* finished project.
THEOREM PayoutInductive == PayoutSpec => []PayoutIInv
BY PayoutStarts, PayoutStays, PTL DEF PayoutSpec

\* What a wallet says was earned is always what completed agreements of its
\* owner were worth, each counted once, for the payer as for the paid.
THEOREM EarningsAlwaysMatch == PayoutSpec => []EarningsMatchCompletions
<1>1. PayoutIInv => EarningsMatchCompletions
  BY DEF PayoutIInv
<1> QED
  BY <1>1, PayoutInductive, PTL

\* No wallet ever reserves more than its pending withdrawals and its jobs hold,
\* nor less until its owner's first completed agreement.
THEOREM NothingEverStranded == PayoutSpec => []NothingStranded
<1>1. PayoutIInv => NothingStranded
  BY DEF PayoutIInv
<1> QED
  BY <1>1, PayoutInductive, PTL

\* Never are more projects finished or reviewed than agreements paid.
THEOREM ProjectsNeverAhead == PayoutSpec => []ProjectPerPayment
<1>1. PayoutIInv => ProjectPerPayment
  <2> SUFFICES ASSUME PayoutIInv PROVE ProjectPerPayment
    OBVIOUS
  <2>1. finished \cup {r[1] : r \in reviews} = finished
    BY DEF PayoutIInv, ProjectRows
  <2> QED
    BY <2>1 DEF PayoutIInv, FinishedNotAhead, PaidAgreements, ProjectPerPayment
<1> QED
  BY <1>1, PayoutInductive, PTL

\* Hiring and payments implement the treasury: a completed agreement moves its
\* price from one user to another, and nothing on the way creates or destroys a
\* coin.
THEOREM PaymentsImplement == PayoutSpec => PaymentsImplementTreasury
<1>1. HiringInit => Abstract!Init
  BY TreasuryInit DEF HiringInit
<1>2. PayoutIInv /\ [PayoutNext]_PayoutVars => [Abstract!Next]_(Abstract!vars)
  <2> SUFFICES ASSUME PayoutIInv, [PayoutNext]_PayoutVars
               PROVE  [Abstract!Next]_(Abstract!vars)
    OBVIOUS
  <2> QED
    BY PayoutSteps, HiringTreasury, CompletionTransfers DEF PayoutIInv
<1> QED
  BY <1>1, <1>2, PayoutInductive, PTL DEF PayoutSpec, PaymentsImplementTreasury, Abstract!Spec

\* When the client's wallet reserves the price of the job and nothing else, the
\* completion raises: the price is taken out of the reservation, and then all of
\* the reservation is to be returned (agreements/services.py:117).
OrdinaryWorkIsStuck ==
  \A p \in Proposals, i \in Rounds :
    LET w == wallet[JobOf(p).client]
        held == JobOf(p).reserved
        amount == offer[p][i].amount
    IN  /\ agreement[p][i] \in Unpaid
        /\ amount <= held
        /\ w.reserved = held
        => ~ CanSettle(w, amount, held)

\* A client who has no other commitment can never complete an agreement whose
\* price is reserved, frozen or not, for any amounts.
THEOREM OrdinaryWorkAlwaysStuck == PayoutSpec => []OrdinaryWorkIsStuck
<1>1. PayoutIInv => OrdinaryWorkIsStuck
  <2> SUFFICES ASSUME PayoutIInv, NEW p \in Proposals, NEW i \in Rounds,
                      agreement[p][i] \in Unpaid,
                      offer[p][i].amount <= JobOf(p).reserved,
                      wallet[JobOf(p).client].reserved = JobOf(p).reserved,
                      CanSettle(wallet[JobOf(p).client], offer[p][i].amount, JobOf(p).reserved)
               PROVE  FALSE
    BY DEF OrdinaryWorkIsStuck
  <2> DEFINE w == wallet[JobOf(p).client]
             held == JobOf(p).reserved
             amount == offer[p][i].amount
             after == AfterShare(w, amount)
  <2>1. /\ HiringShape /\ PricedOffers /\ agreement[p][i] # "NONE"
    BY DEF PayoutIInv, Unpaid
  <2>2. /\ offer[p][i].status = "ACCEPTED"
        /\ proposal[p].status = "ACCEPTED" /\ job[proposal[p].job].hired # NoUser
    BY <2>1 DEF HiringShape, AgreementFollowsOffer
  <2>3. amount \in Amounts \ {0}
    BY <2>1, <2>2 DEF PricedOffers
  <2>4. amount \in Nat /\ amount > 0
    <3>1. Amounts \subseteq Nat
      BY ConstantsAssumption
    <3> HIDE DEF amount
    <3> QED
      BY <2>3, <3>1
  <2>5. proposal[p].job \in Jobs /\ JobOf(p) \in JobRow /\ JobOf(p).client \in Users
    BY <2>1, <2>2, JobsHaveClients DEF HiringShape, ProposedJobs, Unpublished, JobOf, HiringTypeOK
  <2>6. held \in Nat /\ w \in Wallet /\ w.reserved \in Nat
    BY <2>1, <2>5 DEF JobRow, HiringShape, HiringTypeOK, TypeOK, Wallet
  <2>7. /\ amount > 0 => CanMove(w, PaymentBucket(w, amount), "external", amount)
        /\ held > 0 => CanMove(after, "reserved", "available", held)
    BY DEF CanSettle
  <2>8. w.reserved = held /\ amount <= held
    OBVIOUS
  <2> HIDE DEF w, held, amount
  <2>9. after.reserved = w.reserved - (IF w.reserved >= amount THEN amount ELSE 0)
    BY <2>4, <2>6, <2>7, ShareEffect
  <2>10. CanMove(after, "reserved", "available", held)
    BY <2>4, <2>6, <2>7, <2>8
  <2> HIDE DEF after
  <2>11. after.reserved >= held
    BY <2>10 DEF CanMove
  <2> QED
    BY <2>4, <2>6, <2>8, <2>9, <2>11
<1> QED
  BY <1>1, PayoutInductive, PTL

=============================================================================
