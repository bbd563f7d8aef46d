------------------------------- MODULE Projects -------------------------------
(***************************************************************************)
(* The projects that carry out agreements: project_list(),                 *)
(* create_project_from_agreement() and submit_review() of                  *)
(* src/apps/projects/, on Hiring.                                          *)
(*                                                                         *)
(* A project is made the first time anybody opens the list of projects     *)
(* while its agreement is ACTIVE; an agreement whose work is submitted     *)
(* before that never gets one.  The list is read once and the agreements   *)
(* in it are handled one by one, each in a transaction of its own.         *)
(* A project is named by its agreement: <<p, i>> is that of offer i in the *)
(* negotiation of proposal p.                                              *)
(***************************************************************************)
EXTENDS Hiring, Sequences

VARIABLES
  listed,    \* agreements a project list has read as ACTIVE and not yet handled
  made,      \* the projects, in the order of their created_at
  finished,  \* the projects that are COMPLETED
  reviews    \* pairs of a project and a party that has reviewed it

pVars == <<listed, made, finished, reviews>>

Agreements == Proposals \X Rounds

ProjectsInit == listed = {} /\ made = <<>> /\ finished = {} /\ reviews = {}

IsMade(a) == \E n \in 1..Len(made) : made[n] = a

OpenProjectList ==
  /\ listed' = listed \cup {a \in Agreements : agreement[a[1]][a[2]] = "ACTIVE"}
  /\ UNCHANGED <<hVars, made, finished, reviews>>

\* What exists already is handed back.
CreateProjectFromAgreement(a) ==
  /\ a \in listed
  /\ listed' = listed \ {a}
  /\ made' = IF IsMade(a) THEN made ELSE Append(made, a)
  /\ UNCHANGED <<hVars, finished, reviews>>

\* The projects a filter(Q(agreement=agreement) | Q(job=job)) finds, as
\* positions in "made".
OfJob(j) == {n \in 1..Len(made) : proposal[made[n][1]].job = j}

\* Faulty variant: all of them are completed.
CompletedWithAll(j) == {made[n] : n \in OfJob(j)}

\* Only the first is completed, and Project.Meta puts the newest first.
CompletedWith(j) ==
  {made[n] : n \in {n \in OfJob(j) : \A k \in OfJob(j) : k <= n}}

SubmitReview(a, u) ==
  /\ a \in finished
  /\ u \in {proposal[a[1]].freelancer, job[proposal[a[1]].job].client}
  /\ <<a, u>> \notin reviews
  /\ reviews' = reviews \cup {<<a, u>>}
  /\ UNCHANGED <<hVars, listed, made, finished>>

ProjectsStep ==
  \/ OpenProjectList
  \/ \E a \in Agreements :
       CreateProjectFromAgreement(a) \/ \E u \in Users : SubmitReview(a, u)

=============================================================================
