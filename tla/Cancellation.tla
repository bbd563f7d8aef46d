---------------------------- MODULE Cancellation ----------------------------
(***************************************************************************)
(* cancel_job() of src/apps/marketplace/services.py next to Hiring.  The   *)
(* function returns the reservation, cancels the job and rejects its open  *)
(* proposals, and then calls notify_many() with positional arguments that  *)
(* notifications/services.py takes by keyword only: the TypeError rolls    *)
(* the transaction back, and a request leaves no trace but refundDue.      *)
(***************************************************************************)
EXTENDS Hiring

VARIABLE refundDue   \* jobs cancelled by their client while they held a reservation

CancelInit == HiringInit /\ refundDue = {}

CancelJob(j) ==
  /\ job[j].status \in Cancellable
  /\ job[j].hired = NoUser
  /\ refundDue' = IF job[j].reserved > 0 THEN refundDue \cup {j} ELSE refundDue
  /\ UNCHANGED hVars

CancelNext ==
  \/ \E j \in Jobs : CancelJob(j)
  \/ HiringNext /\ UNCHANGED refundDue

CancelSpec == CancelInit /\ [][CancelNext]_<<hVars, refundDue>>

\* terms.html:25-26: "Cancelling before anybody is hired returns the
\* reservation in full."
CancelReturnsReservation == \A j \in refundDue : job[j].reserved = 0

=============================================================================
