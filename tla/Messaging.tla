------------------------------ MODULE Messaging ------------------------------
(***************************************************************************)
(* The conversations of one job: src/apps/messaging/services.py, the views *)
(* in front of it, and the script of the conversation page                 *)
(* (conversation.js), which asks for new messages as long as it is open.   *)
(*                                                                         *)
(* A conversation is between the client and one freelancer and is named by *)
(* the freelancer.  Sending and marking read are one transaction each.     *)
(* Showing a conversation is two: the view marks every message read, and   *)
(* the messages are fetched when the template is rendered, later.  A       *)
(* message is its position in the conversation, whose order is that of     *)
(* created_at.                                                             *)
(*                                                                         *)
(* Bounds: MaxMessages on the whole job, and Readers, who open pages.       *)
(* Content, mentions, attachments and notifications are left out, and so   *)
(* are archived and project conversations, which nothing creates.          *)
(***************************************************************************)
EXTENDS Sequences, Sums

CONSTANTS Freelancers, Readers, MaxMessages, Batch, MaxFailures

ASSUME MessagingAssumption ==
  /\ IsFiniteSet(Freelancers) /\ MaxMessages \in Nat
  /\ Readers \subseteq Freelancers \X {"client", "freelancer"}
  /\ Batch \in Nat \ {0} /\ MaxFailures \in Nat \ {0}

VARIABLES
  initiator,  \* who opened each conversation, "NONE" if nobody has
  log,        \* the senders of its messages, in order
  unread,     \* unread_count of its two participants
  receipts,   \* its messages that the other participant has a receipt for
  jobCount,   \* message_count of the job
  page,       \* the page each participant has of it
  seen,       \* how many of its messages each participant has been shown
  lost        \* messages marked read for a page that was never delivered

mVars == <<initiator, log, unread, receipts, jobCount, page, seen, lost>>

Side == {"client", "freelancer"}
Other(s) == IF s = "client" THEN "freelancer" ELSE "client"

\* "loading": marked read, not rendered.  "open": "shown" messages are on the
\* page, whose last "failures" polls failed.
Closed == [stage |-> "closed"]
Loading == [stage |-> "loading"]
Opened == [stage : {"open"}, shown : Nat, failures : Nat]
Page == {Closed, Loading} \cup Opened

MessagingTypeOK ==
  /\ initiator \in [Freelancers -> Side \cup {"NONE"}]
  /\ log \in [Freelancers -> Seq(Side)]
  /\ unread \in [Freelancers -> [Side -> Nat]]
  /\ receipts \in [Freelancers -> SUBSET Nat]
  /\ jobCount \in Nat
  /\ page \in [Freelancers -> [Side -> Page]]
  /\ seen \in [Freelancers -> [Side -> Nat]]
  /\ lost \in [Freelancers -> SUBSET Nat]

MessagingInit ==
  /\ initiator = [f \in Freelancers |-> "NONE"]
  /\ log = [f \in Freelancers |-> <<>>]
  /\ unread = [f \in Freelancers |-> [s \in Side |-> 0]]
  /\ receipts = [f \in Freelancers |-> {}]
  /\ jobCount = 0
  /\ page = [f \in Freelancers |-> [s \in Side |-> Closed]]
  /\ seen = [f \in Freelancers |-> [s \in Side |-> 0]]
  /\ lost = [f \in Freelancers |-> {}]

Messages(f) == 1..Len(log[f])

-----------------------------------------------------------------------------
\* An existing conversation is handed back.  A job conversation is unique for
\* its job and initiator, so the client can open one per job and no more.
OpenJobConversation(f, s) ==
  /\ initiator[f] = "NONE"
  /\ s = "client" => \A g \in Freelancers : initiator[g] # "client"
  /\ initiator' = [initiator EXCEPT ![f] = s]
  /\ UNCHANGED <<log, unread, receipts, jobCount, page, seen, lost>>

\* Faulty variant: the sender has a new unread message as well.
SendMessageToBoth(f, s) ==
  /\ initiator[f] # "NONE"
  /\ jobCount < MaxMessages
  /\ log' = [log EXCEPT ![f] = Append(@, s)]
  /\ unread' = [unread EXCEPT ![f] = [t \in Side |-> @[t] + 1]]
  /\ jobCount' = jobCount + 1
  /\ UNCHANGED <<initiator, receipts, page, seen, lost>>

SendMessage(f, s) ==
  /\ initiator[f] # "NONE"
  /\ jobCount < MaxMessages
  /\ log' = [log EXCEPT ![f] = Append(@, s)]
  /\ unread' = [unread EXCEPT ![f][Other(s)] = @ + 1]
  /\ jobCount' = jobCount + 1
  /\ UNCHANGED <<initiator, receipts, page, seen, lost>>

ReceivedBy(f, s) == {n \in Messages(f) : log[f][n] # s}

\* The first half of detail(): mark_conversation_read(), in one transaction.
\* The page may be opened anew at any time.
OpenPage(f, s) ==
  /\ initiator[f] # "NONE"
  /\ page[f][s] # Loading
  /\ receipts' = [receipts EXCEPT ![f] = @ \cup ReceivedBy(f, s)]
  /\ unread' = [unread EXCEPT ![f][s] = 0]
  /\ page' = [page EXCEPT ![f][s] = Loading]
  /\ UNCHANGED <<initiator, log, jobCount, seen, lost>>

\* Faulty variant: only the first messages are rendered.
RenderPageInBatches(f, s) ==
  LET upTo == IF Len(log[f]) < Batch THEN Len(log[f]) ELSE Batch
  IN  /\ page[f][s] = Loading
      /\ page' = [page EXCEPT ![f][s] = [stage |-> "open", shown |-> upTo, failures |-> 0]]
      /\ seen' = [seen EXCEPT ![f][s] = IF upTo > @ THEN upTo ELSE @]
      /\ UNCHANGED <<initiator, log, unread, receipts, jobCount, lost>>

\* The second half: the template fetches the messages there are by now.
RenderPage(f, s) ==
  /\ page[f][s] = Loading
  /\ page' = [page EXCEPT ![f][s] = [stage |-> "open", shown |-> Len(log[f]), failures |-> 0]]
  /\ seen' = [seen EXCEPT ![f][s] = Len(log[f])]
  /\ UNCHANGED <<initiator, log, unread, receipts, jobCount, lost>>

\* The response never arrives: an error, or a reader who went elsewhere.
PageIsLost(f, s) ==
  /\ page[f][s] = Loading
  /\ page' = [page EXCEPT ![f][s] = Closed]
  /\ lost' = [lost EXCEPT ![f] = @ \cup ReceivedBy(f, s)]
  /\ UNCHANGED <<initiator, log, unread, receipts, jobCount, seen>>

ClosePage(f, s) ==
  /\ page[f][s].stage = "open"
  /\ page' = [page EXCEPT ![f][s] = Closed]
  /\ UNCHANGED <<initiator, log, unread, receipts, jobCount, seen, lost>>

\* Faulty variant: the timer is not set again after a failure.
PollingUntilFailure(f, s) == page[f][s].stage = "open" /\ page[f][s].failures = 0

\* The script sets its timer again until the failures are too many.
Polling(f, s) == page[f][s].stage = "open" /\ page[f][s].failures < MaxFailures

Least(a, b) == IF a < b THEN a ELSE b

\* The messages after the last one shown, at most Batch of them.  Nothing is
\* marked read.
PollAnswered(f, s) ==
  LET upTo == Least(Len(log[f]), page[f][s].shown + Batch)
  IN  /\ Polling(f, s)
      /\ page' = [page EXCEPT ![f][s].shown = upTo, ![f][s].failures = 0]
      /\ seen' = [seen EXCEPT ![f][s] = IF upTo > @ THEN upTo ELSE @]
      /\ UNCHANGED <<initiator, log, unread, receipts, jobCount, lost>>

PollFails(f, s) ==
  /\ Polling(f, s)
  /\ page' = [page EXCEPT ![f][s].failures = @ + 1]
  /\ UNCHANGED <<initiator, log, unread, receipts, jobCount, seen, lost>>

Poll(f, s) == PollAnswered(f, s) \/ PollFails(f, s)

MessagingNext ==
  \E f \in Freelancers, s \in Side :
    \/ OpenJobConversation(f, s) \/ SendMessage(f, s)
    \/ <<f, s>> \in Readers /\ OpenPage(f, s)
    \/ RenderPage(f, s) \/ PageIsLost(f, s) \/ ClosePage(f, s)
    \/ Poll(f, s)

\* The timer of an open page fires, and its request is answered or fails.
MessagingFairness == \A f \in Freelancers, s \in Side : WF_mVars(Poll(f, s))

MessagingSpec == MessagingInit /\ [][MessagingNext]_mVars /\ MessagingFairness

-----------------------------------------------------------------------------
\* The counters say what the rows say: unread_count is the number of messages
\* of the other side without a receipt, and the job counts every message.
UnreadMatchesReceipts ==
  /\ \A f \in Freelancers, s \in Side :
       unread[f][s] = Cardinality(ReceivedBy(f, s) \ receipts[f])
  /\ jobCount = SumOver([f \in Freelancers |-> Len(log[f])], Freelancers)

\* Nothing is marked read behind the reader's back: a message that arrives
\* between the two halves of detail() is shown without being marked, never the
\* reverse.  Only a page that was lost on its way can break that.
ReadWasShown ==
  \A f \in Freelancers, s \in Side : \A n \in ReceivedBy(f, s) \cap receipts[f] :
    n <= seen[f][s] \/ page[f][s] = Loading \/ n \in lost[f]

\* A page that stays open comes to show every message, in batches and through
\* failures, unless it has given up (conversation.js:85).
OpenPageShowsAll ==
  \A f \in Freelancers, s \in Side, n \in 1..MaxMessages :
    (page[f][s].stage = "open" /\ n <= Len(log[f]))
      ~> \/ page[f][s].stage # "open"
         \/ page[f][s].shown >= n
         \/ page[f][s].failures = MaxFailures

=============================================================================
