-------------------------- MODULE Messaging_proofs ---------------------------
(***************************************************************************)
(* What Messaging keeps for any number of freelancers, readers and         *)
(* messages.  ReadWasShown is not inductive: that a new message is not     *)
(* marked already rests on ReceiptsOfMessages.  The counters rest on it    *)
(* too: a message that nobody has sent yet must not count as read.         *)
(***************************************************************************)
EXTENDS Messaging, Ledger_proofs

\* Only messages that were sent have receipts.
ReceiptsOfMessages == \A f \in Freelancers : receipts[f] \subseteq Messages(f)

\* The inductive invariant.
ReadIInv == MessagingTypeOK /\ ReceiptsOfMessages /\ ReadWasShown

-----------------------------------------------------------------------------
\* A conversation is a sequence of senders, so its length is a natural number.
LEMMA LengthsAreNatural ==
  ASSUME MessagingTypeOK, NEW f \in Freelancers
  PROVE  log[f] \in Seq(Side) /\ Len(log[f]) \in Nat
  BY DEF MessagingTypeOK

\* A page is at one stage at a time.
LEMMA StagesDiffer ==
  /\ Closed # Loading
  /\ \A p \in Page : p.stage = "open" => p \in Opened /\ p # Loading
  /\ \A p \in Opened : p # Loading
  BY DEF Closed, Loading, Opened, Page

\* What an answered poll does to the page that asked and to what was seen on it.
LEMMA PollShowsMore ==
  ASSUME MessagingTypeOK, NEW f \in Freelancers, NEW s \in Side, PollAnswered(f, s)
  PROVE  \E upTo \in Nat :
           /\ page' = [page EXCEPT ![f][s].shown = upTo, ![f][s].failures = 0]
           /\ seen' = [seen EXCEPT ![f][s] = IF upTo > @ THEN upTo ELSE @]
<1>1. page[f][s] \in Opened
  BY StagesDiffer DEF MessagingTypeOK, PollAnswered, Polling
<1>2. Least(Len(log[f]), page[f][s].shown + Batch) \in Nat
  BY <1>1, LengthsAreNatural, MessagingAssumption DEF Least, Opened
<1> QED
  BY <1>2 DEF PollAnswered

-----------------------------------------------------------------------------
\* Every step keeps the types.
LEMMA TypesStay ==
  ASSUME MessagingTypeOK, [MessagingNext]_mVars
  PROVE  MessagingTypeOK'
<1>1. ASSUME NEW f \in Freelancers, NEW s \in Side, OpenJobConversation(f, s) PROVE MessagingTypeOK'
  BY <1>1 DEF OpenJobConversation, MessagingTypeOK
<1>2. ASSUME NEW f \in Freelancers, NEW s \in Side, SendMessage(f, s) PROVE MessagingTypeOK'
  <2>1. Append(log[f], s) \in Seq(Side)
    BY LengthsAreNatural
  <2>2. Other(s) \in Side
    BY DEF Other, Side
  <2>3. unread' \in [Freelancers -> [Side -> Nat]] /\ jobCount' \in Nat
    BY <1>2, <2>2 DEF SendMessage, MessagingTypeOK
  <2> QED
    BY <1>2, <2>1, <2>3 DEF SendMessage, MessagingTypeOK
<1>3. ASSUME NEW f \in Freelancers, NEW s \in Side, OpenPage(f, s) PROVE MessagingTypeOK'
  <2>1. ReceivedBy(f, s) \subseteq Nat
    BY LengthsAreNatural DEF ReceivedBy, Messages
  <2> QED
    BY <1>3, <2>1 DEF OpenPage, MessagingTypeOK, Page
<1>4. ASSUME NEW f \in Freelancers, NEW s \in Side, RenderPage(f, s) PROVE MessagingTypeOK'
  <2>1. [stage |-> "open", shown |-> Len(log[f]), failures |-> 0] \in Opened
    BY LengthsAreNatural DEF Opened
  <2> QED
    BY <1>4, <2>1, LengthsAreNatural DEF RenderPage, MessagingTypeOK, Page
<1>5. ASSUME NEW f \in Freelancers, NEW s \in Side, PageIsLost(f, s) PROVE MessagingTypeOK'
  <2>1. ReceivedBy(f, s) \subseteq Nat
    BY LengthsAreNatural DEF ReceivedBy, Messages
  <2> QED
    BY <1>5, <2>1 DEF PageIsLost, MessagingTypeOK, Page
<1>6. ASSUME NEW f \in Freelancers, NEW s \in Side, ClosePage(f, s) PROVE MessagingTypeOK'
  BY <1>6 DEF ClosePage, MessagingTypeOK, Page
<1>7. ASSUME NEW f \in Freelancers, NEW s \in Side, PollAnswered(f, s) PROVE MessagingTypeOK'
  <2>1. PICK upTo \in Nat :
          /\ page' = [page EXCEPT ![f][s].shown = upTo, ![f][s].failures = 0]
          /\ seen' = [seen EXCEPT ![f][s] = IF upTo > @ THEN upTo ELSE @]
    BY <1>7, PollShowsMore
  <2>2. page[f][s] \in Opened
    BY <1>7, StagesDiffer DEF MessagingTypeOK, PollAnswered, Polling
  <2>3. [page[f][s] EXCEPT !.shown = upTo, !.failures = 0] \in Opened
    BY <2>2 DEF Opened
  <2>4. page' \in [Freelancers -> [Side -> Page]]
    BY <2>1, <2>3 DEF MessagingTypeOK, Page
  <2>5. seen' \in [Freelancers -> [Side -> Nat]]
    BY <2>1 DEF MessagingTypeOK
  <2> QED
    BY <1>7, <2>4, <2>5 DEF PollAnswered, MessagingTypeOK
<1>8. ASSUME NEW f \in Freelancers, NEW s \in Side, PollFails(f, s) PROVE MessagingTypeOK'
  <2>1. page[f][s] \in Opened
    BY <1>8, StagesDiffer DEF MessagingTypeOK, PollFails, Polling
  <2>2. [page[f][s] EXCEPT !.failures = page[f][s].failures + 1] \in Opened
    BY <2>1 DEF Opened
  <2>3. page' \in [Freelancers -> [Side -> Page]]
    BY <1>8, <2>2 DEF PollFails, MessagingTypeOK, Page
  <2> QED
    BY <1>8, <2>3 DEF PollFails, MessagingTypeOK
<1>9. CASE UNCHANGED mVars
  BY <1>9 DEF mVars, MessagingTypeOK
<1> QED
  BY <1>1, <1>2, <1>3, <1>4, <1>5, <1>6, <1>7, <1>8, <1>9 DEF MessagingNext, Poll

\* Every variable of the conversations keeps its type.
THEOREM MessagingTypesKept == MessagingSpec => []MessagingTypeOK
<1>1. MessagingInit => MessagingTypeOK
  BY DEF MessagingInit, MessagingTypeOK, Page
<1>2. MessagingTypeOK /\ [MessagingNext]_mVars => MessagingTypeOK'
  BY TypesStay
<1> QED
  BY <1>1, <1>2, PTL DEF MessagingSpec

\* Conversations only grow, and a message that was sent stays as it is.
LEMMA MessagesStay ==
  ASSUME MessagingTypeOK, [MessagingNext]_mVars, NEW f \in Freelancers
  PROVE  /\ Messages(f) \subseteq Messages(f)'
         /\ \A n \in Messages(f) : log'[f][n] = log[f][n]
<1>1. ASSUME NEW g \in Freelancers, NEW s \in Side, SendMessage(g, s)
      PROVE  /\ Messages(f) \subseteq Messages(f)'
             /\ \A n \in Messages(f) : log'[f][n] = log[f][n]
  <2>1. CASE g = f
    <3>1. log'[f] = Append(log[f], s)
      BY <1>1, <2>1 DEF SendMessage, MessagingTypeOK
    <3> QED
      BY <3>1, LengthsAreNatural DEF Messages
  <2>2. CASE g # f
    BY <1>1, <2>2 DEF SendMessage, MessagingTypeOK, Messages
  <2> QED
    BY <2>1, <2>2
<1>2. CASE UNCHANGED log
  BY <1>2 DEF Messages
<1> QED
  BY <1>1, <1>2 DEF MessagingNext, mVars, OpenJobConversation, OpenPage, RenderPage, PageIsLost,
     ClosePage, Poll, PollAnswered, PollFails

\* Every step keeps receipts to messages that were sent.
LEMMA ReceiptsKeepMessages ==
  ASSUME MessagingTypeOK, ReceiptsOfMessages, [MessagingNext]_mVars
  PROVE  ReceiptsOfMessages'
<1> SUFFICES ASSUME NEW f \in Freelancers PROVE receipts'[f] \subseteq Messages(f)'
  BY DEF ReceiptsOfMessages
<1>1. receipts[f] \subseteq Messages(f)'
  BY MessagesStay DEF ReceiptsOfMessages
<1>2. ASSUME NEW g \in Freelancers, NEW s \in Side, OpenPage(g, s)
      PROVE  receipts'[f] \subseteq Messages(f)'
  BY <1>1, <1>2 DEF OpenPage, MessagingTypeOK, ReceivedBy, Messages
<1>3. CASE UNCHANGED receipts
  BY <1>1, <1>3
<1> QED
  BY <1>2, <1>3 DEF MessagingNext, mVars, OpenJobConversation, SendMessage, RenderPage, PageIsLost,
     ClosePage, Poll, PollAnswered, PollFails

\* What ReadWasShown says of message n of conversation f and reader s.
Accounted(f, s, n) == n <= seen[f][s] \/ page[f][s] = Loading \/ n \in lost[f]

\* Every step keeps ReadWasShown, given what it rests on.
LEMMA ReadStaysShown ==
  ASSUME ReadIInv, [MessagingNext]_mVars
  PROVE  ReadWasShown'
<1> USE DEF ReadIInv
<1> SUFFICES ASSUME NEW g \in Freelancers, NEW t \in Side,
                    NEW n \in ReceivedBy(g, t)' \cap receipts'[g]
             PROVE  Accounted(g, t, n)'
  BY DEF ReadWasShown, Accounted
<1>0. n \in Nat /\ n <= Len(log'[g])
  BY TypesStay, LengthsAreNatural DEF ReceivedBy, Messages, MessagingTypeOK
<1>a. n \in ReceivedBy(g, t) /\ n \in receipts[g] => Accounted(g, t, n)
  BY DEF ReadWasShown, Accounted
<1>1. ASSUME UNCHANGED <<receipts>>
      PROVE  n \in ReceivedBy(g, t) /\ n \in receipts[g]
  <2>1. n \in Messages(g)
    BY <1>1 DEF ReceiptsOfMessages
  <2> QED
    BY <1>1, <2>1, MessagesStay DEF ReceivedBy
<1>2. CASE UNCHANGED <<receipts, page, seen, lost>>
  BY <1>a, <1>1, <1>2 DEF Accounted
<1>3. ASSUME NEW f \in Freelancers, NEW s \in Side, OpenPage(f, s) PROVE Accounted(g, t, n)'
  <2>1. CASE g = f /\ t = s
    BY <1>3, <2>1 DEF OpenPage, MessagingTypeOK, Accounted
  <2>2. CASE g = f /\ t # s
    <3>1. n \in ReceivedBy(f, t) /\ n \in Messages(f)
      BY <1>3, <2>2 DEF OpenPage, ReceivedBy, Messages
    <3>2. log[f][n] \in Side
      BY <3>1, LengthsAreNatural DEF Messages
    <3>3. n \notin ReceivedBy(f, s)
      BY <3>1, <3>2, <2>2 DEF ReceivedBy, Side
    <3>4. n \in receipts[f]
      BY <1>3, <2>2, <3>3 DEF OpenPage, MessagingTypeOK
    <3> QED
      BY <1>3, <1>a, <2>2, <3>1, <3>4 DEF OpenPage, MessagingTypeOK, Accounted
  <2>3. CASE g # f
    <3>1. n \in ReceivedBy(g, t) /\ n \in receipts[g]
      BY <1>3, <2>3 DEF OpenPage, MessagingTypeOK, ReceivedBy, Messages
    <3> QED
      BY <1>3, <1>a, <2>3, <3>1 DEF OpenPage, MessagingTypeOK, Accounted
  <2> QED
    BY <2>1, <2>2, <2>3
<1>4. ASSUME NEW f \in Freelancers, NEW s \in Side, RenderPage(f, s) PROVE Accounted(g, t, n)'
  <2>1. Accounted(g, t, n)
    BY <1>a, <1>1, <1>4 DEF RenderPage
  <2>2. CASE g = f /\ t = s
    BY <1>0, <1>4, <2>2 DEF RenderPage, MessagingTypeOK, Accounted
  <2>3. CASE ~ (g = f /\ t = s)
    BY <1>4, <2>1, <2>3 DEF RenderPage, MessagingTypeOK, Accounted
  <2> QED
    BY <2>2, <2>3
<1>5. ASSUME NEW f \in Freelancers, NEW s \in Side, PageIsLost(f, s) PROVE Accounted(g, t, n)'
  <2>1. Accounted(g, t, n) /\ n \in ReceivedBy(g, t)
    BY <1>a, <1>1, <1>5 DEF PageIsLost
  <2>2. CASE g = f /\ t = s
    BY <1>5, <2>1, <2>2 DEF PageIsLost, MessagingTypeOK, Accounted
  <2>3. CASE ~ (g = f /\ t = s)
    BY <1>5, <2>1, <2>3 DEF PageIsLost, MessagingTypeOK, Accounted
  <2> QED
    BY <2>2, <2>3
<1>6. ASSUME NEW f \in Freelancers, NEW s \in Side, ClosePage(f, s) PROVE Accounted(g, t, n)'
  <2>1. Accounted(g, t, n)
    BY <1>a, <1>1, <1>6 DEF ClosePage
  <2>2. page[f][s] # Loading
    BY <1>6, StagesDiffer DEF ClosePage, MessagingTypeOK
  <2> QED
    BY <1>6, <2>1, <2>2 DEF ClosePage, MessagingTypeOK, Accounted
<1>7. ASSUME NEW f \in Freelancers, NEW s \in Side, PollAnswered(f, s) PROVE Accounted(g, t, n)'
  <2>1. Accounted(g, t, n)
    BY <1>a, <1>1, <1>7 DEF PollAnswered
  <2>2. page[f][s] # Loading
    BY <1>7, StagesDiffer DEF PollAnswered, Polling, MessagingTypeOK
  <2>3. PICK upTo \in Nat :
          /\ page' = [page EXCEPT ![f][s].shown = upTo, ![f][s].failures = 0]
          /\ seen' = [seen EXCEPT ![f][s] = IF upTo > @ THEN upTo ELSE @]
    BY <1>7, PollShowsMore
  <2>4. seen'[g][t] \in Nat /\ seen[g][t] \in Nat /\ seen'[g][t] >= seen[g][t]
    BY <2>3 DEF MessagingTypeOK
  <2>5. page[g][t] = Loading => page'[g][t] = Loading
    BY <2>2, <2>3 DEF MessagingTypeOK
  <2>6. lost' = lost
    BY <1>7 DEF PollAnswered
  <2> QED
    BY <1>0, <2>1, <2>4, <2>5, <2>6 DEF Accounted
<1>8. ASSUME NEW f \in Freelancers, NEW s \in Side, PollFails(f, s) PROVE Accounted(g, t, n)'
  <2>1. Accounted(g, t, n)
    BY <1>a, <1>1, <1>8 DEF PollFails
  <2>2. page[f][s] # Loading
    BY <1>8, StagesDiffer DEF PollFails, Polling, MessagingTypeOK
  <2>3. page[g][t] = Loading => page'[g][t] = Loading
    BY <1>8, <2>2 DEF PollFails, MessagingTypeOK
  <2> QED
    BY <1>8, <2>1, <2>3 DEF PollFails, Accounted
<1> QED
  BY <1>2, <1>3, <1>4, <1>5, <1>6, <1>7, <1>8
     DEF MessagingNext, mVars, OpenJobConversation, SendMessage, Poll

\* A message marked read was shown, its page is being made, or its page was
\* lost: for any number of conversations, messages and readers.
THEOREM ReadAlwaysWasShown == MessagingSpec => []ReadWasShown
<1>1. MessagingInit => ReadIInv
  <2> SUFFICES ASSUME MessagingInit PROVE ReadIInv
    OBVIOUS
  <2>1. MessagingTypeOK
    BY DEF MessagingInit, MessagingTypeOK, Page
  <2> QED
    BY <2>1 DEF MessagingInit, ReadIInv, ReceiptsOfMessages, ReadWasShown
<1>2. ReadIInv /\ [MessagingNext]_mVars => ReadIInv'
  BY TypesStay, ReceiptsKeepMessages, ReadStaysShown DEF ReadIInv
<1>3. ReadIInv => ReadWasShown
  BY DEF ReadIInv
<1> QED
  BY <1>1, <1>2, <1>3, PTL DEF MessagingSpec

-----------------------------------------------------------------------------
(* The counters.                                                           *)

\* The messages of the other side without a receipt.
Unread(f, s) == ReceivedBy(f, s) \ receipts[f]

\* How long each conversation is.
Lengths == [f \in Freelancers |-> Len(log[f])]

\* The inductive invariant of the counters.
CountIInv == MessagingTypeOK /\ ReceiptsOfMessages /\ UnreadMatchesReceipts

\* They are finitely many.
LEMMA UnreadIsFinite ==
  ASSUME MessagingTypeOK, NEW f \in Freelancers, NEW s \in Side
  PROVE  IsFiniteSet(Unread(f, s)) /\ Cardinality(Unread(f, s)) \in Nat
<1>1. IsFiniteSet(1..Len(log[f]))
  BY LengthsAreNatural, FS_Interval
<1>2. Unread(f, s) \subseteq 1..Len(log[f])
  BY DEF Unread, ReceivedBy, Messages
<1> QED
  BY <1>1, <1>2, FS_Subset, FS_CardinalityType

\* A message is unread for the side that did not send it, and for no other.
LEMMA SentToOther ==
  ASSUME MessagingTypeOK, ReceiptsOfMessages,
         NEW f \in Freelancers, NEW s \in Side, SendMessage(f, s)
  PROVE  /\ Len(log[f]) + 1 \notin Unread(f, Other(s))
         /\ Unread(f, Other(s))' = Unread(f, Other(s)) \cup {Len(log[f]) + 1}
         /\ Unread(f, s)' = Unread(f, s)
<1>1. /\ log'[f] = Append(log[f], s) /\ log[f] \in Seq(Side) /\ Len(log[f]) \in Nat
      /\ receipts'[f] = receipts[f]
  BY LengthsAreNatural DEF SendMessage, MessagingTypeOK
<1>2. /\ Messages(f) = 1..Len(log[f]) /\ Messages(f)' = 1..(Len(log[f]) + 1)
      /\ \A n \in 1..Len(log[f]) : log'[f][n] = log[f][n]
      /\ log'[f][Len(log[f]) + 1] = s
  BY <1>1 DEF Messages
<1>3. Len(log[f]) + 1 \notin receipts[f] /\ Len(log[f]) + 1 \notin Messages(f)
  BY <1>1, <1>2 DEF ReceiptsOfMessages
<1>4. s # Other(s)
  BY DEF Side, Other
<1>5. Messages(f)' = Messages(f) \cup {Len(log[f]) + 1}
  BY <1>1, <1>2
<1> QED
  BY <1>1, <1>2, <1>3, <1>4, <1>5 DEF Unread, ReceivedBy

\* The counter of each participant.
LEMMA UnreadStays ==
  ASSUME CountIInv, [MessagingNext]_mVars, NEW f \in Freelancers, NEW s \in Side
  PROVE  unread'[f][s] = Cardinality(Unread(f, s)')
<1>0. MessagingTypeOK /\ ReceiptsOfMessages /\ unread[f][s] = Cardinality(Unread(f, s))
  BY DEF CountIInv, UnreadMatchesReceipts, Unread
<1>1. ASSUME NEW g \in Freelancers, NEW t \in Side, SendMessage(g, t)
      PROVE  unread'[f][s] = Cardinality(Unread(f, s)')
  <2>1. CASE g # f
    <3>1. unread'[f] = unread[f] /\ log'[f] = log[f] /\ receipts'[f] = receipts[f]
      BY <1>0, <1>1, <2>1 DEF SendMessage, MessagingTypeOK
    <3> QED
      BY <1>0, <3>1 DEF Unread, ReceivedBy, Messages
  <2>2. CASE g = f /\ s = t
    <3>1. unread'[f][s] = unread[f][s]
      BY <1>0, <1>1, <2>2 DEF SendMessage, MessagingTypeOK, Other, Side
    <3> QED
      BY <1>0, <1>1, <2>2, <3>1, SentToOther
  <2>3. CASE g = f /\ s = Other(t)
    <3>1. unread'[f][s] = unread[f][s] + 1
      BY <1>0, <1>1, <2>3 DEF SendMessage, MessagingTypeOK
    <3>2. /\ Len(log[f]) + 1 \notin Unread(f, s)
          /\ Unread(f, s)' = Unread(f, s) \cup {Len(log[f]) + 1}
      BY <1>0, <1>1, <2>3, SentToOther
    <3>3. Cardinality(Unread(f, s)') = Cardinality(Unread(f, s)) + 1
      BY <1>0, <3>2, UnreadIsFinite, FS_AddElement
    <3> QED
      BY <1>0, <3>1, <3>3
  <2>4. s = t \/ s = Other(t)
    BY DEF Other, Side
  <2> QED
    BY <2>1, <2>2, <2>3, <2>4
<1>2. ASSUME NEW g \in Freelancers, NEW t \in Side, OpenPage(g, t)
      PROVE  unread'[f][s] = Cardinality(Unread(f, s)')
  <2>0. log' = log /\ receipts' = [receipts EXCEPT ![g] = @ \cup ReceivedBy(g, t)]
    BY <1>2 DEF OpenPage
  <2>1. CASE g # f
    <3>1. unread'[f] = unread[f] /\ receipts'[f] = receipts[f]
      BY <1>0, <1>2, <2>1 DEF OpenPage, MessagingTypeOK
    <3> QED
      BY <1>0, <2>0, <3>1 DEF Unread, ReceivedBy, Messages
  <2>2. CASE g = f /\ s = t
    <3>1. unread'[f][s] = 0
      BY <1>0, <1>2, <2>2 DEF OpenPage, MessagingTypeOK
    <3>2. receipts'[f] = receipts[f] \cup ReceivedBy(f, s)
      BY <1>0, <2>0, <2>2 DEF MessagingTypeOK
    <3>3. Unread(f, s)' = {}
      BY <2>0, <3>2 DEF Unread, ReceivedBy, Messages
    <3> QED
      BY <3>1, <3>3, FS_EmptySet
  <2>3. CASE g = f /\ s # t
    <3>1. unread'[f][s] = unread[f][s]
      BY <1>0, <1>2, <2>3 DEF OpenPage, MessagingTypeOK
    <3>2. receipts'[f] = receipts[f] \cup ReceivedBy(f, t)
      BY <1>0, <2>0, <2>3 DEF MessagingTypeOK
    <3>3. \A n \in Messages(f) : log[f][n] \in {s, t}
      <4>1. log[f] \in Seq(Side)
        BY <1>0, LengthsAreNatural
      <4>2. \A n \in 1..Len(log[f]) : log[f][n] \in Side
        BY <4>1
      <4> QED
        BY <2>3, <4>2 DEF Messages, Side
    <3>4. Unread(f, s)' = Unread(f, s)
      BY <2>0, <2>3, <3>2, <3>3 DEF Unread, ReceivedBy, Messages
    <3> QED
      BY <1>0, <3>1, <3>4
  <2> QED
    BY <2>1, <2>2, <2>3
<1>3. CASE UNCHANGED <<log, unread, receipts>>
  BY <1>0, <1>3 DEF Unread, ReceivedBy, Messages
<1> QED
  BY <1>1, <1>2, <1>3 DEF MessagingNext, mVars, OpenJobConversation, RenderPage, PageIsLost,
     ClosePage, Poll, PollAnswered, PollFails

\* The counter of the job.
LEMMA JobCountStays ==
  ASSUME MessagingTypeOK, jobCount = SumOver(Lengths, Freelancers), [MessagingNext]_mVars
  PROVE  jobCount' = SumOver(Lengths', Freelancers)
<1>0. IsFiniteSet(Freelancers) /\ Lengths \in [Freelancers -> Int]
  BY LengthsAreNatural, MessagingAssumption DEF Lengths
<1>1. ASSUME NEW f \in Freelancers, NEW s \in Side, SendMessage(f, s)
      PROVE  jobCount' = SumOver(Lengths', Freelancers)
  <2> DEFINE v == Lengths[f] + 1
  <2>1. jobCount' = jobCount + 1 /\ log' = [log EXCEPT ![f] = Append(log[f], s)]
    BY <1>1 DEF SendMessage
  <2>2. Len(Append(log[f], s)) = Len(log[f]) + 1
    BY LengthsAreNatural
  <2>3. Lengths' = [Lengths EXCEPT ![f] = v]
    BY <2>1, <2>2 DEF Lengths, MessagingTypeOK
  <2>4. Lengths[f] \in Int /\ v \in Int
    BY <1>0
  <2> HIDE DEF v
  <2>5. \A S : IsFiniteSet(S) =>
          \A g \in [S -> Int], k \in S, c \in Int :
            /\ SumOver(g, S) \in Int
            /\ SumOver([g EXCEPT ![k] = c], S) = SumOver(g, S) - g[k] + c
    BY SumOverUpdate
  <2>6. \A g \in [Freelancers -> Int], k \in Freelancers, c \in Int :
          /\ SumOver(g, Freelancers) \in Int
          /\ SumOver([g EXCEPT ![k] = c], Freelancers) = SumOver(g, Freelancers) - g[k] + c
    BY <1>0, <2>5
  <2>7. /\ SumOver(Lengths, Freelancers) \in Int
        /\ SumOver([Lengths EXCEPT ![f] = v], Freelancers)
             = SumOver(Lengths, Freelancers) - Lengths[f] + v
    <3>1. Lengths \in [Freelancers -> Int] /\ v \in Int
      BY <1>0, <2>4
    <3> QED
      BY <2>6, <3>1
  <2> QED
    BY <2>1, <2>3, <2>4, <2>7 DEF v
<1>2. CASE UNCHANGED <<log, jobCount>>
  BY <1>2 DEF Lengths
<1> QED
  BY <1>1, <1>2 DEF MessagingNext, mVars, OpenJobConversation, OpenPage, RenderPage, PageIsLost,
     ClosePage, Poll, PollAnswered, PollFails

\* Sending, marking read and showing a conversation, in any order and from any
\* number of pages, leave the counters what the rows say.
THEOREM CountersAlwaysMatch == MessagingSpec => []UnreadMatchesReceipts
<1>0. /\ UnreadMatchesReceipts <=>
           /\ \A f \in Freelancers, s \in Side : unread[f][s] = Cardinality(Unread(f, s))
           /\ jobCount = SumOver(Lengths, Freelancers)
      /\ UnreadMatchesReceipts' <=>
           /\ \A f \in Freelancers, s \in Side : unread'[f][s] = Cardinality(Unread(f, s)')
           /\ jobCount' = SumOver(Lengths', Freelancers)
  BY DEF UnreadMatchesReceipts, Unread, Lengths
<1>1. MessagingInit => CountIInv
  <2> SUFFICES ASSUME MessagingInit PROVE CountIInv
    OBVIOUS
  <2>1. MessagingTypeOK /\ ReceiptsOfMessages
    BY DEF MessagingInit, MessagingTypeOK, Page, ReceiptsOfMessages
  <2>2. ASSUME NEW f \in Freelancers, NEW s \in Side
        PROVE  unread[f][s] = Cardinality(Unread(f, s))
    <3>1. Unread(f, s) = {} /\ unread[f][s] = 0
      BY DEF MessagingInit, Unread, ReceivedBy, Messages
    <3> QED
      BY <3>1, FS_EmptySet
  <2>3. jobCount = SumOver(Lengths, Freelancers)
    <3> DEFINE g == [f \in Freelancers |-> 0]
    <3>1. Lengths = g /\ jobCount = 0
      BY DEF MessagingInit, Lengths
    <3>2. IsFiniteSet(Freelancers) /\ Cardinality(Freelancers) \in Nat
      BY MessagingAssumption, FS_CardinalityType
    <3>3. SumOver(g, Freelancers) = Cardinality(Freelancers) * 0
      <4>1. \A S : \A c \in Int :
              IsFiniteSet(S) => SumOver([x \in S |-> c], S) = Cardinality(S) * c
        BY SumOverConstant
      <4>2. 0 \in Int
        OBVIOUS
      <4> QED
        BY <3>2, <4>1, <4>2
    <3> HIDE DEF g
    <3> QED
      BY <3>1, <3>2, <3>3
  <2> QED
    BY <1>0, <2>1, <2>2, <2>3 DEF CountIInv
<1>2. CountIInv /\ [MessagingNext]_mVars => CountIInv'
  <2> SUFFICES ASSUME CountIInv, [MessagingNext]_mVars PROVE CountIInv'
    OBVIOUS
  <2>1. MessagingTypeOK' /\ ReceiptsOfMessages'
    BY TypesStay, ReceiptsKeepMessages DEF CountIInv
  <2>2. \A f \in Freelancers, s \in Side : unread'[f][s] = Cardinality(Unread(f, s)')
    BY UnreadStays
  <2>3. jobCount' = SumOver(Lengths', Freelancers)
    BY <1>0, JobCountStays DEF CountIInv
  <2> QED
    BY <1>0, <2>1, <2>2, <2>3 DEF CountIInv
<1>3. CountIInv => UnreadMatchesReceipts
  BY DEF CountIInv
<1> QED
  BY <1>1, <1>2, <1>3, PTL DEF MessagingSpec

=============================================================================
