---------------------------- MODULE Teams_proofs -----------------------------
(***************************************************************************)
(* What Teams keeps for any number of users, invitations and requests that *)
(* run side by side.  MembersWereInvited is not inductive: that a running  *)
(* answer adds an invited user rests on what the row looks like by then,   *)
(* which AnswersHaveRows says of every request.                            *)
(***************************************************************************)
EXTENDS Teams, TLAPS

\* Every variable keeps its type.
THEOREM TeamsTypeCorrect == TeamsSpec => []TeamsTypeOK
<1>1. TeamsInit => TeamsTypeOK
  <2> SUFFICES ASSUME TeamsInit PROVE TeamsTypeOK
    OBVIOUS
  <2>1. NoInvitation \in InvitationRow
    BY TeamsAssumption DEF NoInvitation, InvitationRow, InvitationStatus
  <2> QED
    BY <2>1, TeamsAssumption DEF TeamsInit, TeamsTypeOK
<1>2. TeamsTypeOK /\ [TeamsNext]_tVars => TeamsTypeOK'
  <2> SUFFICES ASSUME TeamsTypeOK, [TeamsNext]_tVars PROVE TeamsTypeOK'
    OBVIOUS
  <2>0. ASSUME NEW r \in Requests, answer[r] # Idle
        PROVE  answer[r] \in RunningAnswer /\ answer[r].inv \in Invitations
    BY <2>0 DEF TeamsTypeOK, RunningAnswer
  <2>a. \A r \in Requests : answer[r].stage # "idle" => answer[r] # Idle
    BY DEF Idle
  <2>b. Idle \in {Idle} \cup RunningAnswer
    OBVIOUS
  <2>2. ASSUME NEW u \in Users, NEW k \in Invitations, InviteToTeam(u, k) PROVE TeamsTypeOK'
    <3>1. [to |-> u, status |-> "PENDING", old |-> FALSE] \in InvitationRow
      BY DEF InvitationRow, InvitationStatus
    <3> QED
      BY <2>2, <3>1 DEF InviteToTeam, TeamsTypeOK
  <2>3. ASSUME NEW k \in Invitations, InvitationAges(k) PROVE TeamsTypeOK'
    <3>1. [invitation[k] EXCEPT !.old = TRUE] \in InvitationRow
      BY DEF TeamsTypeOK, InvitationRow
    <3> QED
      BY <2>3, <3>1 DEF InvitationAges, TeamsTypeOK
  <2>4. ASSUME NEW r \in Requests, NEW k \in Invitations, NEW accept \in BOOLEAN,
               ReadInvitation(r, k, accept)
        PROVE  TeamsTypeOK'
    <3>1. [stage |-> "read", inv |-> k, accept |-> accept, late |-> invitation[k].old]
            \in RunningAnswer
      BY DEF RunningAnswer, TeamsTypeOK, InvitationRow
    <3> QED
      BY <2>4, <3>1 DEF ReadInvitation, TeamsTypeOK
  <2>5. ASSUME NEW r \in Requests, RefuseExpired(r) PROVE TeamsTypeOK'
    <3>1. answer[r].inv \in Invitations
      BY <2>0, <2>a, <2>5 DEF RefuseExpired
    <3>2. [invitation[answer[r].inv] EXCEPT !.status = "EXPIRED"] \in InvitationRow
      BY <3>1 DEF TeamsTypeOK, InvitationRow, InvitationStatus
    <3> QED
      BY <2>5, <2>b, <3>1, <3>2 DEF RefuseExpired, TeamsTypeOK
  <2>6. ASSUME NEW r \in Requests, SaveAnswer(r) PROVE TeamsTypeOK'
    <3>1. answer[r] \in RunningAnswer /\ answer[r].inv \in Invitations
      BY <2>0, <2>a, <2>6 DEF SaveAnswer
    <3>2. \A s \in {"ACCEPTED", "DECLINED"} :
            [invitation[answer[r].inv] EXCEPT !.status = s] \in InvitationRow
      BY <3>1 DEF TeamsTypeOK, InvitationRow, InvitationStatus
    <3>3. invitation' \in [Invitations -> InvitationRow]
      BY <2>6, <3>1, <3>2 DEF SaveAnswer, TeamsTypeOK
    <3>4. [answer[r] EXCEPT !.stage = "saved"] \in RunningAnswer
      BY <3>1 DEF RunningAnswer
    <3>5. answer' \in [Requests -> {Idle} \cup RunningAnswer]
      BY <2>6, <3>4 DEF SaveAnswer, TeamsTypeOK
    <3> QED
      BY <2>6, <3>3, <3>5 DEF SaveAnswer, TeamsTypeOK
  <2>7. ASSUME NEW r \in Requests, JoinTeam(r) PROVE TeamsTypeOK'
    <3>1. answer[r].inv \in Invitations
      BY <2>0, <2>a, <2>7 DEF JoinTeam
    <3>2. invitation[answer[r].inv].to \in Users
      BY <3>1 DEF TeamsTypeOK, InvitationRow
    <3> QED
      BY <2>7, <2>b, <3>2 DEF JoinTeam, TeamsTypeOK
  <2>8. ASSUME NEW r \in Requests, AnswerDies(r) PROVE TeamsTypeOK'
    <3>1. answer[r].inv \in Invitations
      BY <2>0, <2>8 DEF AnswerDies
    <3> QED
      BY <2>8, <2>b, <3>1 DEF AnswerDies, TeamsTypeOK
  <2>9. CASE UNCHANGED tVars
    BY <2>9 DEF tVars, TeamsTypeOK
  <2> QED
    BY <2>2, <2>3, <2>4, <2>5, <2>6, <2>7, <2>8, <2>9 DEF TeamsNext
<1> QED
  BY <1>1, <1>2, PTL DEF TeamsSpec

-----------------------------------------------------------------------------
\* Two requests to invite the same person never leave two open rows: the one
\* get_or_create() is there to find.
THEOREM AlwaysOneOpenInvitation == TeamsSpec => []OneOpenInvitation
<1>1. TeamsInit => OneOpenInvitation
  BY DEF TeamsInit, OneOpenInvitation, Open, NoInvitation
<1>2. TeamsTypeOK /\ OneOpenInvitation /\ [TeamsNext]_tVars => OneOpenInvitation'
  <2> SUFFICES ASSUME TeamsTypeOK, OneOpenInvitation, [TeamsNext]_tVars
               PROVE  OneOpenInvitation'
    OBVIOUS
  <2>1. CASE UNCHANGED invitation
    BY <2>1 DEF OneOpenInvitation, Open
  <2>2. ASSUME NEW u \in Users, NEW k \in Invitations, InviteToTeam(u, k)
        PROVE  OneOpenInvitation'
    <3>1. \A j \in Invitations : ~ Open(j, u)
      BY <2>2 DEF InviteToTeam, HandedBack
    <3>2. invitation'[k].to = u /\ \A j \in Invitations \ {k} : invitation'[j] = invitation[j]
      BY <2>2 DEF InviteToTeam, TeamsTypeOK
    <3> QED
      BY <3>1, <3>2 DEF OneOpenInvitation, Open
  <2>3. ASSUME \A j \in Invitations : /\ invitation'[j].to = invitation[j].to
                                      /\ invitation'[j].status = "PENDING"
                                           => invitation[j].status = "PENDING"
        PROVE  OneOpenInvitation'
    BY <2>3 DEF OneOpenInvitation, Open
  <2>4. ASSUME NEW k \in Invitations, InvitationAges(k) PROVE OneOpenInvitation'
    BY <2>3, <2>4 DEF InvitationAges, TeamsTypeOK, InvitationRow
  <2>5. ASSUME NEW r \in Requests, RefuseExpired(r) PROVE OneOpenInvitation'
    BY <2>3, <2>5 DEF RefuseExpired, TeamsTypeOK, InvitationRow
  <2>6. ASSUME NEW r \in Requests, SaveAnswer(r) PROVE OneOpenInvitation'
    BY <2>3, <2>6 DEF SaveAnswer, TeamsTypeOK, InvitationRow
  <2> QED
    BY <2>1, <2>2, <2>4, <2>5, <2>6
       DEF TeamsNext, tVars, ReadInvitation, JoinTeam, AnswerDies
<1> QED
  BY <1>1, <1>2, TeamsTypeCorrect, PTL DEF TeamsSpec

-----------------------------------------------------------------------------
\* A request that answers an invitation holds one that was made, and once its
\* answer is saved the row is open no more.
AnswersHaveRows ==
  \A r \in Requests :
    answer[r].stage # "idle" =>
      /\ answer[r].inv \in Invitations
      /\ invitation[answer[r].inv].status # "NONE"
      /\ answer[r].stage = "saved" => invitation[answer[r].inv].status # "PENDING"

TeamsIInv == TeamsTypeOK /\ AnswersHaveRows /\ MembersWereInvited

\* Rows that were made keep their addressee, and none becomes open again.
RowsMoveOn ==
  \A k \in Invitations :
    invitation[k].status # "NONE" =>
      /\ invitation'[k].to = invitation[k].to
      /\ invitation'[k].status # "NONE"
      /\ invitation[k].status # "PENDING" => invitation'[k].status # "PENDING"

LEMMA RowsAlwaysMoveOn ==
  ASSUME TeamsIInv, [TeamsNext]_tVars
  PROVE  RowsMoveOn
<1> USE DEF TeamsIInv, TeamsTypeOK, InvitationRow, RowsMoveOn
<1>1. CASE UNCHANGED invitation
  BY <1>1
<1>2. ASSUME NEW u \in Users, NEW k \in Invitations, InviteToTeam(u, k) PROVE RowsMoveOn
  BY <1>2 DEF InviteToTeam
<1>3. ASSUME NEW k \in Invitations, InvitationAges(k) PROVE RowsMoveOn
  BY <1>3 DEF InvitationAges
<1>4. ASSUME NEW r \in Requests, RefuseExpired(r) PROVE RowsMoveOn
  BY <1>4 DEF RefuseExpired
<1>5. ASSUME NEW r \in Requests, SaveAnswer(r) PROVE RowsMoveOn
  BY <1>5 DEF SaveAnswer
<1> QED
  BY <1>1, <1>2, <1>3, <1>4, <1>5
     DEF TeamsNext, tVars, ReadInvitation, JoinTeam, AnswerDies

LEMMA AnswersKeepRows ==
  ASSUME TeamsIInv, [TeamsNext]_tVars
  PROVE  AnswersHaveRows'
<1>1. RowsMoveOn
  BY RowsAlwaysMoveOn
<1>2. ASSUME NEW q \in Requests, answer'[q] = answer[q]
      PROVE  AnswersHaveRows!(q)'
  BY <1>1, <1>2 DEF TeamsIInv, AnswersHaveRows, RowsMoveOn
<1>3. ASSUME NEW q \in Requests, answer'[q] = Idle
      PROVE  AnswersHaveRows!(q)'
  BY <1>3 DEF Idle
<1>4. CASE UNCHANGED answer
  BY <1>2, <1>4 DEF AnswersHaveRows
<1>5. ASSUME NEW r \in Requests, NEW k \in Invitations, NEW accept \in BOOLEAN,
             ReadInvitation(r, k, accept)
      PROVE  AnswersHaveRows'
  <2>1. \A q \in Requests \ {r} : answer'[q] = answer[q]
    BY <1>5 DEF ReadInvitation, TeamsIInv, TeamsTypeOK
  <2>2. AnswersHaveRows!(r)'
    BY <1>5 DEF ReadInvitation, TeamsIInv, TeamsTypeOK
  <2> QED
    BY <1>2, <2>1, <2>2 DEF AnswersHaveRows
<1>6. ASSUME NEW r \in Requests, RefuseExpired(r) \/ JoinTeam(r) \/ AnswerDies(r)
      PROVE  AnswersHaveRows'
  <2>1. answer' = [answer EXCEPT ![r] = Idle]
    BY <1>6 DEF RefuseExpired, JoinTeam, AnswerDies
  <2>2. \A q \in Requests : answer'[q] = answer[q] \/ answer'[q] = Idle
    BY <2>1 DEF TeamsIInv, TeamsTypeOK
  <2> QED
    BY <1>2, <1>3, <2>2 DEF AnswersHaveRows
<1>7. ASSUME NEW r \in Requests, SaveAnswer(r)
      PROVE  AnswersHaveRows'
  <2>1. \A q \in Requests \ {r} : answer'[q] = answer[q]
    BY <1>7 DEF SaveAnswer, TeamsIInv, TeamsTypeOK
  <2>2. CASE ~ answer[r].accept
    <3>1. answer'[r] = Idle
      BY <1>7, <2>2 DEF SaveAnswer, TeamsIInv, TeamsTypeOK
    <3> QED
      BY <1>2, <1>3, <2>1, <3>1 DEF AnswersHaveRows
  <2>3. CASE answer[r].accept
    <3>1. answer[r] \in RunningAnswer
      BY <1>7 DEF SaveAnswer, TeamsIInv, TeamsTypeOK, Idle
    <3>2. answer'[r] = [answer[r] EXCEPT !.stage = "saved"]
      BY <1>7, <2>3 DEF SaveAnswer, TeamsIInv, TeamsTypeOK
    <3>3. answer'[r].inv = answer[r].inv /\ answer[r].inv \in Invitations
      BY <3>1, <3>2 DEF RunningAnswer
    <3>4. invitation'[answer[r].inv].status = "ACCEPTED"
      BY <1>7, <2>3, <3>3 DEF SaveAnswer, TeamsIInv, TeamsTypeOK, InvitationRow
    <3>5. AnswersHaveRows!(r)'
      BY <3>3, <3>4
    <3> QED
      BY <1>2, <2>1, <3>5 DEF AnswersHaveRows
  <2> QED
    BY <2>2, <2>3
<1> QED
  BY <1>4, <1>5, <1>6, <1>7 DEF TeamsNext, tVars, InviteToTeam, InvitationAges

\* Nobody gets into the team uninvited, nor while the invitation is open, however
\* stale the copies are on which invitations are answered.
THEOREM MembersAlwaysWereInvited == TeamsSpec => []MembersWereInvited
<1>1. TeamsInit => AnswersHaveRows /\ MembersWereInvited
  BY DEF TeamsInit, AnswersHaveRows, MembersWereInvited, Idle
<1>2. TeamsIInv /\ [TeamsNext]_tVars => MembersWereInvited'
  <2> SUFFICES ASSUME TeamsIInv, [TeamsNext]_tVars PROVE MembersWereInvited'
    OBVIOUS
  <2>1. RowsMoveOn
    BY RowsAlwaysMoveOn
  <2>2. CASE UNCHANGED members
    BY <2>1, <2>2 DEF TeamsIInv, MembersWereInvited, RowsMoveOn
  <2>3. ASSUME NEW r \in Requests, JoinTeam(r) PROVE MembersWereInvited'
    <3>1. /\ answer[r].inv \in Invitations
          /\ invitation[answer[r].inv].status \notin {"NONE", "PENDING"}
      BY <2>3 DEF JoinTeam, TeamsIInv, AnswersHaveRows
    <3> QED
      BY <2>3, <3>1 DEF JoinTeam, TeamsIInv, MembersWereInvited
  <2> QED
    BY <2>2, <2>3
       DEF TeamsNext, tVars, InviteToTeam, InvitationAges, ReadInvitation, RefuseExpired,
           SaveAnswer, AnswerDies
<1>3. AnswersHaveRows /\ MembersWereInvited /\ TeamsTypeOK /\ TeamsTypeOK'
        /\ [TeamsNext]_tVars => (AnswersHaveRows /\ MembersWereInvited)'
  BY <1>2, AnswersKeepRows DEF TeamsIInv
<1> QED
  BY <1>1, <1>3, TeamsTypeCorrect, PTL DEF TeamsSpec
=============================================================================
