-------------------------------- MODULE Teams --------------------------------
(***************************************************************************)
(* The team of one project: invite_to_team() and respond_to_invitation()   *)
(* of src/apps/projects/services.py with the views in front of them.       *)
(* (Projects says how a project and its team come into being.)             *)
(*                                                                         *)
(* respond_to_invitation() is not a transaction.  It decides on the row    *)
(* the view read, saves the answer, and only then adds the member: three   *)
(* steps, between which other requests run and the process may die.        *)
(*                                                                         *)
(* Administrators who act in a user's place are left out.                  *)
(***************************************************************************)
EXTENDS Naturals

CONSTANTS Users, Client, Lead, MaxInvites, Requests

ASSUME TeamsAssumption == MaxInvites \in Nat /\ {Client, Lead} \subseteq Users

VARIABLES
  members,     \* the users in the team
  invitation,  \* TeamInvitation rows
  answer,      \* the requests to respond_invitation() that are running
  lost         \* invitations accepted by a request that died before its user joined

tVars == <<members, invitation, answer, lost>>

Invitations == 1..MaxInvites

InvitationStatus == {"NONE", "PENDING", "ACCEPTED", "DECLINED", "EXPIRED"}

\* "old": more than 48 hours have passed since the row was made.
InvitationRow == [to : Users, status : InvitationStatus, old : BOOLEAN]

NoInvitation == [to |-> Client, status |-> "NONE", old |-> FALSE]

Idle == [stage |-> "idle"]

\* "read": the view has a PENDING copy of the row, "late" if it was past its 48
\* hours by then; "saved": the answer is in the table and the member is not.
RunningAnswer ==
  [stage : {"read", "saved"}, inv : Invitations, accept : BOOLEAN, late : BOOLEAN]

TeamsTypeOK ==
  /\ members \subseteq Users
  /\ invitation \in [Invitations -> InvitationRow]
  /\ answer \in [Requests -> {Idle} \cup RunningAnswer]
  /\ lost \subseteq Invitations

TeamsInit ==
  /\ members = {Lead}
  /\ invitation = [k \in Invitations |-> NoInvitation]
  /\ answer = [r \in Requests |-> Idle]
  /\ lost = {}

Open(k, u) == invitation[k].to = u /\ invitation[k].status = "PENDING"

\* Faulty variant: an open invitation that has lapsed is not handed back.
HandedBackFresh(u) == \E k \in Invitations : Open(k, u) /\ ~ invitation[k].old

\* An open invitation, lapsed or not, is handed back as it is.
HandedBack(u) == \E k \in Invitations : Open(k, u)

\* The lead invites u; k is the next key.
InviteToTeam(u, k) ==
  /\ u \notin members
  /\ ~ HandedBack(u)
  /\ invitation[k].status = "NONE" /\ \A j \in 1..(k-1) : invitation[j].status # "NONE"
  /\ invitation' = [invitation EXCEPT ![k] = [to |-> u, status |-> "PENDING", old |-> FALSE]]
  /\ UNCHANGED <<members, answer, lost>>

\* Forty-eight hours pass; nothing is written.  The age of a row is looked at
\* only while the row is PENDING or a request holds a copy that is.
InvitationAges(k) ==
  /\ \/ invitation[k].status = "PENDING"
     \/ \E r \in Requests : answer[r].stage = "read" /\ answer[r].inv = k
  /\ ~ invitation[k].old
  /\ invitation' = [invitation EXCEPT ![k].old = TRUE]
  /\ UNCHANGED <<members, answer, lost>>

\* The view reads the row; one that is not PENDING is refused at once.
ReadInvitation(r, k, accept) ==
  /\ answer[r] = Idle
  /\ invitation[k].status = "PENDING"
  /\ answer' = [answer EXCEPT ![r] = [stage |-> "read", inv |-> k, accept |-> accept,
                                      late |-> invitation[k].old]]
  /\ UNCHANGED <<members, invitation, lost>>

\* By now the copy is too old: the row becomes EXPIRED, whatever it says by now.
RefuseExpired(r) ==
  /\ answer[r].stage = "read"
  /\ invitation[answer[r].inv].old
  /\ invitation' = [invitation EXCEPT ![answer[r].inv].status = "EXPIRED"]
  /\ answer' = [answer EXCEPT ![r] = Idle]
  /\ UNCHANGED <<members, lost>>

\* The answer overwrites whatever the row says by now; its 48 hours may have
\* passed since they were looked at.
SaveAnswer(r) ==
  /\ answer[r].stage = "read"
  /\ ~ answer[r].late
  /\ invitation' = [invitation EXCEPT
       ![answer[r].inv].status = IF answer[r].accept THEN "ACCEPTED" ELSE "DECLINED"]
  /\ answer' = [answer EXCEPT
       ![r] = IF @.accept THEN [@ EXCEPT !.stage = "saved"] ELSE Idle]
  /\ UNCHANGED <<members, lost>>

\* Faulty variant: the member is added before the answer is saved.
JoinTeamUnsaved(r) ==
  /\ answer[r].stage \in {"read", "saved"} /\ answer[r].accept
  /\ members' = members \cup {invitation[answer[r].inv].to}
  /\ answer' = [answer EXCEPT ![r] = Idle]
  /\ UNCHANGED <<invitation, lost>>

\* Faulty variant: a row that another request has changed meanwhile is left alone.
JoinTeamRechecked(r) ==
  /\ answer[r].stage = "saved"
  /\ members' = IF invitation[answer[r].inv].status = "ACCEPTED"
                THEN members \cup {invitation[answer[r].inv].to} ELSE members
  /\ answer' = [answer EXCEPT ![r] = Idle]
  /\ UNCHANGED <<invitation, lost>>

JoinTeam(r) ==
  /\ answer[r].stage = "saved"
  /\ members' = members \cup {invitation[answer[r].inv].to}
  /\ answer' = [answer EXCEPT ![r] = Idle]
  /\ UNCHANGED <<invitation, lost>>

\* The process that runs the request dies.
AnswerDies(r) ==
  /\ answer[r] # Idle
  /\ answer' = [answer EXCEPT ![r] = Idle]
  /\ lost' = IF answer[r].stage = "saved" THEN lost \cup {answer[r].inv} ELSE lost
  /\ UNCHANGED <<members, invitation>>

TeamsNext ==
  \/ \E u \in Users, k \in Invitations : InviteToTeam(u, k)
  \/ \E k \in Invitations : InvitationAges(k)
  \/ \E r \in Requests :
       \/ \E k \in Invitations, accept \in BOOLEAN : ReadInvitation(r, k, accept)
       \/ RefuseExpired(r) \/ SaveAnswer(r) \/ JoinTeam(r) \/ AnswerDies(r)

\* A request that is running runs on, unless its process dies.
TeamsFairness == \A r \in Requests : WF_tVars(JoinTeam(r))

TeamsSpec == TeamsInit /\ [][TeamsNext]_tVars /\ TeamsFairness

-----------------------------------------------------------------------------
\* A member other than the lead has an invitation which is no longer open.
\* Answers are decided on copies and overwrite each other, and the member is
\* added after the answer (projects/services.py:83-95).
MembersWereInvited ==
  \A u \in members \ {Lead} : \E k \in Invitations :
    invitation[k].to = u /\ invitation[k].status \notin {"NONE", "PENDING"}

\* The get_or_create() of invite_to_team() needs at most one open row for a
\* person and a team: with two it raises, and nobody can invite that person again.
OneOpenInvitation ==
  \A u \in Users, j, k \in Invitations : Open(j, u) /\ Open(k, u) => j = k

\* Who accepts an invitation is in the team at last, whatever other answers to
\* the same invitation do meanwhile, unless the accepting request dies.
AcceptedLeadsToMembership ==
  \A k \in Invitations :
    invitation[k].status = "ACCEPTED" ~> (invitation[k].to \in members \/ k \in lost)

=============================================================================
