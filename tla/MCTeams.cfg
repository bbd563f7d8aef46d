SPECIFICATION TeamsSpec
CONSTANTS
  Users = {c, l, m, n}
  Client = c
  Lead = l
  MaxInvites = 2
  Requests = {r1, r2}
INVARIANTS
  MembersWereInvited
  OneOpenInvitation
PROPERTY
  AcceptedLeadsToMembership
\* Once both invitations are answered nothing is left to do.
CHECK_DEADLOCK FALSE
