SPECIFICATION PayoutSpec
CONSTANTS
  Users = {c1, f1, f2}
  Clients = {c1}
  Freelancers = {f1, f2}
  OpeningBalance = 3
  Amounts = {1, 2}
  TrxIds = {}
  MaxDeposits = 0
  MaxWithdrawals = 1
  MaxJobs = 1
  MaxProposals = 2
  MaxOffers = 1
  NoUser = NoUser
  NoTrx = NoTrx
CONSTRAINT Thawed
SYMMETRY Symmetry
INVARIANTS
  EarningsMatchCompletions
  NothingStranded
  ProjectPerPayment
PROPERTY
  PaymentsImplementTreasury
