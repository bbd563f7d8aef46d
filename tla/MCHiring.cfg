SPECIFICATION HiringSpec
CONSTANTS
  Users = {c1}
  Clients = {c1}
  Freelancers = {f1, f2}
  OpeningBalance = 2
  Amounts = {1, 2}
  TrxIds = {}
  MaxDeposits = 0
  MaxWithdrawals = 1
  MaxJobs = 1
  MaxProposals = 2
  MaxOffers = 2
  NoUser = NoUser
  NoTrx = NoTrx
CONSTRAINT Thawed
SYMMETRY Symmetry
INVARIANTS
  HiringTypeOK
  ReservedBacksCommitments
  OneLiveOffer
  AgreementFollowsOffer
  AgreementFunded
  OneProposalEach
  CountNotAhead
PROPERTY
  HireIsFinal
