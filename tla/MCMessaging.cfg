SPECIFICATION MessagingSpec
CONSTANTS
  f1 = f1
  f2 = f2
  Freelancers = {f1, f2}
  Readers <- BothOfOne
  MaxMessages = 3
  Batch = 1
  MaxFailures = 2
INVARIANTS
  UnreadMatchesReceipts
  ReadWasShown
PROPERTY
  OpenPageShowsAll
