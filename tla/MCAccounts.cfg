SPECIFICATION AccountsSpec
CONSTANTS
  MaxTokens = 3
  MaxPasswords = 1
  MaxNow = 1
  Requests = {q1, q2}
SYMMETRY Symmetry
INVARIANTS OneLiveToken UnverifiedHasLink
PROPERTY UndoneByOldRowsOnly
