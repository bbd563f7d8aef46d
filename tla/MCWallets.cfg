SPECIFICATION Spec
CONSTANTS
  Users = {u1, u2}
  OpeningBalance = 2
  Amounts = {0, 1, 2}
  TrxIds = {t1}
  MaxDeposits = 2
  MaxWithdrawals = 2
  NoUser = NoUser
  NoTrx = NoTrx
SYMMETRY Symmetry
INVARIANTS
  TypeOK
  BooksBalance
  SettledOnce
  TrxClaimedOnce
  ReservedBacksWithdrawals
  CashConserved
PROPERTIES
  FrozenKeepsMoney
  ImplementsTreasury
