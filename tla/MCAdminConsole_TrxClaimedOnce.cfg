SPECIFICATION ConsoleSpec
CONSTANTS
  Users = {u1}
  OpeningBalance = 2
  Amounts = {1}
  TrxIds = {t1}
  MaxDeposits = 2
  MaxWithdrawals = 2
  NoUser = NoUser
  NoTrx = NoTrx
  MaxForms = 2
INVARIANT
  TrxClaimedOnce
