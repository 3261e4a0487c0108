CONSTANTS
  w1 = w1
  w2 = w2
  Withdrawals <- OneRequest
  Amount <- Ones
  InitialBalance = 1
  MaxCalls = 3
  MaxMoves = 1
  Delivery = {"repeated"}
  Reversals = TRUE
  MaxCrashes = 1
SPECIFICATION FairSpec
CHECK_DEADLOCK FALSE
INVARIANTS
  MoneyMatchesStatus
PROPERTIES
  WithdrawalsKept
  FailureIsRefunded
