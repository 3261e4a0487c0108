CONSTANTS
  w1 = w1
  w2 = w2
  Withdrawals <- OneRequest
  Amount <- Ones
  InitialBalance = 1
  MaxCalls = 1
  MaxMoves = 0
  Delivery = {}
  Reversals = FALSE
  MaxCrashes = 0
SPECIFICATION Spec
CHECK_DEADLOCK FALSE
INVARIANT FinalizedOrRefunded
