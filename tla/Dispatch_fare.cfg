CONSTANTS
  o1 = o1
  o2 = o2
  d1 = d1
  d2 = d2
  NoDriver = NoDriver
  NoOffer = NoOffer
  Offers <- OneOffer
  Drivers <- OneDriver
  MaxAttempts = 1
  CoinsToRedeem = 0
  InitialCoins = 0
  Faults = {}
  MaxRedeemFaults = 0
  MaxFare = 2
  MaxRetries = 0
  RetryEarly = FALSE
  MaxBookings = 1
  MaxCrashes = 1
SPECIFICATION FairSpec
CHECK_DEADLOCK FALSE
PROPERTIES
  LockReleased
  SearchEnds
