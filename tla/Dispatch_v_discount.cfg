CONSTANTS
  o1 = o1
  o2 = o2
  d1 = d1
  d2 = d2
  NoDriver = NoDriver
  NoOffer = NoOffer
  Offers <- TwoOffers
  Drivers <- OneDriver
  MaxAttempts = 1
  CoinsToRedeem = 1
  InitialCoins = 1
  Faults = {}
  MaxRedeemFaults = 0
  MaxFare = 1
  MaxRetries = 0
  RetryEarly = FALSE
  MaxBookings = 2
  MaxCrashes = 0
SPECIFICATION Spec
CHECK_DEADLOCK FALSE
INVARIANT DiscountsArePaid
