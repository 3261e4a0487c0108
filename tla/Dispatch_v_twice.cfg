CONSTANTS
  o1 = o1
  o2 = o2
  d1 = d1
  d2 = d2
  NoDriver = NoDriver
  NoOffer = NoOffer
  Offers <- OneOffer
  Drivers <- TwoDrivers
  MaxAttempts = 1
  CoinsToRedeem = 0
  InitialCoins = 0
  Faults = {}
  MaxRedeemFaults = 0
  MaxFare = 1
  MaxRetries = 0
  RetryEarly = FALSE
  MaxBookings = 2
  MaxCrashes = 0
SPECIFICATION Spec
CHECK_DEADLOCK FALSE
INVARIANT OneBookingPerOffer
