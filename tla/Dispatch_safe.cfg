CONSTANTS
  o1 = o1
  o2 = o2
  d1 = d1
  d2 = d2
  NoDriver = NoDriver
  NoOffer = NoOffer
  Offers <- OneOffer
  Drivers <- TwoDrivers
  MaxAttempts = 1
  CoinsToRedeem = 1
  InitialCoins = 2
  Faults = {"insert", "publish", "slow"}
  MaxRedeemFaults = 1
  MaxFare = 1
  MaxRetries = 0
  RetryEarly = FALSE
  MaxBookings = 1
  MaxCrashes = 1
SPECIFICATION Spec
CHECK_DEADLOCK FALSE
SYMMETRY DriverSymmetry
INVARIANTS
  AcceptExclusive
  OneBookingUnlessDisturbed
  SearchIsBounded
  CoinsConserved
