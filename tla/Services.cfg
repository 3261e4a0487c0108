CONSTANTS
  MaxLogins = 2
  MaxCalls = 2
  MaxEarnings = 1
  Withdrawals = {"w1", "w2"}
  Amount <- OneEach
  InitialBalance = 1
  MaxMoves = 0
  Delivery = {"lost"}
  Reversals = FALSE
  MaxRestarts = 0
  MaxRows = 2
  MaxCrashes = 1
  Trips = {1, 2}
  MaxTransactions = 3
  MaxPaidOut = 1
  Offers = {"o1", "o2"}
  Customers = {"u1", "u2"}
  Cap = 2
  PerUser = 1
  FirstRide = FALSE
  MaxAccepts = 2
  MaxEdits = 1
  Numbers = {1}
  MaxAccounts = 2
  MaxBookings <- BookingsOf
  MaxReports <- ReportsOf
  MaxAged <- AgedOf
  MaxTickets = 2
  MaxResets = 1
  Public = {"bike"}
  Legacy = {"ace"}
  Cities = {"home", "away"}
  Home = "home"
  States = {"od"}
  NoState = "-"
  Seeded <- SeededRate
  Edited <- EditedRate
  Settings <- Current
  Kms = {7}
  Hours = {13}
  Demands = {10}
  Discounts = {4000}
  Tolls = {3000}
  MaxRules = 2
  MaxTrips = 1
  Referees = {"u1", "u2"}
  Referrer = "u3"
  MaxRides <- RidesOf
  MaxErrors = 1
  Bookings = {1, 2}
  Stars = {45, 50}
SPECIFICATION ServicesSpec
CHECK_DEADLOCK FALSE
INVARIANTS
  TypesOK
  NoOverdraft
  SettledOnce
  CompletedWasPaid
  FundAddsUp
  CouponLimits
  OnlineIsSignedIn
  SessionsFollowLogins
  ReviewAndWalletKept
  OnePrimary
  OffendersReported
  TicketsInOrder
  CashNetsEarnings
  ReferralPaysOnce
  CoinsMatchEntries
  RatingsAgree
PROPERTIES
  RestartKeepsQuotes
