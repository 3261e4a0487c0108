CONSTANTS
  b1 = b1
  d1 = d1
  d2 = d2
  NoDriver = NoDriver
  NoBooking = NoBooking
  Bookings <- OneBooking
  Drivers <- OneDriver
  Assigned <- AllByD1
  MayDrop = {d1}
  MaxCalls = 1
  MaxGhosts = 1
  MaxTransfers = 0
  MaxIncidents = 1
  MaxCrashes = 0
SPECIFICATION FairSpec
CHECK_DEADLOCK FALSE
INVARIANTS
  OngoingWatched
  FlaggedIsInvestigated
PROPERTIES
  DeliveryEndsOrIsFlagged
