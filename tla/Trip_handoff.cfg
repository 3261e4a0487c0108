CONSTANTS
  b1 = b1
  d1 = d1
  d2 = d2
  NoDriver = NoDriver
  NoBooking = NoBooking
  Bookings <- OneBooking
  Drivers <- TwoDrivers
  Assigned <- AllByD1
  MayDrop = {}
  MaxCalls = 2
  MaxGhosts = 0
  MaxTransfers = 1
  MaxIncidents = 0
  MaxCrashes = 1
SPECIFICATION Spec
CHECK_DEADLOCK FALSE
INVARIANTS
  TypeOK
  OneTransfer
PROPERTIES
  EndedStaysEnded
