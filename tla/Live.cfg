CONSTANTS
  Refs = {"r1"}
  MaxCalls = 3
  MaxCrashes = 1
SPECIFICATION LiveSpec
CHECK_DEADLOCK FALSE
INVARIANTS
  CreditedOnce
PROPERTIES
  HandoffEnds
  HandoffLockReleased
  PaidIsCredited
  SuspensionEnds
  SettingsCatchUp
