CONSTANTS
  full = full
  partial = partial
  wrong = wrong
  held = held
  NoText = NoText
  Bookings = {b1}
  TaskSteps = {"PRE_ACTIVITY_CALL", "AFTER_ACTIVITY"}
  Details = {full, partial}
  Enough <- EnoughForAll
  Invalid = {}
  HeldBack = {}
  Reports = {"SENT", "FAILED"}
  MaxAttempts = 2
  Redemos = {FALSE, TRUE}
  MaxTime = 2
  MaxPublic = 1
  MaxSends = 1
  MaxCallbacks = 1
  MaxKept = 1
SPECIFICATION JobSpec
INVARIANTS StepsAgree
PROPERTIES ReadyGoes ReportsApplied ImplementsDelivery
CHECK_DEADLOCK FALSE
