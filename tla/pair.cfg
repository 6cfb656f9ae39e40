CONSTANTS
  full = full
  partial = partial
  wrong = wrong
  held = held
  NoText = NoText
  Bookings = {b1,b2}
  TaskSteps = {"ACKNOWLEDGEMENT"}
  Details = {full}
  Enough <- EnoughAlways
  Invalid = {}
  HeldBack = {}
  Reports = {"SENT", "DELIVERED", "FAILED"}
  MaxAttempts = 2
  Redemos = {FALSE}
  MaxTime = 2
  MaxPublic = 1
  MaxSends = 1
  MaxCallbacks = 1
  MaxKept = 1
SYMMETRY BookingSymmetry
CONSTRAINT NoStarts
SPECIFICATION Spec
INVARIANTS TakenAtMostOnce
PROPERTIES HistoryKept
CHECK_DEADLOCK FALSE
