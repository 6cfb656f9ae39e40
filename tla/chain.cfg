CONSTANTS
  full = full
  partial = partial
  wrong = wrong
  held = held
  NoText = NoText
  Bookings = {b1,b2,b3}
  TaskSteps = {"ACKNOWLEDGEMENT"}
  Details = {full}
  Enough <- EnoughAlways
  Invalid = {}
  HeldBack = {}
  Reports = {"FAILED"}
  MaxAttempts = 1
  Redemos = {FALSE, TRUE}
  MaxTime = 2
  MaxPublic = 1
  MaxSends = 1
  MaxCallbacks = 1
  MaxKept = 0
SYMMETRY BookingSymmetry
CONSTRAINT NoStarts
SPECIFICATION Spec
INVARIANTS OneAcknowledgementPerChain ChainAgrees
CHECK_DEADLOCK FALSE
