CONSTANTS
  full = full
  partial = partial
  wrong = wrong
  held = held
  NoText = NoText
  Bookings = {b1}
  TaskSteps = {"CONFIRMATION_REQUEST", "PARENT_CONFIRMATION"}
  Details = {full, partial, wrong, held}
  Enough <- EnoughForAll
  Invalid = {wrong}
  HeldBack = {held}
  Reports = {}
  MaxAttempts = 2
  Redemos = {FALSE}
  MaxTime = 2
  MaxPublic = 1
  MaxSends = 1
  MaxCallbacks = 0
  MaxKept = 0
SPECIFICATION Spec
INVARIANTS NothingLeftToRetry
PROPERTIES ClaimedRight
CHECK_DEADLOCK FALSE
