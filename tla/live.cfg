CONSTANTS
  full = full
  partial = partial
  wrong = wrong
  held = held
  NoText = NoText
  Bookings = {b1,b2}
  TaskSteps = {"ACKNOWLEDGEMENT"}
  Details = {full}
  Enough <- EnoughAlways
  Invalid = {}
  HeldBack = {}
  Reports = {}
  MaxAttempts = 1
  Redemos = {FALSE}
  MaxTime = 2
  MaxPublic = 1
  MaxSends = 1
  MaxCallbacks = 0
  MaxKept = 0
SPECIFICATION FairSpec
PROPERTIES AllSettles
CHECK_DEADLOCK FALSE
