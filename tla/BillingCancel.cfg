\* One payment and a cancellation.
SPECIFICATION Spec
CONSTANTS
  Ref = {r1}
  Tx = {}
  None = None
  Request = {q1}
  Limit = 1
  Period = 1
  MayCancel = TRUE
  MaxFaults = 0
  MaxTime = 1
  MaxScans = 1
PROPERTIES
  LapsesAtPeriodEnd
CHECK_DEADLOCK FALSE
