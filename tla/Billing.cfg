\* One reference and one transaction, of the user or of another, three requests at a
\* time, four scans and one fault: what of it is followed is said by Scope.
SPECIFICATION Spec
CONSTANTS
  Ref = {r1}
  Tx = {t1}
  None = None
  Request = {q1, q2, q3}
  Limit = 1
  Period = 1
  MayCancel = TRUE
  MaxFaults = 1
  MaxTime = 2
  MaxScans = 4
SYMMETRY Symmetry
CONSTRAINT Scope
INVARIANTS
  TypeOK
  ChargedBeforePro
  SettledUnlessFault
  QuotaOvershoot
CHECK_DEADLOCK FALSE
