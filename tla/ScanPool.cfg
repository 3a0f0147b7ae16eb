\* Two workers, four jobs, the smallest channels and a rate limiter.
SPECIFICATION Spec
CONSTANTS
  Jobs = 4
  Worker = {w1, w2}
  JobCap = 1
  ResultCap = 1
  Limited = TRUE
INVARIANTS
  TypeOK
  NoSendAfterClose
  ProbedOnce
PROPERTIES
  IsStream
  Terminates
CHECK_DEADLOCK FALSE
