\* A reader and a scan, two hosts of one port.
SPECIFICATION Spec
CONSTANTS
  h1 = h1
  h2 = h2
  ssh = ssh
  Reader = {r1}
  Scan = {s1}
  Host <- MCHost
  Number = {22}
  Service = {ssh}
  None = None
  Query <- MCQuery
  Lag = 1
  MaxTime = 1
  MaxWrites = 2
  MaxHandles = 2
  MaxFaults = 1
INVARIANTS
  AnswersAreTrue
  OneHandle
CHECK_DEADLOCK FALSE
