\* Two scans, two clients and channels of one result.
SPECIFICATION Spec
CONSTANTS
  Job = {j1, j2}
  Client = {c1, c2}
  ChanCap = 1
  MaxResults = 2
INVARIANTS
  RunningIsRegistered
  ChannelsAreOpen
  StreamIsComplete
  CompleteMeansDone
PROPERTIES
  ServesClients
  EarlyClientsComplete
CHECK_DEADLOCK FALSE
