\* IPv4 addresses of three bits and IPv6 addresses of four, room for five of them,
\* ranges of at most three, four ports.
SPECIFICATION PlanSpec
CONSTANTS
  n1 = n1
  n2 = n2
  aws = aws
  Bits = 3
  Wide = 4
  MaxHosts = 3
  Memory = 5
  PortMax = 3
  Name <- MCName
  Provider <- MCProvider
  NoProvider = NoProvider
  TopScore = 3
  HostScore <- MCHostScores
  CloudScore <- MCCloudScores
  Default <- MCDefault
  Request <- MCRequest
INVARIANTS
  ScansWhatWasAsked
  ScoresAreEvidence
  RefusalsAreExplained
CHECK_DEADLOCK FALSE
