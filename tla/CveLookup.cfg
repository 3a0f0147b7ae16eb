\* Two scans, two services of one name, a time to live and a timeout of one tick, pages of
\* one record.
SPECIFICATION Spec
CONSTANTS
  openssh = openssh
  ssh = ssh
  name = name
  c1 = c1
  c2 = c2
  v1 = v1
  v2 = v2
  q1 = q1
  q2 = q2
  Scan <- MCScan
  Service <- MCService
  CPE <- MCCPE
  Covered <- MCCovered
  NvdId = {c1, c2}
  Vuln <- MCVuln
  Alias <- MCAlias
  None = None
  NvdPage = 1
  OsvPage = 1
  TTL = 1
  Timeout = 1
  MaxTime = 4
  MaxNews = 2
SYMMETRY Symmetry
INVARIANTS
  AnswersAreFresh
  OneRecordPerCve
  HolesAreForgotten
CHECK_DEADLOCK FALSE
