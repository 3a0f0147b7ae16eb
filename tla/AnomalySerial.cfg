\* Scans of one user that do not overlap: two ports, one drifting text.
SPECIFICATION Spec
CONSTANTS
  Host = {h1}
  Port = {p1, p2}
  Scan = {s1}
  Facet = {"banner-drift"}
  Look = {x, y}
  Blank = Blank
  Latency = {0}
  NoRecord = NoRecord
  NoResult = NoResult
  StoreMayFail = FALSE
  MaxTime = 1
SYMMETRY Symmetry
INVARIANTS
  TypeOK
  ScanReflectsProbe
  SerialInv
PROPERTIES
  Lifecycle
  DriftOnlyAfterNewPort
CHECK_DEADLOCK FALSE
