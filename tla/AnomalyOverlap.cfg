\* Two overlapping scans of one user, with transactions that may fail.
SPECIFICATION Spec
CONSTANTS
  Host = {h1}
  Port = {p1}
  Scan = {s1, s2}
  Facet = {}
  Look = {x}
  Blank = Blank
  Latency = {1}
  NoRecord = NoRecord
  NoResult = NoResult
  StoreMayFail = TRUE
  MaxTime = 1
SYMMETRY Symmetry
INVARIANTS
  AnsweringIsNotClosed
PROPERTIES
  LatestNeverRewinds
CHECK_DEADLOCK FALSE
