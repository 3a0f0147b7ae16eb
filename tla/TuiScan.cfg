\* Two scans of two results, and a channel of one result.
SPECIFICATION TuiSpec
CONSTANTS
  Job = {j1, j2}
  NoJob = NoJob
  Mode = {"table", "detail"}
  ChanCap = 1
  MaxResults = 2
INVARIANTS
  ShownOfCurrent
  CancelsOnlyEnded
PROPERTIES
  ServesView
  ViewEnds
CHECK_DEADLOCK FALSE
