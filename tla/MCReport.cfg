SPECIFICATION Spec
CONSTANTS
  Keys <- AllKeys
  MaxRuns = 4
  MaxAborts = 2
INVARIANTS
  FiledRight
  NothingLost
  ParsesCompleteRuns
  TableHasNoHoles
  ReportInv
