CONSTANTS
  MaxCells = 6
  StackDepth = 3
  Jobs <- WideJobs
  MaxRuns = 1
  BusWaits = FALSE
SPECIFICATION FairSpec
INVARIANTS
  OverflowReport
PROPERTIES
  ImplementsIslandScan
