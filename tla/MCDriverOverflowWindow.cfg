CONSTANTS
  MaxCells = 4
  StackDepth = 2
  Jobs <- FullJobs
  MaxRuns = 2
  BusWaits = TRUE
SPECIFICATION Spec
INVARIANTS
  OverflowClearedBeforeWindow
