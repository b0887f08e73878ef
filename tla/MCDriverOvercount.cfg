CONSTANTS
  MaxCells = 6
  StackDepth = 3
  Jobs <- WideJobs
  MaxRuns = 1
  BusWaits = TRUE
SPECIFICATION Spec
INVARIANTS
  OverflowUnderCounts
