CONSTANTS
  MaxCells = 6
  StackDepth = 14
  Jobs <- MixedJobs
  MaxRuns = 2
  BusWaits = TRUE
SPECIFICATION FairSpec
INVARIANTS
  TypeOK
  PreviewsFresh
  DoneIsThisRun
  ReportExact
PROPERTIES
  ImplementsIslandScan
  RunReturns
