CONSTANTS
  MaxRows = 5
  MaxCols = 5
  MaxWords = 10
  Jobs <- MCJobs
  MaxCalls = 2
SPECIFICATION MCSpec
INVARIANTS
  ArraysSuffice
  PathIsMarked
  MemoIsRight
  MatchesSoftware
  ValueIsRight
  OracleAgrees
  GoldenValues
  TestbenchPasses
  AgreesWithFixture
PROPERTIES
  NewIslandApart
  IslandsSearched
  OceansReached
  KernelReturns
CHECK_DEADLOCK FALSE
