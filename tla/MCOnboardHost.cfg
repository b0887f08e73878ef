CONSTANTS
  NumCases = 2
  Iterations = 2
  Warmup = 1
  Blocks = {b1, b2, b3}
SPECIFICATION FairSpec
INVARIANTS
  KernelReadsItsCase
  CleanWhileRunning
PROPERTIES
  ReadsOwnRun
  NoStartBeforeDone
  JudgesEachCase
  ToolFinishes
CHECK_DEADLOCK FALSE
