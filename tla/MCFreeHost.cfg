CONSTANTS
  MaxCells = 2
  StackDepth = 2
  Sizes = {0, 1, 2}
  Values = {0, 1}
  Budget = 3
  Yields = TRUE
  MidRun = TRUE
SPECIFICATION FairSpec
INVARIANTS
  PreviewsFresh
  NoPushLost
  BusyOrDone
PROPERTIES
  NeverHangs
