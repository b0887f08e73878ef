CONSTANTS
  MaxCells = 2
  StackDepth = 3
  Sizes = {1, 2}
  Values = {0, 1}
  Budget = 5
  Yields = FALSE
  MidRun = FALSE
SPECIFICATION Spec
INVARIANTS
  VisitReadsItsCell
