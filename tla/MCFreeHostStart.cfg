CONSTANTS
  MaxCells = 4
  StackDepth = 3
  Sizes = {2}
  Values = {0, 1}
  Budget = 2
  Yields = TRUE
  MidRun = TRUE
SPECIFICATION Spec
PROPERTIES
  StartBeginsTraversal
