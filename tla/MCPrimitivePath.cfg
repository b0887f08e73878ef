CONSTANTS
  MaxCells = 4
  Grids <- MCGrids
SPECIFICATION Spec
INVARIANTS
  AnswersAgree
  MemoriesMirror
