CONSTANTS
  Cell = {c1, c2, c3}
SPECIFICATION Spec
PROPERTIES
  FinishComplete
  NewIslandTouchesNone
  OthersAttach
  FinishExact
