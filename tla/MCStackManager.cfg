CONSTANTS
  StackDepth = 3
  Coord <- MCCoord
  Origin <- MCOrigin
SPECIFICATION Spec
INVARIANTS
  TypeOK
  OutputsFresh
PROPERTIES
  ImplementsBoundedStack
