SPECIFICATION Spec
CONSTANTS
  VIEW_RANGE = 1
  MAP_WIDTH = 4
  MAP_HEIGHT = 4
  Threads = {t1, t2}
  Entities = {e1, e2}
  Positions <- ThreePositions
  None = None
SYMMETRY Symmetric
INVARIANTS
  TypeOK
  InOneSector
  NoDeadlock
  SightIsMutual
