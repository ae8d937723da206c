SPECIFICATION SpecOneStart
CONSTANTS
  Threads = {t1, t2}
  Players = {p1, p2}
  Npcs = {n1}
  Spots <- ThreeSpots
  VIEW_RANGE = 1
  None = None
  MaxMoves = 2
SYMMETRY Symmetric
INVARIANTS
  TypeOK
  FoundIsShown
  ShownAsListed
  NpcShownInSight
