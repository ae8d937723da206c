SPECIFICATION Spec
CONSTANTS
  w1 = w1
  w2 = w2
  p1 = p1
  p2 = p2
  Workers = {w1, w2}
  Players = {p1, p2}
  SystemId = SystemId
  MaxHp = 2
  RespawnHp = 2
  Damages = {1, 2}
  Agro = TRUE
  MaxMoves = 2
  MaxAttacks = 2
SYMMETRY Symmetric
INVARIANTS
  TypeOK
  ActiveHasMover
  DeadHasRespawn
