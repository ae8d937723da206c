SPECIFICATION FairSpec
CONSTANTS
  w1 = w1
  w2 = w2
  p1 = p1
  p2 = p2
  Workers = {w1, w2}
  Players = {p1}
  SystemId = SystemId
  MaxHp = 2
  RespawnHp = 2
  Damages = {2}
  Agro = FALSE
  MaxMoves = 2
  MaxAttacks = 2
PROPERTIES
  DeadIsRevived
  LonelyFallsAsleep
