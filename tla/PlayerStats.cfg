SPECIFICATION Spec
CONSTANTS
  Workers = {w1, w2}
  None = None
  Damages = {2}
  Heals = {1}
  Reward = 3
  StartLevel = 1
  StartExp <- MCExp
  Levels = {1, 2}
  Exps <- MCExps
  HpPerLevel = 3
  ExpPerLevel = 2
  MaxHits = 4
  MaxKills = 2
  MaxLogins = 2
INVARIANTS
  TypeOK
  AliveAtRest
  OneHealPerLogin
  NoRewardLost
PROPERTIES
  DeadComesBack
