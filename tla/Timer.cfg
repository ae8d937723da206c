SPECIFICATION TimerFairSpec
CONSTANTS
  Events = {e1, e2, e3}
  Delays = {0, 1, 2}
  MaxClock = 3
INVARIANTS
  TimerTypeOK
  InOrder
PROPERTIES
  Implements
  AllPosted
