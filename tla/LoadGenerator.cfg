SPECIFICATION Spec
CONSTANTS
  Workers = {w1, w2}
  Test = test
  MaxClients = 3
  MaxTest = 2
  MaxUser = 2
  MinActive = 1
  Part = 2
  MaxClose = 4
CHECK_DEADLOCK FALSE
INVARIANTS
  TypeOK
  ActiveIsConnected
  PointCloudFits
  ConnectedIsHeard
PROPERTIES
  EndNeedsStragglers
SYMMETRY Symmetry
