SPECIFICATION FairSpec
CONSTANTS
  N = 3
  DownStreams <- Down
  UpStreams <- Up
  BufSize = 4
  SignBit = 4
  MaxByte = 4
  Slack = 1
  MaxHandled = 4
CHECK_DEADLOCK FALSE
INVARIANTS
  TypeOK
  InStepUnlessStarved
PROPERTIES
  ClientImplements
  ArrivedIsHandled
