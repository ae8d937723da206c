SPECIFICATION FairSpec
CONSTANTS
  Clients = {c1}
  Names = {n1}
  Workers = {}
  DbId = db
  NoName = NoName
  NoRow = NoRow
  Half = 1
  MaxProgress = 1
  MaxAdding = 1
PROPERTIES
  WorkIsTaken
CHECK_DEADLOCK FALSE
