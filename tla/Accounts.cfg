SPECIFICATION Spec
CONSTANTS
  Clients = {c1, c2}
  Names = {n1}
  Workers = {w1, w2}
  DbId = db
  NoName = NoName
  NoRow = NoRow
  Half = 2
  MaxProgress = 2
  MaxAdding = 1
SYMMETRY Symmetric
INVARIANTS
  TypeOK
  RowCatchesUp
PROPERTIES
  ProgressSurvives
CONSTRAINT Promised
