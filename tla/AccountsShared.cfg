SPECIFICATION Spec
CONSTANTS
  Clients = {c1, c2}
  Names = {n1}
  Workers = {w1}
  DbId = db
  NoName = NoName
  NoRow = NoRow
  Half = 1
  MaxProgress = 1
  MaxAdding = 1
SYMMETRY Symmetric
INVARIANTS
  OneSessionPerUser
