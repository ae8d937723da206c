SPECIFICATION Spec
CONSTANTS
  o1 = o1
  o2 = o2
  o3 = o3
  N = 3
  Objects = {o1, o2, o3}
  MaxUser = 2
  MaxSends = 1
  MaxEpoch = 4
  Null = Null
  Absent = Absent
SYMMETRY Symmetric
INVARIANTS
  TypeOK
  RetiredIsUnpublished
  AcceptHasOneOwner
PROPERTIES
  ReclaimSafe
  IdNeverReused
