SPECIFICATION Spec
CONSTANTS
  Objects = {o1, o2}
  Lists = {L1, L2, L3, L4}
  Attributes = {a1, a2}
  Types <- MCTypes
  Values = {v}
  MaxDepth = 2
  Null = null
  Absent = absent
SYMMETRY ListSymmetry
CHECK_DEADLOCK FALSE

INVARIANTS
  TypeOK
  NothingDangles
  OwnedOnce
  NothingLeaks
PROPERTIES
  ImplementsValues
