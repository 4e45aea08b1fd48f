SPECIFICATION Spec
CONSTANTS
  comm = comm
  inter = inter
  k1 = k1
  k2 = k2
  None = none
  Undefined = 4
  Holders <- MCHolders
  Keyed <- MCKeyed
  Keys <- MCKeys
  MaxCalls = 5

SYMMETRY MCSymmetry
CHECK_DEADLOCK FALSE
INVARIANTS
  TypeOK
  KeyedIsStored
  KeyAgreesWithRef
  VariantsAgree
PROPERTIES
  GeneratedAreFresh
  StaysFound
