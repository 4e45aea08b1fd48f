SPECIFICATION Spec
CONSTANTS
  comm = comm
  inter = inter
  k1 = k1
  k2 = k2
  None = none
  Undefined = 3
  Holders <- MCHolders
  Keyed <- MCKeyed
  Keys <- MCKeys
  MaxCalls = 4

SYMMETRY MCSymmetry
CHECK_DEADLOCK FALSE
INVARIANTS
  GivesUpWhenFull
