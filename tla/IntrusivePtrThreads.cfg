SPECIFICATION FairSpec
CONSTANTS
  t1 = t1
  t2 = t2
  h1 = h1
  h2 = h2
  o1 = o1
  o2 = o2
  o3 = o3
  Null = null
  Threads <- MCThreads
  Handles <- MCHandles
  Objects <- MCObjects
  Slots <- MCSlots
  Depth <- MCDepth
INVARIANTS
  TypeOK
  CountIsHolders
  NoDanglingPointer
  DeletedByOne
  NoGarbage
  UnwoundByOne
PROPERTIES
  NeverRevived
  NothingLeaks
