SPECIFICATION Spec
CONSTANTS
  l1 = l1
  l2 = l2
  q1 = q1
  q2 = q2
  NoRequest = none
  Locations <- MCLocations
  RequestIds <- MCRequestIds
  Types <- AllKindsOfTypes
  Reuse = TRUE
  Truncated = TRUE
  MaxEvents = 7
SYMMETRY MCSymmetry
INVARIANTS
  TypeOK
  InOrderOnce
  HeadIsPending
  RequestCarriesItsReceive
  HeldBackOnlyByOpenRequest
  EmptyAfterCompleteTrace
PROPERTIES
  ImplementsStream
