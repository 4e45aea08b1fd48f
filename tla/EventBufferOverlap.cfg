SPECIFICATION Spec
CONSTANTS
  l1 = l1
  l2 = l2
  q1 = q1
  q2 = q2
  NoRequest = none
  Locations <- MCLocations
  RequestIds <- MCRequestIds
  Types <- UnhandledTypes
  Reuse = TRUE
  Truncated = FALSE
  MaxEvents = 6

INVARIANTS
  EveryRequestCarriesItsReceive
