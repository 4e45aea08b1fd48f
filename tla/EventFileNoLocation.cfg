SPECIFICATION Spec
CONSTANTS
  Nothing = nothing
  Locations = {l1, l2}
  Reread = {l2}
  Initial <- MCInitial
  Attributes = {a1}
  Classes <- EventClass
  Layouts <- EventRecord
  Callbacks <- EventCallback
  Registered <- EventRegistered
  Definitions <- MCDefinitions
  Times <- MCTimes
  Clocks <- MCClocks
  InitialClock <- DefaultClock
  Ticks <- MCTicks
  Instant <- MCInstant
  Convertible <- MCConvertible
  Often <- MCOften
  MaxEvents = 3
  Den = 30
  Bits = 5
  MaxExponent = 21
  Limit = 64
CHECK_DEADLOCK FALSE

INVARIANT EventReaderAssigned
