SPECIFICATION Spec
CONSTANTS
  Nothing = nothing
  Kinds <- SchemaKinds
  Uses <- SchemaUses
  Source <- SchemaSource
  Searched <- SchemaSearched
  Tagged <- SchemaTagged
  Supplements <- SchemaSupplements
  Unread <- SchemaUnread
  Order <- SchemaOrder
  Families <- MCMetric
  Late <- MCLate
  Misread <- MCMisread
  MaxRef = 2
  MaxDefs = 3

INVARIANT
  EveryDefinitionStored
