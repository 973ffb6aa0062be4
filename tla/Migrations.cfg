SPECIFICATION Spec
CONSTANTS
  currentSchemaVersion = 1
  Newest = 2
  Size = 21
  Drivers = {TRUE, FALSE}
  MaxFaults = 3
INVARIANTS
  TypeOK
  SchemaIsWhole
PROPERTIES
  ServesItsSchema
  ComesUp
CHECK_DEADLOCK FALSE
