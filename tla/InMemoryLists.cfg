SPECIFICATION Spec
CONSTANTS
  a = a
  b = b
  t1 = t1
  t2 = t2
  v1 = v1
  v2 = v2
  Callers = {p1, p2}
  IDs <- WithNull
  Uuids <- MCUuids
  Data <- MCData
  NotString = NotString
  NullID = NullID
  Nil = Nil
  Absent = Absent
  Free = Free
  Live = Live
  Torn = Torn
  Tenants <- OneTenant
  Types <- MCTypes
  Requests <- ListRequests
  Files <- OnlyEmpty
  ValidateUUID = FALSE
  ValidateSchoolUnitCode = FALSE
INVARIANTS
  ParsedMirrors
PROPERTIES
  ImplementsStore
  EveryCallReturns
CHECK_DEADLOCK FALSE
