SPECIFICATION Spec
CONSTANTS
  a = a
  b = b
  t1 = t1
  t2 = t2
  v1 = v1
  v2 = v2
  Callers = {p1, p2}
  IDs <- MCIDs
  Uuids <- MCUuids
  Data <- MCData
  NotString = NotString
  NullID = NullID
  Nil = Nil
  Absent = Absent
  Free = Free
  Live = Live
  Torn = Torn
  Tenants <- MCTenants
  Types <- MCTypes
  Requests <- CallRequests
  Files <- EmptyOrStale
  ValidateUUID = TRUE
  ValidateSchoolUnitCode = TRUE
INVARIANTS
  TypeOK
  Inv
  LockDiscipline
  ParsedMirrors
  NoNilMapWrite
PROPERTIES
  ImplementsStore
  EveryCallReturns
