SPECIFICATION Spec
CONSTANTS
  a = a
  b = b
  up = up
  t1 = t1
  t2 = t2
  k1 = k1
  k2 = k2
  v1 = v1
  v2 = v2
  IDs <- MCIDs
  Uuids <- MCIDs
  NotString = NotString
  NullID = NullID
  Data <- MCData
  Nil = Nil
  ValidateUUID = TRUE
  ValidateSchoolUnitCode = TRUE
  Tenants <- MCTenants
  NoKey = NoKey
  Clients <- MCClients
  Parts <- MCParts
  Conns = {c1, c2}
  HTTPRequests <- MCRequests
  Types <- MCTypes
  Absent = Absent
  Contents <- MCContents
  Storages = {"file", "sql", "dummy"}
  Modes = {"interactive", "service"}
  Never = Never
INVARIANTS
  TypeOK
  AnswersAreTrue
  AnsweredIsSaved
PROPERTIES
  OwnTenantOnly
  ShutdownEnds
CHECK_DEADLOCK FALSE
