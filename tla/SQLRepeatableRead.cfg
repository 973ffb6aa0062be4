SPECIFICATION Spec
CONSTANTS
  a = a
  b = b
  t1 = t1
  t2 = t2
  r1 = r1
  r2 = r2
  a1 = a1
  a2 = a2
  b1 = b1
  v1 = v1
  v2 = v2
  w1 = w1
  IDs <- MCIDs
  Uuids <- MCUuids
  NotString = NotString
  NullID = NullID
  Data <- MCData
  Nil = Nil
  ValidateUUID = FALSE
  ValidateSchoolUnitCode = FALSE
  Callers = {p1, p2}
  Tenants <- OneTenant
  Types <- AllTypes
  Requests <- GroupRequests
  Rows <- MCRows
  RowOf <- MCRowOf
  Items <- MCItems
  ItemsOf <- MCItemsOf
  Absent = Absent
  Free = Free
  Isolation = "repeatableRead"
  MaxOpenConns = 2
  AllConnsEnforce = TRUE
INVARIANTS
  NoOrphans
  ResourcesAreWhole
  ReadsAreWhole
  ReadsDoNotPanic
