SPECIFICATION StorageSpec
CONSTANTS
  a = a
  t0 = t0
  t1 = t1
  v1 = v1
  Callers = {p1}
  IDs <- MCIDs
  Uuids <- MCUuids
  Data <- MCData
  NotString = NotString
  NullID = NullID
  Nil = Nil
  Absent = Absent
  Free = Free
  Live = Live
  Torn = Torn
  Tenants <- MCTenants
  Types <- OneType
  Requests <- SaveRequests
  Files <- MCFiles
  Platforms <- Both
  Disks <- MCDisks
  NoTenant = t0
  NoFile = NoFile
  Damaged = Damaged
  Nowhere = Nowhere
  ValidateUUID = TRUE
  ValidateSchoolUnitCode = TRUE
INVARIANTS
  StorageTypeOK
  ParsedMirrors
  AlwaysLoadable
PROPERTIES
  SavesAreReal
  ComesBack
  SaveEnds
  EveryCallReturns
CHECK_DEADLOCK FALSE
