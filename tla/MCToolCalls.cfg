SPECIFICATION ToolsSpec
CONSTANTS
  reader = reader
  writer = writer
  admin = admin
  n1 = n1
  n2 = n2
  bad = bad
  r1 = r1
  b1 = b1
  b2 = b2
  Names = {n1, n2, bad}
  ValidNames = {n1, n2}
  RowIds = {r1, r2}
  Bodies = {b1, b2}
  MaxAliases = 1
  VersionBound = 3
  NoRow = NoRow
  NoName = NoName
  Sessions = {reader, writer, admin}
  RoleOf <- RoleOfSession
  RunnerIds = {claude}
  Misshapen = {b2}
  InitialStores <- Stores
  CallBound = 2
CHECK_DEADLOCK FALSE
INVARIANTS
  ToolsTypeOK
  ChangesLeaveTraces
  CountersMatchLog
PROPERTIES
  EffectsAreWarranted
