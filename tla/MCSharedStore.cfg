SPECIFICATION SharedSpec
CONSTANTS
  Names = {n1, n2}
  ValidNames = {n1, n2}
  RowIds = {r1, r2}
  Bodies = {b1}
  MaxAliases = 1
  VersionBound = 3
  NoRow = NoRow
  NoName = NoName
  Processes = {p, q}
  NoProcess = NoProcess
INVARIANTS
  SharedTypeOK
PROPERTIES
  AtomicCalls
  TransactionsEnd
