SPECIFICATION Spec
CONSTANTS
  Ids = {1, 2, 3}
  Categories = {role, task}
  Wanted = task
  AnyCategory = any
  Limits = {0, 2, 9}
  MaxPageSize = 2
  TimeBound = 1
  NoRow = NoRow
  Start = Start
INVARIANTS
  TypeOK
  NothingTwice
  UntouchedExported
PROPERTIES
  ExportEnds
