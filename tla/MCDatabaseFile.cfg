SPECIFICATION Spec
CONSTANTS
  Servers = {s1, s2}
  Cli = cli
  Migrations = 3
  Writes = {w1, w2}
  CrashBound = 1
  CommandBound = 3
  Absent = Absent
  Partial = Partial
CHECK_DEADLOCK FALSE
INVARIANTS
  SchemaIsComplete
  CopySurvives
PROPERTIES
  SomeServerComesUp
