SPECIFICATION Spec
CONSTANTS
  Conns = {c1, c2, c3}
  Workspaces = {w1, w2}
  DefaultWorkspace = w1
  Signals = {SIGINT, SIGTERM}
CHECK_DEADLOCK FALSE
INVARIANTS
  DatabasesInUse
  NothingLeftOpen
PROPERTIES
  ShutdownEnds
