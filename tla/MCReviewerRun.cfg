SPECIFICATION Spec
CONSTANTS
  Commands = {"ok", "empty", "notOnPath"}
  ExitCodes = {0, 1, 137, 143}
  Killed = 137
  Terminated = 143
  Success = 0
  NoRunner = NoRunner
  NoCode = NoCode
INVARIANTS
  TypeOK
  NothingLeftBehind
  StatusTellsWhy
PROPERTIES
  CallsEnd
