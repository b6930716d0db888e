SPECIFICATION ImportSpec
CONSTANTS
  Names = {n1, n2, bad}
  ValidNames = {n1, n2}
  RowIds = {r1, r2}
  Bodies = {b1, b2}
  MaxAliases = 1
  VersionBound = 3
  NoRow = NoRow
  NoName = NoName
  MaxLines = 3
  Invalid = Invalid
SYMMETRY ImportSymmetry
INVARIANTS
  TypeOK
  HeadIsNewestRevision
  SearchIsExact
  CountsAreTrue
  ExistingKept
  CleanImportIsComplete
