SPECIFICATION Spec
CONSTANTS
  Names = {n1, n2, n3, n4}
  ValidNames = {n1, n2, n3, n4}
  RowIds = {r1, r2, r3}
  Bodies = {b1}
  MaxAliases = 2
  VersionBound = 4
  NoRow = NoRow
  NoName = NoName
SYMMETRY Symmetry
INVARIANTS
  NamesUnambiguous
  AliasesWithinCap
  VersionsContiguous
PROPERTIES
  NamesKeepTheirGadget
  HistoryGrows
  ImplementsLibrary
