SPECIFICATION Spec
CONSTANTS
  g1 = g1
  g2 = g2
  g3 = g3
  c1 = c1
  c2 = c2
  Ids = {g1, g2, g3}
  Contents = {c1, c2}
  Categories <- Order
  PageLimit = 2
  MaxFit = 2
  WriteBound = 2
  Libraries <- InitialLibraries
CHECK_DEADLOCK FALSE
INVARIANTS
  TypeOK
  DeliversWhatWasShown
PROPERTIES
  ChainContributed
  WizardEnds
