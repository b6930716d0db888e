SPECIFICATION Spec
CONSTANTS
  seed1 = seed1
  seed2 = seed2
  packSeed = packSeed
  own = own
  runner1 = runner1
  tone = tone
  Ids = {seed1, seed2, packSeed, own}
  RunnerIds = {runner1}
  GadgetFiles <- GadgetsThereOrNot
  RunnerFiles <- RunnersThereOrNot
  Embedded <- Catalog
  Packs <- ToneOnly
  NoGadget = NoGadget
  NoName = NoName
INVARIANTS
  TypeOK
PROPERTIES
  SeedingOnlyAdds
  SeedingCompletes
