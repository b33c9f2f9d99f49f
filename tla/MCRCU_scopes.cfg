CONSTANTS
  r1 = r1
  r2 = r2
  w1 = w1
  w2 = w2
  c1 = c1
  c2 = c2
  None = None
  Readers <- OneReader
  Writers <- TwoWriters
  Keepers <- OneKeeper
  Cells <- TwoCells
  MaxVersions = 4
SPECIFICATION FairSpec
INVARIANTS TypeOK NoUpdateLost ReadsAreFresh DeadWoodBounded
PROPERTIES HeldIsStable ReadersDestroyNothing WritersProceed
CHECK_DEADLOCK FALSE
