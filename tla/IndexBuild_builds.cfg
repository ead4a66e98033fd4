CONSTANTS
  f1 = f1
  b1 = b1
  b2 = b2
  s1 = s1
  None = None
  Files = {f1}
  Builders = {b1, b2}
  Seeders = {s1}
  Releases <- ThreeReleases
  Policies = {"whole", "split"}
  Versions = {0, 1}
  FlushEvery = 2
  MaxEdits = 1
  MaxFaults = 1
SPECIFICATION BuildSpec
SYMMETRY BuilderSymmetry
INVARIANTS VectorsAreOfTheirText
PROPERTIES PublishedIsFull KeepsCheckpoints
CHECK_DEADLOCK FALSE
