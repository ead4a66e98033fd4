SPECIFICATION IndexSpec
CONSTANTS
  curated = curated
  staging = staging
  None = None
  Scopes = {curated, staging}
  Driven = {staging}
  Files = {f1}
  Queries = {q1}
  Jobs = {j1, j2}
  Others = {o1}
  JobScopes <- TwoScopes
  MaxEdits = 1
  MaxFaults = 1
  MaxInline = 1
  FirstBuildMax = 1
SYMMETRY TaskSymmetry
INVARIANTS
  OneJobPerIndex
  JobDoneIsServed
CHECK_DEADLOCK FALSE
