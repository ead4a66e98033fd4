SPECIFICATION IndexSpec
CONSTANTS
  curated = curated
  staging = staging
  None = None
  Scopes = {curated}
  Driven = {}
  Files = {f1}
  Queries = {q1, q2}
  Jobs = {}
  Others = {}
  JobScopes <- OneScope
  MaxEdits = 2
  MaxFaults = 0
  MaxInline = 1
  FirstBuildMax = 1
SYMMETRY TaskSymmetry
INVARIANT NeverSilentlyStale
CHECK_DEADLOCK FALSE
