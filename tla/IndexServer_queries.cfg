SPECIFICATION FairIndexSpec
CONSTANTS
  curated = curated
  staging = staging
  None = None
  Scopes = {curated}
  Driven = {}
  Files = {f1, f2}
  Queries = {q1, q2}
  Jobs = {}
  Others = {o1}
  JobScopes <- OneScope
  MaxEdits = 2
  MaxFaults = 1
  MaxInline = 1
  FirstBuildMax = 1
INVARIANTS
  OneInlineBuild
  UnstampedIsAccountedFor
  ServesWhatIsOnDisk
PROPERTY EveryQueryIsAnswered
CHECK_DEADLOCK FALSE
