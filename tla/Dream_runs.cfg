SPECIFICATION FairDreamSpec
CONSTANTS
  d1 = d1
  d2 = d2
  None = None
  Hook = hook
  People = {p1}
  Listing <- TwoDocs
  Layouts <- AllLayouts
  Drafts = {d2}
  Staged = {d1, d2}
  Contents = {0, 1, 2}
  First = {0, 1}
  Secrets = {1, 2}
  Limit = 1
  RescoreDays = 2
  MinNewDocs = 1
  MaxEdits = 1
  MaxManual = 2
  MaxFaults = 1
INVARIANTS SecretsAreHeld
PROPERTIES DecisionsStand DueOncePerDay WindowRolls
CHECK_DEADLOCK FALSE
