SPECIFICATION FairLockSpec
CONSTANTS
  Runs = {r1, r2, r3}
  NoRun = NoRun
INVARIANTS
  NoLeakedLock
  ExtraRunsBounded
PROPERTIES
  EveryRunEnds
  TheDeadDoNotBlock
CHECK_DEADLOCK FALSE
