SPECIFICATION GitSpec
CONSTANTS
  Memories = {a, b, c}
  Quoted = {b}
  Bare = {c}
  MaxShots = 3
  Keep = 1
  Runs = {r1, r2, r3}
  Accepting = {r3}
  ReadOnly = {r2}
  MaxSaves = 2
  MaxFaults = 1
  NoFile = NoFile
PROPERTIES
  GoneStaysInHead
  FactTimeIsCommitTime
CHECK_DEADLOCK FALSE
