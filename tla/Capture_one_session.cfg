SPECIFICATION CaptureSpec
CONSTANTS
  Runs = {r1, r2}
  NoRun = NoRun
  Transcripts = {t1}
  MaxExchanges = 2
  MaxText = 1
  MaxFaults = 1
  Kinds = {"timed", "manual"}
  Repeats = {2}
  Old = {3}
  NoStamp = NoStamp
SYMMETRY RunSymmetry
INVARIANTS
  StampCoversSettled
PROPERTIES
  TimedWritesFinishedText
  KeepsPromise
  UsesLock
  DeletesOnlyCopies
CHECK_DEADLOCK FALSE
