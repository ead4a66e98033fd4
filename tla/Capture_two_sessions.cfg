SPECIFICATION CaptureSpec
CONSTANTS
  Runs = {r1, r2}
  NoRun = NoRun
  Transcripts = {t1, t2}
  MaxExchanges = 1
  MaxText = 2
  MaxFaults = 1
  Kinds = {"hook", "manual"}
  Repeats = {}
  Old = {}
  NoStamp = NoStamp
SYMMETRY RunSymmetry
INVARIANTS
  StampCoversAll
  IndexCurrentAtRest
CHECK_DEADLOCK FALSE
