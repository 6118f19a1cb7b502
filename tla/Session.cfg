SPECIFICATION MCSpec
CONSTANTS
  MaxEntries = 2
  CalChances = 2
  SkipAbove = 1
  SyncInterval = 1
  DoneAfter = 2
  Cases = {a, b, c}
  Seeds = {a, b}
  Crashes = {x, y}
  Timeouts = {20, 40}
  Sessions = 4
  Restart = FALSE
  KilledIn = {"setup", "import", "run"}
INVARIANTS
  PositionIsRight
  DoneMeansDone
  SessionKept
  DetNotRepeated
PROPERTIES
  EveryEntryFuzzed
  DoneInTheEnd
CHECK_DEADLOCK FALSE
