SPECIFICATION Spec
CONSTANTS
  MaxEntries = 3
  MapSize = 2
  Costs = {1, 2}
  Seeds = 1
  CalChances = 2
  SkipMin = 1
  Variable = TRUE
  NoEntry = NoEntry
INVARIANTS
  ReferencesExact
  PendingNotFuzzedExact
  FavoredExact
CHECK_DEADLOCK FALSE
