SPECIFICATION Spec
CONSTANTS
  MaxEntries = 3
  MapSize = 2
  Costs = {1, 2}
  Seeds = 2
  CalChances = 2
  SkipMin = 1
  Variable = FALSE
  NoEntry = NoEntry
INVARIANTS
  ScoreIsLoop
  FavoredSetExact
  TopRatedCheapest
CHECK_DEADLOCK FALSE
