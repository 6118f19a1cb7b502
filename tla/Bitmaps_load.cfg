SPECIFICATION MapsSpec
CONSTANTS
  EdgeNumbers = {2, 3}
  HitCounts = {0, 1, 3}
  WordBytes = 2
INVARIANT LoadedBitmapUsed
CHECK_DEADLOCK FALSE
