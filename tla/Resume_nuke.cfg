SPECIFICATION Spec
CONSTANTS
  Cases = {a, b, c}
  Seeds = {a, b}
  Crashes = {x, y}
  Timeouts = {20, 40}
  Sessions = 3
  Restart = FALSE
  KilledIn = {"nuke"}
INVARIANTS
  NothingLost
CHECK_DEADLOCK FALSE
