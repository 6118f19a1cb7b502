SPECIFICATION Spec
CONSTANTS
  Cases = {a, b, c}
  Seeds = {a, b}
  Crashes = {x, y}
  Timeouts = {20, 40}
  Sessions = 2
  Restart = FALSE
  KilledIn = {"run"}
PROPERTIES
  TimeoutCarriesOver
CHECK_DEADLOCK FALSE
