SPECIFICATION Spec
CONSTANTS
  Fuzzers = {f1, f2}
  Cases = {{1}, {2}, {2, 3}}
  Seed = {1}
  Starts = 2
  Races = {"save", "listing", "resume", "new"}
INVARIANTS
  KeptIsNew
CHECK_DEADLOCK FALSE
