SPECIFICATION MCSpec
CONSTANTS
  Fuzzers = {f1, f2}
  Cases = {{1}, {2}, {2, 3}}
  Seed = {1}
  Starts = 2
  Races = {}
  CpuJobs = {j1, j2, j3}
  CoreCount = 2
  CpuStarts = 3
  OutJobs = {o1, o2}
  OutStarts = 3
  OutFinds <- MCFinds
INVARIANTS
  NoneSkipped
  CoreIsFree
PROPERTIES
  EveryCaseArrives
  SetUpHolds
CHECK_DEADLOCK FALSE
