SPECIFICATION Spec
CONSTANTS
  Pids = {p1, p2}
  NoPid = NoPid
  InitPid = InitPid
  MaxCycles = 2
  uses_asan = TRUE
INVARIANTS
  ChannelDiscipline
  VerdictIsTrue
  MapsOfThisRun
  ServerKeepsChild
PROPERTIES
  RunReturns
  ImplementsTargetRun
CHECK_DEADLOCK FALSE
