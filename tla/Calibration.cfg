SPECIFICATION Spec
CONSTANTS
  MapSize = 2
  Traces <- MCTraces
  MaxEntries = 2
  Seeds = 2
  CalCycles = 2
  CalCyclesLong = 3
  CalChances = 2
  KeepCrash = 2
  KeepHang = 2
INVARIANTS
  MapsExact
  CalibrationsCounted
  VariableExact
CHECK_DEADLOCK FALSE
