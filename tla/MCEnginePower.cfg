CONSTANTS
  Keys = {k1}
  Scenarios <- PowerScenarios
  Readers = {}
  MemtableMax = 1
  MaxBatch = 1
  MaxWrites = 2
  MaxClock = 9
  PowerLoss = TRUE
SPECIFICATION Spec
INVARIANT AckedSurvivesPower
CHECK_DEADLOCK FALSE
