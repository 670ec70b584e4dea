CONSTANTS
  Keys = {k1}
  Scenarios <- FaultScenarios
  Readers = {}
  MemtableMax = 1
  MaxBatch = 1
  MaxWrites = 2
  MaxClock = 9
  PowerLoss = FALSE
SPECIFICATION Spec
INVARIANT AckedVisible
CHECK_DEADLOCK FALSE
