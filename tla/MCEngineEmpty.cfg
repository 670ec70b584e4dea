CONSTANTS
  Keys = {k1}
  Scenarios <- EmptyScenarios
  Readers = {}
  MemtableMax = 1
  MaxBatch = 1
  MaxWrites = 2
  MaxClock = 9
  PowerLoss = FALSE
SPECIFICATION Spec
INVARIANT TableGetFindsKey
CHECK_DEADLOCK FALSE
