CONSTANTS
  Keys = {k1, k2}
  Scenarios <- AllScenarios
  Readers = {}
  MemtableMax = 2
  MaxBatch = 2
  MaxWrites = 3
  MaxClock = 9
  PowerLoss = FALSE
SPECIFICATION Spec
INVARIANTS NewestVisible AckedRecoverable CrashLosesSuffix AckedOnDisk NothingDropped
  RefsResolve CleanClose
PROPERTY ImplementsKVStore
SYMMETRY KeySymmetry
CHECK_DEADLOCK FALSE
