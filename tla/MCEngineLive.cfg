CONSTANTS
  Keys = {k1}
  Scenarios <- LiveScenarios
  Readers = {r1}
  MemtableMax = 1
  MaxBatch = 1
  MaxWrites = 4
  MaxClock = 12
  PowerLoss = FALSE
SPECIFICATION FairSpec
PROPERTIES RotatedIsFlushed CloseReturns ReadsLinearizable
CHECK_DEADLOCK FALSE
