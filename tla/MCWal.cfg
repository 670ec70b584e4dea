CONSTANTS
  Appenders = {a1, a2}
  MaxBatch = 2
  MaxRecords = 4
  MaxFaults = 1
SPECIFICATION FairSpec
INVARIANTS AckedDurable CloseHardens ParkedHasWaker IInv
PROPERTIES AppendReturns CloseReturns EventuallyDurable ImplementsDurableLog
CHECK_DEADLOCK FALSE
