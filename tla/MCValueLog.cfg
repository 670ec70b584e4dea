CONSTANTS
  Sizes = {1, 2}
  SegmentMax = 3
  MaxCompactOffset = 1
  MaxRecords = 5
  MaxFaults = 1
  MaxCrashes = 2
SPECIFICATION Spec
INVARIANTS OpensAgain RefsExact
PROPERTY ImplementsFlatLog
CHECK_DEADLOCK FALSE
