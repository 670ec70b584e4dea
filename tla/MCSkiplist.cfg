CONSTANTS
  Keys = {1, 2}
  Writers = {w1, w2}
  Readers = {r1}
  MaxHeight = 2
  MaxPuts = 3
  MaxReads = 1
SPECIFICATION FairSpec
INVARIANTS ListSound SearchExact
PROPERTIES ImplementsAtomicMap PutReturns
CHECK_DEADLOCK FALSE
