CONSTANTS
  Clients = {c1, c2}
  Reqs = {r1, r2}
  QueueCap = 1
  BatchCap = 2
  Window = TRUE
  MaxCalls = 2
SPECIFICATION FairSpec
INVARIANTS NothingBehindNil StoppedIsQuiet CloserHasWaker HandOver
  RequestsTracked OwnAnswer
PROPERTIES PutReturns StopReturns
CHECK_DEADLOCK FALSE
