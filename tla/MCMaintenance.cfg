SPECIFICATION Spec
CONSTANTS
  AllKeys = {1, 2, 3}
  Memtables <- MCMemtables
  MaxFlushes = 3
  MaxJobs = 2
  MaxMishaps = 1
INVARIANTS
  LevelsDisjoint
  DataKept
  GarbageCollected
CHECK_DEADLOCK FALSE
