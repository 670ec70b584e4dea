CONSTANTS
  MemtableMaxBytes = 4194304
  MinArenaSize = 1048576
  KeySize = 8
  ValueSize = 8
  BatchSize = 256
SPECIFICATION Spec
INVARIANT ArenaFits
CHECK_DEADLOCK FALSE
