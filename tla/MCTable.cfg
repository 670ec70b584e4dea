CONSTANTS
  Memtables <- MCMemtables
  Hash <- MCHash
  HashBits = 6
  NumBits = 8
  NumHashes = 2
  Multiplier = 21
  Probes = {1, 2, 4, 5, 8, 9}
  BlockSize = 3
  FilterSize = 2
  CacheLimit = 2
  CacheShards = 2
  Readers = {r1, r2}
  Buffers = {b1, b2}
  MaxReads = 3
  MaxOpens = 1
SPECIFICATION Spec
INVARIANTS ReadsExact LayoutSound CacheSound
CHECK_DEADLOCK FALSE
