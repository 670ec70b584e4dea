------------------------------- MODULE Table -------------------------------
(***************************************************************************)
(* A table of sstable/sstable.go: Flush of a memtable into blocks, index   *)
(* and filter, Open, and concurrent calls of Get and Scan through the      *)
(* block cache and the pool of buffers, racing with Close.                 *)
(*                                                                         *)
(* A memtable is a function from keys to the sizes of their entries; an    *)
(* entry is the pair of its key and its size.  An entry of size 1 has an   *)
(* empty value.  The steps of a reader are the critical sections of a      *)
(* shard of the cache and the use of a buffer.                             *)
(***************************************************************************)
EXTENDS Integers, FiniteSets, Sequences, SequencesExt, Search, Bloom

CONSTANTS
  Memtables,      \* memtables that are flushed
  Probes,         \* keys that are looked up
  BlockSize,      \* sstableBlockSize
  FilterSize,     \* bytes reserved for the filter
  CacheLimit,     \* blockCacheEntryLimit
  CacheShards,    \* blockCacheShardCount
  Readers, Buffers,
  MaxReads,       \* bound on the calls of Get and Scan
  MaxOpens        \* bound on the calls of Open

ASSUME TableAssumption ==
  /\ BlockSize \in Nat /\ FilterSize \in Nat
  /\ CacheLimit \in Nat \ {0} /\ CacheShards \in Nat \ {0}

VARIABLES
  ents,     \* history: the memtable that was flushed
  file,     \* the file: filter, blocks by offset, index
  state,    \* Table: "none", "open", "closing", "closed"
  cleared,  \* shards Close has cleared so far
  meta,     \* smallest and largest
  blocks, order,  \* per shard: cached blocks by offset, and their offsets by age
  buf,      \* contents of the buffers
  free,     \* dataBlockPool
  rd,       \* reader -> its locals
  reads, opens,
  wrong     \* history: a Get or a Scan returned something wrong

vars == <<ents, file, state, cleared, meta, blocks, order, buf, free, rd, reads, opens, wrong>>

Shards == 0..(IF CacheLimit < CacheShards THEN CacheLimit ELSE CacheShards) - 1
PerShard == (CacheLimit + Cardinality(Shards) - 1) \div Cardinality(Shards)
Shard(offset) == offset % Cardinality(Shards)

NoFile == [filter |-> {}, data |-> <<>>, index |-> <<>>]
NoReader == [pc |-> "idle", op |-> "get", key |-> 0, range |-> 0, buf |-> 0, got |-> <<>>]

-----------------------------------------------------------------------------
(* Flush *)

Key(e)  == e[1]
Size(e) == e[2]

\* The entries of a memtable in the order of its iterator.
Entries(m) == [i \in 1..Cardinality(DOMAIN m) |->
                 LET k == SetToSortSeq(DOMAIN m, <)[i] IN <<k, m[k]>>]

Length(block) == FoldLeft(LAMBDA n, e : n + Size(e), 0, block)

\* Mutant: a block takes one entry more than fits.
FitsMutant(block, e) == block = <<>> \/ Length(block) <= BlockSize

\* An entry goes into the current block.
Fits(block, e) == block = <<>> \/ Length(block) + Size(e) <= BlockSize

\* writeDataBlocks: the blocks, filled one after the other.
Split(es) ==
  FoldLeft(LAMBDA bs, e : IF bs # <<>> /\ Fits(Last(bs), e)
                            THEN Front(bs) \o <<Append(Last(bs), e)>>
                            ELSE Append(bs, <<e>>),
           <<>>, es)

Offset(bs, i) == FilterSize + FoldLeft(LAMBDA n, b : n + Length(b), 0, SubSeq(bs, 1, i - 1))

\* The file of Flush: filter, blocks and index.
FileOf(m) ==
  LET es == Entries(m)
      bs == Split(es)
  IN  [filter |-> FoldLeft(LAMBDA f, e : AddHash(f, Key(e)), {}, es),
       data   |-> [o \in {Offset(bs, i) : i \in DOMAIN bs} |->
                     bs[CHOOSE i \in DOMAIN bs : Offset(bs, i) = o]],
       index  |-> [i \in DOMAIN bs |-> [first |-> Key(bs[i][1]), offset |-> Offset(bs, i),
                                        length |-> Length(bs[i])]]]

\* sst.idx and the filter of an open table are those of its file.
Ranges == file.index

\* loadMetadata reads the last block, through the cache, for the largest key.
Metadata(f) == [small |-> f.index[1].first,
                large |-> Key(Last(f.data[Last(f.index).offset]))]

\* cachedDataBlock: its bytes are its own (in = 0), or those of the buffer `in'.
Owned(data) == [in |-> 0, data |-> data]
Bytes(block) == IF block.in = 0 THEN block.data ELSE buf[block.in]

\* newDataBlockCache, and what loadMetadata puts there.
FreshCache(f) ==
  LET last == Last(f.index).offset
  IN  /\ blocks' = [s \in Shards |-> IF s = Shard(last) THEN last :> Owned(f.data[last]) ELSE <<>>]
      /\ order' = [s \in Shards |-> IF s = Shard(last) THEN <<last>> ELSE <<>>]

\* An entry larger than a block is an error, and the file is removed.
TooLarge(m) == \E k \in DOMAIN m : m[k] > BlockSize

Flush(m) ==
  /\ state = "none"
  /\ ents' = m
  /\ IF TooLarge(m)
       THEN /\ state' = "failed"
            /\ UNCHANGED <<file, meta, blocks, order>>
       ELSE /\ state' = "open"
            /\ file' = FileOf(m)
            /\ meta' = Metadata(file')
            /\ FreshCache(file')
  /\ UNCHANGED <<cleared, buf, free, rd, reads, opens, wrong>>

Open ==
  /\ state = "closed" /\ opens < MaxOpens
  /\ \A r \in Readers : rd[r].pc = "idle"
  /\ state' = "open" /\ opens' = opens + 1 /\ cleared' = {}
  /\ meta' = Metadata(file)
  /\ FreshCache(file)
  /\ UNCHANGED <<ents, file, buf, free, rd, reads, wrong>>

\* Close clears the cache shard by shard and then closes the file.
ClearShard(s) ==
  /\ state \in {"open", "closing"} /\ cleared = 0..s - 1
  /\ state' = "closing" /\ cleared' = cleared \cup {s}
  /\ blocks' = [blocks EXCEPT ![s] = <<>>]
  /\ order' = [order EXCEPT ![s] = <<>>]
  /\ UNCHANGED <<ents, file, meta, buf, free, rd, reads, opens, wrong>>

CloseFile ==
  /\ state = "closing" /\ cleared = Shards
  /\ state' = "closed"
  /\ UNCHANGED <<ents, file, cleared, meta, blocks, order, buf, free, rd, reads, opens, wrong>>

-----------------------------------------------------------------------------
(* Get and Scan *)

\* findDataRange: the last range that does not start after the key; 0 is nil.
FindDataRange(k) == 
  SortSearch(Len(Ranges), [i \in 0..Len(Ranges) - 1 |-> Ranges[i + 1].first > k])

\* cachedDataBlock.lookup, and the copy of the value: nil (0) when it is empty.
Lookup(block, k) ==
  LET i == SortSearch(Len(block), [j \in 0..Len(block) - 1 |-> Key(block[j + 1]) >= k])
  IN  IF i < Len(block) /\ Key(block[i + 1]) = k /\ Size(block[i + 1]) > 1 THEN k ELSE 0

\* What Get has to return.
Expected(k) == IF k \in DOMAIN ents /\ ents[k] > 1 THEN k ELSE 0

Become(r, s) == rd' = [rd EXCEPT ![r] = s]

MayRead(r) == state \in {"open", "closing", "closed"} /\ rd[r].pc = "idle" /\ reads < MaxReads

\* Get up to the call of getCachedBlock; filter and index are immutable.
Get(r, k) ==
  /\ MayRead(r)
  /\ reads' = reads + 1
  /\ IF ContainsHash(file.filter, k) /\ FindDataRange(k) # 0
       THEN /\ Become(r, [NoReader EXCEPT !.pc = "cache", !.key = k, !.range = FindDataRange(k)])
            /\ UNCHANGED wrong
       ELSE wrong' = (wrong \/ Expected(k) # 0) /\ UNCHANGED rd
  /\ UNCHANGED <<ents, file, state, cleared, meta, blocks, order, buf, free, opens>>

\* Scan, and an Iterator from Rewind to its end.
Scan(r) ==
  /\ MayRead(r)
  /\ reads' = reads + 1
  /\ Become(r, [NoReader EXCEPT !.pc = "cache", !.op = "scan", !.range = 1])
  /\ UNCHANGED <<ents, file, state, cleared, meta, blocks, order, buf, free, opens, wrong>>

\* getCachedBlock returned a block.
Deliver(r, block) ==
  LET got == rd[r].got \o block
      more == rd[r].op = "scan" /\ rd[r].range < Len(Ranges)
  IN  /\ Become(r, IF more THEN [rd[r] EXCEPT !.pc = "cache", !.range = @ + 1, !.got = got,
                                              !.buf = 0]
                   ELSE NoReader)
      /\ wrong' = (wrong \/ IF rd[r].op = "get" THEN Lookup(block, rd[r].key) # Expected(rd[r].key)
                            ELSE ~more /\ got # Entries(ents))

At(r) == Ranges[rd[r].range].offset

\* dataBlockCache.get
CacheHit(r) ==
  /\ rd[r].pc = "cache" /\ At(r) \in DOMAIN blocks[Shard(At(r))]
  /\ Deliver(r, Bytes(blocks[Shard(At(r))][At(r)]))
  /\ UNCHANGED <<ents, file, state, cleared, meta, blocks, order, buf, free, reads, opens>>

CacheMiss(r) ==
  /\ rd[r].pc = "cache" /\ At(r) \notin DOMAIN blocks[Shard(At(r))]
  /\ Become(r, [rd[r] EXCEPT !.pc = "read"])
  /\ UNCHANGED <<ents, file, state, cleared, meta, blocks, order, buf, free, reads, opens, wrong>>

\* getDataBlock takes the buffer out of the pool until the end of getCachedBlock.
Lease(b) == free' = free \ {b}

ReadAt(r, b) ==
  /\ rd[r].pc = "read" /\ state # "closed" /\ b \in free
  /\ buf' = [buf EXCEPT ![b] = file.data[At(r)]]
  /\ Lease(b)
  /\ Become(r, [rd[r] EXCEPT !.pc = "parse", !.buf = b])
  /\ UNCHANGED <<ents, file, state, cleared, meta, blocks, order, reads, opens, wrong>>

\* The file is closed: Get and Scan return the error.
ReadAtFails(r) ==
  /\ rd[r].pc = "read" /\ state = "closed"
  /\ Become(r, NoReader)
  /\ UNCHANGED <<ents, file, state, cleared, meta, blocks, order, buf, free, reads, opens, wrong>>

\* Mutant: a block that is there is added to the order once more.
AddMutant(offset, block) ==
  LET s == Shard(offset)
      full == offset \notin DOMAIN blocks[s] /\ Cardinality(DOMAIN blocks[s]) >= PerShard
      kept == IF full THEN Restrict(blocks[s], DOMAIN blocks[s] \ {order[s][1]}) ELSE blocks[s]
  IN  /\ blocks' = [blocks EXCEPT ![s] = (offset :> block) @@ kept]
      /\ order' = [order EXCEPT ![s] = Append(IF full THEN Tail(@) ELSE @, offset)]

\* dataBlockCache.add, with evictOldestLocked.
AddToCache(offset, block) ==
  LET s == Shard(offset)
      there == offset \in DOMAIN blocks[s]
      full == ~there /\ Cardinality(DOMAIN blocks[s]) >= PerShard
      kept == IF full THEN Restrict(blocks[s], DOMAIN blocks[s] \ {order[s][1]}) ELSE blocks[s]
      left == IF full THEN Tail(order[s]) ELSE order[s]
  IN  /\ blocks' = [blocks EXCEPT ![s] = (offset :> block) @@ kept]
      /\ order' = [order EXCEPT ![s] = IF there THEN left ELSE Append(left, offset)]

\* Mutant: the parsed block points into the buffer.
NewCachedDataBlockAliased(b) == [in |-> b, data |-> <<>>]

\* newCachedDataBlock keeps "an owned copy of the raw block bytes".
NewCachedDataBlock(b) == Owned(buf[b])

\* The parsed block is cached and the buffer goes back to the pool.
Parse(r) ==
  LET b == rd[r].buf
      block == NewCachedDataBlock(b)
  IN  /\ rd[r].pc = "parse"
      /\ AddToCache(At(r), block)
      /\ free' = free \cup {b}
      /\ Deliver(r, Bytes(block))
      /\ UNCHANGED <<ents, file, state, cleared, meta, buf, reads, opens>>

-----------------------------------------------------------------------------

Init ==
  /\ ents = <<>> /\ file = NoFile /\ state = "none" /\ cleared = {}
  /\ meta = [small |-> 0, large |-> 0]
  /\ blocks = [s \in Shards |-> <<>>] /\ order = [s \in Shards |-> <<>>]
  /\ buf = [b \in Buffers |-> <<>>] /\ free = Buffers
  /\ rd = [r \in Readers |-> NoReader]
  /\ reads = 0 /\ opens = 0 /\ wrong = FALSE

Next ==
  \/ \E m \in Memtables : Flush(m)
  \/ Open \/ CloseFile
  \/ \E s \in Shards : ClearShard(s)
  \/ \E r \in Readers :
       \/ \E k \in Probes : Get(r, k)
       \/ Scan(r) \/ CacheHit(r) \/ CacheMiss(r) \/ ReadAtFails(r) \/ Parse(r)
       \/ \E b \in Buffers : ReadAt(r, b)

Spec == Init /\ [][Next]_vars

-----------------------------------------------------------------------------
(* Properties *)

\* Whatever the readers do in between, Get returns the value of its key and
\* Scan all entries in order (sstable.go:637), or an error after Close; a cached
\* block outlives the buffer it was read into (sstable.go:82).
ReadsExact == ~wrong

\* The index leads to the blocks: they follow each other from the filter to the
\* index, none is longer than a pooled buffer (sstable.go:56), and the metadata
\* the levels search by is the range of the keys (sstable.go:805).
LayoutSound ==
  state = "open" =>
    /\ \A i \in DOMAIN Ranges :
         /\ Ranges[i].length <= BlockSize
         /\ Ranges[i].length = Length(file.data[Ranges[i].offset])
         /\ Ranges[i].offset = IF i = 1 THEN FilterSize
                               ELSE Ranges[i - 1].offset + Ranges[i - 1].length
    /\ meta.small = Min(DOMAIN ents) /\ meta.large = Max(DOMAIN ents)

\* A shard holds blocks of the file, no more than its share, and `order' has
\* each of them once: an eviction takes the oldest and never nothing
\* (sstable.go:212).
CacheSound ==
  state # "none" => \A s \in Shards :
    /\ Cardinality(DOMAIN blocks[s]) <= PerShard
    /\ Len(order[s]) = Cardinality(DOMAIN blocks[s])
    /\ ToSet(order[s]) = DOMAIN blocks[s]
    /\ \A o \in DOMAIN blocks[s] : Bytes(blocks[s][o]) = file.data[o]

=============================================================================
