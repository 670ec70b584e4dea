# A TLA+ verification of seol

seol is an embedded key-value store in Go: a log-structured merge tree that keeps
large values in a separate value log. This directory holds TLA+ models of its
parts, the TLC configurations that check them, and TLAPS proofs about five of them.
Line numbers refer to the Go sources.

## The system

| part | source | state | operations |
|---|---|---|---|
| write-ahead log | `wal.go` | counters `pending`, `durable`; buffer; file; `wakeCh`, `closeCh`, timer | `appendBatch`, `close`, the `syncLoop` goroutine, `replayWAL` |
| write queue | `db.go` | `writeCh`, `submitters`, pooled requests | `Put`, `Delete`, `writeLoop`, `stopWrites` |
| engine | `db.go` | memtable, immutables, tables, read state, `flushErr` | `processWriteBatch`, `rotateMemtable`, `flushLoop`, `Get`, `Close`, `openDB` |
| manifest | `manifest.go` | the list of tables | `ReplaceTables`, rebuild from the directory |
| value references | `value_ref.go` | - | store, resolve, encode, decode |
| value log | `vlog/` | segments | `Append`, `Read`, `Sync`, rotation, truncation in `Open` |
| tables | `sstable/` | blocks, index, filter, block cache | `Flush`, `Get`, iteration |
| levels, compaction | `compaction.go` | levels 0 and up | planner, merge, replacement of files, lookup |
| value log GC | `gc.go` | - | rewriting of live values, replacement of files |
| memtable | `skiplist/` | towers in an arena | lock-free `Put`, `Get`, iteration |
| filter | `bloom/` | bits | add, contains |
| directory lock | `dir_lock*.go` | - | acquire, release |

A call of `Put` queues a request for the one writer goroutine, which stores large
values in the value log, appends a batch to the active write-ahead log, puts it
into the memtable and answers. A full memtable is rotated: its log is closed, a
new memtable and log take over, and the flusher goroutine writes a table, replaces
the manifest and removes the logs. `Get` searches an atomically published read
state without locks. `Close` stops the writer, flushes what is left and waits for
the flusher. `openDB` opens the tables of the manifest and replays all logs.
`Compact` and `RunValueLogGC` close the store, rewrite files in a temporary
directory, put them in place of the old ones and open the store again.

What makes this hard: group commit with callers parked on a condition variable;
the shutdown hand-over between callers, writer and flusher; recycled request
objects; a memtable and a block cache that are read while they change; a crash
between any two file operations; I/O errors that leave one step of several undone.

## Modules

| module | models | abstract specification |
|---|---|---|
| `Wal` | one log file: `appendBatch`, `syncLoop`, `close` | `DurableLog` |
| `WriteQueue` | `submitWrite`, `writeLoop`, `stopWrites` | - |
| `Engine`, `MCEngine` | writer, flusher, readers, `Close`, crash, `openDB` | `KVStore` |
| `Levels` | order of tables, lookup, planner, merge: operators only | - |
| `Maintenance`, `MCMaintenance` | `Compact`, `RunValueLogGC`, and a store that is opened again | - |
| `Skiplist` | `Put`, `findNear`, `findLast`, iteration | `AtomicMap` |
| `Arena` | the bytes of a memtable against the bytes the engine counts | - |
| `Table`, `MCTable` | `Flush`, `Open`, `Get`, `Scan`, block cache, buffer pool, `Close` | - |
| `Bloom`, `Search` | the filter; `sort.Search` of the Go library: operators only | - |
| `ValueLog` | segments: `Append`, rotation, `Sync`, `Close`, crash, `Open`; encoding of references | `FlatLog` |
| `Order` | finite sets in order, elements at positions: operators only | - |
| `WalProofs`, `WriteQueueProofs`, `MaintenanceProofs`, `SkiplistProofs` | theorems about these models | |
| `EngineSteps`, `EngineWrites`, `EngineProofs` | the invariant of `Engine`, its steps, the theorems | |
| `OrderProofs` | lemmas on `Order`, for `MaintenanceProofs` and `EngineProofs` | |

How they fit together: `Engine` takes from `Wal` that acknowledged records are
stable and that a successful `close` hardens all of them, from `WriteQueue` that the
writer is idle when `Close` takes the memtable, from `FlatLog` what the value log
is, from `Skiplist` that a memtable is a map, and from `Table` that a table returns
the entries it was given. `Maintenance` continues where `Engine` stops: its action
`Flush` is everything the engine does to add a table.

**Wal.** Records are numbers. The file is three nested prefixes: accepted by the
writer, written to the file, fsynced. One action per critical section of `w.mu`;
`cond.Wait` is the state "parked" and a broadcast makes it "woken". The initial
state chooses the mode: `Batched` is `syncInterval > 0`. The sticky error of
`bufio.Writer` is a variable of its own, because `appendBatch` does not store it in
`syncErr`.

**WriteQueue.** Every atomic step of `beginSubmit`, `finishSubmit` and
`waitForSubmitters` is an action, including the moment between the load of
`submitters` and `cond.Wait`. What a batch does to the store is left out: a pass
answers some requests with nil and may fail the rest. Which client a queued
request belongs to is recorded as history.

**Engine.** Writes are numbered in the order the writer handles them, and files
and memtables hold these numbers; a history gives each its key and kind (inline,
empty, large, tombstone). A memtable is named after the log created with it. The
writer, flusher, readers and `Close` interleave between all file operations and
critical sections. A critical section of `db.mu` is one action, and the lock is not a
variable; the sends on `flushCh` are actions of their own, since no lock is held there
(the mutant `FlushInstallLocked` is the deadlock that holding it would give). The value log is one sequence of records with a stable prefix.
A crash keeps any prefix of the active log and of the value log that contains the
fsynced part. `PowerLoss` additionally loses tables nobody fsynced. The constant
`Scenarios` lists combinations of options and bounds (`opts`: synchronous or not,
kinds of values, opens, I/O errors); the initial state chooses one.

`NewestVisible`, `AckedRecoverable` and `CrashLosesSuffix` speak of behaviours without
I/O errors; `AckedOnDisk` and `NothingDropped` allow them and speak of the files only.
In `NothingDropped` a record in the buffer of a log counts as logged, also after the
last flush of that buffer has failed: the process can then no longer write it.

Simplifications: `openDB` is one action, without I/O errors of its own; the fsync
of directories, files left over by failed flushes and the collision of two table
names are left out; logs and tables draw their names from one clock, although the
code uses nanoseconds for the one and microseconds for the other; the clock only
moves forward; every entry counts one towards the size of a memtable; a torn record
is a missing record.

**Levels and Maintenance.** Keys are integers and a table is a function from keys to
entries. The planner's loop, which adds overlapping tables until nothing changes, is
the least closed set (`Select`); lookup uses the binary search of the code. Where
output tables end depends on bytes and is a choice (`cuts`). A job is one action up
to the end of its writing in the temporary directory, which nobody else reads, and
then one action per rename and removal, the replacement of the manifest, and the
reopening. `Interrupt` is a crash or an error between any two of these. When it
happens after inputs were removed and before the manifest is replaced, `openDB`
refuses the directory (`Reopen` is disabled); the history `torn` keeps the manifest
that was about to be written, and `DataKept` says that its tables hold everything. That
the directory cannot be opened until somebody writes that manifest is not excluded by
any property: nothing in the repository promises it.

**Skiplist.** One action per atomic load, store or compare-and-swap. `Put` is a
program counter per writer with the locals of the function (`prev`, `next`, level).
`findNear` is a loop of the reader with its flags `less` and `allowEqual`, behind
`Get`, `Seek`, `SeekForPrev` and `Prev`. A search has to be right at the moment it
returns. The engine has one writer per list; the code is written for several, and the
model has two.

**Table.** Blocks are cut by the size of the entries; the file is a function from
offsets to blocks, with index and filter. Two readers run `Get` and `Scan` in the
steps lookup in the cache, lease of a buffer, `ReadAt`, parsing, insertion into the
cache with eviction, return of the buffer. A cached block has bytes of its own or is a
view of a buffer; the code copies (`Owned`), and the mutant that does not shows what a
reused buffer would do. `Close` clears one shard after the other,
and then closes the file, while they run. `Bloom` keeps the arithmetic of the filter, with
hashes of a few bits; the hash function is a constant.

**ValueLog.** A segment is a sequence of cells, so that a short write leaves a torn
record and `scanSegment` finds where the valid part ends. `MayAppend` is the
caller's rule: after an error of `Append` the engine sets `flushErr` and accepts no
more writes. A reference is encoded in the short form, which has room for offsets
up to `MaxCompactOffset` only, or the long one.

**Arena.** The sizes are those of the code, with its default options. Nodes have the
lowest tower, the case that takes least room.

## Runs

| run | states | what it shows |
|---|---|---|
| `wal` | 94,698 | durability, no lost wake-up, termination, refinement of `DurableLog`, in both modes and with one I/O error |
| `write_queue` | 125,664 | the hand-over to `Close`, recycled requests, every call returns |
| `engine` | 488,744 | acknowledged writes survive a crash anywhere, asynchronous ones lose a suffix, references resolve, one I/O error takes no acknowledged write off the disk; refinement of `KVStore` |
| `engine_live` | 121,659 | memtables are flushed, `Close` returns, and `Get` is linearizable against rotation and flush |
| `maintenance` | 234,748 | no sequence of flushes, compactions and collections, stopped or not, loses or revives a value; level 1 stays disjoint; the collector leaves no garbage |
| `skiplist` | 328,400 | the list stays sorted, searches are exact, each `Put` takes effect once (`AtomicMap`) and returns |
| `table` | 211,448 | `Get` and `Scan` are exact or fail while cache, pool and `Close` race; index and cache are sound |
| `vlog` | 38,941 | the log opens after any crash, references are exact, the segments are one `FlatLog` |

Four runs end in a counterexample, each a disagreement between the code and a
statement of the repository:

- `engine_flush_error`: `flushLoop` goes on after a failed flush. The failed, older
  memtable stays in `db.immutable` and hides the newer value that was flushed after
  it. `TestDBReadsNewestSSTableFirst` expects the newest value.
- `engine_empty`: `Table.Get` documents nil for an absent key, and also returns nil
  for an empty value.
- `engine_power`: a synchronous write is acknowledged because its log record "became
  durable" (`wal.go:203`). Its memtable is flushed, `MANIFEST` names the table and the
  log is removed (`db.go:734`). Nothing has fsynced the table, and a loss of power
  takes the write.
- `arena`: the arena has twice the bytes the engine lets into a memtable, but a node
  adds 27 bytes or more to its key and value. With keys and values of 8 bytes it is
  full at three quarters of `memtableMaxBytes`. "Put inserts or overwrites key with
  v" is then not what happens.

`CacheSound` also settles a comment: `evictOldestLocked` allows for stale offsets in
`order` (sstable.go:212), and no interleaving produces one.

**Bounds.** Two appenders, clients, writers or keys are what it takes for one to
overtake the other. In `engine`, three writes with memtables of two entries give a
full, a rotated and a growing memtable, with one write per memtable also a full flush
channel; two opens let a recovered state crash or close, three let logs of two
generations meet. `engine_flush_error` has one key, so that the counterexample is the
hidden value; with two keys `AckedVisible` also fails when the manifest write fails
(`db.go:755`): the immutable is dropped already, and the next rotation publishes a
read state without it. In `maintenance`, three flushes and two jobs give a level 1 that a
second compaction or a collection meets, and a stopped job whose files a second one
finds; the five memtables lie inside, across and around each other. In `skiplist`,
two levels and three `Put`s let a node be linked at one level and not yet at the
other while its neighbours change. In `table`, two blocks per cache and two buffers
for two readers force eviction and reuse; four memtables fill blocks exactly, split
them and fail. In `vlog`, records of one and two cells in segments of three put
rotations at every kind of boundary, and a compact limit of 1 uses both encodings.
One I/O error is one step of several failing; combinations of errors are covered by
the proofs, for the log and for what the engine keeps on disk. `MaxClock` is large enough never to block a behaviour
of the passing runs. Deadlock checking is off in all configurations: calls are
bounded, so each instance stops when they are used up; waiting for ever is what the
liveness properties exclude.

**Fairness.** Weak fairness for each goroutine that is runnable, and for each case
of `syncLoop`'s `select`, which chooses at random among ready cases; in `Skiplist`,
for each writer inside `Put`. Nobody is made to call `Put`, `Get` or `Close`. In
`WriteQueue` and `Skiplist` the number of calls is bounded: an endless stream of
refused calls could keep `submitters` above zero at every test of
`waitForSubmitters`, and a lock-free `Put` can lose every compare-and-swap to an
endless stream of other `Put`s.

**Mutants.** Definitions marked "Mutant" are copies of an action or operator with
one plausible bug. They are not part of any specification; each shows that a
property notices it.

## Proofs

`WalProofs`, for any set of appenders and any bounds: the inductive invariant `IInv`
(`Invariance`), and from it `TypeCorrect`, `AckedRecordsAreDurable`, `CloseIsAHardPoint`,
`NoLostWakeup` and `Refinement` to `DurableLog`. `AckedDurable` alone is not
inductive: a woken caller acknowledges on the strength of `w.durable`, so `IInv`
relates `durable` to the disk. After a failed `bw.Write` that relation is weaker,
since `pending` counts records that never reached the writer: `durable` exceeds
`synced` only when everything accepted is synced, and callers wait only for
accepted records.

`WriteQueueProofs`, for any finite set of clients and any capacities: the inductive
invariant `HandOver` (`HandOverInvariant`), and from it `NothingQueuedBehindNil`,
`StopLeavesNothing` and `CloserAlwaysHasWaker`. The argument: `submitters` is the
number of clients between `beginSubmit` and `finishSubmit`; `closed` is set before
`Close` looks at it; so when `Close` has seen zero, a later client finds `closed`.
`submitMu` is held from the load to the parking, so the broadcast of the last client
comes before the load or after the parking.

Also in `WriteQueueProofs`: `RequestsAreTracked` and `CallersGetOwnAnswer`. Requests are recycled, so that a caller gets its own answer
rests on who holds what: a request is in the pool or with one caller, it is queued
at most once and unfinished while it is, and one that was sent and is not queued has
been answered. Together with `OwnAnswer` this is inductive (`Owed`), given
`HandOver`, which excludes that requests stay behind the nil.

`MaintenanceProofs`, for any set of keys with a last one, any memtables and any
bounds: `LevelsStayDisjoint`, which `FindLevelTable` relies on when it looks into
one table of level 1 only. Its inductive invariant is `LevelInv` (`LevelInvariant`):
the bounds in a `TableMeta` are bounds of its file, in place or still in the temporary
directory, for the manifest on disk and for the one the job will write, and names are
not reused. The arguments:

- The planner takes all tables of level 1 that meet the range of its sources, so a
  table it leaves lies beside that range (`KeptBeside`), and none of those it takes
  can reach across it. Outputs lie within the inputs, and a builder starts a new table
  after the last key of the one before (`ChunksApart`).
- A collection writes, for each table, the keys of which that table holds the newest
  entry. These lie within the old bounds, so what was apart stays apart.
- A job stopped between two steps leaves either manifest, and both satisfy the
  invariant.

`SkiplistProofs`, for any number of writers and readers, any keys and any height:
`Sorted`, `ExactSearches` and `Refinement` to `AtomicMap`, from the inductive
invariant `SkipInv` (`Invariance`). `ListSound` alone is not inductive: a writer links
with values it read some steps ago. `SkipInv` says what each goroutine inside `Put`
or a search still knows. The predecessor it stands on is linked at that level and is
smaller than its key, which stays true because nodes are never unlinked; the
successor it read may be outdated, but then the compare-and-swap fails. An
iteration remembers (as history) the keys that were in the list when it began; those
it has not yet seen are at its position or after it.

`EngineSteps`, `EngineWrites` and `EngineProofs`, for any keys, memtable size, batch
size, scenarios, number of opens and number of I/O errors: `AckedStaysOnDisk`,
`NothingIsDropped`, `RefsAlwaysResolve` and `CloseIsClean`, from the inductive invariant
`EngineInv` (`EngineInvariant`). There is one lemma per action of `Engine`, and
`EngineInv` has one conjunct per question a step raises:

- `removeWALFiles` takes logs away. Nothing is lost because the logs in the `paths` of
  a memtable hold no latest write that the memtable itself lacks (`CoverInv`), the new
  table equals the memtable (`QueueInv`), and the latest write of every key is in a
  log that stays or in a table of MANIFEST (`KeptInv`). A failed flush keeps its logs.
- An acknowledgement needs the record on disk: between `appendBatch` and
  `memtable.Put` the batch is in the active log, and with synchronous writes in its
  fsynced prefix (`WriterInv`). `KeptInv` counts only that prefix, so a crash
  preserves it (`AckInv`).
- `openDB` puts the records of all logs into one memtable, by log and position. This
  is right because the logs are in the order of the writes, inside a log and from one
  to the next (`LogsInv`, `ActiveInv`), although failed flushes leave logs of several
  generations behind.
- A reference is used long after it was made: the value log only grows, until a crash
  cuts it behind its fsynced prefix, and `flushMemtableToTable` fsyncs it before a
  table with references is written (`RefsInv`).
- A `Close` without error has nothing left to flush: every log with a record belongs
  to a memtable on its way to the flusher (`PendingInv`).

These four theorems assume `~PowerLoss`, a crash of the process. With a power failure
they are false, as `engine_power` shows: tables are not fsynced.

The other assumptions are those on the constants: `WalAssumption`, `QueueAssumption`,
`EngineAssumption`, `MaintenanceAssumption` and `SkiplistAssumption` (keys are positive
numbers, and there is a last one). Only model-checked:

- all liveness, which the prover does not handle;
- `NewestVisible`, `AckedRecoverable`, `CrashLosesSuffix`, `ReadsLinearizable` and
  `ImplementsKVStore`: besides what is on disk they need the order in which tables,
  memtables and logs are searched, which `EngineInv` does not describe;
- `DataKept` and `GarbageCollected` of `Maintenance`, which compare the newest entries
  across all levels before and after a merge;
- `Table` and `ValueLog`, whose operators (`scanSegment`, the cutting of blocks) are
  recursions over data;
- `Arena`, whose only run is a counterexample.

## Not modelled

- The directory lock: a call of `flock` on darwin, nothing elsewhere. With it, a
  second handle or process in the same directory: during a compaction or collection,
  or next to the flusher that a `Close` abandons after an error of the log.
- A clock that is set back, and two tables named within the same microsecond: the
  models give files increasing names, the code has no defence.
- Byte formats: records of the log, blocks, manifest and filter. Data that was
  damaged after it was written, and a torn log record of full length, for which
  `replayWAL` returns an error. A user value with the bytes of a tombstone or of a
  reference, and keys longer than 65,535 bytes, which the memtable cuts off.
- The rebuild of a deleted MANIFEST from the directory, and I/O errors in `openDB`.
- `openWALForAppend` and `Filter.Reset`, which nothing calls, and the sizing of filters
  by floating point.
