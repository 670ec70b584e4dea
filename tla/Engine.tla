------------------------------- MODULE Engine -------------------------------
(***************************************************************************)
(* The storage engine of db.go: the writer goroutine (processWriteBatch,   *)
(* rotateMemtable), the flusher goroutine (flushLoop), Get, Close, a crash *)
(* at any point, and openDB with the replay of the write-ahead logs.       *)
(*                                                                         *)
(* Writes are numbered 1, 2, ... in the order the writer handles them;     *)
(* memtables, logs, tables and the value log hold write numbers instead of *)
(* bytes, and the history `writes' gives each number its key and its kind: *)
(*   "inline"     a value of at most valueThreshold bytes                  *)
(*   "empty"      an inline value of no bytes                              *)
(*   "large"      a longer value, kept in the value log                    *)
(*   "tombstone"  a Delete                                                 *)
(* Every entry counts one towards memtableMaxBytes.  A memtable is known   *)
(* by the name of the log that was created with it.  Names of log and      *)
(* table files are readings of the wall clock.                             *)
(***************************************************************************)
EXTENDS Naturals, Sequences, FiniteSets, FiniteSetsExt, Functions, Order

CONSTANTS
  Keys,         \* user keys
  Scenarios,    \* options of the database, with the kinds of write its clients
                \* issue and bounds on openDB and on I/O errors
  Readers,      \* goroutines that call Get
  MemtableMax,  \* memtableMaxBytes
  MaxBatch,     \* bound on the writes of one pass of processWriteBatch
  MaxWrites,    \* bound on the writes
  MaxClock,     \* bound on the readings of the clock
  PowerLoss     \* a crash loses what no fsync has hardened, tables included

ASSUME EngineAssumption ==
  /\ Scenarios \subseteq [sync   : BOOLEAN,
                           kinds  : SUBSET {"inline", "empty", "large", "tombstone"},
                           opens  : Nat,
                           faults : Nat]
  /\ PowerLoss \in BOOLEAN
  /\ MemtableMax \in Nat \ {0} /\ MaxBatch \in Nat \ {0}
  /\ MaxWrites \in Nat /\ MaxClock \in Nat

VARIABLES
  \* files
  wal,         \* log files: name -> sequence of write numbers
  walStable,   \* records of the active log that are fsynced
  sst,         \* table files: name -> table
  cached,      \* tables the operating system has not yet written to disk
  manifest,    \* table names in MANIFEST
  vlog,        \* the value log: sequence of write numbers
  vlogStable,  \* records of the value log that are fsynced
  clock,       \* last reading of the wall clock
  \* fields of DB
  phase,       \* how far the handle is between openDB and the end of Close
  mems,        \* memtables: name -> table
  activeWal,   \* db.activeWal, and the name of db.memtable
  walPaths,    \* db.currentWalPaths
  memBytes,    \* db.memtableBytes
  immutable,   \* db.immutable: sequence of [mem, paths]
  flushCh,     \* db.flushCh, capacity 1
  tables,      \* db.tableMeta and db.sstables
  readState,   \* db.readState: [mem, imm, tables]
  flushErr,    \* db.flushErr # nil
  walFile,     \* the active log: "open", "failed" (has an error to report), "closed"
  \* goroutines
  writer, batch, nextWal,     \* writeLoop
  flusher, flushing, flushed, \* flushLoop
  reader,                     \* each Get
  \* options, history and bounds
  opts,        \* the scenario
  writes,      \* the writes so far: sequence of [key, kind]
  latest,      \* key -> last write put into a memtable, or surviving at openDB
  acked,       \* key -> highest write to it that returned nil
  opens, faults

files   == <<wal, walStable, sst, cached, manifest, vlog, vlogStable, clock>>
dbVars  == <<mems, activeWal, walPaths, memBytes, immutable, flushCh, tables,
             readState, flushErr, walFile>>
wrVars  == <<writer, batch, nextWal>>
flVars  == <<flusher, flushing, flushed>>
vars    == <<files, phase, dbVars, wrVars, flVars, reader, writes, latest, acked, opens,
             faults, opts>>

\* !asyncWrites || walSyncInterval <= 0
SyncWrites == opts.sync

-----------------------------------------------------------------------------
\* No handle: Close returned nil; the process crashed, or Close failed.
Down == {"closed", "down"}

(* Tables and values *)

\* A stored value: the write it comes from and its place in the value log.
NoEntry    == [w |-> 0, off |-> 0]
EmptyTable == [k \in Keys |-> NoEntry]

IsLarge(W, w) == W[w].kind = "large"

\* storeValueForLSM for the i-th of the writes ws: a large value is appended to
\* the value log and replaced by a reference.
Stored(W, ws, i) ==
  [w   |-> ws[i],
   off |-> IF IsLarge(W, ws[i])
             THEN Len(vlog) + Cardinality({j \in 1..i : IsLarge(W, ws[j])})
             ELSE 0]

ValueLogAfter(W, ws) == vlog \o ElementsAt(ws, {i \in 1..Len(ws) : IsLarge(W, ws[i])})

\* sstable.Get copies the value with append([]byte(nil), value...), which is
\* nil for an empty value.
TableFinds(t, k) == t[k].w # 0 /\ writes[t[k].w].kind # "empty"

\* buildLevelState and sortTableMetaForLevel order level 0 by the time in the
\* file name, the latest first.
Before(s, t) == s > t

\* lookupLevels on level 0: the first table in that order that finds the key.
LookupTables(ts, k) ==
  LET hits == {t \in ts : TableFinds(sst[t], k)}
  IN  IF hits = {} THEN NoEntry
      ELSE sst[CHOOSE t \in hits : \A u \in hits \ {t} : Before(t, u)][k]

\* Mutant: immutables are searched from the oldest.
LookupOldestFirst(rs, k) ==
  LET hits == {i \in 1..Len(rs.imm) : mems[rs.imm[i]][k].w # 0}
  IN  IF mems[rs.mem][k].w # 0 THEN mems[rs.mem][k]
      ELSE IF hits # {} THEN mems[rs.imm[Min(hits)]][k]
      ELSE LookupTables(rs.tables, k)

\* The search of Get in a read state: memtable, immutables from the newest to
\* the oldest, tables.
Lookup(rs, k) ==
  LET hits == {i \in 1..Len(rs.imm) : mems[rs.imm[i]][k].w # 0}
  IN  IF mems[rs.mem][k].w # 0 THEN mems[rs.mem][k]
      ELSE IF hits # {} THEN mems[rs.imm[Max(hits)]][k]
      ELSE LookupTables(rs.tables, k)

\* A directory (or a set of memtables) with x added, and with x removed.
With(f, x, v) == [n \in DOMAIN f \cup {x} |-> IF n = x THEN v ELSE f[n]]
Without(f, x) == Restrict(f, DOMAIN f \ {x})

\* snapshotReadStateLocked
Snapshot(mem, imms, ts) ==
  [mem |-> mem, imm |-> [i \in 1..Len(imms) |-> imms[i].mem], tables |-> ts]

\* The operating system reports an error and it is kept in db.flushErr.
Fault == faults < opts.faults /\ faults' = faults + 1 /\ flushErr' = TRUE
NoFault == UNCHANGED <<faults, flushErr>>

\* A file name from the clock (walID, sstableID).
Name(id) ==
  /\ id = clock + 1
  /\ clock' = id

\* Log.Sync and Log.Close of the value log: all its records are fsynced.
SyncValueLog == vlogStable' = Len(vlog)

\* ReplaceTables writes MANIFEST.tmp and renames it over MANIFEST.
ReplaceTables(ts) == manifest' = ts

\* Log.Read with the reference of a stored value finds that value.
Resolves(e) == e.off <= Len(vlog) /\ vlog[e.off] = e.w

-----------------------------------------------------------------------------
(* processWriteBatch *)

Crossing == memBytes + 1 >= MemtableMax

\* The preparation loop takes requests until the memtable is full.  When the
\* value log fails, the requests before the failing one go on.
StoreBatch(reqs, fails) ==
  /\ phase \in {"open", "stopping"} /\ writer = "idle" /\ ~flushErr
  /\ Len(writes) + Len(reqs) <= MaxWrites
  /\ reqs # <<>> => memBytes + Len(reqs) <= MemtableMax \/ Len(reqs) = 1
  /\ IF fails
       THEN Fault /\ (reqs # <<>> => memBytes + Len(reqs) < MemtableMax)
       ELSE NoFault /\ reqs # <<>>
  /\ writes' = writes \o reqs
  /\ LET ws == [i \in 1..Len(reqs) |-> Len(writes) + i]
     IN  /\ batch' = [i \in 1..Len(ws) |-> Stored(writes', ws, i)]
         /\ vlog' = ValueLogAfter(writes', ws)
  /\ writer' = IF reqs = <<>> THEN "idle" ELSE "log"
  /\ UNCHANGED <<wal, walStable, sst, cached, manifest, vlogStable, clock, phase,
                 mems, activeWal, walPaths, memBytes, immutable, flushCh, tables,
                 readState, walFile, nextWal, flVars, reader, latest, acked, opens, opts>>

BatchWrites == [i \in 1..Len(batch) |-> batch[i].w]

\* activeWal.appendBatch: the records reach the file; in a synchronous mode the
\* writer then waits for the fsync.
AppendWal ==
  /\ writer = "log" /\ walFile = "open"
  /\ wal' = [wal EXCEPT ![activeWal] = @ \o BatchWrites]
  /\ writer' = IF SyncWrites THEN "sync" ELSE "apply"
  /\ UNCHANGED <<walStable, sst, cached, manifest, vlog, vlogStable, clock, phase,
                 dbVars, batch, nextWal, flVars, reader, writes, latest, acked, opens,
                 faults, opts>>

\* The append fails, or an fsync before or during it has: every request of the
\* batch fails, though some of the records may be in the file.  An error of
\* bufio.Writer alone is not kept for a later close.
AppendWalFails ==
  /\ \/ /\ writer = "log" /\ walFile = "open"
        /\ Fault
        /\ walFile' \in {"open", "failed"}
        /\ \E n \in 0..Len(batch) :
             wal' = [wal EXCEPT ![activeWal] = @ \o SubSeq(BatchWrites, 1, n)]
     \/ /\ writer \in {"log", "sync"} /\ walFile = "failed"
        /\ flushErr' = TRUE
        /\ UNCHANGED <<walFile, wal, faults>>
  /\ writer' = "idle"
  /\ batch' = <<>>
  /\ UNCHANGED <<walStable, sst, cached, manifest, vlog, vlogStable, clock, phase,
                 mems, activeWal, walPaths, memBytes, immutable, flushCh, tables,
                 readState, nextWal, flVars, reader, writes, latest, acked, opens, opts>>

\* The fsync of the active log, by the caller or by syncLoop.
SyncWal ==
  /\ phase \notin Down /\ activeWal \in DOMAIN wal /\ walFile = "open"
  /\ walStable < Len(wal[activeWal])
  /\ walStable' = Len(wal[activeWal])
  /\ writer' = IF writer = "sync" THEN "apply" ELSE writer
  /\ UNCHANGED <<wal, sst, cached, manifest, vlog, vlogStable, clock, phase, dbVars,
                 batch, nextWal, flVars, reader, writes, latest, acked, opens, faults,
                 opts>>

\* syncLoop's fsync fails; w.syncErr keeps the error for the next append or close.
SyncWalFails ==
  /\ phase \notin Down /\ activeWal \in DOMAIN wal /\ walFile = "open"
  /\ walStable < Len(wal[activeWal])
  /\ faults < opts.faults /\ faults' = faults + 1
  /\ walFile' = "failed"
  /\ UNCHANGED <<files, phase, mems, activeWal, walPaths, memBytes, immutable, flushCh,
                 tables, readState, flushErr, wrVars, flVars, reader, writes, latest,
                 acked, opens, opts>>

\* memtable.Put of the next entry.  Its caller is answered at once, unless the
\* entry fills the memtable: then the answer waits for the rotation.
Apply ==
  LET e == Head(batch)
      k == writes[e.w].key
      last == Len(batch) = 1 /\ Crossing
  IN  /\ writer = "apply"
      /\ mems' = [mems EXCEPT ![activeWal][k] = e]
      /\ memBytes' = memBytes + 1
      /\ reader' = [r \in Readers |->
           IF reader[r].valid # {} /\ reader[r].key = k
             THEN [reader[r] EXCEPT !.valid = @ \cup {e.w}] ELSE reader[r]]
      /\ latest' = [latest EXCEPT ![k] = e.w]
      /\ IF last
           THEN writer' = "rotate" /\ UNCHANGED <<batch, acked>>
           ELSE /\ acked' = [acked EXCEPT ![k] = e.w]
                /\ batch' = Tail(batch)
                /\ writer' = IF Len(batch) = 1 THEN "idle" ELSE "apply"
      /\ UNCHANGED <<files, phase, activeWal, walPaths, immutable, flushCh, tables,
                     readState, flushErr, walFile, nextWal, flVars, writes, opens,
                     faults, opts>>

-----------------------------------------------------------------------------
(* rotateMemtable *)

\* createWAL; on an error the caller of the last write gets the error.
RotateCreate ==
  /\ writer = "rotate"
  /\ \/ /\ NoFault
        /\ \E id \in 1..MaxClock :
             /\ Name(id)
             /\ wal' = With(wal, id, <<>>)
             /\ nextWal' = id
        /\ writer' = "swap"
        /\ UNCHANGED batch
     \/ /\ Fault
        /\ writer' = "idle"
        /\ batch' = <<>>
        /\ UNCHANGED <<wal, clock, nextWal>>
  /\ UNCHANGED <<walStable, sst, cached, manifest, vlog, vlogStable, phase, mems,
                 activeWal, walPaths, memBytes, immutable, flushCh, tables,
                 readState, walFile, flVars, reader, writes, latest, acked, opens, opts>>

\* Mutant: the new memtable is not published.
RotateSwapUnpublished ==
  /\ writer = "swap" /\ walFile = "open"
  /\ mems' = With(mems, nextWal, EmptyTable)
  /\ immutable' = Append(immutable, [mem |-> activeWal, paths |-> walPaths])
  /\ activeWal' = nextWal
  /\ walPaths' = <<nextWal>>
  /\ walStable' = 0
  /\ memBytes' = 0
  /\ readState' = readState
  /\ writer' = "send"
  /\ UNCHANGED <<wal, sst, cached, manifest, vlog, vlogStable, clock, phase, flushCh,
                 tables, flushErr, walFile, batch, nextWal, flVars, reader, writes,
                 latest, acked, opens, faults, opts>>

\* Mutant: the old log is closed without flushing its buffer.
RotateSwapDropsBuffer ==
  /\ writer = "swap" /\ walFile = "open"
  /\ mems' = With(mems, nextWal, EmptyTable)
  /\ immutable' = Append(immutable, [mem |-> activeWal, paths |-> walPaths])
  /\ activeWal' = nextWal
  /\ walPaths' = <<nextWal>>
  /\ walStable' = 0
  /\ memBytes' = 0
  /\ readState' = Snapshot(activeWal', immutable', tables)
  /\ writer' = "send"
  /\ wal' = [wal EXCEPT ![activeWal] = SubSeq(@, 1, walStable)]
  /\ UNCHANGED <<sst, cached, manifest, vlog, vlogStable, clock, phase, flushCh,
                 tables, flushErr, walFile, batch, nextWal, flVars, reader, writes,
                 latest, acked, opens, faults, opts>>

\* activeWal.close hardens the old log; then, under db.mu, the memtable becomes
\* immutable, a new one takes its place and the read state is published.
RotateSwap ==
  /\ writer = "swap" /\ walFile = "open"
  /\ mems' = With(mems, nextWal, EmptyTable)
  /\ immutable' = Append(immutable, [mem |-> activeWal, paths |-> walPaths])
  /\ activeWal' = nextWal
  /\ walPaths' = <<nextWal>>
  /\ walStable' = 0
  /\ memBytes' = 0
  /\ readState' = Snapshot(activeWal', immutable', tables)
  /\ writer' = "send"
  /\ UNCHANGED <<wal, sst, cached, manifest, vlog, vlogStable, clock, phase, flushCh,
                 tables, flushErr, walFile, batch, nextWal, flVars, reader, writes,
                 latest, acked, opens, faults, opts>>

\* activeWal.close fails: the new log is removed, the memtable stays.  The old
\* log's file is gone, so that closing it again reports nothing.
RotateCloseFails ==
  /\ writer = "swap"
  /\ \/ walFile = "open" /\ Fault
     \/ walFile = "failed" /\ flushErr' = TRUE /\ UNCHANGED faults
  /\ walFile' = "closed"
  /\ wal' = Without(wal, nextWal)
  /\ writer' = "idle"
  /\ batch' = <<>>
  /\ UNCHANGED <<walStable, sst, cached, manifest, vlog, vlogStable, clock, phase,
                 mems, activeWal, walPaths, memBytes, immutable, flushCh, tables,
                 readState, nextWal, flVars, reader, writes, latest, acked, opens, opts>>

\* db.flushCh <- toFlush blocks while the channel is full; then the caller of
\* the last write is answered.
RotateSend ==
  /\ writer = "send" /\ flushCh = <<>>
  /\ flushCh' = <<immutable[Len(immutable)]>>
  /\ acked' = [acked EXCEPT ![writes[batch[1].w].key] = batch[1].w]
  /\ writer' = "idle"
  /\ batch' = <<>>
  /\ UNCHANGED <<files, phase, mems, activeWal, walPaths, memBytes, immutable, tables,
                 readState, flushErr, walFile, nextWal, flVars, reader, writes, latest,
                 opens, faults, opts>>

-----------------------------------------------------------------------------
(* flushLoop: a failing step records flushErr and goes on with the next
   memtable *)

FlushFails ==
  /\ flusher \in {"write", "remove"}
  /\ Fault
  /\ flusher' = "idle"
  /\ UNCHANGED <<files, phase, mems, activeWal, walPaths, memBytes, immutable, flushCh,
                 tables, readState, walFile, wrVars, flushing, flushed, reader, writes,
                 latest, acked, opens, opts>>

\* Mutant: the value log is not synced before the table is written.
FlushTakeNoSync ==
  /\ flusher = "idle" /\ flushCh # <<>>
  /\ flushing' = Head(flushCh)
  /\ flushCh' = Tail(flushCh)
  /\ \/ NoFault /\ vlogStable' = vlogStable /\ flusher' = "write"
     \/ Fault /\ flusher' = "idle" /\ UNCHANGED vlogStable
  /\ UNCHANGED <<wal, walStable, sst, cached, manifest, vlog, clock, phase, mems,
                 activeWal, walPaths, memBytes, immutable, tables, readState, walFile,
                 wrVars, flushed, reader, writes, latest, acked, opens, opts>>

\* Receive a memtable and sync the value log (syncValueLogForFlush).
FlushTake ==
  /\ flusher = "idle" /\ flushCh # <<>>
  /\ flushing' = Head(flushCh)
  /\ flushCh' = Tail(flushCh)
  /\ \/ NoFault /\ SyncValueLog /\ flusher' = "write"
     \/ Fault /\ flusher' = "idle" /\ UNCHANGED vlogStable
  /\ UNCHANGED <<wal, walStable, sst, cached, manifest, vlog, clock, phase, mems,
                 activeWal, walPaths, memBytes, immutable, tables, readState, walFile,
                 wrVars, flushed, reader, writes, latest, acked, opens, opts>>

\* db.flushFn (sstable.Flush): the table file is written, not fsynced.
FlushWrite ==
  /\ flusher = "write"
  /\ \E id \in 1..MaxClock :
       /\ Name(id)
       /\ sst' = With(sst, id, mems[flushing.mem])
       /\ cached' = IF PowerLoss THEN cached \cup {id} ELSE cached
       /\ flushed' = id
  /\ flusher' = "install"
  /\ UNCHANGED <<wal, walStable, manifest, vlog, vlogStable, phase, dbVars, wrVars,
                 flushing, reader, writes, latest, acked, opens, faults, opts>>

\* db.immutable without the memtable that was flushed.
Unflushed ==
  ElementsAt(immutable, {i \in 1..Len(immutable) : immutable[i].mem # flushing.mem})

\* Mutant: the manifest is not rewritten.
FlushInstallNoManifest ==
  /\ flusher = "install"
  /\ immutable' = Unflushed
  /\ \/ /\ NoFault
        /\ tables' = tables \cup {flushed}
        /\ manifest' = manifest
        /\ readState' = Snapshot(activeWal, immutable', tables')
        /\ flusher' = "remove"
     \/ /\ Fault
        /\ flusher' = "idle"
        /\ UNCHANGED <<tables, manifest, readState>>
  /\ UNCHANGED <<wal, walStable, sst, cached, vlog, vlogStable, clock, phase, mems,
                 activeWal, walPaths, memBytes, flushCh, walFile, wrVars, flushing,
                 flushed, reader, writes, latest, acked, opens, opts>>

\* Mutant: the logs are removed although the manifest write failed.
FlushInstallIgnoresError ==
  /\ flusher = "install"
  /\ immutable' = Unflushed
  /\ \/ /\ NoFault
        /\ tables' = tables \cup {flushed}
        /\ ReplaceTables(tables')
        /\ readState' = Snapshot(activeWal, immutable', tables')
        /\ flusher' = "remove"
     \/ /\ Fault
        /\ flusher' = "remove"
        /\ UNCHANGED <<tables, manifest, readState>>
  /\ UNCHANGED <<wal, walStable, sst, cached, vlog, vlogStable, clock, phase, mems,
                 activeWal, walPaths, memBytes, flushCh, walFile, wrVars, flushing,
                 flushed, reader, writes, latest, acked, opens, opts>>

\* Mutant: rotateMemtable holds db.mu while it sends, so that the flusher
\* cannot install the table it has written.
FlushInstallLocked ==
  /\ flusher = "install" /\ writer # "send"
  /\ immutable' = Unflushed
  /\ \/ /\ NoFault
        /\ tables' = tables \cup {flushed}
        /\ ReplaceTables(tables')
        /\ readState' = Snapshot(activeWal, immutable', tables')
        /\ flusher' = "remove"
     \/ /\ Fault
        /\ flusher' = "idle"
        /\ UNCHANGED <<tables, manifest, readState>>
  /\ UNCHANGED <<wal, walStable, sst, cached, vlog, vlogStable, clock, phase, mems,
                 activeWal, walPaths, memBytes, flushCh, walFile, wrVars, flushing,
                 flushed, reader, writes, latest, acked, opens, opts>>

\* installFlushedTable drops the immutable, writes MANIFEST from db.tableMeta
\* and, if that succeeded, publishes the new read state.
FlushInstall ==
  /\ flusher = "install"
  /\ immutable' = Unflushed
  /\ \/ /\ NoFault
        /\ tables' = tables \cup {flushed}
        /\ ReplaceTables(tables')
        /\ readState' = Snapshot(activeWal, immutable', tables')
        /\ flusher' = "remove"
     \/ /\ Fault
        /\ flusher' = "idle"
        /\ UNCHANGED <<tables, manifest, readState>>
  /\ UNCHANGED <<wal, walStable, sst, cached, vlog, vlogStable, clock, phase, mems,
                 activeWal, walPaths, memBytes, flushCh, walFile, wrVars, flushing,
                 flushed, reader, writes, latest, acked, opens, opts>>

\* removeWALFiles, one os.Remove at a time, in the order of walPaths.
FlushRemove ==
  /\ flusher = "remove"
  /\ wal' = Without(wal, Head(flushing.paths))
  /\ flushing' = [flushing EXCEPT !.paths = Tail(@)]
  /\ flusher' = IF Len(flushing.paths) = 1 THEN "idle" ELSE "remove"
  /\ UNCHANGED <<walStable, sst, cached, manifest, vlog, vlogStable, clock, phase,
                 dbVars, wrVars, flushed, reader, writes, latest, acked, opens, faults,
                 opts>>

-----------------------------------------------------------------------------
(* Get *)

NoState == [mem |-> 0, imm |-> <<>>, tables |-> {}]
Idle    == [key |-> 0, snap |-> NoState, valid |-> {}]

\* Get loads the published read state ...
GetBegin(r, k) ==
  /\ phase = "open" /\ reader[r] = Idle
  /\ reader' = [reader EXCEPT ![r] = [key |-> k, snap |-> readState,
                                      valid |-> {latest[k]}]]
  /\ UNCHANGED <<files, phase, dbVars, wrVars, flVars, writes, latest, acked, opens,
                 faults, opts>>

GetResult(r) == Lookup(reader[r].snap, reader[r].key).w

\* ... and searches it later; its memtable may have grown meanwhile.
GetEnd(r) ==
  /\ reader[r] # Idle
  /\ reader' = [reader EXCEPT ![r] = Idle]
  /\ UNCHANGED <<files, phase, dbVars, wrVars, flVars, writes, latest, acked, opens,
                 faults, opts>>

-----------------------------------------------------------------------------
(* Close *)

\* markClosed: from here new calls of Put and Get fail.
MarkClosed ==
  /\ phase = "open"
  /\ phase' = "stopping"
  /\ UNCHANGED <<files, dbVars, wrVars, flVars, reader, writes, latest, acked, opens,
                 faults, opts>>

\* stopWrites has waited for the writer; a non-empty memtable becomes immutable
\* once its log is closed.  An empty one takes its log with it (closeAndRemoveWAL);
\* an error of that is passed to closeStorageLocked next to flushErr, which nobody
\* else reads any more, and is kept there.
CloseMemtable ==
  /\ phase = "stopping" /\ writer = "idle"
  /\ \/ /\ mems[activeWal] # EmptyTable /\ walFile # "failed"
        /\ immutable' = Append(immutable, [mem |-> activeWal, paths |-> walPaths])
        /\ walStable' = IF walFile = "open" THEN Len(wal[activeWal]) ELSE walStable
        /\ phase' = "sending"
        /\ UNCHANGED <<wal, flushErr, faults>>
     \/ /\ mems[activeWal] = EmptyTable
        /\ \/ /\ wal' = Without(wal, activeWal)
              /\ flushErr' = IF walFile = "failed" THEN TRUE ELSE flushErr
              /\ UNCHANGED <<walStable, faults>>
           \/ /\ Fault
              /\ wal' \in {wal, Without(wal, activeWal)}
              /\ walStable' = IF walFile = "open" THEN Len(wal[activeWal]) ELSE walStable
        /\ phase' = "draining"
        /\ UNCHANGED immutable
  /\ UNCHANGED <<sst, cached, manifest, vlog, vlogStable, clock, mems, activeWal,
                 walPaths, memBytes, flushCh, tables, readState, walFile, wrVars,
                 flVars, reader, writes, latest, acked, opens, opts>>

\* activeWal.close fails: Close returns without flushing or stopping flushLoop.
CloseWalFails ==
  /\ phase = "stopping" /\ writer = "idle"
  /\ mems[activeWal] # EmptyTable
  /\ \/ walFile = "failed" /\ UNCHANGED faults
     \/ walFile = "open" /\ faults < opts.faults /\ faults' = faults + 1
  /\ phase' = "abandoned"
  /\ walFile' = "closed"
  /\ UNCHANGED <<files, mems, activeWal, walPaths, memBytes, immutable, flushCh, tables,
                 readState, flushErr, wrVars, flVars, reader, writes, latest, acked, opens,
                 opts>>

\* Mutant: Close does not hand over the last memtable.
CloseSendNothing ==
  /\ phase = "sending" /\ flushCh = <<>>
  /\ flushCh' = flushCh
  /\ phase' = "draining"
  /\ UNCHANGED <<files, mems, activeWal, walPaths, memBytes, immutable, tables,
                 readState, flushErr, walFile, wrVars, flVars, reader, writes, latest,
                 acked, opens, faults, opts>>

\* Mutant: Close waits for db.immutable to be empty before it sends.
CloseSendWaits ==
  /\ phase = "sending" /\ flushCh = <<>> /\ immutable = <<>>
  /\ flushCh' = <<>>
  /\ phase' = "draining"
  /\ UNCHANGED <<files, mems, activeWal, walPaths, memBytes, immutable, tables,
                 readState, flushErr, walFile, wrVars, flVars, reader, writes, latest,
                 acked, opens, faults, opts>>

\* flushPendingMemtableAndClose hands the last memtable over.
CloseSend ==
  /\ phase = "sending" /\ flushCh = <<>>
  /\ flushCh' = <<immutable[Len(immutable)]>>
  /\ phase' = "draining"
  /\ UNCHANGED <<files, mems, activeWal, walPaths, memBytes, immutable, tables,
                 readState, flushErr, walFile, wrVars, flVars, reader, writes, latest,
                 acked, opens, faults, opts>>

\* The memory of the process is gone.
Forget ==
  /\ mems' = <<>> /\ activeWal' = 0 /\ walPaths' = <<>> /\ memBytes' = 0
  /\ immutable' = <<>> /\ flushCh' = <<>> /\ tables' = {} /\ readState' = NoState
  /\ flushErr' = FALSE /\ walFile' = "open"
  /\ writer' = "idle" /\ batch' = <<>> /\ nextWal' = 0
  /\ flusher' = "idle" /\ flushing' = [mem |-> 0, paths |-> <<>>] /\ flushed' = 0
  /\ reader' = [r \in Readers |-> Idle]

\* flushLoop has drained the channel; closeStorageLocked syncs and closes the
\* value log, closes the tables and the directory lock, and returns flushErr or
\* the error of one of these.
CloseStorage ==
  /\ phase = "draining" /\ flushCh = <<>> /\ flusher = "idle"
  /\ \/ /\ SyncValueLog
        /\ phase' = IF flushErr THEN "down" ELSE "closed"
        /\ UNCHANGED faults
     \/ /\ faults < opts.faults /\ faults' = faults + 1
        /\ vlogStable' \in {vlogStable, Len(vlog)}
        /\ phase' = "down"
  /\ walStable' = 0
  /\ Forget
  /\ UNCHANGED <<wal, sst, cached, manifest, vlog, clock, writes, latest, acked, opens,
                 opts>>

-----------------------------------------------------------------------------
(* Crash and openDB *)

\* What a crash can leave of a log that replayWAL will read: it stops without an
\* error at a torn record.
ReplayWAL(log, stable) == {SubSeq(log, 1, n) : n \in stable..Len(log)}

\* How many records of the value log scanSegment may find intact after a crash.
ScanSegment == vlogStable..Len(vlog)

\* vlog.Open truncates the value log behind the records found intact.
Truncate(n) == SubSeq(vlog, 1, n)

\* A crash keeps at least what was fsynced of the active log and of the value
\* log.  A loss of power may also take tables that are still cached.
Crash ==
  /\ phase \notin Down
  /\ phase' = "down"
  /\ IF activeWal \in DOMAIN wal
       THEN \E log \in ReplayWAL(wal[activeWal], walStable) :
              wal' = [wal EXCEPT ![activeWal] = log]
       ELSE UNCHANGED wal
  /\ \E n \in ScanSegment : vlog' = Truncate(n)
  /\ walStable' = 0
  /\ \E lost \in SUBSET cached : sst' = Restrict(sst, DOMAIN sst \ lost)
  /\ cached' = {}
  /\ Forget
  /\ UNCHANGED <<manifest, vlogStable, clock, writes, latest, acked, opens, faults, opts>>

\* The records of the logs, each as the name of its log and its place in it.
Records(logs) == UNION {{n} \X (1..Len(logs[n])) : n \in DOMAIN logs}

\* Mutant: the logs are replayed from the newest to the oldest.
ReplayNewestFirst(logs) ==
  LET recs == InOrder(Records(logs),
                      {p \in Records(logs) \X Records(logs) :
                         \/ p[1][1] > p[2][1]
                         \/ p[1][1] = p[2][1] /\ p[1][2] < p[2][2]})
  IN  [i \in 1..Cardinality(Records(logs)) |-> logs[recs[i][1]][recs[i][2]]]

\* The order in which replayWALs reads the records: log after log by name, each
\* from its first record to its last.
Reads(logs) ==
  {p \in Records(logs) \X Records(logs) :
     \/ p[1][1] < p[2][1]
     \/ p[1][1] = p[2][1] /\ p[1][2] < p[2][2]}

\* The writes in the logs in that order.
ReplayOrder(logs) ==
  LET recs == InOrder(Records(logs), Reads(logs))
  IN  [i \in 1..Cardinality(Records(logs)) |-> logs[recs[i][1]][recs[i][2]]]

\* The last of the writes ws to k, as an index into ws; 0 if there is none.
LastTo(ws, k) == Max({0} \cup {i \in 1..Len(ws) : writes[ws[i]].key = k})

\* The writes to k that the logs and the tables of MANIFEST hold.
Surviving(logs, k) ==
  {w \in 1..Len(writes) : /\ writes[w].key = k
                          /\ \/ \E n \in DOMAIN logs : w \in Range(logs[n])
                             \/ \E t \in manifest : sst[t][k].w = w}

\* The memtable that replayWALs fills from the records ws.
Replayed(ws) ==
  [k \in Keys |-> IF LastTo(ws, k) = 0 THEN NoEntry ELSE Stored(writes, ws, LastTo(ws, k))]

\* openSSTablesFromMeta opens every table of MANIFEST.
TablesOpen == manifest \subseteq DOMAIN sst

\* openDB: open the tables of MANIFEST, replay every log into one memtable,
\* create a new log next to the old ones.
Open ==
  /\ phase \in Down /\ opens < opts.opens
  /\ TablesOpen
  /\ LET ws == ReplayOrder(wal)
     IN  /\ vlog' = ValueLogAfter(writes, ws)
         /\ memBytes' = Len(ws)
         /\ \E id \in 1..MaxClock :
              /\ Name(id)
              /\ mems' = With(mems, id, Replayed(ws))
              /\ activeWal' = id
              /\ walPaths' = Append(Ascending(DOMAIN wal), id)
              /\ wal' = With(wal, id, <<>>)
              /\ readState' = Snapshot(id, <<>>, manifest)
  /\ tables' = manifest
  /\ latest' = [k \in Keys |-> Max({0} \cup Surviving(wal, k))]
  /\ phase' = "open"
  /\ opens' = opens + 1
  /\ UNCHANGED <<walStable, sst, cached, manifest, vlogStable, immutable, flushCh,
                 flushErr, walFile, wrVars, flVars, reader, writes, acked, faults, opts>>

-----------------------------------------------------------------------------

\* The state before the first openDB of an empty directory.
Init ==
  /\ wal = <<>> /\ walStable = 0 /\ sst = <<>> /\ cached = {} /\ manifest = {}
  /\ vlog = <<>> /\ vlogStable = 0 /\ clock = 0
  /\ phase = "closed"
  /\ mems = <<>> /\ activeWal = 0 /\ walPaths = <<>> /\ memBytes = 0
  /\ immutable = <<>> /\ flushCh = <<>> /\ tables = {} /\ readState = NoState
  /\ flushErr = FALSE /\ walFile = "open"
  /\ writer = "idle" /\ batch = <<>> /\ nextWal = 0
  /\ flusher = "idle" /\ flushing = [mem |-> 0, paths |-> <<>>] /\ flushed = 0
  /\ reader = [r \in Readers |-> Idle]
  /\ writes = <<>> /\ latest = [k \in Keys |-> 0] /\ acked = [k \in Keys |-> 0]
  /\ opens = 0 /\ faults = 0 /\ opts \in Scenarios

Requests == UNION {[1..n -> [key : Keys, kind : opts.kinds]] : n \in 0..MaxBatch}

Writer ==
  \/ \E reqs \in Requests, fails \in BOOLEAN : StoreBatch(reqs, fails)
  \/ AppendWal \/ AppendWalFails \/ SyncWal \/ SyncWalFails \/ Apply
  \/ RotateCreate \/ RotateSwap \/ RotateCloseFails \/ RotateSend

Flusher == FlushTake \/ FlushWrite \/ FlushInstall \/ FlushRemove \/ FlushFails

Get == \E r \in Readers : GetEnd(r) \/ \E k \in Keys : GetBegin(r, k)

Close == MarkClosed \/ CloseMemtable \/ CloseWalFails \/ CloseSend \/ CloseStorage

Next == Writer \/ Flusher \/ Get \/ Close \/ Crash \/ Open

Spec == Init /\ [][Next]_vars

(***************************************************************************)
(* Fairness: the two goroutines, the log's syncLoop and a started Close    *)
(* keep running while the process lives.                                   *)
(***************************************************************************)
Fairness ==
  /\ WF_vars(AppendWal \/ Apply \/ RotateCreate \/ RotateSwap \/ RotateSend)
  /\ WF_vars(SyncWal)
  /\ WF_vars(FlushTake \/ FlushWrite \/ FlushInstall \/ FlushRemove)
  /\ WF_vars(CloseMemtable \/ CloseWalFails \/ CloseSend \/ CloseStorage)

FairSpec == Spec /\ Fairness

-----------------------------------------------------------------------------
(* Properties *)

\* As long as no I/O error has occurred, the published read state of an open
\* handle shows, for every key, the last write put into a memtable: neither
\* rotateMemtable nor installFlushedTable nor the replay in openDB hides or
\* resurrects anything.  With an error it need not: see AckedVisible.
NewestVisible ==
  (phase = "open" /\ faults = 0)
    => \A k \in Keys : Lookup(readState, k).w = latest[k]

\* An acknowledged write, or a later one to the same key, is what Get returns
\* while the handle is open.
AckedVisible ==
  phase = "open" => \A k \in Keys : Lookup(readState, k).w >= acked[k]

\* sstable.Get finds every key the table holds: it answers nil only for an
\* absent key.
TableGetFindsKey ==
  \A t \in DOMAIN sst, k \in Keys : sst[t][k].w # 0 => TableFinds(sst[t], k)

\* The logs as a crash may leave them at worst.
StableLogs ==
  IF activeWal \in DOMAIN wal
    THEN [wal EXCEPT ![activeWal] = SubSeq(@, 1, walStable)]
    ELSE wal

\* What a Get after openDB would return for k, given these logs.
Recovered(logs, k) ==
  LET hits == {n \in DOMAIN logs : LastTo(logs[n], k) # 0}
  IN  IF hits # {} THEN logs[Max(hits)][LastTo(logs[Max(hits)], k)]
      ELSE LookupTables(manifest, k).w

\* What a Get returns now, or would return once the directory is opened again.
Visible(k) ==
  IF phase \in Down THEN Recovered(wal, k) ELSE Lookup(readState, k).w

\* The scenarios that are to implement KVStore; the others map to a store that
\* nobody opens.
IsKVStore == SyncWrites /\ opts.faults = 0

\* With synchronous writes and no I/O errors the engine with its goroutines,
\* files, crashes and reopenings is a KVStore: rotating, flushing, removing logs
\* and opening are invisible, and going down takes back nothing acknowledged.
KV == INSTANCE KVStore WITH
        up    <- IsKVStore /\ phase \notin Down,
        store <- [k \in Keys |-> IF IsKVStore THEN Visible(k) ELSE 0],
        floor <- [k \in Keys |-> IF IsKVStore THEN acked[k] ELSE 0]

ImplementsKVStore == KV!Spec

\* With synchronous writes, a crash of the process at any point leaves a directory
\* that openDB can open and in which every acknowledged write, or a later one to
\* the same key, is what Get returns.
AckedRecoverable ==
  (SyncWrites /\ faults = 0) =>
    /\ TablesOpen
    /\ \A k \in Keys : Recovered(IF phase \in Down THEN wal ELSE StableLogs, k)
                         >= acked[k]

\* After a crash, a loss of power included, an acknowledged synchronous write or a
\* later one to the same key is in a log or in a table of MANIFEST that is still
\* there.  appendBatch returns nil for records that "became durable" (wal.go:203);
\* removeWALFiles (db.go:734) takes these records away.
AckedSurvivesPower ==
  (phase = "down" /\ SyncWrites) => \A k \in Keys : acked[k] # 0 =>
    \E w \in acked[k]..Len(writes) :
      /\ writes[w].key = k
      /\ \/ \E n \in DOMAIN wal : w \in Range(wal[n])
         \/ \E t \in manifest \cap DOMAIN sst : sst[t][k].w = w

\* A crash loses a suffix of the writes, also with asynchronous writes: when the
\* directory still shows some write, it shows every earlier one that was put into
\* a memtable and not overwritten.
CrashLosesSuffix ==
  (phase = "down" /\ faults = 0) => \A j, k \in Keys :
    latest[k] <= Recovered(wal, j) => Recovered(wal, k) >= latest[k]

\* Whatever I/O errors occur, an acknowledged synchronous write or a later one
\* to the same key is always in an fsynced log record or in a table that
\* MANIFEST names: a log is only removed behind a manifest that covers it.  This
\* is about the files; what Get finds after an error is AckedVisible.
AckedOnDisk ==
  LET logs == IF phase \in Down THEN wal ELSE StableLogs
  IN  SyncWrites => \A k \in Keys : acked[k] # 0 =>
                      \E w \in Surviving(logs, k) : w >= acked[k]

\* Nothing that was put into a memtable leaves the logs and tables, asynchronous
\* writes included, until a crash: whatever a failing fsync, flush or manifest
\* write does, removeWALFiles (db.go:734) only follows a manifest that covers the
\* log.  A record in the buffer of an asynchronous log counts as logged, also
\* after the log's last flush has failed.
NothingDropped ==
  phase # "down" => \A k \in Keys : latest[k] # 0 =>
                      \E w \in Surviving(wal, k) : w >= latest[k]

\* Every reference into the value log points at the record of its own write;
\* in tables of MANIFEST the record is also fsynced, so that the truncation in
\* vlog.Open after a crash never takes it away.
RefsResolve ==
  /\ \A t \in manifest \cap DOMAIN sst, k \in Keys :
       LET e == sst[t][k]
       IN  e.off # 0 => e.off <= vlogStable /\ Resolves(e)
  /\ \A m \in DOMAIN mems, k \in Keys :
       LET e == mems[m][k]
       IN  e.off # 0 => Resolves(e)

\* A Close that returns nil leaves all data in tables: no log on disk holds a
\* record.
CleanClose == phase = "closed" => \A n \in DOMAIN wal : wal[n] = <<>>

\* A Get returns a write that was the newest one to its key at some moment
\* between loading the read state and returning.
ReadsLinearizable ==
  [][\A r \in Readers : GetEnd(r) => GetResult(r) \in reader[r].valid]_vars

\* Every rotated memtable is flushed, unless the process crashes.
RotatedIsFlushed == (immutable # <<>>) ~> (immutable = <<>>)

\* Close returns, unless the process crashes.
CloseReturns == (phase = "stopping") ~> (phase \in Down \cup {"abandoned"})

=============================================================================
