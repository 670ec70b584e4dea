---------------------------- MODULE EngineSteps -----------------------------
(***************************************************************************)
(* What the engine keeps on disk, whatever I/O errors occur: acknowledged  *)
(* synchronous writes, everything put into a memtable until a crash, and   *)
(* the records that references into the value log point at.                *)
(***************************************************************************)
EXTENDS Engine, TLAPS

-----------------------------------------------------------------------------
(* The inductive invariant *)

Table == [Keys -> [w : Nat, off : Nat]]
Item  == [mem : Nat, paths : Seq(Nat)]

FilesType ==
  /\ clock \in Nat /\ walStable \in Nat /\ vlogStable \in Nat
  /\ writes \in Seq([key : Keys, kind : {"inline", "empty", "large", "tombstone"}])
  /\ wal \in [DOMAIN wal -> Seq(Nat)] /\ DOMAIN wal \subseteq 1..clock
  /\ sst \in [DOMAIN sst -> Table] /\ DOMAIN sst \subseteq 1..clock
  /\ manifest \subseteq DOMAIN sst /\ cached = {}
  /\ vlog \in Seq(Nat)

HandleType ==
  /\ mems \in [DOMAIN mems -> Table] /\ DOMAIN mems \subseteq 1..clock
  /\ activeWal \in Nat /\ nextWal \in Nat /\ flushed \in Nat /\ memBytes \in Nat
  /\ phase \in {"open", "stopping", "abandoned", "sending", "draining", "closed", "down"}
  /\ walPaths \in Seq(Nat) /\ immutable \in Seq(Item) /\ flushCh \in Seq(Item)
  /\ flushing \in Item

WorkType ==
  /\ batch \in Seq([w : Nat, off : Nat])
  /\ latest \in [Keys -> Nat] /\ acked \in [Keys -> Nat]
  /\ writer \in {"idle", "log", "sync", "apply", "rotate", "swap", "send"}
  /\ flusher \in {"idle", "write", "install", "remove"}
  /\ walFile \in {"open", "failed", "closed"}
  /\ faults \in Nat /\ opts \in Scenarios

TypeInv == FilesType /\ HandleType /\ WorkType

Up == phase \notin Down

\* The writer goroutine may still run.
Writing == phase \in {"open", "stopping"}

\* The write number w is that of a write to k.
WriteTo(w, k) == w \in 1..Len(writes) /\ writes[w].key = k

\* Tables and memtables hold, under each key, writes to that key.
KeysInv ==
  /\ \A t \in DOMAIN sst, k \in Keys : sst[t][k].w = 0 \/ WriteTo(sst[t][k].w, k)
  /\ \A m \in DOMAIN mems, k \in Keys : mems[m][k].w = 0 \/ WriteTo(mems[m][k].w, k)
  /\ \A k \in Keys : latest[k] = 0 \/ WriteTo(latest[k], k)

\* The writes before those of the batch that has not reached the log.
Logged == IF writer = "log" THEN Len(writes) - Len(batch) ELSE Len(writes)

\* Log files hold the writes in the order they were made: inside a log, and
\* from one log to the next.
LogsInv ==
  /\ \A n \in DOMAIN wal : \A i \in 1..Len(wal[n]) : wal[n][i] \in 1..Logged
  /\ \A n \in DOMAIN wal : \A i, j \in 1..Len(wal[n]) : i < j => wal[n][i] < wal[n][j]
  /\ \A n, m \in DOMAIN wal : n < m =>
       \A i \in 1..Len(wal[n]), j \in 1..Len(wal[m]) : wal[n][i] < wal[m][j]

\* The fields of a handle that is not open.
DownInv ==
  ~Up => /\ mems = <<>> /\ activeWal = 0 /\ walPaths = <<>> /\ immutable = <<>>
         /\ flushCh = <<>> /\ writer = "idle" /\ flusher = "idle" /\ walStable = 0
         /\ batch = <<>> /\ ~flushErr

\* The log n holds a record of the write w.
InLog(n, w) == \E i \in 1..Len(wal[n]) : wal[n][i] = w

\* The active log is the newest one with records.
ActiveInv ==
  Up => /\ activeWal \in DOMAIN mems /\ tables = manifest
        /\ \A n \in DOMAIN wal : n <= activeWal \/ wal[n] = <<>>
        /\ activeWal \in DOMAIN wal => walStable <= Len(wal[activeWal])
        /\ Writing => activeWal \in DOMAIN wal /\ activeWal \in Range(walPaths)
        /\ \A p \in Range(walPaths) : p <= activeWal

\* The memtables handed to the flusher or about to be.
Items ==
  Range(immutable) \cup Range(flushCh) \cup (IF flusher = "idle" THEN {} ELSE {flushing})

\* The last immutable waits to be sent over flushCh.
Sending == writer = "send" \/ phase = "sending"

QueueInv ==
  /\ \A q \in Items : /\ q.mem \in DOMAIN mems /\ q.mem <= activeWal
                      /\ q.paths # <<>> /\ \A p \in Range(q.paths) : p <= q.mem
                      /\ Writing => q.mem < activeWal
  /\ Sending => /\ immutable # <<>>
                /\ \A q \in Range(flushCh) : q.mem < immutable[Len(immutable)].mem
                /\ flusher # "idle" => flushing.mem < immutable[Len(immutable)].mem
  /\ flusher = "install" => /\ flushed \in DOMAIN sst
                            /\ sst[flushed] = mems[flushing.mem]

\* What processWriteBatch has in hand.
WriterInv ==
  /\ writer # "idle" => Writing /\ batch # <<>>
  /\ writer \in {"log", "sync", "apply"} =>
       /\ Len(batch) <= Len(writes)
       /\ \A i \in 1..Len(batch) : batch[i].w = Len(writes) - Len(batch) + i
       /\ \A k \in Keys : latest[k] <= Len(writes) - Len(batch)
       /\ \A i \in 1..Len(batch) : batch[i].off # 0 => Resolves(batch[i])
  /\ writer \in {"sync", "apply"} =>
       \A i \in 1..Len(batch) : InLog(activeWal, batch[i].w)
  /\ writer = "apply" /\ SyncWrites => walStable = Len(wal[activeWal])
  /\ writer \in {"rotate", "swap", "send"} =>
       /\ Len(batch) = 1 /\ batch[1].w \in 1..Len(writes)
       /\ latest[writes[batch[1].w].key] = batch[1].w
  /\ writer = "swap" => /\ nextWal \in DOMAIN wal /\ wal[nextWal] = <<>>
                        /\ nextWal > activeWal

\* No memtable and no table of MANIFEST is ahead of latest.
LatestInv ==
  phase # "down" =>
    /\ \A m \in DOMAIN mems, k \in Keys : mems[m][k].w <= latest[k]
    /\ \A t \in manifest, k \in Keys : sst[t][k].w <= latest[k]

\* The logs in paths hold no latest write that the memtable m does not.
Covers(m, paths) ==
  \A n \in Range(paths) \cap DOMAIN wal, k \in Keys :
    InLog(n, latest[k]) => mems[m][k].w = latest[k]

CoverInv ==
  Up => /\ Covers(activeWal, walPaths)
        /\ \A q \in Range(immutable) \cup Range(flushCh) : Covers(q.mem, q.paths)
        /\ flusher \in {"write", "install"} => Covers(flushing.mem, flushing.paths)

\* The logs that removeWALFiles is about to remove.
Doomed == IF flusher = "remove" THEN Range(flushing.paths) ELSE {}

\* How many records of the log n are to be relied on: with synchronous writes
\* those a crash leaves, otherwise all.
SafeLen(n) == IF SyncWrites /\ n = activeWal THEN walStable ELSE Len(wal[n])

\* The latest write to k is in a log that stays, or in a table of MANIFEST.
Kept(k) ==
  \/ \E n \in DOMAIN wal \ Doomed : \E i \in 1..SafeLen(n) : wal[n][i] = latest[k]
  \/ \E t \in manifest : sst[t][k].w = latest[k]

KeptInv == phase # "down" => \A k \in Keys : latest[k] # 0 => Kept(k)

AckInv ==
  SyncWrites =>
    /\ Up => \A k \in Keys : acked[k] <= latest[k]
    /\ ~Up => \A k \in Keys : acked[k] # 0 => \E w \in Surviving(wal, k) : w >= acked[k]

\* References into the value log.
RefsInv ==
  /\ vlogStable <= Len(vlog)
  /\ \A t \in manifest, k \in Keys :
       sst[t][k].off # 0 => sst[t][k].off <= vlogStable /\ Resolves(sst[t][k])
  /\ \A m \in DOMAIN mems, k \in Keys : mems[m][k].off # 0 => Resolves(mems[m][k])
  /\ flusher \in {"write", "install"} =>
       \A k \in Keys : mems[flushing.mem][k].off <= vlogStable

\* The records of the log n are in some memtable that is still to be flushed.
Pending(n) ==
  \/ \E q \in Range(flushCh) : n \in Range(q.paths)
  \/ Writing /\ n \in Range(walPaths)
  \/ flusher # "idle" /\ n \in Range(flushing.paths)
  \/ Sending /\ n \in Range(immutable[Len(immutable)].paths)

\* Without an error every record is in such a log, or the database is closed and
\* there is none.
PendingInv ==
  ~flushErr =>
    /\ Up /\ phase # "abandoned" => \A n \in DOMAIN wal : wal[n] = <<>> \/ Pending(n)
    /\ Writing /\ mems[activeWal] = EmptyTable /\ writer \notin {"sync", "apply"} =>
         \A n \in Range(walPaths) \cap DOMAIN wal : wal[n] = <<>>
    /\ phase = "closed" => \A n \in DOMAIN wal : wal[n] = <<>>

EngineInv ==
  /\ TypeInv /\ KeysInv /\ LogsInv /\ DownInv /\ ActiveInv /\ QueueInv /\ WriterInv
  /\ LatestInv /\ CoverInv /\ KeptInv /\ AckInv /\ RefsInv /\ PendingInv

-----------------------------------------------------------------------------
(* What each part of the invariant depends on *)

\* What the types say of lengths and names.
LEMMA Lengths ==
  ASSUME TypeInv
  PROVE  /\ Len(writes) \in Nat /\ Len(vlog) \in Nat /\ Len(batch) \in Nat
         /\ \A n \in DOMAIN wal : /\ n \in Nat /\ n # 0 /\ wal[n] \in Seq(Nat)
                                 /\ Len(wal[n]) \in Nat /\ DOMAIN wal[n] = 1..Len(wal[n])
         /\ \A m \in DOMAIN mems : m \in Nat
         /\ \A k \in Keys : latest[k] \in Nat
         /\ <<>> \in Seq(Nat) /\ 0 \in Nat
<1>1. Len(writes) \in Nat /\ Len(vlog) \in Nat
  BY DEF TypeInv, FilesType
<1>2. Len(batch) \in Nat /\ \A k \in Keys : latest[k] \in Nat
  BY DEF TypeInv, WorkType
<1>3. \A n \in DOMAIN wal : n \in Nat /\ n # 0 /\ wal[n] \in Seq(Nat)
  BY DEF TypeInv, FilesType
<1>4. \A s \in Seq(Nat) : Len(s) \in Nat /\ DOMAIN s = 1..Len(s)
  OBVIOUS
<1>5. \A m \in DOMAIN mems : m \in Nat
  BY DEF TypeInv, FilesType, HandleType
<1>6. <<>> \in Seq(Nat) /\ 0 \in Nat
  OBVIOUS
<1> QED
  BY Zenon, <1>1, <1>2, <1>3, <1>4, <1>5, <1>6

\* A step that changes none of these variables keeps the types of the files.
LEMMA SameFilesType ==
  ASSUME FilesType,
         UNCHANGED <<clock, walStable, vlogStable, writes, wal, sst, manifest,
                     cached, vlog>>
  PROVE  FilesType'
BY Zenon DEF FilesType

\* A step that changes none of these variables keeps the types of the fields of DB.
LEMMA SameHandleType ==
  ASSUME HandleType,
         UNCHANGED <<clock, phase, mems, activeWal, nextWal, flushed, memBytes,
                     walPaths, immutable, flushCh, flushing>>
  PROVE  HandleType'
BY Zenon DEF HandleType

\* A step that changes none of these variables keeps the types of what the goroutines hold.
LEMMA SameWorkType ==
  ASSUME WorkType,
         UNCHANGED <<batch, latest, acked, writer, flusher, walFile, faults,
                     opts>>
  PROVE  WorkType'
BY Zenon DEF WorkType

\* A step that changes none of these variables keeps KeysInv.
LEMMA SameKeys ==
  ASSUME KeysInv,
         UNCHANGED <<sst, mems, latest, writes>>
  PROVE  KeysInv'
BY DEF KeysInv, WriteTo

\* A step that changes none of these variables keeps LogsInv.
LEMMA SameLogs ==
  ASSUME LogsInv,
         UNCHANGED <<wal, writer, batch, writes>>
  PROVE  LogsInv'
BY DEF LogsInv, Logged

\* Only the logs and the number of writes logged matter to LogsInv.
LEMMA SameRecords ==
  ASSUME LogsInv, wal' = wal, 1..Logged \subseteq 1..Logged'
  PROVE  LogsInv'
BY DEF LogsInv

\* A step that changes none of these variables keeps DownInv.
LEMMA SameDown ==
  ASSUME DownInv,
         UNCHANGED <<phase, mems, activeWal, walPaths, immutable, flushCh,
                     writer, flusher, walStable, batch, flushErr>>
  PROVE  DownInv'
BY Zenon DEF DownInv, Up

\* A step that changes none of these variables keeps ActiveInv.
LEMMA SameActive ==
  ASSUME ActiveInv,
         UNCHANGED <<phase, activeWal, mems, tables, manifest, wal, walStable,
                     walPaths>>
  PROVE  ActiveInv'
BY Zenon DEF ActiveInv, Up, Writing

\* A step that changes none of these variables keeps QueueInv.
LEMMA SameQueue ==
  ASSUME QueueInv,
         UNCHANGED <<phase, immutable, flushCh, flusher, flushing, flushed,
                     mems, activeWal, writer, sst>>
  PROVE  QueueInv'
BY Zenon DEF QueueInv, Items, Sending, Writing

\* A step that changes none of these variables keeps WriterInv.
LEMMA SameWriter ==
  ASSUME WriterInv,
         UNCHANGED <<writer, phase, batch, writes, latest, vlog, wal, activeWal,
                     walStable, opts, nextWal>>
  PROVE  WriterInv'
BY Zenon DEF WriterInv, Writing, Resolves, SyncWrites, InLog

\* A step that changes none of these variables keeps LatestInv.
LEMMA SameLatest ==
  ASSUME LatestInv,
         UNCHANGED <<phase, mems, manifest, sst, latest>>
  PROVE  LatestInv'
BY Zenon DEF LatestInv

\* What a memtable covers depends on these variables only.
LEMMA SameCovers ==
  ASSUME UNCHANGED <<wal, latest, mems>>
  PROVE  \A m, paths : Covers(m, paths) => Covers(m, paths)'
BY Zenon DEF Covers, InLog

\* A step that changes none of these variables keeps CoverInv.
LEMMA SameCover ==
  ASSUME CoverInv,
         UNCHANGED <<phase, activeWal, walPaths, immutable, flushCh, flusher,
                     flushing, wal, latest, mems>>
  PROVE  CoverInv'
BY DEF CoverInv, Covers, InLog, Up

\* A step that changes none of these variables keeps KeptInv.
LEMMA SameKept ==
  ASSUME KeptInv,
         UNCHANGED <<phase, latest, wal, flusher, flushing, opts, activeWal,
                     walStable, manifest, sst>>
  PROVE  KeptInv'
BY DEF KeptInv, Kept, Doomed, SafeLen, SyncWrites

\* A step that changes none of these variables keeps AckInv.
LEMMA SameAck ==
  ASSUME AckInv,
         UNCHANGED <<opts, phase, acked, latest, wal, manifest, sst, writes>>
  PROVE  AckInv'
BY DEF AckInv, Up, SyncWrites, Surviving

\* A step that changes none of these variables keeps RefsInv.
LEMMA SameRefs ==
  ASSUME RefsInv,
         UNCHANGED <<vlog, vlogStable, manifest, sst, mems, flusher, flushing>>
  PROVE  RefsInv'
BY Zenon DEF RefsInv, Resolves

\* A step that changes none of these variables keeps PendingInv.
LEMMA SamePending ==
  ASSUME PendingInv,
         UNCHANGED <<flushErr, phase, wal, flushCh, walPaths, flusher, flushing,
                     immutable, writer, mems, activeWal>>
  PROVE  PendingInv'
BY Zenon DEF PendingInv, Up, Writing, Pending, Sending

-----------------------------------------------------------------------------
(* The elements of a sequence *)

\* Of an empty sequence and of one with one element.
LEMMA RangeSmall == Range(<<>>) = {} /\ \A x : Range(<<x>>) = {x}
BY DEF Range

\* Of a sequence with one more.
LEMMA RangeAppend ==
  ASSUME NEW T, NEW s \in Seq(T), NEW x \in T
  PROVE  /\ Append(s, x) \in Seq(T) /\ Append(s, x) # <<>>
         /\ Append(s, x)[Len(Append(s, x))] = x
         /\ Range(Append(s, x)) = Range(s) \cup {x}
<1>1. /\ DOMAIN s = 1..Len(s) /\ DOMAIN Append(s, x) = 1..Len(s) + 1 /\ Len(s) \in Nat
      /\ Append(s, x)[Len(s) + 1] = x /\ \A i \in 1..Len(s) : Append(s, x)[i] = s[i]
      /\ Append(s, x) \in Seq(T) /\ Len(Append(s, x)) = Len(s) + 1
  OBVIOUS
<1>2. Append(s, x) # <<>>
  BY <1>1
<1>3. Len(s) + 1 \in 1..Len(s) + 1 /\ \A i \in 1..Len(s) + 1 : i = Len(s) + 1 \/ i \in 1..Len(s)
  BY <1>1
<1>4. 1..Len(s) \subseteq 1..Len(s) + 1
  BY <1>1
<1> QED
  BY Zenon, <1>1, <1>2, <1>3, <1>4 DEF Range

\* Of a sequence without its first.
LEMMA RangeTail ==
  ASSUME NEW T, NEW s \in Seq(T), s # <<>>
  PROVE  /\ Head(s) \in T /\ Tail(s) \in Seq(T)
         /\ Range(s) = {Head(s)} \cup Range(Tail(s))
         /\ Len(s) = 1 <=> Tail(s) = <<>>
<1>0. Len(s) = 1 <=> Tail(s) = <<>>
  <2> PICK t : t = Tail(s)
    BY Zenon
  <2>1. t \in Seq(T) /\ Len(t) = Len(s) - 1 /\ Len(s) \in Nat
    OBVIOUS
  <2>2. t # <<>> => Len(t) # 0
    BY <2>1
  <2>3. t = <<>> => Len(t) = 0
    BY Zenon
  <2>4. Len(s) = 1 <=> t = <<>>
    BY <2>1, <2>2, <2>3
  <2> QED
    BY Zenon, <2>4
<1>1. /\ DOMAIN s = 1..Len(s) /\ Len(s) \in Nat /\ Len(s) # 0 /\ Head(s) = s[1]
      /\ Tail(s) \in Seq(T) /\ DOMAIN Tail(s) = 1..Len(s) - 1 /\ Head(s) \in T
  OBVIOUS
<1>2. \A i \in 1..Len(s) - 1 : Tail(s)[i] = s[i + 1]
  OBVIOUS
<1>3. \A i \in 1..Len(s) : i = 1 \/ \E j \in 1..Len(s) - 1 : i = j + 1
  <2> SUFFICES ASSUME NEW i \in 1..Len(s), i # 1
               PROVE  \E j \in 1..Len(s) - 1 : i = j + 1
    BY Zenon
  <2> WITNESS i - 1 \in 1..Len(s) - 1
  <2> QED
    OBVIOUS
<1>4. 1 \in 1..Len(s) /\ \A j \in 1..Len(s) - 1 : j + 1 \in 1..Len(s)
  BY <1>1
<1>5. Range(s) \subseteq {Head(s)} \cup Range(Tail(s))
  <2> SUFFICES ASSUME NEW i \in 1..Len(s), i # 1 PROVE s[i] \in Range(Tail(s))
    BY Zenon, <1>1 DEF Range
  <2> PICK j \in 1..Len(s) - 1 : i = j + 1
    BY Zenon, <1>3
  <2> QED
    BY Zenon, <1>1, <1>2 DEF Range
<1>6. {Head(s)} \cup Range(Tail(s)) \subseteq Range(s)
  BY <1>1, <1>2, <1>4 DEF Range
<1> QED
  BY Zenon, <1>0, <1>1, <1>5, <1>6

\* The last one.
LEMMA LastIn ==
  ASSUME NEW T, NEW s \in Seq(T), s # <<>>
  PROVE  s[Len(s)] \in T /\ s[Len(s)] \in Range(s)
<1>1. Len(s) \in 1..Len(s) /\ DOMAIN s = 1..Len(s) /\ s[Len(s)] \in T
  OBVIOUS
<1> QED
  BY Zenon, <1>1 DEF Range

-----------------------------------------------------------------------------
(* Steps that change little *)

\* Get reads memory only.
LEMMA GetStep ==
  ASSUME EngineInv, Get
  PROVE  EngineInv'
<1>1. UNCHANGED <<files, phase, dbVars, wrVars, flVars, writes, latest, acked, opens, faults,
                  opts>>
  BY Zenon DEF Get, GetBegin, GetEnd
<1>2. FilesType' /\ HandleType' /\ WorkType' /\ KeysInv' /\ LogsInv' /\ DownInv'
  BY Zenon, <1>1, SameFilesType, SameHandleType, SameWorkType, SameKeys, SameLogs, SameDown
     DEF EngineInv, TypeInv, files, dbVars, wrVars, flVars
<1>3. ActiveInv' /\ QueueInv' /\ WriterInv' /\ LatestInv'
  BY Zenon, <1>1, SameActive, SameQueue, SameWriter, SameLatest
     DEF EngineInv, TypeInv, files, dbVars, wrVars, flVars
<1>4. CoverInv' /\ KeptInv' /\ AckInv' /\ RefsInv' /\ PendingInv'
  BY Zenon, <1>1, SameCover, SameKept, SameAck, SameRefs, SamePending
     DEF EngineInv, TypeInv, files, dbVars, wrVars, flVars
<1> QED
  BY Zenon, <1>2, <1>3, <1>4 DEF EngineInv, TypeInv

\* markClosed stops new calls, not the goroutines.
LEMMA MarkClosedStep ==
  ASSUME EngineInv, MarkClosed
  PROVE  EngineInv'
<1> USE DEF files, dbVars, wrVars, flVars
<1>1. /\ phase = "open" /\ phase' = "stopping"
      /\ UNCHANGED <<files, dbVars, wrVars, flVars, writes, latest, acked, faults, opts>>
  BY Zenon DEF MarkClosed
<1>2. FilesType' /\ WorkType' /\ KeysInv' /\ LogsInv' /\ RefsInv'
  BY Zenon, <1>1, SameFilesType, SameWorkType, SameKeys, SameLogs, SameRefs DEF EngineInv, TypeInv
<1>3. HandleType'
  BY Zenon, <1>1 DEF EngineInv, TypeInv, HandleType
<1>4. Up /\ Up' /\ Writing /\ Writing' /\ Sending' = Sending
  BY Zenon, <1>1 DEF Up, Writing, Sending, Down
<1>5. DownInv' /\ ActiveInv'
  BY Zenon, <1>1, <1>4 DEF EngineInv, DownInv, ActiveInv
<1>6. QueueInv'
  BY Zenon, <1>1, <1>4 DEF EngineInv, QueueInv, Items
<1>7. WriterInv'
  BY Zenon, <1>1, <1>4 DEF EngineInv, WriterInv, Resolves, SyncWrites, InLog
<1>8. LatestInv' /\ CoverInv'
  BY Zenon, <1>1, <1>4, SameCovers DEF EngineInv, LatestInv, CoverInv
<1>9. KeptInv' /\ AckInv'
  BY Zenon, <1>1, <1>4 DEF EngineInv, KeptInv, Kept, Doomed, SafeLen, SyncWrites, AckInv
<1>10. PendingInv'
  BY Zenon, <1>1, <1>4 DEF EngineInv, PendingInv, Pending
<1> QED
  BY Zenon, <1>2, <1>3, <1>5, <1>6, <1>7, <1>8, <1>9, <1>10 DEF EngineInv, TypeInv

\* An fsync of syncLoop that fails changes no file.
LEMMA SyncWalFailsStep ==
  ASSUME EngineInv, SyncWalFails
  PROVE  EngineInv'
<1> USE DEF files, dbVars, wrVars, flVars
<1>1. /\ walFile' = "failed" /\ faults \in Nat /\ faults' = faults + 1
      /\ UNCHANGED <<files, phase, mems, activeWal, walPaths, memBytes, immutable, flushCh,
                     tables, flushErr, wrVars, flVars, writes, latest, acked, opts>>
  BY Zenon DEF SyncWalFails, EngineInv, TypeInv, WorkType
<1>2. FilesType' /\ HandleType' /\ KeysInv' /\ LogsInv' /\ DownInv' /\ ActiveInv' /\ QueueInv'
  BY Zenon, <1>1, SameFilesType, SameHandleType, SameKeys, SameLogs, SameDown, SameActive, SameQueue
     DEF EngineInv, TypeInv
<1>3. WriterInv' /\ LatestInv' /\ CoverInv' /\ KeptInv' /\ AckInv' /\ RefsInv' /\ PendingInv'
  BY Zenon, <1>1, SameWriter, SameLatest, SameCover, SameKept, SameAck, SameRefs, SamePending
     DEF EngineInv, TypeInv
<1>4. WorkType'
  BY <1>1 DEF EngineInv, TypeInv, WorkType
<1> QED
  BY Zenon, <1>2, <1>3, <1>4 DEF EngineInv, TypeInv

\* A failing flush leaves its logs and its table behind.
LEMMA FlushFailsStep ==
  ASSUME EngineInv, FlushFails
  PROVE  EngineInv'
<1> USE DEF files, dbVars, wrVars, flVars
<1>1. /\ flusher \in {"write", "remove"} /\ flusher' = "idle" /\ flushErr'
      /\ faults \in Nat /\ faults' = faults + 1
      /\ UNCHANGED <<files, phase, mems, activeWal, walPaths, memBytes, immutable, flushCh,
                     tables, walFile, wrVars, flushing, flushed, writes, latest, acked, opts>>
  BY Zenon DEF FlushFails, Fault, EngineInv, TypeInv, WorkType
<1>2. FilesType' /\ HandleType' /\ KeysInv' /\ LogsInv' /\ ActiveInv'
  BY Zenon, <1>1, SameFilesType, SameHandleType, SameKeys, SameLogs, SameActive DEF EngineInv, TypeInv
<1>3. WriterInv' /\ LatestInv' /\ AckInv'
  BY Zenon, <1>1, SameWriter, SameLatest, SameAck DEF EngineInv, TypeInv
<1>4. WorkType' /\ PendingInv'
  BY <1>1 DEF EngineInv, TypeInv, WorkType, PendingInv
<1>5. DownInv'
  BY Zenon, <1>1 DEF EngineInv, DownInv, Up
<1>6. QueueInv'
  BY Zenon, <1>1 DEF EngineInv, QueueInv, Items, Sending, Writing
<1>7. CoverInv' /\ RefsInv'
  <2>1. CoverInv'
    BY Zenon, <1>1, SameCovers DEF EngineInv, CoverInv, Up
  <2>2. RefsInv'
    BY Zenon, <1>1 DEF EngineInv, RefsInv, Resolves
  <2> QED
    BY Zenon, <2>1, <2>2
<1>8. KeptInv'
  BY Zenon, <1>1 DEF EngineInv, KeptInv, Kept, Doomed, SafeLen, SyncWrites
<1> QED
  BY Zenon, <1>2, <1>3, <1>4, <1>5, <1>6, <1>7, <1>8 DEF EngineInv, TypeInv

\* Close gives up when the active log cannot be closed.
LEMMA CloseWalFailsStep ==
  ASSUME EngineInv, CloseWalFails
  PROVE  EngineInv'
<1> USE DEF files, dbVars, wrVars, flVars
<1>1. /\ phase = "stopping" /\ phase' = "abandoned" /\ writer = "idle" /\ walFile' = "closed"
      /\ faults \in Nat /\ faults' \in {faults, faults + 1}
      /\ UNCHANGED <<files, mems, activeWal, walPaths, memBytes, immutable, flushCh, tables,
                     flushErr, wrVars, flVars, writes, latest, acked, opts>>
  BY Zenon DEF CloseWalFails, EngineInv, TypeInv, WorkType
<1>2. FilesType' /\ KeysInv' /\ LogsInv' /\ RefsInv'
  BY Zenon, <1>1, SameFilesType, SameKeys, SameLogs, SameRefs DEF EngineInv, TypeInv
<1>3. HandleType' /\ WorkType'
  BY <1>1 DEF EngineInv, TypeInv, HandleType, WorkType
<1>4. Up /\ Up' /\ Writing /\ ~Writing' /\ ~Sending' /\ ~Sending
  BY Zenon, <1>1 DEF Up, Writing, Sending, Down
<1>5. DownInv' /\ ActiveInv'
  BY Zenon, <1>1, <1>4 DEF EngineInv, DownInv, ActiveInv
<1>6. QueueInv'
  BY Zenon, <1>1, <1>4 DEF EngineInv, QueueInv, Items
<1>7. WriterInv'
  BY Zenon, <1>1, <1>4 DEF EngineInv, WriterInv
<1>8. LatestInv' /\ CoverInv'
  BY Zenon, <1>1, <1>4, SameCovers DEF EngineInv, LatestInv, CoverInv
<1>9. KeptInv' /\ AckInv'
  BY Zenon, <1>1, <1>4 DEF EngineInv, KeptInv, Kept, Doomed, SafeLen, SyncWrites, AckInv
<1>10. PendingInv'
  BY Zenon, <1>1, <1>4 DEF PendingInv
<1> QED
  BY Zenon, <1>2, <1>3, <1>5, <1>6, <1>7, <1>8, <1>9, <1>10 DEF EngineInv, TypeInv

\* An fsync hardens the active log.
LEMMA SyncWalStep ==
  ASSUME EngineInv, SyncWal
  PROVE  EngineInv'
<1> USE DEF files, dbVars, wrVars, flVars
<1>1. /\ phase \notin Down /\ walStable < Len(wal[activeWal])
      /\ walStable' = Len(wal[activeWal]) /\ activeWal \in DOMAIN wal
      /\ writer' = (IF writer = "sync" THEN "apply" ELSE writer)
      /\ UNCHANGED <<wal, sst, cached, manifest, vlog, vlogStable, clock, phase, dbVars, batch,
                     nextWal, flVars, writes, latest, acked, faults, opts>>
  BY Zenon DEF SyncWal
<1>2. wal[activeWal] \in Seq(Nat) /\ Len(wal[activeWal]) \in Nat /\ walStable \in Nat
  BY Zenon, <1>1, Lengths DEF EngineInv, TypeInv, FilesType
<1>3. HandleType' /\ KeysInv' /\ LatestInv' /\ CoverInv' /\ AckInv' /\ RefsInv'
  BY Zenon, <1>1, SameHandleType, SameKeys, SameLatest, SameCover, SameAck, SameRefs
     DEF EngineInv, TypeInv
<1>4. FilesType'
  BY Zenon, <1>1, <1>2 DEF EngineInv, TypeInv, FilesType
<1>5. WorkType' /\ LogsInv'
  <2>1. writer' \in {"idle", "log", "sync", "apply", "rotate", "swap", "send"}
        /\ (writer' = "log" <=> writer = "log")
    BY Zenon, <1>1 DEF EngineInv, TypeInv, WorkType
  <2>2. WorkType'
    BY Zenon, <1>1, <2>1 DEF EngineInv, TypeInv, WorkType
  <2>3. Logged' = Logged
    BY Zenon, <1>1, <2>1 DEF Logged
  <2>4. LogsInv'
    BY Zenon, <1>1, <2>3, SameRecords DEF EngineInv
  <2> QED
    BY Zenon, <2>2, <2>4
<1>6. DownInv' /\ ActiveInv'
  BY <1>1, <1>2 DEF EngineInv, DownInv, ActiveInv, Up, Writing
<1>7. QueueInv'
  BY Zenon, <1>1 DEF EngineInv, QueueInv, Items, Sending, Writing
<1>8. WriterInv'
  BY Zenon, <1>1 DEF EngineInv, WriterInv, Resolves, SyncWrites, InLog, Writing
<1>9. KeptInv'
  <2>1. Doomed' = Doomed /\ \A n \in DOMAIN wal : 1..SafeLen(n) \subseteq 1..SafeLen(n)'
    BY <1>1, <1>2 DEF Doomed, SafeLen, SyncWrites
  <2> QED
    BY Zenon, <1>1, <2>1 DEF EngineInv, KeptInv, Kept
<1>10. PendingInv'
  BY Zenon, <1>1 DEF EngineInv, PendingInv, Pending, Up, Writing, Sending
<1> QED
  BY Zenon, <1>3, <1>4, <1>5, <1>6, <1>7, <1>8, <1>9, <1>10 DEF EngineInv, TypeInv

\* The memtable is sent and its last write acknowledged.
LEMMA RotateSendStep ==
  ASSUME EngineInv, RotateSend
  PROVE  EngineInv'
<1> USE DEF files, dbVars, wrVars, flVars
<1> PICK q : q = immutable[Len(immutable)]
  BY Zenon
<1>1. /\ writer = "send" /\ writer' = "idle" /\ batch' = <<>>
      /\ flushCh = <<>> /\ flushCh' = <<q>>
      /\ acked' = [acked EXCEPT ![writes[batch[1].w].key] = batch[1].w]
      /\ UNCHANGED <<files, phase, mems, activeWal, walPaths, memBytes, immutable, tables,
                     flushErr, walFile, nextWal, flVars, writes, latest, faults, opts>>
  BY Zenon DEF RotateSend
<1>2. Sending /\ Writing /\ Up /\ ~Sending' /\ Writing' /\ Up'
  BY Zenon, <1>1 DEF EngineInv, WriterInv, Sending, Writing, Up, Down
<1>3. q \in Item /\ q \in Range(immutable)
  BY Zenon, <1>2, LastIn DEF EngineInv, TypeInv, HandleType, QueueInv
<1>4. Range(flushCh) = {} /\ Range(flushCh') = {q} /\ <<q>> \in Seq(Item)
  BY <1>1, <1>3, RangeSmall
<1>5. FilesType' /\ KeysInv' /\ ActiveInv' /\ LatestInv' /\ KeptInv' /\ RefsInv'
  BY Zenon, <1>1, SameFilesType, SameKeys, SameActive, SameLatest, SameKept, SameRefs
     DEF EngineInv, TypeInv
<1>6. HandleType'
  BY Zenon, <1>1, <1>4 DEF EngineInv, TypeInv, HandleType
<1>7. /\ batch[1].w \in 1..Len(writes) /\ latest[writes[batch[1].w].key] = batch[1].w
      /\ batch[1].w \in Nat
  BY <1>1 DEF EngineInv, WriterInv
<1>8. WorkType'
  <2>1. WorkType
    BY Zenon DEF EngineInv, TypeInv
  <2>2. acked' \in [Keys -> Nat]
    BY Zenon, <1>1, <1>7, <2>1 DEF WorkType
  <2> QED
    BY <1>1, <2>1, <2>2 DEF WorkType
<1>9. LogsInv' /\ DownInv' /\ WriterInv'
  <2>1. Logged' = Logged
    BY Zenon, <1>1 DEF Logged
  <2>2. LogsInv'
    BY Zenon, <1>1, <2>1, SameRecords DEF EngineInv
  <2>3. DownInv' /\ WriterInv'
    BY Zenon, <1>1, <1>2 DEF DownInv, WriterInv
  <2> QED
    BY Zenon, <2>2, <2>3
<1>10. Items' = Items
  BY Zenon, <1>1, <1>3, <1>4 DEF Items
<1>11. QueueInv'
  BY Zenon, <1>1, <1>2, <1>10 DEF EngineInv, QueueInv
<1>12. CoverInv'
  BY Zenon, <1>1, <1>2, <1>3, <1>4, SameCovers DEF EngineInv, CoverInv
<1>13. AckInv'
  <2> SUFFICES ASSUME SyncWrites, NEW k \in Keys PROVE acked'[k] <= latest[k]
    BY Zenon, <1>1, <1>2 DEF AckInv, SyncWrites
  <2>1. acked[k] <= latest[k] /\ acked \in [Keys -> Nat]
    BY Zenon, <1>2 DEF EngineInv, AckInv, TypeInv, WorkType
  <2>2. batch[1].w <= batch[1].w
    BY <1>7
  <2>3. acked'[k] = acked[k] \/ (k = writes[batch[1].w].key /\ acked'[k] = batch[1].w)
    BY Zenon, <1>1, <2>1
  <2> QED
    BY Zenon, <1>7, <2>1, <2>2, <2>3
<1>14. \A n : Pending(n) => Pending(n)'
  BY Zenon, <1>1, <1>2, <1>4 DEF Pending
<1>15. PendingInv'
  BY Zenon, <1>1, <1>2, <1>14 DEF EngineInv, PendingInv
<1> QED
  BY Zenon, <1>5, <1>6, <1>8, <1>9, <1>11, <1>12, <1>13, <1>15 DEF EngineInv, TypeInv

\* Close sends the last memtable.
LEMMA CloseSendStep ==
  ASSUME EngineInv, CloseSend
  PROVE  EngineInv'
<1> USE DEF files, dbVars, wrVars, flVars
<1> PICK q : q = immutable[Len(immutable)]
  BY Zenon
<1>1. /\ phase = "sending" /\ phase' = "draining" /\ flushCh = <<>> /\ flushCh' = <<q>>
      /\ UNCHANGED <<files, mems, activeWal, walPaths, memBytes, immutable, tables, flushErr,
                     walFile, wrVars, flVars, writes, latest, acked, faults, opts>>
  BY Zenon DEF CloseSend
<1>2. /\ writer = "idle" /\ Sending /\ ~Writing /\ Up /\ ~Sending' /\ ~Writing' /\ Up'
  BY Zenon, <1>1 DEF EngineInv, WriterInv, Sending, Writing, Up, Down
<1>3. q \in Item /\ q \in Range(immutable)
  BY Zenon, <1>2, LastIn DEF EngineInv, TypeInv, HandleType, QueueInv
<1>4. Range(flushCh) = {} /\ Range(flushCh') = {q} /\ <<q>> \in Seq(Item)
  BY <1>1, <1>3, RangeSmall
<1>5. FilesType' /\ WorkType' /\ KeysInv' /\ LogsInv' /\ RefsInv'
  BY Zenon, <1>1, SameFilesType, SameWorkType, SameKeys, SameLogs, SameRefs
     DEF EngineInv, TypeInv
<1>6. HandleType'
  BY Zenon, <1>1, <1>4 DEF EngineInv, TypeInv, HandleType
<1>7. DownInv' /\ ActiveInv' /\ LatestInv'
  BY Zenon, <1>1, <1>2 DEF EngineInv, DownInv, ActiveInv, LatestInv
<1>8. Items' = Items
  BY Zenon, <1>1, <1>3, <1>4 DEF Items
<1>9. QueueInv'
  BY Zenon, <1>1, <1>2, <1>8 DEF EngineInv, QueueInv
<1>10. WriterInv' /\ KeptInv' /\ AckInv'
  BY Zenon, <1>1, <1>2 DEF EngineInv, WriterInv, KeptInv, Kept, Doomed, SafeLen, SyncWrites, AckInv
<1>11. CoverInv'
  BY Zenon, <1>1, <1>2, <1>3, <1>4, SameCovers DEF EngineInv, CoverInv
<1>12. \A n : Pending(n) => Pending(n)'
  BY Zenon, <1>1, <1>2, <1>4 DEF Pending
<1>13. PendingInv'
  BY Zenon, <1>1, <1>2, <1>12 DEF EngineInv, PendingInv
<1> QED
  BY Zenon, <1>5, <1>6, <1>7, <1>9, <1>10, <1>11, <1>13 DEF EngineInv, TypeInv

-----------------------------------------------------------------------------
(* Steps that take records away from the logs *)

Shrinks ==
  \A n \in DOMAIN wal' : \A i \in 1..Len(wal'[n]) :
    n \in DOMAIN wal /\ i \in 1..Len(wal[n]) /\ wal'[n][i] = wal[n][i]

\* What is left is in order.
LEMMA FewerInOrder ==
  ASSUME LogsInv, Shrinks, 1..Logged \subseteq 1..Logged'
  PROVE  LogsInv'
BY Zenon DEF LogsInv, Shrinks

\* What is left was in the logs, and a memtable covers as much as before.
LEMMA FewerCovered ==
  ASSUME Shrinks
  PROVE  /\ \A n \in DOMAIN wal' : \A w : InLog(n, w)' => n \in DOMAIN wal /\ InLog(n, w)
         /\ \A m, ps : /\ Covers(m, ps) /\ latest' = latest /\ mems'[m] = mems[m]
                      => Covers(m, ps)'
<1>1. \A n \in DOMAIN wal' : \A w : InLog(n, w)' => n \in DOMAIN wal /\ InLog(n, w)
  BY Zenon DEF InLog, Shrinks
<1> QED
  BY Zenon, <1>1 DEF Covers

-----------------------------------------------------------------------------
(* The flusher *)

\* The flusher takes a memtable; the value log is fsynced first.
LEMMA FlushTakeStep ==
  ASSUME EngineInv, FlushTake
  PROVE  EngineInv'
<1> USE DEF files, dbVars, wrVars, flVars
<1> PICK q : q = Head(flushCh)
  BY Zenon
<1>1. /\ flusher = "idle" /\ flushCh # <<>> /\ flushing' = q /\ flushCh' = Tail(flushCh)
      /\ \/ flusher' = "write" /\ vlogStable' = Len(vlog) /\ UNCHANGED <<faults, flushErr>>
         \/ flusher' = "idle" /\ vlogStable' = vlogStable /\ flushErr' /\ faults' = faults + 1
      /\ UNCHANGED <<wal, walStable, sst, cached, manifest, vlog, clock, phase, mems, activeWal,
                     walPaths, memBytes, immutable, tables, walFile, wrVars, flushed, writes,
                     latest, acked, opts>>
  BY Zenon DEF FlushTake, NoFault, Fault, SyncValueLog
<1>2. /\ q \in Item /\ flushCh' \in Seq(Item)
      /\ Range(flushCh) = {q} \cup Range(flushCh')
  BY Zenon, <1>1, RangeTail DEF EngineInv, TypeInv, HandleType
<1>3. Up /\ Up' /\ Sending' = Sending /\ Writing' = Writing
  BY Zenon, <1>1 DEF EngineInv, DownInv, Up, Sending, Writing
<1>4. vlogStable \in Nat /\ vlogStable' \in Nat /\ vlogStable <= vlogStable' /\ vlogStable' <= Len(vlog)
      /\ (flusher' = "write" => vlogStable' = Len(vlog)) /\ faults' \in Nat
      /\ flusher' \in {"write", "idle"}
  BY <1>1 DEF EngineInv, TypeInv, FilesType, WorkType, RefsInv
<1>5. KeysInv' /\ LogsInv' /\ ActiveInv' /\ WriterInv' /\ LatestInv' /\ AckInv'
  BY Zenon, <1>1, SameKeys, SameLogs, SameActive, SameWriter, SameLatest, SameAck DEF EngineInv
<1>6. FilesType' /\ HandleType'
  BY Zenon, <1>1, <1>2, <1>4 DEF EngineInv, TypeInv, FilesType, HandleType
<1>7. WorkType' /\ DownInv'
  BY Zenon, <1>1, <1>3, <1>4 DEF EngineInv, TypeInv, WorkType, DownInv
<1>8. Items' \subseteq Items
  BY Zenon, <1>1, <1>2 DEF Items
<1>9. QueueInv'
  BY Zenon, <1>1, <1>2, <1>3, <1>4, <1>8 DEF EngineInv, QueueInv
<1>10. CoverInv'
  <2>1. \A m, paths : Covers(m, paths) => Covers(m, paths)'
    BY Zenon, <1>1, SameCovers
  <2>2. /\ Covers(activeWal, walPaths) /\ Covers(q.mem, q.paths)
        /\ \A x \in Range(immutable) \cup Range(flushCh') : Covers(x.mem, x.paths)
    BY Zenon, <1>2, <1>3 DEF EngineInv, CoverInv
  <2>3. /\ Covers(activeWal, walPaths)' /\ Covers(flushing.mem, flushing.paths)'
        /\ \A x \in Range(immutable') \cup Range(flushCh') : Covers(x.mem, x.paths)'
    BY <1>1, <2>1, <2>2 DEF Covers, InLog
  <2> QED
    BY Zenon, <2>3 DEF CoverInv
<1>11. KeptInv'
  <2>1. Doomed = {} /\ Doomed' = {}
    BY Zenon, <1>1, <1>4 DEF Doomed
  <2>2. \A n : SafeLen(n)' = SafeLen(n)
    BY Zenon, <1>1 DEF SafeLen, SyncWrites
  <2>3. \A k : Kept(k) => Kept(k)'
    BY Zenon, <1>1, <2>1, <2>2 DEF Kept
  <2> QED
    BY Zenon, <1>1, <2>3 DEF EngineInv, KeptInv
<1>12. RefsInv'
  <2>1. q.mem \in DOMAIN mems
    BY Zenon, <1>2 DEF EngineInv, QueueInv, Items
  <2>2. \A m \in DOMAIN mems, k \in Keys : mems[m][k].off \in Nat /\ mems[m][k].off <= Len(vlog)
    BY DEF EngineInv, TypeInv, FilesType, HandleType, Table, RefsInv, Resolves
  <2>3. \A t \in manifest, k \in Keys : sst[t][k].off \in Nat
    BY Zenon DEF EngineInv, TypeInv, FilesType, Table
  <2> QED
    BY <1>1, <1>4, <2>1, <2>2, <2>3 DEF EngineInv, RefsInv, Resolves
<1>13. \A n : flusher' = "write" /\ Pending(n) => Pending(n)'
  BY Zenon, <1>1, <1>2, <1>3 DEF Pending
<1>14. PendingInv'
  BY <1>1, <1>3, <1>13 DEF EngineInv, PendingInv
<1> QED
  BY Zenon, <1>5, <1>6, <1>7, <1>9, <1>10, <1>11, <1>12, <1>14 DEF EngineInv, TypeInv

\* The table has a name that MANIFEST does not use.
LEMMA FlushWriteStep ==
  ASSUME EngineInv, FlushWrite, ~PowerLoss
  PROVE  EngineInv'
<1> USE DEF files, dbVars, wrVars, flVars
<1> PICK id : /\ id = clock + 1 /\ clock' = id /\ sst' = With(sst, id, mems[flushing.mem])
              /\ flushed' = id /\ cached' = cached
  BY Zenon DEF FlushWrite, Name
<1>1. /\ flusher = "write" /\ flusher' = "install"
      /\ UNCHANGED <<wal, walStable, manifest, vlog, vlogStable, phase, dbVars, wrVars, flushing,
                     writes, latest, acked, faults, opts>>
  BY Zenon DEF FlushWrite
<1>2. Up /\ Up' /\ Sending' = Sending /\ Writing' = Writing
  BY Zenon, <1>1 DEF EngineInv, DownInv, Up, Sending, Writing
<1>3. flushing.mem \in DOMAIN mems /\ mems[flushing.mem] \in Table
  BY Zenon, <1>1 DEF EngineInv, TypeInv, HandleType, QueueInv, Items
<1>4. id \notin DOMAIN sst /\ id \in 1..id /\ 1..clock \subseteq 1..id /\ id \in Nat
  BY DEF EngineInv, TypeInv, FilesType
<1>5. /\ sst' \in [DOMAIN sst' -> Table] /\ DOMAIN sst' = DOMAIN sst \cup {id}
      /\ sst'[id] = mems[flushing.mem] /\ \A t \in DOMAIN sst : sst'[t] = sst[t]
  <2>1. sst \in [DOMAIN sst -> Table]
    BY Zenon DEF EngineInv, TypeInv, FilesType
  <2> QED
    BY Zenon, <1>3, <1>4, <2>1 DEF With
<1>6. manifest \subseteq DOMAIN sst /\ \A t \in manifest : sst'[t] = sst[t]
  BY Zenon, <1>5 DEF EngineInv, TypeInv, FilesType
<1>7. WorkType' /\ LogsInv' /\ ActiveInv' /\ WriterInv'
  BY Zenon, <1>1, SameLogs, SameActive, SameWriter DEF EngineInv, TypeInv, WorkType
<1>8. FilesType'
  BY Zenon, <1>1, <1>4, <1>5 DEF EngineInv, TypeInv, FilesType
<1>9. HandleType' /\ DownInv'
  BY Zenon, <1>1, <1>2, <1>4 DEF EngineInv, TypeInv, HandleType, DownInv
<1>10. KeysInv'
  BY <1>1, <1>3, <1>5 DEF EngineInv, KeysInv, WriteTo
<1>11. Items' = Items
  BY Zenon, <1>1 DEF Items
<1>12. QueueInv'
  BY Zenon, <1>1, <1>2, <1>5, <1>11 DEF EngineInv, QueueInv
<1>13. LatestInv' /\ RefsInv'
  <2>1. \A e : Resolves(e)' <=> Resolves(e)
    BY Zenon, <1>1 DEF Resolves
  <2>2. LatestInv'
    BY Zenon, <1>1, <1>6 DEF EngineInv, LatestInv
  <2>3. \A t \in manifest, k \in Keys :
          sst'[t][k].off # 0 => sst'[t][k].off <= vlogStable /\ Resolves(sst'[t][k])
    BY Zenon, <1>6 DEF EngineInv, RefsInv
  <2>4. RefsInv'
    BY <1>1, <2>1, <2>3 DEF EngineInv, RefsInv, Resolves
  <2> QED
    BY Zenon, <2>2, <2>4
<1>14. CoverInv'
  <2>1. \A m, paths : Covers(m, paths) => Covers(m, paths)'
    BY Zenon, <1>1 DEF Covers, InLog
  <2> QED
    BY Zenon, <1>1, <1>2, <2>1 DEF EngineInv, CoverInv
<1>15. KeptInv'
  <2>1. Doomed' = Doomed /\ \A n \in DOMAIN wal : SafeLen(n)' = SafeLen(n)
    BY Zenon, <1>1 DEF Doomed, SafeLen, SyncWrites
  <2>2. \A k \in Keys : Kept(k) => Kept(k)'
    BY Zenon, <1>1, <1>6, <2>1 DEF Kept
  <2> QED
    BY Zenon, <1>1, <2>2 DEF EngineInv, KeptInv
<1>16. AckInv' /\ PendingInv'
  BY Zenon, <1>1, <1>2 DEF EngineInv, AckInv, SyncWrites, PendingInv, Pending
<1> QED
  BY Zenon, <1>7, <1>8, <1>9, <1>10, <1>12, <1>13, <1>14, <1>15, <1>16 DEF EngineInv, TypeInv

\* A log goes that MANIFEST covers.
LEMMA FlushRemoveStep ==
  ASSUME EngineInv, FlushRemove
  PROVE  EngineInv'
<1> USE DEF files, dbVars, wrVars, flVars
<1> PICK p, ps : p = Head(flushing.paths) /\ ps = Tail(flushing.paths)
  BY Zenon
<1>1. /\ flusher = "remove" /\ wal' = Without(wal, p)
      /\ flushing' = [flushing EXCEPT !.paths = ps]
      /\ flusher' = IF Len(flushing.paths) = 1 THEN "idle" ELSE "remove"
      /\ UNCHANGED <<walStable, sst, cached, manifest, vlog, vlogStable, clock, phase, dbVars,
                     wrVars, flushed, writes, latest, acked, faults, opts>>
  BY Zenon DEF FlushRemove
<1>2. Up /\ Up' /\ Sending' = Sending /\ Writing' = Writing
  BY Zenon, <1>1 DEF EngineInv, DownInv, Up, Sending, Writing
<1>3. /\ flushing \in Item /\ flushing \in Items /\ flushing.paths # <<>>
      /\ flushing.paths \in Seq(Nat) /\ flushing.mem \in Nat
  BY Zenon, <1>1 DEF EngineInv, TypeInv, HandleType, QueueInv, Items, Item
<1>4. /\ p \in Nat /\ ps \in Seq(Nat) /\ Range(flushing.paths) = {p} \cup Range(ps)
      /\ (Len(flushing.paths) = 1 <=> ps = <<>>)
  BY Zenon, <1>3, RangeTail
<1>5. flushing'.mem = flushing.mem /\ flushing'.paths = ps /\ flushing' \in Item
  BY Zenon, <1>1, <1>3, <1>4 DEF Item
<1>6. /\ wal' \in [DOMAIN wal' -> Seq(Nat)] /\ DOMAIN wal' = DOMAIN wal \ {p}
      /\ \A n \in DOMAIN wal' : n \in DOMAIN wal /\ wal'[n] = wal[n]
  <2>1. wal \in [DOMAIN wal -> Seq(Nat)]
    BY Zenon DEF EngineInv, TypeInv, FilesType
  <2> QED
    BY Zenon, <1>1, <2>1 DEF Without, Restrict
<1>7. KeysInv' /\ LatestInv'
  BY Zenon, <1>1, SameKeys, SameLatest DEF EngineInv, TypeInv
<1>8. FilesType'
  BY Zenon, <1>1, <1>6 DEF EngineInv, TypeInv, FilesType
<1>9. HandleType' /\ WorkType' /\ DownInv'
  BY Zenon, <1>1, <1>2, <1>5 DEF EngineInv, TypeInv, HandleType, WorkType, DownInv
<1>10. LogsInv'
  <2>1. Shrinks
    BY Zenon, <1>6 DEF Shrinks
  <2>2. Logged' = Logged
    BY Zenon, <1>1 DEF Logged
  <2> QED
    BY Zenon, <2>1, <2>2, FewerInOrder DEF EngineInv
<1>11. p \in Range(flushing.paths) /\ p <= flushing.mem /\ (Writing => p # activeWal)
  <2>1. p <= flushing.mem /\ (Writing => flushing.mem < activeWal)
    BY Zenon, <1>3, <1>4 DEF EngineInv, QueueInv
  <2>2. activeWal \in Nat
    BY Zenon DEF EngineInv, TypeInv, HandleType
  <2> QED
    BY <1>3, <1>4, <2>1, <2>2
<1>12. ActiveInv'
  BY Zenon, <1>1, <1>2, <1>6, <1>11 DEF EngineInv, ActiveInv
<1>13. QueueInv'
  <2>1. ASSUME NEW q \in Items'
        PROVE  /\ q.mem \in DOMAIN mems /\ q.mem <= activeWal
               /\ q.paths # <<>> /\ \A n \in Range(q.paths) : n <= q.mem
               /\ Writing => q.mem < activeWal
    <3>1. CASE q \in Items
      BY Zenon, <3>1 DEF EngineInv, QueueInv
    <3>2. CASE q \notin Items
      <4>1. q = flushing' /\ flusher' # "idle"
        BY Zenon, <1>1, <3>2 DEF Items
      <4> QED
        BY Zenon, <1>1, <1>3, <1>4, <1>5, <4>1 DEF EngineInv, QueueInv
    <3> QED
      BY Zenon, <3>1, <3>2
  <2>2. flusher' # "install"
    BY Zenon, <1>1
  <2> QED
    BY Zenon, <1>1, <1>2, <1>5, <2>1, <2>2 DEF EngineInv, QueueInv
<1>14. WriterInv'
  <2>1. writer # "idle" => activeWal \in DOMAIN wal'
    BY Zenon, <1>2, <1>6, <1>11 DEF EngineInv, WriterInv, ActiveInv
  <2>2. writer = "swap" => nextWal \in DOMAIN wal'
    <3>1. writer = "swap" => Writing /\ nextWal \in DOMAIN wal /\ nextWal > activeWal
      BY Zenon DEF EngineInv, WriterInv
    <3>2. writer = "swap" => flushing.mem < activeWal
      BY Zenon, <1>3, <3>1 DEF EngineInv, QueueInv
    <3>3. activeWal \in Nat /\ nextWal \in Nat
      BY Zenon DEF EngineInv, TypeInv, HandleType
    <3>4. writer = "swap" => nextWal # p
      BY <1>3, <1>4, <1>11, <3>1, <3>2, <3>3
    <3> QED
      BY Zenon, <1>6, <3>1, <3>4
  <2>3. /\ writer # "idle" => wal'[activeWal] = wal[activeWal]
        /\ writer = "swap" => wal'[nextWal] = wal[nextWal]
    BY Zenon, <1>6, <2>1, <2>2
  <2>4. UNCHANGED <<writer, batch, writes, latest, vlog, activeWal, walStable, opts, nextWal>>
    BY Zenon, <1>1
  <2>5. WriterInv
    BY Zenon DEF EngineInv
  <2> QED
    BY <1>2, <2>2, <2>3, <2>4, <2>5 DEF WriterInv, Resolves, SyncWrites, InLog
<1>15. CoverInv'
  <2>1. Shrinks
    BY Zenon, <1>6 DEF Shrinks
  <2> QED
    BY Zenon, <1>1, <1>2, <2>1, FewerCovered DEF EngineInv, CoverInv
<1>16. KeptInv'
  <2>1. \A n \in DOMAIN wal \ Doomed : n \in DOMAIN wal' \ Doomed' /\ SafeLen(n)' = SafeLen(n)
    BY Zenon, <1>1, <1>4, <1>5, <1>6 DEF Doomed, SafeLen, SyncWrites
  <2> QED
    BY <1>1, <1>6, <2>1 DEF EngineInv, KeptInv, Kept
<1>17. AckInv' /\ RefsInv'
  BY Zenon, <1>1, <1>2 DEF EngineInv, AckInv, SyncWrites, RefsInv, Resolves
<1>18. \A n \in DOMAIN wal' : Pending(n) => Pending(n)'
  <2>1. ps = <<>> => Range(ps) = {}
    BY Zenon, RangeSmall
  <2> QED
    BY Zenon, <1>1, <1>2, <1>4, <1>5, <1>6, <2>1 DEF Pending
<1>19. PendingInv'
  BY Zenon, <1>1, <1>2, <1>6, <1>18 DEF EngineInv, PendingInv
<1> QED
  BY Zenon, <1>7, <1>8, <1>9, <1>10, <1>12, <1>13, <1>14, <1>15, <1>16, <1>17, <1>19
     DEF EngineInv, TypeInv

-----------------------------------------------------------------------------
(* rotateMemtable *)

\* The new log is empty and has a new name.
LEMMA RotateCreateStep ==
  ASSUME EngineInv, RotateCreate
  PROVE  EngineInv'
<1> USE DEF files, dbVars, wrVars, flVars
<1>1. /\ writer = "rotate"
      /\ UNCHANGED <<walStable, sst, cached, manifest, vlog, vlogStable, phase, mems, activeWal,
                     walPaths, memBytes, immutable, flushCh, tables, walFile, flVars, writes,
                     latest, acked, opts>>
  BY Zenon DEF RotateCreate
<1>2. Writing /\ Up /\ Writing' /\ Up' /\ ~Sending /\ batch # <<>>
  BY Zenon, <1>1 DEF EngineInv, WriterInv, Writing, Up, Down, Sending
<1>3. clock \in Nat /\ activeWal \in 1..clock
  BY Zenon, <1>2 DEF EngineInv, TypeInv, FilesType, HandleType, ActiveInv
<1>4. KeysInv' /\ LatestInv' /\ RefsInv'
  BY Zenon, <1>1, SameKeys, SameLatest, SameRefs DEF EngineInv, TypeInv
<1>5. CASE writer' = "idle" /\ batch' = <<>> /\ flushErr' /\ faults' = faults + 1
           /\ UNCHANGED <<wal, clock, nextWal>>
  <2>1. ~Sending'
    BY Zenon, <1>2, <1>5 DEF Writing, Sending
  <2>2. FilesType' /\ HandleType' /\ ActiveInv' /\ CoverInv' /\ KeptInv' /\ AckInv'
    BY Zenon, <1>1, <1>5, SameFilesType, SameHandleType, SameActive, SameCover, SameKept, SameAck
       DEF EngineInv, TypeInv
  <2>a. WorkType'
    BY <1>1, <1>5 DEF EngineInv, TypeInv, WorkType
  <2>b. Shrinks /\ Logged' = Logged
    BY Zenon, <1>1, <1>5 DEF Shrinks, Logged
  <2>3. WorkType' /\ LogsInv'
    BY Zenon, <2>a, <2>b, FewerInOrder DEF EngineInv
  <2>4. DownInv' /\ WriterInv' /\ PendingInv'
    BY Zenon, <1>2, <1>5 DEF DownInv, WriterInv, PendingInv
  <2>5. QueueInv'
    BY Zenon, <1>1, <1>2, <2>1 DEF EngineInv, QueueInv, Items
  <2> QED
    BY Zenon, <1>4, <2>2, <2>3, <2>4, <2>5 DEF EngineInv, TypeInv
<1>6. CASE /\ writer' = "swap" /\ UNCHANGED <<batch, faults, flushErr>>
           /\ \E id : id = clock + 1 /\ clock' = id /\ wal' = With(wal, id, <<>>) /\ nextWal' = id
  <2> PICK id : id = clock + 1 /\ clock' = id /\ wal' = With(wal, id, <<>>) /\ nextWal' = id
    BY Zenon, <1>6
  <2>1. /\ id \notin DOMAIN wal /\ id \in 1..id /\ 1..clock \subseteq 1..id /\ id \in Nat
        /\ id > activeWal
    BY <1>3 DEF EngineInv, TypeInv, FilesType
  <2>2. /\ wal' \in [DOMAIN wal' -> Seq(Nat)] /\ DOMAIN wal' = DOMAIN wal \cup {id}
        /\ wal'[id] = <<>> /\ \A n \in DOMAIN wal : wal'[n] = wal[n]
    <3>1. wal \in [DOMAIN wal -> Seq(Nat)] /\ <<>> \in Seq(Nat)
      BY Zenon, Lengths DEF EngineInv, TypeInv, FilesType
    <3> QED
      BY Zenon, <2>1, <3>1 DEF With
  <2>3. 1..Len(wal'[id]) = {}
    BY <2>2
  <2>a. Shrinks
    BY Zenon, <2>2, <2>3 DEF Shrinks
  <2>4. ~Sending'
    BY Zenon, <1>2, <1>6 DEF Writing, Sending
  <2>5. FilesType'
    BY Zenon, <1>1, <2>1, <2>2 DEF EngineInv, TypeInv, FilesType
  <2>6. HandleType'
    BY Zenon, <1>1, <2>1 DEF EngineInv, TypeInv, HandleType
  <2>7. WorkType'
    BY Zenon, <1>1, <1>6 DEF EngineInv, TypeInv, WorkType
  <2>8. LogsInv'
    <3>1. Logged' = Logged
      BY Zenon, <1>1, <1>6 DEF Logged
    <3> QED
      BY Zenon, <2>a, <3>1, FewerInOrder DEF EngineInv
  <2>9. DownInv' /\ ActiveInv'
    BY Zenon, <1>1, <1>2, <2>1, <2>2 DEF EngineInv, DownInv, ActiveInv
  <2>10. QueueInv'
    BY Zenon, <1>1, <1>2, <2>4 DEF EngineInv, QueueInv, Items
  <2>11. WriterInv'
    BY Zenon, <1>1, <1>2, <1>6, <2>1, <2>2 DEF EngineInv, WriterInv
  <2>12. CoverInv'
    BY Zenon, <1>1, <1>2, <2>a, FewerCovered DEF EngineInv, CoverInv
  <2>13. KeptInv'
    <3>1. Doomed' = Doomed /\ \A n \in DOMAIN wal : SafeLen(n)' = SafeLen(n)
      BY Zenon, <1>1, <2>2 DEF Doomed, SafeLen, SyncWrites
    <3> QED
      BY <1>1, <2>2, <3>1 DEF EngineInv, KeptInv, Kept
  <2>14. AckInv'
    BY Zenon, <1>1, <1>2 DEF EngineInv, AckInv, SyncWrites
  <2>15. \A n : Pending(n) => Pending(n)'
    BY Zenon, <1>1, <1>2 DEF Pending
  <2>16. PendingInv'
    BY Zenon, <1>1, <1>2, <1>6, <2>2, <2>15 DEF EngineInv, PendingInv, Writing
  <2> QED
    BY Zenon, <1>4, <2>5, <2>6, <2>7, <2>8, <2>9, <2>10, <2>11, <2>12, <2>13, <2>14, <2>16
       DEF EngineInv, TypeInv
<1> QED
  BY Zenon, <1>5, <1>6 DEF RotateCreate, Fault, NoFault, Name

\* The old log cannot be closed; the new one goes before anything is in it.
LEMMA RotateCloseFailsStep ==
  ASSUME EngineInv, RotateCloseFails
  PROVE  EngineInv'
<1> USE DEF files, dbVars, wrVars, flVars
<1>1. /\ writer = "swap" /\ writer' = "idle" /\ batch' = <<>> /\ walFile' = "closed"
      /\ flushErr' /\ faults' \in {faults, faults + 1} /\ wal' = Without(wal, nextWal)
      /\ UNCHANGED <<walStable, sst, cached, manifest, vlog, vlogStable, clock, phase, mems,
                     activeWal, walPaths, memBytes, immutable, flushCh, tables, nextWal, flVars,
                     writes, latest, acked, opts>>
  BY Zenon DEF RotateCloseFails, Fault
<1>2. /\ Writing /\ Up /\ Writing' /\ Up' /\ ~Sending /\ ~Sending'
      /\ nextWal \in DOMAIN wal /\ wal[nextWal] = <<>> /\ nextWal > activeWal
  BY Zenon, <1>1 DEF EngineInv, WriterInv, Writing, Up, Down, Sending
<1>3. activeWal \in DOMAIN wal /\ activeWal # nextWal
  <2>1. activeWal \in Nat /\ nextWal \in Nat
    BY Zenon DEF EngineInv, TypeInv, HandleType
  <2> QED
    BY <1>2, <2>1 DEF EngineInv, ActiveInv
<1>4. /\ wal' \in [DOMAIN wal' -> Seq(Nat)] /\ DOMAIN wal' = DOMAIN wal \ {nextWal}
      /\ \A n \in DOMAIN wal' : n \in DOMAIN wal /\ wal'[n] = wal[n]
  <2>1. wal \in [DOMAIN wal -> Seq(Nat)]
    BY Zenon DEF EngineInv, TypeInv, FilesType
  <2> QED
    BY Zenon, <1>1, <2>1 DEF Without, Restrict
<1>5. KeysInv' /\ LatestInv' /\ RefsInv' /\ HandleType'
  BY Zenon, <1>1, SameKeys, SameLatest, SameRefs, SameHandleType DEF EngineInv, TypeInv
<1>6. FilesType'
  BY Zenon, <1>1, <1>4 DEF EngineInv, TypeInv, FilesType
<1>7. WorkType'
  BY <1>1 DEF EngineInv, TypeInv, WorkType
<1>8. LogsInv'
  BY <1>1, <1>4 DEF EngineInv, LogsInv, Logged
<1>9. DownInv' /\ ActiveInv' /\ WriterInv' /\ PendingInv'
  BY Zenon, <1>1, <1>2, <1>3, <1>4 DEF EngineInv, DownInv, ActiveInv, WriterInv, PendingInv
<1>10. QueueInv'
  BY Zenon, <1>1, <1>2 DEF EngineInv, QueueInv, Items
<1>11. CoverInv'
  <2>1. Shrinks
    BY Zenon, <1>4 DEF Shrinks
  <2> QED
    BY Zenon, <1>1, <1>2, <2>1, FewerCovered DEF EngineInv, CoverInv
<1>12. KeptInv'
  <2>1. Doomed' = Doomed /\ \A n \in DOMAIN wal' : SafeLen(n)' = SafeLen(n)
    BY Zenon, <1>1, <1>4 DEF Doomed, SafeLen, SyncWrites
  <2>2. \A n \in DOMAIN wal : n \in DOMAIN wal' \/ 1..SafeLen(n) = {}
    BY <1>2, <1>3, <1>4 DEF SafeLen
  <2> QED
    BY <1>1, <1>4, <2>1, <2>2 DEF EngineInv, KeptInv, Kept
<1>13. AckInv'
  BY Zenon, <1>1, <1>2 DEF EngineInv, AckInv, SyncWrites
<1> QED
  BY Zenon, <1>5, <1>6, <1>7, <1>8, <1>9, <1>10, <1>11, <1>12, <1>13 DEF EngineInv, TypeInv

\* The memtable and its logs change hands together.
LEMMA RotateSwapStep ==
  ASSUME EngineInv, RotateSwap
  PROVE  EngineInv'
<1> USE DEF files, dbVars, wrVars, flVars
<1> PICK q : q = [mem |-> activeWal, paths |-> walPaths]
  BY Zenon
<1>1. /\ writer = "swap" /\ writer' = "send" /\ activeWal' = nextWal /\ walPaths' = <<nextWal>>
      /\ walStable' = 0 /\ memBytes' = 0 /\ mems' = With(mems, nextWal, EmptyTable)
      /\ immutable' = Append(immutable, q)
      /\ UNCHANGED <<wal, sst, cached, manifest, vlog, vlogStable, clock, phase, flushCh, tables,
                     flushErr, walFile, batch, nextWal, flVars, writes, latest, acked, faults,
                     opts>>
  BY Zenon DEF RotateSwap
<1>2. /\ Writing /\ Up /\ Writing' /\ Up' /\ ~Sending /\ Sending'
      /\ nextWal \in DOMAIN wal /\ wal[nextWal] = <<>> /\ nextWal > activeWal
  BY Zenon, <1>1 DEF EngineInv, WriterInv, Writing, Up, Down, Sending
<1>3. /\ activeWal \in Nat /\ nextWal \in Nat /\ activeWal # nextWal /\ q \in Item
      /\ q.mem = activeWal /\ q.paths = walPaths
  BY <1>2 DEF EngineInv, TypeInv, HandleType, Item
<1>4. /\ immutable' \in Seq(Item) /\ immutable' # <<>> /\ immutable'[Len(immutable')] = q
      /\ Range(immutable') = Range(immutable) \cup {q}
  BY <1>1, <1>3, RangeAppend DEF EngineInv, TypeInv, HandleType
<1>5. Range(walPaths') = {nextWal} /\ walPaths' \in Seq(Nat)
  BY <1>1, <1>3, RangeSmall
<1>6. EmptyTable \in Table /\ \A k \in Keys : EmptyTable[k].w = 0 /\ EmptyTable[k].off = 0
  BY Zenon DEF EmptyTable, NoEntry, Table
<1>7. /\ mems' \in [DOMAIN mems' -> Table] /\ DOMAIN mems' = DOMAIN mems \cup {nextWal}
      /\ mems'[nextWal] = EmptyTable /\ \A m \in DOMAIN mems : m # nextWal => mems'[m] = mems[m]
  <2>1. mems \in [DOMAIN mems -> Table]
    BY Zenon DEF EngineInv, TypeInv, HandleType
  <2> QED
    BY Zenon, <1>1, <1>6, <2>1 DEF With
<1>8. activeWal \in DOMAIN mems /\ mems'[activeWal] = mems[activeWal]
  BY Zenon, <1>2, <1>3, <1>7 DEF EngineInv, ActiveInv
<1>9. \A x \in Items : /\ x.mem \in DOMAIN mems /\ x.mem # nextWal /\ mems'[x.mem] = mems[x.mem]
                       /\ x.mem < activeWal /\ x.mem < nextWal /\ x.mem \in Nat
  <2>1. \A x \in Items : x.mem \in DOMAIN mems /\ x.mem < activeWal /\ x \in Item
    BY <1>2 DEF EngineInv, QueueInv, TypeInv, HandleType, Items, Range
  <2>2. \A x \in Items : x.mem # nextWal /\ x.mem < nextWal /\ x.mem \in Nat
    BY <1>2, <1>3, <2>1 DEF Item
  <2> QED
    BY Zenon, <1>7, <2>1, <2>2
<1>10. 1..Len(wal[nextWal]) = {} /\ walStable \in Nat
  BY <1>2 DEF EngineInv, TypeInv, FilesType
<1>11. FilesType' /\ WorkType'
  BY Zenon, <1>1 DEF EngineInv, TypeInv, FilesType, WorkType
<1>12. HandleType'
  <2>1. nextWal \in 1..clock
    BY Zenon, <1>2 DEF EngineInv, TypeInv, FilesType
  <2> QED
    BY Zenon, <1>1, <1>3, <1>4, <1>5, <1>7, <2>1 DEF EngineInv, TypeInv, HandleType
<1>13. KeysInv'
  <2>1. \A m \in DOMAIN mems', k \in Keys : mems'[m][k].w = 0 \/ (m \in DOMAIN mems /\ mems'[m] = mems[m])
    BY Zenon, <1>6, <1>7
  <2> QED
    BY <1>1, <2>1 DEF EngineInv, KeysInv, WriteTo
<1>14. LogsInv' /\ DownInv'
  BY <1>1, <1>2 DEF EngineInv, LogsInv, Logged, DownInv
<1>15. ActiveInv'
  <2>1. \A n \in DOMAIN wal : n <= nextWal \/ wal[n] = <<>>
    <3>1. \A n \in DOMAIN wal : n \in Nat /\ (n <= activeWal \/ wal[n] = <<>>)
      BY <1>2 DEF EngineInv, ActiveInv, TypeInv, FilesType
    <3> QED
      BY <1>2, <1>3, <3>1
  <2>2. nextWal <= nextWal /\ 0 <= Len(wal[nextWal])
    BY <1>2, <1>3
  <2> QED
    BY Zenon, <1>1, <1>2, <1>5, <1>7, <2>1, <2>2 DEF EngineInv, ActiveInv
<1>16. Items' = Items \cup {q}
  BY Zenon, <1>1, <1>4 DEF Items
<1>17. QueueInv'
  <2>1. /\ q.mem \in DOMAIN mems' /\ q.mem <= activeWal' /\ q.mem < activeWal' /\ q.paths # <<>>
        /\ \A p \in Range(q.paths) : p <= q.mem
    <3>1. activeWal < nextWal /\ activeWal <= nextWal
      BY <1>2, <1>3
    <3>2. walPaths # <<>> /\ \A p \in Range(walPaths) : p <= activeWal
      BY Zenon, <1>2, RangeSmall DEF EngineInv, ActiveInv
    <3> QED
      BY Zenon, <1>1, <1>3, <1>7, <1>8, <3>1, <3>2
  <2>2. ASSUME NEW x \in Items
        PROVE  /\ x.mem \in DOMAIN mems' /\ x.mem <= activeWal' /\ x.mem < activeWal'
               /\ x.paths # <<>> /\ \A p \in Range(x.paths) : p <= x.mem
    <3>1. x.mem <= nextWal
      BY <1>3, <1>9
    <3> QED
      BY Zenon, <1>1, <1>7, <1>9, <3>1 DEF EngineInv, QueueInv
  <2>3. /\ \A x \in Range(flushCh) : x.mem < q.mem
        /\ flusher # "idle" => flushing.mem < q.mem /\ flushing \in Items
    BY Zenon, <1>3, <1>9 DEF Items
  <2>4. flusher = "install" => flushed \in DOMAIN sst /\ sst[flushed] = mems'[flushing.mem]
    BY Zenon, <1>9, <2>3 DEF EngineInv, QueueInv
  <2> QED
    BY Zenon, <1>1, <1>4, <1>16, <2>1, <2>2, <2>3, <2>4 DEF QueueInv
<1>18. WriterInv'
  BY Zenon, <1>1, <1>2 DEF EngineInv, WriterInv
<1>19. LatestInv' /\ RefsInv'
  <2>1. \A m \in DOMAIN mems' : m = nextWal \/ (m \in DOMAIN mems /\ mems'[m] = mems[m])
    BY Zenon, <1>7
  <2>2. \A k \in Keys : mems'[nextWal][k].w <= latest[k] /\ mems'[nextWal][k].off = 0
    BY <1>6, <1>7 DEF EngineInv, TypeInv, WorkType
  <2>3. flusher # "idle" => mems'[flushing.mem] = mems[flushing.mem]
    BY <1>9 DEF Items
  <2>4. LatestInv'
    BY Zenon, <1>1, <2>1, <2>2 DEF EngineInv, LatestInv
  <2> QED
    BY <1>1, <2>1, <2>2, <2>3, <2>4 DEF EngineInv, RefsInv, Resolves
<1>20. CoverInv'
  <2>1. Shrinks
    BY Zenon, <1>1 DEF Shrinks
  <2>2. Covers(nextWal, <<nextWal>>)'
    BY Zenon, <1>1, <1>5, <1>10 DEF Covers, InLog
  <2>3. Covers(q.mem, q.paths)'
    BY Zenon, <1>1, <1>2, <1>3, <1>8, <2>1, FewerCovered DEF EngineInv, CoverInv
  <2>4. \A x \in Range(immutable) \cup Range(flushCh) : Covers(x.mem, x.paths)'
    BY Zenon, <1>1, <1>2, <1>9, <2>1, FewerCovered DEF EngineInv, CoverInv, Items
  <2>5. flusher \in {"write", "install"} => Covers(flushing.mem, flushing.paths)'
    BY Zenon, <1>1, <1>2, <1>9, <2>1, FewerCovered DEF EngineInv, CoverInv, Items
  <2> QED
    BY Zenon, <1>1, <1>4, <2>2, <2>3, <2>4, <2>5 DEF CoverInv
<1>21. KeptInv'
  <2>1. Doomed' = Doomed /\ \A n \in DOMAIN wal : 1..SafeLen(n) \subseteq 1..SafeLen(n)'
    <3>1. Doomed' = Doomed
      BY Zenon, <1>1 DEF Doomed
    <3>2. activeWal \in DOMAIN wal => walStable <= Len(wal[activeWal])
      BY Zenon, <1>2 DEF EngineInv, ActiveInv
    <3>3. \A n \in DOMAIN wal : Len(wal[n]) \in Nat
      BY Zenon, Lengths DEF EngineInv, TypeInv, FilesType
    <3>4. ASSUME NEW n \in DOMAIN wal PROVE 1..SafeLen(n) \subseteq 1..SafeLen(n)'
      <4>1. CASE n = nextWal
        <5>1. SafeLen(n) = Len(wal[n])
          BY Zenon, <1>3, <4>1 DEF SafeLen
        <5> QED
          BY Zenon, <1>10, <4>1, <5>1
      <4>2. CASE n # nextWal
        <5>1. SafeLen(n)' = Len(wal[n])
          BY Zenon, <1>1, <4>2 DEF SafeLen
        <5>2. SafeLen(n) = Len(wal[n]) \/ (SafeLen(n) = walStable /\ walStable <= Len(wal[n]))
          BY Zenon, <3>2 DEF SafeLen
        <5> QED
          BY <1>10, <3>3, <5>1, <5>2
      <4> QED
        BY Zenon, <4>1, <4>2
    <3> QED
      BY Zenon, <3>1, <3>4
  <2> QED
    BY Zenon, <1>1, <2>1 DEF EngineInv, KeptInv, Kept
<1>22. AckInv'
  BY Zenon, <1>1, <1>2 DEF EngineInv, AckInv, SyncWrites
<1>23. \A n : Pending(n) => Pending(n)'
  BY Zenon, <1>1, <1>2, <1>3, <1>4 DEF Pending
<1>24. PendingInv'
  BY Zenon, <1>1, <1>2, <1>5, <1>23 DEF EngineInv, PendingInv
<1> QED
  BY Zenon, <1>11, <1>12, <1>13, <1>14, <1>15, <1>17, <1>18, <1>19, <1>20, <1>21, <1>22, <1>24
     DEF EngineInv, TypeInv

-----------------------------------------------------------------------------
(* Close and Crash *)

\* Close makes the last memtable immutable, or finds that it has none to flush.
LEMMA CloseMemtableStep ==
  ASSUME EngineInv, CloseMemtable
  PROVE  EngineInv'
<1> USE DEF files, dbVars, wrVars, flVars
<1>1. /\ phase = "stopping" /\ writer = "idle"
      /\ UNCHANGED <<sst, cached, manifest, vlog, vlogStable, clock, mems, activeWal, walPaths,
                     memBytes, flushCh, tables, walFile, wrVars, flVars, writes, latest,
                     acked, opts>>
  BY Zenon DEF CloseMemtable
<1>2. (flushErr => flushErr') /\ (faults' = faults \/ faults' = faults + 1)
  BY Zenon DEF CloseMemtable, Fault
<1>3. /\ Writing /\ Up /\ ~Sending /\ activeWal \in DOMAIN wal /\ activeWal \in DOMAIN mems
      /\ activeWal \in Range(walPaths) /\ \A p \in Range(walPaths) : p <= activeWal
  BY Zenon, <1>1 DEF EngineInv, Writing, Up, Down, Sending, ActiveInv
<1>4. activeWal \in Nat /\ walStable \in Nat /\ \A n \in DOMAIN wal : Len(wal[n]) \in Nat
  BY DEF EngineInv, TypeInv, HandleType, FilesType
<1>5. KeysInv' /\ RefsInv' /\ WorkType'
  <2>1. faults' \in Nat
    BY <1>2 DEF EngineInv, TypeInv, WorkType
  <2> QED
    BY Zenon, <1>1, <2>1, SameKeys, SameRefs DEF EngineInv, TypeInv, WorkType
<1>6. CASE /\ immutable' = Append(immutable, [mem |-> activeWal, paths |-> walPaths])
           /\ walStable' \in {walStable, Len(wal[activeWal])} /\ wal' = wal
           /\ phase' = "sending"
  <2> PICK q : q = [mem |-> activeWal, paths |-> walPaths]
    BY Zenon
  <2>1. Up' /\ ~Writing' /\ Sending'
    BY Zenon, <1>6 DEF Up, Writing, Sending, Down
  <2>2. q \in Item /\ q.mem = activeWal /\ q.paths = walPaths
    BY Zenon DEF EngineInv, TypeInv, HandleType, Item
  <2>3. /\ immutable' \in Seq(Item) /\ immutable' # <<>> /\ immutable'[Len(immutable')] = q
        /\ Range(immutable') = Range(immutable) \cup {q}
    BY <1>6, <2>2, RangeAppend DEF EngineInv, TypeInv, HandleType
  <2>4. walStable' \in Nat /\ walStable <= walStable' /\ walStable' <= Len(wal[activeWal])
    BY <1>3, <1>4, <1>6 DEF EngineInv, ActiveInv
  <2>5. FilesType' /\ HandleType'
    BY Zenon, <1>1, <1>6, <2>3, <2>4 DEF EngineInv, TypeInv, FilesType, HandleType
  <2>6. LogsInv' /\ DownInv' /\ WriterInv'
    <3>1. LogsInv'
      BY Zenon, <1>1, <1>6, SameLogs DEF EngineInv
    <3> QED
      BY Zenon, <1>1, <1>6, <2>1, <3>1 DEF DownInv, WriterInv
  <2>7. ActiveInv'
    BY Zenon, <1>1, <1>3, <1>6, <2>1, <2>4 DEF EngineInv, ActiveInv
  <2>8. Items' = Items \cup {q}
    BY Zenon, <1>1, <2>3 DEF Items
  <2>9. QueueInv'
    <3>1. q.paths # <<>> /\ q.mem <= activeWal
      BY Zenon, <1>3, <1>4, <2>2, RangeSmall
    <3>2. \A x \in Items : x.mem < activeWal
      BY Zenon, <1>3 DEF EngineInv, QueueInv
    <3>3. \A x \in Range(flushCh) : x.mem < q.mem
      BY Zenon, <2>2, <3>2 DEF Items
    <3>4. flusher # "idle" => flushing.mem < q.mem
      BY Zenon, <2>2, <3>2 DEF Items
    <3> QED
      BY Zenon, <1>1, <1>3, <2>1, <2>2, <2>3, <2>8, <3>1, <3>3, <3>4 DEF EngineInv, QueueInv
  <2>10. LatestInv' /\ AckInv'
    BY Zenon, <1>1, <1>3, <1>6, <2>1 DEF EngineInv, LatestInv, AckInv, SyncWrites
  <2>11. CoverInv'
    <3>1. Shrinks
      BY Zenon, <1>6 DEF Shrinks
    <3>2. \A m, ps : Covers(m, ps) => Covers(m, ps)'
      BY Zenon, <1>1, <3>1, FewerCovered
    <3>3. /\ Covers(activeWal, walPaths)
          /\ \A x \in Range(immutable) \cup Range(flushCh) : Covers(x.mem, x.paths)
          /\ flusher \in {"write", "install"} => Covers(flushing.mem, flushing.paths)
      BY Zenon, <1>3 DEF EngineInv, CoverInv
    <3> QED
      BY Zenon, <1>1, <2>1, <2>2, <2>3, <3>2, <3>3 DEF CoverInv
  <2>12. KeptInv'
    <3>1. Doomed' = Doomed /\ \A n \in DOMAIN wal : 1..SafeLen(n) \subseteq 1..SafeLen(n)'
      BY <1>1, <1>4, <1>6, <2>4 DEF Doomed, SafeLen, SyncWrites
    <3> QED
      BY Zenon, <1>1, <1>6, <3>1 DEF EngineInv, KeptInv, Kept
  <2>13. \A n : Pending(n) => Pending(n)'
    BY Zenon, <1>1, <1>3, <2>1, <2>2, <2>3 DEF Pending
  <2>14. PendingInv'
    BY Zenon, <1>1, <1>3, <1>6, <1>2, <2>1, <2>13 DEF EngineInv, PendingInv
  <2> QED
    BY Zenon, <1>5, <2>5, <2>6, <2>7, <2>9, <2>10, <2>11, <2>12, <2>14 DEF EngineInv, TypeInv
<1>7. CASE /\ mems[activeWal] = EmptyTable /\ wal' = Without(wal, activeWal)
           /\ walStable' \in {walStable, Len(wal[activeWal])}
           /\ phase' = "draining" /\ UNCHANGED immutable
  <2>1. Up' /\ ~Writing' /\ ~Sending'
    BY Zenon, <1>1, <1>7 DEF Up, Writing, Sending, Down
  <2>2. /\ wal' \in [DOMAIN wal' -> Seq(Nat)] /\ DOMAIN wal' = DOMAIN wal \ {activeWal}
        /\ \A n \in DOMAIN wal' : n \in DOMAIN wal /\ wal'[n] = wal[n]
    <3>1. wal \in [DOMAIN wal -> Seq(Nat)]
      BY Zenon DEF EngineInv, TypeInv, FilesType
    <3> QED
      BY Zenon, <1>7, <3>1 DEF Without, Restrict
  <2>3. Shrinks
    BY Zenon, <2>2 DEF Shrinks
  <2>4. FilesType' /\ HandleType'
    BY Zenon, <1>1, <1>3, <1>4, <1>7, <2>2 DEF EngineInv, TypeInv, FilesType, HandleType
  <2>5. LogsInv'
    <3>1. Logged' = Logged
      BY Zenon, <1>1 DEF Logged
    <3> QED
      BY Zenon, <2>3, <3>1, FewerInOrder DEF EngineInv
  <2>6. DownInv' /\ WriterInv'
    BY Zenon, <1>1, <2>1 DEF EngineInv, DownInv, WriterInv
  <2>7. ActiveInv'
    BY Zenon, <1>1, <1>3, <1>7, <2>1, <2>2 DEF EngineInv, ActiveInv
  <2>8. QueueInv'
    BY Zenon, <1>1, <1>3, <1>7, <2>1 DEF EngineInv, QueueInv, Items
  <2>9. LatestInv' /\ AckInv'
    BY Zenon, <1>1, <1>3, <1>7, <2>1 DEF EngineInv, LatestInv, AckInv, SyncWrites
  <2>10. CoverInv'
    <3>1. \A m, ps : Covers(m, ps) => Covers(m, ps)'
      BY Zenon, <1>1, <2>3, FewerCovered
    <3> QED
      BY Zenon, <1>1, <1>3, <1>7, <2>1, <3>1 DEF EngineInv, CoverInv
  <2>11. KeptInv'
    <3> SUFFICES ASSUME NEW k \in Keys, latest[k] # 0 PROVE Kept(k)'
      BY Zenon, <1>1 DEF KeptInv
    <3>1. Kept(k)
      BY Zenon, <1>1 DEF EngineInv, KeptInv
    <3>2. mems[activeWal][k].w = 0
      BY <1>7 DEF EmptyTable, NoEntry
    <3>3. ~InLog(activeWal, latest[k])
      BY Zenon, <1>3, <3>2 DEF EngineInv, CoverInv, Covers
    <3>4. ~\E i \in 1..SafeLen(activeWal) : wal[activeWal][i] = latest[k]
      <4>1. 1..SafeLen(activeWal) \subseteq 1..Len(wal[activeWal])
        BY <1>3, <1>4 DEF SafeLen, EngineInv, ActiveInv
      <4> QED
        BY Zenon, <3>3, <4>1 DEF InLog
    <3>5. Doomed' = Doomed /\ \A n \in DOMAIN wal' : SafeLen(n)' = SafeLen(n)
      BY Zenon, <1>1, <1>7, <2>2 DEF Doomed, SafeLen, SyncWrites
    <3> QED
      BY Zenon, <1>1, <2>2, <3>1, <3>4, <3>5 DEF Kept
  <2>12. PendingInv'
    <3> SUFFICES ASSUME ~flushErr, NEW n \in DOMAIN wal', wal'[n] # <<>> PROVE Pending(n)'
      BY Zenon, <1>1, <1>7, <1>2, <2>1 DEF PendingInv
    <3>1. n \in DOMAIN wal /\ wal[n] # <<>>
      BY Zenon, <2>2
    <3>2. Pending(n) /\ n \notin Range(walPaths)
      BY Zenon, <1>1, <1>3, <1>7, <3>1 DEF EngineInv, PendingInv
    <3> QED
      BY Zenon, <1>1, <1>3, <3>2 DEF Pending
  <2> QED
    BY Zenon, <1>5, <2>4, <2>5, <2>6, <2>7, <2>8, <2>9, <2>10, <2>11, <2>12 DEF EngineInv, TypeInv
<1>8. CASE /\ wal' = wal /\ walStable' \in {walStable, Len(wal[activeWal])} /\ flushErr'
           /\ phase' = "draining" /\ UNCHANGED immutable
  <2>1. Up' /\ ~Writing' /\ ~Sending'
    BY Zenon, <1>1, <1>8 DEF Up, Writing, Sending, Down
  <2>2. walStable' \in Nat /\ walStable <= walStable' /\ walStable' <= Len(wal[activeWal])
    BY <1>3, <1>4, <1>8 DEF EngineInv, ActiveInv
  <2>3. FilesType' /\ HandleType'
    BY Zenon, <1>1, <1>8, <2>2 DEF EngineInv, TypeInv, FilesType, HandleType
  <2>4. LogsInv' /\ DownInv' /\ WriterInv'
    <3>1. LogsInv'
      BY Zenon, <1>1, <1>8, SameLogs DEF EngineInv
    <3> QED
      BY Zenon, <1>1, <2>1, <3>1 DEF DownInv, WriterInv
  <2>5. ActiveInv' /\ QueueInv'
    BY Zenon, <1>1, <1>3, <1>8, <2>1, <2>2 DEF EngineInv, ActiveInv, QueueInv, Items
  <2>6. LatestInv' /\ AckInv' /\ CoverInv'
    BY Zenon, <1>1, <1>3, <1>8, <2>1, SameCovers
       DEF EngineInv, LatestInv, AckInv, CoverInv, SyncWrites
  <2>7. KeptInv'
    <3>1. Doomed' = Doomed /\ \A n \in DOMAIN wal : 1..SafeLen(n) \subseteq 1..SafeLen(n)'
      BY <1>1, <1>4, <1>8, <2>2 DEF Doomed, SafeLen, SyncWrites
    <3> QED
      BY Zenon, <1>1, <1>8, <3>1 DEF EngineInv, KeptInv, Kept
  <2>8. PendingInv'
    BY Zenon, <1>8 DEF PendingInv
  <2> QED
    BY Zenon, <1>5, <2>3, <2>4, <2>5, <2>6, <2>7, <2>8 DEF EngineInv, TypeInv
<1> QED
  BY Zenon, <1>6, <1>7, <1>8 DEF CloseMemtable, Fault

\* An acknowledged synchronous write survives in logs with all safe records.
LEMMA AckedSurvives ==
  ASSUME EngineInv, Up, SyncWrites, NEW k \in Keys, acked[k] # 0, NEW logs,
         \A n \in DOMAIN wal : n \in DOMAIN logs /\ \A i \in 1..SafeLen(n) : wal[n][i] \in Range(logs[n])
  PROVE  \E w \in Surviving(logs, k) : w >= acked[k]
<1>1. acked[k] \in Nat /\ latest[k] \in Nat /\ acked[k] <= latest[k]
  BY Zenon DEF EngineInv, TypeInv, WorkType, AckInv
<1>2. latest[k] # 0 /\ latest[k] >= acked[k]
  BY <1>1
<1>3. latest[k] \in 1..Len(writes) /\ writes[latest[k]].key = k
  BY Zenon, <1>2 DEF EngineInv, KeysInv, WriteTo
<1>4. Kept(k)
  BY Zenon, <1>2 DEF EngineInv, KeptInv, Up, Down
<1>5. \/ \E n \in DOMAIN logs : latest[k] \in Range(logs[n])
      \/ \E t \in manifest : sst[t][k].w = latest[k]
  BY Zenon, <1>4 DEF Kept
<1>6. latest[k] \in Surviving(logs, k)
  BY Zenon, <1>3, <1>5 DEF Surviving
<1> QED
  BY Zenon, <1>2, <1>6

\* The memory of a process that ends: nothing is left to be in order.
LEMMA ForgetStep ==
  ASSUME EngineInv, Forget, phase' \in Down, walStable' = 0,
         faults' \in Nat, UNCHANGED <<manifest, clock, writes, latest, acked, opts>>
  PROVE  /\ HandleType' /\ WorkType' /\ DownInv' /\ ActiveInv' /\ QueueInv' /\ WriterInv'
         /\ CoverInv'
<1>1. /\ mems' = <<>> /\ activeWal' = 0 /\ walPaths' = <<>> /\ memBytes' = 0
      /\ immutable' = <<>> /\ flushCh' = <<>> /\ ~flushErr' /\ walFile' = "open"
      /\ writer' = "idle" /\ batch' = <<>> /\ nextWal' = 0 /\ flusher' = "idle"
      /\ flushing' = [mem |-> 0, paths |-> <<>>] /\ flushed' = 0
  BY Zenon DEF Forget
<1>2. ~Up' /\ ~Sending'
  BY Zenon, <1>1 DEF Up, Down, Sending
<1>3. HandleType'
  <2>1. mems' \in [DOMAIN mems' -> Table] /\ DOMAIN mems' = {} /\ flushing' \in Item
    BY <1>1 DEF Item
  <2> QED
    BY <1>1, <2>1 DEF EngineInv, TypeInv, FilesType, HandleType, Down
<1>4. WorkType'
  BY <1>1 DEF EngineInv, TypeInv, WorkType
<1>5. DownInv' /\ ActiveInv' /\ CoverInv' /\ WriterInv'
  BY Zenon, <1>1, <1>2 DEF DownInv, ActiveInv, CoverInv, WriterInv
<1>6. QueueInv'
  BY Zenon, <1>1, <1>2, RangeSmall DEF QueueInv, Items
<1> QED
  BY Zenon, <1>3, <1>4, <1>5, <1>6

\* After Close returns nil no log has a record.
LEMMA CloseStorageStep ==
  ASSUME EngineInv, CloseStorage
  PROVE  EngineInv'
<1> USE DEF files
<1>1. /\ phase = "draining" /\ flushCh = <<>> /\ flusher = "idle"
      /\ phase' \in Down /\ (phase' = "closed" => ~flushErr)
      /\ vlogStable' \in {vlogStable, Len(vlog)} /\ walStable' = 0 /\ Forget
      /\ faults' \in {faults, faults + 1}
      /\ UNCHANGED <<wal, sst, cached, manifest, vlog, clock, writes, latest, acked, opts>>
  BY Zenon DEF CloseStorage, SyncValueLog, Down
<1>2. phase' \in Down /\ ~Up' /\ Up /\ ~Writing /\ ~Sending /\ writer = "idle"
  BY Zenon, <1>1 DEF EngineInv, Down, Up, Writing, WriterInv, Sending
<1>3. /\ HandleType' /\ WorkType' /\ DownInv' /\ ActiveInv' /\ QueueInv' /\ WriterInv'
      /\ CoverInv'
  <2>1. faults' \in Nat
    BY <1>1 DEF EngineInv, TypeInv, WorkType
  <2> QED
    BY Zenon, <1>1, <1>2, <2>1, ForgetStep
<1>4. DOMAIN mems' = {} /\ activeWal' = 0 /\ flusher' = "idle" /\ writer' = "idle"
  BY <1>1 DEF Forget
<1>5. FilesType'
  BY Zenon, <1>1, Lengths DEF EngineInv, TypeInv, FilesType
<1>6. KeysInv' /\ LogsInv' /\ LatestInv'
  BY <1>1, <1>2, <1>4 DEF EngineInv, KeysInv, WriteTo, LogsInv, Logged, LatestInv
<1>7. KeptInv'
  <2>1. Doomed = {} /\ Doomed' = {}
    BY Zenon, <1>1, <1>4 DEF Doomed
  <2>2. \A n \in DOMAIN wal : n # 0 /\ Len(wal[n]) \in Nat
    BY Zenon, Lengths DEF EngineInv, TypeInv, FilesType
  <2>3. \A n \in DOMAIN wal : 1..SafeLen(n) \subseteq 1..SafeLen(n)'
    BY <1>1, <1>2, <1>4, <2>2 DEF SafeLen, SyncWrites, EngineInv, ActiveInv, TypeInv, FilesType
  <2> QED
    BY Zenon, <1>1, <2>1, <2>3 DEF EngineInv, KeptInv, Kept
<1>8. AckInv'
  <2> SUFFICES ASSUME SyncWrites, NEW k \in Keys, acked[k] # 0
               PROVE  \E w \in Surviving(wal, k) : w >= acked[k]
    BY <1>1, <1>2 DEF AckInv, SyncWrites, Surviving
  <2>1. \A n \in DOMAIN wal : \A i \in 1..SafeLen(n) : wal[n][i] \in Range(wal[n])
    <3>1. \A n \in DOMAIN wal : wal[n] \in Seq(Nat) /\ DOMAIN wal[n] = 1..Len(wal[n])
      BY Zenon, Lengths DEF EngineInv, TypeInv, FilesType
    <3>2. \A n \in DOMAIN wal : 1..SafeLen(n) \subseteq 1..Len(wal[n])
      BY <1>2, <3>1 DEF SafeLen, EngineInv, ActiveInv, TypeInv, FilesType
    <3> QED
      BY Zenon, <3>1, <3>2 DEF Range
  <2> QED
    BY Zenon, <1>2, <2>1, AckedSurvives
<1>9. RefsInv'
  <2>1. \A t \in manifest, k \in Keys : sst[t][k].off # 0 =>
          sst[t][k].off <= vlogStable' /\ Resolves(sst[t][k])
    BY Zenon, <1>1 DEF EngineInv, RefsInv, Resolves
  <2>2. vlogStable' <= Len(vlog)
    <3>1. Len(vlog) \in Nat /\ vlogStable <= Len(vlog)
      BY DEF EngineInv, RefsInv, TypeInv, FilesType
    <3> QED
      BY <1>1, <3>1
  <2> QED
    BY Zenon, <1>1, <1>4, <2>1, <2>2 DEF RefsInv, Resolves
<1>10. PendingInv'
  <2> SUFFICES ASSUME phase' = "closed", NEW n \in DOMAIN wal PROVE wal[n] = <<>>
    BY Zenon, <1>1, <1>2 DEF PendingInv, Writing, Down
  <2>1. ~flushErr /\ Range(flushCh) = {}
    BY Zenon, <1>1, RangeSmall
  <2>2. wal[n] = <<>> \/ Pending(n)
    BY Zenon, <1>1, <1>2, <2>1 DEF EngineInv, PendingInv
  <2> QED
    BY Zenon, <1>1, <1>2, <2>1, <2>2 DEF Pending
<1> QED
  BY Zenon, <1>3, <1>5, <1>6, <1>7, <1>8, <1>9, <1>10 DEF EngineInv, TypeInv

\* A crash keeps the fsynced records of the active log and of the value log.
LEMMA CrashStep ==
  ASSUME EngineInv, Crash
  PROVE  EngineInv'
<1> USE DEF files
<1>1. /\ phase \notin Down /\ phase' = "down" /\ walStable' = 0 /\ cached' = {} /\ Forget
      /\ UNCHANGED <<manifest, vlogStable, clock, writes, latest, acked, faults, opts>>
  BY Zenon DEF Crash
<1>2. phase' \in Down /\ ~Up' /\ Up
  BY Zenon, <1>1 DEF Down, Up
<1>3. /\ HandleType' /\ WorkType' /\ DownInv' /\ ActiveInv' /\ QueueInv' /\ WriterInv'
      /\ CoverInv'
  <2>1. faults' \in Nat
    BY Zenon, <1>1 DEF EngineInv, TypeInv, WorkType
  <2> QED
    BY Zenon, <1>1, <1>2, <2>1, ForgetStep
<1>4. /\ DOMAIN mems' = {} /\ activeWal' = 0 /\ flusher' = "idle" /\ writer' = "idle"
      /\ ~flushErr'
  BY <1>1 DEF Forget
<1>5. sst' = sst
  <2>1. cached = {} /\ sst \in [DOMAIN sst -> Table]
    BY Zenon DEF EngineInv, TypeInv, FilesType
  <2>2. PICK lost \in SUBSET cached : sst' = Restrict(sst, DOMAIN sst \ lost)
    BY Zenon DEF Crash
  <2>3. DOMAIN sst \ lost = DOMAIN sst
    BY Zenon, <2>1
  <2> QED
    BY Zenon, <2>1, <2>2, <2>3 DEF Restrict
<1>6. /\ vlog' \in Seq(Nat) /\ vlogStable <= Len(vlog')
      /\ \A i \in 1..vlogStable : vlog'[i] = vlog[i]
  <2>1. vlog \in Seq(Nat) /\ vlogStable \in Nat /\ vlogStable <= Len(vlog)
    BY Zenon DEF EngineInv, TypeInv, FilesType, RefsInv
  <2>2. PICK n \in vlogStable..Len(vlog) : vlog' = SubSeq(vlog, 1, n)
    BY Zenon DEF Crash, ScanSegment, Truncate
  <2> QED
    BY <2>1, <2>2
<1>7. /\ wal' \in [DOMAIN wal -> Seq(Nat)] /\ DOMAIN wal' = DOMAIN wal /\ Shrinks
      /\ SyncWrites => \A n \in DOMAIN wal : \A i \in 1..SafeLen(n) : wal[n][i] \in Range(wal'[n])
  <2>1. wal \in [DOMAIN wal -> Seq(Nat)] /\ walStable \in Nat
    BY Zenon DEF EngineInv, TypeInv, FilesType
  <2>2. \A n \in DOMAIN wal : wal[n] \in Seq(Nat) /\ DOMAIN wal[n] = 1..Len(wal[n])
    BY <2>1
  <2>3. CASE activeWal \notin DOMAIN wal
    <3>1. wal' = wal
      BY Zenon, <2>3 DEF Crash
    <3>2. SyncWrites => \A n \in DOMAIN wal : SafeLen(n) = Len(wal[n])
      BY Zenon, <2>3 DEF SafeLen
    <3> QED
      BY Zenon, <2>1, <2>2, <3>1, <3>2 DEF Shrinks, Range
  <2>4. CASE activeWal \in DOMAIN wal
    <3> PICK s : s = wal[activeWal]
      BY Zenon
    <3>1. PICK log \in ReplayWAL(wal[activeWal], walStable) :
                 wal' = [wal EXCEPT ![activeWal] = log]
      BY Zenon, <2>4 DEF Crash
    <3>2. PICK n \in walStable..Len(s) : log = SubSeq(s, 1, n)
      BY Zenon, <3>1 DEF ReplayWAL
    <3>3. s \in Seq(Nat) /\ walStable <= Len(s) /\ Len(s) \in Nat /\ n \in Nat
      BY <1>2, <2>1, <2>2, <2>4, <3>2 DEF EngineInv, ActiveInv
    <3>4. /\ log \in Seq(Nat) /\ DOMAIN log = 1..n /\ Len(log) = n /\ n <= Len(s)
          /\ \A i \in 1..n : log[i] = s[i]
      BY <3>2, <3>3
    <3>5. /\ wal' \in [DOMAIN wal -> Seq(Nat)] /\ DOMAIN wal' = DOMAIN wal
          /\ wal'[activeWal] = log /\ \A m \in DOMAIN wal : m # activeWal => wal'[m] = wal[m]
      BY Zenon, <2>1, <2>4, <3>1, <3>4
    <3>6. 1..n \subseteq 1..Len(s) /\ 1..walStable \subseteq 1..n
      BY <2>1, <3>2, <3>3
    <3>7. Shrinks
      BY Zenon, <3>4, <3>5, <3>6 DEF Shrinks
    <3>8. SyncWrites => 1..SafeLen(activeWal) = 1..walStable
      BY Zenon DEF SafeLen
    <3>9. SyncWrites => \A m \in DOMAIN wal \ {activeWal} : 1..SafeLen(m) = DOMAIN wal[m]
      BY Zenon, <2>2 DEF SafeLen
    <3>10. \A i \in 1..walStable : i \in DOMAIN log /\ s[i] = log[i]
      BY Zenon, <3>4, <3>6
    <3>11. SyncWrites => \A i \in 1..SafeLen(activeWal) : wal[activeWal][i] \in Range(wal'[activeWal])
      BY Zenon, <3>5, <3>8, <3>10 DEF Range
    <3>12. SyncWrites => \A m \in DOMAIN wal \ {activeWal} :
                           \A i \in 1..SafeLen(m) : wal[m][i] \in Range(wal'[m])
      BY Zenon, <3>5, <3>9 DEF Range
    <3> QED
      BY Zenon, <3>5, <3>7, <3>11, <3>12
  <2> QED
    BY Zenon, <2>3, <2>4
<1>8. FilesType'
  BY Zenon, <1>1, <1>5, <1>6, <1>7 DEF EngineInv, TypeInv, FilesType
<1>9. KeysInv' /\ LatestInv' /\ KeptInv' /\ PendingInv'
  BY <1>1, <1>2, <1>4, <1>5 DEF EngineInv, KeysInv, WriteTo, LatestInv, KeptInv, PendingInv, Writing
<1>10. LogsInv'
  <2>1. 1..Logged \subseteq 1..Logged'
    BY <1>1, <1>4 DEF Logged, EngineInv, TypeInv, FilesType, WorkType
  <2> QED
    BY Zenon, <1>7, <2>1, FewerInOrder DEF EngineInv
<1>11. AckInv'
  <2> SUFFICES ASSUME SyncWrites, NEW k \in Keys, acked[k] # 0
               PROVE  \E w \in Surviving(wal', k) : w >= acked[k]
    <3>1. \A k \in Keys : Surviving(wal, k)' = Surviving(wal', k)
      BY Zenon, <1>1, <1>5 DEF Surviving
    <3> QED
      BY Zenon, <1>1, <1>2, <3>1 DEF AckInv, SyncWrites
  <2> PICK logs : logs = wal'
    BY Zenon
  <2>1. \A n \in DOMAIN wal : n \in DOMAIN logs /\ \A i \in 1..SafeLen(n) : wal[n][i] \in Range(logs[n])
    BY Zenon, <1>7
  <2>2. \E w \in Surviving(logs, k) : w >= acked[k]
    BY Zenon, <1>2, <2>1, AckedSurvives
  <2> QED
    BY Zenon, <2>2
<1>12. RefsInv'
  <2>1. \A t \in manifest, k \in Keys : sst[t][k].off \in Nat
    BY Zenon DEF EngineInv, TypeInv, FilesType, Table
  <2>2. ASSUME NEW t \in manifest, NEW k \in Keys, sst[t][k].off # 0
        PROVE  sst[t][k].off <= vlogStable /\ Resolves(sst[t][k])'
    <3>1. sst[t][k].off <= vlogStable /\ vlog[sst[t][k].off] = sst[t][k].w
      BY Zenon, <2>2 DEF EngineInv, RefsInv, Resolves
    <3>2. vlogStable \in Nat /\ Len(vlog') \in Nat /\ sst[t][k].off \in 1..vlogStable
      BY <1>6, <2>1, <2>2, <3>1 DEF EngineInv, TypeInv, FilesType
    <3> QED
      BY <1>5, <1>6, <3>1, <3>2 DEF Resolves
  <2> QED
    BY Zenon, <1>1, <1>4, <1>5, <1>6, <2>2 DEF RefsInv
<1> QED
  BY Zenon, <1>3, <1>8, <1>9, <1>10, <1>11, <1>12 DEF EngineInv, TypeInv
=============================================================================
