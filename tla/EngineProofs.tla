---------------------------- MODULE EngineProofs ----------------------------
(***************************************************************************)
(* The engine's invariant when a table is installed and when openDB        *)
(* replays the logs, and what it says of the files at any moment.          *)
(***************************************************************************)
EXTENDS EngineWrites

-----------------------------------------------------------------------------
(* installFlushedTable *)

\* db.immutable loses the flushed memtable only: its last one stays the last
\* when that is another one.
LEMMA UnflushedIs ==
  ASSUME immutable \in Seq(Item)
  PROVE  /\ Unflushed \in Seq(Item) /\ Range(Unflushed) \subseteq Range(immutable)
         /\ immutable # <<>> /\ immutable[Len(immutable)].mem # flushing.mem =>
              Unflushed # <<>> /\ Unflushed[Len(Unflushed)] = immutable[Len(immutable)]
<1> DEFINE I == {i \in 1..Len(immutable) : immutable[i].mem # flushing.mem}
<1>1. I \subseteq 1..Len(immutable) /\ Unflushed = ElementsAt(immutable, I)
  BY Zenon DEF Unflushed
<1>0. \A i \in 1..Len(immutable) : immutable[i].mem # flushing.mem <=> i \in I
  BY Zenon
<1> HIDE DEF I
<1> PICK u, L, c : u = Unflushed /\ L = Len(immutable) /\ c = Cardinality(I)
  BY Zenon
<1>2. c \in Nat /\ u \in Seq(Item) /\ Len(u) = c
  BY Zenon, <1>1, ElementsAtIs
<1>4. DOMAIN u = 1..c /\ DOMAIN immutable = 1..L /\ L \in Nat
  BY <1>2
<1>5. \A j \in 1..c : \E i \in 1..L : u[j] = immutable[i]
  <2> TAKE j \in 1..c
  <2>1. Ascending(I)[j] \in I /\ ElementsAt(immutable, I)[j] = immutable[Ascending(I)[j]]
    <3>1. j \in 1..Cardinality(I)
      BY Zenon
    <3>2. I \subseteq 1..Len(immutable) /\ immutable \in Seq(Item)
      BY Zenon, <1>1
    <3>3. Ascending(I)[j] \in I
      BY Zenon, <3>1, <3>2, ElementFrom
    <3>4. ElementsAt(immutable, I)[j] = immutable[Ascending(I)[j]]
      BY Zenon, <3>1 DEF ElementsAt
    <3> QED
      BY Zenon, <3>3, <3>4
  <2> QED
    BY Zenon, <1>1, <2>1
<1>6. Range(u) \subseteq Range(immutable)
  BY <1>4, <1>5 DEF Range
<1>7. ASSUME immutable # <<>>, immutable[L].mem # flushing.mem
      PROVE  u # <<>> /\ u[Len(u)] = immutable[L]
  <2>1. L \in 1..L
    BY <1>7
  <2>2. L \in I
    BY Zenon, <1>0, <1>7, <2>1
  <2>3. Place(I, L) \in 1..c /\ u[Place(I, L)] = immutable[L]
    BY Zenon, <1>1, <2>2, ElementAt
  <2> DEFINE J == {j \in I : j < L}
  <2>4. I = J \cup {L} /\ L \notin J
    <3>1. \A j \in I : j < L \/ j = L
      BY <1>1, <1>4
    <3>2. ~(L < L)
      BY <1>4
    <3> QED
      BY Zenon, <2>2, <3>1, <3>2
  <2>5. IsFiniteSet(J)
    <3>1. 1 \in Int /\ L \in Int
      BY <1>4
    <3>2. IsFiniteSet(1..L)
      BY Zenon, <3>1, FS_Interval
    <3>3. J \in SUBSET (1..L)
      BY Zenon, <1>1
    <3> QED
      BY Zenon, <3>2, <3>3, FS_Subset
  <2>6. Place(I, L) = Cardinality(J) + 1
    BY Zenon DEF Place
  <2> HIDE DEF J
  <2>7. c = Cardinality(J) + 1
    BY Zenon, <2>4, <2>5, FS_AddElement
  <2>8. c \in 1..c /\ u[c] = immutable[L]
    BY Zenon, <2>3, <2>6, <2>7
  <2>9. u # <<>>
    BY <1>2, <2>8
  <2> QED
    BY Zenon, <1>2, <2>8, <2>9
<1> QED
  BY Zenon, <1>2, <1>6, <1>7

\* Once its table is in MANIFEST a memtable needs none of its logs.
LEMMA FlushInstallStep ==
  ASSUME EngineInv, FlushInstall
  PROVE  EngineInv'
<1> USE DEF wrVars
<1>1. /\ flusher = "install" /\ immutable' = Unflushed
      /\ UNCHANGED <<wal, walStable, sst, cached, vlog, vlogStable, clock, phase, mems,
                     activeWal, walPaths, memBytes, flushCh, walFile, writer, batch, nextWal,
                     flushing, flushed, writes, latest, acked, opts>>
      /\ \/ /\ flusher' = "remove" /\ tables' = tables \cup {flushed} /\ manifest' = tables'
            /\ UNCHANGED <<faults, flushErr>>
         \/ /\ flusher' = "idle" /\ faults' = faults + 1 /\ flushErr'
            /\ UNCHANGED <<tables, manifest>>
  BY Zenon DEF FlushInstall, Fault, NoFault, ReplaceTables
<1>2. Up /\ Up' /\ Sending' = Sending /\ Writing' = Writing /\ tables = manifest
  <2>1. Up /\ Up'
    BY Zenon, <1>1 DEF EngineInv, DownInv, Up
  <2> QED
    BY Zenon, <1>1, <2>1 DEF EngineInv, ActiveInv, Sending, Writing
<1>3. /\ immutable' \in Seq(Item) /\ Range(immutable') \subseteq Range(immutable)
      /\ Sending => immutable' # <<>> /\ immutable'[Len(immutable')] = immutable[Len(immutable)]
  <2>1. immutable \in Seq(Item)
    BY Zenon DEF EngineInv, TypeInv, HandleType
  <2>2. Sending => immutable # <<>> /\ flushing.mem < immutable[Len(immutable)].mem
    BY Zenon, <1>1 DEF EngineInv, QueueInv
  <2>3. flushing.mem \in Nat
    BY Zenon DEF EngineInv, TypeInv, HandleType, Item
  <2>4. ~(flushing.mem < flushing.mem)
    BY <2>3
  <2>5. Sending => immutable[Len(immutable)].mem # flushing.mem
    BY Zenon, <2>2, <2>4
  <2> QED
    BY Zenon, <1>1, <2>1, <2>2, <2>5, UnflushedIs
<1>4. /\ flushed \in DOMAIN sst /\ sst[flushed] = mems[flushing.mem]
      /\ flushing \in Items /\ flushing.mem \in DOMAIN mems
  <2>1. flushing \in Items
    BY Zenon, <1>1 DEF Items
  <2> QED
    BY Zenon, <1>1, <2>1 DEF EngineInv, QueueInv
<1>5. manifest' \subseteq manifest \cup {flushed}
  BY Zenon, <1>1, <1>2
<1>6. FilesType'
  BY Zenon, <1>1, <1>4, <1>5 DEF EngineInv, TypeInv, FilesType
<1>7. HandleType'
  BY Zenon, <1>1, <1>3 DEF EngineInv, TypeInv, HandleType
<1>8. WorkType'
  <2>1. faults' \in Nat /\ flusher' \in {"remove", "idle"}
    BY <1>1 DEF EngineInv, TypeInv, WorkType
  <2> QED
    BY Zenon, <1>1, <2>1 DEF EngineInv, TypeInv, WorkType
<1>9. KeysInv' /\ LogsInv' /\ WriterInv'
  BY Zenon, <1>1, SameKeys, SameLogs, SameWriter DEF EngineInv
<1>10. DownInv' /\ ActiveInv'
  <2>1. tables' = manifest'
    BY Zenon, <1>1, <1>2
  <2> QED
    BY Zenon, <1>1, <1>2, <2>1 DEF EngineInv, DownInv, ActiveInv
<1>11. QueueInv'
  <2>1. Items' \subseteq Items
    BY Zenon, <1>1, <1>3 DEF Items
  <2>2. \A q \in Items' : /\ q.mem \in DOMAIN mems /\ q.mem <= activeWal
                          /\ q.paths # <<>> /\ \A p \in Range(q.paths) : p <= q.mem
                          /\ Writing => q.mem < activeWal
    BY Zenon, <2>1 DEF EngineInv, QueueInv
  <2>3. Sending => /\ immutable' # <<>>
                   /\ \A q \in Range(flushCh) : q.mem < immutable'[Len(immutable')].mem
                   /\ flushing.mem < immutable'[Len(immutable')].mem
    BY Zenon, <1>1, <1>3 DEF EngineInv, QueueInv
  <2>4. flusher' # "install"
    BY Zenon, <1>1
  <2> QED
    BY Zenon, <1>1, <1>2, <2>2, <2>3, <2>4 DEF QueueInv
<1>12. LatestInv'
  <2>1. /\ \A m \in DOMAIN mems, k \in Keys : mems[m][k].w <= latest[k]
        /\ \A t \in manifest, k \in Keys : sst[t][k].w <= latest[k]
    BY Zenon, <1>2 DEF EngineInv, LatestInv, Up, Down
  <2>2. \A t \in manifest', k \in Keys : sst[t][k].w <= latest[k]
    BY Zenon, <1>4, <1>5, <2>1
  <2> QED
    BY Zenon, <1>1, <2>1, <2>2 DEF LatestInv
<1>13. CoverInv'
  <2>1. \A m, paths : Covers(m, paths)' <=> Covers(m, paths)
    BY Zenon, <1>1 DEF Covers, InLog
  <2>2. /\ Covers(activeWal, walPaths)
        /\ \A q \in Range(immutable) \cup Range(flushCh) : Covers(q.mem, q.paths)
    BY Zenon, <1>2 DEF EngineInv, CoverInv
  <2>3. /\ Covers(activeWal, walPaths)'
        /\ \A q \in Range(immutable') \cup Range(flushCh) : Covers(q.mem, q.paths)'
    BY <1>1, <1>3, <2>1, <2>2 DEF Covers, InLog
  <2> QED
    BY Zenon, <1>1, <2>3 DEF CoverInv
<1>14. KeptInv'
  <2> SUFFICES ASSUME NEW k \in Keys, latest[k] # 0 PROVE Kept(k)'
    BY Zenon, <1>1 DEF KeptInv
  <2>1. Kept(k) /\ Doomed = {} /\ Covers(flushing.mem, flushing.paths)
    BY Zenon, <1>1, <1>2 DEF EngineInv, KeptInv, Up, Down, Doomed, CoverInv
  <2>2. manifest \subseteq manifest'
    BY Zenon, <1>1, <1>2
  <2>3. \A n \in DOMAIN wal : SafeLen(n)' = SafeLen(n)
    BY Zenon, <1>1 DEF SafeLen, SyncWrites
  <2>4. CASE \E t \in manifest : sst[t][k].w = latest[k]
    BY Zenon, <1>1, <2>2, <2>4 DEF Kept
  <2>5. CASE \E n \in DOMAIN wal \ Doomed : \E i \in 1..SafeLen(n) : wal[n][i] = latest[k]
    <3>1. PICK n \in DOMAIN wal : \E i \in 1..SafeLen(n) : wal[n][i] = latest[k]
      BY Zenon, <2>5
    <3>2. CASE n \notin Doomed'
      BY Zenon, <1>1, <2>3, <3>1, <3>2 DEF Kept
    <3>3. CASE n \in Doomed'
      <4>1. n \in Range(flushing.paths) /\ flusher' = "remove"
        BY Zenon, <1>1, <3>3 DEF Doomed
      <4>2. 1..SafeLen(n) \subseteq 1..Len(wal[n])
        <5>1. SafeLen(n) = Len(wal[n]) \/ (n = activeWal /\ SafeLen(n) = walStable)
          BY Zenon DEF SafeLen
        <5>2. n = activeWal => walStable <= Len(wal[n])
          BY Zenon, <1>2 DEF EngineInv, ActiveInv
        <5>3. Len(wal[n]) \in Nat /\ walStable \in Nat
          BY DEF EngineInv, TypeInv, FilesType
        <5> QED
          BY <5>1, <5>2, <5>3
      <4>3. InLog(n, latest[k])
        BY Zenon, <3>1, <4>2 DEF InLog
      <4>4. mems[flushing.mem][k].w = latest[k]
        BY Zenon, <2>1, <4>1, <4>3 DEF Covers
      <4>5. flushed \in manifest' /\ sst[flushed][k].w = latest[k]
        BY Zenon, <1>1, <1>4, <4>1, <4>4
      <4> QED
        BY Zenon, <1>1, <4>5 DEF Kept
    <3> QED
      BY Zenon, <3>2, <3>3
  <2> QED
    BY Zenon, <2>1, <2>4, <2>5 DEF Kept
<1>15. AckInv'
  BY Zenon, <1>1, <1>2 DEF EngineInv, AckInv, SyncWrites
<1>16. RefsInv'
  <2>1. /\ vlogStable <= Len(vlog)
        /\ \A m \in DOMAIN mems, k \in Keys : mems[m][k].off # 0 => Resolves(mems[m][k])
        /\ \A k \in Keys : mems[flushing.mem][k].off <= vlogStable
        /\ \A t \in manifest, k \in Keys :
             sst[t][k].off # 0 => sst[t][k].off <= vlogStable /\ Resolves(sst[t][k])
    BY Zenon, <1>1 DEF EngineInv, RefsInv
  <2>2. \A t \in manifest', k \in Keys :
          sst[t][k].off # 0 => sst[t][k].off <= vlogStable /\ Resolves(sst[t][k])
    BY Zenon, <1>4, <1>5, <2>1
  <2>3. flusher' \notin {"write", "install"}
    BY Zenon, <1>1
  <2> QED
    BY Zenon, <1>1, <2>1, <2>2, <2>3 DEF RefsInv, Resolves
<1>17. PendingInv'
  <2>1. CASE flushErr'
    BY Zenon, <2>1 DEF PendingInv
  <2>2. CASE flusher' = "remove" /\ UNCHANGED flushErr
    <3>1. \A n : Pending(n) => Pending(n)'
      BY Zenon, <1>1, <1>2, <1>3, <2>2 DEF Pending
    <3> QED
      BY Zenon, <1>1, <1>2, <2>2, <3>1 DEF EngineInv, PendingInv
  <2> QED
    BY Zenon, <1>1, <2>1, <2>2
<1> QED
  BY Zenon, <1>6, <1>7, <1>8, <1>9, <1>10, <1>11, <1>12, <1>13, <1>14, <1>15, <1>16, <1>17
     DEF EngineInv, TypeInv

-----------------------------------------------------------------------------
(* openDB *)

\* The place of a record: the name of its log and its index in it.
LEMMA RecordsAre ==
  ASSUME NEW r
  PROVE  r \in Records(wal) <=>
           /\ r = <<r[1], r[2]>> /\ r[1] \in DOMAIN wal /\ r[2] \in 1..Len(wal[r[1]])
<1>1. \A n, i : <<n, i>> \in Records(wal) <=> n \in DOMAIN wal /\ i \in 1..Len(wal[n])
  BY DEF Records
<1>2. r \in Records(wal) => r = <<r[1], r[2]>>
  BY DEF Records
<1> QED
  BY Zenon, <1>1, <1>2

\* Records of the logs in the order of replayWALs are records of increasing writes.
LEMMA ReadsAscend ==
  ASSUME LogsInv, NEW p \in Records(wal), NEW q \in Records(wal), <<p, q>> \in Reads(wal)
  PROVE  wal[p[1]][p[2]] < wal[q[1]][q[2]]
<1>1. /\ p[1] \in DOMAIN wal /\ p[2] \in 1..Len(wal[p[1]])
      /\ q[1] \in DOMAIN wal /\ q[2] \in 1..Len(wal[q[1]])
  BY Zenon, RecordsAre
<1>2. p[1] < q[1] \/ (p[1] = q[1] /\ p[2] < q[2])
  BY Zenon DEF Reads
<1> PICK n, i, m, j : n = p[1] /\ i = p[2] /\ m = q[1] /\ j = q[2]
  BY Zenon
<1>3. CASE n < m
  BY Zenon, <1>1, <1>3 DEF LogsInv
<1>4. CASE n = m /\ i < j
  BY Zenon, <1>1, <1>4 DEF LogsInv
<1> QED
  BY Zenon, <1>2, <1>3, <1>4

\* replayWALs reads the records one after the other.
LEMMA ReadsOrder ==
  ASSUME DOMAIN wal \subseteq Nat, \A n \in DOMAIN wal : Len(wal[n]) \in Nat
  PROVE  Orders(Reads(wal), Records(wal))
<1>1. \A p, q \in Records(wal) :
        <<p, q>> \in Reads(wal) <=> p[1] < q[1] \/ (p[1] = q[1] /\ p[2] < q[2])
  BY Zenon DEF Reads
<1>2. \A p \in Records(wal) : p = <<p[1], p[2]>> /\ p[1] \in Nat /\ p[2] \in Nat
  <2> TAKE p \in Records(wal)
  <2>1. p = <<p[1], p[2]>> /\ p[1] \in DOMAIN wal /\ p[2] \in 1..Len(wal[p[1]])
    BY Zenon, RecordsAre
  <2>2. \A L \in Nat : \A i \in 1..L : i \in Nat
    OBVIOUS
  <2> QED
    BY Zenon, <2>1, <2>2
<1>3. ASSUME NEW p \in Records(wal) PROVE <<p, p>> \notin Reads(wal)
  BY <1>1, <1>2
<1>4. ASSUME NEW p \in Records(wal), NEW q \in Records(wal), NEW r \in Records(wal),
             <<p, q>> \in Reads(wal), <<q, r>> \in Reads(wal)
      PROVE  <<p, r>> \in Reads(wal)
  BY <1>1, <1>2, <1>4
<1>5. ASSUME NEW p \in Records(wal), NEW q \in Records(wal), p # q
      PROVE  <<p, q>> \in Reads(wal) \/ <<q, p>> \in Reads(wal)
  <2>1. p[1] # q[1] \/ p[2] # q[2]
    BY Zenon, <1>2, <1>5
  <2> QED
    BY <1>1, <1>2, <2>1
<1> QED
  BY Zenon, <1>3, <1>4, <1>5 DEF Orders

\* The logs hold finitely many records.
LEMMA RecordsFinite ==
  ASSUME LogsInv, DOMAIN wal \subseteq Nat, \A n \in DOMAIN wal : Len(wal[n]) \in Nat,
         Logged \in Nat
  PROVE  IsFiniteSet(Records(wal))
<1> DEFINE f == [r \in Records(wal) |-> wal[r[1]][r[2]]]
<1>1. f \in [Records(wal) -> 1..Logged]
  <2>1. ASSUME NEW r \in Records(wal) PROVE wal[r[1]][r[2]] \in 1..Logged
    BY Zenon, RecordsAre DEF LogsInv
  <2> QED
    BY Zenon, <2>1
<1>2. ASSUME NEW p \in Records(wal), NEW q \in Records(wal), f[p] = f[q]
      PROVE  p = q
  <2>1. f[p] \in Nat /\ f[q] \in Nat
    BY <1>1
  <2>2. <<p, q>> \in Reads(wal) => f[p] < f[q]
    BY Zenon, ReadsAscend
  <2>3. <<q, p>> \in Reads(wal) => f[q] < f[p]
    BY Zenon, ReadsAscend
  <2>4. p # q => <<p, q>> \in Reads(wal) \/ <<q, p>> \in Reads(wal)
    BY Zenon, ReadsOrder DEF Orders
  <2> HIDE DEF f
  <2> QED
    BY <1>2, <2>1, <2>2, <2>3, <2>4
<1>3. f \in Injection(Records(wal), 1..Logged)
  BY Zenon, <1>1, <1>2 DEF Injection, IsInjective
<1>4. 1 \in Int /\ Logged \in Int
  OBVIOUS
<1>5. IsFiniteSet(1..Logged)
  BY Zenon, <1>4, FS_Interval
<1> HIDE DEF f
<1> QED
  BY Zenon, <1>3, <1>5, FS_Injection

\* replayWALs reads every record of the logs, in the order of the writes.
LEMMA ReplayIs ==
  ASSUME LogsInv, wal \in [DOMAIN wal -> Seq(Nat)], DOMAIN wal \subseteq Nat, Logged \in Nat
  PROVE  /\ ReplayOrder(wal) \in Seq(Nat)
         /\ \A i \in 1..Len(ReplayOrder(wal)) : \E n \in DOMAIN wal : InLog(n, ReplayOrder(wal)[i])
         /\ \A n \in DOMAIN wal : \A w : InLog(n, w) =>
              \E i \in 1..Len(ReplayOrder(wal)) : ReplayOrder(wal)[i] = w
         /\ \A i, j \in 1..Len(ReplayOrder(wal)) :
              i < j => ReplayOrder(wal)[i] < ReplayOrder(wal)[j]
<1> PICK S, R, recs, c, ws : /\ S = Records(wal) /\ R = Reads(wal) /\ recs = InOrder(S, R)
                             /\ c = Cardinality(S) /\ ws = ReplayOrder(wal)
  BY Zenon
<1>1. \A n \in DOMAIN wal : Len(wal[n]) \in Nat
  OBVIOUS
<1>2. IsFiniteSet(S) /\ Orders(R, S)
  BY Zenon, <1>1, ReadsOrder, RecordsFinite
<1>3. /\ c \in Nat /\ recs \in Seq(S) /\ Len(recs) = c
      /\ \A x \in S : Rank(S, R, x) + 1 \in 1..c /\ recs[Rank(S, R, x) + 1] = x
      /\ \A i, j \in 1..c : i < j => <<recs[i], recs[j]>> \in R
  BY Zenon, <1>2, InOrderIs
<1>4. \A i \in 1..c : recs[i] \in S
  BY <1>3
<1>5. ws = [i \in 1..c |-> wal[recs[i][1]][recs[i][2]]]
  BY Zenon DEF ReplayOrder
<1>6. \A r \in S : /\ r[1] \in DOMAIN wal /\ r[2] \in 1..Len(wal[r[1]])
                   /\ r = <<r[1], r[2]>>
  BY Zenon, RecordsAre
<1>7. \A n \in DOMAIN wal : \A i \in 1..Len(wal[n]) : wal[n][i] \in Nat
  OBVIOUS
<1>8. ws \in [1..c -> Nat]
  BY <1>4, <1>5, <1>6, <1>7
<1>9. ws \in Seq(Nat) /\ Len(ws) = c
  BY <1>3, <1>8, SeqOfLength
<1>10. \A i \in 1..c : ws[i] = wal[recs[i][1]][recs[i][2]]
  BY Zenon, <1>5
<1>11. \A i \in 1..c : \E n \in DOMAIN wal : InLog(n, ws[i])
  BY Zenon, <1>4, <1>6, <1>10 DEF InLog
<1>12. ASSUME NEW n \in DOMAIN wal, NEW w, InLog(n, w)
       PROVE  \E i \in 1..c : ws[i] = w
  <2>1. PICK i \in 1..Len(wal[n]) : wal[n][i] = w
    BY Zenon, <1>12 DEF InLog
  <2> PICK r : r = <<n, i>>
    BY Zenon
  <2>2. r \in Records(wal) /\ r[1] = n /\ r[2] = i
    BY DEF Records
  <2>3. PICK j \in 1..c : recs[j] = r
    BY Zenon, <1>3, <2>2
  <2>4. ws[j] = w
    BY Zenon, <1>10, <2>1, <2>2, <2>3
  <2> QED
    BY Zenon, <2>4
<1>13. ASSUME NEW i \in 1..c, NEW j \in 1..c, i < j PROVE ws[i] < ws[j]
  <2>1. <<recs[i], recs[j]>> \in Reads(wal) /\ recs[i] \in Records(wal) /\ recs[j] \in Records(wal)
    BY Zenon, <1>3, <1>4, <1>13
  <2>2. wal[recs[i][1]][recs[i][2]] < wal[recs[j][1]][recs[j][2]]
    BY Zenon, <2>1, ReadsAscend
  <2> QED
    BY Zenon, <1>10, <2>2
<1> QED
  BY Zenon, <1>9, <1>11, <1>12, <1>13

\* The memtable that replayWALs fills holds under each key the last write to it
\* in the logs, with a reference to its own value.
LEMMA ReplayedIs ==
  ASSUME LogsInv, FilesType, Logged = Len(writes), NEW k \in Keys, NEW e,
         e = Replayed(ReplayOrder(wal))[k]
  PROVE  /\ e \in [w : Nat, off : Nat]
         /\ e.w # 0 => WriteTo(e.w, k) /\ \E n \in DOMAIN wal : InLog(n, e.w)
         /\ \A n \in DOMAIN wal : \A w : InLog(n, w) /\ WriteTo(w, k) => w <= e.w
         /\ e.off # 0 => /\ e.off <= Len(ValueLogAfter(writes, ReplayOrder(wal)))
                         /\ ValueLogAfter(writes, ReplayOrder(wal))[e.off] = e.w
<1> PICK ws, v, l : ws = ReplayOrder(wal) /\ v = ValueLogAfter(writes, ws) /\ l = LastTo(ws, k)
  BY Zenon
<1>1. /\ wal \in [DOMAIN wal -> Seq(Nat)] /\ DOMAIN wal \subseteq 1..clock /\ clock \in Nat
      /\ vlog \in Seq(Nat)
      /\ writes \in Seq([key : Keys, kind : {"inline", "empty", "large", "tombstone"}])
  BY Zenon DEF FilesType
<1>2. Logged \in Nat /\ DOMAIN wal \subseteq Nat
  BY <1>1
<1>3. /\ ws \in Seq(Nat)
      /\ \A i \in 1..Len(ws) : \E n \in DOMAIN wal : InLog(n, ws[i])
      /\ \A n \in DOMAIN wal : \A w : InLog(n, w) => \E i \in 1..Len(ws) : ws[i] = w
      /\ \A i, j \in 1..Len(ws) : i < j => ws[i] < ws[j]
  BY Zenon, <1>1, <1>2, ReplayIs
<1>4. Len(ws) \in Nat /\ \A i \in 1..Len(ws) : ws[i] \in Nat
  BY <1>3
<1> DEFINE I == {0} \cup {i \in 1..Len(ws) : writes[ws[i]].key = k}
<1>5. l = Max(I)
  BY Zenon DEF LastTo
<1>6. I \subseteq Nat /\ I # {} /\ \A i \in I : i <= Len(ws)
  BY <1>4
<1>7. l \in I /\ \A i \in I : i <= l
  <2> HIDE DEF I
  <2> QED
    BY Zenon, <1>4, <1>5, <1>6, MaxExists
<1>8. \A i \in 1..Len(ws) : ws[i] \in 1..Len(writes)
  BY <1>3 DEF LogsInv, InLog
<1>9. e = IF l = 0 THEN NoEntry ELSE Stored(writes, ws, l)
  BY Zenon DEF Replayed
<1>10. ASSUME NEW n \in DOMAIN wal, NEW w, InLog(n, w), WriteTo(w, k)
       PROVE  \E i \in 1..Len(ws) : ws[i] = w /\ i <= l
  <2>1. PICK i \in 1..Len(ws) : ws[i] = w
    BY Zenon, <1>3, <1>10
  <2>2. i \in I
    BY Zenon, <1>10, <2>1 DEF WriteTo
  <2> QED
    BY Zenon, <1>7, <2>1, <2>2
<1>11. CASE l = 0
  <2>1. e.w = 0 /\ e.off = 0 /\ e \in [w : Nat, off : Nat]
    BY <1>9, <1>11 DEF NoEntry
  <2>2. \A i \in 1..Len(ws) : ~(i <= l)
    BY <1>4, <1>11
  <2> QED
    BY Zenon, <1>10, <2>1, <2>2
<1>12. CASE l # 0
  <2>1. l \in 1..Len(ws) /\ writes[ws[l]].key = k
    BY Zenon, <1>7, <1>12
  <2>2. e = Stored(writes, ws, l)
    BY Zenon, <1>9, <1>12
  <2>3. /\ e \in [w : Nat, off : Nat] /\ e.w = ws[l]
        /\ e.off # 0 => e.off <= Len(v) /\ v[e.off] = e.w
    <3>1. /\ e \in [w : Nat, off : Nat] /\ e.w = ws[l]
          /\ e.off # 0 => e.off <= Len(v) /\ v[e.off] = ws[l]
      <4>1. vlog \in Seq(Nat) /\ ws \in Seq(Nat) /\ l \in 1..Len(ws)
        BY Zenon, <1>1, <1>3, <2>1
      <4>2. v = ValueLogAfter(writes, ws) /\ e = Stored(writes, ws, l)
        BY Zenon, <2>2
      <4> QED
        BY ONLY <4>1, <4>2, StoredAt
    <3> QED
      BY Zenon, <3>1
  <2>4. WriteTo(e.w, k) /\ \E n \in DOMAIN wal : InLog(n, e.w)
    BY Zenon, <1>3, <1>8, <2>1, <2>3 DEF WriteTo
  <2>5. ASSUME NEW n \in DOMAIN wal, NEW w, InLog(n, w), WriteTo(w, k) PROVE w <= e.w
    <3>1. PICK i \in 1..Len(ws) : ws[i] = w /\ i <= l
      BY Zenon, <1>10, <2>5
    <3>2. i < l \/ i = l
      BY <1>4, <2>1, <3>1
    <3>3. ws[i] < ws[l] \/ ws[i] = ws[l]
      BY Zenon, <1>3, <2>1, <3>2
    <3>4. ws[i] \in Nat /\ ws[l] \in Nat
      BY Zenon, <1>4, <2>1
    <3>5. ws[i] <= ws[l]
      BY <3>3, <3>4
    <3> QED
      BY Zenon, <2>3, <3>1, <3>5
  <2> QED
    BY Zenon, <2>3, <2>4, <2>5
<1> QED
  BY Zenon, <1>11, <1>12

\* openDB finds the last surviving write to each key.
LEMMA SurvivingMax ==
  ASSUME Len(writes) \in Nat, NEW k \in Keys, NEW m, m = Max({0} \cup Surviving(wal, k))
  PROVE  /\ m \in Nat
         /\ m # 0 => m \in Surviving(wal, k)
         /\ \A w \in Surviving(wal, k) : w <= m
<1> DEFINE S == {0} \cup Surviving(wal, k)
<1>1. \A w \in Surviving(wal, k) : w \in 1..Len(writes)
  BY Zenon DEF Surviving
<1>2. S \subseteq Nat /\ S # {} /\ \A w \in S : w <= Len(writes)
  BY <1>1
<1>3. m \in S /\ \A w \in S : w <= m
  <2> HIDE DEF S
  <2>1. m = Max(S)
    BY Zenon DEF S
  <2> QED
    BY Zenon, <1>2, <2>1, MaxExists
<1> QED
  BY Zenon, <1>2, <1>3

\* What survives is in a log or in a table of MANIFEST.
LEMMA SurvivesIff ==
  ASSUME FilesType, NEW k \in Keys, NEW w
  PROVE  w \in Surviving(wal, k) <=>
           /\ WriteTo(w, k)
           /\ (\E n \in DOMAIN wal : InLog(n, w)) \/ (\E t \in manifest : sst[t][k].w = w)
<1>1. \A n \in DOMAIN wal : DOMAIN wal[n] = 1..Len(wal[n])
  BY DEF FilesType
<1>2. \A n \in DOMAIN wal : InLog(n, w) <=> w \in Range(wal[n])
  BY Zenon, <1>1 DEF InLog, Range
<1> QED
  BY Zenon, <1>2 DEF Surviving, WriteTo

\* The names of all logs in order, and that of the new one.
LEMMA PathsAre ==
  ASSUME NEW S, NEW c \in Nat, S \subseteq 1..c, NEW id \in Nat
  PROVE  Append(Ascending(S), id) \in Seq(Nat) /\ Range(Append(Ascending(S), id)) = S \cup {id}
<1>1. 1 \in Int /\ c \in Int /\ S \subseteq Nat
  OBVIOUS
<1>2. IsFiniteSet(1..c)
  BY Zenon, <1>1, FS_Interval
<1>3. IsFiniteSet(S)
  BY Zenon, <1>2, FS_Subset
<1>4. /\ Ascending(S) \in Seq(S) /\ DOMAIN Ascending(S) = 1..Cardinality(S)
      /\ Len(Ascending(S)) = Cardinality(S)
      /\ \A x \in S : Cardinality({y \in S : y < x}) + 1 \in 1..Cardinality(S)
                      /\ Ascending(S)[Cardinality({y \in S : y < x}) + 1] = x
  BY Zenon, <1>1, <1>3, AscendingIs
<1> PICK a, d : a = Ascending(S) /\ d = Cardinality(S)
  BY Zenon
<1>5. \A x \in S : \E i \in 1..d : a[i] = x
  BY Zenon, <1>4
<1>6. a \in Seq(S) /\ DOMAIN a = 1..d /\ Len(a) = d
  BY Zenon, <1>4
<1>7. \A i \in 1..d : a[i] \in S
  BY ONLY <1>6
<1>8. a \in Seq(Nat)
  <2>1. S \subseteq Nat => \A i \in 1..d : a[i] \in Nat
    BY Zenon, <1>7
  <2>2. a \in [1..d -> Nat] /\ d \in Nat
    BY <1>1, <1>4, <1>6, <2>1
  <2> QED
    BY Zenon, <2>2, SeqOfLength
<1>9. Range(a) = S
  BY Zenon, <1>5, <1>6, <1>7 DEF Range
<1> QED
  BY <1>8, <1>9, RangeAppend

\* openDB builds the memtable from the logs and finds everything that survived.
LEMMA OpenStep ==
  ASSUME EngineInv, Open
  PROVE  EngineInv'
<1> USE DEF wrVars, flVars
<1>1. /\ phase \in Down /\ vlog' = ValueLogAfter(writes, ReplayOrder(wal))
      /\ memBytes' = Len(ReplayOrder(wal)) /\ tables' = manifest
      /\ latest' = [k \in Keys |-> Max({0} \cup Surviving(wal, k))] /\ phase' = "open"
      /\ UNCHANGED <<walStable, sst, cached, manifest, vlogStable, immutable, flushCh,
                     flushErr, walFile, writer, batch, nextWal, flusher, flushing, flushed,
                     writes, acked, faults, opts>>
  BY Zenon DEF Open
<1>2. PICK id : /\ id = clock + 1 /\ clock' = id
                /\ mems' = With(mems, id, Replayed(ReplayOrder(wal))) /\ activeWal' = id
                /\ walPaths' = Append(Ascending(DOMAIN wal), id) /\ wal' = With(wal, id, <<>>)
  BY Zenon DEF Open, Name
<1> PICK M : M = Replayed(ReplayOrder(wal))
  BY Zenon
<1>3. ~Up /\ Up' /\ Writing' /\ ~Sending'
  <2>1. ~Up
    BY Zenon, <1>1 DEF Up
  <2>2. writer = "idle"
    BY Zenon, <2>1 DEF EngineInv, DownInv
  <2> QED
    BY Zenon, <1>1, <2>1, <2>2 DEF Up, Down, Writing, Sending
<1>4. /\ mems = <<>> /\ immutable = <<>> /\ flushCh = <<>> /\ writer = "idle"
      /\ flusher = "idle" /\ walStable = 0 /\ batch = <<>> /\ ~flushErr
  BY Zenon, <1>3 DEF EngineInv, DownInv
<1>5. clock \in Nat /\ id \in Nat /\ id \notin 1..clock /\ id \in 1..id /\ 1..clock \subseteq 1..id
      /\ (\A n \in 1..clock : n <= id) /\ id <= id
  <2>1. clock \in Nat
    BY Zenon DEF EngineInv, TypeInv, FilesType
  <2> QED
    BY <1>2, <2>1
<1>6. id \notin DOMAIN wal /\ DOMAIN wal \subseteq 1..clock /\ Logged = Len(writes)
  BY Zenon, <1>4, <1>5 DEF EngineInv, TypeInv, FilesType, Logged
<1>7. /\ wal' \in [DOMAIN wal' -> Seq(Nat)] /\ DOMAIN wal' = DOMAIN wal \cup {id}
      /\ wal'[id] = <<>> /\ \A n \in DOMAIN wal : wal'[n] = wal[n]
  <2>1. wal \in [DOMAIN wal -> Seq(Nat)] /\ <<>> \in Seq(Nat)
    BY DEF EngineInv, TypeInv, FilesType
  <2> QED
    BY Zenon, <1>2, <1>6, <2>1 DEF With
<1>8. DOMAIN mems' = {id} /\ mems'[id] = M /\ mems' \in [{id} -> {M}]
  <2>1. DOMAIN mems = {}
    BY <1>4
  <2> QED
    BY Zenon, <1>2, <2>1 DEF With
<1>9. \A k \in Keys : /\ M[k] \in [w : Nat, off : Nat]
                      /\ M[k].w # 0 => WriteTo(M[k].w, k) /\ \E n \in DOMAIN wal : InLog(n, M[k].w)
                      /\ \A n \in DOMAIN wal : \A w : InLog(n, w) /\ WriteTo(w, k) => w <= M[k].w
                      /\ M[k].off # 0 => M[k].off <= Len(vlog') /\ vlog'[M[k].off] = M[k].w
  <2> TAKE k \in Keys
  <2> PICK e : e = Replayed(ReplayOrder(wal))[k]
    BY Zenon
  <2>1. LogsInv /\ FilesType /\ Logged = Len(writes)
    BY Zenon, <1>6 DEF EngineInv, TypeInv
  <2>2. /\ e \in [w : Nat, off : Nat]
        /\ e.w # 0 => WriteTo(e.w, k) /\ \E n \in DOMAIN wal : InLog(n, e.w)
        /\ \A n \in DOMAIN wal : \A w : InLog(n, w) /\ WriteTo(w, k) => w <= e.w
        /\ e.off # 0 => /\ e.off <= Len(ValueLogAfter(writes, ReplayOrder(wal)))
                        /\ ValueLogAfter(writes, ReplayOrder(wal))[e.off] = e.w
    BY Zenon, <2>1, ReplayedIs
  <2>3. M[k] = e
    BY Zenon
  <2> QED
    BY Zenon, <1>1, <2>2, <2>3
<1>10. Len(writes) \in Nat
  BY DEF EngineInv, TypeInv, FilesType
<1>11. \A k \in Keys : /\ latest'[k] \in Nat
                       /\ latest'[k] # 0 => latest'[k] \in Surviving(wal, k)
                       /\ \A w \in Surviving(wal, k) : w <= latest'[k]
  <2> TAKE k \in Keys
  <2> PICK m : m = Max({0} \cup Surviving(wal, k))
    BY Zenon
  <2>1. latest'[k] = m
    BY Zenon, <1>1
  <2>2. m \in Nat /\ (m # 0 => m \in Surviving(wal, k)) /\ \A w \in Surviving(wal, k) : w <= m
    BY Zenon, <1>10, SurvivingMax
  <2> QED
    BY Zenon, <2>1, <2>2
<1>12. \A k \in Keys : \A w : w \in Surviving(wal, k) <=>
         /\ WriteTo(w, k)
         /\ (\E n \in DOMAIN wal : InLog(n, w)) \/ (\E t \in manifest : sst[t][k].w = w)
  BY Zenon, SurvivesIff DEF EngineInv, TypeInv
<1>13. M \in Table
  <2>1. M = [k \in Keys |-> M[k]]
    BY Zenon DEF Replayed
  <2> QED
    BY Zenon, <1>9, <2>1 DEF Table
<1>14. vlog \in Seq(Nat) /\ Len(vlog) \in Nat
  BY DEF EngineInv, TypeInv, FilesType
<1>15. ReplayOrder(wal) \in Seq(Nat) /\ Len(ReplayOrder(wal)) \in Nat
  <2>1. wal \in [DOMAIN wal -> Seq(Nat)] /\ LogsInv
    BY Zenon DEF EngineInv, TypeInv, FilesType
  <2>2. DOMAIN wal \subseteq Nat
    BY <1>5, <1>6
  <2>3. ReplayOrder(wal) \in Seq(Nat)
    BY Zenon, <1>6, <1>10, <2>1, <2>2, ReplayIs
  <2> QED
    BY <2>3
<1>16. vlog' \in Seq(Nat) /\ Len(vlog) <= Len(vlog') /\ \A i \in 1..Len(vlog) : vlog'[i] = vlog[i]
  BY Zenon, <1>1, <1>14, <1>15, StoredIs
<1>17. walPaths' \in Seq(Nat) /\ Range(walPaths') = DOMAIN wal \cup {id}
  BY Zenon, <1>2, <1>5, <1>6, PathsAre
<1>18. FilesType'
  BY Zenon, <1>1, <1>2, <1>5, <1>6, <1>7, <1>16 DEF EngineInv, TypeInv, FilesType
<1>19. HandleType'
  <2>1. mems' \in [DOMAIN mems' -> Table] /\ DOMAIN mems' \subseteq 1..id
    BY Zenon, <1>5, <1>8, <1>13
  <2> QED
    BY Zenon, <1>1, <1>2, <1>5, <1>15, <1>17, <2>1 DEF EngineInv, TypeInv, HandleType
<1>20. WorkType'
  <2>1. latest' \in [Keys -> Nat]
    BY Zenon, <1>1, <1>11
  <2> QED
    BY Zenon, <1>1, <2>1 DEF EngineInv, TypeInv, WorkType
<1>21. KeysInv'
  <2>1. \A k \in Keys : latest'[k] = 0 \/ WriteTo(latest'[k], k)
    BY Zenon, <1>11, <1>12
  <2>2. \A k \in Keys : M[k].w = 0 \/ WriteTo(M[k].w, k)
    BY Zenon, <1>9
  <2>3. \A t \in DOMAIN sst, k \in Keys : sst[t][k].w = 0 \/ WriteTo(sst[t][k].w, k)
    BY Zenon DEF EngineInv, KeysInv
  <2> QED
    BY <1>1, <1>8, <2>1, <2>2, <2>3 DEF KeysInv, WriteTo
<1>22. Shrinks
  <2>1. 1..Len(wal'[id]) = {}
    BY <1>7
  <2> QED
    BY Zenon, <1>7, <2>1 DEF Shrinks
<1>23. LogsInv'
  <2>1. Logged' = Logged
    BY Zenon, <1>1, <1>4 DEF Logged
  <2> QED
    BY Zenon, <1>22, <2>1, FewerInOrder DEF EngineInv
<1>24. DownInv' /\ WriterInv'
  BY Zenon, <1>1, <1>3, <1>4 DEF DownInv, WriterInv
<1>25. ActiveInv'
  <2>1. walStable' <= Len(wal'[id])
    BY <1>1, <1>4, <1>7
  <2>2. \A n \in DOMAIN wal' : n <= id
    BY Zenon, <1>5, <1>6, <1>7
  <2>3. \A p \in Range(walPaths') : p <= id
    BY Zenon, <1>5, <1>6, <1>17
  <2>4. id \in DOMAIN mems' /\ id \in DOMAIN wal' /\ id \in Range(walPaths') /\ tables' = manifest'
    BY Zenon, <1>1, <1>7, <1>8, <1>17
  <2> QED
    BY Zenon, <1>2, <2>1, <2>2, <2>3, <2>4 DEF ActiveInv
<1>26. QueueInv'
  <2>1. Items' = {}
    BY Zenon, <1>1, <1>4, RangeSmall DEF Items
  <2>2. flusher' # "install"
    BY Zenon, <1>1, <1>4
  <2> QED
    BY Zenon, <1>3, <2>1, <2>2 DEF QueueInv
<1>27. \A k \in Keys : M[k].w <= latest'[k]
  <2> TAKE k \in Keys
  <2>1. CASE M[k].w = 0
    BY <1>11, <2>1
  <2>2. CASE M[k].w # 0
    BY Zenon, <1>9, <1>11, <1>12, <2>2
  <2> QED
    BY Zenon, <2>1, <2>2
<1>28. LatestInv'
  <2>1. ASSUME NEW t \in manifest, NEW k \in Keys PROVE sst[t][k].w <= latest'[k]
    <3>1. sst[t][k].w = 0 \/ WriteTo(sst[t][k].w, k)
      BY Zenon DEF EngineInv, TypeInv, FilesType, KeysInv
    <3>2. CASE sst[t][k].w = 0
      BY <1>11, <3>2
    <3>3. CASE WriteTo(sst[t][k].w, k)
      BY Zenon, <1>11, <1>12, <3>3
    <3> QED
      BY Zenon, <3>1, <3>2, <3>3
  <2> QED
    BY Zenon, <1>1, <1>8, <1>27, <2>1 DEF LatestInv
<1>29. CoverInv'
  <2>1. ASSUME NEW n \in DOMAIN wal', NEW k \in Keys, InLog(n, latest[k])'
        PROVE  M[k].w = latest'[k]
    <3>1. n \in DOMAIN wal /\ InLog(n, latest'[k])
      BY Zenon, <1>22, <2>1 DEF Shrinks, InLog
    <3>2. latest'[k] \in 1..Len(writes)
      BY Zenon, <1>6, <3>1 DEF EngineInv, LogsInv, InLog
    <3>3. latest'[k] # 0
      BY <1>10, <3>2
    <3>4. WriteTo(latest'[k], k)
      BY Zenon, <1>11, <1>12, <3>3
    <3>5. latest'[k] <= M[k].w /\ M[k].w <= latest'[k] /\ M[k] \in [w : Nat, off : Nat]
      BY Zenon, <1>9, <1>27, <3>1, <3>4
    <3>6. latest'[k] \in Nat
      BY Zenon, <1>11
    <3> QED
      BY <3>5, <3>6
  <2>2. Covers(activeWal, walPaths)'
    BY Zenon, <1>2, <1>8, <2>1 DEF Covers
  <2>3. Range(immutable') \cup Range(flushCh') = {} /\ flusher' = "idle"
    BY Zenon, <1>1, <1>4, RangeSmall
  <2> QED
    BY Zenon, <2>2, <2>3 DEF CoverInv
<1>30. KeptInv'
  <2>1. Doomed' = {} /\ \A n \in DOMAIN wal : SafeLen(n)' = Len(wal[n])
    BY Zenon, <1>1, <1>2, <1>4, <1>6, <1>7 DEF Doomed, SafeLen
  <2>2. ASSUME NEW k \in Keys, latest'[k] # 0 PROVE Kept(k)'
    <3>1. \/ \E n \in DOMAIN wal : InLog(n, latest'[k])
          \/ \E t \in manifest : sst[t][k].w = latest'[k]
      BY Zenon, <1>11, <1>12, <2>2
    <3>2. CASE \E n \in DOMAIN wal : InLog(n, latest'[k])
      <4>1. PICK n \in DOMAIN wal : \E i \in 1..Len(wal[n]) : wal[n][i] = latest'[k]
        BY Zenon, <3>2 DEF InLog
      <4>2. \E i \in 1..SafeLen(n)' : wal'[n][i] = latest'[k]
        BY Zenon, <1>7, <2>1, <4>1
      <4>3. n \in DOMAIN wal' \ Doomed'
        BY Zenon, <1>7, <2>1
      <4> QED
        BY Zenon, <4>2, <4>3 DEF Kept
    <3>3. CASE \E t \in manifest : sst[t][k].w = latest'[k]
      BY Zenon, <1>1, <3>3 DEF Kept
    <3> QED
      BY Zenon, <3>1, <3>2, <3>3
  <2> QED
    BY Zenon, <2>2 DEF KeptInv
<1>31. AckInv'
  <2>1. ASSUME SyncWrites, NEW k \in Keys PROVE acked[k] <= latest'[k]
    <3>1. acked[k] \in Nat /\ latest'[k] \in Nat
      BY Zenon, <1>11 DEF EngineInv, TypeInv, WorkType
    <3>2. CASE acked[k] = 0
      BY <3>1, <3>2
    <3>3. CASE acked[k] # 0
      <4>1. PICK w \in Surviving(wal, k) : w >= acked[k]
        BY Zenon, <1>3, <2>1, <3>3 DEF EngineInv, AckInv
      <4>2. w <= latest'[k]
        BY Zenon, <1>11, <4>1
      <4>3. w \in 1..Len(writes)
        BY Zenon, <4>1 DEF Surviving
      <4> QED
        BY <1>10, <3>1, <4>1, <4>2, <4>3
    <3> QED
      BY Zenon, <3>2, <3>3
  <2> QED
    BY Zenon, <1>1, <1>3, <2>1 DEF AckInv, SyncWrites
<1>32. RefsInv'
  <2>1. vlogStable <= Len(vlog')
    <3>1. vlogStable <= Len(vlog) /\ vlogStable \in Nat
      BY Zenon DEF EngineInv, RefsInv, TypeInv, FilesType
    <3>2. Len(vlog') \in Nat
      BY <1>16
    <3> QED
      BY <1>14, <1>16, <3>1, <3>2
  <2>2. ASSUME NEW t \in manifest, NEW k \in Keys, sst[t][k].off # 0
        PROVE  sst[t][k].off <= vlogStable /\ (sst[t][k].off <= Len(vlog') /\ vlog'[sst[t][k].off] = sst[t][k].w)
    <3>1. sst[t][k].off \in Nat
      BY Zenon DEF EngineInv, TypeInv, FilesType, Table
    <3>2. sst[t][k].off <= vlogStable /\ Resolves(sst[t][k])
      BY Zenon, <2>2 DEF EngineInv, RefsInv
    <3> QED
      BY Zenon, <1>14, <1>16, <2>2, <3>1, <3>2, StillResolves
  <2>3. \A k \in Keys : M[k].off # 0 => M[k].off <= Len(vlog') /\ vlog'[M[k].off] = M[k].w
    BY Zenon, <1>9
  <2>4. flusher' = "idle"
    BY Zenon, <1>1, <1>4
  <2> QED
    BY Zenon, <1>1, <1>8, <2>1, <2>2, <2>3, <2>4 DEF RefsInv, Resolves
<1>33. PendingInv'
  <2>1. \A n \in DOMAIN wal' : Pending(n)'
    BY Zenon, <1>3, <1>7, <1>17 DEF Pending
  <2>2. ASSUME M = EmptyTable, NEW n \in DOMAIN wal PROVE wal[n] = <<>>
    <3> SUFFICES ASSUME wal[n] # <<>> PROVE FALSE
      BY Zenon
    <3>1. wal[n] \in Seq(Nat)
      BY Zenon DEF EngineInv, TypeInv, FilesType
    <3>2. 1 \in 1..Len(wal[n])
      BY <3>1
    <3> PICK w : w = wal[n][1]
      BY Zenon
    <3>3. InLog(n, w) /\ w \in 1..Len(writes)
      BY Zenon, <1>6, <3>2 DEF InLog, EngineInv, LogsInv
    <3>4. writes[w].key \in Keys
      BY Zenon, <3>3, KeyOf DEF EngineInv, TypeInv, FilesType
    <3> PICK k : k = writes[w].key
      BY Zenon
    <3>5. w <= M[k].w
      BY Zenon, <1>9, <3>3, <3>4 DEF WriteTo
    <3>6. M[k].w = 0
      BY <2>2, <3>4 DEF EmptyTable, NoEntry
    <3> QED
      BY <1>10, <3>3, <3>5, <3>6
  <2>3. phase' # "closed"
    BY Zenon, <1>1
  <2> QED
    BY Zenon, <1>2, <1>7, <1>8, <2>1, <2>2, <2>3 DEF PendingInv
<1> QED
  BY Zenon, <1>18, <1>19, <1>20, <1>21, <1>23, <1>24, <1>25, <1>26, <1>28, <1>29, <1>30, <1>31,
     <1>32, <1>33 DEF EngineInv, TypeInv

-----------------------------------------------------------------------------
(* The invariant holds at all times *)

\* An empty directory.
LEMMA InitEngine ==
  ASSUME Init
  PROVE  EngineInv
<1>1. /\ wal = <<>> /\ walStable = 0 /\ sst = <<>> /\ cached = {} /\ manifest = {}
      /\ vlog = <<>> /\ vlogStable = 0 /\ clock = 0 /\ phase = "closed"
      /\ mems = <<>> /\ activeWal = 0 /\ walPaths = <<>> /\ memBytes = 0
      /\ immutable = <<>> /\ flushCh = <<>> /\ ~flushErr /\ walFile = "open"
      /\ writer = "idle" /\ batch = <<>> /\ nextWal = 0
      /\ flusher = "idle" /\ flushing = [mem |-> 0, paths |-> <<>>] /\ flushed = 0
      /\ writes = <<>> /\ latest = [k \in Keys |-> 0] /\ acked = [k \in Keys |-> 0]
      /\ faults = 0 /\ opts \in Scenarios
  BY Zenon DEF Init
<1>2. DOMAIN wal = {} /\ DOMAIN sst = {} /\ DOMAIN mems = {}
  BY <1>1
<1>3. ~Up /\ ~Sending /\ ~Writing
  BY Zenon, <1>1 DEF Up, Down, Sending, Writing
<1>4. FilesType
  <2>1. wal \in [DOMAIN wal -> Seq(Nat)] /\ sst \in [DOMAIN sst -> Table]
    BY <1>1, <1>2
  <2>2. writes \in Seq([key : Keys, kind : {"inline", "empty", "large", "tombstone"}])
    BY <1>1
  <2>3. vlog \in Seq(Nat) /\ 0 \in Nat
    BY <1>1
  <2> QED
    BY Zenon, <1>1, <1>2, <2>1, <2>2, <2>3 DEF FilesType
<1>5. HandleType
  <2>1. mems \in [DOMAIN mems -> Table] /\ flushing \in Item
    BY <1>1, <1>2 DEF Item
  <2>2. walPaths \in Seq(Nat) /\ immutable \in Seq(Item) /\ flushCh \in Seq(Item) /\ 0 \in Nat
    BY <1>1
  <2> QED
    BY Zenon, <1>1, <1>2, <2>1, <2>2 DEF HandleType
<1>6. WorkType
  <2>1. batch \in Seq([w : Nat, off : Nat]) /\ 0 \in Nat
    BY <1>1
  <2> QED
    BY Zenon, <1>1, <2>1 DEF WorkType
<1>7. KeysInv /\ LogsInv
  BY Zenon, <1>1, <1>2 DEF KeysInv, LogsInv
<1>8. DownInv /\ ActiveInv /\ WriterInv /\ CoverInv
  BY Zenon, <1>1, <1>3 DEF DownInv, ActiveInv, WriterInv, CoverInv
<1>9. QueueInv
  BY Zenon, <1>1, <1>3, RangeSmall DEF QueueInv, Items
<1>10. LatestInv /\ KeptInv /\ AckInv
  BY Zenon, <1>1, <1>2, <1>3 DEF LatestInv, KeptInv, AckInv
<1>11. RefsInv
  <2>1. vlogStable <= Len(vlog)
    BY <1>1
  <2> QED
    BY Zenon, <1>1, <1>2, <2>1 DEF RefsInv
<1>12. PendingInv
  BY Zenon, <1>1, <1>2, <1>3 DEF PendingInv
<1> QED
  BY Zenon, <1>4, <1>5, <1>6, <1>7, <1>8, <1>9, <1>10, <1>11, <1>12 DEF EngineInv, TypeInv

\* Every step of a goroutine, of Close, every crash and every openDB keeps it.
LEMMA NextStep ==
  ASSUME ~PowerLoss, EngineInv, [Next]_vars
  PROVE  EngineInv'
<1>1. CASE Writer
  BY Zenon, <1>1, StoreBatchStep, AppendWalStep, AppendWalFailsStep, SyncWalStep,
     SyncWalFailsStep, ApplyStep, RotateCreateStep, RotateSwapStep, RotateCloseFailsStep,
     RotateSendStep DEF Writer
<1>2. CASE Flusher
  BY Zenon, <1>2, FlushTakeStep, FlushWriteStep, FlushInstallStep, FlushRemoveStep,
     FlushFailsStep DEF Flusher
<1>3. CASE Get
  BY Zenon, <1>3, GetStep
<1>4. CASE Close
  BY Zenon, <1>4, MarkClosedStep, CloseMemtableStep, CloseWalFailsStep, CloseSendStep,
     CloseStorageStep DEF Close
<1>5. CASE Crash \/ Open
  BY Zenon, <1>5, CrashStep, OpenStep
<1>6. CASE UNCHANGED vars
  <2>1. UNCHANGED <<wal, walStable, sst, cached, manifest, vlog, vlogStable, clock, phase, mems,
                    activeWal, walPaths, memBytes, immutable, flushCh, tables, flushErr,
                    walFile, writer, batch, nextWal, flusher, flushing, flushed, writes,
                    latest, acked, faults, opts>>
    BY Zenon, <1>6 DEF vars, files, dbVars, wrVars, flVars
  <2>2. TypeInv'
    BY Zenon, <2>1, SameFilesType, SameHandleType, SameWorkType DEF EngineInv, TypeInv
  <2>3. KeysInv' /\ LogsInv' /\ DownInv' /\ ActiveInv'
    BY Zenon, <2>1, SameKeys, SameLogs, SameDown, SameActive DEF EngineInv
  <2>4. QueueInv' /\ WriterInv' /\ LatestInv' /\ CoverInv'
    BY Zenon, <2>1, SameQueue, SameWriter, SameLatest, SameCover DEF EngineInv
  <2>5. KeptInv' /\ AckInv' /\ RefsInv' /\ PendingInv'
    BY Zenon, <2>1, SameKept, SameAck, SameRefs, SamePending DEF EngineInv
  <2> QED
    BY Zenon, <2>2, <2>3, <2>4, <2>5 DEF EngineInv
<1> QED
  BY Zenon, <1>1, <1>2, <1>3, <1>4, <1>5, <1>6 DEF Next

\* What memory, logs, tables, MANIFEST and the value log hold agrees at all times,
\* whatever operating system errors occur and wherever the process crashes or is
\* opened again (db.go).  Tables are not fsynced (sstable.Flush), so that a loss of
\* power is excluded.
THEOREM EngineInvariant ==
  ASSUME ~PowerLoss
  PROVE  Spec => []EngineInv
<1>1. Init => EngineInv
  BY Zenon, InitEngine
<1>2. EngineInv /\ [Next]_vars => EngineInv'
  BY Zenon, NextStep
<1> QED
  BY <1>1, <1>2, PTL DEF Spec

\* An acknowledged synchronous write is in an fsynced log record or in a table of
\* MANIFEST.
LEMMA AckedKept ==
  ASSUME EngineInv
  PROVE  AckedOnDisk
<1> SUFFICES ASSUME SyncWrites, NEW k \in Keys, acked[k] # 0
             PROVE  \E w \in Surviving(IF phase \in Down THEN wal ELSE StableLogs, k) : w >= acked[k]
  BY Zenon DEF AckedOnDisk
<1>1. CASE phase \in Down
  <2>1. \E w \in Surviving(wal, k) : w >= acked[k]
    BY Zenon, <1>1 DEF EngineInv, AckInv, Up
  <2> QED
    BY Zenon, <1>1, <2>1
<1>2. CASE phase \notin Down
  <2>1. Up
    BY Zenon, <1>2 DEF Up
  <2> PICK logs : logs = StableLogs
    BY Zenon
  <2>2. wal \in [DOMAIN wal -> Seq(Nat)] /\ walStable \in Nat
        /\ (activeWal \in DOMAIN wal => walStable <= Len(wal[activeWal]))
    BY Zenon, <2>1 DEF EngineInv, TypeInv, FilesType, ActiveInv
  <2>3. ASSUME NEW n \in DOMAIN wal
        PROVE  n \in DOMAIN logs /\ \A i \in 1..SafeLen(n) : wal[n][i] \in Range(logs[n])
    <3>1. DOMAIN logs = DOMAIN wal
      BY Zenon DEF StableLogs
    <3>2. CASE n # activeWal
      <4>1. logs[n] = wal[n] /\ SafeLen(n) = Len(wal[n])
        BY Zenon, <3>2 DEF StableLogs, SafeLen
      <4>2. DOMAIN wal[n] = 1..Len(wal[n])
        BY <2>2
      <4> QED
        BY Zenon, <3>1, <4>1, <4>2 DEF Range
    <3>3. CASE n = activeWal
      <4>1. logs[n] = SubSeq(wal[n], 1, walStable) /\ SafeLen(n) = walStable
        BY Zenon, <3>3 DEF StableLogs, SafeLen
      <4>2. wal[n] \in Seq(Nat) /\ walStable <= Len(wal[n])
        BY Zenon, <2>2, <3>3
      <4>3. \A s \in Seq(Nat), c \in Nat : c <= Len(s) =>
              DOMAIN SubSeq(s, 1, c) = 1..c /\ \A i \in 1..c : SubSeq(s, 1, c)[i] = s[i]
        OBVIOUS
      <4>4. DOMAIN logs[n] = 1..walStable /\ \A i \in 1..walStable : logs[n][i] = wal[n][i]
        BY Zenon, <2>2, <4>1, <4>2, <4>3
      <4>5. \A i \in 1..walStable : wal[n][i] \in Range(logs[n])
        BY Zenon, <4>4 DEF Range
      <4> QED
        BY Zenon, <3>1, <4>1, <4>5
    <3> QED
      BY Zenon, <3>2, <3>3
  <2>4. \E w \in Surviving(logs, k) : w >= acked[k]
    BY Zenon, <2>1, <2>3, AckedSurvives
  <2> QED
    BY Zenon, <1>2, <2>4
<1> QED
  BY Zenon, <1>1, <1>2

\* A write whose Put or Delete returned nil in a synchronous mode is never without
\* a durable copy: rotateMemtable fsyncs the log before it is handed over, and
\* removeWALFiles (db.go:734) only follows a MANIFEST that names its table.
THEOREM AckedStaysOnDisk ==
  ASSUME ~PowerLoss
  PROVE  Spec => []AckedOnDisk
<1>1. EngineInv => AckedOnDisk
  BY Zenon, AckedKept
<1> QED
  BY <1>1, EngineInvariant, PTL

\* Every write that reached a memtable stays in a log or in a table of MANIFEST as
\* long as the process runs, and after a Close that returned nil, asynchronous
\* writes included, whichever fsync, flush or manifest write fails.
THEOREM NothingIsDropped ==
  ASSUME ~PowerLoss
  PROVE  Spec => []NothingDropped
<1>1. EngineInv => NothingDropped
  <2> SUFFICES ASSUME EngineInv, phase # "down", NEW k \in Keys, latest[k] # 0
               PROVE  \E w \in Surviving(wal, k) : w >= latest[k]
    BY Zenon DEF NothingDropped
  <2>1. WriteTo(latest[k], k) /\ Kept(k)
    BY Zenon DEF EngineInv, KeysInv, KeptInv
  <2>2. \A n \in DOMAIN wal : 1..SafeLen(n) \subseteq 1..Len(wal[n])
    <3> TAKE n \in DOMAIN wal
    <3>1. SafeLen(n) = Len(wal[n]) \/ (n = activeWal /\ SafeLen(n) = walStable)
      BY Zenon DEF SafeLen
    <3>2. Len(wal[n]) \in Nat /\ walStable \in Nat
      BY DEF EngineInv, TypeInv, FilesType
    <3>3. n = activeWal => walStable <= Len(wal[n]) \/ walStable = 0
      BY Zenon DEF EngineInv, ActiveInv, DownInv
    <3> QED
      BY <3>1, <3>2, <3>3
  <2>3. (\E n \in DOMAIN wal : InLog(n, latest[k])) \/ (\E t \in manifest : sst[t][k].w = latest[k])
    BY Zenon, <2>1, <2>2 DEF Kept, InLog
  <2>4. latest[k] \in Surviving(wal, k)
    BY Zenon, <2>1, <2>3, SurvivesIff DEF EngineInv, TypeInv
  <2>5. latest[k] >= latest[k]
    BY DEF EngineInv, TypeInv, WorkType
  <2> QED
    BY Zenon, <2>4, <2>5
<1> QED
  BY <1>1, EngineInvariant, PTL

\* Every reference that a memtable or a table of MANIFEST holds points at the
\* record of its own write, and for tables that record is fsynced: the truncation
\* in vlog.Open never cuts off a value that a table needs.
THEOREM RefsAlwaysResolve ==
  ASSUME ~PowerLoss
  PROVE  Spec => []RefsResolve
<1>1. EngineInv => RefsResolve
  BY Zenon DEF EngineInv, RefsInv, RefsResolve
<1> QED
  BY <1>1, EngineInvariant, PTL

\* When Close returns nil every log record has become part of a table.
THEOREM CloseIsClean ==
  ASSUME ~PowerLoss
  PROVE  Spec => []CleanClose
<1>1. EngineInv => CleanClose
  <2> SUFFICES ASSUME EngineInv, phase = "closed" PROVE \A n \in DOMAIN wal : wal[n] = <<>>
    BY Zenon DEF CleanClose
  <2>1. ~flushErr
    BY Zenon DEF EngineInv, DownInv, Up, Down
  <2> QED
    BY Zenon, <2>1 DEF EngineInv, PendingInv
<1> QED
  BY <1>1, EngineInvariant, PTL

=============================================================================
