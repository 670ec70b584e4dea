---------------------------- MODULE EngineWrites ----------------------------
(***************************************************************************)
(* The steps of the writer that put a batch into the value log, into the   *)
(* write-ahead log and into the memtable keep the engine's invariant.      *)
(***************************************************************************)
EXTENDS EngineSteps, OrderProofs

-----------------------------------------------------------------------------
(* appendBatch and memtable.Put *)

\* The sequence t is s followed by the m numbers from b + 1.
Extends(t, s, m, b) ==
  /\ t \in Seq(Nat) /\ Len(t) = Len(s) + m
  /\ \A i \in 1..Len(t) : \/ i \in 1..Len(s) /\ t[i] = s[i]
                          \/ i > Len(s) /\ t[i] = b + (i - Len(s))

\* appendBatch extends the active log.
LEMMA Joined ==
  ASSUME NEW s \in Seq(Nat), NEW r \in Seq(Nat), NEW b \in Nat,
         \A i \in 1..Len(r) : r[i] = b + i
  PROVE  Extends(s \o r, s, Len(r), b)
<1>1. /\ s \o r \in Seq(Nat) /\ Len(s \o r) = Len(s) + Len(r) /\ Len(s) \in Nat
      /\ Len(r) \in Nat /\ \A i \in 1..Len(s) : (s \o r)[i] = s[i]
  OBVIOUS
<1>2. ASSUME NEW i \in 1..Len(r) PROVE (s \o r)[Len(s) + i] = b + i
  <2>1. (s \o r)[Len(s) + i] = r[i]
    OBVIOUS
  <2> QED
    BY Zenon, <2>1
<1> PICK t, c, d : t = s \o r /\ c = Len(s) /\ d = Len(r)
  BY Zenon
<1>3. ASSUME NEW i \in 1..c + d, ~(i \in 1..c)
      PROVE  i > c /\ t[i] = b + (i - c)
  <2> PICK j : j = i - c
    BY Zenon
  <2>1. c \in Nat /\ d \in Nat
    BY Zenon, <1>1
  <2>2. j \in 1..d /\ i = c + j /\ i > c
    BY ONLY <1>3, <2>1, j = i - c
  <2> QED
    BY Zenon, <1>2, <2>2
<1> QED
  BY Zenon, <1>1, <1>3 DEF Extends

\* It has the elements of s, and then larger ones up to b + m.
Grows(t, s, m, b) ==
  /\ t \in Seq(Nat) /\ Len(t) = Len(s) + m /\ Len(s) <= Len(t)
  /\ 1..Len(s) \subseteq 1..Len(t) /\ \A i \in 1..Len(s) : t[i] = s[i]
  /\ \A i \in 1..m : \E j \in 1..Len(t) : t[j] = b + i
  /\ \A i \in 1..Len(t) : t[i] \in 1..b + m
  /\ \A i \in 1..Len(t) : t[i] <= b => i \in 1..Len(s) /\ t[i] = s[i]
  /\ \A i, j \in 1..Len(t) : i < j => t[i] < t[j]

\* An increasing log with records up to b grows so.
LEMMA Extended ==
  ASSUME NEW s \in Seq(Nat), NEW m \in Nat, NEW b \in Nat, NEW t, Extends(t, s, m, b),
         \A i \in 1..Len(s) : s[i] \in 1..b,
         \A i, j \in 1..Len(s) : i < j => s[i] < s[j]
  PROVE  Grows(t, s, m, b)
<1>1. t \in Seq(Nat) /\ Len(t) = Len(s) + m /\ Len(s) \in Nat
  BY DEF Extends
<1>2. \A i \in 1..Len(t) : \/ i \in 1..Len(s) /\ t[i] = s[i]
                           \/ i > Len(s) /\ t[i] = b + (i - Len(s))
  BY Zenon DEF Extends
<1>3. Len(s) <= Len(t) /\ 1..Len(s) \subseteq 1..Len(t)
  BY <1>1
<1>4. \A i \in 1..Len(s) : t[i] = s[i]
  BY <1>2, <1>3
<1>5. ASSUME NEW i \in 1..m PROVE \E j \in 1..Len(t) : t[j] = b + i
  <2>1. Len(s) + i \in 1..Len(t) /\ ~(Len(s) + i \in 1..Len(s)) /\ (Len(s) + i) - Len(s) = i
    BY <1>1
  <2> QED
    BY Zenon, <1>2, <2>1
<1>6. ASSUME NEW i \in 1..Len(t) PROVE t[i] \in 1..b + m
  <2>1. CASE i \in 1..Len(s) /\ t[i] = s[i]
    <3>1. t[i] \in 1..b
      BY Zenon, <2>1
    <3> QED
      BY <3>1
  <2>2. CASE i > Len(s) /\ t[i] = b + (i - Len(s))
    BY <1>1, <2>2
  <2> QED
    BY Zenon, <1>2, <2>1, <2>2
<1>7. ASSUME NEW i \in 1..Len(t), t[i] <= b PROVE i \in 1..Len(s) /\ t[i] = s[i]
  BY <1>1, <1>2, <1>7
<1>8. ASSUME NEW i \in 1..Len(t), NEW j \in 1..Len(t), i < j PROVE t[i] < t[j]
  <2>1. CASE i \in 1..Len(s) /\ t[i] = s[i] /\ j \in 1..Len(s) /\ t[j] = s[j]
    BY Zenon, <1>8, <2>1
  <2>2. CASE i \in 1..Len(s) /\ t[i] = s[i] /\ j > Len(s) /\ t[j] = b + (j - Len(s))
    <3> PICK x : x = t[i]
      BY Zenon
    <3>1. x \in 1..b
      BY Zenon, <2>2
    <3>2. \A y \in 1..b, l \in Nat, z \in Nat : z > l => y < b + (z - l)
      OBVIOUS
    <3>3. Len(s) \in Nat /\ j \in Nat
      BY <1>1
    <3>4. x < b + (j - Len(s))
      BY Zenon, <2>2, <3>1, <3>2, <3>3
    <3> QED
      BY Zenon, <2>2, <3>4
  <2>3. CASE i > Len(s) /\ t[i] = b + (i - Len(s)) /\ j > Len(s) /\ t[j] = b + (j - Len(s))
    BY <1>1, <1>8, <2>3
  <2>4. ~(i > Len(s) /\ j \in 1..Len(s))
    BY <1>1, <1>8
  <2> QED
    BY Zenon, <1>2, <2>1, <2>2, <2>3, <2>4
<1> QED
  BY Zenon, <1>1, <1>3, <1>4, <1>5, <1>6, <1>7, <1>8 DEF Grows

\* The records of a batch are newer than any other record of a log.
LEMMA AppendStep ==
  ASSUME EngineInv, writer = "log", NEW m \in 0..Len(batch), NEW t,
         Extends(t, wal[activeWal], m, Len(writes) - Len(batch)),
         wal' = [wal EXCEPT ![activeWal] = t],
         writer' \in {"idle", "sync", "apply"},
         UNCHANGED <<walStable, sst, cached, manifest, vlog, vlogStable, clock, phase, mems,
                     activeWal, walPaths, memBytes, immutable, flushCh, tables, nextWal,
                     flusher, flushing, flushed, writes, latest, acked, opts>>
  PROVE  /\ FilesType' /\ HandleType' /\ KeysInv' /\ LogsInv' /\ ActiveInv' /\ QueueInv'
         /\ LatestInv' /\ CoverInv' /\ KeptInv' /\ AckInv' /\ RefsInv'
         /\ \A i \in 1..m : \E j \in 1..Len(wal'[activeWal]) :
                               wal'[activeWal][j] = batch[i].w
<1>1. Writing /\ Up /\ Up' /\ ~Sending /\ ~Sending' /\ activeWal \in DOMAIN wal
  BY Zenon DEF EngineInv, WriterInv, ActiveInv, Writing, Up, Down, Sending
<1> PICK s, b : s = wal[activeWal] /\ b = Len(writes) - Len(batch)
  BY Zenon
<1>2. /\ b \in Nat /\ Len(batch) \in Nat /\ Len(writes) \in Nat /\ Len(writes) = b + Len(batch)
      /\ m \in Nat /\ m <= Len(batch) /\ \A i \in 1..Len(batch) : batch[i].w = b + i
      /\ \A k \in Keys : latest[k] <= b /\ latest[k] \in Nat
  <2>1. Len(batch) \in Nat /\ \A k \in Keys : latest[k] \in Nat
    BY Zenon, Lengths DEF EngineInv
  <2>3. Len(writes) \in Nat
    BY Zenon, Lengths DEF EngineInv, TypeInv, FilesType
  <2>2. /\ Len(batch) <= Len(writes)
        /\ \A i \in 1..Len(batch) : batch[i].w = b + i
        /\ \A k \in Keys : latest[k] <= b
    BY Zenon DEF EngineInv, WriterInv
  <2> QED
    BY <2>1, <2>2, <2>3
<1>5. s \in Seq(Nat) /\ Len(s) \in Nat /\ wal \in [DOMAIN wal -> Seq(Nat)]
  BY Zenon, <1>1, Lengths DEF EngineInv, TypeInv, FilesType
<1>3. Logged = b /\ Logged' = Len(writes)
  BY Zenon DEF Logged
<1>4. \A n \in DOMAIN wal : \A i \in 1..Len(wal[n]) : wal[n][i] \in 1..b
  BY Zenon, <1>3 DEF EngineInv, LogsInv
<1>6. /\ t \in Seq(Nat) /\ Len(s) <= Len(t) /\ Len(t) \in Nat
      /\ 1..Len(s) \subseteq 1..Len(t) /\ \A i \in 1..Len(s) : t[i] = s[i]
      /\ \A i \in 1..m : \E j \in 1..Len(t) : t[j] = b + i
      /\ \A i \in 1..Len(t) : t[i] \in 1..b + m
      /\ \A i \in 1..Len(t) : t[i] <= b => i \in 1..Len(s) /\ t[i] = s[i]
      /\ \A i, j \in 1..Len(t) : i < j => t[i] < t[j]
  <2>1. \A i, j \in 1..Len(s) : i < j => s[i] < s[j]
    BY Zenon, <1>1 DEF EngineInv, LogsInv
  <2>2. Extends(t, s, m, b)
    BY Zenon
  <2>3. Len(t) \in Nat
    BY <2>2 DEF Extends
  <2>4. \A i \in 1..Len(s) : s[i] \in 1..b
    BY Zenon, <1>1, <1>4
  <2>5. m \in Nat /\ b \in Nat /\ s \in Seq(Nat)
    BY Zenon, <1>2, <1>5
  <2>6. Grows(t, s, m, b)
    BY Zenon, <2>1, <2>2, <2>4, <2>5, Extended
  <2> QED
    BY Zenon, <2>3, <2>6 DEF Grows
<1>8. /\ wal' \in [DOMAIN wal -> Seq(Nat)] /\ DOMAIN wal' = DOMAIN wal
      /\ wal'[activeWal] = t /\ \A n \in DOMAIN wal : n # activeWal => wal'[n] = wal[n]
  BY Zenon, <1>1, <1>5, <1>6
<1>9. FilesType' /\ HandleType'
  <2>1. HandleType'
    BY Zenon, SameHandleType DEF EngineInv, TypeInv
  <2> QED
    BY Zenon, <1>8, <2>1 DEF EngineInv, TypeInv, FilesType
<1>10. KeysInv' /\ LatestInv' /\ RefsInv'
  BY Zenon, SameKeys, SameLatest, SameRefs DEF EngineInv
<1>11. QueueInv'
  BY Zenon, <1>1 DEF EngineInv, QueueInv, Items, Writing
<1>12. \A n \in DOMAIN wal, k \in Keys : InLog(n, latest[k])' => InLog(n, latest[k])
  <2> SUFFICES ASSUME NEW k \in Keys, NEW i \in 1..Len(t), t[i] = latest[k]
               PROVE  \E j \in 1..Len(s) : s[j] = latest[k]
    BY <1>8 DEF InLog
  <2>1. t[i] <= b
    BY Zenon, <1>2
  <2> QED
    BY Zenon, <1>6, <2>1
<1>13. \A x, paths : Covers(x, paths) => Covers(x, paths)'
  BY <1>8, <1>12 DEF Covers
<1>14. CoverInv'
  BY Zenon, <1>1, <1>13 DEF EngineInv, CoverInv
<1>15. \A n \in DOMAIN wal : \A i \in 1..SafeLen(n) :
          i \in 1..SafeLen(n)' /\ (i \in 1..Len(wal[n]) /\ wal'[n][i] = wal[n][i])
  <2>1. \A n \in DOMAIN wal : n # activeWal => SafeLen(n)' = Len(wal[n]) /\ SafeLen(n) = Len(wal[n])
    BY Zenon, <1>8 DEF SafeLen
  <2>2. \A n \in DOMAIN wal : n # activeWal => \A i \in 1..SafeLen(n) :
          i \in 1..SafeLen(n)' /\ (i \in 1..Len(wal[n]) /\ wal'[n][i] = wal[n][i])
    BY Zenon, <1>8, <2>1
  <2>3. walStable \in Nat /\ walStable <= Len(s)
    BY Zenon, <1>1 DEF EngineInv, TypeInv, FilesType, ActiveInv
  <2>4. CASE SyncWrites
    <3>1. SafeLen(activeWal) = walStable /\ SafeLen(activeWal)' = walStable
      BY Zenon, <2>4 DEF SafeLen, SyncWrites
    <3>2. 1..walStable \subseteq 1..Len(s)
      BY <1>5, <2>3
    <3> QED
      BY Zenon, <1>6, <1>8, <2>2, <3>1, <3>2
  <2>5. CASE ~SyncWrites
    <3>1. SafeLen(activeWal) = Len(s) /\ SafeLen(activeWal)' = Len(t)
      BY Zenon, <1>8, <2>5 DEF SafeLen, SyncWrites
    <3> QED
      BY Zenon, <1>6, <1>8, <2>2, <3>1
  <2> QED
    BY Zenon, <2>4, <2>5
<1>16. KeptInv'
  <2>1. Doomed' = Doomed
    BY Zenon DEF Doomed
  <2>2. \A k \in Keys : Kept(k) => Kept(k)'
    BY <1>8, <1>15, <2>1 DEF Kept
  <2> QED
    BY Zenon, <2>2 DEF EngineInv, KeptInv
<1>17. AckInv'
  BY Zenon, <1>1 DEF EngineInv, AckInv, SyncWrites
<1>18. ActiveInv'
  <2>1. walStable <= Len(s) /\ walStable \in Nat
    BY Zenon, <1>1 DEF EngineInv, ActiveInv, TypeInv, FilesType
  <2>2. walStable <= Len(t)
    BY <1>2, <1>5, <1>6, <2>1
  <2>3. activeWal <= activeWal
    BY DEF EngineInv, TypeInv, HandleType
  <2> QED
    BY Zenon, <1>1, <1>8, <2>2, <2>3 DEF EngineInv, ActiveInv, Writing
<1>19. LogsInv'
  <2>4. \A i \in 1..Len(t) : t[i] \in 1..Len(writes)
    <3>1. 1..b + m \subseteq 1..Len(writes)
      BY <1>2
    <3> QED
      BY Zenon, <1>6, <3>1
  <2>6. ASSUME NEW n \in DOMAIN wal, n < activeWal, NEW i \in 1..Len(wal[n]), NEW j \in 1..Len(t)
        PROVE  wal[n][i] < t[j]
    <3>1. wal[n][i] \in 1..b /\ t[j] \in 1..b + m
      BY Zenon, <1>4, <1>6
    <3>2. t[j] <= b => wal[n][i] < t[j]
      BY Zenon, <1>1, <1>6, <2>6 DEF EngineInv, LogsInv
    <3> QED
      BY <1>2, <3>1, <3>2
  <2>7. \A n \in DOMAIN wal : activeWal < n => Len(wal[n]) = 0
    <3>1. \A n \in DOMAIN wal : n \in Nat /\ activeWal \in Nat
      BY Zenon, Lengths DEF EngineInv, TypeInv, HandleType
    <3>2. \A n \in DOMAIN wal : n <= activeWal \/ wal[n] = <<>>
      BY Zenon, <1>1 DEF EngineInv, ActiveInv
    <3> QED
      BY <3>1, <3>2
  <2>8. \A n \in DOMAIN wal : \A i \in 1..Len(wal[n]) : wal[n][i] \in 1..Len(writes)
    BY <1>2, <1>4
  <2>9. ASSUME NEW n \in DOMAIN wal, NEW i \in 1..Len(wal'[n]) PROVE wal'[n][i] \in 1..Len(writes)
    <3>1. CASE n = activeWal
      BY Zenon, <1>8, <2>4, <3>1
    <3>2. CASE n # activeWal
      <4>1. wal'[n] = wal[n]
        BY Zenon, <1>8, <3>2
      <4> QED
        BY Zenon, <2>8, <4>1
    <3> QED
      BY Zenon, <3>1, <3>2
  <2>10. ASSUME NEW n \in DOMAIN wal
         PROVE  \A i, j \in 1..Len(wal'[n]) : i < j => wal'[n][i] < wal'[n][j]
    <3>1. CASE n = activeWal
      BY Zenon, <1>6, <1>8, <3>1
    <3>2. CASE n # activeWal
      <4>1. wal'[n] = wal[n]
        BY Zenon, <1>8, <3>2
      <4> QED
        BY Zenon, <4>1 DEF EngineInv, LogsInv
    <3> QED
      BY Zenon, <3>1, <3>2
  <2>11. ASSUME NEW n \in DOMAIN wal, NEW p \in DOMAIN wal, n < p,
                NEW i \in 1..Len(wal'[n]), NEW j \in 1..Len(wal'[p])
         PROVE  wal'[n][i] < wal'[p][j]
    <3>1. CASE p = activeWal
      <4>1. n # activeWal
        BY <2>11, <3>1 DEF EngineInv, TypeInv, HandleType
      <4>2. wal'[n] = wal[n] /\ wal'[p] = t
        BY Zenon, <1>8, <3>1, <4>1
      <4> QED
        BY Zenon, <2>6, <2>11, <3>1, <4>2
    <3>2. CASE p # activeWal /\ n = activeWal
      <4>1. wal'[p] = wal[p] /\ Len(wal[p]) = 0
        BY Zenon, <1>8, <2>7, <2>11, <3>2
      <4>2. j \in 1..0
        BY Zenon, <4>1
      <4> QED
        BY <4>2
    <3>3. CASE p # activeWal /\ n # activeWal
      <4>1. wal'[p] = wal[p] /\ wal'[n] = wal[n]
        BY Zenon, <1>8, <3>3
      <4> QED
        BY Zenon, <2>11, <4>1 DEF EngineInv, LogsInv
    <3> QED
      BY Zenon, <3>1, <3>2, <3>3
  <2>12. \A n \in DOMAIN wal' : \A i \in 1..Len(wal'[n]) : wal'[n][i] \in 1..Logged'
    BY Zenon, <1>3, <1>8, <2>9
  <2>13. \A n, p \in DOMAIN wal' : n < p =>
           \A i \in 1..Len(wal'[n]), j \in 1..Len(wal'[p]) : wal'[n][i] < wal'[p][j]
    <3>1. DOMAIN wal' = DOMAIN wal
      BY Zenon, <1>8
    <3> QED
      BY Zenon, <2>11, <3>1
  <2> QED
    BY Zenon, <1>8, <2>10, <2>12, <2>13 DEF LogsInv
<1>20. \A i \in 1..m : \E j \in 1..Len(wal'[activeWal]) : wal'[activeWal][j] = batch[i].w
  <2> TAKE i \in 1..m
  <2>0. 1..m \subseteq 1..Len(batch)
    BY <1>2
  <2>1. batch[i].w = b + i
    BY Zenon, <1>2, <2>0
  <2> QED
    BY <1>6, <1>8, <2>1
<1> QED
  BY Zenon, <1>9, <1>10, <1>11, <1>14, <1>16, <1>17, <1>18, <1>19, <1>20

\* The records of a batch extend the active log.
LEMMA BatchExtends ==
  ASSUME EngineInv, writer = "log", NEW m \in 0..Len(batch),
         NEW r, r = SubSeq(BatchWrites, 1, m) \/ (r = BatchWrites /\ m = Len(batch))
  PROVE  Extends(wal[activeWal] \o r, wal[activeWal], m, Len(writes) - Len(batch))
<1> PICK s, b : s = wal[activeWal] /\ b = Len(writes) - Len(batch)
  BY Zenon
<1>1. s \in Seq(Nat)
  BY Zenon DEF EngineInv, TypeInv, FilesType, WriterInv, ActiveInv, Writing, Up, Down
<1>2. Len(batch) \in Nat
  BY Zenon, Lengths DEF EngineInv
<1>3. Len(writes) \in Nat
  BY Zenon, Lengths DEF EngineInv, TypeInv, FilesType
<1>4. b \in Nat /\ \A i \in 1..Len(batch) : batch[i].w = b + i
  <2>1. Len(batch) <= Len(writes) /\ \A i \in 1..Len(batch) : batch[i].w = b + i
    BY Zenon DEF EngineInv, WriterInv
  <2> QED
    BY <1>2, <1>3, <2>1
<1>5. BatchWrites \in Seq(Nat) /\ Len(BatchWrites) = Len(batch)
      /\ \A i \in 1..Len(batch) : BatchWrites[i] = b + i
  BY <1>2, <1>4 DEF BatchWrites
<1>6. r \in Seq(Nat) /\ Len(r) = m /\ \A i \in 1..Len(r) : r[i] = b + i
  <2>1. CASE r = BatchWrites /\ m = Len(batch)
    BY Zenon, <1>5, <2>1
  <2>2. CASE r = SubSeq(BatchWrites, 1, m)
    <3>1. m \in Nat /\ m <= Len(BatchWrites) /\ 1..m \subseteq 1..Len(batch)
      BY <1>2, <1>5
    <3>2. r \in Seq(Nat) /\ Len(r) = m /\ \A i \in 1..m : r[i] = BatchWrites[i]
      BY <1>5, <2>2, <3>1
    <3> QED
      BY Zenon, <1>5, <3>1, <3>2
  <2> QED
    BY Zenon, <2>1, <2>2
<1> QED
  BY Zenon, <1>1, <1>4, <1>6, Joined

\* The batch is in the log of the memtable that it will go to.
LEMMA AppendWalStep ==
  ASSUME EngineInv, AppendWal
  PROVE  EngineInv'
<1> USE DEF dbVars, flVars
<1>1. /\ writer = "log" /\ wal' = [wal EXCEPT ![activeWal] = @ \o BatchWrites]
      /\ writer' = IF SyncWrites THEN "sync" ELSE "apply"
      /\ UNCHANGED <<walStable, sst, cached, manifest, vlog, vlogStable, clock, phase, mems,
                     activeWal, walPaths, memBytes, immutable, flushCh, tables, nextWal,
                     flusher, flushing, flushed, writes, latest, acked, opts>>
      /\ UNCHANGED <<batch, flushErr, walFile, faults>>
  BY Zenon DEF AppendWal
<1>2. writer' \in {"sync", "apply"} /\ Writing /\ Up /\ activeWal \in DOMAIN wal
      /\ activeWal \in Range(walPaths)
  BY Zenon, <1>1 DEF EngineInv, WriterInv, ActiveInv, Writing, Up, Down
<1> PICK t, m : t = wal[activeWal] \o BatchWrites /\ m = Len(batch)
  BY Zenon
<1>3. wal' = [wal EXCEPT ![activeWal] = t]
  BY Zenon, <1>1
<1>4. m \in 0..Len(batch)
  BY DEF EngineInv, TypeInv, WorkType
<1>5. Extends(t, wal[activeWal], m, Len(writes) - Len(batch))
  BY Zenon, <1>1, <1>4, BatchExtends
<1>6. /\ FilesType' /\ HandleType' /\ KeysInv' /\ LogsInv' /\ ActiveInv' /\ QueueInv'
      /\ LatestInv' /\ CoverInv' /\ KeptInv' /\ AckInv' /\ RefsInv'
      /\ \A i \in 1..m : \E j \in 1..Len(wal'[activeWal]) : wal'[activeWal][j] = batch[i].w
  <2>1. writer' \in {"idle", "sync", "apply"}
    BY Zenon, <1>2
  <2> HIDE DEF dbVars, flVars
  <2> QED
    BY Zenon, <1>1, <1>3, <1>4, <1>5, <2>1, AppendStep
<1>7. WorkType'
  BY Zenon, <1>1, <1>2 DEF EngineInv, TypeInv, WorkType
<1>8. DownInv'
  BY Zenon, <1>1, <1>2 DEF DownInv, Up
<1>9. WriterInv'
  <2>1. \A i \in 1..Len(batch) : InLog(activeWal, batch[i].w)'
    BY Zenon, <1>1, <1>6 DEF InLog
  <2>2. ~(writer' = "apply" /\ SyncWrites')
    BY Zenon, <1>1 DEF SyncWrites
  <2> QED
    BY Zenon, <1>1, <1>2, <2>1, <2>2 DEF EngineInv, WriterInv, Writing, Resolves
<1>10. PendingInv'
  <2>1. \A n \in DOMAIN wal : n # activeWal => wal'[n] = wal[n]
    BY Zenon, <1>3
  <2>2. DOMAIN wal' = DOMAIN wal
    BY Zenon, <1>3
  <2>3. Writing' /\ phase' # "closed" /\ ~Sending /\ ~Sending'
    BY Zenon, <1>1, <1>2 DEF Writing, Sending
  <2>4. \A n \in DOMAIN wal : Pending(n) => Pending(n)'
    BY Zenon, <1>1, <1>2, <2>3 DEF Pending
  <2>5. \A n \in DOMAIN wal : n = activeWal => Pending(n)'
    BY Zenon, <1>1, <1>2, <2>3 DEF Pending
  <2>6. Writing => Up /\ phase # "abandoned"
    BY Zenon DEF Writing, Up, Down
  <2>7. ~flushErr => \A n \in DOMAIN wal : wal[n] = <<>> \/ Pending(n)
    BY Zenon, <1>2, <2>6 DEF EngineInv, PendingInv
  <2>8. ~flushErr => \A n \in DOMAIN wal : wal'[n] = <<>> \/ Pending(n)'
    BY Zenon, <2>1, <2>4, <2>5, <2>7
  <2> QED
    BY Zenon, <1>1, <1>2, <2>2, <2>3, <2>8 DEF PendingInv
<1> QED
  BY Zenon, <1>6, <1>7, <1>8, <1>9, <1>10 DEF EngineInv, TypeInv

\* Records of a batch that failed are newer than what any memtable holds.
LEMMA AppendWalFailsStep ==
  ASSUME EngineInv, AppendWalFails
  PROVE  EngineInv'
<1> USE DEF flVars
<1>1. /\ writer' = "idle" /\ batch' = <<>> /\ flushErr' = TRUE
      /\ UNCHANGED <<walStable, sst, cached, manifest, vlog, vlogStable, clock, phase, mems,
                     activeWal, walPaths, memBytes, immutable, flushCh, tables, nextWal,
                     flusher, flushing, flushed, writes, latest, acked, opts>>
  BY Zenon DEF AppendWalFails, Fault
<1>2. Writing /\ Up /\ Up' /\ ~Sending /\ ~Sending' /\ writer \in {"log", "sync"}
  BY Zenon, <1>1 DEF AppendWalFails, EngineInv, WriterInv, Writing, Up, Down, Sending
<1>3. WorkType'
  <2>1. faults' \in Nat /\ walFile' \in {"open", "failed", "closed"}
    <3>1. faults \in Nat /\ walFile \in {"open", "failed", "closed"}
      BY Zenon DEF EngineInv, TypeInv, WorkType
    <3>2. /\ faults' = faults \/ faults' = faults + 1
          /\ walFile' = walFile \/ walFile' \in {"open", "failed"}
      BY Zenon DEF AppendWalFails, Fault
    <3> QED
      BY <3>1, <3>2
  <2>2. batch' \in Seq([w : Nat, off : Nat])
    BY <1>1
  <2> QED
    BY Zenon, <1>1, <2>1, <2>2 DEF EngineInv, TypeInv, WorkType
<1>4. DownInv' /\ WriterInv' /\ PendingInv'
  BY Zenon, <1>1, <1>2 DEF DownInv, WriterInv, PendingInv
<1>5. /\ FilesType' /\ HandleType' /\ KeysInv' /\ LogsInv' /\ ActiveInv' /\ QueueInv'
      /\ LatestInv' /\ CoverInv' /\ KeptInv' /\ AckInv' /\ RefsInv'
  <2>1. CASE UNCHANGED wal
    <3>1. 1..Logged \subseteq 1..Logged'
      <4>1. Len(writes) \in Nat
        BY Zenon, Lengths DEF EngineInv, TypeInv, FilesType
      <4>2. Len(batch) \in Nat
        BY Zenon, Lengths DEF EngineInv
      <4> QED
        BY <1>1, <4>1, <4>2 DEF Logged
    <3>2. LogsInv'
      BY Zenon, <2>1, <3>1, SameRecords DEF EngineInv
    <3>3. QueueInv'
      BY Zenon, <1>1, <1>2 DEF EngineInv, QueueInv, Items, Writing
    <3> HIDE DEF flVars
    <3> QED
      BY Zenon, <1>1, <2>1, <3>2, <3>3, SameFilesType, SameHandleType, SameKeys, SameActive,
         SameLatest, SameCover, SameKept, SameAck, SameRefs DEF EngineInv, TypeInv
  <2>2. CASE ~UNCHANGED wal
    <3>1. writer = "log"
      BY Zenon, <2>2 DEF AppendWalFails
    <3>2. PICK m \in 0..Len(batch) :
                 wal' = [wal EXCEPT ![activeWal] = @ \o SubSeq(BatchWrites, 1, m)]
      BY Zenon, <2>2 DEF AppendWalFails
    <3> PICK t : t = wal[activeWal] \o SubSeq(BatchWrites, 1, m)
      BY Zenon
    <3>3. wal' = [wal EXCEPT ![activeWal] = t]
      BY Zenon, <3>2
    <3>4. Extends(t, wal[activeWal], m, Len(writes) - Len(batch))
      BY Zenon, <3>1, BatchExtends
    <3>5. writer' \in {"idle", "sync", "apply"}
      BY Zenon, <1>1
    <3> HIDE DEF flVars
    <3> QED
      BY Zenon, <1>1, <3>1, <3>3, <3>4, <3>5, AppendStep
  <2> QED
    BY Zenon, <2>1, <2>2
<1> QED
  BY Zenon, <1>3, <1>4, <1>5 DEF EngineInv, TypeInv

\* Every write is to a key.
LEMMA KeyOf ==
  ASSUME FilesType, NEW w \in 1..Len(writes)
  PROVE  writes[w].key \in Keys
<1>1. \A T : \A s \in Seq(T) : \A i \in 1..Len(s) : s[i] \in T
  OBVIOUS
<1>2. writes[w] \in [key : Keys, kind : {"inline", "empty", "large", "tombstone"}]
  BY Zenon, <1>1 DEF FilesType
<1> QED
  BY Zenon, <1>2

\* The write put into the memtable is newer than every latest one, and in a
\* synchronous mode it is on disk.
LEMMA ApplyStep ==
  ASSUME EngineInv, Apply
  PROVE  EngineInv'
<1> USE DEF files, flVars
<1> PICK e, k0, a : e = Head(batch) /\ k0 = writes[e.w].key /\ a = activeWal
  BY Zenon
<1>1. /\ writer = "apply" /\ mems' = [mems EXCEPT ![a][k0] = e]
      /\ memBytes' = memBytes + 1 /\ latest' = [latest EXCEPT ![k0] = e.w]
      /\ IF Len(batch) = 1 /\ Crossing
           THEN writer' = "rotate" /\ UNCHANGED <<batch, acked>>
           ELSE /\ acked' = [acked EXCEPT ![k0] = e.w] /\ batch' = Tail(batch)
                /\ writer' = IF Len(batch) = 1 THEN "idle" ELSE "apply"
      /\ UNCHANGED <<wal, walStable, sst, cached, manifest, vlog, vlogStable, clock, phase,
                     activeWal, walPaths, immutable, flushCh, tables, flushErr, walFile,
                     nextWal, flusher, flushing, flushed, writes, faults, opts>>
  BY Zenon DEF Apply
<1>2. Writing /\ Writing' /\ Up /\ Up' /\ a \in DOMAIN wal /\ a \in DOMAIN mems /\ batch # <<>>
      /\ ~Sending /\ ~Sending'
  <2>1. Writing /\ batch # <<>>
    BY Zenon, <1>1 DEF EngineInv, WriterInv
  <2>2. writer' \in {"rotate", "idle", "apply"}
    BY Zenon, <1>1
  <2> QED
    BY Zenon, <1>1, <2>1, <2>2 DEF EngineInv, ActiveInv, Writing, Up, Down, Sending
<1> PICK b : b = Len(writes) - Len(batch)
  BY Zenon
<1>3. Len(batch) \in Nat \ {0} /\ batch \in Seq([w : Nat, off : Nat]) /\ batch[1] = e
      /\ 1 \in 1..Len(batch)
  BY <1>2 DEF EngineInv, TypeInv, WorkType
<1>4. Len(writes) \in Nat /\ Len(batch) <= Len(writes)
  <2>1. Len(writes) \in Nat
    BY Zenon, Lengths DEF EngineInv, TypeInv, FilesType
  <2> QED
    BY Zenon, <1>1, <2>1 DEF EngineInv, WriterInv
<1>5. b \in Nat /\ Len(writes) = b + Len(batch) /\ b + 1 \in 1..Len(writes)
  BY <1>3, <1>4
<1>6. /\ \A i \in 1..Len(batch) : batch[i].w = b + i
      /\ \A k \in Keys : latest[k] <= b
      /\ \A i \in 1..Len(batch) : batch[i].off # 0 => Resolves(batch[i])
      /\ \A i \in 1..Len(batch) : InLog(a, batch[i].w)
      /\ SyncWrites => walStable = Len(wal[a])
  BY Zenon, <1>1 DEF EngineInv, WriterInv
<1>7. /\ e.w = b + 1 /\ e.w \in 1..Len(writes) /\ e.w # 0 /\ InLog(a, e.w)
      /\ e.off # 0 => Resolves(e)
      /\ e \in [w : Nat, off : Nat] /\ k0 \in Keys /\ e.w \in Nat
  <2>1. e \in [w : Nat, off : Nat] /\ e.w \in Nat
    <3>1. e \in [w : Nat, off : Nat]
      BY Zenon, <1>2, <1>3, RangeTail
    <3> QED
      BY Zenon, <3>1
  <2>2. e.w = b + 1 /\ InLog(a, e.w) /\ (e.off # 0 => Resolves(e))
    BY Zenon, <1>3, <1>6
  <2>3. e.w # 0
    BY <1>5, <2>2
  <2>4. e.w \in 1..Len(writes)
    BY Zenon, <1>5, <2>2
  <2>5. k0 \in Keys
    BY Zenon, <2>4, KeyOf DEF EngineInv, TypeInv
  <2> QED
    BY Zenon, <2>1, <2>2, <2>3, <2>4, <2>5
<1>8. /\ mems' \in [DOMAIN mems -> Table] /\ DOMAIN mems' = DOMAIN mems
      /\ \A n \in DOMAIN mems : n # a => mems'[n] = mems[n]
      /\ mems'[a][k0] = e /\ \A k \in Keys : k # k0 => mems'[a][k] = mems[a][k]
  <2>1. mems \in [DOMAIN mems -> Table]
    BY Zenon DEF EngineInv, TypeInv, HandleType
  <2> QED
    BY Zenon, <1>1, <1>2, <1>7, <2>1 DEF Table
<1>9. /\ latest' \in [Keys -> Nat] /\ latest'[k0] = e.w
      /\ \A k \in Keys : k # k0 => latest'[k] = latest[k]
  <2>1. latest \in [Keys -> Nat]
    BY Zenon DEF EngineInv, TypeInv, WorkType
  <2> QED
    BY Zenon, <1>1, <1>7, <2>1
<1>10. \A k \in Keys : latest[k] \in Nat /\ latest[k] <= latest'[k] /\ latest'[k] <= b + 1
  <2>1. \A k \in Keys : latest[k] \in Nat
    BY Zenon DEF EngineInv, TypeInv, WorkType
  <2> SUFFICES ASSUME NEW k \in Keys PROVE latest[k] <= latest'[k] /\ latest'[k] <= b + 1
    BY Zenon, <2>1
  <2>2. latest[k] <= b /\ latest[k] \in Nat /\ b \in Nat
    BY Zenon, <1>5, <1>6, <2>1
  <2>3. latest'[k] = b + 1 \/ latest'[k] = latest[k]
    BY Zenon, <1>7, <1>9
  <2> QED
    BY <2>2, <2>3
<1>11. /\ \A q \in Items : q.mem # a /\ q.mem \in DOMAIN mems /\ q.mem < a
                           /\ \A p \in Range(q.paths) : p <= q.mem
       /\ Items' = Items
  <2>1. \A q \in Items : q.mem \in DOMAIN mems /\ q.mem < a /\ \A p \in Range(q.paths) : p <= q.mem
    BY Zenon, <1>2 DEF EngineInv, QueueInv
  <2>2. a \in Nat /\ ~(a < a)
    BY DEF EngineInv, TypeInv, HandleType
  <2>3. \A q \in Items : q.mem # a
    BY Zenon, <2>1, <2>2
  <2>4. Items' = Items
    BY Zenon, <1>1 DEF Items
  <2> QED
    BY Zenon, <2>1, <2>3, <2>4
<1>12. flusher # "idle" => flushing \in Items
  BY Zenon DEF Items
<1>13. flusher # "idle" => mems'[flushing.mem] = mems[flushing.mem]
  BY Zenon, <1>8, <1>11, <1>12
<1>14. FilesType'
  BY Zenon, <1>1, SameFilesType DEF EngineInv, TypeInv
<1>15. HandleType'
  <2>1. memBytes' \in Nat
    BY <1>1 DEF EngineInv, TypeInv, HandleType
  <2> QED
    BY Zenon, <1>1, <1>8, <2>1 DEF EngineInv, TypeInv, HandleType
<1>16. WorkType'
  <2>1. batch' \in Seq([w : Nat, off : Nat])
    <3>1. Tail(batch) \in Seq([w : Nat, off : Nat])
      BY Zenon, <1>2, <1>3, RangeTail
    <3> QED
      BY Zenon, <1>1, <1>3, <3>1
  <2>2. acked' \in [Keys -> Nat]
    <3>1. acked \in [Keys -> Nat]
      BY Zenon DEF EngineInv, TypeInv, WorkType
    <3>2. [acked EXCEPT ![k0] = e.w] \in [Keys -> Nat]
      BY Zenon, <1>7, <3>1
    <3> QED
      BY Zenon, <1>1, <3>1, <3>2
  <2>3. writer' \in {"rotate", "idle", "apply"}
    BY Zenon, <1>1
  <2> QED
    BY Zenon, <1>1, <1>9, <2>1, <2>2, <2>3 DEF EngineInv, TypeInv, WorkType
<1>17. KeysInv'
  <2>1. \A t \in DOMAIN sst, k \in Keys : sst[t][k].w = 0 \/ WriteTo(sst[t][k].w, k)
    BY Zenon DEF EngineInv, KeysInv
  <2>2. \A n \in DOMAIN mems, k \in Keys : mems[n][k].w = 0 \/ WriteTo(mems[n][k].w, k)
    BY Zenon DEF EngineInv, KeysInv
  <2>3. \A k \in Keys : latest[k] = 0 \/ WriteTo(latest[k], k)
    BY Zenon DEF EngineInv, KeysInv
  <2>4. WriteTo(e.w, k0)
    BY Zenon, <1>7 DEF WriteTo
  <2>5. \A n \in DOMAIN mems, k \in Keys : mems'[n][k].w = 0 \/ WriteTo(mems'[n][k].w, k)
    BY <1>8, <2>2, <2>4
  <2>6. \A k \in Keys : latest'[k] = 0 \/ WriteTo(latest'[k], k)
    BY Zenon, <1>9, <2>3, <2>4
  <2>7. \A n \in DOMAIN mems', k \in Keys : mems'[n][k].w = 0 \/ WriteTo(mems[n][k].w, k)'
    BY Zenon, <1>1, <1>8, <2>5 DEF WriteTo
  <2>8. \A k \in Keys : latest'[k] = 0 \/ WriteTo(latest[k], k)'
    BY Zenon, <1>1, <2>6 DEF WriteTo
  <2>9. \A n \in DOMAIN sst', k \in Keys : sst'[n][k].w = 0 \/ WriteTo(sst[n][k].w, k)'
    BY Zenon, <1>1, <2>1 DEF WriteTo
  <2> QED
    BY Zenon, <2>7, <2>8, <2>9 DEF KeysInv
<1>18. LogsInv'
  <2>1. writer' # "log"
    BY Zenon, <1>1
  <2>2. Logged' = Logged
    BY Zenon, <1>1, <2>1 DEF Logged
  <2> QED
    BY Zenon, <1>1, <2>2 DEF EngineInv, LogsInv
<1>19. DownInv'
  BY Zenon, <1>2 DEF DownInv
<1>20. ActiveInv'
  BY Zenon, <1>1, <1>2, <1>8 DEF EngineInv, ActiveInv
<1>21. QueueInv'
  <2>1. \A q \in Items' : q.mem \in DOMAIN mems' /\ q.mem <= activeWal' /\ q.paths # <<>>
          /\ (\A p \in Range(q.paths) : p <= q.mem) /\ (Writing' => q.mem < activeWal')
    BY Zenon, <1>1, <1>2, <1>8, <1>11 DEF EngineInv, QueueInv
  <2>2. flusher' = "install" => flushed' \in DOMAIN sst' /\ sst'[flushed'] = mems'[flushing'.mem]
    BY Zenon, <1>1, <1>13 DEF EngineInv, QueueInv
  <2> QED
    BY Zenon, <1>2, <2>1, <2>2 DEF QueueInv
<1>22. WriterInv'
  <2>1. CASE writer' = "rotate"
    <3>1. Len(batch) = 1 /\ batch' = batch
      BY Zenon, <1>1, <2>1
    <3>2. /\ Len(batch) = 1 /\ batch[1].w \in 1..Len(writes)
          /\ latest'[writes[batch[1].w].key] = batch[1].w
      BY Zenon, <1>3, <1>7, <1>9, <3>1
    <3>3. batch' # <<>>
      BY Zenon, <1>2, <3>1
    <3> QED
      BY Zenon, <1>1, <1>2, <2>1, <3>1, <3>2, <3>3 DEF WriterInv
  <2>2. CASE writer' = "idle"
    BY Zenon, <2>2 DEF WriterInv
  <2>3. CASE writer' = "apply"
    <3>1. batch' = Tail(batch) /\ Len(batch) # 1
      BY Zenon, <1>1, <2>3
    <3>2. Len(batch') = Len(batch) - 1 /\ Len(batch') \in Nat \ {0}
          /\ \A i \in 1..Len(batch') : i + 1 \in 1..Len(batch) /\ batch'[i] = batch[i + 1]
      BY <1>3, <3>1
    <3>3. batch' # <<>>
      BY <3>2
    <3>4. Len(batch') <= Len(writes) /\ Len(writes) - Len(batch') = b + 1
      BY <1>3, <1>4, <1>5, <3>2
    <3>5. \A i \in 1..Len(batch') : batch'[i].w = b + (i + 1)
      BY Zenon, <1>6, <3>2
    <3>6. \A i \in 1..Len(batch') : batch'[i].w = Len(writes) - Len(batch') + i
      <4>1. \A i \in 1..Len(batch') : b + (i + 1) = (b + 1) + i
        BY <1>5, <3>2
      <4> QED
        BY Zenon, <3>4, <3>5, <4>1
    <3>7. \A i \in 1..Len(batch') : batch'[i].off # 0 => Resolves(batch'[i])
      BY Zenon, <1>6, <3>2
    <3>8. \A i \in 1..Len(batch') : InLog(a, batch'[i].w)
      BY Zenon, <1>6, <3>2
    <3>9. \A k \in Keys : latest'[k] <= Len(writes) - Len(batch')
      BY Zenon, <1>10, <3>4
    <3>10. SyncWrites' => walStable' = Len(wal'[activeWal'])
      BY Zenon, <1>1, <1>6 DEF SyncWrites
    <3>11. \A x : Resolves(x)' <=> Resolves(x)
      BY Zenon, <1>1 DEF Resolves
    <3>12. \A n, w : InLog(n, w)' <=> InLog(n, w)
      BY Zenon, <1>1 DEF InLog
    <3>13. \A i \in 1..Len(batch') : InLog(activeWal, batch[i].w)'
      BY Zenon, <1>1, <3>8 DEF InLog
    <3>14. \A i \in 1..Len(batch') : batch'[i].off # 0 => Resolves(batch[i])'
      BY Zenon, <1>1, <3>7 DEF Resolves
    <3> QED
      BY Zenon, <1>1, <1>2, <2>3, <3>3, <3>4, <3>6, <3>9, <3>10, <3>13, <3>14 DEF WriterInv
  <2> QED
    BY Zenon, <1>1, <2>1, <2>2, <2>3
<1>23. LatestInv'
  <2>1. \A n \in DOMAIN mems, k \in Keys : mems[n][k].w <= latest[k] /\ mems[n][k].w \in Nat
    <3>1. \A n \in DOMAIN mems, k \in Keys : mems[n][k].w <= latest[k]
      BY Zenon, <1>2 DEF EngineInv, LatestInv, Up, Down
    <3> QED
      BY Zenon, <3>1 DEF EngineInv, TypeInv, HandleType, Table
  <2>2. \A t \in manifest, k \in Keys : sst[t][k].w <= latest[k] /\ sst[t][k].w \in Nat
    <3>1. \A t \in manifest, k \in Keys : sst[t][k].w <= latest[k]
      BY Zenon, <1>2 DEF EngineInv, LatestInv, Up, Down
    <3> QED
      BY Zenon, <3>1 DEF EngineInv, TypeInv, FilesType, Table
  <2>3. \A k \in Keys : latest'[k] \in Nat
    BY Zenon, <1>9
  <2>4. \A n \in DOMAIN mems, k \in Keys : mems[n][k].w <= latest'[k]
    BY <1>10, <2>1, <2>3
  <2>5. \A t \in manifest, k \in Keys : sst[t][k].w <= latest'[k]
    BY <1>10, <2>2, <2>3
  <2>6. e.w <= e.w
    BY <1>7
  <2>7. \A n \in DOMAIN mems, k \in Keys : mems'[n][k].w <= latest'[k]
    BY Zenon, <1>8, <1>9, <2>4, <2>6
  <2> QED
    BY Zenon, <1>1, <1>8, <2>5, <2>7 DEF LatestInv
<1>24. CoverInv'
  <2>1. \A n, w : InLog(n, w)' <=> InLog(n, w)
    BY Zenon, <1>1 DEF InLog
  <2>2. Covers(a, walPaths)'
    <3> SUFFICES ASSUME NEW n \in Range(walPaths) \cap DOMAIN wal, NEW k \in Keys,
                        InLog(n, latest'[k])
                 PROVE  mems'[a][k].w = latest'[k]
      BY <1>1 DEF Covers, InLog
    <3>1. CASE k = k0
      BY Zenon, <1>8, <1>9, <3>1
    <3>2. CASE k # k0
      BY Zenon, <1>2, <1>8, <1>9, <3>2 DEF EngineInv, CoverInv, Covers
    <3> QED
      BY Zenon, <3>1, <3>2
  <2>3. ASSUME NEW q \in Items, Covers(q.mem, q.paths) PROVE Covers(q.mem, q.paths)'
    <3> SUFFICES ASSUME NEW n \in Range(q.paths) \cap DOMAIN wal, NEW k \in Keys,
                        InLog(n, latest'[k])
                 PROVE  mems'[q.mem][k].w = latest'[k]
      BY <1>1 DEF Covers, InLog
    <3>1. mems'[q.mem] = mems[q.mem]
      BY Zenon, <1>8, <1>11
    <3>2. n < a
      <4>1. n <= q.mem /\ q.mem < a /\ q.mem \in DOMAIN mems
        BY Zenon, <1>11
      <4>2. n \in Nat /\ a \in Nat /\ q.mem \in Nat
        BY <4>1 DEF EngineInv, TypeInv, FilesType, HandleType
      <4> QED
        BY <4>1, <4>2
    <3>3. ~InLog(n, e.w)
      <4> SUFFICES ASSUME NEW i \in 1..Len(wal[n]), wal[n][i] = e.w PROVE FALSE
        BY Zenon DEF InLog
      <4>1. PICK j \in 1..Len(wal[a]) : wal[a][j] = e.w
        BY Zenon, <1>7 DEF InLog
      <4>2. wal[n][i] < wal[a][j]
        BY Zenon, <1>2, <3>2 DEF EngineInv, LogsInv
      <4> QED
        BY <1>7, <4>1, <4>2
    <3>4. k # k0
      BY Zenon, <1>9, <3>3
    <3> QED
      BY Zenon, <1>9, <2>3, <3>1, <3>4 DEF Covers
  <2>4. \A q \in Range(immutable) \cup Range(flushCh) : q \in Items
    BY Zenon DEF Items
  <2>5. \A q \in Range(immutable) \cup Range(flushCh) : Covers(q.mem, q.paths)
    BY Zenon, <1>2 DEF EngineInv, CoverInv
  <2>6. flusher \in {"write", "install"} => Covers(flushing.mem, flushing.paths) /\ flushing \in Items
    BY Zenon, <1>2, <1>12 DEF EngineInv, CoverInv
  <2>7. flusher \in {"write", "install"} => Covers(flushing.mem, flushing.paths)'
    <3> SUFFICES ASSUME flusher \in {"write", "install"} PROVE Covers(flushing.mem, flushing.paths)'
      BY Zenon
    <3> PICK q : q = flushing
      BY Zenon
    <3>1. Covers(q.mem, q.paths)'
      BY Zenon, <2>3, <2>6
    <3> QED
      BY Zenon, <1>1, <3>1 DEF Covers, InLog
  <2> QED
    BY Zenon, <1>1, <2>2, <2>3, <2>4, <2>5, <2>7 DEF CoverInv
<1>25. KeptInv'
  <2>1. Doomed' = Doomed /\ \A n : SafeLen(n)' = SafeLen(n)
    BY Zenon, <1>1 DEF Doomed, SafeLen, SyncWrites
  <2>2. ASSUME NEW k \in Keys, k # k0, Kept(k) PROVE Kept(k)'
    <3>1. latest'[k] = latest[k]
      BY Zenon, <1>9, <2>2
    <3> QED
      BY Zenon, <1>1, <2>1, <2>2, <3>1 DEF Kept
  <2>3. a \notin Doomed
    <3>1. flusher = "remove" => \A p \in Range(flushing.paths) : p <= flushing.mem
      BY Zenon, <1>11, <1>12
    <3>2. flusher = "remove" => flushing.mem < a /\ flushing.mem \in DOMAIN mems
      BY Zenon, <1>11, <1>12
    <3>3. a \in Nat /\ DOMAIN mems \subseteq Nat
      BY Zenon, <1>2, Lengths DEF EngineInv, TypeInv, HandleType
    <3> QED
      BY <3>1, <3>2, <3>3 DEF Doomed
  <2>4. SafeLen(a) = Len(wal[a])
    BY Zenon, <1>6 DEF SafeLen
  <2>5. \E i \in 1..SafeLen(a) : wal[a][i] = e.w
    BY Zenon, <1>7, <2>4 DEF InLog
  <2>6. Kept(k0)'
    <3>1. a \in DOMAIN wal' \ Doomed'
      BY Zenon, <1>1, <1>2, <2>1, <2>3
    <3>2. \E i \in 1..SafeLen(a)' : wal'[a][i] = latest'[k0]
      BY Zenon, <1>1, <1>2, <1>9, <2>1, <2>5
    <3> QED
      BY Zenon, <3>1, <3>2 DEF Kept
  <2>7. \A k \in Keys : latest[k] # 0 => Kept(k)
    BY Zenon, <1>2 DEF EngineInv, KeptInv, Up, Down
  <2> QED
    BY Zenon, <1>9, <2>2, <2>6, <2>7 DEF KeptInv
<1>26. AckInv'
  <2> SUFFICES ASSUME SyncWrites, NEW k \in Keys PROVE acked'[k] <= latest'[k]
    BY Zenon, <1>1, <1>2 DEF AckInv, SyncWrites
  <2>1. acked[k] <= latest[k]
    BY Zenon, <1>2 DEF EngineInv, AckInv
  <2>2. acked \in [Keys -> Nat]
    BY Zenon DEF EngineInv, TypeInv, WorkType
  <2>3. acked[k] <= latest'[k]
    BY <1>9, <1>10, <2>1, <2>2
  <2>4. e.w <= e.w
    BY <1>7
  <2>5. [acked EXCEPT ![k0] = e.w][k] <= latest'[k]
    BY Zenon, <1>9, <2>2, <2>3, <2>4
  <2> QED
    BY Zenon, <1>1, <2>3, <2>5
<1>27. RefsInv'
  <2>1. \A x : Resolves(x)' <=> Resolves(x)
    BY Zenon, <1>1 DEF Resolves
  <2>2. \A n \in DOMAIN mems, k \in Keys : mems'[n][k].off # 0 => Resolves(mems'[n][k])
    BY <1>7, <1>8 DEF EngineInv, RefsInv
  <2>3. \A n \in DOMAIN mems', k \in Keys : mems'[n][k].off # 0 => Resolves(mems[n][k])'
    BY Zenon, <1>1, <1>8, <2>2 DEF Resolves
  <2>4. flusher \in {"write", "install"} => \A k \in Keys : mems'[flushing.mem][k].off <= vlogStable
    BY Zenon, <1>13 DEF EngineInv, RefsInv
  <2>5. \A t \in manifest, k \in Keys :
          sst[t][k].off # 0 => sst[t][k].off <= vlogStable /\ Resolves(sst[t][k])'
    BY Zenon, <1>1 DEF EngineInv, RefsInv, Resolves
  <2>6. vlogStable <= Len(vlog)
    BY Zenon DEF EngineInv, RefsInv
  <2> QED
    BY Zenon, <1>1, <2>3, <2>4, <2>5, <2>6 DEF RefsInv
<1>28. PendingInv'
  <2>1. mems'[a] # EmptyTable
    <3>1. mems'[a][k0].w # 0
      BY Zenon, <1>7, <1>8
    <3> QED
      BY <1>7, <3>1 DEF EmptyTable, NoEntry
  <2>2. \A n : Pending(n) => Pending(n)'
    BY Zenon, <1>1, <1>2 DEF Pending
  <2>3. phase' # "closed" /\ phase # "abandoned"
    BY Zenon, <1>1, <1>2 DEF Writing
  <2>4. ~flushErr => \A n \in DOMAIN wal : wal[n] = <<>> \/ Pending(n)'
    BY Zenon, <1>2, <2>2, <2>3 DEF EngineInv, PendingInv
  <2> QED
    BY Zenon, <1>1, <2>1, <2>3, <2>4 DEF PendingInv
<1> QED
  BY Zenon, <1>14, <1>15, <1>16, <1>17, <1>18, <1>19, <1>20, <1>21, <1>22, <1>23, <1>24,
     <1>25, <1>26, <1>27, <1>28 DEF EngineInv, TypeInv

-----------------------------------------------------------------------------
(* storeValueForLSM *)

\* Two sequences of numbers joined.
LEMMA JoinIs ==
  ASSUME NEW s \in Seq(Nat), NEW r \in Seq(Nat)
  PROVE  /\ s \o r \in Seq(Nat) /\ Len(s \o r) = Len(s) + Len(r)
         /\ \A i \in 1..Len(s) : (s \o r)[i] = s[i]
         /\ \A i \in 1..Len(r) : (s \o r)[Len(s) + i] = r[i]
<1>1. /\ s \o r \in Seq(Nat) /\ Len(s \o r) = Len(s) + Len(r)
      /\ \A i \in 1..Len(s) : (s \o r)[i] = s[i]
  OBVIOUS
<1>2. ASSUME NEW i \in 1..Len(r) PROVE (s \o r)[Len(s) + i] = r[i]
  OBVIOUS
<1> QED
  BY Zenon, <1>1, <1>2

\* The large values are appended to the value log, and each reference points at
\* its own.
LEMMA StoredIs ==
  ASSUME vlog \in Seq(Nat), NEW W, NEW ws \in Seq(Nat)
  PROVE  /\ ValueLogAfter(W, ws) \in Seq(Nat) /\ Len(vlog) <= Len(ValueLogAfter(W, ws))
         /\ \A i \in 1..Len(vlog) : ValueLogAfter(W, ws)[i] = vlog[i]
         /\ \A i \in 1..Len(ws) :
              /\ Stored(W, ws, i) \in [w : Nat, off : Nat] /\ Stored(W, ws, i).w = ws[i]
              /\ Stored(W, ws, i).off # 0 =>
                   /\ Stored(W, ws, i).off <= Len(ValueLogAfter(W, ws))
                   /\ ValueLogAfter(W, ws)[Stored(W, ws, i).off] = ws[i]
<1> DEFINE I == {i \in 1..Len(ws) : IsLarge(W, ws[i])}
<1>1. I \subseteq 1..Len(ws) /\ Len(ws) \in Nat /\ Len(vlog) \in Nat
  OBVIOUS
<1>0. ValueLogAfter(W, ws) = vlog \o ElementsAt(ws, I)
  BY Zenon DEF ValueLogAfter
<1> HIDE DEF I
<1> PICK x, v : x = ElementsAt(ws, I) /\ v = Len(vlog)
  BY Zenon
<1>2. ValueLogAfter(W, ws) = vlog \o x
  BY Zenon, <1>0
<1>3. /\ Cardinality(I) \in Nat /\ x \in Seq(Nat) /\ Len(x) = Cardinality(I)
      /\ \A i \in I : Place(I, i) \in 1..Cardinality(I) /\ x[Place(I, i)] = ws[i]
  <2>1. ASSUME NEW i \in I
        PROVE  Place(I, i) \in 1..Cardinality(I) /\ ElementsAt(ws, I)[Place(I, i)] = ws[i]
    BY Zenon, <1>1, ElementAt
  <2>2. /\ Cardinality(I) \in Nat /\ ElementsAt(ws, I) \in Seq(Nat)
        /\ Len(ElementsAt(ws, I)) = Cardinality(I)
    BY Zenon, <1>1, ElementsAtIs
  <2> QED
    BY Zenon, <2>1, <2>2
<1>4. /\ vlog \o x \in Seq(Nat) /\ Len(vlog \o x) = v + Cardinality(I)
      /\ \A i \in 1..v : (vlog \o x)[i] = vlog[i]
      /\ \A i \in 1..Len(x) : (vlog \o x)[v + i] = x[i]
  <2>1. /\ vlog \o x \in Seq(Nat) /\ Len(vlog \o x) = Len(vlog) + Len(x)
        /\ \A i \in 1..Len(vlog) : (vlog \o x)[i] = vlog[i]
        /\ \A i \in 1..Len(x) : (vlog \o x)[Len(vlog) + i] = x[i]
    BY Zenon, <1>3, JoinIs
  <2>2. Len(vlog) = v
    BY Zenon
  <2> QED
    BY Zenon, <1>3, <2>1, <2>2
<1>5. v <= v + Cardinality(I)
  BY <1>1, <1>3
<1>6. ASSUME NEW i \in 1..Len(ws)
      PROVE  /\ Stored(W, ws, i) \in [w : Nat, off : Nat] /\ Stored(W, ws, i).w = ws[i]
             /\ Stored(W, ws, i).off # 0 =>
                  /\ Stored(W, ws, i).off <= Len(vlog \o x)
                  /\ (vlog \o x)[Stored(W, ws, i).off] = ws[i]
  <2> PICK c : c = Cardinality({j \in 1..i : IsLarge(W, ws[j])})
    BY Zenon
  <2>1. Stored(W, ws, i) = [w |-> ws[i], off |-> IF IsLarge(W, ws[i]) THEN v + c ELSE 0]
    BY Zenon DEF Stored
  <2>2. ws[i] \in Nat
    OBVIOUS
  <2>3. CASE ~IsLarge(W, ws[i])
    BY <2>1, <2>2, <2>3
  <2>4. CASE IsLarge(W, ws[i])
    <3> DEFINE L == {j \in I : j < i}
    <3>1. i \in I
      BY Zenon, <2>4 DEF I
    <3>2. {j \in 1..i : IsLarge(W, ws[j])} = L \cup {i}
      BY <1>1, <2>4 DEF I
    <3>3. i \notin L
      BY <1>1
    <3>4. IsFiniteSet(L)
      <4>1. IsFiniteSet(1..Len(ws))
        <5>1. 1 \in Int /\ Len(ws) \in Int
          BY <1>1
        <5> QED
          BY Zenon, <5>1, FS_Interval
      <4>2. L \in SUBSET (1..Len(ws))
        BY Zenon, <1>1
      <4> QED
        BY Zenon, <4>1, <4>2, FS_Subset
    <3> PICK d : d = Cardinality(L)
      BY Zenon
    <3>5. d + 1 \in 1..Cardinality(I) /\ x[d + 1] = ws[i]
      BY Zenon, <1>3, <3>1 DEF Place
    <3>6. c = d + 1
      BY Zenon, <3>2, <3>3, <3>4, FS_AddElement
    <3> HIDE DEF L
    <3>7. c \in 1..Cardinality(I) /\ x[c] = ws[i]
      BY Zenon, <3>5, <3>6
    <3>8. v + c \in Nat /\ v + c <= v + Cardinality(I)
      BY <1>1, <1>3, <3>7
    <3>9. (vlog \o x)[v + c] = ws[i]
      BY Zenon, <1>3, <1>4, <3>7
    <3>10. Stored(W, ws, i) = [w |-> ws[i], off |-> v + c]
      BY Zenon, <2>1, <2>4
    <3>11. v + c <= Len(vlog \o x)
      BY Zenon, <1>4, <3>8
    <3> QED
      BY <2>2, <3>8, <3>9, <3>10, <3>11
  <2> QED
    BY Zenon, <2>3, <2>4
<1> QED
  BY Zenon, <1>2, <1>4, <1>5, <1>6

\* The i-th of the values stored.
LEMMA StoredAt ==
  ASSUME vlog \in Seq(Nat), NEW W, NEW ws \in Seq(Nat), NEW i \in 1..Len(ws),
         NEW v, v = ValueLogAfter(W, ws), NEW e, e = Stored(W, ws, i)
  PROVE  /\ e \in [w : Nat, off : Nat] /\ e.w = ws[i]
         /\ e.off # 0 => e.off <= Len(v) /\ v[e.off] = ws[i]
<1>1. Stored(W, ws, i) \in [w : Nat, off : Nat] /\ Stored(W, ws, i).w = ws[i]
  BY StoredIs
<1>2. Stored(W, ws, i).off # 0 =>
        /\ Stored(W, ws, i).off <= Len(ValueLogAfter(W, ws))
        /\ ValueLogAfter(W, ws)[Stored(W, ws, i).off] = ws[i]
  BY StoredIs
<1> QED
  BY Zenon, <1>1, <1>2

\* References keep their record when the value log grows.
LEMMA StillResolves ==
  ASSUME vlog \in Seq(Nat), vlog' \in Seq(Nat), Len(vlog) <= Len(vlog'),
         \A i \in 1..Len(vlog) : vlog'[i] = vlog[i],
         NEW e, e.off \in Nat, e.off # 0, Resolves(e)
  PROVE  e.off <= Len(vlog') /\ vlog'[e.off] = e.w
<1>1. e.off \in 1..Len(vlog) /\ Len(vlog) \in Nat /\ Len(vlog') \in Nat
  BY DEF Resolves
<1> QED
  BY <1>1 DEF Resolves

\* A function on 1..n is a sequence.
LEMMA SeqOfLength ==
  ASSUME NEW T, NEW n \in Nat, NEW f \in [1..n -> T]
  PROVE  f \in Seq(T) /\ Len(f) = n
OBVIOUS

\* The prepared writes are new and their references resolve.
LEMMA StoreBatchStep ==
  ASSUME EngineInv, NEW reqs \in Requests, NEW fails \in BOOLEAN, StoreBatch(reqs, fails)
  PROVE  EngineInv'
<1> USE DEF flVars
<1> DEFINE ws == [i \in 1..Len(reqs) |-> Len(writes) + i]
<1>1. /\ phase \in {"open", "stopping"} /\ writer = "idle" /\ ~flushErr
      /\ writes' = writes \o reqs
      /\ batch' = [i \in 1..Len(ws) |-> Stored(writes', ws, i)]
      /\ vlog' = ValueLogAfter(writes', ws)
      /\ writer' = (IF reqs = <<>> THEN "idle" ELSE "log")
      /\ fails => faults' = faults + 1 /\ flushErr'
      /\ ~fails => UNCHANGED <<faults, flushErr>> /\ reqs # <<>>
      /\ UNCHANGED <<wal, walStable, sst, cached, manifest, vlogStable, clock, phase, mems,
                     activeWal, walPaths, memBytes, immutable, flushCh, tables, walFile,
                     nextWal, flusher, flushing, flushed, latest, acked, opts>>
  BY Zenon DEF StoreBatch, Fault, NoFault
<1>2. Writing /\ Writing' /\ Up /\ Up' /\ ~Sending /\ ~Sending'
  BY Zenon, <1>1 DEF Writing, Up, Down, Sending
<1>3. reqs \in Seq([key : Keys, kind : {"inline", "empty", "large", "tombstone"}])
      /\ Len(reqs) \in Nat
  <2>1. PICK n \in 0..MaxBatch : reqs \in [1..n -> [key : Keys, kind : opts.kinds]]
    BY Zenon DEF Requests
  <2>2. opts.kinds \subseteq {"inline", "empty", "large", "tombstone"} /\ MaxBatch \in Nat
    BY Zenon, EngineAssumption DEF EngineInv, TypeInv, WorkType
  <2>3. reqs \in [1..n -> [key : Keys, kind : {"inline", "empty", "large", "tombstone"}]]
    BY Zenon, <2>1, <2>2
  <2>4. n \in Nat
    BY <2>1, <2>2
  <2> QED
    BY Zenon, <2>3, <2>4, SeqOfLength
<1>4. Len(writes) \in Nat
  BY DEF EngineInv, TypeInv, FilesType
<1>5. /\ writes' \in Seq([key : Keys, kind : {"inline", "empty", "large", "tombstone"}])
      /\ Len(writes') = Len(writes) + Len(reqs)
      /\ \A i \in 1..Len(writes) : writes'[i] = writes[i]
  <2>1. writes \in Seq([key : Keys, kind : {"inline", "empty", "large", "tombstone"}])
    BY Zenon DEF EngineInv, TypeInv, FilesType
  <2>2. \A T : \A s, r \in Seq(T) : /\ s \o r \in Seq(T) /\ Len(s \o r) = Len(s) + Len(r)
                                    /\ \A i \in 1..Len(s) : (s \o r)[i] = s[i]
    OBVIOUS
  <2> QED
    BY Zenon, <1>1, <1>3, <2>1, <2>2
<1>6. ws \in Seq(Nat) /\ Len(ws) = Len(reqs) /\ \A i \in 1..Len(reqs) : ws[i] = Len(writes) + i
  BY <1>3, <1>4
<1> HIDE DEF ws
<1>7. vlog \in Seq(Nat) /\ Len(vlog) \in Nat
  BY DEF EngineInv, TypeInv, FilesType
<1>8. /\ vlog' \in Seq(Nat) /\ Len(vlog) <= Len(vlog')
      /\ \A i \in 1..Len(vlog) : vlog'[i] = vlog[i]
  <2> PICK W : W = writes'
    BY Zenon
  <2>1. vlog' = ValueLogAfter(W, ws)
    BY Zenon, <1>1
  <2> QED
    BY Zenon, <1>6, <1>7, <2>1, StoredIs
<1>9. ASSUME NEW i \in 1..Len(reqs)
      PROVE  /\ batch'[i] \in [w : Nat, off : Nat] /\ batch'[i].w = Len(writes) + i
             /\ batch'[i].off # 0 => batch'[i].off <= Len(vlog') /\ vlog'[batch'[i].off] = batch'[i].w
  <2> PICK W, e : W = writes' /\ e = Stored(W, ws, i)
    BY Zenon
  <2>1. batch'[i] = e
    BY Zenon, <1>1, <1>6
  <2>2. vlog' = ValueLogAfter(W, ws)
    BY Zenon, <1>1
  <2>3. i \in 1..Len(ws)
    BY Zenon, <1>6
  <2>4. e \in [w : Nat, off : Nat] /\ e.w = ws[i]
    BY Zenon, <1>6, <1>7, <2>3, StoredIs
  <2>5. e.off # 0 => e.off <= Len(vlog') /\ vlog'[e.off] = ws[i]
    BY <1>6, <1>7, <2>2, <2>3, StoredIs
  <2> QED
    BY Zenon, <1>6, <2>1, <2>4, <2>5
<1>10. batch' \in Seq([w : Nat, off : Nat]) /\ Len(batch') = Len(reqs)
  <2>1. batch' \in [1..Len(reqs) -> [w : Nat, off : Nat]]
    BY Zenon, <1>1, <1>6, <1>9
  <2> QED
    BY Zenon, <1>3, <2>1, SeqOfLength
<1>11. Len(writes') - Len(batch') = Len(writes) /\ Len(batch') <= Len(writes') /\ Len(writes') \in Nat
       /\ 1..Len(writes) \subseteq 1..Len(writes')
  BY <1>3, <1>4, <1>5, <1>10
<1>12. FilesType'
  BY Zenon, <1>1, <1>5, <1>8 DEF EngineInv, TypeInv, FilesType
<1>13. HandleType'
  BY Zenon, <1>1, SameHandleType DEF EngineInv, TypeInv
<1>14. WorkType'
  <2>1. faults' \in Nat
    BY <1>1 DEF EngineInv, TypeInv, WorkType
  <2>2. writer' \in {"idle", "log"}
    BY Zenon, <1>1
  <2> QED
    BY Zenon, <1>1, <1>10, <2>1, <2>2 DEF EngineInv, TypeInv, WorkType
<1>15. KeysInv'
  <2>1. \A w, k : WriteTo(w, k) => w \in 1..Len(writes') /\ writes'[w].key = k
    BY Zenon, <1>5, <1>11 DEF WriteTo
  <2>2. \A t \in DOMAIN sst', k \in Keys : sst'[t][k].w = 0 \/ WriteTo(sst[t][k].w, k)'
    BY <1>1, <2>1 DEF EngineInv, KeysInv, WriteTo
  <2>3. \A t \in DOMAIN mems', k \in Keys : mems'[t][k].w = 0 \/ WriteTo(mems[t][k].w, k)'
    BY <1>1, <2>1 DEF EngineInv, KeysInv, WriteTo
  <2>4. \A k \in Keys : latest'[k] = 0 \/ WriteTo(latest[k], k)'
    BY Zenon, <1>1, <2>1 DEF EngineInv, KeysInv, WriteTo
  <2> QED
    BY Zenon, <2>2, <2>3, <2>4 DEF KeysInv
<1>16. LogsInv'
  <2>1. Logged = Len(writes)
    BY Zenon, <1>1 DEF Logged
  <2>2. reqs = <<>> => Len(writes') = Len(writes)
    BY <1>4, <1>5
  <2>3. Logged' = Len(writes)
    BY Zenon, <1>1, <1>11, <2>2 DEF Logged
  <2> QED
    BY Zenon, <1>1, <2>1, <2>3 DEF EngineInv, LogsInv
<1>17. DownInv'
  BY Zenon, <1>2 DEF DownInv
<1>18. ActiveInv' /\ LatestInv' /\ CoverInv' /\ KeptInv'
  BY Zenon, <1>1, SameActive, SameLatest, SameCover, SameKept DEF EngineInv
<1>19. QueueInv'
  BY Zenon, <1>1, <1>2 DEF EngineInv, QueueInv, Items
<1>20. WriterInv'
  <2>1. CASE reqs = <<>>
    BY Zenon, <1>1, <2>1 DEF WriterInv
  <2>2. CASE reqs # <<>>
    <3>1. writer' = "log"
      BY Zenon, <1>1, <2>2
    <3>2. batch' # <<>>
      BY <1>3, <1>10, <2>2
    <3>3. \A k \in Keys : latest[k] <= Len(writes)
      <4>1. \A k \in Keys : latest[k] = 0 \/ latest[k] \in 1..Len(writes)
        BY Zenon DEF EngineInv, KeysInv, WriteTo
      <4> QED
        BY <1>4, <4>1
    <3>4. \A i \in 1..Len(batch') : batch'[i].w = Len(writes') - Len(batch') + i
      BY Zenon, <1>9, <1>10, <1>11
    <3>5. \A i \in 1..Len(batch') : batch'[i].off # 0 => Resolves(batch[i])'
      BY Zenon, <1>9, <1>10 DEF Resolves
    <3>6. \A k \in Keys : latest'[k] <= Len(writes') - Len(batch')
      BY Zenon, <1>1, <1>11, <3>3
    <3> QED
      BY Zenon, <1>2, <1>11, <3>1, <3>2, <3>4, <3>5, <3>6 DEF WriterInv
  <2> QED
    BY Zenon, <2>1, <2>2
<1>21. AckInv'
  BY Zenon, <1>1, <1>2 DEF EngineInv, AckInv, SyncWrites
<1>22. RefsInv'
  <2>1. vlogStable <= Len(vlog')
    <3>1. vlogStable <= Len(vlog) /\ vlogStable \in Nat
      BY Zenon DEF EngineInv, RefsInv, TypeInv, FilesType
    <3>2. Len(vlog') \in Nat
      BY <1>8
    <3> QED
      BY <1>7, <1>8, <3>1, <3>2
  <2>2. ASSUME NEW t \in manifest, NEW k \in Keys, sst[t][k].off # 0
        PROVE  sst[t][k].off <= vlogStable /\ (sst[t][k].off <= Len(vlog') /\ vlog'[sst[t][k].off] = sst[t][k].w)
    <3>1. sst[t][k].off \in Nat
      BY Zenon DEF EngineInv, TypeInv, FilesType, Table
    <3>2. sst[t][k].off <= vlogStable /\ Resolves(sst[t][k])
      BY Zenon, <2>2 DEF EngineInv, RefsInv
    <3> QED
      BY Zenon, <1>7, <1>8, <2>2, <3>1, <3>2, StillResolves
  <2>3. ASSUME NEW n \in DOMAIN mems, NEW k \in Keys, mems[n][k].off # 0
        PROVE  mems[n][k].off <= Len(vlog') /\ vlog'[mems[n][k].off] = mems[n][k].w
    <3>1. mems[n][k].off \in Nat
      BY Zenon DEF EngineInv, TypeInv, HandleType, Table
    <3>2. Resolves(mems[n][k])
      BY Zenon, <2>3 DEF EngineInv, RefsInv
    <3> QED
      BY Zenon, <1>7, <1>8, <2>3, <3>1, <3>2, StillResolves
  <2>4. flusher \in {"write", "install"} => \A k \in Keys : mems[flushing.mem][k].off <= vlogStable
    BY Zenon DEF EngineInv, RefsInv
  <2> QED
    BY Zenon, <1>1, <2>1, <2>2, <2>3, <2>4 DEF RefsInv, Resolves
<1>23. PendingInv'
  <2>1. CASE fails
    BY Zenon, <1>1, <2>1 DEF PendingInv
  <2>2. CASE ~fails
    <3>1. \A n : Pending(n) => Pending(n)'
      BY Zenon, <1>1, <1>2 DEF Pending
    <3>2. phase # "closed" /\ phase # "abandoned"
      BY Zenon, <1>2 DEF Writing
    <3>3. \A n \in DOMAIN wal : wal[n] = <<>> \/ Pending(n)'
      BY Zenon, <1>1, <1>2, <3>1, <3>2 DEF EngineInv, PendingInv
    <3>4. mems[activeWal] = EmptyTable => \A n \in Range(walPaths) \cap DOMAIN wal : wal[n] = <<>>
      BY Zenon, <1>1, <1>2 DEF EngineInv, PendingInv
    <3> QED
      BY Zenon, <1>1, <3>2, <3>3, <3>4 DEF PendingInv
  <2> QED
    BY Zenon, <2>1, <2>2
<1> QED
  BY Zenon, <1>12, <1>13, <1>14, <1>15, <1>16, <1>17, <1>18, <1>19, <1>20, <1>21, <1>22, <1>23
     DEF EngineInv, TypeInv
=============================================================================
