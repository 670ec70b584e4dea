-------------------------------- MODULE Wal --------------------------------
(***************************************************************************)
(* One write-ahead log file with group commit: appendBatch, close and the  *)
(* syncLoop goroutine of wal.go.                                           *)
(*                                                                         *)
(* Records are numbered 1, 2, ... in append order; their bytes are left    *)
(* out.  The file is three prefixes of that sequence: `accepted' (handed   *)
(* to bufio.Writer or to the file), `written' (in the file, survives the   *)
(* process) and `synced' (fsynced, survives a loss of power).  Every       *)
(* critical section of w.mu is one action; a goroutine in cond.Wait is     *)
(* "parked" and a Broadcast makes it "woken".                              *)
(***************************************************************************)
EXTENDS Naturals

CONSTANTS
  Appenders,   \* goroutines that call appendBatch
  MaxBatch,    \* bound on the entries of one appendBatch
  MaxRecords,  \* bound on the records appended to the file
  MaxFaults    \* bound on the I/O errors the operating system reports

ASSUME WalAssumption ==
  /\ MaxBatch \in Nat \ {0}
  /\ MaxRecords \in Nat
  /\ MaxFaults \in Nat

VARIABLES
  pending, durable,           \* w.pending, w.durable
  syncErr, closed, open,      \* w.syncErr # nil, w.closed, w.f # nil
  bwErr,                      \* the sticky error of bufio.Writer
  accepted, written, synced,  \* contents of the file, see above
  wake, closeTok,             \* w.wakeCh and w.closeCh hold a token
  timer,                      \* syncLoop's timerCh # nil
  loop,                       \* the syncLoop goroutine
  pc, target,                 \* each appender
  closer,                     \* the goroutine in close()
  acked,                      \* history: highest target reported durable
  faults                      \* I/O errors so far

counters == <<pending, durable>>
file     == <<bwErr, accepted, written, synced>>
chans    == <<wake, closeTok, timer>>
vars     == <<counters, syncErr, closed, open, file, chans, loop, pc, target,
              closer, acked, faults>>

TypeOK ==
  /\ pending \in Nat /\ durable \in Nat
  /\ accepted \in Nat /\ written \in Nat /\ synced \in Nat
  /\ acked \in Nat /\ faults \in Nat
  /\ syncErr \in BOOLEAN /\ closed \in BOOLEAN /\ open \in BOOLEAN
  /\ bwErr \in BOOLEAN
  /\ wake \in BOOLEAN /\ closeTok \in BOOLEAN /\ timer \in BOOLEAN
  /\ loop \in {"none", "running", "exited"}
  /\ pc \in [Appenders -> {"idle", "parked", "woken"}]
  /\ target \in [Appenders -> Nat]
  /\ closer \in {"idle", "waiting"}

\* syncInterval > 0: newWAL started a syncLoop.
Batched == loop # "none"

\* createWAL and newWAL: an empty file; syncLoop runs only when batching.
Init ==
  /\ pending = 0 /\ durable = 0
  /\ accepted = 0 /\ written = 0 /\ synced = 0
  /\ acked = 0 /\ faults = 0
  /\ syncErr = FALSE /\ closed = FALSE /\ open = TRUE /\ bwErr = FALSE
  /\ wake = FALSE /\ closeTok = FALSE /\ timer = FALSE
  /\ loop \in {"running", "none"}
  /\ pc = [a \in Appenders |-> "idle"]
  /\ target = [a \in Appenders |-> 0]
  /\ closer = "idle"

\* w.cond.Broadcast
Broadcast(p) == [a \in Appenders |-> IF p[a] = "parked" THEN "woken" ELSE p[a]]

\* The operating system reports an error.
Fault == faults < MaxFaults /\ faults' = faults + 1

-----------------------------------------------------------------------------
(* appendBatch *)

\* The checks before the records are built; a refused call changes nothing.
CanAppend(a, n) ==
  /\ pc[a] = "idle" /\ ~closed /\ ~syncErr
  /\ pending + n <= MaxRecords

\* Mutant: a failed write is not kept in syncErr.
AppendDirectForgetsError(a, n) ==
  /\ ~Batched /\ CanAppend(a, n)
  /\ pending' = pending + n
  /\ pc' = Broadcast(pc)
  /\ \/ /\ accepted' = accepted + n
        /\ written' = accepted'
        /\ synced' = accepted'
        /\ durable' = pending'
        /\ acked' = pending'
        /\ UNCHANGED <<syncErr, faults>>
     \/ /\ Fault
        /\ accepted' \in accepted..(accepted + n)
        /\ written' = accepted'
        /\ synced' \in synced..written'
        /\ syncErr' = syncErr
        /\ UNCHANGED <<durable, acked>>
  /\ UNCHANGED <<closed, open, bwErr, chans, loop, target, closer>>

\* syncInterval <= 0: write and fsync inside the call.
AppendDirect(a, n) ==
  /\ ~Batched /\ CanAppend(a, n)
  /\ pending' = pending + n
  /\ pc' = Broadcast(pc)
  /\ \/ /\ accepted' = accepted + n
        /\ written' = accepted'
        /\ synced' = accepted'
        /\ durable' = pending'
        /\ acked' = pending'
        /\ UNCHANGED <<syncErr, faults>>
     \/ /\ Fault
        /\ accepted' \in accepted..(accepted + n)
        /\ written' = accepted'
        /\ synced' \in synced..written'
        /\ syncErr' = TRUE
        /\ UNCHANGED <<durable, acked>>
  /\ UNCHANGED <<closed, open, bwErr, chans, loop, target, closer>>

\* Mutant: syncLoop is not signalled.
AppendBufferedSilent(a, n, waitForSync) ==
  /\ Batched /\ CanAppend(a, n)
  /\ ~bwErr
  /\ pending' = pending + n
  /\ accepted' = accepted + n
  /\ written' \in written..accepted'
  /\ wake' = wake
  /\ IF waitForSync
       THEN /\ pc' = [pc EXCEPT ![a] = "parked"]
            /\ target' = [target EXCEPT ![a] = pending']
       ELSE UNCHANGED <<pc, target>>
  /\ UNCHANGED <<durable, syncErr, closed, open, bwErr, synced, closeTok, timer,
                 loop, closer, acked, faults>>

\* syncInterval > 0: buffer the records, wake syncLoop, and park when
\* waitForSync.  bufio.Writer may write part of the buffer to the file.
AppendBuffered(a, n, waitForSync) ==
  /\ Batched /\ CanAppend(a, n)
  /\ ~bwErr
  /\ pending' = pending + n
  /\ accepted' = accepted + n
  /\ written' \in written..accepted'
  /\ wake' = TRUE
  /\ IF waitForSync
       THEN /\ pc' = [pc EXCEPT ![a] = "parked"]
            /\ target' = [target EXCEPT ![a] = pending']
       ELSE UNCHANGED <<pc, target>>
  /\ UNCHANGED <<durable, syncErr, closed, open, bwErr, synced, closeTok, timer,
                 loop, closer, acked, faults>>

\* bw.Write fails: the call returns its error with pending already advanced,
\* syncErr unset and syncLoop not signalled; bufio.Writer keeps failing.
AppendBufferedFails(a, n) ==
  /\ Batched /\ CanAppend(a, n)
  /\ pending' = pending + n
  /\ bwErr' = TRUE
  /\ \/ /\ bwErr
        /\ UNCHANGED <<accepted, written, faults>>
     \/ /\ ~bwErr /\ Fault
        /\ accepted' \in accepted..(accepted + n)
        /\ written' \in written..accepted'
  /\ UNCHANGED <<durable, syncErr, closed, open, synced, chans, loop, pc, target,
                 closer, acked>>

\* Mutant: a woken caller returns nil without looking at w.durable.
ResumeUnchecked(a) ==
  /\ pc[a] = "woken"
  /\ IF durable < target[a] /\ ~syncErr /\ ~closed
       THEN pc' = [pc EXCEPT ![a] = "parked"] /\ UNCHANGED acked
       ELSE /\ pc' = [pc EXCEPT ![a] = "idle"]
            /\ acked' = IF ~syncErr /\ acked < target[a]
                          THEN target[a] ELSE acked
  /\ UNCHANGED <<counters, syncErr, closed, open, file, chans, loop, target,
                 closer, faults>>

\* A parked caller returns from cond.Wait and tests its loop condition.
Resume(a) ==
  /\ pc[a] = "woken"
  /\ IF durable < target[a] /\ ~syncErr /\ ~closed
       THEN pc' = [pc EXCEPT ![a] = "parked"] /\ UNCHANGED acked
       ELSE /\ pc' = [pc EXCEPT ![a] = "idle"]
            /\ acked' = IF ~syncErr /\ target[a] <= durable /\ acked < target[a]
                          THEN target[a] ELSE acked
  /\ UNCHANGED <<counters, syncErr, closed, open, file, chans, loop, target,
                 closer, faults>>

-----------------------------------------------------------------------------
(* syncLoop *)

\* Mutant: the buffer is flushed but the file is not fsynced.
FlushWithoutSync ==
  /\ ~(bwErr /\ written < accepted)
  /\ written' = accepted
  /\ synced' = synced
  /\ durable' = pending
  /\ UNCHANGED <<syncErr, faults>>

\* flushAndSyncLocked succeeds: the buffer is flushed and the file fsynced.
FlushAndSync ==
  /\ ~(bwErr /\ written < accepted)
  /\ written' = accepted
  /\ synced' = accepted
  /\ durable' = pending
  /\ UNCHANGED <<syncErr, faults>>

\* Flush or Sync fails, or bufio.Writer repeats its error.
FlushAndSyncFails ==
  /\ \/ bwErr /\ UNCHANGED faults
     \/ ~bwErr /\ Fault
  /\ written' \in written..accepted
  /\ synced' \in synced..written'
  /\ syncErr' = TRUE
  /\ UNCHANGED durable

\* The body shared by the timer and the close branch of syncLoop.
SyncPending ==
  IF pending > durable /\ ~syncErr
    THEN FlushAndSync \/ FlushAndSyncFails
    ELSE UNCHANGED <<written, synced, durable, syncErr, faults>>

\* Mutant: the wake-up does not start the timer.
RecvWakeNoTimer ==
  /\ loop = "running" /\ wake
  /\ wake' = FALSE
  /\ timer' = timer
  /\ UNCHANGED <<counters, syncErr, closed, open, file, closeTok, loop, pc, target,
                 closer, acked, faults>>

\* case <-w.wakeCh: startTimer()
RecvWake ==
  /\ loop = "running" /\ wake
  /\ wake' = FALSE
  /\ timer' = TRUE
  /\ UNCHANGED <<counters, syncErr, closed, open, file, closeTok, loop, pc, target,
                 closer, acked, faults>>

\* Mutant: no broadcast after the sync.
TimerFiresSilent ==
  /\ loop = "running" /\ timer
  /\ SyncPending
  /\ pc' = pc
  /\ timer' = FALSE
  /\ loop' = IF closed THEN "exited" ELSE loop
  /\ UNCHANGED <<pending, closed, open, bwErr, accepted, wake, closeTok, target,
                 closer, acked>>

\* case <-timerCh
TimerFires ==
  /\ loop = "running" /\ timer
  /\ SyncPending
  /\ pc' = Broadcast(pc)
  /\ timer' = FALSE
  /\ loop' = IF closed THEN "exited" ELSE loop
  /\ UNCHANGED <<pending, closed, open, bwErr, accepted, wake, closeTok, target,
                 closer, acked>>

\* Mutant: the close branch returns without a last flush.
RecvCloseDropsBuffer ==
  /\ loop = "running" /\ closeTok
  /\ closeTok' = FALSE
  /\ timer' = FALSE
  /\ UNCHANGED <<written, synced, durable, syncErr, faults>>
  /\ pc' = Broadcast(pc)
  /\ loop' = "exited"
  /\ UNCHANGED <<pending, closed, open, bwErr, accepted, wake, target, closer, acked>>

\* Mutant: the close branch forgets to return.
RecvCloseRunsOn ==
  /\ loop = "running" /\ closeTok
  /\ closeTok' = FALSE
  /\ timer' = FALSE
  /\ SyncPending
  /\ pc' = Broadcast(pc)
  /\ loop' = loop
  /\ UNCHANGED <<pending, closed, open, bwErr, accepted, wake, target, closer, acked>>

\* case <-w.closeCh
RecvClose ==
  /\ loop = "running" /\ closeTok
  /\ closeTok' = FALSE
  /\ timer' = FALSE
  /\ SyncPending
  /\ pc' = Broadcast(pc)
  /\ loop' = "exited"
  /\ UNCHANGED <<pending, closed, open, bwErr, accepted, wake, target, closer, acked>>

-----------------------------------------------------------------------------
(* close *)

\* syncInterval <= 0: sync what is pending.  There is nothing (DirectSettled),
\* because every append has either synced or set syncErr.
CloseDirect ==
  /\ ~Batched /\ open
  /\ IF pending > durable /\ ~syncErr
       THEN /\ durable' = pending
            /\ \E err \in BOOLEAN :
                 /\ syncErr' = err
                 /\ IF err THEN Fault /\ synced' \in synced..written
                           ELSE synced' = written /\ UNCHANGED faults
       ELSE UNCHANGED <<durable, syncErr, synced, faults>>
  /\ closed' = TRUE
  /\ open' = FALSE
  /\ pc' = Broadcast(pc)
  /\ UNCHANGED <<pending, bwErr, accepted, written, chans, loop, target, closer, acked>>

\* syncInterval > 0: ask syncLoop to finish ...
CloseBegin ==
  /\ Batched /\ open /\ closer = "idle"
  /\ closed' = TRUE
  /\ pc' = Broadcast(pc)
  /\ closeTok' = TRUE
  /\ closer' = "waiting"
  /\ UNCHANGED <<counters, syncErr, open, file, wake, timer, loop, target, acked,
                 faults>>

\* ... and return once it has (w.wg.Wait).
CloseEnd ==
  /\ closer = "waiting" /\ loop = "exited"
  /\ open' = FALSE
  /\ closer' = "idle"
  /\ UNCHANGED <<counters, syncErr, closed, file, chans, loop, pc, target, acked,
                 faults>>

-----------------------------------------------------------------------------

AppendBatch(a) ==
  \E n \in 1..MaxBatch :
    \/ AppendDirect(a, n)
    \/ \E waitForSync \in BOOLEAN : AppendBuffered(a, n, waitForSync)
    \/ AppendBufferedFails(a, n)

SyncLoop == RecvWake \/ TimerFires \/ RecvClose

Close == CloseDirect \/ CloseBegin \/ CloseEnd

Next ==
  \/ \E a \in Appenders : AppendBatch(a) \/ Resume(a)
  \/ SyncLoop
  \/ Close

Spec == Init /\ [][Next]_vars

(***************************************************************************)
(* Fairness: the Go scheduler runs every runnable goroutine and select     *)
(* picks at random among the ready cases, so a case that stays ready is    *)
(* taken.  Nothing makes a caller append or close.                         *)
(***************************************************************************)
Fairness ==
  /\ WF_vars(RecvWake) /\ WF_vars(TimerFires) /\ WF_vars(RecvClose)
  /\ WF_vars(CloseEnd)
  /\ \A a \in Appenders : WF_vars(Resume(a))

FairSpec == Spec /\ Fairness

-----------------------------------------------------------------------------
(* Properties *)

\* A caller of appendBatch that asked for durability and got nil (wal.go:205, or
\* 185 without batching) finds its records on stable storage, whatever other
\* appenders, the timer, a failing write or a concurrent close did meanwhile.
AckedDurable == acked <= synced

\* When close returns without error every record that reached the writer is on
\* stable storage: rotateMemtable and DB.Close hand the memtable to the flusher
\* on the strength of this (db.go:675, 415).
CloseHardens == (~open /\ ~syncErr) => synced = accepted

\* A caller parked in cond.Wait always has something pending that will wake it:
\* syncLoop is running and holds a wake token, a timer or a close token.
ParkedHasWaker ==
  (\E a \in Appenders : pc[a] = "parked")
    => loop = "running" /\ (wake \/ timer \/ closeTok)

\* Records appended with waitForSync = FALSE are not forgotten: while a record
\* is not yet durable, a wake token, timer or close token is outstanding.
\* (A record whose own bw.Write failed was reported as failed.)
PendingHasWaker ==
  (loop = "running" /\ ~syncErr /\ ~bwErr /\ durable < pending)
    => wake \/ timer \/ closeTok

\* Every call of appendBatch returns.
AppendReturns == \A a \in Appenders : (pc[a] # "idle") ~> (pc[a] = "idle")

\* Every call of close returns.
CloseReturns == (closer = "waiting") ~> (closer = "idle")

\* Every buffered record becomes durable without further calls, unless the log
\* has recorded an I/O error.
EventuallyDurable ==
  \A n \in 1..MaxRecords : (accepted >= n) ~> (synced >= n \/ syncErr \/ bwErr)

\* The file with its callers keeps the promise of DurableLog.
Log == INSTANCE DurableLog WITH len <- accepted, stable <- synced

ImplementsDurableLog == Log!Spec

-----------------------------------------------------------------------------
(* The inductive invariant behind the safety properties *)

\* The views of the file are nested; a healthy log has counted nothing that
\* did not reach the writer.
FileNested ==
  /\ synced <= written /\ written <= accepted /\ accepted <= pending
  /\ durable <= pending
  /\ (~syncErr /\ ~bwErr) => accepted = pending

\* w.durable never runs ahead of the disk, except over records that
\* bufio.Writer refused.
DurableOnDisk ==
  /\ ~bwErr => durable <= synced
  /\ durable <= synced \/ synced = accepted

\* A caller waits for records that reached the writer, and is only woken when
\* its loop condition has become false.
WaitersSound ==
  \A a \in Appenders :
    /\ pc[a] # "idle" => target[a] <= accepted
    /\ pc[a] = "woken" => (target[a] <= durable \/ syncErr \/ closed)

\* Which goroutines exist, by mode and by phase of close.
PhasesSound ==
  /\ loop = "exited" => closed
  /\ closer = "waiting" => closed
  /\ closeTok => closed
  /\ ~open => closed
  /\ (~open /\ Batched) => loop = "exited"
  /\ (loop = "exited" /\ ~syncErr) => synced = accepted

\* Without batching nothing is ever left pending, so close has nothing to flush.
DirectSettled ==
  ~Batched => /\ ~bwErr
              /\ \A a \in Appenders : pc[a] = "idle"
              /\ ~syncErr => (durable = pending /\ synced = accepted)

\* The state of wal.go between any two critical sections: what appendBatch,
\* syncLoop and close each rely on and restore.
IInv ==
  /\ TypeOK /\ FileNested /\ DurableOnDisk /\ WaitersSound /\ PhasesSound
  /\ DirectSettled /\ AckedDurable /\ ParkedHasWaker /\ PendingHasWaker

=============================================================================
