----------------------------- MODULE WalProofs -----------------------------
(***************************************************************************)
(* Safety of the write-ahead log for any number of appenders, any batch    *)
(* size and any number of I/O errors.                                      *)
(***************************************************************************)
EXTENDS Wal, TLAPS

USE WalAssumption DEF Batched

\* The empty log of createWAL satisfies IInv.
LEMMA InitIInv == Init => IInv
<1> SUFFICES ASSUME Init PROVE IInv
  BY Zenon
<1>1. TypeOK
  BY Zenon DEF Init, TypeOK
<1>2. FileNested /\ DurableOnDisk /\ AckedDurable
  BY DEF Init, FileNested, DurableOnDisk, AckedDurable
<1>3. WaitersSound /\ ParkedHasWaker
  BY Zenon DEF Init, WaitersSound, ParkedHasWaker
<1>4. PhasesSound
  BY Zenon DEF Init, PhasesSound
<1>5. DirectSettled
  BY Zenon DEF Init, DirectSettled
<1>6. PendingHasWaker
  BY DEF Init, PendingHasWaker
<1> QED
  BY Zenon, <1>1, <1>2, <1>3, <1>4, <1>5, <1>6 DEF IInv

\* Broadcast wakes every parked caller and leaves the others alone.
LEMMA BroadcastWakes ==
  ASSUME NEW p \in [Appenders -> {"idle", "parked", "woken"}]
  PROVE  /\ Broadcast(p) \in [Appenders -> {"idle", "parked", "woken"}]
         /\ \A a \in Appenders : /\ Broadcast(p)[a] # "parked"
                                 /\ Broadcast(p)[a] = "idle" <=> p[a] = "idle"
                                 /\ Broadcast(p)[a] = "woken" <=> p[a] # "idle"
BY Zenon DEF Broadcast

\* An append without batching leaves nothing pending, or sets syncErr.
LEMMA AppendDirectIInv ==
  ASSUME IInv, NEW a \in Appenders, NEW n \in 1..MaxBatch, AppendDirect(a, n)
  PROVE  IInv'
<1> USE DEF IInv, AppendDirect, CanAppend, chans
<1>1. TypeOK'
  <2>1. pc' \in [Appenders -> {"idle", "parked", "woken"}]
    BY Zenon, BroadcastWakes DEF TypeOK
  <2>2. /\ pending' \in Nat /\ durable' \in Nat /\ accepted' \in Nat
        /\ written' \in Nat /\ synced' \in Nat /\ acked' \in Nat
    BY DEF TypeOK
  <2>3. faults' \in Nat
    BY DEF TypeOK, Fault
  <2>4. syncErr' \in BOOLEAN
    BY Zenon DEF TypeOK
  <2> QED
    BY Zenon, <2>1, <2>2, <2>3, <2>4 DEF TypeOK
<1>2. FileNested' /\ DurableOnDisk' /\ AckedDurable'
  BY DEF TypeOK, FileNested, DurableOnDisk, AckedDurable, DirectSettled
<1>3. WaitersSound' /\ ParkedHasWaker'
  BY Zenon, BroadcastWakes DEF TypeOK, WaitersSound, ParkedHasWaker, DirectSettled
<1>4. PhasesSound'
  BY Zenon DEF PhasesSound
<1>5. DirectSettled'
  BY Zenon, BroadcastWakes DEF TypeOK, DirectSettled
<1>6. PendingHasWaker'
  BY Zenon DEF PendingHasWaker, PhasesSound
<1> QED
  BY Zenon, <1>1, <1>2, <1>3, <1>4, <1>5, <1>6

\* A buffered append leaves a wake token behind for its caller.
LEMMA AppendBufferedIInv ==
  ASSUME IInv, NEW a \in Appenders, NEW n \in 1..MaxBatch, NEW w \in BOOLEAN,
         AppendBuffered(a, n, w)
  PROVE  IInv'
BY DEF IInv, AppendBuffered, CanAppend, TypeOK, FileNested, DurableOnDisk,
       WaitersSound, PhasesSound, DirectSettled, AckedDurable, ParkedHasWaker,
       PendingHasWaker

\* A failed bw.Write advances pending only, and bwErr remembers it.
LEMMA AppendBufferedFailsIInv ==
  ASSUME IInv, NEW a \in Appenders, NEW n \in 1..MaxBatch,
         AppendBufferedFails(a, n)
  PROVE  IInv'
<1> USE DEF IInv, AppendBufferedFails, CanAppend, chans
<1>1. TypeOK'
  <2>1. faults' \in Nat
    BY DEF TypeOK, Fault
  <2>2. pending' \in Nat /\ accepted' \in Nat /\ written' \in Nat
    BY DEF TypeOK
  <2> QED
    BY Zenon, <2>1, <2>2 DEF TypeOK
<1>2. FileNested' /\ DurableOnDisk' /\ AckedDurable'
  BY DEF TypeOK, FileNested, DurableOnDisk, AckedDurable
<1>3. WaitersSound'
  BY DEF TypeOK, WaitersSound
<1>4. ParkedHasWaker' /\ PendingHasWaker' /\ DirectSettled'
  BY Zenon DEF ParkedHasWaker, PendingHasWaker, DirectSettled
<1>5. PhasesSound'
  BY Zenon DEF PhasesSound
<1> QED
  BY Zenon, <1>1, <1>2, <1>3, <1>4, <1>5

\* A woken caller has its records on disk, an error, or a closed log.
LEMMA ResumeIInv ==
  ASSUME IInv, NEW a \in Appenders, Resume(a)
  PROVE  IInv'
<1> USE DEF IInv, Resume, counters, file, chans
<1>1. pc' = [pc EXCEPT ![a] = "idle"]
  BY DEF WaitersSound, TypeOK
<1>2. TypeOK'
  BY <1>1 DEF TypeOK
<1>3. AckedDurable'
  BY DEF AckedDurable, DurableOnDisk, WaitersSound, TypeOK
<1>4. FileNested' /\ DurableOnDisk' /\ PhasesSound' /\ PendingHasWaker'
  BY Zenon DEF FileNested, DurableOnDisk, PhasesSound, PendingHasWaker
<1>5. WaitersSound' /\ ParkedHasWaker' /\ DirectSettled'
  BY Zenon, <1>1 DEF TypeOK, WaitersSound, ParkedHasWaker, DirectSettled
<1> QED
  BY Zenon, <1>2, <1>3, <1>4, <1>5

\* What the flush in syncLoop leaves behind: either every accepted record is on
\* disk and nothing is pending, or syncErr is set.
LEMMA SyncPendingOutcome ==
  ASSUME IInv, SyncPending, UNCHANGED <<pending, bwErr, accepted, acked>>
  PROVE  /\ written' \in Nat /\ synced' \in Nat /\ durable' \in Nat
         /\ faults' \in Nat /\ syncErr' \in BOOLEAN
         /\ FileNested' /\ DurableOnDisk' /\ AckedDurable'
         /\ ~syncErr' => (durable' = pending /\ synced' = accepted)
         /\ durable <= durable'
<1> USE DEF IInv
<1>1. CASE pending > durable /\ ~syncErr /\ FlushAndSync
  BY <1>1 DEF FlushAndSync, TypeOK, FileNested, DurableOnDisk, AckedDurable
<1>2. CASE pending > durable /\ ~syncErr /\ FlushAndSyncFails
  <2>1. faults' \in Nat
    BY <1>2 DEF FlushAndSyncFails, Fault, TypeOK
  <2>2. syncErr' = TRUE
    BY Zenon, <1>2 DEF FlushAndSyncFails
  <2>3. written' \in Nat /\ synced' \in Nat /\ durable' = durable
    BY <1>2 DEF FlushAndSyncFails, TypeOK
  <2>4. FileNested' /\ DurableOnDisk' /\ AckedDurable'
    BY <1>2 DEF FlushAndSyncFails, TypeOK, FileNested, DurableOnDisk, AckedDurable
  <2> QED
    BY <2>1, <2>2, <2>3, <2>4 DEF TypeOK
<1>3. CASE ~(pending > durable /\ ~syncErr)
  <2>1. UNCHANGED <<written, synced, durable, syncErr, faults>>
    BY Zenon, <1>3 DEF SyncPending
  <2>2. ~syncErr => (durable = pending /\ synced = accepted)
    BY <1>3 DEF TypeOK, FileNested, DurableOnDisk
  <2> QED
    BY <2>1, <2>2 DEF TypeOK, FileNested, DurableOnDisk, AckedDurable
<1> QED
  BY Zenon, <1>1, <1>2, <1>3 DEF SyncPending

\* The wake token is exchanged for a timer.
LEMMA RecvWakeIInv == ASSUME IInv, RecvWake PROVE IInv'
BY Zenon DEF IInv, RecvWake, counters, file, TypeOK, FileNested, DurableOnDisk,
       WaitersSound, PhasesSound, DirectSettled, AckedDurable, ParkedHasWaker,
       PendingHasWaker

\* After the timer nothing is pending or syncErr is set, and nobody is parked.
LEMMA TimerFiresIInv == ASSUME IInv, TimerFires PROVE IInv'
<1> USE DEF IInv, TimerFires
<1>1. pc' = Broadcast(pc) /\ UNCHANGED <<pending, bwErr, accepted, acked>>
  BY Zenon
<1>2. TypeOK'
  <2>1. pc' \in [Appenders -> {"idle", "parked", "woken"}]
    BY <1>1, BroadcastWakes DEF TypeOK
  <2>2. /\ written' \in Nat /\ synced' \in Nat /\ durable' \in Nat
        /\ faults' \in Nat /\ syncErr' \in BOOLEAN
    BY Zenon, <1>1, SyncPendingOutcome
  <2>3. loop' \in {"none", "running", "exited"}
    BY Zenon DEF TypeOK
  <2> QED
    BY Zenon, <2>1, <2>2, <2>3 DEF TypeOK
<1>3. FileNested' /\ DurableOnDisk' /\ AckedDurable'
  BY Zenon, <1>1, SyncPendingOutcome
<1>4. WaitersSound' /\ ParkedHasWaker'
  BY <1>1, SyncPendingOutcome, BroadcastWakes
     DEF TypeOK, WaitersSound, ParkedHasWaker, FileNested
<1>5. PhasesSound'
  BY Zenon, <1>1, SyncPendingOutcome DEF PhasesSound
<1>6. DirectSettled' /\ PendingHasWaker'
  BY <1>1, SyncPendingOutcome DEF PhasesSound, DirectSettled, PendingHasWaker, TypeOK
<1> QED
  BY Zenon, <1>2, <1>3, <1>4, <1>5, <1>6

\* The close branch hardens the file before syncLoop exits.
LEMMA RecvCloseIInv == ASSUME IInv, RecvClose PROVE IInv'
<1> USE DEF IInv, RecvClose
<1>0. closed
  BY Zenon DEF PhasesSound
<1>1. pc' = Broadcast(pc) /\ UNCHANGED <<pending, bwErr, accepted, acked>>
  BY Zenon
<1>2. TypeOK'
  <2>1. pc' \in [Appenders -> {"idle", "parked", "woken"}]
    BY <1>1, BroadcastWakes DEF TypeOK
  <2>2. /\ written' \in Nat /\ synced' \in Nat /\ durable' \in Nat
        /\ faults' \in Nat /\ syncErr' \in BOOLEAN
    BY Zenon, <1>1, SyncPendingOutcome
  <2>3. loop' \in {"none", "running", "exited"}
    BY Zenon DEF TypeOK
  <2> QED
    BY Zenon, <2>1, <2>2, <2>3 DEF TypeOK
<1>3. FileNested' /\ DurableOnDisk' /\ AckedDurable'
  BY Zenon, <1>1, SyncPendingOutcome
<1>4. WaitersSound' /\ ParkedHasWaker'
  BY <1>1, SyncPendingOutcome, BroadcastWakes
     DEF TypeOK, WaitersSound, ParkedHasWaker, FileNested
<1>5. PhasesSound'
  BY Zenon, <1>0, <1>1, SyncPendingOutcome DEF PhasesSound
<1>6. DirectSettled' /\ PendingHasWaker'
  BY Zenon, <1>1, SyncPendingOutcome DEF PhasesSound, DirectSettled, PendingHasWaker, TypeOK
<1> QED
  BY Zenon, <1>2, <1>3, <1>4, <1>5, <1>6

\* The three parts of close: what is pending is synced or syncLoop is told.
LEMMA CloseIInv == ASSUME IInv, Close PROVE IInv'
<1> USE DEF IInv
<1>1. CASE CloseDirect
  <2>0. /\ ~Batched /\ open /\ closed' = TRUE /\ open' = FALSE /\ pc' = Broadcast(pc)
        /\ UNCHANGED <<counters, syncErr, file, chans, loop, target, closer, acked, faults>>
    <3>1. ~(pending > durable /\ ~syncErr)
      BY <1>1 DEF CloseDirect, DirectSettled, TypeOK
    <3> QED
      BY Zenon, <1>1, <3>1 DEF CloseDirect, counters, file
  <2> USE DEF counters, file, chans
  <2>1. TypeOK'
    BY Zenon, <2>0, BroadcastWakes DEF TypeOK
  <2>2. FileNested' /\ DurableOnDisk' /\ AckedDurable'
    BY Zenon, <2>0 DEF TypeOK, FileNested, DurableOnDisk, AckedDurable, DirectSettled
  <2>3. WaitersSound' /\ ParkedHasWaker' /\ DirectSettled'
    BY Zenon, <2>0, BroadcastWakes
       DEF TypeOK, WaitersSound, ParkedHasWaker, DirectSettled
  <2>4. PhasesSound' /\ PendingHasWaker'
    BY Zenon, <2>0 DEF PhasesSound, PendingHasWaker
  <2> QED
    BY Zenon, <2>1, <2>2, <2>3, <2>4
<1>2. CASE CloseBegin
  <2> USE DEF CloseBegin, counters, file
  <2>1. TypeOK'
    BY Zenon, <1>2, BroadcastWakes DEF TypeOK
  <2>2. FileNested' /\ DurableOnDisk' /\ AckedDurable' /\ PendingHasWaker'
    BY Zenon, <1>2 DEF FileNested, DurableOnDisk, AckedDurable, PendingHasWaker
  <2>3. WaitersSound' /\ ParkedHasWaker' /\ DirectSettled'
    BY Zenon, <1>2, BroadcastWakes
       DEF TypeOK, WaitersSound, ParkedHasWaker, DirectSettled
  <2>4. PhasesSound'
    BY Zenon, <1>2 DEF PhasesSound
  <2> QED
    BY Zenon, <2>1, <2>2, <2>3, <2>4
<1>3. CASE CloseEnd
  <2> USE DEF CloseEnd, counters, file, chans
  <2>1. TypeOK'
    BY Zenon, <1>3 DEF TypeOK
  <2>2. FileNested' /\ DurableOnDisk' /\ AckedDurable' /\ PendingHasWaker'
    BY Zenon, <1>3 DEF FileNested, DurableOnDisk, AckedDurable, PendingHasWaker
  <2>3. WaitersSound' /\ ParkedHasWaker' /\ DirectSettled' /\ PhasesSound'
    BY Zenon, <1>3 DEF WaitersSound, ParkedHasWaker, DirectSettled, PhasesSound
  <2> QED
    BY Zenon, <2>1, <2>2, <2>3
<1> QED
  BY Zenon, <1>1, <1>2, <1>3 DEF Close

\* Every step of the log preserves IInv.
LEMMA NextIInv == IInv /\ [Next]_vars => IInv'
<1> SUFFICES ASSUME IInv, [Next]_vars PROVE IInv'
  BY Zenon
<1>1. ASSUME NEW a \in Appenders, AppendBatch(a) PROVE IInv'
  BY Zenon, <1>1, AppendDirectIInv, AppendBufferedIInv, AppendBufferedFailsIInv
     DEF AppendBatch
<1>2. ASSUME NEW a \in Appenders, Resume(a) PROVE IInv'
  BY Zenon, <1>2, ResumeIInv
<1>3. CASE SyncLoop
  BY Zenon, <1>3, RecvWakeIInv, TimerFiresIInv, RecvCloseIInv DEF SyncLoop
<1>4. CASE Close
  BY Zenon, <1>4, CloseIInv
<1>5. CASE UNCHANGED vars
  BY <1>5 DEF vars, counters, file, chans, IInv, TypeOK, FileNested, DurableOnDisk,
              WaitersSound, PhasesSound, DirectSettled, AckedDurable,
              ParkedHasWaker, PendingHasWaker
<1> QED
  BY Zenon, <1>1, <1>2, <1>3, <1>4, <1>5 DEF Next

\* IInv holds in every reachable state of the log (wal.go:139-351).
THEOREM Invariance == Spec => []IInv
BY InitIInv, NextIInv, PTL DEF Spec

\* Type correctness of the log.
THEOREM TypeCorrect == Spec => []TypeOK
<1>1. IInv => TypeOK
  BY Zenon DEF IInv
<1> QED
  BY <1>1, Invariance, PTL

\* appendBatch never reports a record durable that a loss of power could take
\* away (wal.go:183-185, 196-205).
THEOREM AckedRecordsAreDurable == Spec => []AckedDurable
<1>1. IInv => AckedDurable
  BY Zenon DEF IInv
<1> QED
  BY <1>1, Invariance, PTL

\* A close that returns nil has hardened every accepted record (wal.go:208-252).
THEOREM CloseIsAHardPoint == Spec => []CloseHardens
<1>1. IInv => CloseHardens
  BY Zenon DEF IInv, CloseHardens, PhasesSound, DirectSettled
<1> QED
  BY <1>1, Invariance, PTL

\* No wake-up is lost: neither a parked caller (wal.go:196) nor an unsynced
\* asynchronous record (wal.go:193) is without a pending wake, timer or close.
THEOREM NoLostWakeup == Spec => [](ParkedHasWaker /\ PendingHasWaker)
<1>1. IInv => ParkedHasWaker /\ PendingHasWaker
  BY Zenon DEF IInv
<1> QED
  BY <1>1, Invariance, PTL

\* Every step of the log is a step of DurableLog or leaves it unchanged.
LEMMA StepRefines ==
  ASSUME IInv, IInv', [Next]_vars
  PROVE  [Log!Advance]_(Log!logVars)
<1> DEFINE Grows == accepted <= accepted' /\ synced <= synced' /\ acked <= acked'
<1>0. SUFFICES Grows
  <2>1. /\ accepted' \in Nat /\ synced' \in Nat /\ acked' \in Nat
        /\ synced \in Nat /\ acked \in Nat
        /\ synced' <= accepted' /\ acked' <= synced'
    BY DEF IInv, TypeOK, FileNested, AckedDurable
  <2> QED
    BY <2>1 DEF Log!Advance
<1> USE DEF IInv, TypeOK, FileNested, AckedDurable
<1>1. ASSUME NEW a \in Appenders, AppendBatch(a) PROVE Grows
  <2> PICK n \in 1..MaxBatch :
           \/ AppendDirect(a, n)
           \/ \E w \in BOOLEAN : AppendBuffered(a, n, w)
           \/ AppendBufferedFails(a, n)
    BY Zenon, <1>1 DEF AppendBatch
  <2>1. CASE AppendDirect(a, n)
    BY <2>1 DEF AppendDirect
  <2>2. CASE \E w \in BOOLEAN : AppendBuffered(a, n, w)
    BY <2>2 DEF AppendBuffered
  <2>3. CASE AppendBufferedFails(a, n)
    BY <2>3 DEF AppendBufferedFails
  <2> QED
    BY Zenon, <2>1, <2>2, <2>3
<1>2. ASSUME NEW a \in Appenders, Resume(a) PROVE Grows
  BY <1>2 DEF Resume, file
<1>3. CASE SyncLoop
  <2>1. CASE RecvWake
    BY <2>1 DEF RecvWake, file
  <2>2. CASE SyncPending /\ UNCHANGED <<accepted, acked>>
    BY <2>2 DEF SyncPending, FlushAndSync, FlushAndSyncFails
  <2> QED
    BY Zenon, <1>3, <2>1, <2>2 DEF SyncLoop, TimerFires, RecvClose
<1>4. CASE Close
  BY <1>4 DEF Close, CloseDirect, CloseBegin, CloseEnd, file
<1>5. CASE UNCHANGED vars
  BY <1>5 DEF vars, file
<1> QED
  BY Zenon, <1>1, <1>2, <1>3, <1>4, <1>5 DEF Next

\* The log implements DurableLog: it only grows, a growing prefix is stable,
\* and only stable records are acknowledged.
THEOREM Refinement == Spec => ImplementsDurableLog
<1>1. Init => Log!Init
  BY Zenon DEF Init, Log!Init
<1>2. IInv /\ IInv' /\ [Next]_vars => [Log!Advance]_(Log!logVars)
  BY Zenon, StepRefines
<1> QED
  BY <1>1, <1>2, Invariance, PTL DEF Spec, ImplementsDurableLog, Log!Spec

=============================================================================
