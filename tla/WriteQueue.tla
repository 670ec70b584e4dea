----------------------------- MODULE WriteQueue -----------------------------
(***************************************************************************)
(* How writes reach the writer goroutine and how Close stops it (db.go):   *)
(* submitWrite with beginSubmit and finishSubmit, the channel writeCh, the *)
(* batching and answering of writeLoop, and markClosed and stopWrites.     *)
(*                                                                         *)
(* What a batch does to the store is left out: a pass of processWriteBatch *)
(* answers some requests with nil and may fail the others.  Engine models  *)
(* the passes.  A request is a pooled object, so the queue also records    *)
(* (as history) which caller it was sent for.                              *)
(***************************************************************************)
EXTENDS Naturals, Sequences, FiniteSets

CONSTANTS
  Clients,   \* goroutines that call Put or Delete
  Reqs,      \* writeRequest objects
  QueueCap,  \* cap(writeCh), 256
  BatchCap,  \* cap(batch), 256
  Window,    \* writeBatchWindow > 0, and writes are synchronous
  MaxCalls   \* bound on the calls each client makes

ASSUME QueueAssumption ==
  /\ IsFiniteSet(Clients)
  /\ QueueCap \in Nat \ {0} /\ BatchCap \in Nat \ {0} /\ MaxCalls \in Nat
  /\ Window \in BOOLEAN
  /\ "close" \notin Clients

VARIABLES
  submitters,   \* db.submitters
  closed,       \* db.closed, as published in the read state
  flushErr,     \* db.flushErr # nil
  mutex,        \* db.submitMu is held
  writeCh,      \* db.writeCh: sequence of [req, by]
  pool,         \* writeRequestPool
  wg, err,      \* the WaitGroup counter and the err # nil of each request
  pc, req, sent, calls,  \* each client: its step, request, whether it was queued
  closer,       \* the goroutine in Close
  writer, batch, closing, good, failing,  \* writeLoop
  answer        \* history: how the writer answered each client's last request

clientVars == <<pc, req, sent, calls>>
writerVars == <<writer, batch, closing, good, failing>>
reqVars    == <<pool, wg, err>>
vars == <<submitters, closed, flushErr, mutex, writeCh, reqVars, clientVars, closer,
          writerVars, answer>>

\* The nil that stopWrites sends.
Nil == [req |-> "nil", by |-> "close"]

Entries == [req : Reqs, by : Clients]

Submitting == {"check", "checkErr", "send", "leave"}

\* openDB
Init ==
  /\ submitters = 0 /\ closed = FALSE /\ flushErr = FALSE /\ mutex = FALSE
  /\ writeCh = <<>>
  /\ pool = Reqs /\ wg = [r \in Reqs |-> 0] /\ err = [r \in Reqs |-> FALSE]
  /\ pc = [c \in Clients |-> "idle"] /\ req \in [Clients -> Reqs]
  /\ sent = [c \in Clients |-> FALSE] /\ calls = [c \in Clients |-> 0]
  /\ closer = "idle"
  /\ writer = "recv" /\ batch = <<>> /\ closing = FALSE
  /\ good = 0 /\ failing = FALSE
  /\ answer = [c \in Clients |-> "none"]

-----------------------------------------------------------------------------
(* submitWrite *)

Goto(c, step) == pc' = [pc EXCEPT ![c] = step]

\* req.finish
Finish(r, isErr) ==
  /\ wg' = [wg EXCEPT ![r] = @ - 1]
  /\ err' = [err EXCEPT ![r] = isErr]

\* acquireWriteRequest, and the Add(1) of beginSubmit.
Call(c) ==
  /\ pc[c] = "idle" /\ calls[c] < MaxCalls
  /\ calls' = [calls EXCEPT ![c] = @ + 1]
  /\ \E r \in pool :
       /\ pool' = pool \ {r}
       /\ wg' = [wg EXCEPT ![r] = @ + 1]
       /\ err' = [err EXCEPT ![r] = FALSE]
       /\ req' = [req EXCEPT ![c] = r]
  /\ submitters' = submitters + 1
  /\ sent' = [sent EXCEPT ![c] = FALSE]
  /\ answer' = [answer EXCEPT ![c] = "none"]
  /\ Goto(c, "check")
  /\ UNCHANGED <<closed, flushErr, mutex, writeCh, closer, writerVars>>

\* The closed check of beginSubmit.
Check(c) ==
  /\ pc[c] = "check"
  /\ Goto(c, IF closed THEN "leave" ELSE "checkErr")
  /\ UNCHANGED <<submitters, closed, flushErr, mutex, writeCh, reqVars, req, sent, calls,
                 closer, writerVars, answer>>

\* The flushErr check under db.mu.
CheckErr(c) ==
  /\ pc[c] = "checkErr"
  /\ Goto(c, IF flushErr THEN "leave" ELSE "send")
  /\ UNCHANGED <<submitters, closed, flushErr, mutex, writeCh, reqVars, req, sent, calls,
                 closer, writerVars, answer>>

\* db.writeCh <- req
Send(c) ==
  /\ pc[c] = "send" /\ Len(writeCh) < QueueCap
  /\ writeCh' = Append(writeCh, [req |-> req[c], by |-> c])
  /\ sent' = [sent EXCEPT ![c] = TRUE]
  /\ Goto(c, "leave")
  /\ UNCHANGED <<submitters, closed, flushErr, mutex, reqVars, req, calls, closer,
                 writerVars, answer>>

\* Where a client goes after finishSubmit.
AfterSubmit(c) == IF sent[c] THEN "wait" ELSE "refuse"

\* Mutant: the last client out does not broadcast.
LeaveSilently(c) ==
  /\ pc[c] = "leave"
  /\ submitters' = submitters - 1
  /\ Goto(c, AfterSubmit(c))
  /\ UNCHANGED <<closed, flushErr, mutex, writeCh, reqVars, req, sent, calls, closer,
                 writerVars, answer>>

\* The Add(-1) of finishSubmit; the last one out has to notify Close.
Leave(c) ==
  /\ pc[c] = "leave"
  /\ submitters' = submitters - 1
  /\ Goto(c, IF submitters' = 0 THEN "notify" ELSE AfterSubmit(c))
  /\ UNCHANGED <<closed, flushErr, mutex, writeCh, reqVars, req, sent, calls, closer,
                 writerVars, answer>>

\* Mutant: the broadcast is made without submitMu.
NotifyUnlocked(c) ==
  /\ pc[c] = "notify"
  /\ closer' = IF closer = "parked" THEN "lock" ELSE closer
  /\ Goto(c, AfterSubmit(c))
  /\ UNCHANGED <<submitters, closed, flushErr, mutex, writeCh, reqVars, req, sent, calls,
                 writerVars, answer>>

\* submitMu.Lock, submitCond.Broadcast, submitMu.Unlock
Notify(c) ==
  /\ pc[c] = "notify" /\ ~mutex
  /\ closer' = IF closer = "parked" THEN "lock" ELSE closer
  /\ Goto(c, AfterSubmit(c))
  /\ UNCHANGED <<submitters, closed, flushErr, mutex, writeCh, reqVars, req, sent, calls,
                 writerVars, answer>>

\* A refused request is finished by its own caller.
Refuse(c) ==
  /\ pc[c] = "refuse"
  /\ Finish(req[c], TRUE)
  /\ answer' = [answer EXCEPT ![c] = "error"]
  /\ Goto(c, "wait")
  /\ UNCHANGED <<submitters, closed, flushErr, mutex, writeCh, pool, req, sent, calls,
                 closer, writerVars>>

\* Mutant: wait does not wait for the answer.
ReturnEarly(c) ==
  /\ pc[c] = "wait"
  /\ pool' = pool \cup {req[c]}
  /\ err' = [err EXCEPT ![req[c]] = FALSE]
  /\ Goto(c, "idle")
  /\ UNCHANGED <<submitters, closed, flushErr, mutex, writeCh, wg, req, sent, calls,
                 closer, writerVars, answer>>

\* req.wait returns and puts the request back into the pool.
Return(c) ==
  /\ pc[c] = "wait" /\ wg[req[c]] = 0
  /\ pool' = pool \cup {req[c]}
  /\ err' = [err EXCEPT ![req[c]] = FALSE]
  /\ Goto(c, "idle")
  /\ UNCHANGED <<submitters, closed, flushErr, mutex, writeCh, wg, req, sent, calls,
                 closer, writerVars, answer>>

-----------------------------------------------------------------------------
(* Close: markClosed and stopWrites *)

\* A later Close finds closed set and returns without doing anything.
MarkClosed ==
  /\ closer = "idle"
  /\ closed' = TRUE
  /\ closer' = "lock"
  /\ UNCHANGED <<submitters, flushErr, mutex, writeCh, reqVars, clientVars, writerVars,
                 answer>>

\* waitForSubmitters: Lock (also when Wait returns), ...
WaitLock ==
  /\ closer = "lock" /\ ~mutex
  /\ mutex' = TRUE
  /\ closer' = "test"
  /\ UNCHANGED <<submitters, closed, flushErr, writeCh, reqVars, clientVars, writerVars,
                 answer>>

\* Mutant: Close does not wait for the submitters.
WaitTestSkipped ==
  /\ closer = "test"
  /\ IF TRUE
       THEN mutex' = FALSE /\ closer' = "sentinel"
       ELSE closer' = "park" /\ UNCHANGED mutex
  /\ UNCHANGED <<submitters, closed, flushErr, writeCh, reqVars, clientVars, writerVars,
                 answer>>

\* ... submitters.Load, ...
WaitTest ==
  /\ closer = "test"
  /\ IF submitters = 0
       THEN mutex' = FALSE /\ closer' = "sentinel"
       ELSE closer' = "park" /\ UNCHANGED mutex
  /\ UNCHANGED <<submitters, closed, flushErr, writeCh, reqVars, clientVars, writerVars,
                 answer>>

\* ... and submitCond.Wait, which releases the mutex.
WaitPark ==
  /\ closer = "park"
  /\ mutex' = FALSE
  /\ closer' = "parked"
  /\ UNCHANGED <<submitters, closed, flushErr, writeCh, reqVars, clientVars, writerVars,
                 answer>>

\* db.writeCh <- nil
SendNil ==
  /\ closer = "sentinel" /\ Len(writeCh) < QueueCap
  /\ writeCh' = Append(writeCh, Nil)
  /\ closer' = "join"
  /\ UNCHANGED <<submitters, closed, flushErr, mutex, reqVars, clientVars, writerVars,
                 answer>>

\* Mutant: Close does not wait for the writer.
JoinEarly ==
  /\ closer = "join"
  /\ closer' = "stopped"
  /\ UNCHANGED <<submitters, closed, flushErr, mutex, writeCh, reqVars, clientVars,
                 writerVars, answer>>

\* db.writeWg.Wait
Join ==
  /\ closer = "join" /\ writer = "exited"
  /\ closer' = "stopped"
  /\ UNCHANGED <<submitters, closed, flushErr, mutex, writeCh, reqVars, clientVars,
                 writerVars, answer>>

-----------------------------------------------------------------------------
(* writeLoop and collectWriteBatch *)

\* req := <-db.writeCh
Recv ==
  /\ writer = "recv" /\ writeCh # <<>>
  /\ writeCh' = Tail(writeCh)
  /\ IF Head(writeCh) = Nil
       THEN writer' = "exited" /\ UNCHANGED batch
       ELSE writer' = "drain" /\ batch' = <<Head(writeCh)>>
  /\ UNCHANGED <<submitters, closed, flushErr, mutex, reqVars, clientVars, closer,
                 closing, good, failing, answer>>

\* drainQueuedWrites takes one more request, or the nil.
Drain ==
  /\ writer \in {"drain", "drainAgain"}
  /\ Len(batch) < BatchCap /\ writeCh # <<>>
  /\ writeCh' = Tail(writeCh)
  /\ IF Head(writeCh) = Nil
       THEN closing' = TRUE /\ writer' = "pass" /\ UNCHANGED batch
       ELSE batch' = Append(batch, Head(writeCh)) /\ UNCHANGED <<closing, writer>>
  /\ UNCHANGED <<submitters, closed, flushErr, mutex, reqVars, clientVars, closer, good,
                 failing, answer>>

\* drainQueuedWrites returns: the queue is empty or the batch is full.
DrainEnd ==
  /\ writer \in {"drain", "drainAgain"}
  /\ Len(batch) = BatchCap \/ writeCh = <<>>
  /\ writer' = IF writer = "drain" /\ Len(batch) < BatchCap THEN "decide" ELSE "pass"
  /\ UNCHANGED <<submitters, closed, flushErr, mutex, writeCh, reqVars, clientVars,
                 closer, batch, closing, good, failing, answer>>

\* shouldWaitForGroupCommit
Decide ==
  /\ writer = "decide"
  /\ writer' = IF Window /\ (writeCh # <<>> \/ submitters > 0) THEN "sleep" ELSE "pass"
  /\ UNCHANGED <<submitters, closed, flushErr, mutex, writeCh, reqVars, clientVars,
                 closer, batch, closing, good, failing, answer>>

\* time.Sleep(db.writeBatchWindow)
Sleep ==
  /\ writer = "sleep"
  /\ writer' = "drainAgain"
  /\ UNCHANGED <<submitters, closed, flushErr, mutex, writeCh, reqVars, clientVars,
                 closer, batch, closing, good, failing, answer>>

-----------------------------------------------------------------------------
(* processWriteBatch: which requests are answered, how and in which order *)

\* One pass: the first `good' requests will be answered nil.  An error of the
\* value log or of the append is kept in flushErr and fails the others.
Pass ==
  /\ writer = "pass"
  /\ writer' = "answer"
  /\ \/ /\ flushErr
        /\ good' = 0 /\ failing' = TRUE
     \/ /\ ~flushErr
        /\ good' \in 1..Len(batch) /\ failing' = FALSE
     \/ /\ ~flushErr
        /\ good' \in 0..(Len(batch) - 1) /\ failing' = TRUE
  /\ flushErr' = (flushErr \/ failing')
  /\ UNCHANGED <<submitters, closed, mutex, writeCh, reqVars, clientVars, closer, batch,
                 closing, answer>>

\* rotateMemtable fails: the request that filled the memtable and all behind it
\* get the error.
RotateFails ==
  /\ writer = "answer" /\ good = 1 /\ ~failing
  /\ good' = 0 /\ failing' = TRUE /\ flushErr' = TRUE
  /\ UNCHANGED <<submitters, closed, mutex, writeCh, reqVars, clientVars, closer, writer,
                 batch, closing, answer>>

\* req.finish of the next request of the batch.
Answer ==
  /\ writer = "answer"
  /\ Finish(Head(batch).req, good = 0)
  /\ answer' = [answer EXCEPT ![Head(batch).by] = IF good = 0 THEN "error" ELSE "nil"]
  /\ good' = IF good = 0 THEN 0 ELSE good - 1
  /\ batch' = Tail(batch)
  /\ writer' = IF Len(batch) = 1 THEN (IF closing THEN "exited" ELSE "recv")
               ELSE IF good' = 0 /\ ~failing THEN "pass" ELSE "answer"
  /\ UNCHANGED <<submitters, closed, flushErr, mutex, writeCh, pool, clientVars, closer,
                 closing, failing>>

\* The flusher records an error (setFlushErrIfNil).
FlushFails ==
  /\ ~flushErr
  /\ flushErr' = TRUE
  /\ UNCHANGED <<submitters, closed, mutex, writeCh, reqVars, clientVars, closer,
                 writerVars, answer>>

-----------------------------------------------------------------------------

Submit(c) == \/ Check(c) \/ CheckErr(c) \/ Send(c) \/ Leave(c) \/ Notify(c)
             \/ Refuse(c) \/ Return(c)

Stop == WaitLock \/ WaitTest \/ WaitPark \/ SendNil \/ Join

WriteLoop == Recv \/ Drain \/ DrainEnd \/ Decide \/ Sleep \/ Pass \/ RotateFails \/ Answer

Next ==
  \/ \E c \in Clients : Call(c) \/ Submit(c)
  \/ MarkClosed \/ Stop
  \/ WriteLoop
  \/ FlushFails

Spec == Init /\ [][Next]_vars

(***************************************************************************)
(* Fairness: every runnable goroutine is run; a goroutine blocked on the   *)
(* mutex or on the channel gets it when it stays available.  Nobody has to *)
(* call Put or Close.                                                      *)
(***************************************************************************)
Fairness ==
  /\ \A c \in Clients : WF_vars(Submit(c))
  /\ WF_vars(Stop)
  /\ WF_vars(WriteLoop)

FairSpec == Spec /\ Fairness

-----------------------------------------------------------------------------
(* Properties *)

\* When stopWrites has seen no submitters (db.go:451-453) the nil it sends is
\* the last thing ever sent: no client that passed the closed check earlier can
\* still queue a request behind it, where the exited writer would never answer.
NothingBehindNil ==
  closer \in {"sentinel", "join", "stopped"} =>
    /\ \A c \in Clients : pc[c] \notin {"checkErr", "send"} /\ (sent[c] => pc[c] # "leave")
    /\ \A i \in 1..Len(writeCh) : writeCh[i] = Nil => i = Len(writeCh)

\* Close only goes on to take the memtable and the log away (db.go:412-431)
\* when the writer is done with every request.
StoppedIsQuiet == closer = "stopped" => writer = "exited" /\ writeCh = <<>> /\ batch = <<>>

\* Close parked in submitCond.Wait is never forgotten: a client is still inside
\* beginSubmit/finishSubmit or about to broadcast.
CloserHasWaker ==
  closer = "parked" => submitters > 0 \/ \E c \in Clients : pc[c] = "notify"

\* submitters counts the clients between beginSubmit and finishSubmit.
CountsSubmitters == submitters = Cardinality({c \in Clients : pc[c] \in Submitting})

\* The requests the writer has not answered, in the order it will answer them.
Queue == batch \o writeCh

InCall(c) == pc[c] # "idle"

RequestTypes ==
  /\ wg \in [Reqs -> {0, 1}] /\ err \in [Reqs -> BOOLEAN]
  /\ answer \in [Clients -> {"none", "nil", "error"}]

\* A request is in the pool, finished, or with one caller.
HeldOnce ==
  /\ \A r \in pool : wg[r] = 0
  /\ \A c \in Clients : InCall(c) => req[c] \notin pool
  /\ \A c, d \in Clients : (InCall(c) /\ InCall(d) /\ req[c] = req[d]) => c = d

\* A queued request is queued once, under its own caller, and is unfinished.
QueuedOnce ==
  /\ \A i \in 1..Len(Queue) : Queue[i] # Nil =>
       /\ pc[Queue[i].by] \in {"leave", "notify", "wait"} /\ sent[Queue[i].by]
       /\ Queue[i].req = req[Queue[i].by] /\ wg[Queue[i].req] = 1
  /\ \A i, j \in 1..Len(Queue) : Queue[i].by = Queue[j].by => i = j

\* An unfinished request that was sent is queued; one that was not sent stays
\* unfinished until its caller refuses it.
UnfinishedIsOwed ==
  \A c \in Clients :
    /\ (InCall(c) /\ sent[c] /\ wg[req[c]] = 1) =>
         \E i \in 1..Len(Queue) : Queue[i] = [req |-> req[c], by |-> c]
    /\ pc[c] = "refuse" => ~sent[c]
    /\ (InCall(c) /\ pc[c] # "wait" /\ ~sent[c]) => wg[req[c]] = 1

\* The life of a pooled request: whoever holds it, the writer answers it exactly
\* once and for the caller that queued it, so that putting it back into the pool
\* after req.wait never lets an answer reach a later owner.
RequestsTracked == RequestTypes /\ HeldOnce /\ QueuedOnce /\ UnfinishedIsOwed

\* A caller gets the answer the writer gave to its own write, although request
\* objects are recycled.
OwnAnswer ==
  \A c \in Clients : (InCall(c) /\ wg[req[c]] = 0) =>
    answer[c] = IF err[req[c]] THEN "error" ELSE "nil"

\* Every Put and Delete returns, also when it races with Close.
PutReturns == \A c \in Clients : (pc[c] # "idle") ~> (pc[c] = "idle")

\* stopWrites returns.
StopReturns == closed ~> (closer = "stopped")

-----------------------------------------------------------------------------
(* The inductive invariant behind the hand-over from clients to Close *)

\* The types of the state the hand-over depends on.
ControlTypes ==
  /\ submitters \in Nat
  /\ closed \in BOOLEAN /\ mutex \in BOOLEAN /\ closing \in BOOLEAN
  /\ writeCh \in Seq(Entries \cup {Nil}) /\ batch \in Seq(Entries)
  /\ pc \in [Clients -> Submitting \cup {"idle", "notify", "refuse", "wait"}]
  /\ pool \subseteq Reqs
  /\ req \in [Clients -> Reqs] /\ sent \in [Clients -> BOOLEAN]
  /\ closer \in {"idle", "lock", "test", "park", "parked", "sentinel", "join", "stopped"}
  /\ writer \in {"recv", "drain", "decide", "sleep", "drainAgain", "pass", "answer",
                 "exited"}

\* submitMu is held from Lock to the end of the test or to the parking, and
\* nothing is parked without somebody left to broadcast.
CloserSound ==
  /\ mutex <=> closer \in {"test", "park"}
  /\ closer # "idle" => closed
  /\ closer \in {"park", "parked"} =>
       submitters > 0 \/ \E c \in Clients : pc[c] = "notify"

\* A client is marked as queued only by its send, and once Close has seen no
\* submitters the closed check keeps everybody from the channel.
ClientsSound ==
  /\ \A c \in Clients : pc[c] \in {"check", "checkErr", "send"} => ~sent[c]
  /\ closer \in {"sentinel", "join", "stopped"} =>
       \A c \in Clients : pc[c] \notin {"checkErr", "send"} /\ (sent[c] => pc[c] # "leave")

\* The nil is queued once, last, and ends the writer.
NilSound ==
  /\ \A i \in 1..Len(writeCh) :
       writeCh[i] = Nil => i = Len(writeCh) /\ closer \in {"join", "stopped"}
  /\ (closing \/ writer = "exited") => writeCh = <<>> /\ closer \in {"join", "stopped"}
  /\ closer = "stopped" => writer = "exited"
  /\ batch = <<>> <=> writer \in {"recv", "exited"}

\* What submitWrite, stopWrites and writeLoop each rely on and restore.
HandOver ==
  ControlTypes /\ CountsSubmitters /\ CloserSound /\ ClientsSound /\ NilSound

=============================================================================
