-------------------------- MODULE WriteQueueProofs --------------------------
(***************************************************************************)
(* Proofs about the write queue.  HandOver, about the hand-over from the   *)
(* callers of Put to Close, is inductive; RequestsTracked and OwnAnswer,   *)
(* about the recycled requests, are inductive together with it.            *)
(***************************************************************************)
EXTENDS WriteQueue, FiniteSetTheorems, TLAPS

USE QueueAssumption

\* The clients inside beginSubmit/finishSubmit.
Inside == {c \in Clients : pc[c] \in Submitting}

\* They are finitely many.
LEMMA InsideFinite == IsFiniteSet(Inside) /\ IsFiniteSet(Inside')
BY Zenon, FS_Subset DEF Inside

\* The nil differs from every request.
LEMMA NilIsNoEntry == Nil \notin Entries
BY Zenon DEF Nil, Entries

\* A sequence is empty when its length is zero.
LEMMA EmptyIff ==
  ASSUME NEW S, NEW s \in Seq(S)
  PROVE  s = <<>> <=> Len(s) = 0
<1>1. s # <<>> => Len(s) \in Nat \ {0}
  OBVIOUS
<1>2. Len(<<>>) = 0
  BY Zenon
<1> QED
  BY Zenon, <1>1, <1>2

\* What a receive leaves of a channel.
LEMMA TailFacts ==
  ASSUME NEW S, NEW s \in Seq(S), s # <<>>
  PROVE  /\ Head(s) \in S /\ Head(s) = s[1]
         /\ Len(s) \in Nat \ {0}
         /\ Tail(s) \in Seq(S) /\ Len(Tail(s)) = Len(s) - 1
         /\ \A i \in 1..(Len(s) - 1) : Tail(s)[i] = s[i + 1] /\ i + 1 \in 1..Len(s)
         /\ Tail(s) = <<>> <=> Len(s) = 1
<1>1. /\ Head(s) \in S /\ Head(s) = s[1] /\ Len(s) \in Nat \ {0}
      /\ Tail(s) \in Seq(S) /\ Len(Tail(s)) = Len(s) - 1
  OBVIOUS
<1>2. \A i \in 1..(Len(s) - 1) : Tail(s)[i] = s[i + 1] /\ i + 1 \in 1..Len(s)
  BY <1>1
<1>3. Tail(s) = <<>> <=> Len(s) = 1
  <2>1. Tail(s) = <<>> <=> Len(Tail(s)) = 0
    BY ZenonT(30), <1>1, EmptyIff
  <2> QED
    BY <1>1, <2>1
<1> QED
  BY Zenon, <1>1, <1>2, <1>3

\* A batch with a request added is a non-empty batch.
LEMMA AppendFacts ==
  ASSUME NEW S, NEW s \in Seq(S), NEW x \in S
  PROVE  /\ Append(s, x) \in Seq(S) /\ Append(s, x) # <<>>
         /\ <<x>> \in Seq(S) /\ <<x>> # <<>>
<1>1. Append(s, x) \in Seq(S) /\ Len(Append(s, x)) = Len(s) + 1 /\ Len(s) \in Nat
  OBVIOUS
<1>2. <<x>> \in Seq(S) /\ Len(<<x>>) = 1
  OBVIOUS
<1>3. Len(<<>>) = 0
  BY Zenon
<1> QED
  BY <1>1, <1>2, <1>3

\* The state after openDB satisfies HandOver.
LEMMA InitHandOver == Init => HandOver
<1> SUFFICES ASSUME Init PROVE HandOver
  BY Zenon
<1> USE DEF Init
<1>1. ControlTypes
  <2>1. closed \in BOOLEAN /\ mutex \in BOOLEAN /\ closing \in BOOLEAN
    BY ZenonT(30)
  <2>2. pc \in [Clients -> Submitting \cup {"idle", "notify", "refuse", "wait"}]
    BY Zenon
  <2>3. writeCh \in Seq(Entries \cup {Nil}) /\ batch \in Seq(Entries)
    OBVIOUS
  <2>4. sent \in [Clients -> BOOLEAN]
    BY Zenon
  <2> QED
    BY Zenon, <2>1, <2>2, <2>3, <2>4 DEF ControlTypes
<1>2. CountsSubmitters
  <2>1. {c \in Clients : pc[c] \in Submitting} = {}
    BY Zenon DEF Submitting
  <2> QED
    BY ZenonT(30), <2>1, FS_EmptySet DEF CountsSubmitters
<1>3. CloserSound /\ ClientsSound /\ NilSound
  BY DEF CloserSound, ClientsSound, NilSound
<1> QED
  BY Zenon, <1>1, <1>2, <1>3 DEF HandOver

\* A step after which the same clients are inside keeps the count.
LEMMA SameCount ==
  ASSUME CountsSubmitters, submitters' = submitters, Inside' = Inside
  PROVE  CountsSubmitters'
BY Zenon DEF CountsSubmitters, Inside

\* acquireWriteRequest and Add(1).
LEMMA CallHandOver ==
  ASSUME HandOver, NEW c \in Clients, Call(c)
  PROVE  HandOver'
<1> USE DEF HandOver, Call, Goto
<1>1. ControlTypes'
  BY DEF ControlTypes, Submitting, writerVars
<1>2. CountsSubmitters'
  <2>1. Inside' = Inside \cup {c} /\ c \notin Inside
    BY DEF Inside, ControlTypes, Submitting
  <2>2. submitters = Cardinality(Inside) /\ submitters' = submitters + 1
    BY Zenon DEF CountsSubmitters, Inside
  <2>3. Cardinality(Inside \cup {c}) = Cardinality(Inside) + 1
    BY Zenon, <2>1, InsideFinite, FS_AddElement
  <2>4. submitters' = Cardinality(Inside')
    BY Zenon, <2>1, <2>2, <2>3
  <2> QED
    BY Zenon, <2>4 DEF CountsSubmitters, Inside
<1>3. CloserSound'
  BY DEF CloserSound, ControlTypes
<1>4. ClientsSound'
  BY Zenon DEF ClientsSound, ControlTypes
<1>5. NilSound'
  BY Zenon DEF NilSound, writerVars
<1> QED
  BY Zenon, <1>1, <1>2, <1>3, <1>4, <1>5

\* The closed check and the flushErr check.
LEMMA CheckHandOver ==
  ASSUME HandOver, NEW c \in Clients, Check(c) \/ CheckErr(c)
  PROVE  HandOver'
<1> USE DEF HandOver, Check, CheckErr, Goto
<1>1. ControlTypes'
  BY DEF ControlTypes, Submitting, reqVars, writerVars
<1>2. CountsSubmitters'
  <2>1. Inside' = Inside
    BY Zenon DEF Inside, ControlTypes, Submitting
  <2> QED
    BY Zenon, <2>1, SameCount
<1>3. CloserSound'
  BY DEF CloserSound, ControlTypes
<1>4. ClientsSound'
  BY Zenon DEF ClientsSound, CloserSound, ControlTypes
<1>5. NilSound'
  BY DEF NilSound, writerVars
<1> QED
  BY Zenon, <1>1, <1>2, <1>3, <1>4, <1>5

\* The send: possible only before stopWrites has seen no submitters, so the nil
\* is not yet queued.
LEMMA SendHandOver ==
  ASSUME HandOver, NEW c \in Clients, Send(c)
  PROVE  HandOver'
<1> USE DEF HandOver, Send, Goto
<1>1. [req |-> req[c], by |-> c] \in Entries
  BY Zenon DEF ControlTypes, Entries
<1>2. ControlTypes'
  BY <1>1 DEF ControlTypes, Submitting, reqVars, writerVars
<1>3. CountsSubmitters'
  <2>1. Inside' = Inside
    BY Zenon DEF Inside, ControlTypes, Submitting
  <2> QED
    BY Zenon, <2>1, SameCount
<1>4. closer \notin {"sentinel", "join", "stopped"}
  BY Zenon DEF ClientsSound
<1>5. CloserSound'
  BY Zenon DEF CloserSound, ControlTypes
<1>6. ClientsSound'
  BY Zenon, <1>4 DEF ClientsSound, ControlTypes
<1>7. NilSound'
  BY SMTT(30), <1>1, <1>4, NilIsNoEntry DEF NilSound, ControlTypes, writerVars
<1> QED
  BY Zenon, <1>2, <1>3, <1>5, <1>6, <1>7

\* Add(-1): the last client out still owes a broadcast.
LEMMA LeaveHandOver ==
  ASSUME HandOver, NEW c \in Clients, Leave(c)
  PROVE  HandOver'
<1> USE DEF HandOver, Leave, Goto
<1>1. Inside' = Inside \ {c} /\ c \in Inside
  BY Zenon DEF Inside, ControlTypes, Submitting, AfterSubmit
<1>2. submitters \in Nat \ {0}
  <2>1. Inside # {}
    BY Zenon, <1>1
  <2> QED
    BY ZenonT(30), <2>1, InsideFinite, FS_EmptySet DEF CountsSubmitters, Inside, ControlTypes
<1>3. ControlTypes'
  BY <1>2 DEF ControlTypes, Submitting, AfterSubmit, reqVars, writerVars
<1>4. CountsSubmitters'
  <2>1. submitters = Cardinality(Inside) /\ submitters' = submitters - 1
    BY Zenon DEF CountsSubmitters, Inside
  <2>2. Cardinality(Inside \ {c}) = Cardinality(Inside) - 1
    <3> HIDE DEF Inside
    <3> QED
      BY Zenon, <1>1, InsideFinite, FS_RemoveElement
  <2>3. submitters' = Cardinality(Inside')
    BY Zenon, <1>1, <2>1, <2>2
  <2> QED
    BY Zenon, <2>3 DEF CountsSubmitters, Inside
<1>5. CloserSound'
  <2>1. submitters' > 0 \/ pc'[c] = "notify"
    BY SMTT(30), <1>2 DEF ControlTypes
  <2> QED
    BY Zenon, <2>1 DEF CloserSound
<1>6. ClientsSound'
  BY Zenon DEF ClientsSound, ControlTypes, AfterSubmit
<1>7. NilSound'
  BY Zenon DEF NilSound, writerVars
<1> QED
  BY Zenon, <1>3, <1>4, <1>5, <1>6, <1>7

\* The broadcast finds Close parked or not yet holding the mutex.
LEMMA NotifyHandOver ==
  ASSUME HandOver, NEW c \in Clients, Notify(c)
  PROVE  HandOver'
<1> USE DEF HandOver, Notify, Goto
<1>1. ControlTypes'
  BY Zenon DEF ControlTypes, Submitting, AfterSubmit, reqVars, writerVars
<1>2. CountsSubmitters'
  <2>1. Inside' = Inside
    BY Zenon DEF Inside, ControlTypes, Submitting, AfterSubmit
  <2> QED
    BY Zenon, <2>1, SameCount
<1>3. CloserSound'
  BY Zenon DEF CloserSound, ControlTypes
<1>4. ClientsSound'
  BY Zenon DEF ClientsSound, ControlTypes, AfterSubmit
<1>5. NilSound'
  BY Zenon DEF NilSound, writerVars
<1> QED
  BY Zenon, <1>1, <1>2, <1>3, <1>4, <1>5

\* A caller finishing its refused request, or returning.
LEMMA ReturnHandOver ==
  ASSUME HandOver, NEW c \in Clients, Refuse(c) \/ Return(c)
  PROVE  HandOver'
<1> USE DEF HandOver
<1>1. /\ pc' = [pc EXCEPT ![c] = "wait"] \/ pc' = [pc EXCEPT ![c] = "idle"]
      /\ pc[c] \in {"refuse", "wait"}
      /\ pool' = pool \/ pool' = pool \cup {req[c]}
      /\ UNCHANGED <<submitters, closed, mutex, writeCh, req, sent, closer, writer,
                     batch, closing>>
  BY ZenonT(30) DEF Refuse, Return, Goto, writerVars
<1>2. ControlTypes'
  BY <1>1 DEF ControlTypes, Submitting
<1>3. CountsSubmitters'
  <2>1. Inside' = Inside
    BY Zenon, <1>1 DEF Inside, ControlTypes, Submitting
  <2> QED
    BY Zenon, <1>1, <2>1, SameCount
<1>4. CloserSound'
  BY Zenon, <1>1 DEF CloserSound, ControlTypes
<1>5. ClientsSound'
  BY Zenon, <1>1 DEF ClientsSound, ControlTypes
<1>6. NilSound'
  BY Zenon, <1>1 DEF NilSound
<1> QED
  BY Zenon, <1>2, <1>3, <1>4, <1>5, <1>6

\* The steps of Close leave the clients alone; stopWrites goes on to the nil
\* only when nobody is inside.
LEMMA StopHandOver ==
  ASSUME HandOver, MarkClosed \/ Stop
  PROVE  HandOver'
<1> USE DEF HandOver
<1>1. /\ UNCHANGED <<submitters, pool, pc, req, sent, writer, batch, closing>>
      /\ UNCHANGED writeCh \/ SendNil
  BY Zenon DEF MarkClosed, Stop, WaitLock, WaitTest, WaitPark, SendNil, Join, reqVars,
         clientVars, writerVars
<1>2. closer' \in {"lock", "test", "park", "parked", "sentinel", "join", "stopped"}
  BY Zenon DEF MarkClosed, Stop, WaitLock, WaitTest, WaitPark, SendNil, Join
<1>3. closed' \in BOOLEAN
  BY ZenonT(30) DEF MarkClosed, Stop, WaitLock, WaitTest, WaitPark, SendNil, Join, ControlTypes
<1>4. mutex' \in BOOLEAN
  <2>1. mutex' = TRUE \/ mutex' = FALSE \/ mutex' = mutex
    BY Zenon DEF MarkClosed, Stop, WaitLock, WaitTest, WaitPark, SendNil, Join
  <2> QED
    BY <2>1, Zenon DEF ControlTypes
<1>5. writeCh' \in Seq(Entries \cup {Nil})
  <2>1. writeCh' = writeCh \/ writeCh' = Append(writeCh, Nil)
    BY Zenon, <1>1 DEF SendNil
  <2>2. writeCh \in Seq(Entries \cup {Nil})
    BY Zenon DEF ControlTypes
  <2> QED
    BY <2>1, <2>2
<1>6. ControlTypes'
  BY Zenon, <1>1, <1>2, <1>3, <1>4, <1>5 DEF ControlTypes
<1>7. CountsSubmitters'
  BY Zenon, <1>1, SameCount DEF Inside
<1>8. CloserSound'
  <2>1. CASE MarkClosed
    BY Zenon, <2>1 DEF MarkClosed, CloserSound, ControlTypes
  <2>2. CASE WaitLock \/ WaitPark
    BY Zenon, <1>1, <2>2 DEF WaitLock, WaitPark, CloserSound, ControlTypes
  <2>3. CASE WaitTest
    <3>1. mutex /\ closed
      BY Zenon, <2>3 DEF WaitTest, CloserSound
    <3>2. CASE submitters = 0
      BY Zenon, <2>3, <3>1, <3>2 DEF WaitTest, CloserSound
    <3>3. CASE submitters # 0
      <4>1. submitters' > 0
        BY SMTT(30), <1>1, <3>3 DEF ControlTypes
      <4>2. closer' = "park" /\ mutex' /\ closed'
        BY Zenon, <2>3, <3>1, <3>3 DEF WaitTest
      <4> QED
        BY Zenon, <4>1, <4>2 DEF CloserSound
    <3> QED
      BY Zenon, <3>2, <3>3
  <2>4. CASE SendNil \/ Join
    BY SMTT(30), <1>1, <2>4 DEF SendNil, Join, CloserSound, ControlTypes
  <2> QED
    BY Zenon, <2>1, <2>2, <2>3, <2>4 DEF Stop
<1>9. ClientsSound'
  <2>1. CASE WaitTest /\ submitters = 0
    <3>1. Inside = {}
      BY ZenonT(30), <2>1, InsideFinite, FS_EmptySet DEF CountsSubmitters, Inside
    <3>2. \A c \in Clients : pc[c] \notin Submitting
      BY Zenon, <3>1 DEF Inside
    <3> QED
      BY Zenon, <1>1, <3>2 DEF ClientsSound, Submitting
  <2>2. CASE ~(WaitTest /\ submitters = 0)
    <3>1. closer' \in {"sentinel", "join", "stopped"}
            => closer \in {"sentinel", "join", "stopped"}
      BY Zenon, <2>2 DEF MarkClosed, Stop, WaitLock, WaitTest, WaitPark, SendNil, Join
    <3> QED
      BY Zenon, <1>1, <3>1 DEF ClientsSound
  <2> QED
    BY Zenon, <2>1, <2>2
<1>10. NilSound'
  <2>1. CASE SendNil
    <3>1. ~closing /\ writer # "exited"
      BY Zenon, <2>1 DEF SendNil, NilSound
    <3>2. \A i \in 1..Len(writeCh) : writeCh[i] # Nil
      BY Zenon, <2>1 DEF SendNil, NilSound
    <3> QED
      BY SMTT(30), <1>1, <2>1, <3>1, <3>2 DEF SendNil, NilSound, ControlTypes
  <2>2. CASE ~SendNil
    <3>1. closer \in {"join", "stopped"} => closer' \in {"join", "stopped"}
      BY Zenon, <2>2 DEF MarkClosed, Stop, WaitLock, WaitTest, WaitPark, Join
    <3>2. closer' = "stopped" => writer = "exited"
      BY Zenon, <2>2 DEF MarkClosed, Stop, WaitLock, WaitTest, WaitPark, Join, NilSound
    <3> QED
      BY Zenon, <1>1, <2>2, <3>1, <3>2 DEF NilSound
  <2> QED
    BY Zenon, <2>1, <2>2
<1> QED
  BY Zenon, <1>6, <1>7, <1>8, <1>9, <1>10

\* A receive: the nil is the last element, so the channel is empty behind it.
LEMMA RecvHandOver ==
  ASSUME HandOver, Recv \/ Drain
  PROVE  HandOver'
<1>0. ControlTypes /\ CountsSubmitters /\ CloserSound /\ ClientsSound /\ NilSound
  BY Zenon DEF HandOver
<1>1. /\ UNCHANGED <<submitters, closed, mutex, pool, pc, req, sent, closer>>
      /\ writeCh # <<>> /\ writeCh' = Tail(writeCh)
      /\ writer \in {"recv", "drain", "drainAgain"}
  BY Zenon DEF Recv, Drain, reqVars, clientVars
<1>2. /\ writeCh \in Seq(Entries \cup {Nil}) /\ batch \in Seq(Entries)
      /\ Head(writeCh) \in Entries \cup {Nil} /\ Tail(writeCh) \in Seq(Entries \cup {Nil})
      /\ Head(writeCh) = writeCh[1] /\ Len(Tail(writeCh)) = Len(writeCh) - 1
      /\ Len(writeCh) \in Nat \ {0}
      /\ \A i \in 1..(Len(writeCh) - 1) : /\ Tail(writeCh)[i] = writeCh[i + 1]
                                          /\ i + 1 \in 1..Len(writeCh)
      /\ Tail(writeCh) = <<>> <=> Len(writeCh) = 1
  BY Zenon, <1>0, <1>1, TailFacts DEF ControlTypes
<1>3. CountsSubmitters' /\ CloserSound' /\ ClientsSound'
  BY Zenon, <1>0, <1>1, SameCount DEF Inside, CloserSound, ClientsSound
<1>4. CASE Head(writeCh) = Nil
  <2>1. Len(writeCh) = 1 /\ closer \in {"join", "stopped"}
    <3>1. writeCh[1] = Nil /\ 1 \in 1..Len(writeCh)
      BY SMTT(30), <1>2, <1>4
    <3>2. \A i \in 1..Len(writeCh) :
            writeCh[i] = Nil => i = Len(writeCh) /\ closer \in {"join", "stopped"}
      BY Zenon, <1>0 DEF NilSound
    <3> QED
      BY Zenon, <3>1, <3>2
  <2>2. writeCh' = <<>>
    BY Zenon, <1>1, <1>2, <2>1
  <2>3. /\ batch' = batch
        /\ \/ writer = "recv" /\ writer' = "exited" /\ closing' = closing
           \/ writer # "recv" /\ writer' = "pass" /\ closing' = TRUE
    BY Zenon, <1>4 DEF Recv, Drain
  <2>4. closing' \in BOOLEAN
    BY <1>0, <2>3, Zenon DEF ControlTypes
  <2>5. ControlTypes'
    BY Zenon, <1>0, <1>1, <1>2, <2>3, <2>4 DEF ControlTypes
  <2>6. NilSound'
    <3>1. /\ batch = <<>> <=> writer \in {"recv", "exited"}
          /\ closer = "stopped" => writer = "exited"
      BY Zenon, <1>0 DEF NilSound
    <3>2. Len(writeCh') = 0
      BY Zenon, <2>2
    <3>3. \A i \in 1..Len(writeCh') : FALSE
      BY <3>2
    <3>4. closer' \in {"join", "stopped"} /\ closer' # "stopped"
      BY Zenon, <1>1, <2>1, <3>1
    <3>5. batch' = <<>> <=> writer' \in {"recv", "exited"}
      BY Zenon, <1>1, <2>3, <3>1
    <3> QED
      BY Zenon, <2>2, <3>3, <3>4, <3>5 DEF NilSound
  <2> QED
    BY Zenon, <1>3, <2>5, <2>6 DEF HandOver
<1>5. CASE Head(writeCh) # Nil
  <2>1. Head(writeCh) \in Entries
    BY Zenon, <1>2, <1>5
  <2>2. /\ closing' = closing
        /\ batch' = <<Head(writeCh)>> \/ batch' = Append(batch, Head(writeCh))
        /\ writer' \in {"drain", "drainAgain"}
    BY Zenon, <1>1, <1>5 DEF Recv, Drain
  <2>3. batch' \in Seq(Entries) /\ batch' # <<>>
    BY ZenonT(30), <1>2, <2>1, <2>2, AppendFacts
  <2>4. ControlTypes'
    BY Zenon, <1>0, <1>1, <1>2, <2>2, <2>3 DEF ControlTypes
  <2>5. \A i \in 1..Len(writeCh') :
          writeCh'[i] = Nil => i = Len(writeCh') /\ closer \in {"join", "stopped"}
    <3>1. \A i \in 1..Len(writeCh) :
            writeCh[i] = Nil => i = Len(writeCh) /\ closer \in {"join", "stopped"}
      BY Zenon, <1>0 DEF NilSound
    <3>2. ASSUME NEW i \in 1..(Len(writeCh) - 1), Tail(writeCh)[i] = Nil
          PROVE  i = Len(writeCh) - 1 /\ closer \in {"join", "stopped"}
      <4>1. i + 1 \in 1..Len(writeCh) /\ writeCh[i + 1] = Nil
        BY Zenon, <1>2, <3>2
      <4>2. i + 1 = Len(writeCh) /\ closer \in {"join", "stopped"}
        BY Zenon, <3>1, <4>1
      <4>3. i \in Int /\ Len(writeCh) \in Int
        BY <1>2
      <4> QED
        BY SMTT(30), <4>2, <4>3
    <3> QED
      BY Zenon, <1>1, <1>2, <3>2
  <2>6. ~closing /\ writer # "exited" /\ closer # "stopped"
    BY Zenon, <1>0, <1>1 DEF NilSound
  <2> QED
    BY Zenon, <1>1, <1>3, <2>2, <2>3, <2>4, <2>5, <2>6 DEF NilSound, HandOver
<1> QED
  BY Zenon, <1>4, <1>5

\* The other steps of the writer, and of the flusher, receive nothing.
LEMMA WriterHandOver ==
  ASSUME HandOver,
         DrainEnd \/ Decide \/ Sleep \/ Pass \/ RotateFails \/ Answer \/ FlushFails
  PROVE  HandOver'
<1> USE DEF HandOver
<1>1. UNCHANGED <<submitters, closed, mutex, writeCh, pool, pc, req, sent, closer, closing>>
  BY Zenon DEF DrainEnd, Decide, Sleep, Pass, RotateFails, Answer, FlushFails, reqVars,
         clientVars, writerVars
<1>2. CountsSubmitters' /\ CloserSound' /\ ClientsSound'
  BY Zenon, <1>1, SameCount DEF Inside, CloserSound, ClientsSound
<1>3. CASE Answer
  <2>1. batch \in Seq(Entries) /\ batch # <<>> /\ writer = "answer"
    BY Zenon, <1>3 DEF Answer, NilSound, ControlTypes
  <2>2. /\ batch' = Tail(batch) /\ batch' \in Seq(Entries)
        /\ batch' = <<>> <=> Len(batch) = 1
    BY Zenon, <1>3, <2>1, TailFacts DEF Answer
  <2>3. writer' = IF Len(batch) = 1 THEN (IF closing THEN "exited" ELSE "recv")
                  ELSE IF good' = 0 /\ ~failing THEN "pass" ELSE "answer"
    BY Zenon, <1>3 DEF Answer
  <2>4. /\ writer' \in {"recv", "pass", "answer", "exited"}
        /\ writer' \in {"recv", "exited"} <=> Len(batch) = 1
        /\ writer' = "exited" => closing
    BY Zenon, <2>3
  <2>5. ControlTypes'
    BY Zenon, <1>1, <2>2, <2>4 DEF ControlTypes
  <2>6. NilSound'
    BY Zenon, <1>1, <2>1, <2>2, <2>4 DEF NilSound
  <2> QED
    BY Zenon, <1>2, <2>5, <2>6
<1>4. CASE ~Answer
  <2>1. /\ batch' = batch
        /\ \/ writer' = writer
           \/ /\ writer \notin {"recv", "exited"}
              /\ writer' \in {"decide", "sleep", "drainAgain", "pass", "answer"}
    BY Zenon, <1>4 DEF DrainEnd, Decide, Sleep, Pass, RotateFails, FlushFails, writerVars
  <2>2. ControlTypes'
    BY Zenon, <1>1, <2>1 DEF ControlTypes
  <2>3. NilSound'
    BY Zenon, <1>1, <2>1 DEF NilSound
  <2> QED
    BY Zenon, <1>2, <2>2, <2>3
<1> QED
  BY Zenon, <1>3, <1>4

\* Every step preserves HandOver.
LEMMA NextHandOver == HandOver /\ [Next]_vars => HandOver'
<1> SUFFICES ASSUME HandOver, [Next]_vars PROVE HandOver'
  BY Zenon
<1>1. CASE \E c \in Clients : Call(c) \/ Submit(c)
  BY Zenon, <1>1, CallHandOver, CheckHandOver, SendHandOver, LeaveHandOver, NotifyHandOver,
     ReturnHandOver DEF Submit
<1>2. CASE MarkClosed \/ Stop
  BY Zenon, <1>2, StopHandOver
<1>3. CASE WriteLoop \/ FlushFails
  BY Zenon, <1>3, RecvHandOver, WriterHandOver DEF WriteLoop
<1>4. CASE UNCHANGED vars
  <2>1. CountsSubmitters'
    BY Zenon, <1>4, SameCount DEF vars, clientVars, Inside, HandOver
  <2> QED
    BY Zenon, <1>4, <2>1 DEF vars, clientVars, writerVars, reqVars, HandOver, ControlTypes,
                      CloserSound, ClientsSound, NilSound
<1> QED
  BY Zenon, <1>1, <1>2, <1>3, <1>4 DEF Next

\* HandOver holds in every reachable state (db.go:343-360, 405-455, 520-578,
\* 824-848).
THEOREM HandOverInvariant == Spec => []HandOver
BY InitHandOver, NextHandOver, PTL DEF Spec

\* However many callers race with Close, no request is ever queued behind the nil
\* that stops the writer (db.go:451-455, 824-848).
THEOREM NothingQueuedBehindNil == Spec => []NothingBehindNil
<1>1. HandOver => NothingBehindNil
  BY Zenon DEF HandOver, ClientsSound, NilSound, NothingBehindNil
<1> QED
  BY <1>1, HandOverInvariant, PTL

\* When stopWrites returns the writer has exited with nothing left in the channel
\* or in its batch (db.go:451-455, 520-539).
THEOREM StopLeavesNothing == Spec => []StoppedIsQuiet
<1>1. HandOver => StoppedIsQuiet
  BY Zenon DEF HandOver, NilSound, StoppedIsQuiet
<1> QED
  BY <1>1, HandOverInvariant, PTL

\* The wake-up of waitForSubmitters is never lost (db.go:833-848).
THEOREM CloserAlwaysHasWaker == Spec => []CloserHasWaker
<1>1. HandOver => CloserHasWaker
  BY Zenon DEF HandOver, CloserSound, CloserHasWaker
<1> QED
  BY <1>1, HandOverInvariant, PTL

-----------------------------------------------------------------------------
(* The recycled requests: every caller gets the answer to its own write *)

\* What the writer owes, and what it said.
Owed == RequestsTracked /\ OwnAnswer

\* The state after openDB: nothing is queued and nobody holds a request.
LEMMA InitOwed == Init => Owed
<1> SUFFICES ASSUME Init PROVE Owed
  BY Zenon
<1>1. Queue = <<>> /\ Len(Queue) = 0
  BY DEF Init, Queue
<1>2. RequestTypes
  BY Zenon DEF Init, RequestTypes
<1>3. HeldOnce /\ QueuedOnce /\ UnfinishedIsOwed /\ OwnAnswer
  BY <1>1 DEF Init, HeldOnce, QueuedOnce, UnfinishedIsOwed, OwnAnswer, InCall
<1> QED
  BY Zenon, <1>2, <1>3 DEF Owed, RequestsTracked

\* The queue holds requests and the nil.
LEMMA QueueType == ControlTypes => Queue \in Seq(Entries \cup {Nil})
BY DEF ControlTypes, Queue

\* What a step changes of the control state of a client inside a call.
Onward(c) ==
  /\ pc'[c] = "idle" <=> pc[c] = "idle"
  /\ (pc[c] \in {"leave", "notify", "wait"} /\ sent[c]) => pc'[c] \in {"leave", "notify", "wait"}
  /\ pc'[c] = "refuse" => ~sent[c]
  /\ (InCall(c) /\ pc'[c] # "wait") => pc[c] # "wait"

\* A step that leaves the requests, the queue and the answers alone keeps what is
\* owed.
LEMMA QuietStep ==
  ASSUME Owed, ControlTypes,
         UNCHANGED <<pool, wg, err, req, sent, answer, Queue>>,
         \A c \in Clients : Onward(c)
  PROVE  Owed'
<1> USE DEF Owed, RequestsTracked
<1>1. RequestTypes'
  BY Zenon DEF RequestTypes
<1>2. HeldOnce'
  BY Zenon DEF HeldOnce, InCall, Onward
<1>3. QueuedOnce'
  <2>1. \A i \in 1..Len(Queue) : Queue[i] # Nil => Queue[i].by \in Clients
    BY QueueType DEF Entries
  <2> QED
    BY Zenon, <2>1 DEF QueuedOnce, Onward
<1>4. UnfinishedIsOwed'
  BY Zenon DEF UnfinishedIsOwed, InCall, Onward
<1>5. OwnAnswer'
  BY Zenon DEF OwnAnswer, InCall, Onward
<1> QED
  BY Zenon, <1>1, <1>2, <1>3, <1>4, <1>5

\* The clients' steps between their call and the answer, but for the send.
LEMMA PassageOwed ==
  ASSUME Owed, ControlTypes, ClientsSound, NEW c \in Clients,
         Check(c) \/ CheckErr(c) \/ Leave(c) \/ Notify(c)
  PROVE  Owed'
<1>1. UNCHANGED <<pool, wg, err, req, sent, answer, batch, writeCh>>
  BY Zenon DEF Check, CheckErr, Leave, Notify, reqVars, writerVars
<1>2. /\ pc' = [pc EXCEPT ![c] = pc'[c]] /\ pc[c] \in {"check", "checkErr", "leave", "notify"}
      /\ pc'[c] \in {"checkErr", "send", "leave", "notify", "wait", "refuse"}
      /\ pc[c] \in {"leave", "notify"} => pc'[c] \in {"notify", AfterSubmit(c)}
      /\ pc[c] \in {"check", "checkErr"} => pc'[c] \in {"checkErr", "send", "leave"}
  BY Zenon DEF Check, CheckErr, Leave, Notify, Goto, AfterSubmit, ControlTypes
<1>3. ASSUME NEW d \in Clients PROVE Onward(d)
  <2>1. CASE d = c
    BY Zenon, <1>2, <2>1 DEF Onward, AfterSubmit, InCall
  <2>2. CASE d # c
    <3>1. pc'[d] = pc[d]
      BY Zenon, <1>2, <2>2 DEF ControlTypes
    <3> QED
      BY Zenon, <3>1 DEF Onward, Owed, RequestsTracked, UnfinishedIsOwed
  <2> QED
    BY Zenon, <2>1, <2>2
<1>4. UNCHANGED Queue
  BY Zenon, <1>1 DEF Queue
<1> QED
  BY Zenon, <1>1, <1>3, <1>4, QuietStep

\* acquireWriteRequest takes a finished request that nobody holds.
LEMMA CallOwed ==
  ASSUME Owed, ControlTypes, NEW c \in Clients, Call(c)
  PROVE  Owed'
<1> USE DEF Owed, RequestsTracked
<1>1. PICK r \in pool : /\ pool' = pool \ {r}
                        /\ wg' = [wg EXCEPT ![r] = @ + 1]
                        /\ err' = [err EXCEPT ![r] = FALSE]
                        /\ req' = [req EXCEPT ![c] = r]
  BY Zenon DEF Call
<1>2. /\ pc[c] = "idle" /\ pc' = [pc EXCEPT ![c] = "check"]
      /\ sent' = [sent EXCEPT ![c] = FALSE]
      /\ answer' = [answer EXCEPT ![c] = "none"]
      /\ batch' = batch /\ writeCh' = writeCh
  BY Zenon DEF Call, Goto, writerVars
<1>3. r \in Reqs /\ wg[r] = 0 /\ wg'[r] = 1 /\ \A q \in Reqs \ {r} : wg'[q] = wg[q]
  BY <1>1 DEF HeldOnce, ControlTypes, RequestTypes
<1>4. \A d \in Clients \ {c} : /\ pc'[d] = pc[d] /\ sent'[d] = sent[d] /\ req'[d] = req[d]
                               /\ answer'[d] = answer[d] /\ (InCall(d) => req[d] # r)
  BY Zenon, <1>1, <1>2 DEF ControlTypes, RequestTypes, HeldOnce
<1>5. pc'[c] = "check" /\ ~sent'[c] /\ req'[c] = r
  BY Zenon, <1>1, <1>2 DEF ControlTypes
<1>6. RequestTypes'
  BY Zenon, <1>1, <1>2, <1>3 DEF RequestTypes
<1>7. HeldOnce'
  BY SMTT(30), <1>1, <1>3, <1>4, <1>5 DEF HeldOnce, InCall, ControlTypes
<1>8. \A i \in 1..Len(Queue) : Queue[i] # Nil =>
        Queue[i].by \in Clients \ {c} /\ Queue[i].req # r /\ Queue[i].req \in Reqs
  <2>1. \A i \in 1..Len(Queue) : Queue[i] # Nil => Queue[i].by \in Clients /\ Queue[i].req \in Reqs
    BY QueueType DEF Entries
  <2> QED
    BY <1>2, <1>3, <2>1 DEF QueuedOnce
<1>9. Queue' = Queue
  BY Zenon, <1>2 DEF Queue
<1>10. QueuedOnce'
  BY SMTT(30), <1>3, <1>4, <1>8, <1>9 DEF QueuedOnce
<1>11. UnfinishedIsOwed'
  <2> SUFFICES ASSUME NEW d \in Clients
               PROVE  /\ (InCall(d)' /\ sent'[d] /\ wg'[req'[d]] = 1) =>
                           \E i \in 1..Len(Queue') : Queue'[i] = [req |-> req'[d], by |-> d]
                      /\ pc'[d] = "refuse" => ~sent'[d]
                      /\ (InCall(d)' /\ pc'[d] # "wait" /\ ~sent'[d]) => wg'[req'[d]] = 1
    BY Zenon DEF UnfinishedIsOwed
  <2>1. CASE d = c
    BY Zenon, <1>3, <1>5, <2>1
  <2>2. CASE d # c
    <3>1. req[d] \in Reqs
      BY Zenon DEF ControlTypes
    <3>2. InCall(d) => wg'[req[d]] = wg[req[d]]
      BY Zenon, <1>3, <1>4, <2>2, <3>1
    <3> QED
      BY SMTT(30), <1>4, <1>9, <2>2, <3>1, <3>2 DEF UnfinishedIsOwed, InCall
  <2> QED
    BY Zenon, <2>1, <2>2
<1>12. OwnAnswer'
  <2> SUFFICES ASSUME NEW d \in Clients, InCall(d)', wg'[req'[d]] = 0
               PROVE  answer'[d] = IF err'[req'[d]] THEN "error" ELSE "nil"
    BY Zenon DEF OwnAnswer
  <2>1. d # c
    BY <1>3, <1>5
  <2>2. InCall(d) /\ req'[d] = req[d] /\ req[d] \in Reqs \ {r}
    BY Zenon, <1>4, <2>1 DEF InCall, ControlTypes
  <2>3. wg[req[d]] = 0 /\ err'[req[d]] = err[req[d]]
    BY Zenon, <1>1, <1>3, <2>2 DEF RequestTypes
  <2> QED
    BY Zenon, <1>4, <2>1, <2>2, <2>3 DEF OwnAnswer
<1> QED
  BY Zenon, <1>6, <1>7, <1>10, <1>11, <1>12

\* The send puts an unfinished request at the end of the queue, where its caller
\* has no other.
LEMMA SendOwed ==
  ASSUME Owed, ControlTypes, ClientsSound, NEW c \in Clients, Send(c)
  PROVE  Owed'
<1> USE DEF Owed, RequestsTracked
<1> DEFINE e == [req |-> req[c], by |-> c]
<1>1. /\ pc[c] = "send" /\ pc' = [pc EXCEPT ![c] = "leave"]
      /\ sent' = [sent EXCEPT ![c] = TRUE]
      /\ UNCHANGED <<pool, wg, err, req, answer>>
      /\ writeCh' = Append(writeCh, e) /\ batch' = batch
  BY Zenon DEF Send, Goto, reqVars, writerVars
<1>2. ~sent[c] /\ wg[req[c]] = 1
  BY Zenon, <1>1 DEF ClientsSound, UnfinishedIsOwed, InCall
<1>3. /\ pc'[c] = "leave" /\ sent'[c]
      /\ \A d \in Clients \ {c} : pc'[d] = pc[d] /\ sent'[d] = sent[d]
  BY Zenon, <1>1 DEF ControlTypes
<1>4. e \in Entries /\ e # Nil
  BY NilIsNoEntry DEF ControlTypes, Entries
<1>5. /\ Len(Queue) \in Nat /\ Len(Queue') = Len(Queue) + 1
      /\ Queue'[Len(Queue) + 1] = e
      /\ \A i \in 1..Len(Queue) : Queue'[i] = Queue[i]
  <2>1. batch \in Seq(Entries) /\ writeCh \in Seq(Entries \cup {Nil})
    BY Zenon DEF ControlTypes
  <2> HIDE DEF e
  <2> QED
    BY SMTT(30), <1>1, <1>4, <2>1 DEF Queue
<1>6. \A i \in 1..Len(Queue) : Queue[i].by # c
  <2>1. ASSUME NEW i \in 1..Len(Queue), Queue[i].by = c PROVE FALSE
    <3>1. CASE Queue[i] = Nil
      BY <2>1, <3>1, QueueAssumption DEF Nil
    <3>2. CASE Queue[i] # Nil
      BY Zenon, <1>2, <2>1, <3>2 DEF QueuedOnce
    <3> QED
      BY Zenon, <3>1, <3>2
  <2> QED
    BY Zenon, <2>1
<1>7. RequestTypes'
  BY Zenon, <1>1 DEF RequestTypes
<1>8. HeldOnce'
  BY <1>1, <1>3 DEF HeldOnce, InCall
<1>9. QueuedOnce'
  <2>1. ASSUME NEW i \in 1..Len(Queue'), Queue'[i] # Nil
        PROVE  /\ pc'[Queue'[i].by] \in {"leave", "notify", "wait"} /\ sent'[Queue'[i].by]
               /\ Queue'[i].req = req'[Queue'[i].by] /\ wg'[Queue'[i].req] = 1
    <3>1. CASE i = Len(Queue) + 1
      BY <1>1, <1>2, <1>3, <1>5, <3>1
    <3>2. CASE i # Len(Queue) + 1
      <4>1. i \in 1..Len(Queue) /\ Queue'[i] = Queue[i]
        BY <1>5, <3>2
      <4>2. Queue[i].by \in Clients \ {c}
        BY <1>6, <2>1, <4>1, QueueType DEF Entries
      <4> QED
        BY <1>1, <1>3, <2>1, <4>1, <4>2 DEF QueuedOnce
    <3> QED
      BY Zenon, <3>1, <3>2
  <2>2. ASSUME NEW i \in 1..Len(Queue'), NEW j \in 1..Len(Queue'), Queue'[i].by = Queue'[j].by
        PROVE  i = j
    <3>1. e.by = c
      BY Zenon
    <3> HIDE DEF e
    <3> QED
      BY SMTT(30), <1>5, <1>6, <2>2, <3>1 DEF QueuedOnce
  <2> QED
    BY Zenon, <2>1, <2>2 DEF QueuedOnce
<1>10. UnfinishedIsOwed'
  <2> SUFFICES ASSUME NEW d \in Clients
               PROVE  /\ (InCall(d)' /\ sent'[d] /\ wg'[req'[d]] = 1) =>
                           \E i \in 1..Len(Queue') : Queue'[i] = [req |-> req'[d], by |-> d]
                      /\ pc'[d] = "refuse" => ~sent'[d]
                      /\ (InCall(d)' /\ pc'[d] # "wait" /\ ~sent'[d]) => wg'[req'[d]] = 1
    BY Zenon DEF UnfinishedIsOwed
  <2>1. CASE d = c
    <3>1. Len(Queue) + 1 \in 1..Len(Queue') /\ Queue'[Len(Queue) + 1] = [req |-> req'[c], by |-> c]
      BY <1>1, <1>5
    <3> QED
      BY Zenon, <1>3, <2>1, <3>1
  <2>2. CASE d # c
    <3>1. \A i \in 1..Len(Queue) : i \in 1..Len(Queue') /\ Queue'[i] = Queue[i]
      BY <1>5
    <3> QED
      BY <1>1, <1>3, <2>2, <3>1 DEF UnfinishedIsOwed, InCall
  <2> QED
    BY Zenon, <2>1, <2>2
<1>11. OwnAnswer'
  BY Zenon, <1>1, <1>3 DEF OwnAnswer, InCall
<1> QED
  BY Zenon, <1>7, <1>8, <1>9, <1>10, <1>11

\* No queued request is the one a client holds that has not sent it.
LEMMA UnsentNotQueued ==
  ASSUME Owed, ControlTypes, NEW c \in Clients, InCall(c), ~sent[c]
  PROVE  \A i \in 1..Len(Queue) : Queue[i] # Nil => Queue[i].req # req[c]
<1> SUFFICES ASSUME NEW i \in 1..Len(Queue), Queue[i] # Nil, Queue[i].req = req[c]
             PROVE  FALSE
  BY Zenon
<1>1. Queue[i].by \in Clients
  BY QueueType DEF Entries
<1>2. InCall(Queue[i].by) /\ sent[Queue[i].by] /\ req[Queue[i].by] = req[c]
  BY Zenon DEF Owed, RequestsTracked, QueuedOnce, InCall
<1>3. Queue[i].by = c
  BY Zenon, <1>1, <1>2 DEF Owed, RequestsTracked, HeldOnce
<1> QED
  BY Zenon, <1>2, <1>3

\* A refused request was never sent; its caller finishes it alone.
LEMMA RefuseOwed ==
  ASSUME Owed, ControlTypes, NEW c \in Clients, Refuse(c)
  PROVE  Owed'
<1> USE DEF Owed, RequestsTracked
<1> DEFINE r == req[c]
<1>1. /\ pc[c] = "refuse" /\ pc' = [pc EXCEPT ![c] = "wait"]
      /\ wg' = [wg EXCEPT ![r] = @ - 1] /\ err' = [err EXCEPT ![r] = TRUE]
      /\ answer' = [answer EXCEPT ![c] = "error"]
      /\ UNCHANGED <<pool, req, sent, batch, writeCh>>
  BY Zenon DEF Refuse, Finish, Goto, writerVars
<1>2. InCall(c) /\ ~sent[c] /\ wg[r] = 1
  BY Zenon, <1>1 DEF UnfinishedIsOwed, InCall
<1>3. /\ r \in Reqs /\ wg'[r] = 0 /\ err'[r] = TRUE
      /\ \A q \in Reqs \ {r} : wg'[q] = wg[q] /\ err'[q] = err[q]
  BY <1>1, <1>2 DEF ControlTypes, RequestTypes
<1>4. /\ pc'[c] = "wait" /\ answer'[c] = "error"
      /\ \A d \in Clients \ {c} : pc'[d] = pc[d] /\ answer'[d] = answer[d]
  BY Zenon, <1>1 DEF ControlTypes, RequestTypes
<1>5. Queue' = Queue
  BY Zenon, <1>1 DEF Queue
<1>6. \A d \in Clients \ {c} : req[d] \in Reqs /\ (InCall(d) => req[d] # r)
  BY Zenon, <1>2 DEF HeldOnce, ControlTypes
<1>7. RequestTypes'
  BY Zenon, <1>1, <1>2, <1>3 DEF RequestTypes
<1>8. HeldOnce'
  <2>1. r \notin pool
    BY Zenon, <1>2 DEF HeldOnce
  <2> QED
    BY SMTT(30), <1>1, <1>2, <1>3, <1>4, <2>1 DEF HeldOnce, InCall, ControlTypes
<1>9. QueuedOnce'
  <2>1. \A i \in 1..Len(Queue) : Queue[i] # Nil =>
          /\ Queue[i].by \in Clients \ {c} /\ Queue[i].req \in Reqs \ {r}
    BY <1>2, UnsentNotQueued, QueueType DEF Entries, QueuedOnce
  <2> QED
    BY SMTT(30), <1>1, <1>3, <1>4, <1>5, <2>1 DEF QueuedOnce
<1>10. UnfinishedIsOwed'
  <2> SUFFICES ASSUME NEW d \in Clients
               PROVE  /\ (InCall(d)' /\ sent'[d] /\ wg'[req'[d]] = 1) =>
                           \E i \in 1..Len(Queue') : Queue'[i] = [req |-> req'[d], by |-> d]
                      /\ pc'[d] = "refuse" => ~sent'[d]
                      /\ (InCall(d)' /\ pc'[d] # "wait" /\ ~sent'[d]) => wg'[req'[d]] = 1
    BY Zenon DEF UnfinishedIsOwed
  <2>1. CASE d = c
    BY Zenon, <1>1, <1>2, <1>4, <2>1
  <2>2. CASE d # c
    <3>1. pc'[d] = pc[d] /\ sent'[d] = sent[d] /\ req'[d] = req[d]
      BY Zenon, <1>1, <1>4, <2>2
    <3>2. InCall(d) => wg'[req[d]] = wg[req[d]]
      BY Zenon, <1>3, <1>6, <2>2
    <3> QED
      BY <1>5, <3>1, <3>2 DEF UnfinishedIsOwed, InCall
  <2> QED
    BY Zenon, <2>1, <2>2
<1>11. OwnAnswer'
  <2> SUFFICES ASSUME NEW d \in Clients, InCall(d)', wg'[req'[d]] = 0
               PROVE  answer'[d] = IF err'[req'[d]] THEN "error" ELSE "nil"
    BY Zenon DEF OwnAnswer
  <2>1. CASE d = c
    BY Zenon, <1>1, <1>3, <1>4, <2>1
  <2>2. CASE d # c
    <3>1. InCall(d) /\ req'[d] = req[d] /\ answer'[d] = answer[d]
      BY Zenon, <1>1, <1>4, <2>2 DEF InCall
    <3>2. wg'[req[d]] = wg[req[d]] /\ err'[req[d]] = err[req[d]]
      BY Zenon, <1>3, <1>6, <2>2, <3>1
    <3> QED
      BY Zenon, <3>1, <3>2 DEF OwnAnswer
  <2> QED
    BY Zenon, <2>1, <2>2
<1> QED
  BY Zenon, <1>7, <1>8, <1>9, <1>10, <1>11

\* A request goes back to the pool finished, and the queue no longer has it.
LEMMA ReturnOwed ==
  ASSUME Owed, ControlTypes, NEW c \in Clients, Return(c)
  PROVE  Owed'
<1> USE DEF Owed, RequestsTracked
<1> DEFINE r == req[c]
<1>1. /\ pc[c] = "wait" /\ wg[r] = 0 /\ pc' = [pc EXCEPT ![c] = "idle"]
      /\ pool' = pool \cup {r} /\ err' = [err EXCEPT ![r] = FALSE]
      /\ UNCHANGED <<wg, req, sent, answer, batch, writeCh>>
  BY Zenon DEF Return, Goto, writerVars
<1>2. r \in Reqs /\ \A q \in Reqs \ {r} : err'[q] = err[q]
  BY Zenon, <1>1 DEF ControlTypes, RequestTypes
<1>3. pc'[c] = "idle" /\ \A d \in Clients \ {c} : pc'[d] = pc[d]
  BY Zenon, <1>1 DEF ControlTypes
<1>4. Queue' = Queue
  BY Zenon, <1>1 DEF Queue
<1>5. \A d \in Clients \ {c} : req[d] \in Reqs /\ (InCall(d) => req[d] # r)
  BY Zenon, <1>1 DEF HeldOnce, ControlTypes, InCall
<1>6. RequestTypes'
  BY Zenon, <1>1 DEF RequestTypes
<1>7. HeldOnce'
  BY Zenon, <1>1, <1>3, <1>5 DEF HeldOnce, InCall
<1>8. QueuedOnce'
  <2>1. \A i \in 1..Len(Queue) : Queue[i] # Nil => Queue[i].by \in Clients \ {c}
    BY <1>1, QueueType DEF Entries, QueuedOnce
  <2> QED
    BY <1>1, <1>3, <1>4, <2>1 DEF QueuedOnce
<1>9. UnfinishedIsOwed'
  BY <1>1, <1>3, <1>4 DEF UnfinishedIsOwed, InCall
<1>10. OwnAnswer'
  <2> SUFFICES ASSUME NEW d \in Clients, InCall(d)', wg'[req'[d]] = 0
               PROVE  answer'[d] = IF err'[req'[d]] THEN "error" ELSE "nil"
    BY Zenon DEF OwnAnswer
  <2>1. d # c /\ InCall(d)
    BY Zenon, <1>3 DEF InCall
  <2> QED
    BY Zenon, <1>1, <1>2, <1>5, <2>1 DEF OwnAnswer
<1> QED
  BY Zenon, <1>6, <1>7, <1>8, <1>9, <1>10

\* The nil of stopWrites is nobody's request.
LEMMA SendNilOwed ==
  ASSUME Owed, ControlTypes, NilSound, SendNil
  PROVE  Owed'
<1> USE DEF Owed, RequestsTracked
<1>1. /\ UNCHANGED <<pool, wg, err, pc, req, sent, answer>>
      /\ writeCh' = Append(writeCh, Nil) /\ batch' = batch /\ closer = "sentinel"
  BY Zenon DEF SendNil, reqVars, clientVars, writerVars
<1>2. /\ Len(Queue) \in Nat /\ Len(Queue') = Len(Queue) + 1
      /\ Queue'[Len(Queue) + 1] = Nil
      /\ \A i \in 1..Len(Queue) : Queue'[i] = Queue[i]
  <2>1. batch \in Seq(Entries) /\ writeCh \in Seq(Entries \cup {Nil})
    BY Zenon DEF ControlTypes
  <2> QED
    BY SMTT(30), <1>1, <2>1 DEF Queue
<1>3. \A i \in 1..Len(Queue) : Queue[i].by # "close"
  <2>1. \A i \in 1..Len(writeCh) : writeCh[i] \in Entries
    BY <1>1 DEF NilSound, ControlTypes
  <2>2. \A i \in 1..Len(Queue) : Queue[i] \in Entries
    BY SMTT(30), <2>1 DEF ControlTypes, Queue
  <2> QED
    BY Zenon, <2>2, QueueAssumption DEF Entries
<1>4. Nil.by = "close"
  BY Zenon DEF Nil
<1>5. QueuedOnce'
  <2>1. ASSUME NEW i \in 1..Len(Queue'), Queue'[i] # Nil
        PROVE  i \in 1..Len(Queue) /\ Queue'[i] = Queue[i]
    BY <1>2, <2>1
  <2>2. ASSUME NEW i \in 1..Len(Queue'), NEW j \in 1..Len(Queue'), Queue'[i].by = Queue'[j].by
        PROVE  i = j
    BY SMTT(30), <1>2, <1>3, <1>4, <2>2 DEF QueuedOnce
  <2> QED
    BY Zenon, <1>1, <2>1, <2>2 DEF QueuedOnce
<1>6. UnfinishedIsOwed'
  <2>1. \A i \in 1..Len(Queue) : i \in 1..Len(Queue') /\ Queue'[i] = Queue[i]
    BY <1>2
  <2> QED
    BY <1>1, <2>1 DEF UnfinishedIsOwed, InCall
<1> QED
  BY Zenon, <1>1, <1>5, <1>6 DEF RequestTypes, HeldOnce, OwnAnswer, InCall

\* A receive moves the head of the channel to the end of the batch, which leaves
\* the queue as it is; receiving the nil takes it off the end.
LEMMA RecvOwed ==
  ASSUME Owed, ControlTypes, NilSound, Recv \/ Drain
  PROVE  Owed'
<1> USE DEF Owed, RequestsTracked
<1>1. /\ UNCHANGED <<pool, wg, err, pc, req, sent, answer>>
      /\ writeCh # <<>> /\ writeCh' = Tail(writeCh)
      /\ writer = "recv" => batch = <<>>
  BY Zenon DEF Recv, Drain, reqVars, clientVars, NilSound
<1>2. /\ writeCh \in Seq(Entries \cup {Nil}) /\ batch \in Seq(Entries)
      /\ Head(writeCh) = writeCh[1] /\ Len(Tail(writeCh)) = Len(writeCh) - 1
      /\ Tail(writeCh) \in Seq(Entries \cup {Nil})
      /\ Len(writeCh) \in Nat \ {0}
      /\ \A i \in 1..(Len(writeCh) - 1) : Tail(writeCh)[i] = writeCh[i + 1]
  BY Zenon, <1>1, TailFacts DEF ControlTypes
<1>3. CASE Head(writeCh) # Nil
  <2>1. batch' = Append(batch, Head(writeCh))
    <3>1. CASE Recv
      BY <1>1, <1>3, <3>1 DEF Recv
    <3>2. CASE Drain
      BY Zenon, <1>3, <3>2 DEF Drain
    <3> QED
      BY Zenon, <3>1, <3>2
  <2>2. Append(batch, Head(writeCh)) \in Seq(Entries \cup {Nil})
    BY <1>2
  <2>3. Len(Queue') = Len(Queue) /\ \A i \in 1..Len(Queue) : Queue'[i] = Queue[i]
    BY SMTT(30), <1>1, <1>2, <2>1, <2>2 DEF Queue
  <2>4. Queue \in Seq(Entries \cup {Nil}) /\ Queue' \in Seq(Entries \cup {Nil})
    BY <1>1, <1>2, <2>1, <2>2 DEF Queue
  <2>5. Queue' = Queue
    BY <2>3, <2>4
  <2>6. \A c \in Clients : Onward(c)
    BY Zenon, <1>1 DEF Onward, UnfinishedIsOwed
  <2> QED
    BY Zenon, <1>1, <2>5, <2>6, QuietStep
<1>4. CASE Head(writeCh) = Nil
  <2>1. batch' = batch
    BY Zenon, <1>4 DEF Recv, Drain
  <2>2. Len(writeCh) = 1
    <3>1. writeCh[1] = Nil /\ 1 \in 1..Len(writeCh)
      BY SMTT(30), <1>2, <1>4
    <3>2. \A i \in 1..Len(writeCh) : writeCh[i] = Nil => i = Len(writeCh)
      BY Zenon DEF NilSound
    <3> QED
      BY Zenon, <3>1, <3>2
  <2>3. /\ Len(Queue) \in Nat /\ Len(Queue') = Len(Queue) - 1
        /\ Queue[Len(Queue)] = Nil
        /\ \A i \in 1..Len(Queue') : i \in 1..Len(Queue) /\ Queue'[i] = Queue[i]
    BY SMTT(30), <1>1, <1>2, <1>4, <2>1, <2>2 DEF Queue
  <2>4. QueuedOnce'
    <3>1. ASSUME NEW i \in 1..Len(Queue'), Queue'[i] # Nil
          PROVE  /\ pc'[Queue'[i].by] \in {"leave", "notify", "wait"} /\ sent'[Queue'[i].by]
                 /\ Queue'[i].req = req'[Queue'[i].by] /\ wg'[Queue'[i].req] = 1
      <4>1. i \in 1..Len(Queue) /\ Queue'[i] = Queue[i] /\ Queue[i] # Nil
        BY ONLY <2>3, <3>1
      <4> QED
        BY Zenon, <1>1, <4>1 DEF QueuedOnce
    <3>2. ASSUME NEW i \in 1..Len(Queue'), NEW j \in 1..Len(Queue'), Queue'[i].by = Queue'[j].by
          PROVE  i = j
      <4>1. /\ i \in 1..Len(Queue) /\ Queue'[i] = Queue[i]
            /\ j \in 1..Len(Queue) /\ Queue'[j] = Queue[j]
        BY ONLY <2>3
      <4> QED
        BY Zenon, <3>2, <4>1 DEF QueuedOnce
    <3> QED
      BY Zenon, <3>1, <3>2 DEF QueuedOnce
  <2>5. UnfinishedIsOwed'
    <3>1. \A c \in Clients, i \in 1..Len(Queue) :
            Queue[i] = [req |-> req[c], by |-> c] => i \in 1..Len(Queue')
      <4> SUFFICES ASSUME NEW c \in Clients, NEW i \in 1..Len(Queue),
                          Queue[i] = [req |-> req[c], by |-> c]
                   PROVE  i # Len(Queue)
        BY <2>3
      <4>1. [req |-> req[c], by |-> c] \in Entries
        BY Zenon DEF Entries, ControlTypes
      <4> QED
        BY Zenon, <2>3, <4>1, NilIsNoEntry
    <3> SUFFICES ASSUME NEW c \in Clients
                 PROVE  /\ (InCall(c)' /\ sent'[c] /\ wg'[req'[c]] = 1) =>
                             \E i \in 1..Len(Queue') : Queue'[i] = [req |-> req'[c], by |-> c]
                        /\ pc'[c] = "refuse" => ~sent'[c]
                        /\ (InCall(c)' /\ pc'[c] # "wait" /\ ~sent'[c]) => wg'[req'[c]] = 1
      BY Zenon DEF UnfinishedIsOwed
    <3>2. ASSUME InCall(c)', sent'[c], wg'[req'[c]] = 1
          PROVE  \E i \in 1..Len(Queue') : Queue'[i] = [req |-> req'[c], by |-> c]
      <4>1. PICK i \in 1..Len(Queue) : Queue[i] = [req |-> req[c], by |-> c]
        BY Zenon, <1>1, <3>2 DEF UnfinishedIsOwed, InCall
      <4>2. i \in 1..Len(Queue') /\ Queue'[i] = Queue[i]
        BY Zenon, <2>3, <3>1, <4>1
      <4> QED
        BY Zenon, <1>1, <4>1, <4>2
    <3> QED
      BY Zenon, <1>1, <3>2 DEF UnfinishedIsOwed, InCall
  <2> QED
    BY Zenon, <1>1, <2>4, <2>5 DEF RequestTypes, HeldOnce, OwnAnswer, InCall
<1> QED
  BY Zenon, <1>3, <1>4

\* The writer answers the head of the queue: its caller, and nobody else, finds
\* the request finished, with this answer.
LEMMA AnswerOwed ==
  ASSUME Owed, ControlTypes, NilSound, Answer
  PROVE  Owed'
<1> USE DEF Owed, RequestsTracked
<1> DEFINE e == Head(batch)
           r == e.req
           c == e.by
           fails == (good = 0)
<1>1. /\ writer = "answer"
      /\ wg' = [wg EXCEPT ![r] = @ - 1] /\ err' = [err EXCEPT ![r] = fails]
      /\ answer' = [answer EXCEPT ![c] = IF fails THEN "error" ELSE "nil"]
      /\ batch' = Tail(batch)
      /\ UNCHANGED <<pool, pc, req, sent, writeCh>>
  BY Zenon DEF Answer, Finish, clientVars
<1>2. batch \in Seq(Entries) /\ batch # <<>> /\ writeCh \in Seq(Entries \cup {Nil})
  BY Zenon, <1>1 DEF NilSound, ControlTypes
<1>3. /\ e \in Entries /\ e = batch[1] /\ Tail(batch) \in Seq(Entries)
      /\ Len(batch) \in Nat \ {0} /\ Len(Tail(batch)) = Len(batch) - 1
      /\ \A i \in 1..(Len(batch) - 1) : Tail(batch)[i] = batch[i + 1]
  BY Zenon, <1>2, TailFacts
<1>4. e # Nil /\ r \in Reqs /\ c \in Clients
  BY Zenon, <1>3, NilIsNoEntry DEF Entries
<1> HIDE DEF e, fails
<1>5. /\ Len(Queue) \in Nat \ {0} /\ Len(Queue') = Len(Queue) - 1 /\ Queue[1] = e
      /\ \A i \in 1..Len(Queue') : i + 1 \in 1..Len(Queue) /\ Queue'[i] = Queue[i + 1]
  BY SMTT(30), <1>1, <1>2, <1>3 DEF Queue
<1>6. 1 \in 1..Len(Queue)
  BY <1>5
<1>7. InCall(c) /\ sent[c] /\ pc[c] \in {"leave", "notify", "wait"} /\ r = req[c] /\ wg[r] = 1
  BY Zenon, <1>4, <1>5, <1>6 DEF QueuedOnce, InCall
<1>8. fails \in BOOLEAN
  BY Zenon DEF fails
<1>9. /\ wg'[r] = 0 /\ err'[r] = fails
      /\ \A q \in Reqs \ {r} : wg'[q] = wg[q] /\ err'[q] = err[q]
  BY <1>1, <1>4, <1>7 DEF RequestTypes
<1>10. /\ answer'[c] = IF fails THEN "error" ELSE "nil"
       /\ \A d \in Clients \ {c} : answer'[d] = answer[d]
  BY Zenon, <1>1, <1>4 DEF RequestTypes
<1>11. \A d \in Clients \ {c} : req[d] \in Reqs /\ (InCall(d) => req[d] # r)
  BY Zenon, <1>4, <1>7 DEF HeldOnce, ControlTypes
<1>12. RequestTypes'
  <2>1. wg' \in [Reqs -> {0, 1}]
    BY SMTT(30), <1>1, <1>4, <1>7 DEF RequestTypes
  <2>2. err' \in [Reqs -> BOOLEAN]
    BY Zenon, <1>1, <1>8 DEF RequestTypes
  <2>3. answer' \in [Clients -> {"none", "nil", "error"}]
    BY Zenon, <1>1 DEF RequestTypes
  <2> QED
    BY Zenon, <2>1, <2>2, <2>3 DEF RequestTypes
<1>13. HeldOnce'
  <2>1. r \notin pool /\ pool \subseteq Reqs
    BY Zenon, <1>4, <1>7 DEF HeldOnce, ControlTypes
  <2> QED
    BY Zenon, <1>1, <1>9, <2>1 DEF HeldOnce, InCall
<1>14. \A i \in 1..Len(Queue') : /\ Queue'[i].by # c
                                 /\ Queue'[i] # Nil => Queue'[i].by \in Clients /\ Queue'[i].req \in Reqs
  <2> TAKE i \in 1..Len(Queue')
  <2>1. i + 1 \in 1..Len(Queue) /\ i + 1 # 1 /\ Queue'[i] = Queue[i + 1]
    BY <1>5
  <2>2. Queue[i + 1].by # Queue[1].by
    BY Zenon, <1>6, <2>1 DEF QueuedOnce
  <2>3. Queue[i + 1] # Nil => Queue[i + 1].by \in Clients /\ Queue[i + 1].req \in Reqs
    BY <2>1, QueueType DEF Entries
  <2> QED
    BY Zenon, <1>5, <2>1, <2>2, <2>3
<1>15. QueuedOnce'
  <2>1. ASSUME NEW i \in 1..Len(Queue'), Queue'[i] # Nil
        PROVE  /\ pc'[Queue'[i].by] \in {"leave", "notify", "wait"} /\ sent'[Queue'[i].by]
               /\ Queue'[i].req = req'[Queue'[i].by] /\ wg'[Queue'[i].req] = 1
    <3>1. i + 1 \in 1..Len(Queue) /\ Queue'[i] = Queue[i + 1]
      BY Zenon, <1>5
    <3>2. Queue'[i].by \in Clients \ {c} /\ Queue'[i].req \in Reqs
      BY Zenon, <1>14, <2>1
    <3>3. /\ pc[Queue'[i].by] \in {"leave", "notify", "wait"} /\ sent[Queue'[i].by]
          /\ Queue'[i].req = req[Queue'[i].by] /\ wg[Queue'[i].req] = 1
      BY Zenon, <2>1, <3>1 DEF QueuedOnce
    <3>4. Queue'[i].req # r
      BY Zenon, <1>11, <3>2, <3>3 DEF InCall
    <3> QED
      BY Zenon, <1>1, <1>9, <3>2, <3>3, <3>4
  <2>2. ASSUME NEW i \in 1..Len(Queue'), NEW j \in 1..Len(Queue'), Queue'[i].by = Queue'[j].by
        PROVE  i = j
    <3>1. /\ i + 1 \in 1..Len(Queue) /\ Queue'[i] = Queue[i + 1]
          /\ j + 1 \in 1..Len(Queue) /\ Queue'[j] = Queue[j + 1]
      BY Zenon, <1>5
    <3>2. i + 1 = j + 1
      BY <2>2, <3>1 DEF QueuedOnce
    <3> QED
      BY <3>2
  <2> QED
    BY Zenon, <2>1, <2>2 DEF QueuedOnce
<1>16. UnfinishedIsOwed'
  <2> SUFFICES ASSUME NEW d \in Clients
               PROVE  /\ (InCall(d)' /\ sent'[d] /\ wg'[req'[d]] = 1) =>
                           \E i \in 1..Len(Queue') : Queue'[i] = [req |-> req'[d], by |-> d]
                      /\ pc'[d] = "refuse" => ~sent'[d]
                      /\ (InCall(d)' /\ pc'[d] # "wait" /\ ~sent'[d]) => wg'[req'[d]] = 1
    BY Zenon DEF UnfinishedIsOwed
  <2>1. CASE d = c
    BY <1>1, <1>7, <1>9, <2>1 DEF UnfinishedIsOwed
  <2>2. CASE d # c
    <3>1. InCall(d) => wg'[req[d]] = wg[req[d]]
      BY Zenon, <1>9, <1>11, <2>2
    <3>2. ASSUME InCall(d)', sent'[d], wg'[req'[d]] = 1
          PROVE  \E i \in 1..Len(Queue') : Queue'[i] = [req |-> req'[d], by |-> d]
      <4>1. PICK i \in 1..Len(Queue) : Queue[i] = [req |-> req[d], by |-> d]
        BY Zenon, <1>1, <3>1, <3>2 DEF UnfinishedIsOwed, InCall
      <4>2. i # 1
        BY <1>5, <2>2, <4>1
      <4>3. i - 1 \in 1..Len(Queue') /\ (i - 1) + 1 = i
        BY <1>5, <4>2
      <4>4. Queue'[i - 1] = Queue[i]
        BY Zenon, <1>5, <4>3
      <4> QED
        BY Zenon, <1>1, <4>1, <4>3, <4>4
    <3> QED
      BY Zenon, <1>1, <3>1, <3>2 DEF UnfinishedIsOwed, InCall
  <2> QED
    BY Zenon, <2>1, <2>2
<1>17. OwnAnswer'
  <2> SUFFICES ASSUME NEW d \in Clients, InCall(d)', wg'[req'[d]] = 0
               PROVE  answer'[d] = IF err'[req'[d]] THEN "error" ELSE "nil"
    BY Zenon DEF OwnAnswer
  <2>1. CASE d = c
    BY Zenon, <1>1, <1>7, <1>9, <1>10, <2>1
  <2>2. CASE d # c
    <3>1. InCall(d) /\ req'[d] = req[d] /\ answer'[d] = answer[d]
      BY Zenon, <1>1, <1>10, <2>2 DEF InCall
    <3>2. wg'[req[d]] = wg[req[d]] /\ err'[req[d]] = err[req[d]]
      BY Zenon, <1>9, <1>11, <2>2, <3>1
    <3> QED
      BY Zenon, <3>1, <3>2 DEF OwnAnswer
  <2> QED
    BY Zenon, <2>1, <2>2
<1> QED
  BY Zenon, <1>12, <1>13, <1>15, <1>16, <1>17

\* The steps that touch neither requests nor queue.
LEMMA OtherOwed ==
  ASSUME Owed, ControlTypes,
         \/ MarkClosed \/ WaitLock \/ WaitTest \/ WaitPark \/ Join
         \/ DrainEnd \/ Decide \/ Sleep \/ Pass \/ RotateFails \/ FlushFails
         \/ UNCHANGED vars
  PROVE  Owed'
<1>1. UNCHANGED <<pool, wg, err, pc, req, sent, answer, batch, writeCh>>
  BY Zenon DEF MarkClosed, WaitLock, WaitTest, WaitPark, Join, DrainEnd, Decide, Sleep, Pass,
         RotateFails, FlushFails, vars, reqVars, clientVars, writerVars
<1>2. UNCHANGED Queue
  BY Zenon, <1>1 DEF Queue
<1>3. \A c \in Clients : Onward(c)
  BY Zenon, <1>1 DEF Onward, Owed, RequestsTracked, UnfinishedIsOwed
<1> QED
  BY Zenon, <1>1, <1>2, <1>3, QuietStep

\* Every step keeps what is owed.
LEMMA NextOwed == HandOver /\ Owed /\ [Next]_vars => Owed'
<1> SUFFICES ASSUME HandOver, Owed, [Next]_vars PROVE Owed'
  BY Zenon
<1>1. ControlTypes /\ ClientsSound /\ NilSound
  BY Zenon DEF HandOver
<1>2. CASE \E c \in Clients : Call(c) \/ Submit(c)
  BY Zenon, <1>1, <1>2, CallOwed, PassageOwed, SendOwed, RefuseOwed, ReturnOwed DEF Submit
<1>3. CASE MarkClosed \/ Stop
  BY Zenon, <1>1, <1>3, OtherOwed, SendNilOwed DEF Stop
<1>4. CASE WriteLoop \/ FlushFails
  BY Zenon, <1>1, <1>4, OtherOwed, RecvOwed, AnswerOwed DEF WriteLoop
<1>5. CASE UNCHANGED vars
  BY Zenon, <1>1, <1>5, OtherOwed
<1> QED
  BY Zenon, <1>2, <1>3, <1>4, <1>5 DEF Next

\* RequestsTracked and OwnAnswer hold in every reachable state.
LEMMA OwedInvariant == Spec => []Owed
BY InitOwed, NextOwed, HandOverInvariant, PTL DEF Spec

\* A recycled request is never answered for another caller: for any number of
\* callers and requests the queue has a request at most once, unfinished, and
\* under the caller that holds it (db.go:44-66, 343-360).
THEOREM RequestsAreTracked == Spec => []RequestsTracked
BY OwedInvariant, PTL DEF Owed

\* Every Put and Delete returns what the writer decided about its own write
\* (db.go:58-66, 640-660).
THEOREM CallersGetOwnAnswer == Spec => []OwnAnswer
BY OwedInvariant, PTL DEF Owed
=============================================================================
