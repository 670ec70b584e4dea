------------------------------ MODULE Skiplist ------------------------------
(***************************************************************************)
(* The lock-free skiplist of skiplist/skiplist.go: Put, the search of Get  *)
(* and of the iterator, and iteration, as steps of one atomic load, store  *)
(* or compare-and-swap each.                                               *)
(*                                                                         *)
(* Puts are numbered in the order they are called.  The number of a Put    *)
(* stands for its value, and for the node it allocates, if it does.        *)
(* Levels count from 0.                                                    *)
(***************************************************************************)
EXTENDS Integers, FiniteSets, Sequences, FiniteSetsExt

CONSTANTS
  Keys,       \* positive integers
  Writers, Readers,
  MaxHeight,  \* maxHeight
  MaxPuts,    \* bound on the calls of Put
  MaxReads    \* bound on the searches and iterations

ASSUME SkiplistAssumption ==
  /\ Keys \subseteq Nat \ {0} /\ \E last \in Keys : \A k \in Keys : k <= last
  /\ MaxHeight \in Nat \ {0} /\ MaxPuts \in Nat /\ MaxReads \in Nat

VARIABLES
  height,  \* Skiplist.height
  tower,   \* node -> level -> next node
  value,   \* node -> the Put whose value it holds
  puts,    \* the keys of the Puts so far
  wr,      \* writer -> its locals
  rd,      \* reader -> its locals
  reads,   \* the number of searches and iterations so far
  wrong,   \* history: a search or an iteration returned something wrong
  panic    \* a panic of Put was reached

vars == <<height, tower, value, puts, wr, rd, reads, wrong, panic>>

HeadNode == 0   \* the head node
Nil      == -1  \* a nil pointer, offset 0 of the arena
Levels == 0..MaxHeight - 1
NoSplice == [l \in 0..MaxHeight |-> Nil]
NoTower  == [l \in Levels |-> Nil]

IdleWriter == [pc |-> "idle", put |-> 0, list |-> 0, lvl |-> 0, at |-> HeadNode,
               prev |-> NoSplice, next |-> NoSplice, h |-> 0]
IdleReader == [pc |-> "idle", key |-> 0, less |-> FALSE, equal |-> FALSE, lvl |-> 0,
               at |-> HeadNode, base |-> {}, seen |-> {}]

KeyOf(n) == puts[n]

-----------------------------------------------------------------------------
(* The contents *)

\* The nodes linked at level l.
Linked(l) == {tower[n][l] : n \in DOMAIN tower} \ {Nil}

KeysIn == {KeyOf(n) : n \in Linked(0)}

Contents ==
  [k \in Keys |-> IF k \in KeysIn
                    THEN value[CHOOSE n \in Linked(0) : KeyOf(n) = k] ELSE 0]

-----------------------------------------------------------------------------
(* Put *)

Do(w, r) == wr' = [wr EXCEPT ![w] = r]

\* The loads of height, and the start of the search from the top.
Put(w, k) ==
  /\ wr[w].pc = "idle" /\ Len(puts) < MaxPuts
  /\ puts' = Append(puts, k)
  /\ Do(w, [IdleWriter EXCEPT !.pc = "search", !.put = Len(puts'), !.list = height,
                              !.lvl = height - 1, !.prev[height] = HeadNode])
  /\ UNCHANGED <<height, tower, value, rd, reads, wrong, panic>>

\* One turn of the loop of findSpliceForLevel, which runs before the allocation
\* ("search"), for a level without a splice ("fill") and after a failed
\* compare-and-swap ("retry").
Walking == {"search", "fill", "retry"}

Ahead(w)   == tower[wr[w].at][wr[w].lvl]
PutKey(w)  == KeyOf(wr[w].put)
Before(n, k) == n # Nil /\ KeyOf(n) < k
Matches(n, k) == n # Nil /\ KeyOf(n) = k

Walk(w) ==
  /\ wr[w].pc \in Walking /\ Before(Ahead(w), PutKey(w))
  /\ Do(w, [wr[w] EXCEPT !.at = Ahead(w)])
  /\ UNCHANGED <<height, tower, value, puts, rd, reads, wrong, panic>>

\* The splice of a level is found.  The search goes on one level below.
Splice(w) ==
  LET r == wr[w]
      s == [r EXCEPT !.prev[r.lvl] = r.at, !.next[r.lvl] = Ahead(w)]
  IN  /\ r.pc \in Walking
      /\ ~Before(Ahead(w), PutKey(w)) /\ ~Matches(Ahead(w), PutKey(w))
      /\ Do(w, IF r.pc # "search" THEN [s EXCEPT !.pc = "link"]
               ELSE IF r.lvl > 0  THEN [s EXCEPT !.lvl = r.lvl - 1]
               ELSE [s EXCEPT !.pc = "alloc"])
      /\ UNCHANGED <<height, tower, value, puts, rd, reads, wrong, panic>>

\* The key is there.
SpliceEqual(w) ==
  LET r == wr[w]
  IN  /\ r.pc \in Walking /\ Matches(Ahead(w), PutKey(w))
      /\ panic' = (panic \/ r.pc = "fill" \/ (r.pc = "retry" /\ r.lvl # 0))
      /\ Do(w, [r EXCEPT !.pc = "set", !.at = Ahead(w)])
      /\ UNCHANGED <<height, tower, value, puts, rd, reads, wrong>>

\* Mutant: the value of a key that is there is kept.
SetValueKept(w) ==
  /\ wr[w].pc = "set"
  /\ Do(w, IdleWriter)
  /\ UNCHANGED <<height, tower, value, puts, rd, reads, wrong, panic>>

\* setValue, and Put returns.
SetValue(w) ==
  /\ wr[w].pc = "set"
  /\ value' = [value EXCEPT ![wr[w].at] = wr[w].put]
  /\ Do(w, IdleWriter)
  /\ UNCHANGED <<height, tower, puts, rd, reads, wrong, panic>>

\* The insertion goes on at a level.  A level above the height the search started
\* from has no splice yet: prev[i] is nil, and findSpliceForLevel starts at the head.
LinkAt(r, l) ==
  IF r.prev[l] # Nil THEN [r EXCEPT !.pc = "link", !.lvl = l]
  ELSE [r EXCEPT !.pc = "fill", !.lvl = l, !.at = HeadNode]

\* randomHeight, newNode and the second load of height.  Nobody else sees the
\* node yet.
NewNode(w, h) ==
  LET r == [wr[w] EXCEPT !.h = h, !.list = height]
  IN  /\ r.pc = "alloc"
      /\ tower' = [n \in DOMAIN tower \cup {r.put} |-> IF n = r.put THEN NoTower ELSE tower[n]]
      /\ value' = [n \in DOMAIN value \cup {r.put} |-> IF n = r.put THEN r.put ELSE value[n]]
      /\ Do(w, IF h > height THEN [r EXCEPT !.pc = "raise"] ELSE LinkAt(r, 0))
      /\ panic' = (panic \/ r.prev[0] = Nil)
      /\ UNCHANGED <<height, puts, rd, reads, wrong>>

\* The compare-and-swap of the height.
Raise(w) ==
  LET r == wr[w]
      won == height = r.list
  IN  /\ r.pc = "raise"
      /\ height' = IF won THEN r.h ELSE height
      /\ Do(w, IF won THEN LinkAt(r, 0) ELSE [r EXCEPT !.pc = "reload"])
      /\ UNCHANGED <<tower, value, puts, rd, reads, wrong, panic>>

\* Somebody else raised it.
Reload(w) ==
  LET r == [wr[w] EXCEPT !.list = height]
  IN  /\ r.pc = "reload"
      /\ Do(w, IF r.h > height THEN [r EXCEPT !.pc = "raise"] ELSE LinkAt(r, 0))
      /\ UNCHANGED <<height, tower, value, puts, rd, reads, wrong, panic>>

\* Mutant: the pointer is stored without comparing.
CASMutant(n, l, old) == TRUE

\* casNextOffset succeeds.
CAS(n, l, old) == tower[n][l] = old

\* Mutant: the same splice is tried again.
RetrySame(r) == r

\* Another writer changed the splice, so it is computed again for this level.
Retry(r) == [r EXCEPT !.pc = "retry", !.at = r.prev[r.lvl]]

\* The store into the node's own tower, which nobody reads before the
\* compare-and-swap succeeds, and the compare-and-swap.
Link(w) ==
  LET r == wr[w]
      p == r.prev[r.lvl]
  IN  /\ r.pc = "link"
      /\ IF CAS(p, r.lvl, r.next[r.lvl])
           THEN /\ tower' = [tower EXCEPT ![r.put][r.lvl] = r.next[r.lvl],
                                          ![p][r.lvl] = r.put]
                /\ Do(w, IF r.lvl + 1 = r.h THEN IdleWriter
                         ELSE LinkAt(r, r.lvl + 1))
           ELSE /\ tower' = [tower EXCEPT ![r.put][r.lvl] = r.next[r.lvl]]
                /\ Do(w, Retry(r))
      /\ UNCHANGED <<height, value, puts, rd, reads, wrong, panic>>

PutStep(w) ==
  \/ Walk(w) \/ Splice(w) \/ SpliceEqual(w) \/ SetValue(w)
  \/ \E h \in 1..MaxHeight : NewNode(w, h)
  \/ Raise(w) \/ Reload(w) \/ Link(w)

-----------------------------------------------------------------------------
(* Search and iteration *)

DoRead(x, r) == rd' = [rd EXCEPT ![x] = r]
unchangedList == <<height, tower, value, puts, wr, panic>>

\* What findNear has to return: the first node >= key or the last node <= key
\* (without equality when it is not allowed).
Near(k, less, equal) ==
  LET Fits(n) == \/ equal /\ KeyOf(n) = k
                 \/ IF less THEN KeyOf(n) < k ELSE KeyOf(n) > k
      fit == {n \in Linked(0) : Fits(n)}
      end == IF less THEN Max({KeyOf(n) : n \in fit}) ELSE Min({KeyOf(n) : n \in fit})
  IN  IF fit = {} THEN Nil ELSE CHOOSE n \in fit : KeyOf(n) = end

FindNear(x, k, less, equal) ==
  /\ rd[x].pc = "idle" /\ reads < MaxReads
  /\ DoRead(x, [IdleReader EXCEPT !.pc = "near", !.key = k, !.less = less,
                                  !.equal = equal, !.lvl = height - 1])
  /\ reads' = reads + 1
  /\ UNCHANGED <<unchangedList, wrong>>

\* The search of Get and of Seek.
Get(x, k) == FindNear(x, k, FALSE, TRUE)
SeekForPrev(x, k) == FindNear(x, k, TRUE, TRUE)
\* The iterator is at a node.
Prev(x, k) == k \in KeysIn /\ FindNear(x, k, TRUE, FALSE)
\* findLast takes the same way as the search for what is below a bound of all keys.
FindLast(x) == FindNear(x, Max(Keys) + 1, TRUE, FALSE)

\* Mutant: the end of a level is taken for the end of the list.
BelowMutant(r, n) == r.lvl > 0 /\ n # Nil

\* The search goes on one level below.
Below(r, n) == r.lvl > 0

\* One turn of its loop.
NearStep(x) ==
  LET r == rd[x]
      n == tower[r.at][r.lvl]
      Return(node) == /\ wrong' = (wrong \/ node # Near(r.key, r.less, r.equal))
                      /\ DoRead(x, IdleReader)
      GoOn(s) == DoRead(x, s) /\ UNCHANGED wrong
  IN  /\ r.pc = "near"
      /\ IF Before(n, r.key) THEN GoOn([r EXCEPT !.at = n])
         ELSE IF r.equal /\ Matches(n, r.key) THEN Return(n)
         ELSE IF Below(r, n) THEN GoOn([r EXCEPT !.lvl = r.lvl - 1])
         ELSE IF ~r.less THEN Return(n)
         ELSE Return(IF r.at = HeadNode THEN Nil ELSE r.at)
      /\ UNCHANGED <<unchangedList, reads>>

\* SeekToFirst.  `base' and `seen' are history.
SeekToFirst(x) ==
  /\ rd[x].pc = "idle" /\ reads < MaxReads
  /\ DoRead(x, [IdleReader EXCEPT !.pc = "iterate", !.at = tower[HeadNode][0], !.base = KeysIn])
  /\ reads' = reads + 1
  /\ UNCHANGED <<unchangedList, wrong>>

\* Key and Next of the iterator.
IterNext(x) ==
  LET r == rd[x]
  IN  /\ r.pc = "iterate" /\ r.at # Nil
      /\ DoRead(x, [r EXCEPT !.at = tower[r.at][0], !.seen = @ \cup {KeyOf(r.at)}])
      /\ UNCHANGED <<unchangedList, reads, wrong>>

IterEnd(x) ==
  LET r == rd[x]
  IN  /\ r.pc = "iterate" /\ r.at = Nil
      /\ wrong' = (wrong \/ ~(r.base \subseteq r.seen))
      /\ DoRead(x, IdleReader)
      /\ UNCHANGED <<unchangedList, reads>>

-----------------------------------------------------------------------------

\* New
Init ==
  /\ height = 1
  /\ tower = [n \in {HeadNode} |-> NoTower]
  /\ value = [n \in {HeadNode} |-> 0]
  /\ puts = <<>>
  /\ wr = [w \in Writers |-> IdleWriter]
  /\ rd = [x \in Readers |-> IdleReader]
  /\ reads = 0 /\ wrong = FALSE /\ panic = FALSE

Next ==
  \/ \E w \in Writers : PutStep(w) \/ \E k \in Keys : Put(w, k)
  \/ \E x \in Readers :
       \/ \E k \in Keys : Get(x, k) \/ SeekForPrev(x, k) \/ Prev(x, k)
       \/ FindLast(x) \/ NearStep(x) \/ SeekToFirst(x) \/ IterNext(x) \/ IterEnd(x)

Spec == Init /\ [][Next]_vars

\* Writers that are inside Put are scheduled.
FairSpec == Spec /\ \A w \in Writers : WF_vars(PutStep(w))

-----------------------------------------------------------------------------
(* Properties *)

\* However Puts interleave (skiplist.go:318), every level is sorted and is part
\* of the level below, a key has one node, and no panic of Put is reached.
ListSound ==
  /\ ~panic
  /\ \A m, n \in Linked(0) : KeyOf(m) = KeyOf(n) => m = n
  /\ \A l \in Levels : l > 0 => Linked(l) \subseteq Linked(l - 1)
  /\ \A l \in Levels : \A n \in Linked(l) \cup {HeadNode} :
       LET Key(m) == IF m = HeadNode THEN 0 ELSE KeyOf(m)
           later == {m \in Linked(l) : Key(m) > Key(n)}
       IN  IF later = {} THEN tower[n][l] = Nil
           ELSE tower[n][l] \in later /\ \A m \in later : Key(tower[n][l]) <= Key(m)

\* A search that races with Puts returns what was in the list when it made its
\* last load (skiplist.go:199), although nodes appear level by level; and an
\* iteration meets every key that was there when it started.
SearchExact == ~wrong

\* Every Put takes effect once and atomically (skiplist.go:278): it links its
\* node at the base level, or overwrites the value of the node it found.
Map == INSTANCE AtomicMap WITH
  map <- Contents,
  calls <- Len(puts),
  call <- [w \in Writers |->
    IF wr[w].pc = "idle" THEN [state |-> "idle", key |-> 0, id |-> 0]
    ELSE [state |-> IF wr[w].put \in Linked(0) THEN "applied" ELSE "called",
          key |-> PutKey(w), id |-> wr[w].put]]
ImplementsAtomicMap == Map!Spec

\* Every Put returns: a lost compare-and-swap means another Put got ahead.
PutReturns == \A w \in Writers : wr[w].pc # "idle" ~> wr[w].pc = "idle"

=============================================================================
