--------------------------- MODULE SkiplistProofs ---------------------------
(***************************************************************************)
(* The lock-free skiplist for any number of writers and readers, any keys  *)
(* and any height: every level stays sorted, searches are exact, and the   *)
(* list implements AtomicMap.                                              *)
(***************************************************************************)
EXTENDS Skiplist, TLAPS

-----------------------------------------------------------------------------
(* The inductive invariant *)

\* The nodes a search can stand on at level l, and the keys they are compared by.
Reach(l) == Linked(l) \cup {HeadNode}
K(n) == IF n = HeadNode THEN 0 ELSE KeyOf(n)

Nodes == DOMAIN tower
Linking == {"raise", "reload", "link", "fill", "retry"}

WriterRecords ==
  [pc : {"idle", "alloc", "set"} \cup Walking \cup Linking, put : Nat, list : Nat,
   lvl : Levels, at : Int, prev : [0..MaxHeight -> Int], next : [0..MaxHeight -> Int],
   h : Nat]

ReaderRecords ==
  [pc : {"idle", "near", "iterate"}, key : Nat, less : BOOLEAN, equal : BOOLEAN,
   lvl : Levels, at : Int, base : SUBSET Keys, seen : SUBSET Keys]

TypeInv ==
  /\ puts \in Seq(Keys) /\ height \in 1..MaxHeight
  /\ HeadNode \in Nodes /\ Nodes \subseteq 0..Len(puts)
  /\ tower \in [Nodes -> [Levels -> (Nodes \ {HeadNode}) \cup {Nil}]]
  /\ value \in [Nodes -> Nat]
  /\ wr \in [Writers -> WriterRecords]
  /\ rd \in [Readers -> ReaderRecords]

\* The levels.  A pointer of a node that is linked leads to the next linked key;
\* every linked node is led to by one that is.
ListInv ==
  /\ \A m, n \in Linked(0) : KeyOf(m) = KeyOf(n) => m = n
  /\ \A i, j \in Levels : i <= j => Linked(j) \subseteq Linked(i)
  /\ \A l \in Levels : \A m \in Linked(l) : \E n \in Reach(l) : tower[n][l] = m
  /\ \A l \in Levels : \A n \in Reach(l) :
       /\ tower[n][l] # Nil => K(n) < K(tower[n][l])
       /\ \A m \in Linked(l) : K(n) < K(m) => tower[n][l] # Nil /\ K(tower[n][l]) <= K(m)

\* Each Put has a number of its own.
Owns(w) ==
  /\ wr[w].pc = "idle" => wr[w].put = 0
  /\ wr[w].pc # "idle" => /\ wr[w].put \in 1..Len(puts)
                          /\ \A v \in Writers \ {w} : wr[v].put # wr[w].put

\* The splice: nodes before and behind the key that are linked.
SpliceInv(r) ==
  r.pc # "idle" => \A l \in Levels :
    /\ r.prev[l] # Nil => r.prev[l] \in Reach(l) /\ K(r.prev[l]) < KeyOf(r.put)
    /\ r.next[l] # Nil => r.next[l] \in Linked(l) /\ KeyOf(r.put) < K(r.next[l])

\* Where the search stands, and which part of the splice is there.
WalkInv(r) ==
  /\ r.pc \in Walking => r.at \in Reach(r.lvl) /\ K(r.at) < KeyOf(r.put)
  /\ r.pc \in {"alloc", "raise", "reload"} => r.lvl = 0 /\ r.prev[0] # Nil
  /\ r.pc \in {"link", "retry"} => r.prev[r.lvl] # Nil
  /\ r.pc = "fill" => r.lvl > 0

\* The node of a Put is linked from the bottom to the level it works at.
NodeInv(r) ==
  /\ r.pc \in {"search", "alloc"} => r.put \notin Nodes
  /\ r.pc = "set" => /\ r.put \notin Linked(0)
                     /\ r.at \in Linked(0) /\ KeyOf(r.at) = KeyOf(r.put)
  /\ r.pc \in Linking =>
       /\ r.put \in Nodes /\ (r.lvl = 0 => value[r.put] = r.put)
       /\ r.h \in 1..MaxHeight /\ r.lvl < r.h
       /\ \A l \in Levels : r.put \in Linked(l) <=> l < r.lvl

LocalInv(r) == SpliceInv(r) /\ WalkInv(r) /\ NodeInv(r)

\* A search stands on a linked node before its key.  An iteration has seen every
\* key it has to see or will come to it.
ReaderInv(x) ==
  /\ rd[x].pc = "near" => /\ rd[x].at \in Reach(rd[x].lvl) /\ K(rd[x].at) < rd[x].key
                          /\ ~rd[x].less => rd[x].equal
  /\ rd[x].pc = "iterate" =>
       /\ rd[x].at # Nil => rd[x].at \in Linked(0)
       /\ rd[x].base \subseteq KeysIn
       /\ \A k \in rd[x].base \ rd[x].seen : rd[x].at # Nil /\ KeyOf(rd[x].at) <= k

SkipInv ==
  /\ TypeInv /\ ListInv
  /\ \A w \in Writers : Owns(w) /\ LocalInv(wr[w])
  /\ \A x \in Readers : ReaderInv(x)
  /\ ~wrong /\ ~panic

-----------------------------------------------------------------------------
(* What follows from the types *)

\* Level 0 exists and keys are positive.
LEMMA Numbers ==
  /\ MaxHeight \in Nat /\ MaxHeight > 0 /\ 0 \in Levels /\ Levels \subseteq Nat
  /\ \A k \in Keys : k \in Nat /\ k > 0
  BY SkiplistAssumption DEF Levels

\* Linked nodes were allocated and have a key.
LEMMA LinkedNodes ==
  ASSUME TypeInv, NEW l \in Levels, NEW n \in Linked(l)
  PROVE  /\ n \in Nodes /\ n # HeadNode /\ n # Nil /\ n \in 1..Len(puts)
         /\ KeyOf(n) \in Keys /\ K(n) = KeyOf(n) /\ K(n) \in Nat /\ K(n) > 0
<1>1. n \in Nodes \ {HeadNode}
  BY DEF TypeInv, Linked, Nodes, Nil
<1>2. n \in 1..Len(puts)
  BY <1>1 DEF TypeInv, HeadNode
<1>3. KeyOf(n) \in Keys
  BY <1>2 DEF TypeInv, KeyOf
<1> QED
  BY <1>1, <1>2, <1>3, Numbers DEF K, Nil

\* The head sorts before every key.
LEMMA HeadFirst ==
  ASSUME TypeInv, NEW u \in 1..Len(puts)
  PROVE  K(HeadNode) < KeyOf(u)
<1>1. KeyOf(u) \in Keys /\ K(HeadNode) = 0
  BY DEF TypeInv, KeyOf, K
<1> QED
  BY <1>1, Numbers

\* A node a search stands on has a tower of pointers to linked nodes.
LEMMA ReachNodes ==
  ASSUME TypeInv, NEW l \in Levels, NEW n \in Reach(l)
  PROVE  /\ n \in Nodes /\ n # Nil /\ n \in Int /\ K(n) \in Nat
         /\ tower[n][l] # Nil => tower[n][l] \in Linked(l)
<1>1. n \in Nodes /\ n # Nil /\ n \in Int /\ K(n) \in Nat
  <2>1. CASE n = HeadNode
    BY <2>1 DEF TypeInv, HeadNode, K, Nil
  <2>2. CASE n \in Linked(l)
    BY <2>2, LinkedNodes
  <2> QED
    BY Zenon, <2>1, <2>2 DEF Reach
<1> QED
  BY Zenon, <1>1 DEF Linked, Nodes

\* New starts with the head alone.
LEMMA InitSkipInv == Init => SkipInv
<1> SUFFICES ASSUME Init PROVE SkipInv
  BY Zenon
<1>1. Nodes = {HeadNode} /\ HeadNode \in Nodes /\ tower[HeadNode] = NoTower
  BY Zenon DEF Init, Nodes
<1>2. \A l \in Levels : NoTower[l] = Nil
  BY Zenon DEF NoTower
<1>3. \A l \in Levels : Linked(l) = {}
  BY Zenon, <1>1, <1>2 DEF Linked, Nodes
<1>4. IdleWriter \in WriterRecords /\ IdleReader \in ReaderRecords
  BY Numbers DEF IdleWriter, WriterRecords, IdleReader, ReaderRecords, NoSplice, Nil, HeadNode
<1>5. TypeInv
  <2>1. puts \in Seq(Keys) /\ Len(puts) = 0 /\ height \in 1..MaxHeight
    BY Numbers DEF Init
  <2>2. tower \in [Nodes -> [Levels -> (Nodes \ {HeadNode}) \cup {Nil}]]
    BY Zenon, <1>1 DEF Init, NoTower
  <2>3. value \in [Nodes -> Nat]
    BY Zenon, <1>1 DEF Init
  <2>4. wr \in [Writers -> WriterRecords] /\ rd \in [Readers -> ReaderRecords]
    BY Zenon, <1>4 DEF Init
  <2> QED
    BY <1>1, <2>1, <2>2, <2>3, <2>4 DEF TypeInv, HeadNode
<1>6. ListInv
  BY Zenon, <1>1, <1>2, <1>3, Numbers DEF ListInv, Reach
<1>7. ASSUME NEW w \in Writers PROVE Owns(w) /\ LocalInv(wr[w])
  <2>1. wr[w].pc = "idle" /\ wr[w].put = 0
    BY Zenon DEF Init, IdleWriter
  <2> QED
    BY Zenon, <2>1 DEF Owns, LocalInv, SpliceInv, WalkInv, NodeInv, Walking, Linking
<1>8. ASSUME NEW x \in Readers PROVE ReaderInv(x)
  BY Zenon DEF Init, IdleReader, ReaderInv
<1> QED
  BY Zenon, <1>5, <1>6, <1>7, <1>8 DEF SkipInv, Init

-----------------------------------------------------------------------------
(* What the other writers and the readers rely on *)

\* The list grows, by the node p at most, and only linked nodes are overwritten.
Grows(p) ==
  /\ Len(puts) <= Len(puts') /\ \A n \in 1..Len(puts) : puts'[n] = puts[n]
  /\ Nodes \subseteq Nodes' /\ Nodes' \subseteq Nodes \cup {p}
  /\ \A l \in Levels : Linked(l) \subseteq Linked(l)' /\ Linked(l)' \subseteq Linked(l) \cup {p}
  /\ \A n \in Nodes \ Linked(0) : value'[n] = value[n]

\* Keys of linked nodes do not change.
LEMMA KeysStay ==
  ASSUME TypeInv, NEW p, Grows(p), NEW l \in Levels
  PROVE  /\ \A n \in Linked(l) : n \in Linked(l)' /\ KeyOf(n)' = KeyOf(n)
         /\ \A n \in Reach(l) : n \in Reach(l)' /\ K(n)' = K(n)
<1>1. ASSUME NEW n \in Linked(l) PROVE n \in Linked(l)' /\ KeyOf(n)' = KeyOf(n)
  BY Zenon, LinkedNodes DEF Grows, KeyOf
<1>2. ASSUME NEW n \in Reach(l) PROVE n \in Reach(l)' /\ K(n)' = K(n)
  BY Zenon, <1>1 DEF Reach, K
<1> QED
  BY Zenon, <1>1, <1>2

\* The invariant of a writer with these locals, when p is not its node.
LEMMA WriterKept ==
  ASSUME TypeInv, NEW p, Grows(p), NEW r \in WriterRecords, LocalInv(r),
         r.pc # "idle" => r.put \in 1..Len(puts), r.put # p
  PROVE  LocalInv(r)'
<1>1. r.lvl \in Levels /\ 0 \in Levels
  BY Zenon, Numbers DEF WriterRecords
<1>2. SpliceInv(r) /\ WalkInv(r) /\ NodeInv(r)
  BY Zenon DEF LocalInv
<1>3. r.pc # "idle" => KeyOf(r.put)' = KeyOf(r.put)
  BY Zenon DEF KeyOf, Grows
<1>4. SpliceInv(r)'
  BY Zenon, <1>1, <1>2, <1>3, KeysStay, LinkedNodes DEF SpliceInv, Reach, K
<1>5. WalkInv(r)'
  BY Zenon, <1>1, <1>2, <1>3, KeysStay DEF WalkInv, Walking
<1>6. NodeInv(r)'
  <2>1. r.pc \in {"search", "alloc"} => r.put \notin Nodes'
    BY Zenon, <1>2 DEF NodeInv, Grows
  <2>2. r.pc = "set" => /\ r.put \notin Linked(0)'
                        /\ r.at \in Linked(0)' /\ KeyOf(r.at)' = KeyOf(r.put)'
    BY Zenon, <1>1, <1>2, <1>3, KeysStay DEF NodeInv, Grows
  <2>3. ASSUME r.pc \in Linking
        PROVE  /\ r.put \in Nodes' /\ (r.lvl = 0 => value'[r.put] = r.put)
               /\ r.h \in 1..MaxHeight /\ r.lvl < r.h
               /\ \A l \in Levels : r.put \in Linked(l)' <=> l < r.lvl
    BY <1>1, <1>2, <2>3 DEF NodeInv, Grows
  <2> QED
    BY Zenon, <2>1, <2>2, <2>3 DEF NodeInv
<1> QED
  BY Zenon, <1>4, <1>5, <1>6 DEF LocalInv

\* The invariant of a reader that does not move.
LEMMA ReaderKept ==
  ASSUME SkipInv, NEW p, Grows(p), NEW x \in Readers, rd'[x] = rd[x]
  PROVE  ReaderInv(x)'
<1> DEFINE r == rd[x]
<1>1. TypeInv /\ r.lvl \in Levels /\ 0 \in Levels /\ ReaderInv(x)
  BY Zenon, Numbers DEF SkipInv, TypeInv, ReaderRecords
<1>2. KeysIn \subseteq KeysIn'
  BY Zenon, <1>1, KeysStay DEF KeysIn
<1>3. r.pc = "near" => r.at \in Reach(r.lvl)' /\ K(r.at)' < r.key /\ (~r.less => r.equal)
  BY Zenon, <1>1, KeysStay DEF ReaderInv
<1>4. r.pc = "iterate" =>
        /\ r.at # Nil => r.at \in Linked(0)'
        /\ r.base \subseteq KeysIn'
        /\ \A k \in r.base \ r.seen : r.at # Nil /\ KeyOf(r.at)' <= k
  BY Zenon, <1>1, <1>2, KeysStay DEF ReaderInv
<1> QED
  BY Zenon, <1>3, <1>4 DEF ReaderInv

\* One writer moves.
LEMMA OneWriter ==
  ASSUME SkipInv, NEW p, Grows(p), NEW w \in Writers,
         \A v \in Writers \ {w} : wr'[v] = wr[v] /\ wr[v].put # p,
         rd' = rd, TypeInv', ListInv', Owns(w)', LocalInv(wr[w])',
         ~wrong', ~panic'
  PROVE  SkipInv'
<1>1. ASSUME NEW x \in Readers PROVE ReaderInv(x)'
  BY Zenon, ReaderKept
<1>2. ASSUME NEW v \in Writers \ {w}
      PROVE  Owns(v)' /\ LocalInv(wr[v])'
  <2>2. Owns(v) /\ LocalInv(wr[v]) /\ wr'[v] = wr[v] /\ TypeInv /\ wr[v] \in WriterRecords
    BY Zenon DEF SkipInv, TypeInv
  <2>1. LocalInv(wr[v])'
    BY Zenon, <2>2, WriterKept DEF Owns
  <2>3. wr[v].pc # "idle" => wr[v].put \in 1..Len(puts')
    BY <2>2 DEF Owns, Grows, SkipInv, TypeInv
  <2>4. wr[v].pc # "idle" => \A u \in Writers \ {v} : wr'[u].put # wr'[v].put
    <3>1. wr[v].pc # "idle" => wr'[w].put # wr'[v].put
      BY <2>2 DEF Owns
    <3> QED
      BY Zenon, <2>2, <3>1 DEF Owns
  <2> QED
    BY Zenon, <2>1, <2>2, <2>3, <2>4 DEF Owns
<1> QED
  BY Zenon, <1>1, <1>2 DEF SkipInv

\* A step that links nothing keeps the levels.
LEMMA ListKept ==
  ASSUME TypeInv, ListInv, NEW p, Grows(p),
         \A l \in Levels : Linked(l)' = Linked(l),
         \A l \in Levels : \A n \in Reach(l) : tower'[n][l] = tower[n][l]
  PROVE  ListInv'
<1>1. 0 \in Levels /\ \A l \in Levels : Reach(l)' = Reach(l)
  BY Zenon, Numbers DEF Reach
<1>2. \A m, n \in Linked(0)' : KeyOf(m)' = KeyOf(n)' => m = n
  BY <1>1, KeysStay DEF ListInv
<1>3. \A i, j \in Levels : i <= j => Linked(j)' \subseteq Linked(i)'
  BY DEF ListInv
<1>4. \A l \in Levels : \A m \in Linked(l)' : \E n \in Reach(l)' : tower'[n][l] = m
  BY <1>1 DEF ListInv
<1>5. ASSUME NEW l \in Levels, NEW n \in Reach(l)'
      PROVE  /\ tower'[n][l] # Nil => K(n)' < K(tower[n][l])'
             /\ \A m \in Linked(l)' : K(n)' < K(m)' =>
                  tower'[n][l] # Nil /\ K(tower[n][l])' <= K(m)'
  <2>1. n \in Reach(l) /\ tower'[n][l] = tower[n][l] /\ K(n)' = K(n)
    BY Zenon, <1>1, KeysStay
  <2>2. tower[n][l] # Nil => tower[n][l] \in Linked(l) /\ K(tower[n][l])' = K(tower[n][l])
    BY Zenon, <2>1, ReachNodes, KeysStay DEF Reach
  <2>3. \A m \in Linked(l) : K(m)' = K(m)
    BY Zenon, KeysStay DEF Reach
  <2> QED
    BY <2>1, <2>2, <2>3 DEF ListInv
<1> QED
  BY Zenon, <1>2, <1>3, <1>4, <1>5 DEF ListInv

-----------------------------------------------------------------------------
(* Steps of a Put that change its locals only *)

\* The list is what it was.
LEMMA SameList ==
  ASSUME TypeInv, UNCHANGED <<tower, value, puts>>, NEW p
  PROVE  /\ Grows(p) /\ Nodes' = Nodes /\ KeysIn' = KeysIn
         /\ \A l \in Levels : Linked(l)' = Linked(l) /\ Reach(l)' = Reach(l)
         /\ \A n : KeyOf(n)' = KeyOf(n) /\ K(n)' = K(n)
<1>1. Nodes' = Nodes
  BY Zenon DEF Nodes
<1>2. \A n : KeyOf(n)' = KeyOf(n) /\ K(n)' = K(n)
  BY Zenon DEF KeyOf, K
<1>3. \A l \in Levels : Linked(l)' = Linked(l)
  BY Zenon DEF Linked
<1>4. Len(puts) \in Nat
  BY DEF TypeInv
<1>5. KeysIn' = KeysIn
  BY Zenon DEF KeysIn, Linked, KeyOf
<1> QED
  BY <1>1, <1>2, <1>3, <1>4, <1>5 DEF Grows, Reach

\* Nor what the invariant says of it.
LEMMA SameListInv ==
  ASSUME TypeInv, ListInv, UNCHANGED <<tower, value, puts>>
  PROVE  ListInv'
  BY Zenon, SameList, ListKept

\* A writer that stays inside the same Put.
LEMMA LocalStep ==
  ASSUME SkipInv, NEW w \in Writers, wr[w].pc # "idle",
         UNCHANGED <<tower, value, puts, rd>>, ~wrong', ~panic',
         height' \in 1..MaxHeight,
         NEW r \in WriterRecords, Do(w, r), r.put = wr[w].put, r.pc # "idle", LocalInv(r)
  PROVE  SkipInv'
<1>1. TypeInv /\ ListInv /\ Owns(w)
  BY Zenon DEF SkipInv
<1>2. wr'[w] = r /\ wr' \in [Writers -> WriterRecords]
      /\ \A v \in Writers \ {w} : wr'[v] = wr[v]
  BY Zenon, <1>1 DEF Do, TypeInv
<1>3. TypeInv'
  BY Zenon, <1>1, <1>2, SameList DEF TypeInv
<1>4. Owns(w)' /\ r.put \in 1..Len(puts) /\ r.put \in Nat
  BY <1>1, <1>2 DEF Owns
<1>5. \A v \in Writers \ {w} : wr[v].put # wr[w].put
  BY Zenon, <1>1 DEF Owns
<1>6. Grows(wr[w].put) /\ Grows(0) /\ ListInv'
  BY Zenon, <1>1, SameList, SameListInv
<1>7. LocalInv(wr[w])'
  BY <1>1, <1>2, <1>4, <1>6, WriterKept
<1> QED
  BY Zenon, <1>2, <1>3, <1>4, <1>5, <1>6, <1>7, OneWriter

\* The node a search looks at next.
LEMMA AheadNode ==
  ASSUME SkipInv, NEW w \in Writers, wr[w].pc \in Walking
  PROVE  /\ wr[w] \in WriterRecords /\ wr[w].lvl \in Levels
         /\ wr[w].at \in Reach(wr[w].lvl) /\ K(wr[w].at) < PutKey(w)
         /\ PutKey(w) \in Keys /\ PutKey(w) \in Nat
         /\ Ahead(w) # Nil => Ahead(w) \in Linked(wr[w].lvl) /\ K(Ahead(w)) = KeyOf(Ahead(w))
         /\ Ahead(w) \in Int
<1>1. TypeInv /\ Owns(w) /\ WalkInv(wr[w]) /\ wr[w] \in WriterRecords
  BY Zenon DEF SkipInv, TypeInv, LocalInv
<1>2. wr[w].lvl \in Levels /\ wr[w].at \in Reach(wr[w].lvl) /\ K(wr[w].at) < PutKey(w)
  BY Zenon, <1>1 DEF WriterRecords, WalkInv, PutKey
<1>3. wr[w].put \in 1..Len(puts)
  BY Zenon, <1>1 DEF Owns, Walking
<1>4. PutKey(w) \in Keys /\ PutKey(w) \in Nat
  BY <1>1, <1>3, Numbers DEF PutKey, KeyOf, TypeInv
<1>5. Ahead(w) # Nil => Ahead(w) \in Linked(wr[w].lvl) /\ K(Ahead(w)) = KeyOf(Ahead(w))
                        /\ Ahead(w) \in Int
  BY <1>1, <1>2, ReachNodes, LinkedNodes DEF Ahead
<1> QED
  BY <1>1, <1>2, <1>4, <1>5 DEF Nil

\* Walk goes to a linked node that is still before the key.
LEMMA WalkStep ==
  ASSUME SkipInv, NEW w \in Writers, Walk(w)
  PROVE  SkipInv'
<1> DEFINE r == [wr[w] EXCEPT !.at = Ahead(w)]
<1>1. /\ wr[w].pc \in Walking /\ wr[w].pc # "idle" /\ Before(Ahead(w), PutKey(w)) /\ Do(w, r)
      /\ UNCHANGED <<height, tower, value, puts, rd, wrong, panic>>
  BY Zenon DEF Walk, Walking
<1>2. /\ wr[w] \in WriterRecords /\ Ahead(w) \in Int /\ Ahead(w) # Nil
      /\ Ahead(w) \in Linked(wr[w].lvl) /\ K(Ahead(w)) < PutKey(w)
  BY Zenon, <1>1, AheadNode DEF Before
<1>3. /\ r \in WriterRecords
      /\ r.put = wr[w].put /\ r.pc = wr[w].pc /\ r.lvl = wr[w].lvl /\ r.prev = wr[w].prev
      /\ r.next = wr[w].next /\ r.h = wr[w].h /\ r.at = Ahead(w)
  BY Zenon, <1>2 DEF WriterRecords
<1> HIDE DEF r
<1>4. LocalInv(wr[w])
  BY Zenon DEF SkipInv
<1>5. LocalInv(r)
  BY Zenon, <1>1, <1>2, <1>3, <1>4
     DEF LocalInv, SpliceInv, WalkInv, NodeInv, Reach, PutKey, Walking, Linking
<1> QED
  BY Zenon, <1>1, <1>3, <1>5, LocalStep DEF SkipInv, TypeInv

\* The key found at the end of a walk is behind the key of the Put.
LEMMA SpliceStep ==
  ASSUME SkipInv, NEW w \in Writers, Splice(w)
  PROVE  SkipInv'
<1> DEFINE q == wr[w]
           s == [q EXCEPT !.prev[q.lvl] = q.at, !.next[q.lvl] = Ahead(w)]
           r == IF q.pc # "search" THEN [s EXCEPT !.pc = "link"]
                ELSE IF q.lvl > 0  THEN [s EXCEPT !.lvl = q.lvl - 1]
                ELSE [s EXCEPT !.pc = "alloc"]
<1>1. /\ q.pc \in Walking /\ q.pc # "idle" /\ Do(w, r)
      /\ ~Before(Ahead(w), PutKey(w)) /\ ~Matches(Ahead(w), PutKey(w))
      /\ UNCHANGED <<height, tower, value, puts, rd, wrong, panic>>
  BY Zenon DEF Splice, Walking
<1>2. /\ q \in WriterRecords /\ q.lvl \in Levels /\ q.lvl \in 0..MaxHeight
      /\ q.at \in Reach(q.lvl) /\ K(q.at) < KeyOf(q.put) /\ q.at \in Int /\ q.at # Nil
      /\ Ahead(w) \in Int
      /\ Ahead(w) # Nil => Ahead(w) \in Linked(q.lvl) /\ KeyOf(q.put) < K(Ahead(w))
  <2>1. /\ q \in WriterRecords /\ q.lvl \in Levels /\ q.lvl \in 0..MaxHeight
        /\ q.at \in Reach(q.lvl) /\ K(q.at) < KeyOf(q.put) /\ Ahead(w) \in Int
    BY <1>1, AheadNode, Numbers DEF PutKey, Levels
  <2>2. q.at \in Int /\ q.at # Nil
    BY Zenon, <2>1, ReachNodes DEF SkipInv
  <2>3. ASSUME Ahead(w) # Nil PROVE Ahead(w) \in Linked(q.lvl) /\ KeyOf(q.put) < K(Ahead(w))
    <3>1. Ahead(w) \in Linked(q.lvl) /\ K(Ahead(w)) = KeyOf(Ahead(w)) /\ KeyOf(q.put) \in Nat
      BY Zenon, <1>1, <2>3, AheadNode DEF PutKey
    <3>2. K(Ahead(w)) \in Nat
      BY Zenon, <2>1, <3>1, LinkedNodes DEF SkipInv
    <3> QED
      BY <1>1, <2>3, <3>1, <3>2 DEF Before, Matches, PutKey
  <2> QED
    BY Zenon, <2>1, <2>2, <2>3
<1>3. LocalInv(q) /\ SpliceInv(q) /\ WalkInv(q) /\ NodeInv(q)
  BY Zenon DEF SkipInv, LocalInv
<1>4. /\ s \in WriterRecords /\ s.put = q.put /\ s.pc = q.pc /\ s.lvl = q.lvl /\ s.h = q.h
      /\ s.prev[q.lvl] = q.at /\ s.next[q.lvl] = Ahead(w)
      /\ \A l \in Levels : l # q.lvl => s.prev[l] = q.prev[l] /\ s.next[l] = q.next[l]
  <2>1. /\ s.prev = [q.prev EXCEPT ![q.lvl] = q.at] /\ s.next = [q.next EXCEPT ![q.lvl] = Ahead(w)]
        /\ s.put = q.put /\ s.pc = q.pc /\ s.lvl = q.lvl /\ s.h = q.h
    BY Zenon, <1>2 DEF WriterRecords
  <2>2. q.prev \in [0..MaxHeight -> Int] /\ q.next \in [0..MaxHeight -> Int]
    BY Zenon, <1>2 DEF WriterRecords
  <2>3. s \in WriterRecords
    BY Zenon, <1>2, <2>2 DEF WriterRecords
  <2>4. Levels \subseteq 0..MaxHeight
    BY Numbers DEF Levels
  <2> HIDE DEF s
  <2> QED
    BY Zenon, <1>2, <2>1, <2>2, <2>3, <2>4
<1>5. SpliceInv(s)
  BY Zenon, <1>2, <1>3, <1>4 DEF SpliceInv
<1> HIDE DEF s
<1>6. CASE q.pc # "search"
  <2>1. q.pc \in {"fill", "retry"} /\ r = [s EXCEPT !.pc = "link"]
    BY Zenon, <1>1, <1>6 DEF Walking
  <2>2. /\ r \in WriterRecords /\ r.put = q.put /\ r.pc = "link" /\ r.lvl = q.lvl /\ r.h = q.h
        /\ r.prev = s.prev /\ r.next = s.next
    BY Zenon, <1>4, <2>1 DEF WriterRecords, Linking
  <2> HIDE DEF r
  <2>3. SpliceInv(r)
    BY Zenon, <1>4, <1>5, <2>1, <2>2 DEF SpliceInv
  <2>4. WalkInv(r)
    BY Zenon, <1>2, <1>4, <2>2 DEF WalkInv, Walking
  <2>5. NodeInv(r)
    BY Zenon, <1>3, <2>1, <2>2 DEF NodeInv, Linking
  <2> QED
    BY Zenon, <1>1, <2>2, <2>3, <2>4, <2>5, LocalStep DEF SkipInv, TypeInv, LocalInv
<1>7. CASE q.pc = "search" /\ q.lvl > 0
  <2>1. r = [s EXCEPT !.lvl = q.lvl - 1]
    BY Zenon, <1>7
  <2>2. q.lvl - 1 \in Levels /\ q.lvl - 1 <= q.lvl
    BY <1>2, <1>7, Numbers DEF Levels
  <2>3. /\ r \in WriterRecords /\ r.put = q.put /\ r.pc = "search" /\ r.lvl = q.lvl - 1
        /\ r.h = q.h /\ r.prev = s.prev /\ r.next = s.next /\ r.at = s.at /\ s.at = q.at
    BY Zenon, <1>2, <1>4, <1>7, <2>1, <2>2 DEF WriterRecords, s
  <2> HIDE DEF r
  <2>4. SpliceInv(r)
    BY Zenon, <1>4, <1>5, <1>7, <2>3 DEF SpliceInv
  <2>5. r.at \in Reach(r.lvl)
    BY Zenon, <1>2, <2>2, <2>3 DEF SkipInv, ListInv, Reach
  <2>6. WalkInv(r)
    BY Zenon, <1>2, <2>3, <2>5 DEF WalkInv
  <2>7. NodeInv(r)
    BY Zenon, <1>3, <1>7, <2>3 DEF NodeInv, Linking
  <2> QED
    BY Zenon, <1>1, <2>3, <2>4, <2>6, <2>7, LocalStep DEF SkipInv, TypeInv, LocalInv
<1>8. CASE q.pc = "search" /\ ~(q.lvl > 0)
  <2>1. r = [s EXCEPT !.pc = "alloc"] /\ q.lvl = 0
    BY <1>2, <1>8, Numbers
  <2>2. /\ r \in WriterRecords /\ r.put = q.put /\ r.pc = "alloc" /\ r.lvl = 0 /\ r.h = q.h
        /\ r.prev = s.prev /\ r.next = s.next
    BY Zenon, <1>4, <2>1 DEF WriterRecords
  <2> HIDE DEF r
  <2>3. SpliceInv(r)
    BY Zenon, <1>4, <1>5, <1>8, <2>2 DEF SpliceInv
  <2>4. WalkInv(r)
    BY Zenon, <1>2, <1>4, <2>1, <2>2 DEF WalkInv, Walking
  <2>5. NodeInv(r)
    BY Zenon, <1>3, <1>8, <2>2 DEF NodeInv, Linking
  <2> QED
    BY Zenon, <1>1, <2>2, <2>3, <2>4, <2>5, LocalStep DEF SkipInv, TypeInv, LocalInv
<1> QED
  BY Zenon, <1>6, <1>7, <1>8

\* Only a search and a retry at the base level can meet the key: above it the node
\* with the key is the Put's own, which is not linked there yet.
LEMMA SpliceEqualStep ==
  ASSUME SkipInv, NEW w \in Writers, SpliceEqual(w)
  PROVE  SkipInv'
<1> DEFINE q == wr[w]
           r == [q EXCEPT !.pc = "set", !.at = Ahead(w)]
<1>1. /\ q.pc \in Walking /\ q.pc # "idle" /\ Do(w, r) /\ Matches(Ahead(w), PutKey(w))
      /\ UNCHANGED <<height, tower, value, puts, rd, wrong>>
      /\ panic' = (panic \/ q.pc = "fill" \/ (q.pc = "retry" /\ q.lvl # 0))
  BY Zenon DEF SpliceEqual, Walking
<1>2. /\ q \in WriterRecords /\ q.lvl \in Levels /\ 0 \in Levels /\ q.lvl \in Nat
      /\ Ahead(w) \in Int
      /\ Ahead(w) \in Linked(q.lvl) /\ KeyOf(Ahead(w)) = KeyOf(q.put)
  BY Zenon, <1>1, AheadNode, Numbers DEF PutKey, Matches
<1>3. Ahead(w) \in Linked(0)
  BY <1>2 DEF SkipInv, ListInv
<1>4. TypeInv /\ ListInv /\ LocalInv(q) /\ SpliceInv(q) /\ WalkInv(q) /\ NodeInv(q)
  BY Zenon DEF SkipInv, LocalInv
<1>5. ASSUME q.pc \in {"fill", "retry"}, q.lvl # 0 PROVE FALSE
  <2>1. q.put \in Linked(0) /\ q.put \notin Linked(q.lvl)
    BY SMTT(30), <1>2, <1>4, <1>5 DEF NodeInv, Linking
  <2>2. q.put = Ahead(w)
    BY Zenon, <1>2, <1>3, <1>4, <2>1 DEF ListInv
  <2> QED
    BY Zenon, <1>2, <2>1, <2>2
<1>6. ~panic' /\ q.put \notin Linked(0)
  <2>1. CASE q.pc = "search"
    <3>1. q.put \notin Linked(0)
      BY Zenon, <1>2, <1>4, <2>1, LinkedNodes DEF NodeInv
    <3> QED
      BY Zenon, <1>1, <2>1, <3>1 DEF SkipInv
  <2>2. CASE q.pc = "fill"
    BY <1>4, <1>5, <2>2 DEF WalkInv
  <2>3. CASE q.pc = "retry"
    <3>1. q.lvl = 0
      BY Zenon, <1>5, <2>3
    <3>2. q.put \notin Linked(0)
      BY <1>2, <1>4, <2>3, <3>1 DEF NodeInv, Linking
    <3> QED
      BY Zenon, <1>1, <2>3, <3>1, <3>2 DEF SkipInv
  <2> QED
    BY Zenon, <1>1, <2>1, <2>2, <2>3 DEF Walking
<1>7. /\ r \in WriterRecords /\ r.put = q.put /\ r.pc = "set" /\ r.at = Ahead(w)
      /\ r.prev = q.prev /\ r.next = q.next
  BY Zenon, <1>2 DEF WriterRecords
<1> HIDE DEF r
<1>8. LocalInv(r)
  BY Zenon, <1>1, <1>2, <1>3, <1>4, <1>6, <1>7
     DEF LocalInv, SpliceInv, WalkInv, NodeInv, Walking, Linking
<1> QED
  BY Zenon, <1>1, <1>6, <1>7, <1>8, LocalStep DEF SkipInv, TypeInv

\* LinkAt goes on with the splice of a level, or from the head if it has none.
LEMMA LinkAtRecord ==
  ASSUME NEW q \in WriterRecords, NEW l \in Levels
  PROVE  /\ LinkAt(q, l) \in WriterRecords
         /\ LinkAt(q, l).put = q.put /\ LinkAt(q, l).lvl = l /\ LinkAt(q, l).h = q.h
         /\ LinkAt(q, l).prev = q.prev /\ LinkAt(q, l).next = q.next
         /\ \/ LinkAt(q, l).pc = "link" /\ q.prev[l] # Nil
            \/ LinkAt(q, l).pc = "fill" /\ q.prev[l] = Nil /\ LinkAt(q, l).at = HeadNode
<1>1. CASE q.prev[l] # Nil
  <2>1. LinkAt(q, l) = [q EXCEPT !.pc = "link", !.lvl = l]
    BY Zenon, <1>1 DEF LinkAt
  <2> QED
    BY Zenon, <1>1, <2>1 DEF WriterRecords, Linking
<1>2. CASE q.prev[l] = Nil
  <2>1. LinkAt(q, l) = [q EXCEPT !.pc = "fill", !.lvl = l, !.at = HeadNode] /\ HeadNode \in Int
    BY <1>2 DEF LinkAt, HeadNode
  <2> QED
    BY Zenon, <1>2, <2>1 DEF WriterRecords, Linking
<1> QED
  BY Zenon, <1>1, <1>2

\* Where it goes on.
LEMMA LinkAtLevel ==
  ASSUME NEW q \in WriterRecords, NEW l \in Levels
  PROVE  \/ LinkAt(q, l).pc = "link" /\ q.prev[l] # Nil
         \/ LinkAt(q, l).pc = "fill" /\ LinkAt(q, l).at = HeadNode
BY LinkAtRecord

\* The height is settled: the node is linked at the base level first.
LEMMA FirstLink ==
  ASSUME NEW q \in WriterRecords, q.pc # "idle", SpliceInv(q), q.prev[0] # Nil,
         q.put \in Nodes, value[q.put] = q.put, q.h \in 1..MaxHeight,
         \A l \in Levels : q.put \notin Linked(l)
  PROVE  /\ LinkAt(q, 0) \in WriterRecords /\ LinkAt(q, 0).put = q.put
         /\ LinkAt(q, 0).pc # "idle" /\ LocalInv(LinkAt(q, 0))
<1> DEFINE r == LinkAt(q, 0)
<1>1. /\ r \in WriterRecords /\ r.put = q.put /\ r.lvl = 0 /\ r.h = q.h /\ r.pc = "link"
      /\ r.prev = q.prev /\ r.next = q.next
  BY Zenon, LinkAtRecord, Numbers
<1> HIDE DEF r
<1>2. SpliceInv(r)
  BY Zenon, <1>1 DEF SpliceInv
<1>3. WalkInv(r)
  BY Zenon, <1>1 DEF WalkInv, Walking
<1>4. NodeInv(r)
  BY <1>1, Numbers DEF NodeInv, Linking
<1> QED
  BY Zenon, <1>1, <1>2, <1>3, <1>4 DEF LocalInv, r

\* The compare-and-swap of the height.
LEMMA RaiseStep ==
  ASSUME SkipInv, NEW w \in Writers, Raise(w)
  PROVE  SkipInv'
<1> DEFINE q == wr[w]
           won == height = q.list
           r == IF won THEN LinkAt(q, 0) ELSE [q EXCEPT !.pc = "reload"]
<1>1. /\ q.pc = "raise" /\ q.pc # "idle" /\ Do(w, r)
      /\ height' = IF won THEN q.h ELSE height
      /\ UNCHANGED <<tower, value, puts, rd, wrong, panic>>
  BY Zenon DEF Raise
<1>2. TypeInv /\ q \in WriterRecords /\ SpliceInv(q) /\ WalkInv(q) /\ NodeInv(q)
  BY Zenon DEF SkipInv, LocalInv, TypeInv
<1>3. /\ q.lvl = 0 /\ q.prev[0] # Nil /\ q.put \in Nodes /\ value[q.put] = q.put
      /\ q.h \in 1..MaxHeight /\ \A l \in Levels : q.put \notin Linked(l)
  BY <1>1, <1>2, Numbers DEF WalkInv, NodeInv, Linking
<1>4. height' \in 1..MaxHeight
  BY Zenon, <1>1, <1>2, <1>3 DEF TypeInv
<1>5. CASE won
  BY Zenon, <1>1, <1>2, <1>3, <1>4, <1>5, FirstLink, LocalStep DEF SkipInv
<1>6. CASE ~won
  <2>1. /\ r \in WriterRecords /\ r.put = q.put /\ r.pc = "reload" /\ r.lvl = q.lvl
        /\ r.h = q.h /\ r.prev = q.prev /\ r.next = q.next
    BY Zenon, <1>2, <1>6 DEF WriterRecords, Linking
  <2> HIDE DEF r
  <2>2. LocalInv(r)
    BY Zenon, <1>1, <1>2, <2>1 DEF LocalInv, SpliceInv, WalkInv, NodeInv, Walking, Linking
  <2> QED
    BY Zenon, <1>1, <1>4, <2>1, <2>2, LocalStep DEF SkipInv
<1> QED
  BY Zenon, <1>5, <1>6

\* Another Put raised the height.
LEMMA ReloadStep ==
  ASSUME SkipInv, NEW w \in Writers, Reload(w)
  PROVE  SkipInv'
<1> DEFINE p == wr[w]
           q == [wr[w] EXCEPT !.list = height]
           r == IF q.h > height THEN [q EXCEPT !.pc = "raise"] ELSE LinkAt(q, 0)
<1>1. TypeInv /\ p \in WriterRecords /\ SpliceInv(p) /\ WalkInv(p) /\ NodeInv(p)
  BY Zenon DEF SkipInv, LocalInv, TypeInv
<1>2. /\ q \in WriterRecords /\ q.put = p.put /\ q.pc = p.pc /\ q.lvl = p.lvl
      /\ q.h = p.h /\ q.prev = p.prev /\ q.next = p.next
  <2>1. height \in Nat
    BY <1>1, Numbers DEF TypeInv
  <2> QED
    BY Zenon, <1>1, <2>1 DEF WriterRecords
<1>3. /\ p.pc = "reload" /\ Do(w, r) /\ height' \in 1..MaxHeight
      /\ UNCHANGED <<tower, value, puts, rd, wrong, panic>>
  BY Zenon, <1>1, <1>2 DEF Reload, TypeInv
<1>4. /\ q.lvl = 0 /\ q.prev[0] # Nil /\ q.put \in Nodes /\ value[q.put] = q.put
      /\ q.h \in 1..MaxHeight /\ \A l \in Levels : q.put \notin Linked(l)
  BY <1>1, <1>2, <1>3, Numbers DEF WalkInv, NodeInv, Linking
<1>5. SpliceInv(q)
  BY Zenon, <1>1, <1>2 DEF SpliceInv
<1> HIDE DEF q
<1>6. CASE q.h > height
  <2>1. /\ r \in WriterRecords /\ r.put = p.put /\ r.pc = "raise" /\ r.lvl = 0
        /\ r.h = p.h /\ r.prev = p.prev /\ r.next = p.next
    BY Zenon, <1>2, <1>4, <1>6 DEF WriterRecords, Linking
  <2> HIDE DEF r
  <2>2. LocalInv(r)
    BY Zenon, <1>1, <1>2, <1>3, <1>4, <2>1 DEF LocalInv, SpliceInv, WalkInv, NodeInv, Walking, Linking
  <2> QED
    BY Zenon, <1>3, <2>1, <2>2, LocalStep DEF SkipInv
<1>7. CASE ~(q.h > height)
  BY Zenon, <1>2, <1>3, <1>4, <1>5, <1>7, FirstLink, LocalStep DEF SkipInv
<1> QED
  BY Zenon, <1>6, <1>7

-----------------------------------------------------------------------------
(* The other steps of a Put *)

\* IdleWriter is what a Put leaves behind.
LEMMA IdleLocals ==
  /\ IdleWriter \in WriterRecords /\ IdleWriter.pc = "idle" /\ IdleWriter.put = 0
  /\ LocalInv(IdleWriter)
<1>1. IdleWriter \in WriterRecords /\ IdleWriter.pc = "idle" /\ IdleWriter.put = 0
  BY Numbers DEF IdleWriter, WriterRecords, NoSplice, Nil, HeadNode
<1> QED
  BY Zenon, <1>1 DEF LocalInv, SpliceInv, WalkInv, NodeInv, Walking, Linking

\* A Put starts with a number nobody has and a splice that holds the head only.
LEMMA PutStartStep ==
  ASSUME SkipInv, NEW w \in Writers, NEW k \in Keys, Put(w, k)
  PROVE  SkipInv'
<1> PICK n \in Int : n = Len(puts) + 1
  BY DEF SkipInv, TypeInv
<1> DEFINE r == [IdleWriter EXCEPT !.pc = "search", !.put = Len(puts'), !.list = height,
                                  !.lvl = height - 1, !.prev[height] = HeadNode]
<1>1. /\ wr[w].pc = "idle" /\ puts' = Append(puts, k) /\ Do(w, r)
      /\ UNCHANGED <<height, tower, value, rd, wrong, panic>>
  BY Zenon DEF Put
<1>2. TypeInv /\ ListInv /\ \A v \in Writers : Owns(v)
  BY Zenon DEF SkipInv
<1>3. /\ puts' \in Seq(Keys) /\ Len(puts) \in Nat /\ Len(puts') = n /\ KeyOf(n)' = k
      /\ \A i \in 1..Len(puts) : puts'[i] = puts[i]
  <2>1. puts \in Seq(Keys) /\ Len(puts) \in Nat
    BY <1>2 DEF TypeInv
  <2> QED
    BY <1>1, <2>1 DEF KeyOf
<1>4. Nodes' = Nodes /\ n \notin Nodes /\ \A l \in Levels : Linked(l)' = Linked(l)
  BY <1>1, <1>2, <1>3 DEF Nodes, Linked, TypeInv
<1>5. Grows(n)
  BY <1>1, <1>3, <1>4 DEF Grows
<1>6. ListInv'
  BY Zenon, <1>1, <1>2, <1>4, <1>5, ListKept
<1>7. /\ r \in WriterRecords /\ r.pc = "search" /\ r.put = n /\ r.lvl = height - 1
      /\ r.at = HeadNode /\ r.prev = [NoSplice EXCEPT ![height] = HeadNode]
      /\ r.next = NoSplice
  <2>1. height \in 1..MaxHeight /\ height - 1 \in Levels /\ height \in 0..MaxHeight
    BY <1>2, Numbers DEF TypeInv, Levels
  <2>2. NoSplice \in [0..MaxHeight -> Int] /\ HeadNode \in Int
    BY DEF NoSplice, Nil, HeadNode
  <2>3. /\ r.pc = "search" /\ r.put = n /\ r.lvl = height - 1 /\ r.at = HeadNode
        /\ r.prev = [NoSplice EXCEPT ![height] = HeadNode] /\ r.next = NoSplice
    BY Zenon, <1>3 DEF IdleWriter
  <2>4. n \in Nat /\ height \in Nat
    BY <1>3, <2>1
  <2>5. r \in WriterRecords
    BY Zenon, <1>3, <2>1, <2>2, <2>4 DEF IdleWriter, WriterRecords, Walking
  <2> HIDE DEF r
  <2> QED
    BY Zenon, <2>3, <2>5
<1>8. \A l \in Levels : r.next[l] = Nil /\ r.prev[l] \in {Nil, HeadNode}
  <2>1. Levels \subseteq 0..MaxHeight
    BY Numbers DEF Levels
  <2> HIDE DEF r
  <2> QED
    BY Zenon, <1>7, <2>1 DEF NoSplice
<1> HIDE DEF r
<1>9. wr'[w] = r /\ wr' \in [Writers -> WriterRecords]
      /\ \A v \in Writers \ {w} : wr'[v] = wr[v] /\ wr[v].put # n
  BY <1>1, <1>2, <1>3, <1>7 DEF Do, TypeInv, Owns
<1>10. TypeInv'
  BY <1>1, <1>2, <1>3, <1>4, <1>9 DEF TypeInv
<1>11. Owns(w)'
  BY <1>3, <1>7, <1>9 DEF Owns
<1>12. K(HeadNode)' < KeyOf(n)' /\ \A l \in Levels : HeadNode \in Reach(l)'
  BY Zenon, <1>3, Numbers DEF K, Reach
<1>13. LocalInv(wr[w])'
  <2>1. SpliceInv(wr[w])'
    BY Zenon, <1>7, <1>8, <1>9, <1>12 DEF SpliceInv
  <2>2. WalkInv(wr[w])'
    BY Zenon, <1>7, <1>9, <1>12 DEF WalkInv, WriterRecords
  <2>3. NodeInv(wr[w])'
    BY Zenon, <1>4, <1>7, <1>9 DEF NodeInv, Linking
  <2> QED
    BY Zenon, <2>1, <2>2, <2>3 DEF LocalInv
<1> QED
  BY Zenon, <1>1, <1>5, <1>6, <1>9, <1>10, <1>11, <1>13, OneWriter DEF SkipInv

\* setValue overwrites the value of a linked node.
LEMMA SetValueStep ==
  ASSUME SkipInv, NEW w \in Writers, SetValue(w)
  PROVE  SkipInv'
<1> DEFINE q == wr[w]
<1>1. /\ q.pc = "set" /\ q.pc # "idle" /\ value' = [value EXCEPT ![q.at] = q.put]
      /\ Do(w, IdleWriter)
      /\ UNCHANGED <<height, tower, puts, rd, wrong, panic>>
  BY Zenon DEF SetValue
<1>2. TypeInv /\ ListInv /\ Owns(w) /\ q \in WriterRecords /\ NodeInv(q)
  BY Zenon DEF SkipInv, TypeInv, LocalInv
<1>3. q.at \in Linked(0) /\ q.put \in Nat
  BY Zenon, <1>1, <1>2 DEF NodeInv, WriterRecords
<1>4. Nodes' = Nodes /\ \A l \in Levels : Linked(l)' = Linked(l) /\ Reach(l)' = Reach(l)
  BY Zenon, <1>1 DEF Nodes, Linked, Reach
<1>5. Grows(q.put)
  BY <1>1, <1>2, <1>3, <1>4 DEF Grows, TypeInv
<1>6. ListInv'
  BY Zenon, <1>1, <1>2, <1>4, <1>5, ListKept
<1>7. wr'[w] = IdleWriter /\ wr' \in [Writers -> WriterRecords]
      /\ \A v \in Writers \ {w} : wr'[v] = wr[v] /\ wr[v].put # q.put
  BY Zenon, <1>1, <1>2, IdleLocals DEF Do, TypeInv, Owns
<1>8. TypeInv'
  BY Zenon, <1>1, <1>2, <1>3, <1>4, <1>7 DEF TypeInv
<1>9. Owns(w)' /\ LocalInv(wr[w])'
  BY Zenon, <1>7, IdleLocals DEF Owns, LocalInv, SpliceInv, WalkInv, NodeInv, Walking, Linking
<1> QED
  BY Zenon, <1>1, <1>5, <1>6, <1>7, <1>8, <1>9, OneWriter DEF SkipInv

\* newNode: the node has no pointers and nothing leads to it.
LEMMA NewNodeStep ==
  ASSUME SkipInv, NEW w \in Writers, NEW h \in 1..MaxHeight, NewNode(w, h)
  PROVE  SkipInv' /\ Grows(wr[w].put) /\ Linked(0)' = Linked(0)
<1> DEFINE q == wr[w]
           s == [q EXCEPT !.h = h, !.list = height]
           r == IF h > height THEN [s EXCEPT !.pc = "raise"] ELSE LinkAt(s, 0)
<1>1. TypeInv /\ ListInv /\ Owns(w) /\ q \in WriterRecords
      /\ SpliceInv(q) /\ WalkInv(q) /\ NodeInv(q)
  BY Zenon DEF SkipInv, LocalInv, TypeInv
<1>2. /\ s \in WriterRecords /\ s.put = q.put /\ s.pc = q.pc /\ s.lvl = q.lvl /\ s.h = h
      /\ s.prev = q.prev /\ s.next = q.next
  <2>1. height \in Nat /\ h \in Nat
    BY <1>1, Numbers DEF TypeInv
  <2> QED
    BY Zenon, <1>1, <2>1 DEF WriterRecords
<1>3. /\ q.pc = "alloc" /\ q.pc # "idle" /\ Do(w, r)
      /\ tower' = [n \in Nodes \cup {q.put} |-> IF n = q.put THEN NoTower ELSE tower[n]]
      /\ value' = [n \in DOMAIN value \cup {q.put} |-> IF n = q.put THEN q.put ELSE value[n]]
      /\ panic' = (panic \/ q.prev[0] = Nil)
      /\ UNCHANGED <<height, puts, rd, wrong>>
  BY Zenon, <1>2 DEF NewNode, Nodes
<1> HIDE DEF s
<1>4. q.put \notin Nodes /\ q.put \in 1..Len(puts) /\ q.lvl = 0 /\ q.prev[0] # Nil
  BY Zenon, <1>1, <1>3 DEF NodeInv, Owns, WalkInv
<1> PICK u \in Nat : u = q.put
  BY Zenon, <1>1 DEF WriterRecords
<1>5. /\ Nodes' = Nodes \cup {u} /\ u \notin Nodes /\ u # HeadNode
      /\ tower'[u] = NoTower /\ value'[u] = u
      /\ \A n \in Nodes : tower'[n] = tower[n] /\ value'[n] = value[n]
  <2>1. DOMAIN value = Nodes
    BY Zenon, <1>1 DEF TypeInv
  <2> QED
    BY <1>3, <1>4, <2>1 DEF Nodes, HeadNode
<1>6. \A l \in Levels : Linked(l)' = Linked(l)
  <2> SUFFICES ASSUME NEW l \in Levels PROVE Linked(l)' = Linked(l)
    BY Zenon
  <2>1. NoTower[l] = Nil
    BY Zenon DEF NoTower
  <2> QED
    BY <1>5, <2>1 DEF Linked, Nodes
<1>7. Grows(u)
  BY <1>1, <1>3, <1>5, <1>6 DEF Grows, TypeInv
<1>8. \A l \in Levels : \A n \in Reach(l) : n \in Nodes
  BY Zenon, <1>1, ReachNodes
<1>9. ListInv'
  <2>1. \A l \in Levels : \A n \in Reach(l) : tower'[n][l] = tower[n][l]
    BY Zenon, <1>5, <1>8
  <2> QED
    BY Zenon, <1>1, <1>6, <1>7, <2>1, ListKept
<1>10. /\ r \in WriterRecords /\ r.put = q.put /\ r.lvl = 0 /\ r.h = h
       /\ r.prev = q.prev /\ r.next = q.next /\ r.pc \in {"raise", "link"}
  <2>1. CASE h > height
    BY Zenon, <1>2, <1>4, <2>1 DEF WriterRecords, Linking
  <2>2. CASE ~(h > height)
    BY <1>2, <1>4, <2>2, LinkAtRecord, Numbers
  <2> QED
    BY Zenon, <2>1, <2>2
<1> HIDE DEF r
<1>11. wr'[w] = r /\ wr' \in [Writers -> WriterRecords]
       /\ \A v \in Writers \ {w} : wr'[v] = wr[v] /\ wr[v].put # u
  BY Zenon, <1>1, <1>3, <1>10 DEF Do, TypeInv, Owns
<1>12. TypeInv'
  <2>1. tower' \in [Nodes' -> [Levels -> (Nodes' \ {HeadNode}) \cup {Nil}]]
    <3>1. tower' = [n \in Nodes' |-> tower'[n]]
      BY Zenon, <1>3, <1>5
    <3>2. ASSUME NEW n \in Nodes' PROVE tower'[n] \in [Levels -> (Nodes' \ {HeadNode}) \cup {Nil}]
      BY <1>1, <1>5 DEF TypeInv, NoTower
    <3> QED
      BY Zenon, <3>1, <3>2
  <2>2. value' \in [Nodes' -> Nat]
    <3>1. value' = [n \in Nodes' |-> value'[n]]
      BY Zenon, <1>1, <1>3, <1>5 DEF TypeInv
    <3> QED
      BY Zenon, <1>1, <1>5, <3>1 DEF TypeInv
  <2>3. HeadNode \in Nodes' /\ Nodes' \subseteq 0..Len(puts')
    BY <1>1, <1>3, <1>4, <1>5 DEF TypeInv
  <2> QED
    BY Zenon, <1>1, <1>3, <1>11, <2>1, <2>2, <2>3 DEF TypeInv
<1>13. Owns(w)'
  BY Zenon, <1>1, <1>3, <1>4, <1>10, <1>11 DEF Owns
<1>14. \A n : KeyOf(n)' = KeyOf(n) /\ K(n)' = K(n)
  BY Zenon, <1>3 DEF KeyOf, K
<1>15. SpliceInv(wr[w])'
  BY Zenon, <1>1, <1>3, <1>6, <1>10, <1>11, <1>14 DEF SpliceInv, Reach
<1>16. WalkInv(wr[w])'
  BY Zenon, <1>4, <1>10, <1>11 DEF WalkInv, Walking
<1>17. NodeInv(wr[w])'
  <2>1. \A l \in Levels : u \notin Linked(l)'
    BY Zenon, <1>1, <1>5, <1>6, LinkedNodes
  <2>2. /\ wr'[w].pc \in {"raise", "link"} /\ wr'[w].put = u /\ wr'[w].lvl = 0 /\ wr'[w].h = h
        /\ u \in Nodes' /\ value'[u] = u /\ 0 < h
    BY <1>5, <1>10, <1>11
  <2>3. \A l \in Levels : ~(l < 0)
    BY Numbers
  <2> QED
    BY Zenon, <2>1, <2>2, <2>3 DEF NodeInv
<1>18. ~panic'
  BY Zenon, <1>3, <1>4 DEF SkipInv
<1>19. ~wrong' /\ rd' = rd
  BY Zenon, <1>3 DEF SkipInv
<1>20. SkipInv'
  BY Zenon, <1>7, <1>9, <1>11, <1>12, <1>13, <1>15, <1>16, <1>17, <1>18, <1>19, OneWriter DEF LocalInv
<1> QED
  BY Zenon, <1>6, <1>7, <1>20, Numbers

-----------------------------------------------------------------------------
(* The compare-and-swap *)

\* A level whose pointers stay links the same nodes.
LEMMA SameLevel ==
  ASSUME NEW j, Nodes' = Nodes, \A m \in Nodes : tower'[m][j] = tower[m][j]
  PROVE  Linked(j)' = Linked(j)
  BY Zenon DEF Linked, Nodes

\* The store into the node's own tower links nothing.
LEMMA StoreOnly ==
  ASSUME TypeInv, ListInv, NEW l \in Levels, NEW u \in Nodes \ Reach(l),
         NEW n \in Linked(l) \cup {Nil},
         puts' = puts, value' = value, tower' = [tower EXCEPT ![u][l] = n]
  PROVE  /\ Nodes' = Nodes /\ \A j \in Levels : Linked(j)' = Linked(j)
         /\ tower' \in [Nodes -> [Levels -> (Nodes \ {HeadNode}) \cup {Nil}]]
         /\ Grows(u) /\ ListInv'
<1>1. n \in (Nodes \ {HeadNode}) \cup {Nil}
  BY Zenon, LinkedNodes
<1>2. /\ Nodes' = Nodes /\ tower' \in [Nodes -> [Levels -> (Nodes \ {HeadNode}) \cup {Nil}]]
      /\ tower'[u][l] = n
      /\ \A m \in Nodes, j \in Levels : m # u \/ j # l => tower'[m][j] = tower[m][j]
  BY Zenon, <1>1 DEF TypeInv, Nodes
<1>3. \A j \in Levels : \A m \in Reach(j) : m \in Nodes
  BY Zenon, ReachNodes
<1>4. ASSUME NEW j \in Levels PROVE Linked(j)' = Linked(j)
  <2>1. CASE j # l
    <3>1. \A m \in Nodes : tower'[m][j] = tower[m][j]
      BY Zenon, <1>2, <2>1
    <3> QED
      BY <1>2, <3>1, SameLevel, Zenon
  <2>2. CASE j = l
    <3>1. ASSUME NEW m \in Linked(l) PROVE m \in Linked(l)'
      <4>1. PICK x \in Reach(l) : tower[x][l] = m
        BY Zenon DEF ListInv
      <4>2. x \in Nodes' /\ tower'[x][l] = m /\ m # Nil
        BY Zenon, <1>2, <1>3, <4>1 DEF Linked
      <4> QED
        BY Zenon, <4>2 DEF Linked, Nodes
    <3>2. ASSUME NEW m \in Linked(l)' PROVE m \in Linked(l)
      BY <1>2 DEF Linked, Nodes
    <3>3. Linked(l)' = Linked(l)
      BY Zenon, <3>1, <3>2
    <3> QED
      BY <2>2, <3>3 DEF Linked
  <2> QED
    BY Zenon, <2>1, <2>2
<1>5. Grows(u)
  BY <1>2, <1>4 DEF Grows, TypeInv
<1>6. \A j \in Levels : \A m \in Reach(j) : tower'[m][j] = tower[m][j]
  BY Zenon, <1>2, <1>3
<1>7. ListInv'
  BY Zenon, <1>4, <1>5, <1>6, ListKept
<1> QED
  BY Zenon, <1>2, <1>4, <1>5, <1>7

\* The node u is between p and n at level l, and nothing else changed.
Inserted(l, p, u, n) ==
  /\ Nodes' = Nodes
  /\ \A j \in Levels : Linked(j)' = IF j = l THEN Linked(l) \cup {u} ELSE Linked(j)
  /\ tower' \in [Nodes -> [Levels -> (Nodes \ {HeadNode}) \cup {Nil}]]
  /\ tower'[u][l] = n /\ tower'[p][l] = u
  /\ \A m \in Nodes, j \in Levels : (m # u /\ m # p) \/ j # l => tower'[m][j] = tower[m][j]
  /\ Grows(u)

\* The store and the compare-and-swap put the node u between p and n.
LEMMA Inserts ==
  ASSUME TypeInv, ListInv, NEW l \in Levels, NEW p \in Reach(l), NEW u \in Nodes \ Reach(l),
         NEW n \in Linked(l) \cup {Nil}, tower[p][l] = n,
         puts' = puts, value' = value,
         tower' = [tower EXCEPT ![u][l] = n, ![p][l] = u]
  PROVE  Inserted(l, p, u, n)
<1>1. /\ n \in (Nodes \ {HeadNode}) \cup {Nil} /\ p \in Nodes /\ u # HeadNode /\ p # u
      /\ u # Nil
  <2>1. n \in (Nodes \ {HeadNode}) \cup {Nil}
    BY Zenon, LinkedNodes
  <2>2. p \in Nodes /\ u # HeadNode /\ p # u
    BY Zenon, ReachNodes DEF Reach
  <2>3. u # Nil
    BY DEF TypeInv, Nil
  <2> QED
    BY Zenon, <2>1, <2>2, <2>3
<1>2. /\ Nodes' = Nodes /\ tower' \in [Nodes -> [Levels -> (Nodes \ {HeadNode}) \cup {Nil}]]
      /\ tower'[u][l] = n /\ tower'[p][l] = u
      /\ \A m \in Nodes, j \in Levels : (m # u /\ m # p) \/ j # l => tower'[m][j] = tower[m][j]
  BY Zenon, <1>1 DEF TypeInv, Nodes
<1>3. ASSUME NEW j \in Levels, j # l PROVE Linked(j)' = Linked(j)
  <2>1. \A m \in Nodes : tower'[m][j] = tower[m][j]
    BY Zenon, <1>2, <1>3
  <2> QED
    BY <1>2, <2>1, SameLevel, Zenon
<1>4. Linked(l)' = Linked(l) \cup {u}
  <2>1. ASSUME NEW m \in Linked(l) PROVE m \in Linked(l)'
    <3>1. PICK x \in Reach(l) : tower[x][l] = m
      BY Zenon DEF ListInv
    <3>2. x \in Nodes /\ x # u /\ m # Nil
      BY Zenon, <3>1, ReachNodes DEF Linked
    <3>3. \E y \in Nodes' : tower'[y][l] = m
      BY Zenon, <1>2, <3>1, <3>2
    <3> QED
      BY Zenon, <3>2, <3>3 DEF Linked, Nodes
  <2>2. u \in Linked(l)'
    BY Zenon, <1>1, <1>2 DEF Linked, Nodes
  <2>3. ASSUME NEW m \in Linked(l)' PROVE m \in Linked(l) \cup {u}
    <3>1. PICK x \in Nodes : m = tower'[x][l] /\ m # Nil
      BY Zenon, <1>2 DEF Linked, Nodes
    <3>2. CASE x = u \/ x = p
      BY Zenon, <1>2, <3>1, <3>2
    <3>3. CASE x # u /\ x # p
      BY Zenon, <1>2, <3>1, <3>3 DEF Linked, Nodes
    <3> QED
      BY Zenon, <3>2, <3>3
  <2> QED
    BY Zenon, <2>1, <2>2, <2>3
<1>5. Grows(u)
  BY SMTT(30), <1>2, <1>3, <1>4 DEF Grows, TypeInv
<1> QED
  BY Zenon, <1>2, <1>3, <1>4, <1>5 DEF Inserted

\* The level stays sorted: no key lies between p and n but that of u.
LEMMA LinkedInv ==
  ASSUME TypeInv, ListInv, NEW l \in Levels, NEW p \in Reach(l), NEW u \in Nodes \ Reach(l),
         NEW n \in Linked(l) \cup {Nil}, tower[p][l] = n,
         K(p) < K(u), n # Nil => K(u) < K(n),
         \A i \in Levels : i < l => u \in Linked(i),
         puts' = puts, Inserted(l, p, u, n)
  PROVE  ListInv'
<1>1. /\ Nodes' = Nodes
      /\ \A j \in Levels : Linked(j)' = IF j = l THEN Linked(l) \cup {u} ELSE Linked(j)
      /\ tower'[u][l] = n /\ tower'[p][l] = u
      /\ \A m \in Nodes, j \in Levels : (m # u /\ m # p) \/ j # l => tower'[m][j] = tower[m][j]
      /\ Grows(u)
  BY Zenon DEF Inserted
<1>2. \A m : KeyOf(m)' = KeyOf(m) /\ K(m)' = K(m)
  BY Zenon DEF KeyOf, K
<1>3. /\ u # HeadNode /\ u \in Nat /\ K(u) = KeyOf(u) /\ K(u) \in Nat /\ K(p) \in Nat
      /\ p \in Nodes
      /\ n # Nil => n \in Linked(l) /\ K(n) \in Nat
  <2>1. u # HeadNode /\ K(u) = KeyOf(u)
    BY Zenon DEF Reach, K
  <2>2. u \in 1..Len(puts)
    BY <2>1 DEF TypeInv, HeadNode
  <2>3. KeyOf(u) \in Nat
    BY <2>2, Numbers DEF KeyOf, TypeInv
  <2> QED
    BY <2>1, <2>2, <2>3, ReachNodes, LinkedNodes
<1> USE <1>2
<1>4. \A m \in Linked(l) : K(m) # K(u) /\ (K(u) < K(m) => n # Nil /\ K(n) <= K(m))
  <2> SUFFICES ASSUME NEW m \in Linked(l), K(m) >= K(u) PROVE K(m) # K(u) /\ n # Nil /\ K(n) <= K(m)
    BY <1>3, LinkedNodes
  <2>1. K(m) \in Nat /\ K(p) < K(m)
    BY <1>3, LinkedNodes
  <2>2. n # Nil /\ K(n) <= K(m)
    BY Zenon, <2>1 DEF ListInv
  <2> QED
    BY <1>3, <2>1, <2>2
<1>5. \A m \in Reach(l) : K(m) < K(u) => K(m) < K(p) \/ m = p
  <2> SUFFICES ASSUME NEW m \in Reach(l), K(m) < K(u), ~(K(m) < K(p)) PROVE m = p
    BY Zenon
  <2>1. K(m) \in Nat
    BY Zenon, ReachNodes
  <2>2. K(m) = K(p)
    <3> SUFFICES ASSUME K(p) < K(m) PROVE FALSE
      BY <1>3, <2>1
    <3>1. m \in Linked(l)
      BY <1>3 DEF Reach, K
    <3>2. n # Nil /\ K(n) <= K(m)
      BY Zenon, <3>1 DEF ListInv
    <3> QED
      BY <1>3, <2>1, <3>2
  <2>3. CASE m = HeadNode \/ p = HeadNode
    BY Zenon, <2>2, <2>3, LinkedNodes DEF Reach, K
  <2>4. CASE m \in Linked(l) /\ p \in Linked(l)
    <3>1. m \in Linked(0) /\ p \in Linked(0) /\ KeyOf(m) = KeyOf(p)
      BY <2>2, <2>4, Numbers, LinkedNodes DEF ListInv
    <3> QED
      BY Zenon, <3>1 DEF ListInv
  <2> QED
    BY Zenon, <2>3, <2>4 DEF Reach
<1>6. \A x, y \in Linked(0)' : KeyOf(x)' = KeyOf(y)' => x = y
  <2>1. CASE l # 0
    BY <1>1, <2>1, Numbers DEF ListInv
  <2>2. CASE l = 0
    <3>1. \A x \in Linked(0) : KeyOf(x) # KeyOf(u)
      BY Zenon, <1>3, <1>4, <2>2, LinkedNodes
    <3> QED
      BY <1>1, <2>2, <3>1 DEF ListInv
  <2> QED
    BY Zenon, <2>1, <2>2
<1>7. \A i, j \in Levels : i <= j => Linked(j)' \subseteq Linked(i)'
  <2> SUFFICES ASSUME NEW i \in Levels, NEW j \in Levels, i <= j
               PROVE  Linked(j)' \subseteq Linked(i)'
    BY Zenon
  <2>1. Linked(j) \subseteq Linked(i) /\ Linked(i) \subseteq Linked(i)'
    BY Zenon, <1>1 DEF ListInv
  <2>2. j = l => u \in Linked(i)'
    BY <1>1, Numbers
  <2> QED
    BY Zenon, <1>1, <2>1, <2>2
<1>8. ASSUME NEW j \in Levels, j # l
      PROVE  /\ Linked(j)' = Linked(j) /\ Reach(j)' = Reach(j)
             /\ \A m \in Reach(j) : tower'[m][j] = tower[m][j]
  BY Zenon, <1>1, <1>8, ReachNodes DEF Reach
<1>9. Linked(l)' = Linked(l) \cup {u} /\ Reach(l)' = Reach(l) \cup {u}
      /\ \A m \in Reach(l) : m # p => tower'[m][l] = tower[m][l]
  BY Zenon, <1>1, ReachNodes DEF Reach
<1>10. ASSUME NEW j \in Levels, NEW m \in Linked(j)'
       PROVE  \E x \in Reach(j)' : tower'[x][j] = m
  <2>1. CASE j # l
    BY <1>8, <2>1 DEF ListInv
  <2>2. CASE j = l /\ m = u
    BY Zenon, <1>1, <1>9, <2>2
  <2>3. CASE j = l /\ m # u
    <3>1. m \in Linked(l)
      BY Zenon, <1>9, <2>3
    <3>2. PICK x \in Reach(l) : tower[x][l] = m
      BY Zenon, <3>1 DEF ListInv
    <3>3. CASE x = p
      BY Zenon, <1>1, <1>9, <2>3, <3>2, <3>3
    <3>4. CASE x # p
      BY Zenon, <1>9, <2>3, <3>2, <3>4
    <3> QED
      BY Zenon, <3>3, <3>4
  <2> QED
    BY Zenon, <2>1, <2>2, <2>3
<1>11. ASSUME NEW j \in Levels, NEW x \in Reach(j)'
       PROVE  /\ tower'[x][j] # Nil => K(x)' < K(tower[x][j])'
              /\ \A m \in Linked(j)' : K(x)' < K(m)' =>
                   tower'[x][j] # Nil /\ K(tower[x][j])' <= K(m)'
  <2> SUFFICES /\ tower'[x][j] # Nil => K(x) < K(tower'[x][j])
               /\ \A m \in Linked(j)' : K(x) < K(m) =>
                    tower'[x][j] # Nil /\ K(tower'[x][j]) <= K(m)
    BY Zenon DEF K, KeyOf
  <2>1. CASE j # l
    BY <1>8, <2>1 DEF ListInv
  <2>2. CASE j = l /\ x = u
    BY <1>1, <1>3, <1>4, <1>9, <2>2
  <2>3. CASE j = l /\ x = p
    <3>1. u # Nil /\ \A m \in Linked(l) : K(m) \in Nat /\ (K(p) < K(m) => n # Nil /\ K(n) <= K(m))
      BY SMTT(30), <1>3, LinkedNodes DEF ListInv, Nil
    <3> QED
      BY <1>1, <1>3, <1>9, <2>3, <3>1
  <2>4. CASE j = l /\ x # u /\ x # p
    <3>1. x \in Reach(l) /\ tower'[x][l] = tower[x][l]
      BY Zenon, <1>9, <2>4
    <3>2. K(x) < K(u) => tower[x][l] # Nil /\ K(tower[x][l]) <= K(u)
      <4> SUFFICES ASSUME K(x) < K(u) PROVE tower[x][l] # Nil /\ K(tower[x][l]) <= K(u)
        BY Zenon
      <4>1. K(x) < K(p) /\ K(x) \in Nat
        BY Zenon, <1>5, <2>4, <3>1, ReachNodes
      <4>2. p \in Linked(l)
        BY <4>1 DEF Reach, K
      <4>3. tower[x][l] # Nil /\ K(tower[x][l]) <= K(p)
        BY Zenon, <3>1, <4>1, <4>2 DEF ListInv
      <4>4. K(tower[x][l]) \in Nat
        BY Zenon, <3>1, <4>3, ReachNodes, LinkedNodes
      <4> QED
        BY <1>3, <4>3, <4>4
    <3> QED
      BY Zenon, <1>9, <2>4, <3>1, <3>2 DEF ListInv
  <2> QED
    BY Zenon, <1>9, <2>1, <2>2, <2>3, <2>4
<1> QED
  BY Zenon, <1>6, <1>7, <1>10, <1>11 DEF ListInv

\* What a Put knows when it tries to link its node.
LEMMA LinkFacts ==
  ASSUME SkipInv, NEW w \in Writers, wr[w].pc = "link",
         NEW l, l = wr[w].lvl, NEW u, u = wr[w].put,
         NEW p, p = wr[w].prev[l], NEW n, n = wr[w].next[l]
  PROVE  /\ l \in Levels /\ p \in Reach(l) /\ u \in Nodes \ Reach(l)
         /\ n \in Linked(l) \cup {Nil}
         /\ K(p) < K(u) /\ (n # Nil => K(u) < K(n)) /\ K(u) = KeyOf(u)
         /\ wr[w] \in WriterRecords /\ wr[w].h \in 1..MaxHeight /\ l < wr[w].h
         /\ \A i \in Levels : u \in Linked(i) <=> i < l
         /\ l = 0 => value[u] = u
<1>1. TypeInv /\ Owns(w) /\ SpliceInv(wr[w]) /\ WalkInv(wr[w]) /\ NodeInv(wr[w])
      /\ wr[w] \in WriterRecords
  BY Zenon DEF SkipInv, LocalInv, TypeInv
<1>2. /\ u \in Nodes /\ wr[w].h \in 1..MaxHeight /\ l < wr[w].h
      /\ \A i \in Levels : u \in Linked(i) <=> i < l
      /\ l = 0 => value[u] = u
  BY Zenon, <1>1 DEF NodeInv, Linking
<1>3. l \in Levels /\ p # Nil /\ u \in 1..Len(puts)
  BY Zenon, <1>1 DEF WalkInv, WriterRecords, Owns
<1>4. u # HeadNode /\ u \notin Linked(l)
  BY <1>2, <1>3, Numbers DEF HeadNode
<1>5. K(u) = KeyOf(u)
  BY Zenon, <1>4 DEF K
<1>6. p \in Reach(l) /\ K(p) < K(u)
  BY Zenon, <1>1, <1>3, <1>5 DEF SpliceInv
<1>7. n # Nil => n \in Linked(l) /\ K(u) < K(n)
  BY Zenon, <1>1, <1>3, <1>5 DEF SpliceInv
<1> QED
  BY Zenon, <1>1, <1>2, <1>3, <1>4, <1>5, <1>6, <1>7 DEF Reach

\* The compare-and-swap fails: somebody linked a node behind prev[lvl].
LEMMA RetryStep ==
  ASSUME SkipInv, NEW w \in Writers, Link(w),
         ~CAS(wr[w].prev[wr[w].lvl], wr[w].lvl, wr[w].next[wr[w].lvl])
  PROVE  SkipInv' /\ Grows(wr[w].put) /\ Linked(0)' = Linked(0)
<1> PICK l, u, p, n : /\ l = wr[w].lvl /\ u = wr[w].put
                      /\ p = wr[w].prev[l] /\ n = wr[w].next[l]
  BY Zenon
<1> DEFINE q == wr[w]
           r == Retry(q)
<1>1. /\ q.pc = "link" /\ tower' = [tower EXCEPT ![u][l] = n] /\ Do(w, r)
      /\ UNCHANGED <<height, value, puts, rd, wrong, panic>>
  BY Zenon DEF Link
<1>2. /\ l \in Levels /\ p \in Reach(l) /\ u \in Nodes \ Reach(l)
      /\ n \in Linked(l) \cup {Nil} /\ K(p) < KeyOf(u) /\ q \in WriterRecords
  BY <1>1, LinkFacts
<1>3. TypeInv /\ ListInv /\ Owns(w) /\ LocalInv(q)
  BY Zenon DEF SkipInv
<1>4. /\ Nodes' = Nodes /\ \A j \in Levels : Linked(j)' = Linked(j)
      /\ tower' \in [Nodes -> [Levels -> (Nodes \ {HeadNode}) \cup {Nil}]]
      /\ Grows(u) /\ ListInv'
  BY Zenon, <1>1, <1>2, <1>3, StoreOnly
<1>5. p \in Int /\ p # Nil
  BY Zenon, <1>2, <1>3, ReachNodes
<1>6. /\ r \in WriterRecords /\ r.pc = "retry" /\ r.at = p /\ r.put = u /\ r.lvl = l
      /\ r.h = q.h /\ r.prev = q.prev /\ r.next = q.next
  BY Zenon, <1>2, <1>5 DEF Retry, WriterRecords, Walking
<1> HIDE DEF r
<1>7. wr'[w] = r /\ wr' \in [Writers -> WriterRecords]
      /\ \A v \in Writers \ {w} : wr'[v] = wr[v] /\ wr[v].put # u
  BY Zenon, <1>1, <1>3, <1>6 DEF Do, TypeInv, Owns
<1>8. TypeInv'
  BY Zenon, <1>1, <1>3, <1>4, <1>7 DEF TypeInv
<1>9. Owns(w)'
  BY Zenon, <1>1, <1>3, <1>6, <1>7 DEF Owns
<1>10. \A m : KeyOf(m)' = KeyOf(m) /\ K(m)' = K(m)
  BY Zenon, <1>1 DEF KeyOf, K
<1>11. SpliceInv(wr[w])'
  BY Zenon, <1>1, <1>3, <1>4, <1>6, <1>7, <1>10 DEF LocalInv, SpliceInv, Reach
<1>12. WalkInv(wr[w])'
  BY Zenon, <1>2, <1>4, <1>5, <1>6, <1>7, <1>10 DEF WalkInv, Reach
<1>13. NodeInv(wr[w])'
  BY <1>1, <1>3, <1>4, <1>6, <1>7 DEF LocalInv, NodeInv, Linking
<1>14. ~wrong' /\ ~panic' /\ rd' = rd
  BY Zenon, <1>1 DEF SkipInv
<1>15. SkipInv'
  BY Zenon, <1>4, <1>7, <1>8, <1>9, <1>11, <1>12, <1>13, <1>14, OneWriter DEF LocalInv
<1> QED
  BY Zenon, <1>4, <1>15, Numbers

\* The compare-and-swap succeeds: the node is in the level.
LEMMA SwapStep ==
  ASSUME SkipInv, NEW w \in Writers, Link(w),
         CAS(wr[w].prev[wr[w].lvl], wr[w].lvl, wr[w].next[wr[w].lvl])
  PROVE  /\ SkipInv' /\ Grows(wr[w].put)
         /\ Linked(0)' = IF wr[w].lvl = 0 THEN Linked(0) \cup {wr[w].put} ELSE Linked(0)
<1> PICK l, u, p, n : /\ l = wr[w].lvl /\ u = wr[w].put
                      /\ p = wr[w].prev[l] /\ n = wr[w].next[l]
  BY Zenon
<1> DEFINE q == wr[w]
           r == IF l + 1 = q.h THEN IdleWriter ELSE LinkAt(q, l + 1)
<1>a. tower' = [tower EXCEPT ![u][l] = n, ![p][l] = u]
  BY Zenon DEF Link
<1>b. tower[p][l] = n
  BY Zenon DEF CAS
<1>1. q.pc = "link" /\ Do(w, r) /\ UNCHANGED <<height, value, puts, rd, wrong, panic>>
  BY Zenon DEF Link
<1>2. /\ l \in Levels /\ p \in Reach(l) /\ u \in Nodes \ Reach(l)
      /\ n \in Linked(l) \cup {Nil}
      /\ K(p) < K(u) /\ (n # Nil => K(u) < K(n))
      /\ q \in WriterRecords /\ q.h \in 1..MaxHeight /\ l < q.h
      /\ \A i \in Levels : u \in Linked(i) <=> i < l
  BY <1>1, LinkFacts
<1>3. TypeInv /\ ListInv /\ Owns(w) /\ LocalInv(q)
  BY Zenon DEF SkipInv
<1>4. Inserted(l, p, u, n)
  BY Zenon, <1>a, <1>b, <1>1, <1>2, <1>3, Inserts
<1>5. ListInv'
  BY Zenon, <1>b, <1>1, <1>2, <1>3, <1>4, LinkedInv
<1>6. /\ Nodes' = Nodes /\ Grows(u)
      /\ \A j \in Levels : Linked(j)' = IF j = l THEN Linked(l) \cup {u} ELSE Linked(j)
      /\ tower' \in [Nodes -> [Levels -> (Nodes \ {HeadNode}) \cup {Nil}]]
  BY Zenon, <1>4 DEF Inserted
<1> SUFFICES SkipInv'
  BY Zenon, <1>6, Numbers
<1>7. CASE l + 1 = q.h
  <2>1. r = IdleWriter
    BY Zenon, <1>7
  <2>2. wr'[w] = IdleWriter /\ wr' \in [Writers -> WriterRecords]
        /\ \A v \in Writers \ {w} : wr'[v] = wr[v] /\ wr[v].put # u
    BY Zenon, <1>1, <1>3, <2>1, IdleLocals DEF Do, TypeInv, Owns
  <2> HIDE DEF r
  <2>3. TypeInv'
    BY Zenon, <1>1, <1>3, <1>6, <2>2 DEF TypeInv
  <2>4. Owns(w)' /\ LocalInv(wr[w])'
    BY Zenon, <2>2, IdleLocals DEF Owns, LocalInv, SpliceInv, WalkInv, NodeInv, Walking, Linking
  <2>5. ~wrong' /\ ~panic' /\ rd' = rd
    BY Zenon, <1>1 DEF SkipInv
  <2> QED
    BY Zenon, <1>5, <1>6, <2>2, <2>3, <2>4, <2>5, OneWriter
<1>8. CASE l + 1 # q.h
  <2>1. r = LinkAt(q, l + 1) /\ l + 1 \in Levels /\ l + 1 < q.h /\ l + 1 > 0
    BY <1>2, <1>8, Numbers DEF Levels
  <2>2. /\ r \in WriterRecords /\ r.put = u /\ r.lvl = l + 1 /\ r.h = q.h
        /\ r.prev = q.prev /\ r.next = q.next
        /\ \/ r.pc = "link" /\ r.prev[r.lvl] # Nil
           \/ r.pc = "fill" /\ r.at = HeadNode
    <3> HIDE DEF r
    <3> PICK j : j = l + 1
      BY Zenon
    <3>1. /\ j \in Levels /\ r = LinkAt(q, j) /\ r \in WriterRecords /\ r.lvl = j
          /\ r.put = q.put /\ r.h = q.h /\ r.prev = q.prev /\ r.next = q.next
      BY Zenon, <1>2, <2>1, LinkAtRecord
    <3>2. \/ r.pc = "link" /\ r.prev[j] # Nil
          \/ r.pc = "fill" /\ r.at = HeadNode
      <4>1. \/ LinkAt(q, j).pc = "link" /\ q.prev[j] # Nil
            \/ LinkAt(q, j).pc = "fill" /\ LinkAt(q, j).at = HeadNode
        BY Zenon, <1>2, <3>1, LinkAtLevel
      <4> QED
        BY Zenon, <3>1, <4>1
    <3> QED
      BY Zenon, <3>1, <3>2
  <2> HIDE DEF r
  <2>3. wr'[w] = r /\ wr' \in [Writers -> WriterRecords]
        /\ \A v \in Writers \ {w} : wr'[v] = wr[v] /\ wr[v].put # u
    BY Zenon, <1>1, <1>3, <2>2 DEF Do, TypeInv, Owns
  <2>4. TypeInv'
    BY Zenon, <1>1, <1>3, <1>6, <2>3 DEF TypeInv
  <2>5. Owns(w)'
    BY Zenon, <1>1, <1>3, <2>2, <2>3 DEF Owns
  <2>6. \A m : KeyOf(m)' = KeyOf(m) /\ K(m)' = K(m)
    BY Zenon, <1>1 DEF KeyOf, K
  <2>7. \A j \in Levels : Linked(j) \subseteq Linked(j)' /\ Reach(j) \subseteq Reach(j)'
    BY Zenon, <1>6 DEF Reach
  <2>8. SpliceInv(wr[w])'
    BY Zenon, <1>1, <1>3, <2>2, <2>3, <2>6, <2>7 DEF LocalInv, SpliceInv
  <2>9. K(HeadNode) < KeyOf(u) /\ HeadNode \in Reach(l + 1)'
    <3>1. u \in 1..Len(puts)
      BY Zenon, <1>1, <1>3 DEF Owns
    <3> QED
      BY Zenon, <1>3, <3>1, HeadFirst DEF Reach
  <2>10. WalkInv(wr[w])'
    BY Zenon, <2>1, <2>2, <2>3, <2>6, <2>9 DEF WalkInv, Walking
  <2>11. NodeInv(wr[w])'
    <3>1. ASSUME NEW j \in Levels PROVE u \in Linked(j)' <=> j < l + 1
      <4>1. j \in Nat /\ l \in Nat /\ (u \in Linked(j) <=> j < l)
        BY Zenon, <1>2, Numbers
      <4>2. u \in Linked(j)' <=> j = l \/ u \in Linked(j)
        BY Zenon, <1>6
      <4> QED
        BY SMTT(30), <4>1, <4>2
    <3>2. wr'[w].put = u /\ wr'[w].lvl = l + 1 /\ wr'[w].h = q.h /\ wr'[w].pc \in {"link", "fill"}
      BY Zenon, <2>2, <2>3
    <3>3. u \in Nodes' /\ l + 1 # 0 /\ q.h \in 1..MaxHeight /\ l + 1 < q.h
      BY <1>2, <1>6, <2>1
    <3> QED
      BY Zenon, <3>1, <3>2, <3>3 DEF NodeInv
  <2>12. ~wrong' /\ ~panic' /\ rd' = rd
    BY Zenon, <1>1 DEF SkipInv
  <2> QED
    BY Zenon, <1>5, <1>6, <2>3, <2>4, <2>5, <2>8, <2>10, <2>11, <2>12, OneWriter DEF LocalInv
<1> QED
  BY Zenon, <1>7, <1>8

\* Link, whether its compare-and-swap succeeds or not.
LEMMA LinkStep ==
  ASSUME SkipInv, NEW w \in Writers, Link(w)
  PROVE  SkipInv'
  BY Zenon, RetryStep, SwapStep


-----------------------------------------------------------------------------
(* Searches and iterations *)

\* One reader moves and the list is what it was.
LEMMA OneReader ==
  ASSUME SkipInv, NEW x \in Readers, UNCHANGED unchangedList,
         NEW r \in ReaderRecords, DoRead(x, r), ReaderInv(x)', ~wrong'
  PROVE  SkipInv'
<1>1. TypeInv /\ ListInv /\ UNCHANGED <<height, tower, value, puts, wr, panic>> /\ ~panic
  BY Zenon DEF SkipInv, unchangedList
<1>2. Grows(Nil) /\ Nodes' = Nodes
  BY Zenon, <1>1, SameList
<1>3. rd' \in [Readers -> ReaderRecords] /\ \A y \in Readers \ {x} : rd'[y] = rd[y]
  BY Zenon, <1>1 DEF DoRead, TypeInv
<1>4. TypeInv'
  BY Zenon, <1>1, <1>2, <1>3 DEF TypeInv
<1>5. ListInv'
  BY Zenon, <1>1, SameListInv
<1>6. ASSUME NEW w \in Writers PROVE Owns(w)' /\ LocalInv(wr[w])'
  <2>1. Owns(w) /\ LocalInv(wr[w]) /\ wr[w] \in WriterRecords /\ wr'[w] = wr[w]
    BY Zenon, <1>1 DEF SkipInv, TypeInv
  <2>2. wr[w].put # Nil
    BY <2>1 DEF WriterRecords, Nil
  <2>3. LocalInv(wr[w])'
    BY Zenon, <1>1, <1>2, <2>1, <2>2, WriterKept DEF Owns
  <2> QED
    BY Zenon, <1>1, <2>1, <2>3 DEF Owns
<1>7. ASSUME NEW y \in Readers PROVE ReaderInv(y)'
  BY Zenon, <1>2, <1>3, ReaderKept
<1>8. ~panic'
  BY Zenon, <1>1
<1> QED
  BY Zenon, <1>4, <1>5, <1>6, <1>7, <1>8 DEF SkipInv

\* Every search starts at the head, which is before any key.
LEMMA FindNearStep ==
  ASSUME SkipInv, NEW x \in Readers, NEW k \in Nat, k > 0, NEW less \in BOOLEAN,
         NEW equal \in BOOLEAN, ~less => equal, FindNear(x, k, less, equal)
  PROVE  SkipInv'
<1> DEFINE r == [IdleReader EXCEPT !.pc = "near", !.key = k, !.less = less,
                                   !.equal = equal, !.lvl = height - 1]
<1>1. DoRead(x, r) /\ UNCHANGED unchangedList /\ wrong' = wrong
  BY Zenon DEF FindNear
<1>2. height - 1 \in Levels /\ TypeInv /\ ~wrong
  BY Numbers DEF SkipInv, TypeInv, Levels
<1>3. /\ r \in ReaderRecords /\ r.pc = "near" /\ r.key = k /\ r.less = less /\ r.equal = equal
      /\ r.at = HeadNode
  <2>1. IdleReader \in ReaderRecords /\ IdleReader.at = HeadNode
    BY Numbers DEF IdleReader, ReaderRecords, HeadNode
  <2> QED
    BY Zenon, <1>2, <2>1 DEF ReaderRecords
<1> HIDE DEF r
<1>4. rd'[x] = r
  BY Zenon, <1>1, <1>2 DEF DoRead, TypeInv
<1>5. ReaderInv(x)'
  BY Zenon, <1>3, <1>4 DEF ReaderInv, Reach, K
<1> QED
  BY Zenon, <1>1, <1>2, <1>3, <1>5, OneReader

\* Get, Seek, SeekForPrev, Prev and findLast.
LEMMA SearchStep ==
  ASSUME SkipInv, NEW x \in Readers,
         (\E k \in Keys : Get(x, k) \/ SeekForPrev(x, k) \/ Prev(x, k)) \/ FindLast(x)
  PROVE  SkipInv'
<1>1. ASSUME NEW k \in Keys, Get(x, k) \/ SeekForPrev(x, k) \/ Prev(x, k) PROVE SkipInv'
  BY Zenon, <1>1, Numbers, FindNearStep DEF Get, SeekForPrev, Prev
<1>2. ASSUME FindLast(x) PROVE SkipInv'
  <2>1. Max(Keys) \in Keys
    BY Zenon, SkiplistAssumption DEF Max
  <2>2. Max(Keys) + 1 \in Nat /\ Max(Keys) + 1 > 0
    BY <2>1, Numbers
  <2> QED
    BY Zenon, <1>2, <2>2, FindNearStep DEF FindLast
<1> QED
  BY Zenon, <1>1, <1>2

\* The nodes a search may return.
FitsNear(n, k, less, equal) ==
  (equal /\ KeyOf(n) = k) \/ IF less THEN KeyOf(n) < k ELSE KeyOf(n) > k

\* The nearest of them.
Nearest(n, k, less, equal) ==
  /\ n \in Linked(0) /\ FitsNear(n, k, less, equal)
  /\ \A m \in Linked(0) : FitsNear(m, k, less, equal) =>
       IF less THEN KeyOf(m) <= KeyOf(n) ELSE KeyOf(n) <= KeyOf(m)

\* The node that fits and is nearest is the one to return.
LEMMA NearIs ==
  ASSUME TypeInv, ListInv, NEW n, NEW k, NEW less, NEW equal,
         Nearest(n, k, less, equal)
  PROVE  Near(k, less, equal) = n
<1> DEFINE fit == {m \in Linked(0) : FitsNear(m, k, less, equal)}
           keys == {KeyOf(m) : m \in fit}
<1>1. n \in fit /\ KeyOf(n) \in keys
  BY Zenon DEF Nearest
<1>2. \A i \in keys : i \in Nat
  BY Zenon, LinkedNodes, Numbers
<1>3. Near(k, less, equal) = IF fit = {} THEN Nil ELSE
        CHOOSE m \in fit : KeyOf(m) = IF less THEN Max(keys) ELSE Min(keys)
  BY Zenon DEF Near, FitsNear
<1>4. CASE less
  <2>1. \A i \in keys : i <= KeyOf(n)
    BY Zenon, <1>4 DEF Nearest
  <2>2. Max(keys) = KeyOf(n)
    <3> HIDE DEF keys
    <3>1. Max(keys) \in keys /\ \A i \in keys : Max(keys) >= i
      BY Zenon, <1>1, <1>2, <2>1 DEF Max
    <3> QED
      BY <1>1, <1>2, <2>1, <3>1
  <2>3. Near(k, less, equal) = CHOOSE m \in fit : KeyOf(m) = KeyOf(n)
    BY Zenon, <1>1, <1>3, <1>4, <2>2
  <2> QED
    BY Zenon, <1>1, <2>3 DEF ListInv
<1>5. CASE ~less
  <2>1. \A i \in keys : KeyOf(n) <= i
    BY Zenon, <1>5 DEF Nearest
  <2>2. Min(keys) = KeyOf(n)
    <3> HIDE DEF keys
    <3>1. Min(keys) \in keys /\ \A i \in keys : Min(keys) <= i
      BY Zenon, <1>1, <1>2, <2>1 DEF Min
    <3> QED
      BY <1>1, <1>2, <2>1, <3>1
  <2>3. Near(k, less, equal) = CHOOSE m \in fit : KeyOf(m) = KeyOf(n)
    BY Zenon, <1>1, <1>3, <1>5, <2>2
  <2> QED
    BY Zenon, <1>1, <2>3 DEF ListInv
<1> QED
  BY Zenon, <1>4, <1>5

\* If no node fits there is none to return.
LEMMA NearNil ==
  ASSUME NEW k, NEW less, NEW equal, \A m \in Linked(0) : ~FitsNear(m, k, less, equal)
  PROVE  Near(k, less, equal) = Nil
  BY Zenon DEF Near, FitsNear

\* A search returns to idle.
LEMMA ReturnStep ==
  ASSUME SkipInv, NEW x \in Readers, UNCHANGED unchangedList, DoRead(x, IdleReader), ~wrong'
  PROVE  SkipInv'
<1>1. IdleReader \in ReaderRecords /\ IdleReader.pc = "idle"
  BY Numbers DEF IdleReader, ReaderRecords, HeadNode
<1>2. rd'[x] = IdleReader
  BY Zenon DEF DoRead, SkipInv, TypeInv
<1>3. ReaderInv(x)'
  BY Zenon, <1>1, <1>2 DEF ReaderInv
<1> QED
  BY Zenon, <1>1, <1>3, OneReader

\* Where a search stands, and what it finds at its end.
LEMMA NearFound ==
  ASSUME SkipInv, NEW x \in Readers, rd[x].pc = "near",
         NEW r, r = rd[x], NEW n, n = tower[r.at][r.lvl],
         ~Before(n, r.key)
  PROVE  /\ r.equal /\ Matches(n, r.key) => n = Near(r.key, r.less, r.equal)
         /\ r.lvl = 0 /\ ~(r.equal /\ Matches(n, r.key)) =>
              /\ ~r.less => n = Near(r.key, r.less, r.equal)
              /\ r.less /\ r.at = HeadNode => Nil = Near(r.key, r.less, r.equal)
              /\ r.less /\ r.at # HeadNode => r.at = Near(r.key, r.less, r.equal)
<1> DEFINE k == r.key
<1>1. TypeInv /\ ListInv /\ ReaderInv(x) /\ r \in ReaderRecords
  BY Zenon DEF SkipInv, TypeInv
<1>2. /\ r.lvl \in Levels /\ 0 \in Levels /\ k \in Nat /\ r.less \in BOOLEAN /\ r.equal \in BOOLEAN
      /\ r.at \in Reach(r.lvl) /\ K(r.at) < k
  BY Zenon, <1>1, Numbers DEF ReaderRecords, ReaderInv
<1>3. ~r.less => r.equal
  BY Zenon, <1>1 DEF ReaderInv
<1>4. K(r.at) \in Nat /\ (n # Nil => n \in Linked(r.lvl))
  BY Zenon, <1>1, <1>2, ReachNodes
<1>5. n # Nil => n \in Linked(0) /\ KeyOf(n) \in Nat /\ K(n) = KeyOf(n) /\ KeyOf(n) >= k
  <2>1. Linked(r.lvl) \subseteq Linked(0)
    <3>1. 0 <= r.lvl
      BY <1>2 DEF Levels
    <3> QED
      BY Zenon, <1>1, <1>2, <3>1 DEF ListInv
  <2>2. n # Nil => n \in Linked(0) /\ KeyOf(n) \in Nat /\ K(n) = KeyOf(n)
    BY Zenon, <1>1, <1>2, <1>4, <2>1, LinkedNodes
  <2> QED
    BY <1>2, <2>2 DEF Before
<1>6. \A m \in Linked(0) : KeyOf(m) \in Nat /\ K(m) = KeyOf(m)
  BY Zenon, <1>1, <1>2, LinkedNodes
<1>7. ASSUME r.equal, Matches(n, k) PROVE n = Near(k, r.less, r.equal)
  <2>1. n \in Linked(0) /\ KeyOf(n) = k
    BY Zenon, <1>5, <1>7 DEF Matches
  <2>2. FitsNear(n, k, r.less, r.equal)
    BY Zenon, <1>7, <2>1 DEF FitsNear
  <2>3. \A m \in Linked(0) : FitsNear(m, k, r.less, r.equal) =>
          IF r.less THEN KeyOf(m) <= KeyOf(n) ELSE KeyOf(n) <= KeyOf(m)
    BY <1>2, <1>6, <2>1 DEF FitsNear
  <2>4. Nearest(n, k, r.less, r.equal)
    BY Zenon, <2>1, <2>2, <2>3 DEF Nearest
  <2> QED
    BY <1>1, <2>4, NearIs
<1>8. ASSUME r.lvl = 0, NEW m \in Linked(0), K(r.at) < KeyOf(m)
      PROVE  n # Nil /\ KeyOf(n) <= KeyOf(m)
  BY <1>1, <1>2, <1>5, <1>6, <1>8 DEF ListInv
<1>9. ASSUME r.lvl = 0, ~(r.equal /\ Matches(n, k)), ~r.less PROVE n = Near(k, r.less, r.equal)
  <2>1. n # Nil => KeyOf(n) > k
    BY <1>2, <1>3, <1>5, <1>9 DEF Matches
  <2>2. \A m \in Linked(0) : FitsNear(m, k, r.less, r.equal) => K(r.at) < KeyOf(m)
    BY <1>2, <1>4, <1>6, <1>9 DEF FitsNear
  <2>3. CASE n = Nil
    BY Zenon, <1>8, <1>9, <2>2, <2>3, NearNil
  <2>4. CASE n # Nil
    <3>1. FitsNear(n, k, r.less, r.equal)
      BY Zenon, <1>9, <2>1, <2>4 DEF FitsNear
    <3>2. \A m \in Linked(0) : FitsNear(m, k, r.less, r.equal) =>
            IF r.less THEN KeyOf(m) <= KeyOf(n) ELSE KeyOf(n) <= KeyOf(m)
      BY Zenon, <1>8, <1>9, <2>2
    <3>3. Nearest(n, k, r.less, r.equal)
      BY Zenon, <1>5, <2>4, <3>1, <3>2 DEF Nearest
    <3> QED
      BY <1>1, <3>3, NearIs
  <2> QED
    BY Zenon, <2>3, <2>4
<1>10. ASSUME r.lvl = 0, ~(r.equal /\ Matches(n, k)), r.less,
              NEW m \in Linked(0), FitsNear(m, k, r.less, r.equal)
       PROVE  ~(K(r.at) < KeyOf(m))
  <2> SUFFICES ASSUME K(r.at) < KeyOf(m) PROVE FALSE
    BY Zenon
  <2>1. n # Nil /\ KeyOf(n) <= KeyOf(m) /\ KeyOf(n) >= k /\ KeyOf(n) \in Nat /\ KeyOf(m) \in Nat
    BY Zenon, <1>5, <1>6, <1>8, <1>10
  <2>2. r.equal /\ KeyOf(m) = k
    BY <1>2, <1>10, <2>1 DEF FitsNear
  <2> QED
    BY <1>2, <1>10, <2>1, <2>2 DEF Matches
<1>11. ASSUME r.lvl = 0, ~(r.equal /\ Matches(n, k)), r.less, r.at = HeadNode
       PROVE  Nil = Near(k, r.less, r.equal)
  <2>1. \A m \in Linked(0) : K(r.at) < KeyOf(m)
    BY Zenon, <1>1, <1>2, <1>11, LinkedNodes DEF K
  <2> QED
    BY Zenon, <1>10, <1>11, <2>1, NearNil
<1>12. ASSUME r.lvl = 0, ~(r.equal /\ Matches(n, k)), r.less, r.at # HeadNode
       PROVE  r.at = Near(k, r.less, r.equal)
  <2>1. r.at \in Linked(0) /\ KeyOf(r.at) < k /\ KeyOf(r.at) = K(r.at)
    BY Zenon, <1>2, <1>6, <1>12 DEF Reach
  <2>2. FitsNear(r.at, k, r.less, r.equal)
    BY Zenon, <1>12, <2>1 DEF FitsNear
  <2>3. \A m \in Linked(0) : FitsNear(m, k, r.less, r.equal) =>
          IF r.less THEN KeyOf(m) <= KeyOf(r.at) ELSE KeyOf(r.at) <= KeyOf(m)
    <3> SUFFICES ASSUME NEW m \in Linked(0), FitsNear(m, k, r.less, r.equal)
                 PROVE  KeyOf(m) <= KeyOf(r.at)
      BY Zenon, <1>12
    <3>1. ~(K(r.at) < KeyOf(m))
      BY Zenon, <1>10, <1>12
    <3> QED
      BY <1>4, <1>6, <2>1, <3>1
  <2>4. Nearest(r.at, k, r.less, r.equal)
    BY Zenon, <2>1, <2>2, <2>3 DEF Nearest
  <2> QED
    BY <1>1, <2>4, NearIs
<1> QED
  BY Zenon, <1>7, <1>9, <1>11, <1>12

\* One turn of findNear.
LEMMA NearSearchStep ==
  ASSUME SkipInv, NEW x \in Readers, NearStep(x)
  PROVE  SkipInv'
<1> DEFINE r == rd[x]
           n == tower[r.at][r.lvl]
<1>1. TypeInv /\ ListInv /\ ReaderInv(x) /\ r \in ReaderRecords
  BY Zenon DEF SkipInv, TypeInv
<1>2. r.pc = "near" /\ UNCHANGED unchangedList
  BY Zenon DEF NearStep
<1>3. /\ r.lvl \in Levels /\ r.at \in Reach(r.lvl) /\ K(r.at) < r.key
      /\ r.less \in BOOLEAN /\ r.equal \in BOOLEAN
  BY Zenon, <1>1, <1>2 DEF ReaderRecords, ReaderInv
<1>4. ASSUME NEW s \in ReaderRecords, DoRead(x, s), UNCHANGED wrong,
             s.pc = "near", s.key = r.key, s.less = r.less, s.equal = r.equal,
             s.at \in Reach(s.lvl), K(s.at) < s.key, s.lvl \in Levels
      PROVE  SkipInv'
  <2>1. rd'[x] = s
    BY Zenon, <1>1, <1>4 DEF DoRead, TypeInv
  <2>2. /\ \A l \in Levels : Reach(l)' = Reach(l)
        /\ \A m : K(m)' = K(m)
    BY Zenon, <1>1, <1>2, SameList DEF unchangedList
  <2>3. s.at \in Reach(s.lvl)' /\ K(s.at)' < s.key
    BY Zenon, <1>4, <2>2
  <2>4. ~s.less => s.equal
    BY Zenon, <1>1, <1>2, <1>4 DEF ReaderInv
  <2>5. ReaderInv(x)'
    BY Zenon, <1>4, <2>1, <2>3, <2>4 DEF ReaderInv
  <2>6. ~wrong'
    BY Zenon, <1>4 DEF SkipInv
  <2> QED
    BY Zenon, <1>2, <1>4, <2>5, <2>6, OneReader
<1>5. ASSUME NEW node, wrong' = (wrong \/ node # Near(r.key, r.less, r.equal)),
             DoRead(x, IdleReader), node = Near(r.key, r.less, r.equal)
      PROVE  SkipInv'
  <2>1. ~wrong'
    BY Zenon, <1>5 DEF SkipInv
  <2> QED
    BY Zenon, <1>2, <1>5, <2>1, ReturnStep
<1>6. CASE Before(n, r.key)
  <2>1. DoRead(x, [r EXCEPT !.at = n]) /\ UNCHANGED wrong
    BY Zenon, <1>6 DEF NearStep
  <2>2. n \in Linked(r.lvl) /\ n \in Int /\ K(n) < r.key
    BY <1>1, <1>3, <1>6, ReachNodes, LinkedNodes DEF Before
  <2>3. PICK s : s = [r EXCEPT !.at = n]
    BY Zenon
  <2>4. /\ s \in ReaderRecords /\ s.pc = "near" /\ s.key = r.key /\ s.less = r.less
        /\ s.equal = r.equal /\ s.at = n /\ s.lvl = r.lvl
    BY Zenon, <1>1, <1>2, <2>2, <2>3 DEF ReaderRecords
  <2> QED
    BY Zenon, <1>3, <1>4, <2>1, <2>2, <2>3, <2>4 DEF Reach
<1>7. CASE ~Before(n, r.key) /\ r.equal /\ Matches(n, r.key)
  <2>1. wrong' = (wrong \/ n # Near(r.key, r.less, r.equal)) /\ DoRead(x, IdleReader)
    BY Zenon, <1>7 DEF NearStep
  <2>2. n = Near(r.key, r.less, r.equal)
    BY Zenon, <1>2, <1>7, NearFound
  <2> QED
    BY Zenon, <1>5, <2>1, <2>2
<1>8. CASE ~Before(n, r.key) /\ ~(r.equal /\ Matches(n, r.key)) /\ r.lvl > 0
  <2>1. DoRead(x, [r EXCEPT !.lvl = r.lvl - 1]) /\ UNCHANGED wrong
    BY Zenon, <1>8 DEF NearStep, Below
  <2>2. r.lvl - 1 \in Levels /\ r.lvl - 1 <= r.lvl
    BY <1>3, <1>8, Numbers DEF Levels
  <2>3. r.at \in Reach(r.lvl - 1)
    BY Zenon, <1>1, <1>3, <2>2 DEF ListInv, Reach
  <2>4. PICK s : s = [r EXCEPT !.lvl = r.lvl - 1]
    BY Zenon
  <2>5. /\ s \in ReaderRecords /\ s.pc = "near" /\ s.key = r.key /\ s.less = r.less
        /\ s.equal = r.equal /\ s.at = r.at /\ s.lvl = r.lvl - 1
    BY Zenon, <1>1, <1>2, <2>2, <2>4 DEF ReaderRecords
  <2> QED
    BY Zenon, <1>3, <1>4, <2>1, <2>2, <2>3, <2>4, <2>5
<1>9. CASE ~Before(n, r.key) /\ ~(r.equal /\ Matches(n, r.key)) /\ ~(r.lvl > 0)
  <2>1. r.lvl = 0
    BY <1>3, <1>9 DEF Levels
  <2>2. CASE ~r.less
    <3>1. wrong' = (wrong \/ n # Near(r.key, r.less, r.equal)) /\ DoRead(x, IdleReader)
      BY Zenon, <1>9, <2>2 DEF NearStep, Below
    <3>2. n = Near(r.key, r.less, r.equal)
      BY Zenon, <1>2, <1>9, <2>1, <2>2, NearFound
    <3> QED
      BY Zenon, <1>5, <3>1, <3>2
  <2>3. CASE r.less
    <3>1. PICK node : node = IF r.at = HeadNode THEN Nil ELSE r.at
      BY Zenon
    <3>2. wrong' = (wrong \/ node # Near(r.key, r.less, r.equal)) /\ DoRead(x, IdleReader)
      BY Zenon, <1>9, <2>3, <3>1 DEF NearStep, Below
    <3>3. node = Near(r.key, r.less, r.equal)
      BY Zenon, <1>2, <1>9, <2>1, <2>3, <3>1, NearFound
    <3> QED
      BY Zenon, <1>5, <3>2, <3>3
  <2> QED
    BY Zenon, <2>2, <2>3
<1> QED
  BY Zenon, <1>6, <1>7, <1>8, <1>9

\* An iteration starts at the first node.
LEMMA SeekToFirstStep ==
  ASSUME SkipInv, NEW x \in Readers, SeekToFirst(x)
  PROVE  SkipInv'
<1> DEFINE first == tower[HeadNode][0]
<1> PICK r : r = [IdleReader EXCEPT !.pc = "iterate", !.at = first, !.base = KeysIn]
  BY Zenon
<1>1. DoRead(x, r) /\ UNCHANGED unchangedList /\ UNCHANGED wrong
  BY Zenon DEF SeekToFirst
<1>2. TypeInv /\ ListInv /\ 0 \in Levels /\ HeadNode \in Reach(0) /\ K(HeadNode) = 0
  BY Zenon, Numbers DEF SkipInv, Reach, K
<1>3. first # Nil => first \in Linked(0) /\ first \in Int /\ K(first) = KeyOf(first)
  BY <1>2, ReachNodes, LinkedNodes
<1>4. KeysIn \subseteq Keys /\ first \in Int
  <2>1. first \in Int
    BY <1>3 DEF Nil
  <2> QED
    BY Zenon, <1>2, <2>1, LinkedNodes DEF KeysIn
<1>5. \A k \in KeysIn : first # Nil /\ KeyOf(first) <= k
  <2> SUFFICES ASSUME NEW m \in Linked(0) PROVE first # Nil /\ KeyOf(first) <= KeyOf(m)
    BY Zenon DEF KeysIn
  <2>1. K(HeadNode) < K(m) /\ K(m) = KeyOf(m)
    BY Zenon, <1>2, LinkedNodes
  <2>2. first # Nil /\ K(first) <= K(m)
    BY Zenon, <1>2, <2>1 DEF ListInv
  <2> QED
    BY Zenon, <1>3, <2>1, <2>2
<1>6. /\ r \in ReaderRecords /\ r.pc = "iterate" /\ r.at = first /\ r.base = KeysIn /\ r.seen = {}
  <2>1. IdleReader \in ReaderRecords /\ IdleReader.seen = {}
    BY Numbers DEF IdleReader, ReaderRecords, HeadNode
  <2> QED
    BY Zenon, <1>4, <2>1 DEF ReaderRecords
<1>7. rd'[x] = r
  BY Zenon, <1>1, <1>2 DEF DoRead, TypeInv
<1>8. KeysIn' = KeysIn /\ Linked(0)' = Linked(0) /\ \A n : KeyOf(n)' = KeyOf(n)
  BY Zenon, <1>1, <1>2, SameList DEF unchangedList
<1>9. ReaderInv(x)'
  <2>1. r.at # Nil => r.at \in Linked(0)'
    BY Zenon, <1>3, <1>6, <1>8
  <2>2. \A k \in r.base \ r.seen : r.at # Nil /\ KeyOf(r.at)' <= k
    BY Zenon, <1>5, <1>6, <1>8
  <2> QED
    BY Zenon, <1>6, <1>7, <1>8, <2>1, <2>2 DEF ReaderInv
<1>10. ~wrong'
  BY Zenon, <1>1 DEF SkipInv
<1> QED
  BY Zenon, <1>1, <1>6, <1>9, <1>10, OneReader

\* An iteration goes to the next node.
LEMMA IterNextStep ==
  ASSUME SkipInv, NEW x \in Readers, IterNext(x)
  PROVE  SkipInv'
<1> DEFINE q == rd[x]
           next == tower[q.at][0]
<1> PICK r : r = [q EXCEPT !.at = next, !.seen = @ \cup {KeyOf(q.at)}]
  BY Zenon
<1>1. /\ q.pc = "iterate" /\ q.at # Nil /\ DoRead(x, r)
      /\ UNCHANGED unchangedList /\ UNCHANGED wrong
  BY Zenon DEF IterNext
<1>2. TypeInv /\ ListInv /\ 0 \in Levels /\ ReaderInv(x) /\ q \in ReaderRecords
  BY Zenon, Numbers DEF SkipInv, TypeInv
<1>3. /\ q.at \in Linked(0) /\ q.at \in Reach(0) /\ q.base \subseteq KeysIn
      /\ \A k \in q.base \ q.seen : KeyOf(q.at) <= k
  BY Zenon, <1>1, <1>2 DEF ReaderInv, Reach
<1>4. KeyOf(q.at) \in Keys /\ KeyOf(q.at) \in Nat /\ K(q.at) = KeyOf(q.at)
  BY Zenon, <1>2, <1>3, LinkedNodes
<1>5. next # Nil => next \in Linked(0) /\ next \in Int /\ K(next) = KeyOf(next)
  BY <1>2, <1>3, ReachNodes, LinkedNodes
<1>6. next \in Int
  BY <1>5 DEF Nil
<1>7. /\ r \in ReaderRecords /\ r.pc = "iterate" /\ r.at = next /\ r.base = q.base
      /\ r.seen = q.seen \cup {KeyOf(q.at)}
  BY Zenon, <1>1, <1>2, <1>4, <1>6 DEF ReaderRecords
<1>8. rd'[x] = r
  BY Zenon, <1>1, <1>2 DEF DoRead, TypeInv
<1>9. KeysIn' = KeysIn /\ Linked(0)' = Linked(0) /\ \A n : KeyOf(n)' = KeyOf(n)
  BY Zenon, <1>1, <1>2, SameList DEF unchangedList
<1>10. ASSUME NEW k \in r.base \ r.seen PROVE next # Nil /\ KeyOf(next) <= k
  <2>1. PICK m \in Linked(0) : KeyOf(m) = k
    BY Zenon, <1>3, <1>7 DEF KeysIn
  <2>2. K(m) = k /\ k \in Nat
    BY Zenon, <1>2, <2>1, LinkedNodes
  <2>3. KeyOf(q.at) <= k /\ KeyOf(q.at) # k
    BY Zenon, <1>3, <1>7
  <2>4. K(q.at) < K(m)
    BY <1>4, <2>2, <2>3
  <2>5. next # Nil /\ K(next) <= K(m)
    BY Zenon, <1>2, <1>3, <2>4 DEF ListInv
  <2> QED
    BY Zenon, <1>5, <2>2, <2>5
<1>11. ReaderInv(x)'
  <2>1. r.at # Nil => r.at \in Linked(0)'
    BY Zenon, <1>5, <1>7, <1>9
  <2>2. \A k \in r.base \ r.seen : r.at # Nil /\ KeyOf(r.at)' <= k
    BY Zenon, <1>7, <1>9, <1>10
  <2> QED
    BY Zenon, <1>3, <1>7, <1>8, <1>9, <2>1, <2>2 DEF ReaderInv
<1>12. ~wrong'
  BY Zenon, <1>1 DEF SkipInv
<1> QED
  BY Zenon, <1>1, <1>7, <1>11, <1>12, OneReader

\* At the end of the list it has seen every key it had to.
LEMMA IterEndStep ==
  ASSUME SkipInv, NEW x \in Readers, IterEnd(x)
  PROVE  SkipInv'
<1> DEFINE q == rd[x]
<1>1. /\ q.pc = "iterate" /\ q.at = Nil /\ DoRead(x, IdleReader) /\ UNCHANGED unchangedList
      /\ wrong' = (wrong \/ ~(q.base \subseteq q.seen))
  BY Zenon DEF IterEnd
<1>2. q.base \subseteq q.seen
  BY Zenon, <1>1 DEF SkipInv, ReaderInv
<1>3. ~wrong'
  BY Zenon, <1>1, <1>2 DEF SkipInv
<1> QED
  BY Zenon, <1>1, <1>3, ReturnStep

-----------------------------------------------------------------------------
(* The theorems *)

\* Nothing happens.
LEMMA StutterStep ==
  ASSUME SkipInv, UNCHANGED vars
  PROVE  SkipInv'
<1>1. TypeInv /\ ListInv /\ UNCHANGED <<height, tower, value, puts, wr, rd, wrong, panic>>
  BY Zenon DEF SkipInv, vars
<1>2. TypeInv' /\ ListInv' /\ Grows(Nil)
  BY Zenon, <1>1, SameList, SameListInv DEF TypeInv, Nodes
<1>3. ASSUME NEW w \in Writers PROVE Owns(w)' /\ LocalInv(wr[w])'
  <2>1. Owns(w) /\ LocalInv(wr[w]) /\ wr[w] \in WriterRecords /\ wr'[w] = wr[w]
    BY Zenon, <1>1 DEF SkipInv, TypeInv
  <2>2. wr[w].put # Nil
    BY <2>1 DEF WriterRecords, Nil
  <2>3. LocalInv(wr[w])'
    BY Zenon, <1>1, <1>2, <2>1, <2>2, WriterKept DEF Owns
  <2> QED
    BY Zenon, <1>1, <2>1, <2>3 DEF Owns
<1>4. ASSUME NEW x \in Readers PROVE ReaderInv(x)'
  BY Zenon, <1>1, <1>2, ReaderKept
<1>5. ~wrong' /\ ~panic'
  BY Zenon, <1>1 DEF SkipInv
<1> QED
  BY Zenon, <1>2, <1>3, <1>4, <1>5 DEF SkipInv

\* Every step of a writer or a reader.
LEMMA NextStep == SkipInv /\ [Next]_vars => SkipInv'
<1> SUFFICES ASSUME SkipInv, [Next]_vars PROVE SkipInv'
  BY Zenon
<1>1. ASSUME NEW w \in Writers, PutStep(w) PROVE SkipInv'
  BY Zenon, <1>1, WalkStep, SpliceStep, SpliceEqualStep, SetValueStep, NewNodeStep, RaiseStep, ReloadStep,
     LinkStep DEF PutStep
<1>2. ASSUME NEW w \in Writers, NEW k \in Keys, Put(w, k) PROVE SkipInv'
  BY Zenon, <1>2, PutStartStep
<1>3. ASSUME NEW x \in Readers,
             \/ \E k \in Keys : Get(x, k) \/ SeekForPrev(x, k) \/ Prev(x, k)
             \/ FindLast(x) \/ NearStep(x) \/ SeekToFirst(x) \/ IterNext(x) \/ IterEnd(x)
      PROVE  SkipInv'
  BY Zenon, <1>3, SearchStep, NearSearchStep, SeekToFirstStep, IterNextStep, IterEndStep
<1>4. ASSUME UNCHANGED vars PROVE SkipInv'
  BY Zenon, <1>4, StutterStep
<1> QED
  BY Zenon, <1>1, <1>2, <1>3, <1>4 DEF Next

\* However many Puts, searches and iterations interleave, the invariant holds:
\* nodes are linked from the bottom (skiplist.go:318), and a splice is always a
\* pair of linked nodes around the key.
THEOREM Invariance == Spec => []SkipInv
  BY InitSkipInv, NextStep, PTL DEF Spec

\* Every level is sorted and part of the level below, a key has one node, and
\* Put never panics (skiplist.go:278-372).
THEOREM Sorted == Spec => []ListSound
<1>1. SkipInv => ListSound
  <2> SUFFICES ASSUME SkipInv PROVE ListSound
    BY Zenon
  <2>1. TypeInv /\ ListInv /\ ~panic
    BY Zenon DEF SkipInv
  <2>2. \A l \in Levels : l > 0 => Linked(l) \subseteq Linked(l - 1)
    <3> SUFFICES ASSUME NEW l \in Levels, l > 0 PROVE Linked(l) \subseteq Linked(l - 1)
      BY Zenon
    <3>1. l - 1 \in Levels /\ l - 1 <= l
      BY Numbers DEF Levels
    <3> QED
      BY Zenon, <2>1, <3>1 DEF ListInv
  <2>3. ASSUME NEW l \in Levels, NEW n \in Linked(l) \cup {HeadNode}
        PROVE  LET later == {m \in Linked(l) : K(m) > K(n)}
               IN  IF later = {} THEN tower[n][l] = Nil
                   ELSE tower[n][l] \in later /\ \A m \in later : K(tower[n][l]) <= K(m)
    <3>1. n \in Reach(l) /\ K(n) \in Nat /\ (tower[n][l] # Nil => tower[n][l] \in Linked(l))
      BY Zenon, <2>1, ReachNodes DEF Reach
    <3>2. \A m \in Linked(l) : K(m) \in Nat
      BY Zenon, <2>1, LinkedNodes
    <3> QED
      BY Zenon, <2>1, <3>1, <3>2 DEF ListInv
  <2> QED
    BY Zenon, <2>1, <2>2, <2>3 DEF ListSound, ListInv, K
<1> QED
  BY <1>1, Invariance, PTL

\* A search returns what is in the list at its last load, and an iteration meets
\* every key that was there when it started (skiplist.go:199).
THEOREM ExactSearches == Spec => []SearchExact
<1>1. SkipInv => SearchExact
  BY Zenon DEF SkipInv, SearchExact
<1> QED
  BY <1>1, Invariance, PTL

-----------------------------------------------------------------------------
(* Refinement *)

\* What AtomicMap sees of the writers.
CallOf ==
  [w \in Writers |->
    IF wr[w].pc = "idle" THEN [state |-> "idle", key |-> 0, id |-> 0]
    ELSE [state |-> IF wr[w].put \in Linked(0) THEN "applied" ELSE "called",
          key |-> PutKey(w), id |-> wr[w].put]]

\* AtomicMap sees nothing.
Quiet == Contents' = Contents /\ Len(puts') = Len(puts) /\ CallOf' = CallOf

\* Contents, without a choice: a key has one node.
ContentsAre ==
  /\ Contents = [k \in Keys |-> Contents[k]]
  /\ \A n \in Linked(0) : KeyOf(n) \in Keys /\ Contents[KeyOf(n)] = value[n]
  /\ \A k \in Keys : (\A n \in Linked(0) : KeyOf(n) # k) => Contents[k] = 0

\* It holds with the invariant.
LEMMA ContentsNow == TypeInv /\ ListInv => ContentsAre
<1> SUFFICES ASSUME TypeInv, ListInv PROVE ContentsAre
  BY Zenon
<1>1. ASSUME NEW n \in Linked(0) PROVE KeyOf(n) \in Keys /\ Contents[KeyOf(n)] = value[n]
  <2>1. KeyOf(n) \in Keys /\ KeyOf(n) \in KeysIn
    BY Zenon, LinkedNodes, Numbers DEF KeysIn
  <2>2. (CHOOSE m \in Linked(0) : KeyOf(m) = KeyOf(n)) = n
    BY Zenon DEF ListInv
  <2> QED
    BY Zenon, <2>1, <2>2 DEF Contents
<1>2. ASSUME NEW k \in Keys, \A n \in Linked(0) : KeyOf(n) # k PROVE Contents[k] = 0
  BY Zenon, <1>2 DEF Contents, KeysIn
<1>3. Contents = [k \in Keys |-> Contents[k]]
  BY DEF Contents
<1> QED
  BY Zenon, <1>1, <1>2, <1>3 DEF ContentsAre

\* The same after a step.
LEMMA ContentsNext == TypeInv' /\ ListInv' => ContentsAre'
  BY ContentsNow, PTL

\* A step that links nothing and overwrites nothing.
LEMMA SameContents ==
  ASSUME SkipInv, SkipInv', NEW p, Grows(p), Linked(0)' = Linked(0),
         \A m \in Linked(0) : value'[m] = value[m]
  PROVE  Contents' = Contents
<1>1. ContentsAre /\ ContentsAre' /\ TypeInv /\ 0 \in Levels
  BY Zenon, ContentsNow, ContentsNext, Numbers DEF SkipInv
<1>2. \A m \in Linked(0) : KeyOf(m)' = KeyOf(m)
  BY Zenon, <1>1, KeysStay
<1>3. ASSUME NEW k \in Keys PROVE Contents'[k] = Contents[k]
  <2>1. CASE \E m \in Linked(0) : KeyOf(m) = k
    BY <1>1, <1>2, <2>1 DEF ContentsAre
  <2>2. CASE \A m \in Linked(0) : KeyOf(m) # k
    BY <1>1, <1>2, <2>2 DEF ContentsAre
  <2> QED
    BY Zenon, <2>1, <2>2
<1>4. Contents = [k \in Keys |-> Contents[k]] /\ Contents' = [k \in Keys |-> Contents'[k]]
  BY Zenon, <1>1 DEF ContentsAre
<1> QED
  BY Zenon, <1>3, <1>4

\* A step that links or overwrites the node n.
LEMMA OneKey ==
  ASSUME SkipInv, SkipInv', NEW p, Grows(p), NEW n, Linked(0)' = Linked(0) \cup {n},
         \A m \in Linked(0) \ {n} : value'[m] = value[m], NEW k, k = KeyOf(n)'
  PROVE  Contents' = [Contents EXCEPT ![k] = value'[n]]
<1>1. ContentsAre /\ ContentsAre' /\ TypeInv /\ 0 \in Levels
  BY Zenon, ContentsNow, ContentsNext, Numbers DEF SkipInv
<1>2. \A m \in Linked(0) : KeyOf(m)' = KeyOf(m)
  BY Zenon, <1>1, KeysStay
<1>3. k \in Keys /\ Contents'[k] = value'[n]
  BY Zenon, <1>1 DEF ContentsAre
<1>4. ASSUME NEW j \in Keys, j # k PROVE Contents'[j] = Contents[j]
  <2>1. CASE \E m \in Linked(0) \ {n} : KeyOf(m) = j
    BY <1>1, <1>2, <2>1 DEF ContentsAre
  <2>2. CASE \A m \in Linked(0) \ {n} : KeyOf(m) # j
    <3>1. \A m \in Linked(0)' : KeyOf(m)' # j
      BY Zenon, <1>2, <1>4, <2>2
    <3>2. \A m \in Linked(0) : KeyOf(m) # j
      BY Zenon, <1>2, <1>4, <2>2
    <3> QED
      BY Zenon, <1>1, <3>1, <3>2 DEF ContentsAre
  <2> QED
    BY Zenon, <2>1, <2>2
<1>5. Contents = [j \in Keys |-> Contents[j]] /\ Contents' = [j \in Keys |-> Contents'[j]]
  BY Zenon, <1>1 DEF ContentsAre
<1> QED
  BY Zenon, <1>3, <1>4, <1>5

\* The calls of the other writers are what they were.
LEMMA CallsKept ==
  ASSUME SkipInv, NEW p, Grows(p), NEW w \in Writers,
         \A v \in Writers \ {w} : wr'[v] = wr[v] /\ wr[v].put # p
  PROVE  CallOf' = [CallOf EXCEPT ![w] = CallOf'[w]]
<1>1. ASSUME NEW v \in Writers \ {w} PROVE CallOf'[v] = CallOf[v]
  <2>1. Owns(v) /\ wr'[v] = wr[v] /\ wr[v].put # p
    BY Zenon DEF SkipInv
  <2>2. wr[v].pc # "idle" => KeyOf(wr[v].put)' = KeyOf(wr[v].put)
    BY Zenon, <2>1 DEF Owns, Grows, KeyOf
  <2>3. wr[v].put \in Linked(0)' <=> wr[v].put \in Linked(0)
    BY Zenon, <2>1, Numbers DEF Grows
  <2>4. wr[v].pc # "idle" => PutKey(v)' = PutKey(v)
    BY Zenon, <2>1, <2>2 DEF PutKey, KeyOf
  <2> QED
    BY Zenon, <2>1, <2>3, <2>4 DEF CallOf
<1>2. CallOf' = [v \in Writers |-> CallOf'[v]] /\ CallOf = [v \in Writers |-> CallOf[v]]
  BY Zenon DEF CallOf
<1> HIDE DEF CallOf
<1> QED
  BY Zenon, <1>1, <1>2

\* A step inside a Put that links and overwrites nothing at the base level.
LEMMA QuietStep ==
  ASSUME SkipInv, SkipInv', NEW w \in Writers, NEW r, Do(w, r),
         wr[w].pc # "idle", r.pc # "idle", r.put = wr[w].put, puts' = puts,
         Grows(wr[w].put), Linked(0)' = Linked(0), \A m \in Linked(0) : value'[m] = value[m]
  PROVE  Quiet
<1>1. Owns(w) /\ TypeInv
  BY Zenon DEF SkipInv
<1>2. wr'[w] = r /\ \A v \in Writers \ {w} : wr'[v] = wr[v] /\ wr[v].put # wr[w].put
  BY Zenon, <1>1 DEF Do, Owns, TypeInv
<1>3. CallOf' = [CallOf EXCEPT ![w] = CallOf'[w]]
  BY Zenon, <1>2, CallsKept
<1>4. CallOf'[w] = CallOf[w]
  BY Zenon, <1>2 DEF CallOf, PutKey, KeyOf
<1>5. CallOf' = CallOf
  <2>1. CallOf = [v \in Writers |-> CallOf[v]]
    BY Zenon DEF CallOf
  <2> HIDE DEF CallOf
  <2> QED
    BY Zenon, <1>3, <1>4, <2>1
<1>6. Contents' = Contents
  BY Zenon, SameContents
<1> QED
  BY Zenon, <1>5, <1>6 DEF Quiet

\* The searches, the height and the allocation of a Put.
LEMMA QuietPut ==
  ASSUME SkipInv, SkipInv', NEW w \in Writers,
         \/ Walk(w) \/ Splice(w) \/ SpliceEqual(w) \/ Raise(w) \/ Reload(w)
         \/ \E h \in 1..MaxHeight : NewNode(w, h)
  PROVE  Quiet
<1> DEFINE q == wr[w]
<1>1. TypeInv /\ q \in WriterRecords /\ 0 \in Levels
  BY Zenon, Numbers DEF SkipInv, TypeInv
<1>2. UNCHANGED <<tower, value, puts>> =>
        /\ puts' = puts /\ Grows(q.put) /\ Linked(0)' = Linked(0)
        /\ \A m \in Linked(0) : value'[m] = value[m]
  BY Zenon, <1>1, SameList
<1>3. CASE Walk(w)
  <2>1. PICK r : r = [q EXCEPT !.at = Ahead(w)]
    BY Zenon
  <2>2. Do(w, r) /\ q.pc # "idle" /\ UNCHANGED <<tower, value, puts>>
    BY Zenon, <1>3, <2>1 DEF Walk, Walking
  <2>3. r.pc = q.pc /\ r.put = q.put
    BY Zenon, <1>1, <2>1 DEF WriterRecords
  <2> QED
    BY Zenon, <1>2, <2>2, <2>3, QuietStep
<1>4. CASE Splice(w)
  <2>1. PICK s : s = [q EXCEPT !.prev[q.lvl] = q.at, !.next[q.lvl] = Ahead(w)]
    BY Zenon
  <2>2. PICK r : r = IF q.pc # "search" THEN [s EXCEPT !.pc = "link"]
                     ELSE IF q.lvl > 0  THEN [s EXCEPT !.lvl = q.lvl - 1]
                     ELSE [s EXCEPT !.pc = "alloc"]
    BY Zenon
  <2>3. Do(w, r) /\ q.pc \in Walking /\ UNCHANGED <<tower, value, puts>>
    BY Zenon, <1>4, <2>1, <2>2 DEF Splice
  <2>4. s.pc = q.pc /\ s.put = q.put /\ DOMAIN s = DOMAIN q
    BY Zenon, <1>1, <2>1 DEF WriterRecords
  <2>5. "pc" \in DOMAIN s /\ "put" \in DOMAIN s
    BY Zenon, <1>1, <2>4 DEF WriterRecords
  <2>6. r.pc # "idle" /\ r.put = q.put
    BY Zenon, <2>2, <2>3, <2>4, <2>5 DEF Walking
  <2> QED
    BY Zenon, <1>2, <2>3, <2>6, QuietStep DEF Walking
<1>5. CASE SpliceEqual(w)
  <2>1. PICK r : r = [q EXCEPT !.pc = "set", !.at = Ahead(w)]
    BY Zenon
  <2>2. Do(w, r) /\ q.pc # "idle" /\ UNCHANGED <<tower, value, puts>>
    BY Zenon, <1>5, <2>1 DEF SpliceEqual, Walking
  <2>3. r.pc = "set" /\ r.put = q.put
    BY Zenon, <1>1, <2>1 DEF WriterRecords
  <2> QED
    BY Zenon, <1>2, <2>2, <2>3, QuietStep
<1>6. CASE Raise(w)
  <2>1. PICK r : r = IF height = q.list THEN LinkAt(q, 0) ELSE [q EXCEPT !.pc = "reload"]
    BY Zenon
  <2>2. Do(w, r) /\ q.pc # "idle" /\ UNCHANGED <<tower, value, puts>>
    BY Zenon, <1>6, <2>1 DEF Raise
  <2>3. r.pc # "idle" /\ r.put = q.put
    <3>1. [q EXCEPT !.pc = "reload"].pc = "reload" /\ [q EXCEPT !.pc = "reload"].put = q.put
      BY Zenon, <1>1 DEF WriterRecords
    <3> QED
      BY Zenon, <1>1, <2>1, <3>1, LinkAtRecord
  <2> QED
    BY Zenon, <1>2, <2>2, <2>3, QuietStep
<1>7. CASE Reload(w) \/ \E h \in 1..MaxHeight : NewNode(w, h)
  <2>1. height \in Nat
    BY <1>1, Numbers DEF TypeInv
  <2>2. ASSUME NEW s \in WriterRecords, s.put = q.put, NEW r,
               r = [s EXCEPT !.pc = "raise"] \/ r = LinkAt(s, 0)
        PROVE  r.pc # "idle" /\ r.put = q.put
    <3>1. [s EXCEPT !.pc = "raise"].pc = "raise" /\ [s EXCEPT !.pc = "raise"].put = q.put
      BY Zenon, <2>2 DEF WriterRecords
    <3>2. LinkAt(s, 0).put = q.put /\ LinkAt(s, 0).pc # "idle"
      BY Zenon, <1>1, <2>2, LinkAtRecord
    <3> QED
      BY Zenon, <2>2, <3>1, <3>2
  <2>3. CASE Reload(w)
    <3>1. PICK s : s = [q EXCEPT !.list = height]
      BY Zenon
    <3>2. s \in WriterRecords /\ s.put = q.put /\ s.pc = q.pc
      BY Zenon, <1>1, <2>1, <3>1 DEF WriterRecords
    <3>3. PICK r : r = IF s.h > height THEN [s EXCEPT !.pc = "raise"] ELSE LinkAt(s, 0)
      BY Zenon
    <3>4. Do(w, r) /\ q.pc # "idle" /\ UNCHANGED <<tower, value, puts>>
      BY Zenon, <2>3, <3>1, <3>2, <3>3 DEF Reload
    <3>5. r.pc # "idle" /\ r.put = q.put
      BY Zenon, <2>2, <3>2, <3>3
    <3> QED
      BY Zenon, <1>2, <3>4, <3>5, QuietStep
  <2>4. ASSUME NEW h \in 1..MaxHeight, NewNode(w, h) PROVE Quiet
    <3> DEFINE s == [q EXCEPT !.h = h, !.list = height]
               r == IF h > height THEN [s EXCEPT !.pc = "raise"] ELSE LinkAt(s, 0)
    <3>1. h \in Nat
      BY Numbers
    <3>2. s \in WriterRecords /\ s.put = q.put /\ s.pc = q.pc
      BY Zenon, <1>1, <2>1, <3>1 DEF WriterRecords
    <3>3. r = [s EXCEPT !.pc = "raise"] \/ r = LinkAt(s, 0)
      BY Zenon
    <3>4. /\ Do(w, r) /\ q.pc = "alloc" /\ puts' = puts
          /\ value' = [n \in DOMAIN value \cup {q.put} |-> IF n = q.put THEN q.put ELSE value[n]]
      <4>1. Do(w, r)
        BY Zenon, <2>4 DEF NewNode
      <4>2. q.pc = "alloc"
        BY Zenon, <2>4, <3>2 DEF NewNode
      <4>3. puts' = puts
        BY Zenon, <2>4 DEF NewNode
      <4>4. value' = [n \in DOMAIN value \cup {s.put} |-> IF n = s.put THEN s.put ELSE value[n]]
        BY Zenon, <2>4 DEF NewNode
      <4> HIDE DEF s, r
      <4> QED
        BY Zenon, <3>2, <4>1, <4>2, <4>3, <4>4
    <3> HIDE DEF s, r
    <3>5. r.pc # "idle" /\ r.put = q.put
      BY Zenon, <2>2, <3>2, <3>3
    <3>6. Grows(q.put) /\ Linked(0)' = Linked(0)
      BY Zenon, <2>4, NewNodeStep
    <3>7. q.put \notin Nodes /\ DOMAIN value = Nodes
      BY Zenon, <1>1, <3>4 DEF SkipInv, LocalInv, NodeInv, TypeInv
    <3>8. \A m \in Linked(0) : value'[m] = value[m]
      BY Zenon, <1>1, <3>4, <3>7, LinkedNodes
    <3> QED
      BY Zenon, <3>4, <3>5, <3>6, <3>8, QuietStep
  <2> QED
    BY Zenon, <1>7, <2>3, <2>4
<1> QED
  BY Zenon, <1>3, <1>4, <1>5, <1>6, <1>7

\* Searches and iterations change nothing.
LEMMA QuietRead ==
  ASSUME UNCHANGED <<tower, value, puts, wr>>
  PROVE  Quiet
<1>1. CallOf' = CallOf
  BY Zenon DEF CallOf, PutKey, KeyOf, Linked
<1>2. Contents' = Contents
  BY DEF Contents, KeysIn, KeyOf, Linked
<1> QED
  BY Zenon, <1>1, <1>2 DEF Quiet

\* Put is a call.
LEMMA PutCalls ==
  ASSUME SkipInv, SkipInv', NEW w \in Writers, NEW k \in Keys, Put(w, k)
  PROVE  Map!Call(w)
<1> PICK n \in Int : n = Len(puts) + 1
  BY DEF SkipInv, TypeInv
<1>1. /\ wr[w].pc = "idle" /\ puts' = Append(puts, k) /\ UNCHANGED <<tower, value>>
      /\ wr' = [wr EXCEPT ![w] = wr'[w]] /\ wr'[w].pc = "search" /\ wr'[w].put = Len(puts')
  BY Zenon DEF Put, Do, SkipInv, TypeInv, IdleWriter
<1>2. TypeInv /\ 0 \in Levels /\ \A v \in Writers : Owns(v)
  BY Zenon, Numbers DEF SkipInv
<1>3. /\ Len(puts) \in Nat /\ Len(puts') = n /\ KeyOf(n)' = k
      /\ \A i \in 1..Len(puts) : puts'[i] = puts[i]
  <2>1. puts \in Seq(Keys) /\ Len(puts) \in Nat
    BY <1>2 DEF TypeInv
  <2> QED
    BY <1>1, <2>1 DEF KeyOf
<1>4. Nodes' = Nodes /\ n \notin Nodes /\ \A l \in Levels : Linked(l)' = Linked(l)
  BY <1>1, <1>2, <1>3 DEF Nodes, Linked, TypeInv
<1>5. Grows(n)
  BY <1>1, <1>3, <1>4 DEF Grows
<1>6. Contents' = Contents
  BY Zenon, <1>1, <1>2, <1>4, <1>5, SameContents
<1>7. \A v \in Writers \ {w} : wr'[v] = wr[v] /\ wr[v].put # n
  BY <1>1, <1>2, <1>3 DEF Owns, TypeInv
<1>8. CallOf' = [CallOf EXCEPT ![w] = CallOf'[w]]
  BY <1>5, <1>7, CallsKept
<1>9. n \notin Linked(0)'
  BY Zenon, <1>2, <1>4, LinkedNodes
<1>10. CallOf'[w] = [state |-> "called", key |-> k, id |-> n]
  <2>1. PutKey(w)' = k
    BY Zenon, <1>1, <1>3 DEF PutKey, KeyOf
  <2> QED
    BY Zenon, <1>1, <1>3, <1>9, <2>1 DEF CallOf
<1>11. CallOf[w].state = "idle"
  BY Zenon, <1>1 DEF CallOf
<1> QED
  BY Zenon, <1>3, <1>6, <1>8, <1>10, <1>11 DEF Map!Call, CallOf

\* setValue takes effect and returns.
LEMMA SetValueApplies ==
  ASSUME SkipInv, SkipInv', NEW w \in Writers, SetValue(w)
  PROVE  Map!Apply(w)
<1> DEFINE q == wr[w]
<1> PICK n, u : n = q.at /\ u = q.put
  BY Zenon
<1>1. /\ q.pc = "set" /\ value' = [value EXCEPT ![n] = u] /\ UNCHANGED <<tower, puts>>
      /\ wr' = [wr EXCEPT ![w] = IdleWriter]
  BY Zenon DEF SetValue, Do
<1>2. TypeInv /\ 0 \in Levels /\ Owns(w) /\ NodeInv(q)
  BY Zenon, Numbers DEF SkipInv, LocalInv
<1>3. n \in Linked(0) /\ KeyOf(n) = KeyOf(u) /\ u \notin Linked(0)
  BY Zenon, <1>1, <1>2 DEF NodeInv
<1>4. /\ Nodes' = Nodes /\ \A l \in Levels : Linked(l)' = Linked(l)
      /\ \A m : KeyOf(m)' = KeyOf(m)
  BY Zenon, <1>1 DEF Nodes, Linked, KeyOf
<1>5. Grows(u)
  BY <1>1, <1>2, <1>3, <1>4 DEF Grows, TypeInv
<1>6. value'[n] = u /\ \A m \in Linked(0) \ {n} : value'[m] = value[m]
  BY Zenon, <1>1, <1>2, <1>3, LinkedNodes DEF TypeInv
<1>7. Contents' = [Contents EXCEPT ![KeyOf(u)] = u]
  <2>1. Linked(0)' = Linked(0) \cup {n} /\ KeyOf(u) = KeyOf(n)'
    BY Zenon, <1>2, <1>3, <1>4
  <2> QED
    BY Zenon, <1>5, <1>6, <2>1, OneKey
<1>8. wr'[w] = IdleWriter /\ \A v \in Writers \ {w} : wr'[v] = wr[v] /\ wr[v].put # u
  BY Zenon, <1>1, <1>2 DEF Owns, TypeInv
<1>9. CallOf' = [CallOf EXCEPT ![w] = CallOf'[w]]
  BY <1>5, <1>8, CallsKept
<1>10. CallOf'[w] = [state |-> "idle", key |-> 0, id |-> 0]
  BY <1>8 DEF CallOf, IdleWriter
<1>11. CallOf[w].state = "called" /\ CallOf[w].key = KeyOf(u) /\ CallOf[w].id = u
  BY Zenon, <1>1, <1>3 DEF CallOf, PutKey
<1> QED
  BY Zenon, <1>1, <1>7, <1>9, <1>10, <1>11 DEF Map!Apply, Map!NoCall, CallOf

\* A successful compare-and-swap takes effect at the base level, and the last one
\* returns.
LEMMA SwapApplies ==
  ASSUME SkipInv, SkipInv', NEW w \in Writers, Link(w),
         CAS(wr[w].prev[wr[w].lvl], wr[w].lvl, wr[w].next[wr[w].lvl])
  PROVE  Map!Apply(w) \/ Map!Return(w) \/ Quiet
<1> DEFINE q == wr[w]
<1> PICK l, u : l = q.lvl /\ u = q.put
  BY Zenon
<1>1. /\ q.pc = "link" /\ UNCHANGED <<value, puts>>
      /\ wr' = [wr EXCEPT ![w] = IF l + 1 = q.h THEN IdleWriter ELSE LinkAt(q, l + 1)]
  BY Zenon DEF Link, Do
<1>2. TypeInv /\ 0 \in Levels /\ Owns(w)
  BY Zenon, Numbers DEF SkipInv
<1>3. /\ l \in Levels /\ q \in WriterRecords /\ q.h \in 1..MaxHeight /\ l < q.h
      /\ \A i \in Levels : u \in Linked(i) <=> i < l
      /\ l = 0 => value[u] = u
  BY <1>1, LinkFacts
<1>4. Grows(u) /\ Linked(0)' = IF l = 0 THEN Linked(0) \cup {u} ELSE Linked(0)
  BY Zenon, SwapStep
<1>5. \A v \in Writers \ {w} : wr'[v] = wr[v] /\ wr[v].put # u
  BY Zenon, <1>1, <1>2 DEF Owns, TypeInv
<1>6. CallOf' = [CallOf EXCEPT ![w] = CallOf'[w]]
  BY <1>4, <1>5, CallsKept
<1>7. CASE l + 1 = q.h
  <2>1. wr'[w] = IdleWriter
    BY Zenon, <1>1, <1>2, <1>7 DEF TypeInv
  <2>2. CallOf'[w] = [state |-> "idle", key |-> 0, id |-> 0]
    BY <2>1 DEF CallOf, IdleWriter
  <2>3. CASE l = 0
    <3>1. Contents' = [Contents EXCEPT ![KeyOf(u)] = u]
      <4>1. KeyOf(u) = KeyOf(u)' /\ Linked(0)' = Linked(0) \cup {u} /\ value'[u] = u
        BY Zenon, <1>1, <1>3, <1>4, <2>3 DEF KeyOf
      <4>2. \A m \in Linked(0) \ {u} : value'[m] = value[m]
        BY Zenon, <1>1
      <4> QED
        BY <1>4, <4>1, <4>2, OneKey
    <3>2. u \notin Linked(0)
      BY <1>2, <1>3, <2>3
    <3>3. CallOf[w].state = "called" /\ CallOf[w].key = KeyOf(u) /\ CallOf[w].id = u
      BY Zenon, <1>1, <3>2 DEF CallOf, PutKey
    <3> QED
      BY Zenon, <1>1, <1>6, <2>2, <3>1, <3>3 DEF Map!Apply, Map!NoCall, CallOf
  <2>4. CASE l # 0
    <3>1. u \in Linked(0)
      BY <1>2, <1>3, <2>4, Numbers
    <3>2. CallOf[w].state = "applied"
      BY Zenon, <1>1, <3>1 DEF CallOf
    <3>3. Linked(0)' = Linked(0) /\ \A m \in Linked(0) : value'[m] = value[m]
      BY Zenon, <1>1, <1>4, <2>4
    <3>4. Contents' = Contents
      BY Zenon, <1>4, <3>3, SameContents
    <3> QED
      BY Zenon, <1>1, <1>6, <2>2, <3>2, <3>4 DEF Map!Return, Map!NoCall, CallOf
  <2> QED
    BY Zenon, <2>3, <2>4
<1>8. CASE l + 1 # q.h
  <2>1. wr'[w] = LinkAt(q, l + 1) /\ l + 1 \in Levels
    BY SMTT(30), <1>1, <1>2, <1>3, <1>8, Numbers DEF TypeInv, Levels
  <2>2. wr'[w].put = u /\ wr'[w].pc # "idle"
    BY SMTT(30), <1>3, <2>1, LinkAtRecord
  <2>3. CASE l = 0
    <3>1. Contents' = [Contents EXCEPT ![KeyOf(u)] = u]
      <4>1. KeyOf(u) = KeyOf(u)' /\ Linked(0)' = Linked(0) \cup {u} /\ value'[u] = u
        BY Zenon, <1>1, <1>3, <1>4, <2>3 DEF KeyOf
      <4>2. \A m \in Linked(0) \ {u} : value'[m] = value[m]
        BY Zenon, <1>1
      <4> QED
        BY <1>4, <4>1, <4>2, OneKey
    <3>2. u \notin Linked(0) /\ u \in Linked(0)'
      BY <1>2, <1>3, <1>4, <2>3
    <3>3. CallOf[w] = [state |-> "called", key |-> KeyOf(u), id |-> u]
      BY Zenon, <1>1, <3>2 DEF CallOf, PutKey
    <3>4. CallOf'[w] = [state |-> "applied", key |-> KeyOf(u), id |-> u]
      <4>1. PutKey(w)' = KeyOf(u)
        BY Zenon, <1>1, <2>2 DEF PutKey, KeyOf
      <4> QED
        BY Zenon, <2>2, <3>2, <4>1 DEF CallOf
    <3>5. CallOf' = [CallOf EXCEPT ![w].state = "applied"]
      <4> HIDE DEF CallOf
      <4>1. [CallOf[w] EXCEPT !.state = "applied"] = CallOf'[w]
        BY SMTT(30), <3>3, <3>4
      <4> QED
        BY Zenon, <1>6, <4>1
    <3> QED
      BY Zenon, <1>1, <3>1, <3>3, <3>5 DEF Map!Apply, CallOf
  <2>4. CASE l # 0
    <3>1. Linked(0)' = Linked(0) /\ \A m \in Linked(0) : value'[m] = value[m]
      BY Zenon, <1>1, <1>4, <2>4
    <3>2. Do(w, LinkAt(q, l + 1))
      BY Zenon, <1>1, <1>8 DEF Do
    <3> QED
      BY Zenon, <1>1, <1>4, <2>1, <2>2, <3>1, <3>2, QuietStep
  <2> QED
    BY Zenon, <2>3, <2>4
<1> QED
  BY Zenon, <1>7, <1>8

\* A failed compare-and-swap is not seen.
LEMMA RetryQuiet ==
  ASSUME SkipInv, SkipInv', NEW w \in Writers, Link(w),
         ~CAS(wr[w].prev[wr[w].lvl], wr[w].lvl, wr[w].next[wr[w].lvl])
  PROVE  Quiet
<1>1. wr[w].pc = "link" /\ Do(w, Retry(wr[w])) /\ UNCHANGED <<value, puts>>
  BY Zenon DEF Link
<1>2. Grows(wr[w].put) /\ Linked(0)' = Linked(0)
  BY Zenon, RetryStep
<1>3. Retry(wr[w]).pc = "retry" /\ Retry(wr[w]).put = wr[w].put
  BY Zenon DEF SkipInv, TypeInv, WriterRecords, Retry
<1> QED
  BY Zenon, <1>1, <1>2, <1>3, QuietStep

\* Every step is a step of AtomicMap or is not seen.
LEMMA StepRefines == SkipInv /\ SkipInv' /\ [Next]_vars => [Map!Next]_(Map!mapVars)
<1> SUFFICES ASSUME SkipInv, SkipInv', [Next]_vars PROVE [Map!Next]_(Map!mapVars)
  BY Zenon
<1>1. Quiet => UNCHANGED Map!mapVars
  BY Zenon DEF Quiet, Map!mapVars, CallOf
<1>2. ASSUME NEW w \in Writers, PutStep(w) PROVE Quiet \/ Map!Next
  BY Zenon, <1>2, QuietPut, SetValueApplies, SwapApplies, RetryQuiet DEF PutStep, Map!Next
<1>3. ASSUME NEW w \in Writers, NEW k \in Keys, Put(w, k) PROVE Map!Next
  BY Zenon, <1>3, PutCalls DEF Map!Next
<1>4. ASSUME NEW x \in Readers,
             \/ \E k \in Keys : Get(x, k) \/ SeekForPrev(x, k) \/ Prev(x, k)
             \/ FindLast(x) \/ NearStep(x) \/ SeekToFirst(x) \/ IterNext(x) \/ IterEnd(x)
      PROVE  Quiet
  <2>1. UNCHANGED unchangedList
    BY Zenon, <1>4 DEF Get, SeekForPrev, Prev, FindLast, FindNear, NearStep, SeekToFirst, IterNext, IterEnd
  <2> QED
    BY Zenon, <2>1, QuietRead DEF unchangedList
<1>5. ASSUME UNCHANGED vars PROVE Quiet
  BY Zenon, <1>5, QuietRead DEF vars
<1> QED
  BY Zenon, <1>1, <1>2, <1>3, <1>4, <1>5 DEF Next

\* New is empty and has no calls.
LEMMA InitRefines == Init => Map!Init
<1> SUFFICES ASSUME Init PROVE Map!Init
  BY Zenon
<1>1. Linked(0) = {}
  BY Zenon, Numbers DEF Init, Linked, NoTower
<1>2. Contents = [k \in Keys |-> 0]
  BY Zenon, <1>1 DEF Contents, KeysIn
<1>3. Len(puts) = 0
  BY Zenon DEF Init
<1>4. CallOf = [w \in Writers |-> [state |-> "idle", key |-> 0, id |-> 0]]
  BY Zenon DEF Init, CallOf, IdleWriter
<1> QED
  BY Zenon, <1>2, <1>3, <1>4 DEF Map!Init, Map!NoCall, CallOf

\* Every Put takes effect exactly once, atomically, between its call and its return
\* (skiplist.go:278): the skiplist implements AtomicMap.
THEOREM Refinement == Spec => ImplementsAtomicMap
  BY InitRefines, StepRefines, Invariance, PTL DEF Spec, ImplementsAtomicMap, Map!Spec
=============================================================================
