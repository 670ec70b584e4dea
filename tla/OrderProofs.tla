---------------------------- MODULE OrderProofs ----------------------------
(***************************************************************************)
(* Least and greatest elements of sets of numbers, and what writing out a  *)
(* finite set in an order yields.                                          *)
(***************************************************************************)
EXTENDS Order, FiniteSetsExt, FiniteSetTheorems, WellFoundedInduction, TLAPS

-----------------------------------------------------------------------------
(* Least and greatest elements *)

\* A set of numbers has a least element.
LEMMA MinExists ==
  ASSUME NEW S, S \subseteq Nat, S # {}
  PROVE  Min(S) \in S /\ \A x \in S : Min(S) <= x
<1>1. PICK x \in S : \A y \in S : ~(<<y, x>> \in OpToRel(<, Nat))
  <2>1. IsWellFoundedOn(OpToRel(<, Nat), Nat)
    BY Zenon, NatLessThanWellFounded
  <2> QED
    BY Zenon, <2>1, WFMin
<1>2. \A y \in S : x <= y
  <2> TAKE y \in S
  <2>1. x \in Nat /\ y \in Nat
    BY Zenon
  <2>2. y < x => <<y, x>> \in OpToRel(<, Nat)
    BY Zenon, <2>1 DEF OpToRel
  <2>3. ~(y < x)
    BY Zenon, <2>2, <1>1
  <2> QED
    BY <2>1, <2>3
<1> QED
  BY Zenon, <1>1, <1>2 DEF Min

\* A bounded set of numbers has a greatest element.
LEMMA MaxExists ==
  ASSUME NEW S, S \subseteq Nat, S # {}, NEW b \in Nat, \A x \in S : x <= b
  PROVE  Max(S) \in S /\ \A x \in S : x <= Max(S)
<1> DEFINE T == {b - x : x \in S}
<1>1. T \subseteq Nat /\ T # {}
  <2>1. \A x \in S : x \in Nat /\ x <= b
    BY Zenon
  <2>2. \A x \in S : b - x \in Nat
    BY <2>1
  <2> QED
    BY <2>2, Zenon
<1> HIDE DEF T
<1>2. Min(T) \in T /\ \A y \in T : Min(T) <= y
  BY <1>1, MinExists, Zenon
<1>3. PICK x \in S : Min(T) = b - x
  BY <1>2, Zenon DEF T
<1>4. \A y \in S : y <= x
  <2> TAKE y \in S
  <2>1. b - y \in T
    BY Zenon DEF T
  <2>2. b - x <= b - y
    BY Zenon, <2>1, <1>2, <1>3
  <2> QED
    BY <2>2, <1>3
<1> QED
  BY <1>3, <1>4, Zenon DEF Max

-----------------------------------------------------------------------------
(* Sets in an order *)

\* R orders S strictly and totally.
Orders(R, S) ==
  /\ \A x \in S : <<x, x>> \notin R
  /\ \A x, y, z \in S : <<x, y>> \in R /\ <<y, z>> \in R => <<x, z>> \in R
  /\ \A x, y \in S : x # y => <<x, y>> \in R \/ <<y, x>> \in R

\* The elements that precede x.
Below(S, R, x) == {y \in S : <<y, x>> \in R}

Rank(S, R, x) == Cardinality(Below(S, R, x))

\* Later elements have a higher rank, and all ranks are below the number of elements.
LEMMA RankGrows ==
  ASSUME NEW S, IsFiniteSet(S), NEW R, Orders(R, S)
  PROVE  /\ \A x \in S : Rank(S, R, x) \in 0..Cardinality(S) - 1
         /\ \A x, y \in S : <<x, y>> \in R => Rank(S, R, x) < Rank(S, R, y)
<1>1. Cardinality(S) \in Nat
  BY Zenon, FS_CardinalityType
<1>2. ASSUME NEW x \in S
      PROVE  IsFiniteSet(Below(S, R, x)) /\ Rank(S, R, x) \in Nat
  <2>1. Below(S, R, x) \in SUBSET S
    BY Zenon DEF Below
  <2> QED
    BY Zenon, <2>1, FS_Subset, FS_CardinalityType DEF Rank
<1>3. ASSUME NEW x \in S
      PROVE  Rank(S, R, x) < Cardinality(S)
  <2>1. Below(S, R, x) \in SUBSET S
    BY Zenon DEF Below
  <2>2. x \notin Below(S, R, x)
    BY Zenon DEF Below, Orders
  <2>3. Rank(S, R, x) <= Cardinality(S) /\ Rank(S, R, x) # Cardinality(S)
    BY Zenon, <2>1, <2>2, FS_Subset DEF Rank
  <2> QED
    BY <2>3, <1>1, <1>2
<1>4. ASSUME NEW x \in S, NEW y \in S, <<x, y>> \in R
      PROVE  Rank(S, R, x) < Rank(S, R, y)
  <2>1. Below(S, R, x) \in SUBSET Below(S, R, y)
    BY Zenon, <1>4 DEF Below, Orders
  <2>2. x \notin Below(S, R, x) /\ x \in Below(S, R, y)
    BY Zenon, <1>4 DEF Below, Orders
  <2>3. IsFiniteSet(Below(S, R, y))
    BY Zenon, <1>2
  <2>4. Rank(S, R, x) <= Rank(S, R, y) /\ Rank(S, R, x) # Rank(S, R, y)
    BY Zenon, <2>1, <2>2, <2>3, FS_Subset DEF Rank
  <2> QED
    BY <2>4, <1>2
<1> QED
  BY <1>1, <1>2, <1>3, <1>4

\* Two elements have different ranks, and every number up to the last rank is one.
LEMMA RankExact ==
  ASSUME NEW S, IsFiniteSet(S), NEW R, Orders(R, S)
  PROVE  /\ \A x, y \in S : Rank(S, R, x) = Rank(S, R, y) => x = y
         /\ \A i \in 1..Cardinality(S) : \E x \in S : Rank(S, R, x) = i - 1
<1> DEFINE c == Cardinality(S)
           f == [x \in S |-> Rank(S, R, x)]
<1>0. c \in Nat
  BY Zenon, FS_CardinalityType
<1>1. /\ \A x \in S : Rank(S, R, x) \in 0..c - 1
      /\ \A x, y \in S : <<x, y>> \in R => Rank(S, R, x) < Rank(S, R, y)
  BY Zenon, RankGrows
<1> HIDE DEF c
<1>2. ASSUME NEW x \in S, NEW y \in S, Rank(S, R, x) = Rank(S, R, y)
      PROVE  x = y
  <2>1. Rank(S, R, x) \in Int /\ Rank(S, R, y) \in Int
    BY <1>1
  <2>2. ~(<<x, y>> \in R) /\ ~(<<y, x>> \in R)
    BY <1>1, <1>2, <2>1
  <2> QED
    BY Zenon, <2>2 DEF Orders
<1>3. f \in Injection(S, 0..c - 1)
  BY Zenon, <1>1, <1>2 DEF Injection, IsInjective
<1>4. IsFiniteSet(0..c - 1) /\ Cardinality(0..c - 1) = c
  BY <1>0, FS_Interval
<1>5. f \in Surjection(S, 0..c - 1)
  BY Zenon, <1>3, <1>4, FS_Injection DEF c
<1>6. ASSUME NEW i \in 1..c
      PROVE  \E x \in S : Rank(S, R, x) = i - 1
  <2>1. i - 1 \in 0..c - 1
    BY <1>0
  <2>2. \E x \in S : f[x] = i - 1
    BY Zenon, <2>1, <1>5 DEF Surjection
  <2> QED
    BY Zenon, <2>2
<1> QED
  BY Zenon, <1>2, <1>6 DEF c

\* InOrder lists every element of the set once, the earlier one first.
LEMMA InOrderIs ==
  ASSUME NEW S, IsFiniteSet(S), NEW R, Orders(R, S)
  PROVE  LET s == InOrder(S, R)
         IN  /\ Cardinality(S) \in Nat
             /\ s \in Seq(S) /\ Len(s) = Cardinality(S) /\ DOMAIN s = 1..Cardinality(S)
             /\ \A x \in S : Rank(S, R, x) + 1 \in 1..Cardinality(S)
                             /\ s[Rank(S, R, x) + 1] = x
             /\ \A i, j \in 1..Cardinality(S) : i < j => <<s[i], s[j]>> \in R
<1> DEFINE c == Cardinality(S)
           s == InOrder(S, R)
<1>0. c \in Nat
  BY Zenon, FS_CardinalityType
<1>1. ASSUME NEW i \in 1..c
      PROVE  s[i] \in S /\ Rank(S, R, s[i]) = i - 1
  <2>1. s[i] = CHOOSE x \in S : Rank(S, R, x) = i - 1
    BY Zenon DEF InOrder, Rank, Below
  <2>2. \E x \in S : Rank(S, R, x) = i - 1
    BY RankExact
  <2> QED
    BY Zenon, <2>1, <2>2
<1>2. s \in [1..c -> S]
  <2> DEFINE e(i) == CHOOSE x \in S : Cardinality({y \in S : <<y, x>> \in R}) = i - 1
  <2>1. s = [i \in 1..c |-> e(i)]
    BY Zenon DEF InOrder
  <2> HIDE DEF e, s, c
  <2>2. \A i \in 1..c : e(i) \in S
    BY Zenon, <2>1, <1>1
  <2> QED
    BY Zenon, <2>1, <2>2
<1>3. /\ \A x \in S : Rank(S, R, x) \in 0..c - 1
      /\ \A x, y \in S : <<x, y>> \in R => Rank(S, R, x) < Rank(S, R, y)
      /\ \A x, y \in S : Rank(S, R, x) = Rank(S, R, y) => x = y
  BY Zenon, RankGrows, RankExact
<1> HIDE DEF c, s
<1>4. s \in Seq(S) /\ Len(s) = c /\ DOMAIN s = 1..c
  BY <1>0, <1>2
<1>5. ASSUME NEW x \in S
      PROVE  Rank(S, R, x) + 1 \in 1..c /\ s[Rank(S, R, x) + 1] = x
  <2>1. Rank(S, R, x) \in 0..c - 1
    BY Zenon, <1>3
  <2>2. Rank(S, R, x) + 1 \in 1..c /\ (Rank(S, R, x) + 1) - 1 = Rank(S, R, x)
    BY <2>1, <1>0
  <2>3. s[Rank(S, R, x) + 1] \in S
        /\ Rank(S, R, s[Rank(S, R, x) + 1]) = Rank(S, R, x)
    BY Zenon, <2>2, <1>1
  <2> QED
    BY Zenon, <2>2, <2>3, <1>3
<1>6. ASSUME NEW i \in 1..c, NEW j \in 1..c, i < j
      PROVE  <<s[i], s[j]>> \in R
  <2>1. s[i] \in S /\ s[j] \in S /\ Rank(S, R, s[i]) = i - 1 /\ Rank(S, R, s[j]) = j - 1
    BY Zenon, <1>1
  <2>2. s[i] # s[j]
    BY <2>1, <1>6, <1>0
  <2>3. ~(<<s[j], s[i]>> \in R)
    <3>1. SUFFICES ASSUME <<s[j], s[i]>> \in R PROVE FALSE
      BY Zenon
    <3>2. Rank(S, R, s[j]) < Rank(S, R, s[i])
      BY Zenon, <3>1, <2>1, <1>3
    <3> QED
      BY <3>2, <2>1, <1>6, <1>0
  <2> QED
    BY Zenon, <2>1, <2>2, <2>3 DEF Orders
<1> QED
  BY Zenon, <1>0, <1>4, <1>5, <1>6 DEF c, s

\* A finite set of numbers written out in increasing order.
LEMMA AscendingIs ==
  ASSUME NEW S, S \subseteq Nat, IsFiniteSet(S)
  PROVE  /\ Cardinality(S) \in Nat
         /\ Ascending(S) \in Seq(S) /\ Len(Ascending(S)) = Cardinality(S)
         /\ DOMAIN Ascending(S) = 1..Cardinality(S)
         /\ \A x \in S : Cardinality({y \in S : y < x}) + 1 \in 1..Cardinality(S)
                         /\ Ascending(S)[Cardinality({y \in S : y < x}) + 1] = x
         /\ \A i, j \in 1..Cardinality(S) : i < j => Ascending(S)[i] < Ascending(S)[j]
<1> DEFINE R == {p \in S \X S : p[1] < p[2]}
<1>1. \A x, y \in S : <<x, y>> \in R <=> x < y
  BY Zenon
<1>2. Ascending(S) = InOrder(S, R)
  BY Zenon DEF Ascending
<1> HIDE DEF R
<1>3. \A x, y, z \in S : x \in Nat /\ y \in Nat /\ z \in Nat
  BY Zenon
<1>4. Orders(R, S)
  BY <1>1, <1>3 DEF Orders
<1>5. \A x \in S : Rank(S, R, x) = Cardinality({y \in S : y < x})
  <2> TAKE x \in S
  <2>1. Below(S, R, x) = {y \in S : y < x}
    BY Zenon, <1>1 DEF Below
  <2> QED
    BY Zenon, <2>1 DEF Rank
<1> DEFINE s == InOrder(S, R)
<1>6. /\ Cardinality(S) \in Nat
      /\ s \in Seq(S) /\ Len(s) = Cardinality(S) /\ DOMAIN s = 1..Cardinality(S)
      /\ \A x \in S : Rank(S, R, x) + 1 \in 1..Cardinality(S)
                      /\ s[Rank(S, R, x) + 1] = x
      /\ \A i, j \in 1..Cardinality(S) : i < j => <<s[i], s[j]>> \in R
  BY Zenon, <1>4, InOrderIs
<1> HIDE DEF s
<1>7. \A i \in 1..Cardinality(S) : s[i] \in S
  BY <1>6
<1>8. Ascending(S) = s
  BY Zenon, <1>2 DEF s
<1> QED
  BY Zenon, <1>1, <1>5, <1>6, <1>7, <1>8

\* Where the element at the position i goes.
Place(I, i) == Cardinality({j \in I : j < i}) + 1

\* Picking the positions I of a sequence keeps their elements, in their order.
LEMMA ElementsAtIs ==
  ASSUME NEW T, NEW s \in Seq(T), NEW I, I \subseteq 1..Len(s)
  PROVE  /\ Cardinality(I) \in Nat
         /\ ElementsAt(s, I) \in Seq(T) /\ Len(ElementsAt(s, I)) = Cardinality(I)
         /\ \A i \in I : Place(I, i) \in 1..Cardinality(I) /\ ElementsAt(s, I)[Place(I, i)] = s[i]
         /\ \E at \in [1..Cardinality(I) -> I] :
              /\ \A j \in 1..Cardinality(I) : ElementsAt(s, I)[j] = s[at[j]]
              /\ \A i, j \in 1..Cardinality(I) : i < j => at[i] < at[j]
<1>1. IsFiniteSet(I) /\ I \subseteq Nat
  <2>0. Len(s) \in Nat
    OBVIOUS
  <2>1. IsFiniteSet(1..Len(s))
    BY <2>0, FS_Interval
  <2>2. I \in SUBSET (1..Len(s))
    BY Zenon
  <2>3. IsFiniteSet(I)
    BY Zenon, <2>1, <2>2, FS_Subset
  <2>4. 1..Len(s) \subseteq Nat
    BY <2>0
  <2> QED
    BY Zenon, <2>2, <2>3, <2>4
<1> DEFINE at == Ascending(I)
           c == Cardinality(I)
           e == ElementsAt(s, I)
<1>2. /\ c \in Nat
      /\ at \in Seq(I) /\ Len(at) = c /\ DOMAIN at = 1..c
      /\ \A x \in I : Cardinality({y \in I : y < x}) + 1 \in 1..c
                      /\ at[Cardinality({y \in I : y < x}) + 1] = x
      /\ \A i, j \in 1..c : i < j => at[i] < at[j]
  BY Zenon, <1>1, AscendingIs
<1>3. e = [j \in 1..c |-> s[at[j]]]
  BY Zenon DEF ElementsAt
<1> HIDE DEF at, c, e
<1>4. at \in [1..c -> I]
  BY <1>2
<1>5. \A j \in 1..c : s[at[j]] \in T
  <2>1. \A i \in I : i \in 1..Len(s)
    BY Zenon
  <2>2. \A i \in 1..Len(s) : s[i] \in T
    OBVIOUS
  <2> QED
    BY Zenon, <1>4, <2>1, <2>2
<1>6. e \in [1..c -> T]
  BY Zenon, <1>3, <1>5
<1>7. e \in Seq(T) /\ Len(e) = c
  BY <1>2, <1>6
<1>8. \A i \in I : Place(I, i) \in 1..c /\ e[Place(I, i)] = s[i]
  <2> TAKE i \in I
  <2> DEFINE p == Place(I, i)
  <2>1. p \in 1..c /\ at[p] = i
    BY Zenon, <1>2 DEF Place
  <2> HIDE DEF p
  <2>2. e[p] = s[i]
    BY Zenon, <2>1, <1>3
  <2> QED
    BY Zenon, <2>1, <2>2 DEF p
<1>9. \E f \in [1..c -> I] :
         /\ \A j \in 1..c : e[j] = s[f[j]]
         /\ \A i, j \in 1..c : i < j => f[i] < f[j]
  BY Zenon, <1>2, <1>3, <1>4
<1> QED
  BY Zenon, <1>2, <1>7, <1>8, <1>9 DEF c, e

\* Each element of the result is one of them.
LEMMA ElementFrom ==
  ASSUME NEW T, NEW s \in Seq(T), NEW I, I \subseteq 1..Len(s), NEW j \in 1..Cardinality(I)
  PROVE  Ascending(I)[j] \in I /\ ElementsAt(s, I)[j] = s[Ascending(I)[j]]
<1>1. IsFiniteSet(I) /\ I \subseteq Nat
  <2>1. Len(s) \in Int /\ 1 \in Int /\ 1..Len(s) \subseteq Nat
    OBVIOUS
  <2>2. IsFiniteSet(1..Len(s)) /\ I \in SUBSET (1..Len(s))
    BY Zenon, <2>1, FS_Interval
  <2> QED
    BY Zenon, <2>1, <2>2, FS_Subset
<1> PICK at, c : at = Ascending(I) /\ c = Cardinality(I)
  BY Zenon
<1>2. at \in Seq(I) /\ Len(at) = c
  BY Zenon, <1>1, AscendingIs
<1>3. at[j] \in I
  BY <1>2
<1>4. ElementsAt(s, I)[j] = s[at[j]]
  BY Zenon DEF ElementsAt
<1> QED
  BY Zenon, <1>3, <1>4

\* The element at one of them.
LEMMA ElementAt ==
  ASSUME NEW T, NEW s \in Seq(T), NEW I, I \subseteq 1..Len(s), NEW i \in I
  PROVE  Place(I, i) \in 1..Cardinality(I) /\ ElementsAt(s, I)[Place(I, i)] = s[i]
BY Zenon, ElementsAtIs

=============================================================================
