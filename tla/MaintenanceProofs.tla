------------------------- MODULE MaintenanceProofs -------------------------
(***************************************************************************)
(* The tables of level 1 never overlap, for any keys, any memtables and    *)
(* any sequence of flushes, compactions and collections, stopped or not.   *)
(***************************************************************************)
EXTENDS Maintenance, OrderProofs

-----------------------------------------------------------------------------
(* Least and greatest elements *)

\* A numbering of a set has a least element.
LEMMA LeastBy ==
  ASSUME NEW S, S # {}, NEW f \in [S -> Nat]
  PROVE  \E x \in S : \A y \in S : f[x] <= f[y]
<1> DEFINE T == {f[x] : x \in S}
<1>1. T \subseteq Nat /\ T # {}
  BY Zenon
<1> HIDE DEF T
<1>2. Min(T) \in T /\ \A y \in T : Min(T) <= y
  BY <1>1, MinExists, Zenon
<1> QED
  BY <1>2, Zenon DEF T

\* A bounded numbering of a set has a greatest element.
LEMMA GreatestBy ==
  ASSUME NEW S, S # {}, NEW f \in [S -> Nat], NEW b \in Nat, \A x \in S : f[x] <= b
  PROVE  \E x \in S : \A y \in S : f[y] <= f[x]
<1> DEFINE g == [x \in S |-> b - f[x]]
<1>1. g \in [S -> Nat]
  OBVIOUS
<1>2. PICK x \in S : \A y \in S : g[x] <= g[y]
  <2> HIDE DEF g
  <2> QED BY Zenon, <1>1, LeastBy
<1> QED
  BY <1>2

-----------------------------------------------------------------------------
(* Metadata *)

\* The TableMeta that exist when the clock is at c.
Metas(c) ==
  {t \in [name : 0..c, level : {0, 1}, created : 0..c, small : AllKeys, large : AllKeys] :
     t.small <= t.large}

\* Tables of level 1 do not overlap.
Apart(metas) ==
  \A t, u \in AtLevel(metas, 1) : t # u => t.large < u.small \/ u.large < t.small

\* Min and Max of the keys of a table are keys of it and bound it.
LEMMA KeyBounds ==
  ASSUME NEW S, S \subseteq AllKeys, S # {}
  PROVE  /\ Min(S) \in S /\ Max(S) \in S
         /\ \A k \in S : Min(S) <= k /\ k <= Max(S)
<1>1. PICK last \in AllKeys : \A k \in AllKeys : k <= last
  BY Zenon, MaintenanceAssumption
<1>2. S \subseteq Nat /\ last \in Nat /\ \A k \in S : k <= last
  BY Zenon, <1>1, MaintenanceAssumption
<1>3. Min(S) \in S /\ \A k \in S : Min(S) <= k
  BY <1>2, MinExists, Zenon
<1>4. Max(S) \in S /\ \A k \in S : k <= Max(S)
  BY <1>2, MaxExists, Zenon
<1> QED
  BY Zenon, <1>3, <1>4

\* tableMetaFromSST gives the bounds of the keys.
LEMMA MetaOfType ==
  ASSUME NEW c \in Nat, NEW n \in 0..c, NEW l \in {0, 1}, NEW d \in 0..c,
         NEW S, S \subseteq AllKeys, S # {}
  PROVE  /\ MetaOf(n, l, d, S) \in Metas(c)
         /\ MetaOf(n, l, d, S).name = n /\ MetaOf(n, l, d, S).level = l
         /\ MetaOf(n, l, d, S).small = Min(S) /\ MetaOf(n, l, d, S).large = Max(S)
         /\ \A k \in S : Min(S) <= k /\ k <= Max(S)
<1>1. /\ Min(S) \in S /\ Max(S) \in S
      /\ \A k \in S : Min(S) <= k /\ k <= Max(S)
  BY Zenon, KeyBounds
<1> QED
  BY Zenon, <1>1 DEF MetaOf, Metas

\* There are finitely many TableMeta.
LEMMA MetasFinite ==
  ASSUME NEW c \in Nat
  PROVE  IsFiniteSet(AllKeys) /\ IsFiniteSet(Metas(c))
<1>1. PICK last \in AllKeys : \A k \in AllKeys : k <= last
  BY Zenon, MaintenanceAssumption
<1>2. IsFiniteSet(AllKeys)
  BY Zenon, <1>1, MaintenanceAssumption, FS_BoundedSetOfNaturals
<1>3. IsFiniteSet(0..c)
  BY FS_Interval
<1>4. IsFiniteSet({0, 1})
  <2>1. {0, 1} \in SUBSET Nat /\ 1 \in Nat /\ \A n \in {0, 1} : n <= 1
    OBVIOUS
  <2> QED
    BY Zenon, <2>1, FS_BoundedSetOfNaturals
<1> DEFINE A == (0..c) \X {0, 1}
           B == (0..c) \X AllKeys
           P == (A \X B) \X AllKeys
           R == [name : 0..c, level : {0, 1}, created : 0..c, small : AllKeys, large : AllKeys]
           f == [p \in P |-> [name |-> p[1][1][1], level |-> p[1][1][2],
                              created |-> p[1][2][1], small |-> p[1][2][2], large |-> p[2]]]
<1>5. IsFiniteSet(P)
  <2>1. IsFiniteSet(A) /\ IsFiniteSet(B)
    BY Zenon, <1>2, <1>3, <1>4, FS_Product
  <2> HIDE DEF A, B
  <2>2. IsFiniteSet(A \X B)
    BY Zenon, <2>1, FS_Product
  <2> QED
    BY Zenon, <2>2, <1>2, FS_Product
<1>6. f \in Surjection(P, R)
  <2>1. f \in [P -> R]
    BY Zenon
  <2>2. ASSUME NEW t \in R PROVE \E p \in P : f[p] = t
    <3> DEFINE p == <<<<<<t.name, t.level>>, <<t.created, t.small>>>>, t.large>>
    <3>1. p \in P
      BY Zenon
    <3>2. f[p] = [name |-> t.name, level |-> t.level, created |-> t.created,
                  small |-> t.small, large |-> t.large]
      BY Zenon, <3>1
    <3> QED
      BY Zenon, <3>1, <3>2
  <2> HIDE DEF f, P, R
  <2> QED
    BY Zenon, <2>1, <2>2 DEF Surjection
<1> HIDE DEF f, P
<1>7. IsFiniteSet(R)
  BY Zenon, <1>5, <1>6, FS_Surjection
<1>8. Metas(c) \in SUBSET R
  BY Zenon DEF Metas
<1> QED
  BY <1>2, <1>7, <1>8, FS_Subset, Zenon

\* The oldest table of level 0, and the last one of level 1, is a table.
LEMMA LastOfExists ==
  ASSUME NEW c \in Nat, NEW l \in {0, 1}, NEW ts, ts \subseteq AtLevel(Metas(c), l), ts # {}
  PROVE  LastOf(ts) \in ts
<1>1. \A t \in ts : t.name \in 0..c /\ t.created \in 0..c /\ t.small \in Nat /\ t.level = l
  BY MaintenanceAssumption, Zenon DEF AtLevel, Metas
<1>2. PICK last \in AllKeys : \A t \in ts : t.small <= last
  BY MaintenanceAssumption, Zenon DEF AtLevel, Metas
<1>3. \E t \in ts : \A u \in ts : ~Before(t, u)
  <2>1. CASE l = 0
    <3>1. PICK a \in ts : \A u \in ts : a.created <= u.created
      <4> DEFINE f == [t \in ts |-> t.created]
      <4>1. f \in [ts -> Nat]
        BY <1>1
      <4>2. \E x \in ts : \A y \in ts : f[x] <= f[y]
        <5> HIDE DEF f
        <5> QED BY Zenon, <4>1, LeastBy
      <4> QED
        BY Zenon, <4>2
    <3> DEFINE S == {t \in ts : t.created = a.created}
               g == [t \in S |-> t.name]
    <3>2. S # {} /\ g \in [S -> Nat]
      BY <1>1
    <3>3. PICK b \in S : \A u \in S : g[b] <= g[u]
      <4> HIDE DEF g, S
      <4> QED BY Zenon, <3>2, LeastBy
    <3>4. \A u \in ts : ~Before(b, u)
      BY <1>1, <2>1, <3>1, <3>3 DEF Before
    <3> QED
      BY Zenon, <3>4
  <2>2. CASE l = 1
    <3>1. PICK a \in ts : \A u \in ts : u.small <= a.small
      <4> DEFINE f == [t \in ts |-> t.small]
      <4>1. f \in [ts -> Nat] /\ last \in Nat /\ \A t \in ts : f[t] <= last
        BY Zenon, <1>1, <1>2, MaintenanceAssumption
      <4>2. \E x \in ts : \A y \in ts : f[y] <= f[x]
        <5> HIDE DEF f
        <5> QED BY Zenon, <4>1, GreatestBy
      <4> QED
        BY Zenon, <4>2
    <3> DEFINE S == {t \in ts : t.small = a.small}
               g == [t \in S |-> t.created]
    <3>2. S # {} /\ g \in [S -> Nat] /\ \A t \in S : g[t] <= c
      BY <1>1
    <3>3. PICK b \in S : \A u \in S : g[u] <= g[b]
      <4> HIDE DEF g, S
      <4> QED BY Zenon, <3>2, GreatestBy
    <3> DEFINE U == {t \in S : t.created = b.created}
               h == [t \in U |-> t.name]
    <3>4. U # {} /\ h \in [U -> Nat] /\ \A t \in U : h[t] <= c
      BY <1>1, <3>3
    <3>5. PICK d \in U : \A u \in U : h[u] <= h[d]
      <4> HIDE DEF h, U
      <4> QED BY Zenon, <3>4, GreatestBy
    <3>6. \A u \in ts : ~Before(d, u)
      BY <1>1, <2>2, <3>1, <3>3, <3>5 DEF Before
    <3> QED
      BY Zenon, <3>6
  <2> QED
    BY Zenon, <2>1, <2>2
<1> QED
  BY Zenon, <1>3 DEF LastOf

\* The newest table of a set of tables of level 0 is one of them.
LEMMA FirstOfExists ==
  ASSUME NEW c \in Nat, NEW ts, ts \subseteq AtLevel(Metas(c), 0), ts # {}
  PROVE  FirstOf(ts) \in ts
<1>1. \A t \in ts : t.name \in 0..c /\ t.created \in 0..c /\ t.level = 0
  BY Zenon DEF AtLevel, Metas
<1>2. PICK a \in ts : \A u \in ts : u.created <= a.created
  <2> DEFINE f == [t \in ts |-> t.created]
  <2>1. f \in [ts -> Nat] /\ \A t \in ts : f[t] <= c
    BY <1>1
  <2>2. \E x \in ts : \A y \in ts : f[y] <= f[x]
    <3> HIDE DEF f
    <3> QED BY Zenon, <2>1, GreatestBy
  <2> QED
    BY Zenon, <2>2
<1> DEFINE S == {t \in ts : t.created = a.created}
           g == [t \in S |-> t.name]
<1>3. S # {} /\ g \in [S -> Nat] /\ \A t \in S : g[t] <= c
  BY <1>1
<1>4. PICK b \in S : \A u \in S : g[u] <= g[b]
  <2> HIDE DEF g, S
  <2> QED BY Zenon, <1>3, GreatestBy
<1>5. \A u \in ts : ~Before(u, b)
  BY <1>1, <1>2, <1>4 DEF Before
<1> QED
  BY Zenon, <1>5 DEF FirstOf

-----------------------------------------------------------------------------
(* Planner and outputs *)

\* The planner selects tables of the manifest, at least one (compaction.go:304).
LEMMA SourceSelected ==
  ASSUME NEW c \in Nat, NEW metas, metas \subseteq Metas(c), metas # {}
  PROVE  Source(metas) \subseteq metas /\ Source(metas) # {}
<1> DEFINE ts == Lowest(metas)
<1>1. PICK l \in {0, 1} : ts = AtLevel(metas, l)
  BY Zenon DEF Lowest
<1>2. ts # {}
  BY Zenon DEF Lowest, AtLevel, Metas
<1>3. ts \subseteq metas /\ ts \subseteq AtLevel(Metas(c), l)
  BY Zenon, <1>1 DEF AtLevel
<1> HIDE DEF ts
<1>4. LastOf(ts) \in ts
  BY Zenon, <1>2, <1>3, LastOfExists
<1>5. LastOf(ts) \in Select(ts) /\ Select(ts) \subseteq ts
  BY Zenon, <1>4 DEF Select
<1> QED
  BY Zenon, <1>3, <1>5 DEF Source, ts

\* A table of level 1 that a compaction leaves alone lies on one side of all the
\* tables it merges: it misses the range of the source, and the target tables,
\* which reach into that range, cannot jump over it.
LEMMA KeptBeside ==
  ASSUME NEW c \in Nat, NEW metas, metas \subseteq Metas(c), metas # {}, Apart(metas),
         NEW u \in AtLevel(metas, 1), u \notin Source(metas) \cup Target(metas)
  PROVE  \/ \A t \in Source(metas) \cup Target(metas) : u.large < t.small
         \/ \A t \in Source(metas) \cup Target(metas) : t.large < u.small
<1> DEFINE source == Source(metas)
           lo == Lo(source)
           hi == Hi(source)
<1>1. source \subseteq metas /\ source # {}
  BY Zenon, SourceSelected
<1>2. \A t \in metas : t.small \in Nat /\ t.large \in Nat /\ t.small <= t.large
                       /\ t.small \in AllKeys /\ t.large \in AllKeys
  BY MaintenanceAssumption, Zenon DEF Metas
<1> HIDE DEF source
<1>3. lo \in Nat /\ \A t \in source : lo <= t.small
  <2> DEFINE S == {t.small : t \in source}
  <2>1. S \subseteq AllKeys /\ S # {}
    BY Zenon, <1>1, <1>2
  <2>2. \A t \in source : t.small \in S
    BY Zenon
  <2> HIDE DEF S
  <2>3. Min(S) \in S /\ \A k \in S : Min(S) <= k
    BY Zenon, <2>1, KeyBounds
  <2>4. lo = Min(S)
    BY Zenon DEF Lo, S
  <2> HIDE DEF lo
  <2> QED
    BY <2>1, <2>2, <2>3, <2>4, MaintenanceAssumption, Zenon
<1>4. hi \in Nat /\ \A t \in source : t.large <= hi
  <2> DEFINE S == {t.large : t \in source}
  <2>1. S \subseteq AllKeys /\ S # {}
    BY Zenon, <1>1, <1>2
  <2>2. \A t \in source : t.large \in S
    BY Zenon
  <2> HIDE DEF S
  <2>3. Max(S) \in S /\ \A k \in S : k <= Max(S)
    BY Zenon, <2>1, KeyBounds
  <2>4. hi = Max(S)
    BY Zenon DEF Hi, S
  <2> HIDE DEF hi
  <2> QED
    BY <2>1, <2>2, <2>3, <2>4, MaintenanceAssumption, Zenon
<1>5. Target(metas) = {t \in AtLevel(metas, 1) : Overlap(t, lo, hi)}
  BY Zenon DEF Target, source
<1> HIDE DEF lo, hi
<1>6. u \in metas /\ AtLevel(metas, 1) \subseteq metas
  BY Zenon DEF AtLevel
<1>7. u.large < lo \/ hi < u.small
  BY <1>2, <1>3, <1>4, <1>5, <1>6 DEF Overlap
<1>8. \A t \in Target(metas) : /\ t \in metas /\ lo <= t.large /\ t.small <= hi
                               /\ t.large < u.small \/ u.large < t.small
  BY Zenon, <1>5, <1>2, <1>3, <1>4, <1>6 DEF Overlap, Apart
<1>9. CASE u.large < lo
  <2>1. \A t \in source : u.large < t.small
    BY <1>1, <1>2, <1>3, <1>6, <1>9
  <2>2. \A t \in Target(metas) : u.large < t.small
    BY <1>2, <1>3, <1>6, <1>8, <1>9
  <2> QED
    BY Zenon, <2>1, <2>2 DEF source
<1>10. CASE hi < u.small
  <2>1. \A t \in source : t.large < u.small
    BY <1>1, <1>2, <1>4, <1>6, <1>10
  <2>2. \A t \in Target(metas) : t.large < u.small
    BY <1>2, <1>4, <1>6, <1>8, <1>10
  <2> QED
    BY Zenon, <2>1, <2>2 DEF source
<1> QED
  BY Zenon, <1>7, <1>9, <1>10

\* flushBuilder: two output tables of one input lie beside each other.
LEMMA ChunksApart ==
  ASSUME NEW keys, keys \subseteq AllKeys, NEW cuts, cuts \subseteq AllKeys,
         NEW p \in Chunks(keys, cuts), NEW q \in Chunks(keys, cuts)
  PROVE  /\ p \subseteq keys /\ p # {}
         /\ p # q => Max(p) < Min(q) \/ Max(q) < Min(p)
<1>1. PICK i \in keys : p = {j \in keys : \A c \in cuts : c < j <=> c < i}
  BY Zenon DEF Chunks
<1>2. PICK k \in keys : q = {j \in keys : \A c \in cuts : c < j <=> c < k}
  BY Zenon DEF Chunks
<1>3. p \subseteq keys /\ i \in p /\ q \subseteq keys /\ k \in q
  BY Zenon, <1>1, <1>2
<1>4. ASSUME p # q PROVE Max(p) < Min(q) \/ Max(q) < Min(p)
  <2>1. PICK c \in cuts : ~(c < i <=> c < k)
    BY Zenon, <1>1, <1>2, <1>4
  <2>2. /\ Max(p) \in p /\ Min(p) \in p
        /\ Max(q) \in q /\ Min(q) \in q
    BY Zenon, <1>3, KeyBounds
  <2>3. /\ Max(p) \in Nat /\ Min(p) \in Nat /\ Max(q) \in Nat /\ Min(q) \in Nat
        /\ c \in Nat /\ i \in Nat /\ k \in Nat
    BY <2>2, <1>3, MaintenanceAssumption, Zenon
  <2>4. /\ c < Max(p) <=> c < i
        /\ c < Min(p) <=> c < i
        /\ c < Max(q) <=> c < k
        /\ c < Min(q) <=> c < k
    BY Zenon, <2>2, <1>1, <1>2
  <2> QED
    BY <2>1, <2>3, <2>4
<1> QED
  BY Zenon, <1>3, <1>4

-----------------------------------------------------------------------------
(* The inductive invariant *)

\* A file of a table holds keys within the bounds of its TableMeta only.
Bounded(metas, files) ==
  \A t \in metas : t.name \in DOMAIN files =>
    \A k \in DOMAIN files[t.name] : k \in AllKeys /\ t.small <= k /\ k <= t.large

\* Level 1 is disjoint because bounds are those of the files and names are fresh:
\* neither of the two manifests can come to mean a file it was not written for.
LevelInv ==
  /\ clock \in Nat /\ manifest \subseteq Metas(clock) /\ goal \subseteq Metas(clock)
  /\ temp = [tables |-> temp.tables, segs |-> temp.segs]
  /\ DOMAIN tables \subseteq 0..clock /\ DOMAIN temp.tables \subseteq 0..clock
  /\ Bounded(manifest, tables) /\ Bounded(manifest, temp.tables)
  /\ Bounded(goal, tables) /\ Bounded(goal, temp.tables)
  /\ handle = "open" => Opens(manifest)
  /\ handle # "job" => phase = "idle"
  /\ LevelsDisjoint

\* LevelsDisjoint is about the manifest and the one a job will write.
LEMMA DisjointIsApart == LevelsDisjoint <=> Apart(manifest) /\ Apart(goal)
  BY Zenon DEF LevelsDisjoint, Apart

\* The clock moves forward only, so TableMeta stay what they are.
LEMMA MetasGrow ==
  ASSUME NEW c \in Nat, NEW n \in Nat
  PROVE  Metas(c) \subseteq Metas(c + n)
  BY DEF Metas

\* An empty store has no tables.
LEMMA InitLevelInv == Init => LevelInv
<1> SUFFICES ASSUME Init PROVE LevelInv
  BY Zenon
<1>1. DOMAIN <<>> = {}
  OBVIOUS
<1>2. DOMAIN tables = {} /\ DOMAIN temp.tables = {}
  BY Zenon, <1>1 DEF Init, NoFiles
<1>3. LevelsDisjoint
  BY Zenon DEF Init, LevelsDisjoint, AtLevel
<1> QED
  BY Zenon, <1>2, <1>3 DEF Init, LevelInv, Bounded, Opens, NoFiles

\* A job that starts keeps the invariant when its outputs do.
LEMMA StartStep ==
  ASSUME LevelInv, handle = "open",
         NEW job, NEW newTables, NEW newSegs, NEW newDoomed, NEW newGoal, NEW ticks \in Nat,
         Start(job, newTables, newSegs, newDoomed, newGoal, ticks),
         newGoal \subseteq Metas(clock + ticks), Apart(newGoal),
         DOMAIN newTables \subseteq clock + 1..clock + ticks,
         Bounded(newGoal, newTables), Bounded(newGoal, tables)
  PROVE  LevelInv'
<1>1. /\ clock' = clock + ticks /\ manifest' = manifest /\ goal' = newGoal
      /\ tables' = tables /\ handle' = "job"
      /\ temp' = [tables |-> newTables, segs |-> newSegs]
  BY Zenon DEF Start
<1>2. clock \in Nat /\ manifest \subseteq Metas(clock) /\ DOMAIN tables \subseteq 0..clock
  BY Zenon DEF LevelInv
<1>3. clock' \in Nat /\ manifest' \subseteq Metas(clock') /\ goal' \subseteq Metas(clock')
  BY <1>1, <1>2, MetasGrow
<1>4. DOMAIN tables' \subseteq 0..clock' /\ DOMAIN temp'.tables \subseteq 0..clock'
  BY <1>1, <1>2
<1>5. Bounded(manifest', temp'.tables)
  <2>1. \A t \in manifest : t.name \notin DOMAIN newTables
    BY <1>2 DEF Metas
  <2> QED
    BY Zenon, <1>1, <2>1 DEF Bounded
<1>6. LevelsDisjoint'
  BY Zenon, <1>1, DisjointIsApart DEF LevelInv, LevelsDisjoint, Apart
<1> QED
  BY Zenon, <1>1, <1>3, <1>4, <1>5, <1>6 DEF LevelInv, Bounded

\* An output file holds exactly the keys of its part, since no two parts get the
\* same name.
LEMMA FileKeys ==
  ASSUME NEW name, NEW keys, NEW ents, IsInjective(name)
  PROVE  /\ DOMAIN FilesOf(name, keys, ents) = Range(name)
         /\ \A p \in DOMAIN name : DOMAIN FilesOf(name, keys, ents)[name[p]] = keys[p]
<1>1. DOMAIN FilesOf(name, keys, ents) = Range(name)
  BY Zenon DEF FilesOf
<1>2. ASSUME NEW p \in DOMAIN name PROVE DOMAIN FilesOf(name, keys, ents)[name[p]] = keys[p]
  <2>1. (CHOOSE q \in DOMAIN name : name[q] = name[p]) = p
    BY Zenon DEF IsInjective
  <2>2. name[p] \in Range(name)
    BY Zenon DEF Range
  <2> QED
    BY <2>1, <2>2, Zenon DEF FilesOf, Restrict
<1> QED
  BY Zenon, <1>1, <1>2

-----------------------------------------------------------------------------
(* Compact *)

\* A compaction puts its outputs where its inputs were.
LEMMA CompactStep ==
  ASSUME LevelInv, NEW cuts \in SUBSET AllKeys, Compact(cuts)
  PROVE  LevelInv'
<1> DEFINE source == Source(manifest)
           target == Target(manifest)
           inputs == source \cup target
           ents   == DropTombstones(Merge(source, target, tables))
           parts  == Chunks(Keys(ents), cuts)
           keys   == [p \in parts |-> p]
           written == {w \in parts \X parts : Min(w[1]) < Min(w[2])}
           Outputs(name) == {MetaOf(name[p], 1, name[p], p) : p \in parts}
           newGoal(name) == (manifest \ inputs) \cup Outputs(name)
<1>1. handle = "open" /\ manifest # {}
  BY Zenon DEF Compact
<1>2. PICK name \in Namings(parts, clock, written) :
        Start("compact", FilesOf(name, keys, ents), <<>>,
              [Nothing EXCEPT !.tables = {t.name : t \in inputs}],
              newGoal(name), Cardinality(parts))
  BY Zenon DEF Compact
<1>3. /\ clock \in Nat /\ manifest \subseteq Metas(clock) /\ Apart(manifest)
      /\ DOMAIN tables \subseteq 0..clock /\ Bounded(manifest, tables) /\ Opens(manifest)
  BY Zenon, <1>1, DisjointIsApart DEF LevelInv
<1>4. inputs \subseteq manifest
  BY Zenon, <1>1, <1>3, SourceSelected DEF Target, AtLevel
<1>5. \A k \in Keys(ents) : /\ k \in AllKeys
                            /\ \E t \in inputs : t.small <= k /\ k <= t.large
  <2> SUFFICES ASSUME NEW k \in Keys(ents)
               PROVE  k \in AllKeys /\ \E t \in inputs : t.small <= k /\ k <= t.large
    BY Zenon
  <2>1. PICK t \in inputs : k \in DOMAIN tables[t.name]
    BY Zenon DEF Keys, DropTombstones, Merge
  <2> QED
    BY Zenon, <2>1, <1>3, <1>4 DEF Bounded, Opens
<1> HIDE DEF ents
<1>6. ASSUME NEW p \in parts, NEW q \in parts
      PROVE  /\ p \subseteq Keys(ents) /\ p \subseteq AllKeys /\ p # {}
             /\ p # q => Max(p) < Min(q) \/ Max(q) < Min(p)
  BY Zenon, <1>5, ChunksApart
<1>7. IsFiniteSet(parts)
  <2>1. parts \in SUBSET (SUBSET AllKeys)
    BY Zenon, <1>6
  <2> QED
    BY <2>1, <1>3, MetasFinite, FS_SUBSET, FS_Subset, Zenon
<1> HIDE DEF parts
<1> DEFINE files == FilesOf(name, keys, ents)
           n == Cardinality(parts)
<1>8. n \in Nat
  BY Zenon, <1>7, FS_CardinalityType
<1>9. name \in [parts -> clock + 1..clock + n] /\ IsInjective(name)
  BY Zenon DEF Namings
<1>10. /\ DOMAIN files \subseteq clock + 1..clock + n
       /\ \A p \in parts : DOMAIN files[name[p]] = p
  <2>1. keys = [p \in parts |-> p]
    BY Zenon
  <2> HIDE DEF keys
  <2>2. DOMAIN files = Range(name) /\ \A p \in DOMAIN name : DOMAIN files[name[p]] = keys[p]
    BY <1>9, FileKeys
  <2> QED
    BY <1>9, <2>1, <2>2 DEF Range
<1> HIDE DEF files, n
<1>11. ASSUME NEW p \in parts
       PROVE  LET t == MetaOf(name[p], 1, name[p], p)
              IN  /\ t \in Metas(clock + n) /\ t.name = name[p] /\ t.level = 1
                  /\ t.small = Min(p) /\ t.large = Max(p)
                  /\ \A k \in p : t.small <= k /\ k <= t.large
  <2>1. clock + n \in Nat /\ name[p] \in 0..clock + n
    BY <1>3, <1>8, <1>9
  <2>2. /\ Min(p) \in AllKeys /\ Max(p) \in AllKeys /\ Min(p) <= Max(p)
        /\ \A k \in p : Min(p) <= k /\ k <= Max(p)
    BY Zenon, <1>6, KeyBounds
  <2> QED
    BY Zenon, <2>1, <2>2 DEF MetaOf, Metas
<1>12. newGoal(name) \subseteq Metas(clock + n)
  BY Zenon, <1>3, <1>8, <1>11, MetasGrow
<1>13. Bounded(newGoal(name), files)
  <2>1. ASSUME NEW t \in manifest PROVE t.name \notin DOMAIN files
    BY <1>3, <1>8, <1>10 DEF Metas
  <2>2. ASSUME NEW p \in parts, NEW t, t = MetaOf(name[p], 1, name[p], p),
               NEW k \in DOMAIN files[t.name]
        PROVE  k \in AllKeys /\ t.small <= k /\ k <= t.large
    BY Zenon, <2>2, <1>6, <1>10, <1>11
  <2> QED
    BY Zenon, <2>1, <2>2 DEF Bounded
<1>14. Bounded(newGoal(name), tables)
  <2>1. ASSUME NEW p \in parts, NEW t, t = MetaOf(name[p], 1, name[p], p)
        PROVE  t.name \notin DOMAIN tables
    <3>1. name[p] > clock /\ t.name = name[p]
      BY <2>1, <1>3, <1>8, <1>9, <1>11
    <3> QED
      BY <3>1, <1>3
  <2> QED
    BY Zenon, <2>1, <1>3 DEF Bounded
<1>15. Apart(newGoal(name))
  <2> DEFINE kept == AtLevel(manifest, 1) \ inputs
  <2>1. ASSUME NEW u \in kept, NEW p \in parts
        PROVE  u.large < Min(p) \/ Max(p) < u.small
    <3>1. Min(p) \in p /\ Max(p) \in p
      BY Zenon, <1>6, KeyBounds
    <3>2. PICK t1 \in inputs : t1.small <= Min(p) /\ Min(p) <= t1.large
      BY Zenon, <3>1, <1>5, <1>6
    <3>3. PICK t2 \in inputs : t2.small <= Max(p) /\ Max(p) <= t2.large
      BY Zenon, <3>1, <1>5, <1>6
    <3>4. \/ \A t \in inputs : u.large < t.small
          \/ \A t \in inputs : t.large < u.small
      BY Zenon, <1>1, <1>3, KeptBeside
    <3>5. /\ \A t \in manifest : t.small \in Nat /\ t.large \in Nat
          /\ Min(p) \in Nat /\ Max(p) \in Nat
      BY <1>3, <1>6, <3>1, MaintenanceAssumption, Zenon DEF Metas
    <3>6. u \in manifest /\ t1 \in manifest /\ t2 \in manifest
      BY Zenon, <1>4 DEF AtLevel
    <3> HIDE DEF inputs
    <3> QED
      BY <3>2, <3>3, <3>4, <3>5, <3>6
  <2>2. ASSUME NEW t \in AtLevel(newGoal(name), 1)
        PROVE  t \in kept \/ \E p \in parts : t = MetaOf(name[p], 1, name[p], p)
    BY Zenon DEF AtLevel
  <2>3. ASSUME NEW t \in kept, NEW u \in kept, t # u
        PROVE  t.large < u.small \/ u.large < t.small
    BY Zenon, <2>3, <1>3 DEF Apart
  <2>4. ASSUME NEW t \in kept, NEW p \in parts, NEW u, u = MetaOf(name[p], 1, name[p], p)
        PROVE  t.large < u.small \/ u.large < t.small
    BY Zenon, <2>1, <2>4, <1>11
  <2>5. ASSUME NEW p \in parts, NEW t, t = MetaOf(name[p], 1, name[p], p),
               NEW q \in parts, NEW u, u = MetaOf(name[q], 1, name[q], q), t # u
        PROVE  t.large < u.small \/ u.large < t.small
    BY Zenon, <2>5, <1>6, <1>11
  <2> HIDE DEF kept, newGoal, Outputs
  <2> QED
    BY Zenon, <2>2, <2>3, <2>4, <2>5 DEF Apart
<1> HIDE DEF newGoal, keys
<1> QED
  BY Zenon, <1>1, <1>2, <1>8, <1>10, <1>12, <1>13, <1>14, <1>15, StartStep DEF files, n

-----------------------------------------------------------------------------
(* RunValueLogGC *)

\* The table rebuildLiveState takes a key from holds it.
LEMMA HolderHolds ==
  ASSUME LevelInv, handle = "open", NEW k,
         NEW s \in manifest, k \in Keys(tables[s.name])
  PROVE  /\ Holder(k) \in manifest /\ k \in AllKeys
         /\ Holder(k).small <= k /\ k <= Holder(k).large
<1> DEFINE holding == {t \in manifest : k \in Keys(tables[t.name])}
           level0  == AtLevel(holding, 0)
<1>1. /\ clock \in Nat /\ manifest \subseteq Metas(clock) /\ Apart(manifest)
      /\ Bounded(manifest, tables) /\ Opens(manifest)
  BY Zenon, DisjointIsApart DEF LevelInv
<1>2. \A t \in holding : t \in manifest /\ k \in AllKeys /\ t.small <= k /\ k <= t.large
  BY Zenon, <1>1 DEF Bounded, Opens, Keys
<1>3. Holder(k) = FirstOf(IF level0 # {} THEN level0 ELSE holding)
  BY Zenon DEF Holder
<1>4. s \in holding
  BY Zenon
<1> HIDE DEF holding
<1>5. Holder(k) \in holding
  <2>1. CASE level0 # {}
    <3>1. level0 \subseteq AtLevel(Metas(clock), 0) /\ level0 \subseteq holding
      BY Zenon, <1>1, <1>2 DEF AtLevel
    <3> HIDE DEF level0
    <3>2. FirstOf(level0) \in level0
      BY Zenon, <1>1, <2>1, <3>1, FirstOfExists
    <3> QED
      BY Zenon, <1>3, <2>1, <3>1, <3>2
  <2>2. CASE level0 = {}
    <3>1. \A t \in holding : t \in AtLevel(manifest, 1) /\ t.small \in Nat /\ t.large \in Nat
                             /\ t.created \in Nat /\ t.name \in Nat /\ t.level = 1
      <4> SUFFICES ASSUME NEW t \in holding
                   PROVE  t \in AtLevel(manifest, 1) /\ t.small \in Nat /\ t.large \in Nat
                          /\ t.created \in Nat /\ t.name \in Nat /\ t.level = 1
        BY Zenon
      <4>1. t \in manifest /\ t \in Metas(clock) /\ t.level # 0
        BY Zenon, <1>1, <1>2, <2>2 DEF AtLevel
      <4>2. /\ t.level \in {0, 1} /\ t.small \in AllKeys /\ t.large \in AllKeys
            /\ t.created \in 0..clock /\ t.name \in 0..clock
        BY Zenon, <4>1 DEF Metas
      <4>3. t.level = 1 /\ t \in AtLevel(manifest, 1)
        BY Zenon, <4>1, <4>2 DEF AtLevel
      <4>4. AllKeys \subseteq Nat /\ 0..clock \subseteq Nat
        BY <1>1, MaintenanceAssumption
      <4> QED
        BY <4>2, <4>3, <4>4, Zenon
    <3>2. \A t \in holding : t = s
      <4> SUFFICES ASSUME NEW t \in holding, t # s PROVE FALSE
        BY Zenon
      <4>1. t.large < s.small \/ s.large < t.small
        BY Zenon, <1>1, <1>4, <3>1 DEF Apart
      <4>2. k \in Nat
        BY <1>2, <1>4, MaintenanceAssumption, Zenon
      <4> QED
        BY <1>2, <1>4, <3>1, <4>1, <4>2
    <3>3. ~Before(s, s)
      BY <1>4, <3>1 DEF Before
    <3>4. FirstOf(holding) \in holding
      BY Zenon, <1>4, <3>2, <3>3 DEF FirstOf
    <3> QED
      BY Zenon, <1>3, <2>2, <3>4
  <2> QED
    BY Zenon, <2>1, <2>2
<1> QED
  BY Zenon, <1>2, <1>5

\* A collection writes a table of level 1 inside the bounds of an old one.
LEMMA GCStep ==
  ASSUME LevelInv, NEW cuts \in SUBSET AllKeys, RunGC(cuts)
  PROVE  LevelInv'
<1> DEFINE seg  == clock + 1
           all  == UNION {Keys(tables[t.name]) : t \in manifest}
           live == DropTombstones([k \in all |-> tables[Holder(k).name][k]])
           ents == [k \in Keys(live) |-> Rewritten(live[k], seg)]
           own(t) == {k \in Keys(ents) : Holder(k) = t}
           parts == UNION {{[src |-> t, keys |-> c] : c \in Chunks(own(t), cuts)}
                           : t \in manifest}
           Precedes(p, q) == \/ p.src.level < q.src.level
                             \/ p.src.level = q.src.level /\ Before(p.src, q.src)
                             \/ p.src = q.src /\ Min(p.keys) < Min(q.keys)
           written == {w \in parts \X parts : Precedes(w[1], w[2])}
           recs == {<<k, ents[k].version>> : k \in {j \in Keys(ents) : ents[j].kind = "ref"}}
           keys == [p \in parts |-> p.keys]
           Meta(name, p) == MetaOf(name[p], p.src.level, p.src.created, p.keys)
           newGoal(name) == {Meta(name, p) : p \in parts}
<1>1. handle = "open"
  BY Zenon DEF RunGC
<1>2. PICK name \in Namings(parts, seg, written) :
        Start("gc", FilesOf(name, keys, ents), seg :> recs,
              [tables |-> {t.name : t \in manifest}, segs |-> OldSegments],
              newGoal(name), Cardinality(parts) + 1)
  BY Zenon DEF RunGC
<1>3. /\ clock \in Nat /\ manifest \subseteq Metas(clock) /\ Apart(manifest)
      /\ DOMAIN tables \subseteq 0..clock
  BY DisjointIsApart, Zenon DEF LevelInv
<1>4. \A k \in Keys(ents) : /\ k \in AllKeys /\ Holder(k) \in manifest
                            /\ Holder(k).small <= k /\ k <= Holder(k).large
  <2> SUFFICES ASSUME NEW k \in Keys(ents)
               PROVE  /\ k \in AllKeys /\ Holder(k) \in manifest
                      /\ Holder(k).small <= k /\ k <= Holder(k).large
    BY Zenon
  <2>1. k \in all
    BY Zenon DEF Keys, DropTombstones
  <2>2. PICK s \in manifest : k \in Keys(tables[s.name])
    BY <2>1, Zenon
  <2> QED
    BY <1>1, <2>2, HolderHolds, Zenon
<1> HIDE DEF ents
<1>5. ASSUME NEW t \in manifest, NEW p \in Chunks(own(t), cuts), NEW q \in Chunks(own(t), cuts)
      PROVE  /\ p \subseteq own(t) /\ p # {}
             /\ p # q => Max(p) < Min(q) \/ Max(q) < Min(p)
  <2>1. own(t) \subseteq AllKeys
    BY Zenon, <1>4
  <2> HIDE DEF own
  <2> QED
    BY Zenon, <2>1, ChunksApart
<1>6. ASSUME NEW p \in parts
      PROVE  /\ p.src \in manifest /\ p.keys \in Chunks(own(p.src), cuts)
             /\ p = [src |-> p.src, keys |-> p.keys]
             /\ p.keys \subseteq AllKeys /\ p.keys # {}
             /\ \A k \in p.keys : p.src.small <= k /\ k <= p.src.large
  <2>0. PICK t \in manifest : \E c \in Chunks(own(t), cuts) : p = [src |-> t, keys |-> c]
    BY Zenon
  <2>1. PICK c \in Chunks(own(t), cuts) : p = [src |-> t, keys |-> c]
    BY <2>0, Zenon
  <2>2. c \subseteq own(t) /\ c # {}
    BY <1>5, Zenon
  <2>3. \A k \in c : k \in AllKeys /\ t.small <= k /\ k <= t.large
    BY <2>2, <1>4, Zenon
  <2> QED
    BY Zenon, <2>1, <2>2, <2>3
<1> HIDE DEF parts
<1>7. IsFiniteSet(parts)
  <2> DEFINE D == Metas(clock) \X SUBSET AllKeys
             R == [src : Metas(clock), keys : SUBSET AllKeys]
             f == [d \in D |-> [src |-> d[1], keys |-> d[2]]]
  <2>1. IsFiniteSet(D)
    BY <1>3, MetasFinite, FS_SUBSET, FS_Product, Zenon
  <2>2. f \in [D -> R]
    BY Zenon
  <2>3. ASSUME NEW r \in R PROVE \E d \in D : f[d] = r
    <3>1. <<r.src, r.keys>> \in D /\ f[<<r.src, r.keys>>] = [src |-> r.src, keys |-> r.keys]
      BY Zenon
    <3> QED
      BY <3>1, Zenon
  <2>4. parts \in SUBSET R
    <3> SUFFICES ASSUME NEW p \in parts PROVE p \in R
      BY Zenon
    <3>1. /\ p.src \in Metas(clock) /\ p.keys \in SUBSET AllKeys
          /\ p = [src |-> p.src, keys |-> p.keys]
      BY <1>3, <1>6, Zenon
    <3> QED
      BY Zenon, <3>1
  <2> HIDE DEF f, D, R
  <2>5. f \in Surjection(D, R)
    BY Zenon, <2>2, <2>3 DEF Surjection
  <2>6. IsFiniteSet(R)
    BY Zenon, <2>1, <2>5, FS_Surjection
  <2> QED
    BY Zenon, <2>4, <2>6, FS_Subset
<1> DEFINE files == FilesOf(name, keys, ents)
           n == Cardinality(parts) + 1
<1>8. n \in Nat /\ n = Cardinality(parts) + 1 /\ Cardinality(parts) \in Nat
  BY <1>7, FS_CardinalityType
<1>9. name \in [parts -> clock + 1..clock + n] /\ IsInjective(name)
  <2>1. name \in [parts -> seg + 1..seg + Cardinality(parts)] /\ IsInjective(name)
    BY Zenon DEF Namings
  <2>2. seg + 1..seg + Cardinality(parts) \subseteq clock + 1..clock + n
    BY <1>3, <1>8
  <2> HIDE DEF seg, n
  <2> QED
    BY Zenon, <2>1, <2>2
<1>10. /\ DOMAIN files \subseteq clock + 1..clock + n
       /\ \A p \in parts : DOMAIN files[name[p]] = p.keys
  <2>1. keys = [p \in parts |-> p.keys]
    BY Zenon
  <2> HIDE DEF keys
  <2>2. DOMAIN files = Range(name) /\ \A p \in DOMAIN name : DOMAIN files[name[p]] = keys[p]
    BY <1>9, FileKeys
  <2> QED
    BY <1>9, <2>1, <2>2 DEF Range
<1> HIDE DEF files, n
<1>11. ASSUME NEW p \in parts
       PROVE  /\ Meta(name, p) \in Metas(clock + n) /\ Meta(name, p).name = name[p]
              /\ Meta(name, p).level = p.src.level
              /\ Meta(name, p).small = Min(p.keys) /\ Meta(name, p).large = Max(p.keys)
              /\ \A k \in p.keys : Meta(name, p).small <= k /\ k <= Meta(name, p).large
  <2>1. /\ clock + n \in Nat /\ name[p] \in 0..clock + n
        /\ p.src.level \in {0, 1} /\ p.src.created \in 0..clock + n
    <3>1. p.src \in Metas(clock)
      BY <1>3, <1>6, Zenon
    <3>2. p.src.level \in {0, 1} /\ p.src.created \in 0..clock
      BY Zenon, <3>1 DEF Metas
    <3> QED
      BY <1>3, <1>8, <1>9, <3>2
  <2>2. /\ Min(p.keys) \in AllKeys /\ Max(p.keys) \in AllKeys
        /\ Min(p.keys) <= Max(p.keys)
        /\ \A k \in p.keys : Min(p.keys) <= k /\ k <= Max(p.keys)
    BY <1>6, KeyBounds, Zenon
  <2> QED
    BY Zenon, <2>1, <2>2 DEF MetaOf, Metas
<1> HIDE DEF Meta
<1>12. newGoal(name) \subseteq Metas(clock + n)
  BY Zenon, <1>11
<1>13. Bounded(newGoal(name), files)
  <2>1. ASSUME NEW p \in parts, NEW k \in DOMAIN files[Meta(name, p).name]
        PROVE  k \in AllKeys /\ Meta(name, p).small <= k /\ k <= Meta(name, p).large
    BY <2>1, <1>6, <1>10, <1>11, Zenon
  <2> QED
    BY Zenon, <2>1 DEF Bounded
<1>14. Bounded(newGoal(name), tables)
  <2>1. ASSUME NEW p \in parts PROVE Meta(name, p).name \notin DOMAIN tables
    <3>1. name[p] > clock /\ Meta(name, p).name = name[p]
      BY <1>3, <1>8, <1>9, <1>11
    <3> QED
      BY <3>1, <1>3
  <2> QED
    BY Zenon, <2>1 DEF Bounded
<1>15. Apart(newGoal(name))
  <2>1. ASSUME NEW p \in parts, NEW q \in parts, p # q,
               Meta(name, p).level = 1, Meta(name, q).level = 1
        PROVE  Max(p.keys) < Min(q.keys) \/ Max(q.keys) < Min(p.keys)
    <3>1. CASE p.src = q.src
      <4>1. p.keys # q.keys
        BY <2>1, <3>1, <1>6, Zenon
      <4> HIDE DEF own
      <4> QED
        BY Zenon, <3>1, <4>1, <1>5, <1>6
    <3>2. CASE p.src # q.src
      <4>1. p.src \in AtLevel(manifest, 1) /\ q.src \in AtLevel(manifest, 1)
        BY <2>1, <1>6, <1>11, Zenon DEF AtLevel
      <4>2. p.src.large < q.src.small \/ q.src.large < p.src.small
        BY <3>2, <4>1, <1>3, Zenon DEF Apart
      <4>3. /\ Min(p.keys) \in p.keys /\ Max(p.keys) \in p.keys
            /\ Min(q.keys) \in q.keys /\ Max(q.keys) \in q.keys
        BY <1>6, KeyBounds, Zenon
      <4>4. /\ p.src.small <= Min(p.keys) /\ Max(p.keys) <= p.src.large
            /\ q.src.small <= Min(q.keys) /\ Max(q.keys) <= q.src.large
        BY <4>3, <1>6, Zenon
      <4>5. /\ \A t \in manifest : t.small \in Nat /\ t.large \in Nat
            /\ Min(p.keys) \in Nat /\ Max(p.keys) \in Nat
            /\ Min(q.keys) \in Nat /\ Max(q.keys) \in Nat
        BY <4>3, <1>3, <1>6, MaintenanceAssumption, Zenon DEF Metas
      <4>6. p.src \in manifest /\ q.src \in manifest
        BY <1>6, Zenon
      <4> QED
        BY <4>2, <4>4, <4>5, <4>6
    <3> QED
      BY Zenon, <3>1, <3>2
  <2>2. ASSUME NEW p \in parts, NEW q \in parts, Meta(name, p) # Meta(name, q),
               Meta(name, p).level = 1, Meta(name, q).level = 1
        PROVE  \/ Meta(name, p).large < Meta(name, q).small
               \/ Meta(name, q).large < Meta(name, p).small
    BY Zenon, <2>1, <2>2, <1>11
  <2> QED
    BY Zenon, <2>2 DEF Apart, AtLevel
<1> HIDE DEF newGoal, keys
<1> QED
  BY Zenon, <1>1, <1>2, <1>8, <1>10, <1>12, <1>13, <1>14, <1>15, StartStep DEF files, n

-----------------------------------------------------------------------------
(* The other steps *)

\* A flush adds a table to level 0.
LEMMA FlushStep ==
  ASSUME LevelInv, NEW kind \in Memtables, Flush(kind)
  PROVE  LevelInv'
<1> DEFINE keys == DOMAIN kind
           n == clock + 1
           t == MetaOf(n, 0, n, keys)
           file == [k \in keys |-> Entry(kind[k], n, ActiveSegment)]
<1>1. /\ handle = "open" /\ tables' = With(tables, n, file)
      /\ manifest' = manifest \cup {t} /\ clock' = n
      /\ UNCHANGED <<handle, phase, temp, goal>>
  BY Zenon DEF Flush
<1>2. /\ clock \in Nat /\ manifest \subseteq Metas(clock) /\ goal \subseteq Metas(clock)
      /\ DOMAIN tables \subseteq 0..clock /\ DOMAIN temp.tables \subseteq 0..clock
  BY Zenon DEF LevelInv
<1>3. keys \subseteq AllKeys /\ keys # {}
  BY Zenon, MaintenanceAssumption
<1>4. n \in Nat /\ 0 \in {0, 1} /\ n \in 0..n
  BY <1>2
<1>5. DOMAIN tables' = {n} \cup DOMAIN tables /\ DOMAIN tables'[n] = keys
      /\ \A m \in DOMAIN tables : m # n => tables'[m] = tables[m]
  BY Zenon, <1>1 DEF With
<1> HIDE DEF keys, n
<1>6. /\ t \in Metas(n) /\ t.name = n /\ t.level = 0
      /\ \A k \in keys : t.small <= k /\ k <= t.large
  BY <1>3, <1>4, MetaOfType
<1> HIDE DEF t, file
<1>7. Metas(clock) \subseteq Metas(n)
  BY Zenon, <1>2, MetasGrow DEF n
<1>8. manifest' \subseteq Metas(clock') /\ goal' \subseteq Metas(clock')
  BY Zenon, <1>1, <1>2, <1>6, <1>7
<1>9. DOMAIN tables' \subseteq 0..clock' /\ DOMAIN temp'.tables \subseteq 0..clock'
  BY <1>1, <1>2, <1>5 DEF n
<1>10. \A u \in manifest \cup goal : u.name # n
  BY <1>2 DEF Metas, n
<1>11. n \notin DOMAIN temp.tables
  BY <1>2 DEF n
<1>12. Bounded(manifest', tables')
  <2> SUFFICES ASSUME NEW u \in manifest', u.name \in DOMAIN tables', NEW k \in DOMAIN tables'[u.name]
               PROVE  k \in AllKeys /\ u.small <= k /\ k <= u.large
    BY Zenon DEF Bounded
  <2>1. CASE u = t
    BY Zenon, <2>1, <1>3, <1>5, <1>6
  <2>2. CASE u \in manifest
    BY Zenon, <2>2, <1>5, <1>10 DEF LevelInv, Bounded
  <2> QED
    BY Zenon, <1>1, <2>1, <2>2
<1>13. Bounded(goal', tables')
  BY Zenon, <1>1, <1>5, <1>10 DEF LevelInv, Bounded
<1>14. Bounded(manifest', temp'.tables)
  BY Zenon, <1>1, <1>6, <1>11 DEF LevelInv, Bounded
<1>15. Opens(manifest)'
  BY Zenon, <1>1, <1>5, <1>6 DEF LevelInv, Opens
<1>16. LevelsDisjoint'
  <2>1. AtLevel(manifest', 1) = AtLevel(manifest, 1)
    BY <1>1, <1>6 DEF AtLevel
  <2>2. Apart(manifest)' /\ Apart(goal)'
    BY <1>1, <2>1, DisjointIsApart, Zenon DEF LevelInv, Apart
  <2> QED
    BY Zenon, <2>2 DEF LevelsDisjoint, Apart
<1> QED
  BY Zenon, <1>1, <1>4, <1>8, <1>9, <1>12, <1>13, <1>14, <1>15, <1>16 DEF LevelInv, Bounded

\* A rename puts a table where its TableMeta, if any manifest has it, wants it.
LEMMA RenameTableStep ==
  ASSUME LevelInv, RenameTable
  PROVE  LevelInv'
<1> DEFINE n == Min(DOMAIN temp.tables)
<1>1. /\ tables' = With(tables, n, temp.tables[n])
      /\ temp' = [temp EXCEPT !.tables = Without(temp.tables, {n})]
      /\ UNCHANGED <<manifest, goal, clock, handle, phase>>
      /\ DOMAIN temp.tables # {}
  BY Zenon DEF RenameTable
<1>2. /\ clock \in Nat /\ DOMAIN tables \subseteq 0..clock /\ DOMAIN temp.tables \subseteq 0..clock
      /\ temp = [tables |-> temp.tables, segs |-> temp.segs]
  BY Zenon DEF LevelInv
<1>3. n \in DOMAIN temp.tables
  <2>1. DOMAIN temp.tables \subseteq Nat
    BY <1>2
  <2> QED
    BY Zenon, <1>1, <2>1, MinExists
<1> HIDE DEF n
<1>4. DOMAIN tables' = {n} \cup DOMAIN tables /\ tables'[n] = temp.tables[n]
      /\ \A m \in DOMAIN tables : m # n => tables'[m] = tables[m]
  BY Zenon, <1>1 DEF With
<1>5. /\ temp' = [tables |-> Without(temp.tables, {n}), segs |-> temp.segs]
      /\ DOMAIN temp'.tables \subseteq DOMAIN temp.tables
      /\ \A m \in DOMAIN temp'.tables : temp'.tables[m] = temp.tables[m]
  <2>1. temp' = [tables |-> Without(temp.tables, {n}), segs |-> temp.segs]
    BY Zenon, <1>1, <1>2
  <2> QED
    BY Zenon, <2>1 DEF Without
<1>6. ASSUME NEW metas, Bounded(metas, tables), Bounded(metas, temp.tables)
      PROVE  Bounded(metas, tables') /\ Bounded(metas, temp'.tables)
  BY Zenon, <1>3, <1>4, <1>5, <1>6 DEF Bounded
<1>7. /\ Bounded(manifest', tables') /\ Bounded(manifest', temp'.tables)
      /\ Bounded(goal', tables') /\ Bounded(goal', temp'.tables)
  BY Zenon, <1>1, <1>6 DEF LevelInv
<1>8. (handle = "open" => Opens(manifest))'
  BY Zenon, <1>1, <1>4 DEF LevelInv, Opens
<1>9. LevelsDisjoint'
  BY Zenon, <1>1 DEF LevelInv, LevelsDisjoint
<1>10. DOMAIN tables' \subseteq 0..clock' /\ DOMAIN temp'.tables \subseteq 0..clock'
  BY Zenon, <1>1, <1>2, <1>3, <1>4, <1>5
<1>11. temp' = [tables |-> temp'.tables, segs |-> temp'.segs]
  BY Zenon, <1>5
<1> QED
  BY <1>1, <1>2, <1>7, <1>8, <1>9, <1>10, <1>11, Zenon DEF LevelInv, Bounded

\* The steps that put no table into the directory.
LEMMA FileStep ==
  ASSUME LevelInv,
         \/ RenameSegment \/ RenameEnd \/ ReplaceManifest \/ Finish \/ Interrupt \/ Reopen
         \/ \E n \in doomed.tables : RemoveTable(n)
         \/ \E n \in doomed.segs : RemoveSegment(n)
         \/ UNCHANGED vars
  PROVE  LevelInv'
<1>1. CASE RenameSegment
  <2>1. /\ UNCHANGED <<tables, manifest, goal, clock, handle, phase>>
        /\ \E f : temp' = [temp EXCEPT !.segs = f]
    BY <1>1, Zenon DEF RenameSegment
  <2>2. temp' = [tables |-> temp'.tables, segs |-> temp'.segs] /\ temp'.tables = temp.tables
    BY Zenon, <2>1 DEF LevelInv
  <2> QED
    BY Zenon, <2>1, <2>2 DEF LevelInv, LevelsDisjoint, Bounded, Opens
<1>2. CASE RenameEnd \/ UNCHANGED vars \/ \E n \in doomed.segs : RemoveSegment(n)
  <2>1. /\ UNCHANGED <<tables, manifest, goal, clock, handle, temp>>
        /\ UNCHANGED phase \/ phase # "idle"
    BY <1>2, Zenon DEF RenameEnd, RemoveSegment, vars
  <2> QED
    BY Zenon, <2>1 DEF LevelInv, LevelsDisjoint, Bounded, Opens
<1>3. CASE \E n \in doomed.tables : RemoveTable(n)
  <2>1. PICK n \in doomed.tables : RemoveTable(n)
    BY Zenon, <1>3
  <2>2. /\ UNCHANGED <<manifest, goal, clock, handle, temp, phase>>
        /\ phase = "remove"
        /\ DOMAIN tables' \subseteq DOMAIN tables
        /\ \A m \in DOMAIN tables' : tables'[m] = tables[m]
    BY Zenon, <2>1 DEF RemoveTable, Without
  <2>3. Bounded(manifest, tables') /\ Bounded(goal, tables')
    BY Zenon, <2>2 DEF LevelInv, Bounded
  <2>4. handle = "job"
    BY Zenon, <2>2 DEF LevelInv
  <2> QED
    BY Zenon, <2>2, <2>3, <2>4 DEF LevelInv, LevelsDisjoint, Bounded
<1>4. CASE ReplaceManifest
  <2>1. manifest' = goal /\ UNCHANGED <<tables, goal, clock, handle, temp>> /\ phase = "remove"
    BY <1>4, Zenon DEF ReplaceManifest, RemovalDone
  <2>2. handle = "job"
    BY Zenon, <2>1 DEF LevelInv
  <2> QED
    BY Zenon, <2>1, <2>2 DEF LevelInv, LevelsDisjoint, Bounded
<1>5. CASE Finish
  <2>1. /\ Opens(manifest) /\ goal' = {} /\ phase' = "idle"
        /\ UNCHANGED <<tables, manifest, clock, temp>>
    BY Zenon, <1>5 DEF Finish
  <2> QED
    BY Zenon, <2>1 DEF LevelInv, LevelsDisjoint, AtLevel, Bounded, Opens
<1>6. CASE Interrupt
  <2>1. /\ handle' = "down" /\ phase' = "idle" /\ (goal' = goal \/ goal' = {}) /\ temp' = NoFiles
        /\ UNCHANGED <<tables, manifest, clock>>
    BY Zenon, <1>6 DEF Interrupt
  <2>2. DOMAIN temp'.tables = {} /\ temp' = [tables |-> temp'.tables, segs |-> temp'.segs]
    BY <2>1 DEF NoFiles
  <2> QED
    BY <2>1, <2>2 DEF LevelInv, LevelsDisjoint, AtLevel, Bounded
<1>7. CASE Reopen
  <2>1. /\ handle = "down" /\ Opens(manifest)
        /\ UNCHANGED <<tables, manifest, goal, clock, temp, phase>>
    BY Zenon, <1>7 DEF Reopen
  <2> QED
    BY Zenon, <2>1 DEF LevelInv, LevelsDisjoint, Bounded, Opens
<1> QED
  BY Zenon, <1>1, <1>2, <1>3, <1>4, <1>5, <1>6, <1>7

\* The bounds of tables and the disjointness of level 1 hold at all times.
THEOREM LevelInvariant == Spec => []LevelInv
<1>1. LevelInv /\ [Next]_vars => LevelInv'
  <2> SUFFICES ASSUME LevelInv, [Next]_vars PROVE LevelInv'
    BY Zenon
  <2>1. CASE \E kind \in Memtables : Flush(kind)
    BY Zenon, <2>1, FlushStep
  <2>2. CASE \E cuts \in SUBSET AllKeys : Compact(cuts)
    BY Zenon, <2>2, CompactStep
  <2>3. CASE \E cuts \in SUBSET AllKeys : RunGC(cuts)
    BY Zenon, <2>3, GCStep
  <2>4. CASE RenameTable
    BY Zenon, <2>4, RenameTableStep
  <2> QED
    BY Zenon, <2>1, <2>2, <2>3, <2>4, FileStep DEF Next
<1> QED
  BY <1>1, InitLevelInv, PTL DEF Spec

\* findLevelTable (compaction.go:471) looks at a single table of level 1.  It may:
\* no sequence of flushes, compactions and collections, also stopped ones, makes
\* two tables of level 1 overlap.
THEOREM LevelsStayDisjoint == Spec => []LevelsDisjoint
<1>1. LevelInv => LevelsDisjoint
  BY Zenon DEF LevelInv
<1> QED
  BY <1>1, LevelInvariant, PTL
=============================================================================
