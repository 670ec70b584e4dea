------------------------------- MODULE Levels -------------------------------
(***************************************************************************)
(* The levels of tables (compaction.go): how a key is looked up, which     *)
(* tables the planner selects and how tables are merged.                   *)
(*                                                                         *)
(* Keys are integers.  A table is a function from its keys to entries; its *)
(* TableMeta gives file name, level, creation time and bounds.  File names *)
(* and creation times are readings of one clock.                           *)
(***************************************************************************)
EXTENDS Integers, FiniteSets, Sequences, FiniteSetsExt, Functions, Order, Search

Keys(ents) == DOMAIN ents

\* tableMetaFromSST, with the bounds of loadMetadata.  GC overrides CreatedAt.
MetaOf(name, level, created, keys) ==
  [name |-> name, level |-> level, created |-> created,
   small |-> Min(keys), large |-> Max(keys)]

AtLevel(metas, l) == {t \in metas : t.level = l}

\* sortTableMetaForLevel: level 0 newest first, level 1 by smallest key.
Before(t, u) ==
  IF t.level = 0
    THEN t.created > u.created \/ (t.created = u.created /\ t.name > u.name)
    ELSE \/ t.small < u.small
         \/ t.small = u.small /\ (t.created < u.created
                                  \/ (t.created = u.created /\ t.name < u.name))

\* The first and the last of a level in that order.
FirstOf(ts) == CHOOSE t \in ts : \A u \in ts : ~Before(u, t)
LastOf(ts)  == CHOOSE t \in ts : \A u \in ts : ~Before(t, u)

-----------------------------------------------------------------------------
(* Lookup *)

\* findLevelTable: the set of at most one table.
FindLevelTable(ts, k) ==
  LET meta == InOrder(ts, {p \in ts \X ts : Before(p[1], p[2])})
      idx  == SortSearch(Len(meta), [i \in 0..Len(meta) - 1 |-> meta[i + 1].large >= k])
  IN  IF idx = Len(meta) \/ k < meta[idx + 1].small THEN {} ELSE {meta[idx + 1]}

\* The tables of which lookupLevels takes the first: those of level 0 that hold
\* the key, and failing them the one table findLevelTable picks.
Candidates(metas, file, k) ==
  LET Holding(ts) == {t \in ts : k \in Keys(file[t.name])}
      level0 == Holding(AtLevel(metas, 0))
  IN  IF level0 # {} THEN level0 ELSE Holding(FindLevelTable(AtLevel(metas, 1), k))

-----------------------------------------------------------------------------
(* The planner *)

Overlap(t, lo, hi) == t.large >= lo /\ t.small <= hi

\* tableMetaBounds
Lo(ts) == Min({t.small : t \in ts})
Hi(ts) == Max({t.large : t \in ts})

\* selectL0CompactionSource adds tables that overlap the range selected so far
\* until none is left: the least set that holds the last table and is closed.
Select(ts) ==
  LET Closed(S) == /\ LastOf(ts) \in S
                   /\ \A t \in ts : Overlap(t, Lo(S), Hi(S)) => t \in S
  IN  {t \in ts : \A S \in SUBSET ts : Closed(S) => t \in S}

\* levels[0]: the lowest level that has tables.
Lowest(metas) == AtLevel(metas, IF AtLevel(metas, 0) # {} THEN 0 ELSE 1)

\* Mutant: the target overlaps the oldest table only.
TargetOfOldest(metas) ==
  LET last == LastOf(Lowest(metas))
  IN  {t \in AtLevel(metas, 1) : Overlap(t, last.small, last.large)}

\* Plan
Source(metas) == Select(Lowest(metas))
Target(metas) ==
  LET source == Source(metas)
  IN  {t \in AtLevel(metas, 1) : Overlap(t, Lo(source), Hi(source))}

-----------------------------------------------------------------------------
(* The merge *)

\* Mutant: the target tables come first.
WinnerOldest(source, target, file, k) ==
  LET Holding(ts) == {t \in ts : k \in Keys(file[t.name])}
  IN  IF Holding(target) # {} THEN FirstOf(Holding(target)) ELSE FirstOf(Holding(source))

\* compactionMergeIterator: a key comes from the first input that has it, and
\* the source tables come before the target tables.
Winner(source, target, file, k) ==
  LET Holding(ts) == {t \in ts : k \in Keys(file[t.name])}
  IN  IF Holding(source) # {} THEN FirstOf(Holding(source)) ELSE FirstOf(Holding(target))

Merge(source, target, file) ==
  [k \in UNION {Keys(file[t.name]) : t \in source \cup target} |->
     file[Winner(source, target, file, k).name][k]]

\* What is left of a table without tombstones.
DropTombstones(ents) == [k \in {j \in Keys(ents) : ents[j].kind # "tomb"} |-> ents[k]]

\* flushBuilder ends a table after each key of cuts: where the bytes written
\* so far reach the target size.
Chunks(keys, cuts) == {{j \in keys : \A c \in cuts : c < j <=> c < k} : k \in keys}

=============================================================================
