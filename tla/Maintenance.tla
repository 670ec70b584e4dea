---------------------------- MODULE Maintenance ----------------------------
(***************************************************************************)
(* Compact and RunValueLogGC (compaction.go, gc.go): both close the store, *)
(* write new files into a temporary directory, rename them into place,     *)
(* remove the files they replace, replace the manifest and open the store  *)
(* again.  A crash or an I/O error may stop them between any two of these. *)
(*                                                                         *)
(* What happens while the store is open is one action, Flush, that adds a  *)
(* table; Engine models how it comes about.  The version of a value is the *)
(* number of the flush that wrote it.  The value log has one segment per   *)
(* run of the collector (ValueLog models rotation), and a record of it is  *)
(* a pair of a key and a version.                                          *)
(***************************************************************************)
EXTENDS Levels, TLC

CONSTANTS
  AllKeys,      \* the keys, numbers
  Memtables,    \* the contents of memtables: functions from keys to kinds of entries
  MaxFlushes,   \* bound on the number of flushes
  MaxJobs,      \* bound on the calls of Compact and RunValueLogGC
  MaxMishaps    \* bound on the crashes and I/O errors

ASSUME MaintenanceAssumption ==
  /\ AllKeys \subseteq Nat /\ \E last \in AllKeys : \A k \in AllKeys : k <= last
  /\ \A m \in Memtables : /\ DOMAIN m \subseteq AllKeys /\ DOMAIN m # {}
                          /\ Range(m) \subseteq {"inline", "ref", "tomb"}

VARIABLES
  tables, segs,  \* the files of the directory: name -> entries, id -> records
  manifest,      \* MANIFEST: a set of TableMeta
  handle,        \* the store is "open", in a "job" or "down"
  op, phase,     \* the job, "compact" or "gc", and what it does next
  temp, doomed,  \* files in its temporary directory, files it will remove
  goal,          \* the manifest it will write
  clock,         \* the last name given to a file
  flushes, jobs, mishaps,
  latest,        \* history: the version of each key a Get has to see, 0 for none
  torn           \* history: a job was stopped when the files of the manifest were gone

bounds == <<flushes, jobs, mishaps>>
vars == <<tables, segs, manifest, handle, op, phase, temp, doomed, goal, clock, bounds,
          latest, torn>>

NoFiles == [tables |-> <<>>, segs |-> <<>>]
Nothing == [tables |-> {}, segs |-> {}]

\* A file of that name is put into the directory f, in place of any other.
With(f, name, contents) ==
  [n \in DOMAIN f \cup {name} |-> IF n = name THEN contents ELSE f[n]]

\* The files with names in S are removed.
Without(f, S) == [x \in DOMAIN f \ S |-> f[x]]

-----------------------------------------------------------------------------
(* Reading *)

Entry(kind, version, seg) == [kind |-> kind, version |-> version, seg |-> seg]

\* resolveStoredValue: a reference needs its record; -1 is an error.
Resolve(k, e) ==
  CASE e.kind = "tomb"   -> 0
    [] e.kind = "inline" -> e.version
    [] e.kind = "ref"    -> IF e.seg \in DOMAIN segs /\ <<k, e.version>> \in segs[e.seg]
                            THEN e.version ELSE -1

\* lookupLevels
Lookup(metas, k) ==
  LET found == Candidates(metas, tables, k)
  IN  IF found = {} THEN 0 ELSE Resolve(k, tables[FirstOf(found).name][k])

\* openSSTablesFromMeta finds the files of all tables.
Opens(metas) == \A t \in metas : t.name \in DOMAIN tables

Readable(metas) == Opens(metas) /\ \A k \in AllKeys : Lookup(metas, k) = latest[k]

-----------------------------------------------------------------------------
(* The open store *)

\* vlog.Open makes the newest segment the active one.
ActiveSegment == Max(DOMAIN segs)

\* A memtable with the given kinds of entries is flushed (installFlushedTable).
\* Its large values were appended to the active segment.
Flush(kind) ==
  LET keys == DOMAIN kind
      n == clock + 1
  IN  /\ handle = "open" /\ flushes < MaxFlushes
      /\ segs' = [segs EXCEPT ![ActiveSegment] =
                    @ \cup {<<k, n>> : k \in {j \in keys : kind[j] = "ref"}}]
      /\ tables' = With(tables, n, [k \in keys |-> Entry(kind[k], n, ActiveSegment)])
      /\ manifest' = manifest \cup {MetaOf(n, 0, n, keys)}
      /\ latest' = [k \in AllKeys |->
                      IF k \notin keys THEN latest[k]
                      ELSE IF kind[k] = "tomb" THEN 0 ELSE n]
      /\ clock' = n /\ flushes' = flushes + 1
      /\ UNCHANGED <<handle, op, phase, temp, doomed, goal, jobs, mishaps, torn>>

-----------------------------------------------------------------------------
(* The outputs of a job *)

\* sstableID: the output files get the next names, each its own, in the order in
\* which they are written.
Namings(parts, base, written) ==
  {name \in [parts -> base + 1..base + Cardinality(parts)] :
     /\ IsInjective(name)
     /\ \A p, q \in parts : <<p, q>> \in written => name[p] < name[q]}

\* The files that hold the entries of the keys of a part each.
FilesOf(name, keys, ents) ==
  [n \in Range(name) |-> Restrict(ents, keys[CHOOSE p \in DOMAIN name : name[p] = n])]

Start(job, newTables, newSegs, newDoomed, newGoal, ticks) ==
  /\ handle' = "job" /\ op' = job /\ phase' = "rename" /\ jobs' = jobs + 1
  /\ temp' = [tables |-> newTables, segs |-> newSegs]
  /\ doomed' = newDoomed /\ goal' = newGoal
  /\ clock' = clock + ticks
  /\ UNCHANGED <<tables, segs, manifest, flushes, mishaps, latest, torn>>

\* Compact up to the end of compactTables.  Nothing is deeper than level 1, so
\* tombstones are dropped.
Compact(cuts) ==
  LET source == Source(manifest)
      target == Target(manifest)
      inputs == source \cup target
      ents   == DropTombstones(Merge(source, target, tables))
      parts  == Chunks(Keys(ents), cuts)
      written == {w \in parts \X parts : Min(w[1]) < Min(w[2])}
  IN  /\ handle = "open" /\ jobs < MaxJobs /\ manifest # {}
      /\ cuts \subseteq Keys(ents)
      /\ \E name \in Namings(parts, clock, written) :
           Start("compact", FilesOf(name, [p \in parts |-> p], ents), <<>>,
                 [Nothing EXCEPT !.tables = {t.name : t \in inputs}],
                 (manifest \ inputs) \cup {MetaOf(name[p], 1, name[p], p) : p \in parts},
                 Cardinality(parts))

\* The table whose entry for k rebuildLiveState meets first.
Holder(k) ==
  LET holding == {t \in manifest : k \in Keys(tables[t.name])}
      level0  == AtLevel(holding, 0)
  IN  FirstOf(IF level0 # {} THEN level0 ELSE holding)

\* storeValueForLSM into the new log.
Rewritten(e, seg) == IF e.kind = "ref" THEN [e EXCEPT !.seg = seg] ELSE e

\* Mutant: only the segment the collector read last is removed.
OldSegmentsMutant == {ActiveSegment}

\* scanValueLogPaths before the renames
OldSegments == DOMAIN segs

\* RunValueLogGC up to the end of rebuildLiveState: per table, the entries that
\* are not hidden by an earlier table and are not tombstones.
RunGC(cuts) ==
  LET seg  == clock + 1
      all  == UNION {Keys(tables[t.name]) : t \in manifest}
      live == DropTombstones([k \in all |-> tables[Holder(k).name][k]])
      ents == [k \in Keys(live) |-> Rewritten(live[k], seg)]
      parts == UNION {{[src |-> t, keys |-> c] :
                         c \in Chunks({k \in Keys(ents) : Holder(k) = t}, cuts)}
                      : t \in manifest}
      Precedes(p, q) == \/ p.src.level < q.src.level
                        \/ p.src.level = q.src.level /\ Before(p.src, q.src)
                        \/ p.src = q.src /\ Min(p.keys) < Min(q.keys)
      written == {w \in parts \X parts : Precedes(w[1], w[2])}
      recs == {<<k, ents[k].version>> : k \in {j \in Keys(ents) : ents[j].kind = "ref"}}
  IN  /\ handle = "open" /\ jobs < MaxJobs
      /\ cuts \subseteq Keys(ents)
      /\ \E name \in Namings(parts, seg, written) :
           Start("gc", FilesOf(name, [p \in parts |-> p.keys], ents), seg :> recs,
                 [tables |-> {t.name : t \in manifest}, segs |-> OldSegments],
                 {MetaOf(name[p], p.src.level, p.src.created, p.keys) : p \in parts},
                 Cardinality(parts) + 1)

-----------------------------------------------------------------------------
(* replaceCompactedTables and replaceRewrittenFiles *)

\* os.Rename in the order of os.ReadDir: segments sort before tables.
RenameSegment ==
  /\ phase = "rename" /\ temp.segs # <<>>
  /\ LET n == Min(DOMAIN temp.segs)
     IN  /\ segs' = With(segs, n, temp.segs[n])
         /\ temp' = [temp EXCEPT !.segs = Without(@, {n})]
  /\ UNCHANGED <<tables, manifest, handle, op, phase, doomed, goal, clock, bounds, latest, torn>>

RenameTable ==
  /\ phase = "rename" /\ temp.segs = <<>> /\ DOMAIN temp.tables # {}
  /\ LET n == Min(DOMAIN temp.tables)
     IN  /\ tables' = With(tables, n, temp.tables[n])
         /\ temp' = [temp EXCEPT !.tables = Without(@, {n})]
  /\ UNCHANGED <<segs, manifest, handle, op, phase, doomed, goal, clock, bounds, latest, torn>>

RenameEnd ==
  /\ phase = "rename" /\ temp = NoFiles
  /\ phase' = "remove"
  /\ UNCHANGED <<tables, segs, manifest, handle, op, temp, doomed, goal, clock, bounds,
                 latest, torn>>

\* os.Remove of the replaced tables, in any order, ...
RemoveTable(n) ==
  /\ phase = "remove" /\ n \in doomed.tables
  /\ tables' = Without(tables, {n})
  /\ doomed' = [doomed EXCEPT !.tables = @ \ {n}]
  /\ UNCHANGED <<segs, manifest, handle, op, phase, temp, goal, clock, bounds, latest, torn>>

\* ... and then of the old segments.
RemoveSegment(n) ==
  /\ phase = "remove" /\ doomed.tables = {} /\ n \in doomed.segs
  /\ segs' = Without(segs, {n})
  /\ doomed' = [doomed EXCEPT !.segs = @ \ {n}]
  /\ UNCHANGED <<tables, manifest, handle, op, phase, temp, goal, clock, bounds, latest, torn>>

RemovalDone == phase = "remove" /\ doomed = Nothing

\* manifest.ReplaceTables: an atomic rename.
ReplaceManifest ==
  /\ RemovalDone
  /\ manifest' = goal
  /\ phase' = "reopen"
  /\ UNCHANGED <<tables, segs, handle, op, temp, doomed, goal, clock, bounds, latest, torn>>

\* os.RemoveAll(tempDir) and openDB.
Finish ==
  /\ phase = "reopen" /\ Opens(manifest)
  /\ handle' = "open" /\ op' = "none" /\ phase' = "idle" /\ goal' = {}
  /\ UNCHANGED <<tables, segs, manifest, temp, doomed, clock, bounds, latest, torn>>

\* The process dies, or a step returns an error and the deferred os.RemoveAll
\* drops the temporary directory.  Nothing reads such a directory later on.
Interrupt ==
  /\ handle = "job" /\ mishaps < MaxMishaps
  /\ handle' = "down" /\ op' = "none" /\ phase' = "idle" /\ mishaps' = mishaps + 1
  /\ temp' = NoFiles /\ doomed' = Nothing
  /\ torn' = ~Opens(manifest)
  /\ goal' = IF torn' THEN goal ELSE {}
  /\ UNCHANGED <<tables, segs, manifest, clock, flushes, jobs, latest>>

\* The next openDB.
Reopen ==
  /\ handle = "down" /\ Opens(manifest)
  /\ handle' = "open"
  /\ UNCHANGED <<tables, segs, manifest, op, phase, temp, doomed, goal, clock, bounds, latest,
                 torn>>

-----------------------------------------------------------------------------

\* An empty store that has been opened.
Init ==
  /\ tables = <<>> /\ segs = (1 :> {}) /\ manifest = {}
  /\ handle = "open" /\ op = "none" /\ phase = "idle" /\ temp = NoFiles /\ doomed = Nothing /\ goal = {}
  /\ clock = 1 /\ flushes = 0 /\ jobs = 0 /\ mishaps = 0
  /\ latest = [k \in AllKeys |-> 0] /\ torn = FALSE

Next ==
  \/ \E kind \in Memtables : Flush(kind)
  \/ \E cuts \in SUBSET AllKeys : Compact(cuts) \/ RunGC(cuts)
  \/ RenameSegment \/ RenameTable \/ RenameEnd
  \/ \E n \in doomed.tables : RemoveTable(n)
  \/ \E n \in doomed.segs : RemoveSegment(n)
  \/ ReplaceManifest \/ Finish \/ Interrupt \/ Reopen

Spec == Init /\ [][Next]_vars

-----------------------------------------------------------------------------
(* Properties *)

\* Tables of level 1 do not overlap, in the manifest (compaction.go:441) and in
\* the one a job is about to write: findLevelTable looks at a single one.
LevelsDisjoint ==
  \A m \in {manifest, goal} : \A t, u \in AtLevel(m, 1) :
    t # u => t.large < u.small \/ u.large < t.small

\* The files that are removed (compaction.go:208, gc.go:201) are removed after
\* their replacements are complete: whatever the sequence of flushes, compactions
\* and collections, also stopped and repeated ones, either the tables of the
\* manifest or those of the manifest a job was about to write hold the newest
\* version of every key.  An open store has the former.
DataKept ==
  IF torn \/ phase \in {"remove", "reopen"} THEN Readable(goal) ELSE Readable(manifest)

\* A collection leaves the live values in the value log and nothing else, also
\* when segments of an earlier, stopped collection were lying about (gc.go:206).
GarbageCollected ==
  op = "gc" /\ phase = "reopen" =>
    UNION Range(segs) =
      {<<k, latest[k]>> : k \in {j \in AllKeys :
         \E t \in Candidates(manifest, tables, j) : tables[t.name][j].kind = "ref"}}

=============================================================================
