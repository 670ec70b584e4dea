------------------------------- MODULE Arena -------------------------------
(***************************************************************************)
(* The bytes of a memtable: what the engine counts (db.go) against what    *)
(* the skiplist takes from its arena (skiplist/skiplist.go).  The entries  *)
(* of a batch have fresh keys and values that stay inline; all keys have   *)
(* KeySize bytes and all values ValueSize.  Towers have the height of      *)
(* most nodes, 1; higher ones only take more.  A behaviour ends where the  *)
(* arena does, long before its 32-bit offsets overflow.                    *)
(***************************************************************************)
EXTENDS Naturals, Sequences, FiniteSets, SequencesExt

CONSTANTS
  MemtableMaxBytes, MinArenaSize,   \* defaultMemtableMaxBytes, minMemtableArenaSize
  KeySize, ValueSize,
  BatchSize                         \* requests the writer takes at once

VARIABLES
  bytes,     \* memtableBytes
  n,         \* arena.n of the memtable
  logged,    \* entries in the logs of the memtable
  rotated    \* entries in the logs of the memtables that wait for the flusher

vars == <<bytes, n, logged, rotated>>

MaxHeight == 20
NodeSize  == 16 + 4 * MaxHeight
NodeAlign == 7

\* putNode
NodeBytes(height) == NodeSize - (MaxHeight - height) * 4 + NodeAlign

\* newNode takes room for the node, the key and the value.
NewNode(size, height, k, v) == size + NodeBytes(height) + k + v

\* The first byte is never used, and the head has full height.
NewList == NewNode(1, MaxHeight, 0, 0)

\* memtableArenaSize
ArenaSize == IF 2 * MemtableMaxBytes < MinArenaSize THEN MinArenaSize ELSE 2 * MemtableMaxBytes

\* memtableEntrySize
EntrySize == KeySize + ValueSize

\* Arena after a number of calls of Put.
PutAll(size, count) == size + count * (NodeBytes(1) + EntrySize)

\* Entries until memtableMaxBytes is reached, at least one.
Room == IF bytes >= MemtableMaxBytes THEN 1
        ELSE (MemtableMaxBytes - bytes + EntrySize - 1) \div EntrySize

\* processWriteBatch for the requests up to the one that crosses the limit, with
\* rotateMemtable.  Two memtables at most wait: one in flushCh and one with the
\* flusher; a third blocks the writer.
ProcessWriteBatch ==
  LET prepared == IF Room <= BatchSize THEN Room ELSE BatchSize
      crossing == bytes + prepared * EntrySize >= MemtableMaxBytes
      used == PutAll(n, prepared)
  IN  /\ Len(rotated) < 3
      /\ n <= ArenaSize
      /\ IF crossing /\ used <= ArenaSize
           THEN /\ rotated' = Append(rotated, logged + prepared)
                /\ logged' = 0 /\ bytes' = 0 /\ n' = NewList
           ELSE /\ logged' = logged + prepared
                /\ bytes' = bytes + prepared * EntrySize
                /\ n' = used
                /\ UNCHANGED rotated

\* flushLoop removes the logs of the oldest memtable.
FlushOne == rotated # <<>> /\ rotated' = Tail(rotated) /\ UNCHANGED <<bytes, n, logged>>

\* openDB replays all logs into one memtable.
ReplayWALs ==
  LET count == FoldLeft(+, logged, rotated)
  IN  /\ n <= ArenaSize
      /\ logged' = count /\ bytes' = count * EntrySize
      /\ n' = PutAll(NewList, count)
      /\ rotated' = <<>>

Init == bytes = 0 /\ n = NewList /\ logged = 0 /\ rotated = <<>>

Next == ProcessWriteBatch \/ FlushOne \/ ReplayWALs

Spec == Init /\ [][Next]_vars

-----------------------------------------------------------------------------

\* skiplist.go:278: "Put inserts or overwrites key with v."  All a memtable has
\* taken is inside its arena; past the end, putKey, putVal and getNode panic or
\* cut the entry off.
ArenaFits == n <= ArenaSize

=============================================================================
