------------------------------ MODULE ValueLog ------------------------------
(***************************************************************************)
(* The segments of the value log (vlog/vlog.go) with short writes, crashes *)
(* and the scan of Open, and the references to records the tables hold     *)
(* (value_ref.go).                                                         *)
(*                                                                         *)
(* Records are numbered in the order they are appended and have a size in  *)
(* cells.  Cell i of record r is the pair <<r, i>>: a checksum matches     *)
(* when all the cells of a record follow each other.  Segments are         *)
(* numbered in the order they are created (nextSegmentID).                 *)
(***************************************************************************)
EXTENDS Naturals, Sequences, FiniteSets, SequencesExt

CONSTANTS
  Sizes,             \* sizes of records
  SegmentMax,        \* segmentMaxBytes
  MaxCompactOffset,  \* maxCompactValueRefOffset
  MaxRecords,        \* bound on the calls of Append
  MaxFaults,         \* bound on the I/O errors
  MaxCrashes         \* bound on the crashes

ASSUME ValueLogAssumption ==
  /\ Sizes \subseteq Nat \ {0} /\ SegmentMax \in Nat /\ MaxCompactOffset \in Nat
  /\ MaxRecords \in Nat /\ MaxFaults \in Nat /\ MaxCrashes \in Nat

VARIABLES
  segs,     \* the segment files: sequence of sequences of cells
  synced,   \* for each segment, the cells that are on stable storage
  handle,   \* the log is "open" or "closed"
  size,     \* active.size; the active segment is the last one
  failed,   \* db.flushErr: the caller gives up after an error of Append
  sizes,    \* the sizes of the records so far
  stored,   \* history: record -> the encoded reference Append gave, if it succeeded
  gone,     \* history: records a crash took away
  faults, crashes

vars == <<segs, synced, handle, size, failed, sizes, stored, gone, faults, crashes>>

-----------------------------------------------------------------------------
(* References *)

\* Mutant: the short form for every offset.
EncodeCompact(ref) ==
  [form |-> "compact", seg |-> ref.seg, offset |-> ref.offset % (MaxCompactOffset + 1)]

\* encodeValueRef: the short form has 32 bits for the offset.
Encode(ref) ==
  IF ref.offset <= MaxCompactOffset
    THEN [form |-> "compact", seg |-> ref.seg, offset |-> ref.offset % (MaxCompactOffset + 1)]
    ELSE [form |-> "wide", seg |-> ref.seg, offset |-> ref.offset]

\* decodeValueRef
Decode(enc) == [seg |-> enc.seg, offset |-> enc.offset]

-----------------------------------------------------------------------------
(* Files *)

\* The first n cells of a record.
Cells(r, n) == [i \in 1..n |-> <<r, i>>]

\* A whole record with a matching checksum starts at the offset.
RecordAt(cells, o) ==
  /\ o < Len(cells)
  /\ LET r == cells[o + 1][1]
     IN  o + sizes[r] <= Len(cells) /\ SubSeq(cells, o + 1, o + sizes[r]) = Cells(r, sizes[r])

\* scanSegment: the offsets of its records, one after the other, and the size
\* of the valid part.
Scan(cells) ==
  LET from[o \in 0..Len(cells)] ==
        IF RecordAt(cells, o)
          THEN LET rest == from[o + sizes[cells[o + 1][1]]]
               IN  [recs |-> <<cells[o + 1][1]>> \o rest.recs, valid |-> rest.valid]
          ELSE [recs |-> <<>>, valid |-> o]
  IN  from[0]

InvalidTail(cells) == Scan(cells).valid < Len(cells)

\* The records of files, in order.
Records(files) == FlattenSeq([s \in DOMAIN files |-> Scan(files[s]).recs])

\* WriteAt of n cells of a record at the offset.
WriteAt(cells, o, r, n) == SubSeq(cells, 1, o) \o Cells(r, n)

Active == Len(segs)

\* ReadValue: the record a reference leads to; 0 is an error.
Read(ref) ==
  IF ref.seg \in DOMAIN segs /\ RecordAt(segs[ref.seg], ref.offset)
    THEN segs[ref.seg][ref.offset + 1][1] ELSE 0

-----------------------------------------------------------------------------
(* Append, Sync, Close *)

\* Mutant: the caller goes on after an error.
MayAppendMutant == handle = "open"

\* processWriteBatch fails all requests once flushErr is set.
MayAppend == handle = "open" /\ ~failed

NeedsRotation(n) == size > 0 /\ size + n > SegmentMax

\* fsync of the active segment
Synced == [synced EXCEPT ![Active] = Len(segs[Active])]

\* Mutant: a segment is sealed without fsync.
SealedMutant == synced

\* rotateSegmentLocked hardens a segment before it starts the next one.
Sealed == Synced

\* Append of a record of n cells, of which w are written.
AppendRecord(n, w) ==
  LET r == Len(sizes) + 1
      rotated == IF NeedsRotation(n) THEN Append(segs, <<>>) ELSE segs
      at == IF NeedsRotation(n) THEN 0 ELSE size
      seg == Len(rotated)
  IN  /\ MayAppend /\ Len(sizes) < MaxRecords
      /\ sizes' = Append(sizes, n)
      /\ segs' = [rotated EXCEPT ![seg] = WriteAt(@, at, r, w)]
      /\ synced' = IF NeedsRotation(n) THEN Append(Sealed, 0) ELSE synced
      /\ size' = at + w
      /\ IF w = n
           THEN /\ stored' = Append(stored, Encode([seg |-> seg, offset |-> at]))
                /\ UNCHANGED <<failed, faults>>
           ELSE /\ faults < MaxFaults /\ faults' = faults + 1 /\ failed' = TRUE
                /\ stored' = Append(stored, [form |-> "none"])
      /\ UNCHANGED <<handle, gone, crashes>>

\* The fsync or the creation of a segment fails in rotateSegmentLocked.
RotateFails(n) ==
  /\ MayAppend /\ NeedsRotation(n) /\ faults < MaxFaults
  /\ faults' = faults + 1 /\ failed' = TRUE
  /\ synced' \in {synced, Sealed}
  /\ UNCHANGED <<segs, handle, size, sizes, stored, gone, crashes>>

\* Sync: the active segment only.
Sync ==
  /\ handle = "open"
  /\ synced' = Synced
  /\ UNCHANGED <<segs, handle, size, failed, sizes, stored, gone, faults, crashes>>

\* Close returns nil.
Close ==
  /\ handle = "open"
  /\ synced' = Synced
  /\ handle' = "closed"
  /\ UNCHANGED <<segs, size, failed, sizes, stored, gone, faults, crashes>>

\* The machine stops, or Close returns an error: each file loses up to n cells
\* that are not on stable storage.
Crash(n) ==
  LET keep == [s \in DOMAIN segs |->
                 IF synced[s] + n > Len(segs[s]) THEN synced[s] ELSE Len(segs[s]) - n]
  IN  /\ handle = "open" /\ crashes < MaxCrashes
      /\ crashes' = crashes + 1
      /\ handle' = "closed"
      /\ segs' = [s \in DOMAIN segs |-> SubSeq(segs[s], 1, keep[s])]
      /\ synced' = keep
      /\ gone' = DOMAIN stored \ ToSet(Records(segs'))
      /\ UNCHANGED <<size, failed, sizes, stored, faults>>

-----------------------------------------------------------------------------
(* Open *)

\* An invalid tail of the last segment is cut off; in any other segment it is
\* an error.
CanOpen == \A s \in DOMAIN segs : s # Active => ~InvalidTail(segs[s])

\* openEmpty creates the first segment.
OpenEmpty ==
  /\ handle = "closed" /\ segs = <<>>
  /\ segs' = <<<<>>>> /\ synced' = <<0>> /\ size' = 0
  /\ handle' = "open" /\ failed' = FALSE
  /\ UNCHANGED <<sizes, stored, gone, faults, crashes>>

Open ==
  /\ handle = "closed" /\ segs # <<>> /\ CanOpen
  /\ LET valid == Scan(segs[Active]).valid
     IN  /\ segs' = [segs EXCEPT ![Active] = SubSeq(@, 1, valid)]
         /\ synced' = [synced EXCEPT ![Active] = IF @ < valid THEN @ ELSE valid]
         /\ size' = valid
  /\ handle' = "open" /\ failed' = FALSE
  /\ UNCHANGED <<sizes, stored, gone, faults, crashes>>

-----------------------------------------------------------------------------

Init ==
  /\ segs = <<>> /\ synced = <<>> /\ handle = "closed" /\ size = 0 /\ failed = FALSE
  /\ sizes = <<>> /\ stored = <<>> /\ gone = {} /\ faults = 0 /\ crashes = 0

Next ==
  \/ \E n \in Sizes : RotateFails(n) \/ \E w \in 0..n : AppendRecord(n, w)
  \/ Sync \/ Close
  \/ \E n \in 0..SegmentMax : Crash(n)
  \/ OpenEmpty \/ Open

Spec == Init /\ [][Next]_vars

-----------------------------------------------------------------------------
(* Properties *)

\* No crash and no error leaves an invalid tail in a segment that is not the
\* last one, which Open would refuse for ever (vlog.go:143).
OpensAgain == CanOpen

\* A reference leads to the record it was made for until a crash takes the record,
\* whichever form it has (value_ref.go:18), across rotation, an error of Append
\* that leaves part of a record behind (vlog.go:213) and the truncation in Open.
RefsExact ==
  \A r \in DOMAIN stored \ gone :
    stored[r].form # "none" => Read(Decode(stored[r])) = r

\* The segments are one log (what Engine assumes): appending and reopening
\* lose nothing, Sync of the active segment hardens all of it (vlog.go:335),
\* and a crash takes a suffix.
Flat == INSTANCE FlatLog WITH
  log <- Records(segs),
  stable <- Len(Records([s \in DOMAIN segs |-> SubSeq(segs[s], 1, synced[s])]))
ImplementsFlatLog == Flat!Spec

=============================================================================
