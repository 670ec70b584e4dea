------------------------------ MODULE KVStore ------------------------------
(***************************************************************************)
(* What the database promises with synchronous writes: one current write   *)
(* per key, which only later writes replace, and which a crash moves back  *)
(* no further than the last acknowledged write to that key.  Writes are    *)
(* numbered in the order they are made.                                    *)
(***************************************************************************)
EXTENDS Naturals

CONSTANT Keys

VARIABLES
  up,     \* a process has the database open
  store,  \* key -> the write a Get returns; 0 before the first
  floor   \* key -> the last acknowledged write

kvVars == <<up, store, floor>>

Init ==
  /\ up = FALSE
  /\ store = [k \in Keys |-> 0]
  /\ floor = [k \in Keys |-> 0]

\* Writes take effect or are acknowledged, or the database is opened or closed:
\* no key goes back, and none is acknowledged beyond what a Get shows.  Only an
\* open database accepts writes.
Advance(new, ack) ==
  /\ \A k \in Keys : /\ new[k] >= store[k]
                     /\ ack[k] >= floor[k] /\ ack[k] <= new[k]
  /\ ~(up /\ up') => \A k \in Keys : new[k] = store[k] /\ ack[k] = floor[k]

\* After a crash each key shows its last acknowledged write or a later one.
Crash(new, ack) ==
  /\ up /\ ~up'
  /\ \A k \in Keys : new[k] >= floor[k]
  /\ ack = floor

Next == Advance(store', floor') \/ Crash(store', floor')

Spec == Init /\ [][Next]_kvVars

=============================================================================
