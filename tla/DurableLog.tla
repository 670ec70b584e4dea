----------------------------- MODULE DurableLog -----------------------------
(***************************************************************************)
(* What a write-ahead log promises its caller (wal.go): a sequence of      *)
(* records that only grows, of which a growing prefix is on stable         *)
(* storage, and of which only stable records are acknowledged.  Records    *)
(* are numbered from 1 in the order in which they are appended.            *)
(***************************************************************************)
EXTENDS Naturals

VARIABLES
  len,     \* number of records accepted
  stable,  \* records 1..stable survive a loss of power
  acked    \* records 1..acked have been reported durable to a caller

logVars == <<len, stable, acked>>

Init == len = 0 /\ stable = 0 /\ acked = 0

\* One step may accept records, harden a longer prefix and acknowledge part of it.
Advance ==
  /\ len' \in Nat /\ len' >= len
  /\ stable' \in stable..len'
  /\ acked' \in acked..stable'

Spec == Init /\ [][Advance]_logVars

=============================================================================
