------------------------------ MODULE FlatLog ------------------------------
(***************************************************************************)
(* The value log as the engine sees it: one sequence of records of which a *)
(* prefix is on stable storage.  Only a crash takes records away, and none *)
(* of the prefix.                                                          *)
(***************************************************************************)
EXTENDS Naturals, Sequences, SequencesExt

VARIABLES log, stable, crashes

flatVars == <<log, stable, crashes>>

Init == log = <<>> /\ stable = 0 /\ crashes = 0

Extend ==
  /\ IsPrefix(log, log')
  /\ stable' \in stable..Len(log')
  /\ UNCHANGED crashes

Crash ==
  /\ IsPrefix(log', log)
  /\ stable' \in stable..Len(log')
  /\ crashes' = crashes + 1

Spec == Init /\ [][Extend \/ Crash]_flatVars

=============================================================================
