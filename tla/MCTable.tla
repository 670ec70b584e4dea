------------------------------ MODULE MCTable ------------------------------
(***************************************************************************)
(* Memtables for model checking: entries of one to four cells for blocks   *)
(* of three, one of them too large.                                        *)
(***************************************************************************)
EXTENDS Table

MCMemtables ==
  {2 :> 1, (2 :> 3) @@ (4 :> 2) @@ (6 :> 3), (2 :> 2) @@ (4 :> 1) @@ (6 :> 2) @@ (8 :> 3),
   (2 :> 1) @@ (4 :> 4)}

MCHash(k) == (k * 23 + 5) % 64

=============================================================================
