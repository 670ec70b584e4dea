--------------------------- MODULE MCMaintenance ---------------------------
(***************************************************************************)
(* Memtables for model checking: narrow and wide ranges of keys, that fit  *)
(* into, overlap and enclose each other, with every kind of entry.         *)
(***************************************************************************)
EXTENDS Maintenance

MCMemtables ==
  {1 :> "ref", 2 :> "tomb", (1 :> "ref") @@ (2 :> "tomb"),
   (1 :> "inline") @@ (3 :> "ref"), (2 :> "ref") @@ (3 :> "tomb")}

=============================================================================
