------------------------------ MODULE MCCatalog ------------------------------
(***************************************************************************)
(* Small instances of Catalog.                                             *)
(***************************************************************************)
EXTENDS Catalog, TLC

Symmetry == Permutations(Requests) \cup Permutations(Companies)
            \cup Permutations(Ids)
=============================================================================
