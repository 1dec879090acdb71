------------------------------- MODULE MCViews -------------------------------
(***************************************************************************)
(* Small instances of Views.                                               *)
(***************************************************************************)
EXTENDS Views, TLC

Symmetry == Permutations(Devices) \cup Permutations(haulingUnits)
            \cup Permutations(Requests)
=============================================================================
