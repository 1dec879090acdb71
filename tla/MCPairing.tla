------------------------------ MODULE MCPairing ------------------------------
(***************************************************************************)
(* Small instances of Pairing.                                             *)
(***************************************************************************)
EXTENDS Pairing, TLC

Symmetry == Permutations(Requests) \cup Permutations(Drivers) \cup Permutations(Users)
            \cup Permutations(Vehicles) \cup Permutations(Groups)
=============================================================================
