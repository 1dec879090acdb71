------------------------------ MODULE MCHistory ------------------------------
(***************************************************************************)
(* Small instances of DeviceHistory.                                       *)
(***************************************************************************)
EXTENDS DeviceHistory, TLC

Symmetry == Permutations(Devices) \cup Permutations(Vehicles) \cup Permutations(Requests)
=============================================================================
