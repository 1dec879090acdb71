------------------------------ MODULE MCFitting ------------------------------
(***************************************************************************)
(* Small instances of Fitting: which trackers are dashcams and which       *)
(* vehicles belong to the second company is said with sets of model        *)
(* values, so that the rest may be permuted.                               *)
(***************************************************************************)
EXTENDS Fitting, TLC

CONSTANTS Dashcams, SecondFleet, FirstCompany, SecondCompany

MCKindOf == [t \in Trackers |-> IF t \in Dashcams THEN "dashcam" ELSE "gps"]

MCCompanyOf ==
  [v \in Vehicles |-> IF v \in SecondFleet THEN SecondCompany ELSE FirstCompany]

Symmetry == Permutations(Requests \ Lone) \cup Permutations(Dashcams)
            \cup Permutations(Trackers \ Dashcams)
            \cup Permutations(Vehicles \ SecondFleet)
=============================================================================
