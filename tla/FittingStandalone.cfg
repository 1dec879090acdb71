CONSTANTS
  None = None
  FirstCompany = A
  SecondCompany = B
  Requests = {r1, r2, r3}
  Lone = {r3}
  Companies = {A}
  Trackers = {g1, g2}
  Dashcams = {}
  Vehicles = {v1, v2}
  SecondFleet = {}
  KindOf <- MCKindOf
  CompanyOf <- MCCompanyOf
  Transactional = FALSE
  CanFail = TRUE
  Ops = {"Fit", "Unfit", "UpdateVehicle", "DeleteVehicle", "DeleteTracker"}
SPECIFICATION Spec
SYMMETRY Symmetry
CHECK_DEADLOCK FALSE
INVARIANT FitRepairs
PROPERTY FitsNothingRetired
