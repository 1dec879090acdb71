CONSTANTS
  None = None
  FirstCompany = A
  SecondCompany = B
  Requests = {r1, r2}
  Lone = {}
  Companies = {A}
  Trackers = {g1, g2, c1}
  Dashcams = {c1}
  Vehicles = {v1, v2}
  SecondFleet = {}
  KindOf <- MCKindOf
  CompanyOf <- MCCompanyOf
  Transactional = TRUE
  CanFail = TRUE
  Ops = {"Fit", "Unfit", "CreateVehicle", "DeleteVehicle"}
SPECIFICATION Spec
SYMMETRY Symmetry
CHECK_DEADLOCK FALSE
INVARIANT ShortcutAgrees
INVARIANT OneGPSPerVehicle
PROPERTY KeepsPromise
