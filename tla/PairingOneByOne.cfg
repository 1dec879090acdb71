CONSTANTS
  None = None
  Keep = Keep
  Requests = {r1, r2}
  Drivers = {d1, d2}
  Users = {u1}
  Vehicles = {v1, v2}
  Groups = {g1}
  CanFail = TRUE
  Ops = {"CreateVehicle", "UpdateVehicle", "DeleteVehicle", "CreateDriver", "UpdateDriver", "DeleteDriver", "CreateGroup", "UpdateGroup", "DeleteGroup"}
SPECIFICATION OneByOne
SYMMETRY Symmetry
CHECK_DEADLOCK FALSE
INVARIANT OneTruckPerDriver
INVARIANT NoRetiredDriverNamed
INVARIANT GroupIsThere
INVARIANT AllButReleasesAnnounced
