CONSTANTS
  Requests = {r1, r2}
  Devices = {d1, d2}
  Vehicles = {v1, v2}
  Backdating = TRUE
  Slack = 1
  MaxTime = 1
  MaxFits = 3
SPECIFICATION Spec
SYMMETRY Symmetry
INVARIANT OneDeviceAtATime
INVARIANT OneVehicleAtATime
INVARIANT QuestionsAgree
INVARIANT PeriodsComplete
