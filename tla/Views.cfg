CONSTANTS
  Requests = {r1, r2}
  Editors = {e1}
  Devices = {d1, d2}
  Vehicles = {v1, v2}
  Trailers = {}
  Nil = Nil
  Backdating = FALSE
  Slack = 0
  MaxTime = 1
  MaxFits = 2
SPECIFICATION ViewSpec
SYMMETRY Symmetry
INVARIANT ListsWhatIsFitted
PROPERTY ListingIsOfAMoment
PROPERTY PastStands
