CONSTANTS
  Requests = {r1}
  Companies = {c1, c2}
  Staff = Staff
  Nobody = Nobody
  Shared = Shared
  Kinds = {cargo}
  Owned = {cargo}
  Shareable = {cargo}
  Ids = {i1, i2}
  Names = {n1, n2}
  All = All
  CanFail = FALSE
  Concurrent = FALSE
  MaxWrites = 1
  Clients = {c1, c2, Staff, Nobody}
SPECIFICATION Spec
SYMMETRY Symmetry
INVARIANT CacheCurrent
