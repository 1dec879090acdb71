CONSTANTS
  Requests = {r1, r2}
  Companies = {c1, c2}
  Staff = Staff
  Nobody = Nobody
  Shared = Shared
  Kinds = {cargo}
  Owned = {cargo}
  Shareable = {cargo}
  Ids = {i1}
  Names = {n1, n2}
  All = All
  CanFail = TRUE
  Concurrent = TRUE
  MaxWrites = 2
  Clients = {c1, c2, Nobody}
SPECIFICATION FairSpec
INVARIANT NoLeak
PROPERTY WritesItsOwn
PROPERTY CacheRecovers
