CONSTANTS
  DefaultPageSize = 1
  MaxPageSize = 2
  SyncDefault = 1
  SyncMax = 2
  Ids = {1, 2, 3}
  Tags = {"", "yes"}
  Rank <- MCRank
  Queries <- MCQueries
  Writers = {w1, w2}
  MaxWrites = 2
  MaxClock = 1
SPECIFICATION Spec
INVARIANT TypeOK
INVARIANT WalkIsExact
INVARIANT SyncMissesNothing
SYMMETRY Symmetry
