CONSTANTS
  Users = {u1}
  Sessions = {s1}
  Publishers = {p1}
  Life = 2
  Second = 1
  FlakyReads = TRUE
  FlakyLink = TRUE
  MaxTime = 2
  MaxPublishes = 2
  MaxRestarts = 1
SPECIFICATION FairSpec
PROPERTY EveryRevocationTakesEffect
