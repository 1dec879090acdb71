CONSTANTS
  Users = {u1}
  Sessions = {s1}
  Publishers = {p1}
  Life = 2
  Second = 2
  FlakyReads = FALSE
  FlakyLink = TRUE
  MaxTime = 5
  MaxPublishes = 2
  MaxRestarts = 0
SPECIFICATION Spec
INVARIANT TypeOK
PROPERTY RefusedStaysRefused
