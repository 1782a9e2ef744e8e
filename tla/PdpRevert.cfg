\* Policies that may get back a content they had before.
CONSTANTS
  Goroutines = {g1, g2}
  Policies = {p1, p2}
  Broken = broken
  Lacking = lacking
  None = none
  Reverts = TRUE
  MaxEdits = 2
  MaxThreads = 2
SPECIFICATION Spec
INVARIANTS DecidesByPolicyRead
