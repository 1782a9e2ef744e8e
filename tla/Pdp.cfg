\* Policies that never get back a content they had before.
CONSTANTS
  Goroutines = {g1, g2}
  Policies = {p1, p2}
  Broken = broken
  Lacking = lacking
  None = none
  Reverts = FALSE
  MaxEdits = 3
  MaxThreads = 3
SPECIFICATION Spec
INVARIANTS TypeOK StaleIsNoticed FileDecidesByPolicyRead
PROPERTIES CacheGoesForward
