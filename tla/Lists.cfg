\* Requests outside the walk never end, so deadlock is checked.
CONSTANTS
  MaxRows = 4
  Limits = {0, 1, 2}
  Offsets = {0, 1}
  PageSize = 2
  MaxChanges = 2
  MaxUnsaved = 1
SPECIFICATION Spec
INVARIANTS TypeOK AnswerIsAWindow MissesAreExplained RepeatsAreExplained
