\* The Refresher never stops, so deadlock is checked.
CONSTANTS
  Ids = {id1, id2}
  Contents = {v1, v2, bad}
  ValidContents = {v1, v2}
  NoRow = NoRow
  NoContent = NoContent
  Workers = {w1, w2}
  Refresher = refresher
  PageSize = 1
  RetrieveLocalFirst = FALSE
  DeletesInvalid = TRUE
  MaxRequests = 2
  MaxOthers = 1
  MaxFaults = 1
SPECIFICATION FairSpec
INVARIANTS TypeOK NothingInvented
PROPERTIES DroppedOnlyIfGone PurgedWereInvalid CacheConverges
