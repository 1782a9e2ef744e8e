\* The bound MaxLog makes the model stop, hence CHECK_DEADLOCK FALSE.
CONSTANTS
  Ids = {id1, id2}
  Contents = {v1, v2}
  Columns = {p1, p2}
  Times = {0}
  Callers = {org}
  NoRow = NoRow
  NoContent = NoContent
  Conns = {c1, c2}
  NoConn = NoConn
  NoCall = NoCall
  MaxLog = 3
SPECIFICATION FairSpec
INVARIANTS TypeOK LogExplainsTable LogUnbroken LogActionsFit
PROPERTIES ColumnsAreFinal ImplementsAbs LockIsReleased
CHECK_DEADLOCK FALSE
