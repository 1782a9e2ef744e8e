\* The bound MaxRequests makes the model stop, hence CHECK_DEADLOCK FALSE.
CONSTANTS
  op = op
  seller = seller
  buyer = buyer
  NoOrg = NoOrg
  Orgs <- MCOrgs
  ServerOperator = op
  IsDOME = TRUE
  IsISBE = FALSE
  LaunchOnlyByAdmin = FALSE
  Workers = {w1, w2}
  Uuids = {u1}
  ClientCallers <- MCCallers
  NewObjects <- MCDomeObjects
  Patches <- MCPatches
  NoRow = NoRow
  NoContent = NoContent
  NoPatch = NoPatch
  MaxRequests = 3
SYMMETRY MCSymmetry
SPECIFICATION Spec
INVARIANTS SellerAlwaysKnown ChangesWereAllowed DeletionsHappened
CHECK_DEADLOCK FALSE
