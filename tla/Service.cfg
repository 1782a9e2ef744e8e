\* The bound MaxRequests makes the model stop, hence CHECK_DEADLOCK FALSE.
CONSTANTS
  op = op
  seller = seller
  buyer = buyer
  NoOrg = NoOrg
  Orgs <- MCOrgs
  ServerOperator = op
  IsDOME = FALSE
  IsISBE = TRUE
  LaunchOnlyByAdmin = TRUE
  Workers = {w1, w2}
  Uuids = {u1}
  ClientCallers <- MCCallers
  NewObjects <- MCObjects
  Patches <- MCPatches
  NoRow = NoRow
  NoContent = NoContent
  NoPatch = NoPatch
  MaxRequests = 4
SYMMETRY MCSymmetry
SPECIFICATION Spec
INVARIANTS TypeOK SellerAlwaysKnown EventsAreBacked ChangesWereAllowed LaunchWasApproved
PROPERTIES NoResurrection
CHECK_DEADLOCK FALSE
