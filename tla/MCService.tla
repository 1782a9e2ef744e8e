----------------------------- MODULE MCService ------------------------------
(* A server operator, a seller and a buyer; offerings and orders.          *)
EXTENDS TMFService, TLC
CONSTANTS op, seller, buyer

MCOrgs == {op, seller, buyer}
Admin == [org |-> op, authenticated |-> TRUE, lear |-> TRUE, powers |-> {}]
Vendor == [org |-> seller, authenticated |-> TRUE, lear |-> FALSE, powers |-> Powers]
Customer == [org |-> buyer, authenticated |-> TRUE, lear |-> FALSE, powers |-> Powers]
MCCallers == {Admin, Vendor, Customer}

SoldBy(org) == [NoParties EXCEPT !.seller = org, !.sellerOp = op]
SoldToOperator == [SoldBy(seller) EXCEPT !.buyer = op, !.buyerOp = op]
Bought == [NoParties EXCEPT !.buyer = buyer, !.buyerOp = op]
Object(type, parties, org) ==
  [type |-> type, parties |-> parties, launched |-> FALSE, org |-> org]
MCObjects == {Object("productOffering", NoParties, NoOrg),
              Object("organization", NoParties, seller)}

\* Objects of the types the first profile leaves out.
MCDomeObjects == {Object("productOrder", SoldToOperator, NoOrg),
                  Object("serviceCatalog", NoParties, NoOrg),
                  Object("category", NoParties, NoOrg),
                  Object("individual", NoParties, seller)}

MCSymmetry == Permutations(Workers)

MCPatches == {[parties |-> SoldBy(seller), launched |-> TRUE],
              [parties |-> NoPatch, launched |-> FALSE],
              [parties |-> Bought, launched |-> NoPatch]}
=============================================================================
