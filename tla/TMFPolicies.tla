---------------------------- MODULE TMFPolicies -----------------------------
(***************************************************************************)
(* Who may do what to which object: the hardcoded policies of the service, *)
(* the parties they read from an object, and the validation an object has  *)
(* to pass each time it is taken out of the database.                      *)
(*                                                                         *)
(* An organization is a value of Orgs whatever the spelling of its         *)
(* identifier (SameOrganizations ignores the prefix did:elsi:), and NoOrg  *)
(* is the empty string.  Of an object the model keeps its type, the        *)
(* parties found in relatedParty, whether lifecycleStatus is Launched, and *)
(* the organization an Organization describes or an Individual belongs to. *)
(* Each member of Types stands for the resources the code treats alike.    *)
(***************************************************************************)

CONSTANTS
  Orgs,            \* organizations
  NoOrg,           \* an empty identifier
  ServerOperator,  \* the organization that operates this server
  IsDOME           \* the server runs in one of the DOME environments

ASSUME ServerOperatorAssumption == ServerOperator \in Orgs /\ NoOrg \notin Orgs
ASSUME IsDOMEAssumption == IsDOME \in BOOLEAN

\* productOffering: the public types listed in DoNotRequireBuyerInfo;
\* serviceCatalog: the public types that are not; productOrder: the private ones.
Types == {"productOffering", "serviceCatalog", "productOrder",
          "category", "organization", "individual"}
SpecialTypes == {"category", "organization", "individual"}
PublicTypes == {"productOffering", "serviceCatalog", "category", "organization"}

OrgOrNone == Orgs \cup {NoOrg}
Parties == [seller: OrgOrNone, sellerOp: OrgOrNone, buyer: OrgOrNone, buyerOp: OrgOrNone]
NoParties == [seller |-> NoOrg, sellerOp |-> NoOrg, buyer |-> NoOrg, buyerOp |-> NoOrg]

Objects == [type: Types, parties: Parties, launched: BOOLEAN, org: OrgOrNone]

Powers == {"CREATE", "UPDATE", "DELETE"}
Callers == [org: OrgOrNone, authenticated: BOOLEAN, lear: BOOLEAN, powers: SUBSET Powers]
PolicyActions == {"CREATE", "READ", "LIST", "UPDATE", "DELETE"}

-----------------------------------------------------------------------------
(* What an object says of its parties.                                     *)

IsPotentiallyPublic(obj) == obj.type \in PublicTypes
IsSpecialObject(obj) == obj.type \in SpecialTypes
RequiresSellerInfo(type) == type \notin SpecialTypes
RequiresBuyerInfo(type) == type \notin SpecialTypes \cup {"productOffering"}

\* GetSellerInfo and GetBuyerInfo; the special types have no seller whatever
\* their relatedParty says.
Seller(obj) == IF RequiresSellerInfo(obj.type) THEN obj.parties.seller ELSE NoOrg
SellerOp(obj) == IF RequiresSellerInfo(obj.type) THEN obj.parties.sellerOp ELSE NoOrg
Buyer(obj) == obj.parties.buyer
BuyerOp(obj) == obj.parties.buyerOp

\* SetSellerInfo: the entries of the seller and of its operator are
\* overwritten or added, the others stay.
WithSeller(parties, org) ==
  [parties EXCEPT !.seller = org, !.sellerOp = ServerOperator]

\* The seller is filled in when it or its operator is missing.
SellerFilledIn(parties, org) ==
  IF parties.seller = NoOrg \/ parties.sellerOp = NoOrg
  THEN WithSeller(parties, org)
  ELSE parties

\* Validate: what ToTMFObjectMap demands of a stored object.
Valid(obj) ==
  /\ RequiresSellerInfo(obj.type) => Seller(obj) # NoOrg /\ SellerOp(obj) # NoOrg
  /\ RequiresBuyerInfo(obj.type) => Buyer(obj) # NoOrg /\ BuyerOp(obj) # NoOrg

-----------------------------------------------------------------------------
(* The policies, by action.                                                *)

\* validateAttributeIntegrity: pairs are complete, and no buyer without seller.
AttributeIntegrity(obj) ==
  /\ Seller(obj) = NoOrg <=> SellerOp(obj) = NoOrg
  /\ Buyer(obj) = NoOrg <=> BuyerOp(obj) = NoOrg
  /\ Buyer(obj) # NoOrg => Seller(obj) # NoOrg

IsServerOperator(caller) == caller.org = ServerOperator

\* checkServerOperatorAccess, for a caller that is the server operator:
\* otherwise it decides nothing.
ServerOperatorAccess(caller, action) ==
  \/ caller.lear
  \/ action \in {"READ", "LIST"}
  \/ action = "CREATE" /\ ~IsDOME
  \/ action \in caller.powers

IsMandator(caller, obj) == obj.org = caller.org

\* The caller is of the seller's (buyer's) side and that side's operator is us.
SellerSide(caller, obj) == caller.org \in {Seller(obj), SellerOp(obj)}
BuyerSide(caller, obj) == caller.org \in {Buyer(obj), BuyerOp(obj)}
AtSellerHome(caller, obj) == SellerSide(caller, obj) /\ SellerOp(obj) = ServerOperator
AtBuyerHome(caller, obj) == BuyerSide(caller, obj) /\ BuyerOp(obj) = ServerOperator

\* The common part of evalCreatePolicy, evalUpdatePolicy and evalDeletePolicy:
\* byBuyerSide says when the side of the buyer suffices for a private object.
EvalWritePolicy(caller, action, obj, byBuyerSide) ==
  /\ caller.authenticated
  /\ IF IsServerOperator(caller)
     THEN ServerOperatorAccess(caller, action)
     ELSE /\ caller.lear \/ action \in caller.powers
          /\ IF IsSpecialObject(obj)
             THEN obj.type = "individual" /\ IsMandator(caller, obj)
             ELSE \/ AtSellerHome(caller, obj)
                  \/ ~(IsPotentiallyPublic(obj) /\ Buyer(obj) = NoOrg) /\ byBuyerSide

\* ensureSellerInfoOnCreate completes the object before its parties are read.
EvalCreatePolicy(caller, obj) ==
  LET o == IF IsSpecialObject(obj) \/ Seller(obj) # NoOrg THEN obj
           ELSE [obj EXCEPT !.parties = WithSeller(@, caller.org)]
  IN EvalWritePolicy(caller, "CREATE", o, AtBuyerHome(caller, o))

EvalUpdatePolicy(caller, obj) ==
  EvalWritePolicy(caller, "UPDATE", obj, AtBuyerHome(caller, obj))

\* The buyer itself may not delete a private object.
EvalDeletePolicy(caller, obj) ==
  EvalWritePolicy(caller, "DELETE", obj,
                  caller.org = BuyerOp(obj) /\ BuyerOp(obj) = ServerOperator)

EvalReadListPolicy(caller, action, obj) ==
  IF IsSpecialObject(obj)
  THEN \/ obj.type # "individual"
       \/ caller.authenticated /\ (IsServerOperator(caller) \/ IsMandator(caller, obj))
  ELSE \/ IsPotentiallyPublic(obj) /\ Buyer(obj) = NoOrg /\ obj.launched
       \/ /\ caller.authenticated
          /\ IF IsServerOperator(caller)
             THEN ServerOperatorAccess(caller, action)
             ELSE SellerSide(caller, obj) \/ BuyerSide(caller, obj)

\* hardcodedPolicies; every other action, REPLACE too, is rejected.
HardcodedPolicies(caller, action, obj) ==
  /\ AttributeIntegrity(obj)
  /\ \/ action = "CREATE" /\ EvalCreatePolicy(caller, obj)
     \/ action \in {"READ", "LIST"} /\ EvalReadListPolicy(caller, action, obj)
     \/ action = "UPDATE" /\ EvalUpdatePolicy(caller, obj)
     \/ action = "DELETE" /\ EvalDeletePolicy(caller, obj)
=============================================================================
