-------------------------- MODULE TMFServiceProofs --------------------------
(***************************************************************************)
(* Proofs about the handlers, for any organizations, callers, objects,     *)
(* patches, profiles and number of workers: what is decided on one state   *)
(* of the database and written to a later one is still backed by what the  *)
(* operation log says.                                                     *)
(***************************************************************************)
EXTENDS TMFService, TLAPS

-----------------------------------------------------------------------------
(* The hardcoded policies, for all organizations, callers and objects.     *)
(* evalReadListPolicy, evalUpdatePolicy, evalDeletePolicy and              *)
(* checkServerOperatorAccess are four separate pieces of nested ifs, and   *)
(* these theorems relate their answers to each other.                      *)

\* A caller with both powers, or the legal representative, meets the test of
\* powers of either action.
HasPowers(caller) == caller.lear \/ {"UPDATE", "DELETE"} \subseteq caller.powers

\* The organizations an object names, and the one an Individual belongs to.
Insiders(obj) ==
  {Seller(obj), SellerOp(obj), Buyer(obj), BuyerOp(obj)} \cup
  (IF obj.type = "individual" THEN {obj.org} ELSE {})

\* A decision of UPDATE or DELETE unfolded.
LEMMA WriteCases ==
  ASSUME NEW caller \in Callers, NEW obj \in Objects, NEW action \in {"UPDATE", "DELETE"},
         HardcodedPolicies(caller, action, obj)
  PROVE  /\ AttributeIntegrity(obj)
         /\ caller.authenticated
         /\ \/ IsServerOperator(caller) /\ ServerOperatorAccess(caller, action)
            \/ /\ ~IsServerOperator(caller)
               /\ caller.lear \/ action \in caller.powers
               /\ \/ obj.type = "individual" /\ IsMandator(caller, obj)
                  \/ /\ ~IsSpecialObject(obj)
                     /\ \/ AtSellerHome(caller, obj)
                        \/ /\ ~(IsPotentiallyPublic(obj) /\ Buyer(obj) = NoOrg)
                           /\ AtBuyerHome(caller, obj)
<1>1. CASE action = "UPDATE"
  BY <1>1 DEF HardcodedPolicies, EvalUpdatePolicy, EvalWritePolicy
<1>2. CASE action = "DELETE"
  BY <1>2 DEF HardcodedPolicies, EvalDeletePolicy, EvalWritePolicy, AtBuyerHome, BuyerSide
<1> QED BY <1>1, <1>2

\* Who may change or remove an object may also read it and list it, so no
\* caller edits an object blindly.
THEOREM WritersCanRead ==
  ASSUME NEW caller \in Callers, NEW obj \in Objects,
         NEW write \in {"UPDATE", "DELETE"}, NEW read \in {"READ", "LIST"},
         HardcodedPolicies(caller, write, obj)
  PROVE  HardcodedPolicies(caller, read, obj)
<1>1. AttributeIntegrity(obj) /\ caller.authenticated
  BY WriteCases
<1>2. EvalReadListPolicy(caller, read, obj)
  <2>1. CASE IsServerOperator(caller)
    BY <1>1, <2>1 DEF EvalReadListPolicy, ServerOperatorAccess
  <2>2. CASE ~IsServerOperator(caller)
    BY WriteCases, <1>1, <2>2
       DEF EvalReadListPolicy, IsSpecialObject, SpecialTypes, AtSellerHome, AtBuyerHome
  <2> QED BY <2>1, <2>2
<1> QED BY <1>1, <1>2 DEF HardcodedPolicies

\* Who may remove an object may also change it, given the power to update: the
\* right to delete is nowhere wider than the right to update.
THEOREM DeletersCanUpdate ==
  ASSUME NEW caller \in Callers, NEW obj \in Objects, HasPowers(caller),
         HardcodedPolicies(caller, "DELETE", obj)
  PROVE  HardcodedPolicies(caller, "UPDATE", obj)
<1>1. AttributeIntegrity(obj) /\ caller.authenticated
  BY WriteCases
<1>2. caller.lear \/ "UPDATE" \in caller.powers
  BY DEF HasPowers
<1>3. CASE IsServerOperator(caller)
  BY <1>1, <1>2, <1>3
     DEF HardcodedPolicies, EvalUpdatePolicy, EvalWritePolicy, ServerOperatorAccess
<1>4. CASE ~IsServerOperator(caller)
  BY WriteCases, <1>1, <1>2, <1>4
     DEF HardcodedPolicies, EvalUpdatePolicy, EvalWritePolicy, IsSpecialObject, SpecialTypes
<1> QED BY <1>3, <1>4

\* A caller the object does not name, and that is not the server operator,
\* neither changes nor removes it.
THEOREM StrangersCannotWrite ==
  ASSUME NEW caller \in Callers, NEW obj \in Objects, NEW action \in {"UPDATE", "DELETE"},
         ~IsServerOperator(caller), caller.org \notin Insiders(obj)
  PROVE  ~HardcodedPolicies(caller, action, obj)
<1>1. ~IsMandator(caller, obj) \/ obj.type # "individual"
  BY DEF Insiders, IsMandator
<1>2. ~AtSellerHome(caller, obj) /\ ~AtBuyerHome(caller, obj)
  BY DEF Insiders, AtSellerHome, AtBuyerHome, SellerSide, BuyerSide
<1> QED BY <1>1, <1>2, WriteCases

\* Between servers each object has a home: a caller that is not this server's
\* operator writes here only objects whose seller or buyer is operated here.
THEOREM WritesAtHome ==
  ASSUME NEW caller \in Callers, NEW obj \in Objects, NEW action \in {"UPDATE", "DELETE"},
         ~IsServerOperator(caller), ~IsSpecialObject(obj),
         HardcodedPolicies(caller, action, obj)
  PROVE  ServerOperator \in {SellerOp(obj), BuyerOp(obj)}
BY WriteCases DEF IsSpecialObject, SpecialTypes, AtSellerHome, AtBuyerHome

\* Without authentication nothing is readable but categories, organizations
\* and launched public objects that no buyer is part of: a private object, an
\* individual or an offering that is not launched stays hidden.
THEOREM AnonymousReads ==
  ASSUME NEW caller \in Callers, NEW obj \in Objects, NEW action \in PolicyActions,
         ~caller.authenticated, HardcodedPolicies(caller, action, obj)
  PROVE  /\ action \in {"READ", "LIST"}
         /\ \/ obj.type \in {"category", "organization"}
            \/ IsPotentiallyPublic(obj) /\ Buyer(obj) = NoOrg /\ obj.launched
<1>1. action \in {"READ", "LIST"}
  BY DEF HardcodedPolicies, EvalCreatePolicy, EvalUpdatePolicy, EvalDeletePolicy,
         EvalWritePolicy
<1>2. EvalReadListPolicy(caller, action, obj)
  BY <1>1 DEF HardcodedPolicies
<1> QED BY <1>1, <1>2 DEF EvalReadListPolicy, IsSpecialObject, SpecialTypes

-----------------------------------------------------------------------------
(* Keys, objects and the parts of the handlers.                            *)

\* The two kinds of keys are different, also by the type they carry.
LEMMA KeyFacts ==
  ASSUME NEW id \in Ids
  PROVE  /\ LocalId(id) \in Ids
         /\ LocalId(LocalId(id)) = LocalId(id)
         /\ KeyType(LocalId(id)) = KeyType(id)
         /\ KeyType(id) \in Types
         /\ id \in UuidKeys => id \notin OrgKeys
<1>1. id \in UuidKeys => id \notin OrgKeys
  <2>1. "did" \notin Types /\ "plain" \notin Types
    BY DEF Types
  <2> QED
    BY <2>1 DEF UuidKeys, OrgKeys, Spellings
<1>2. CASE id \in OrgKeys
  <2>1. id[1] \in Orgs /\ <<id[1], "did">> \in OrgKeys
    BY <1>2 DEF OrgKeys, Spellings
  <2>2. "organization" \in Types
    BY DEF Types
  <2> QED
    BY <1>1, <1>2, <2>1, <2>2 DEF LocalId, KeyType, Ids
<1>3. CASE id \notin OrgKeys
  <2>1. id \in UuidKeys
    BY <1>3 DEF Ids
  <2>2. id[2] \in Types
    BY <2>1 DEF UuidKeys
  <2> QED
    BY <1>1, <1>3, <2>2 DEF LocalId, KeyType
<1> QED
  BY <1>2, <1>3

\* The party and the operators a request carries.
LEMMA CallerFacts ==
  ASSUME NEW caller \in ClientCallers
  PROVE  caller \in Callers /\ caller.org \in OrgOrNone
  BY InputAssumption DEF Callers

\* What the fields of an object and of a caller range over.
LEMMA ObjectFacts ==
  ASSUME NEW obj \in Objects
  PROVE  /\ obj.type \in Types /\ obj.parties \in Parties
         /\ obj.launched \in BOOLEAN /\ obj.org \in OrgOrNone
  BY DEF Objects

\* Filling in the seller leaves parties.
LEMMA SellerFilledInFacts ==
  ASSUME NEW parties \in Parties, NEW org \in OrgOrNone
  PROVE  /\ WithSeller(parties, org) \in Parties
         /\ WithSeller(parties, org).seller = org
         /\ WithSeller(parties, org).sellerOp = ServerOperator
         /\ SellerFilledIn(parties, org) \in Parties
<1>1. ServerOperator \in OrgOrNone
  BY ServerOperatorAssumption DEF OrgOrNone
<1>2. /\ WithSeller(parties, org) \in Parties
      /\ WithSeller(parties, org).seller = org
      /\ WithSeller(parties, org).sellerOp = ServerOperator
  BY <1>1 DEF WithSeller, Parties
<1> QED
  BY <1>2 DEF SellerFilledIn

\* An object that needs a seller has one.
SellerKnown(obj) ==
  RequiresSellerInfo(obj.type) => Seller(obj) # NoOrg /\ SellerOp(obj) # NoOrg

\* A launch that only the server operator may make.
NeedsApproval(obj) == LaunchOnlyByAdmin /\ obj.type = "productOffering" /\ obj.launched

\* The patch asks for the launch.
Launches(p) == p.launched = TRUE

\* The columns of the record of an object are parties.
LEMMA RecordType ==
  ASSUME NEW obj \in Objects
  PROVE  Record(obj) \in Rows /\ Record(obj).content = obj
<1>1. NoOrg \in OrgOrNone
  BY DEF OrgOrNone
<1>2. /\ obj.parties.seller \in OrgOrNone /\ obj.parties.sellerOp \in OrgOrNone
      /\ obj.parties.buyer \in OrgOrNone /\ obj.parties.buyerOp \in OrgOrNone
  BY ObjectFacts DEF Parties
<1>3. /\ Seller(obj) \in OrgOrNone /\ SellerOp(obj) \in OrgOrNone
      /\ Buyer(obj) \in OrgOrNone /\ BuyerOp(obj) \in OrgOrNone
  BY <1>1, <1>2 DEF Seller, SellerOp, Buyer, BuyerOp
<1> QED
  BY <1>3 DEF Record, Rows, Times, Parties

-----------------------------------------------------------------------------
(* The log grows.                                                          *)

\* An appended entry leaves the earlier ones as they are.
LEMMA AppendKeeps ==
  ASSUME NEW S, NEW s \in Seq(S), NEW e \in S
  PROVE  /\ Append(s, e) \in Seq(S)
         /\ Len(Append(s, e)) = Len(s) + 1
         /\ Len(s) \in Nat
         /\ \A i \in 1..Len(s) : Append(s, e)[i] = s[i]
         /\ Append(s, e)[Len(s) + 1] = e
  OBVIOUS

\* The row of a key is set and the change is logged.
Change(action, id, row, who) ==
  /\ tab' = [tab EXCEPT ![id] = row]
  /\ log' = Append(log, Entry(action, id, tab[id], row, who))

\* Entries stay where they are.
LogGrows ==
  /\ Len(log) \in Nat /\ Len(log') \in Nat /\ Len(log) <= Len(log')
  /\ \A i \in 1..Len(log) : log'[i] = log[i]

\* An entry the handlers write is a log entry.
LEMMA EntryType ==
  ASSUME NEW action \in {"CREATE", "UPDATE", "DELETE"}, NEW id \in Ids,
         NEW r1 \in Rows \cup {NoRow}, NEW r2 \in Rows \cup {NoRow}, NEW who \in OrgOrNone
  PROVE  /\ Entry(action, id, r1, r2, who) \in Entries
         /\ Entry(action, id, r1, r2, who).id = id
         /\ Entry(action, id, r1, r2, who).action = action
         /\ Entry(action, id, r1, r2, who).caller = who
         /\ Entry(action, id, r1, r2, who).new = ContentOf(r2)
  BY DEF Entry, Entries, ContentOf, Rows

\* Changing a row with an entry leaves a typed table and log.
LEMMA ChangeFacts ==
  ASSUME TypeOK, NEW action \in {"CREATE", "UPDATE", "DELETE"}, NEW id \in Ids,
         NEW row \in Rows \cup {NoRow}, NEW who \in OrgOrNone, Change(action, id, row, who)
  PROVE  /\ tab' \in Tables /\ log' \in Seq(Entries)
         /\ tab'[id] = row /\ \A k \in Ids \ {id} : tab'[k] = tab[k]
         /\ LogGrows /\ Len(log') = Len(log) + 1
         /\ log'[Len(log')].id = id /\ log'[Len(log')].action = action
         /\ log'[Len(log')].caller = who /\ log'[Len(log')].new = ContentOf(row)
<1> DEFINE e == Entry(action, id, tab[id], row, who)
<1>1. tab \in Tables /\ log \in Seq(Entries)
  BY DEF TypeOK
<1>2. tab[id] \in Rows \cup {NoRow}
  BY <1>1 DEF Tables
<1>3. log' = Append(log, e)
  BY DEF Change
<1>4. /\ e \in Entries /\ e.id = id /\ e.action = action /\ e.caller = who
      /\ e.new = ContentOf(row)
  <2> HIDE DEF e
  <2>1. \A r \in Rows \cup {NoRow} :
          LET f == Entry(action, id, r, row, who) IN
          /\ f \in Entries /\ f.id = id /\ f.action = action
          /\ f.caller = who /\ f.new = ContentOf(row)
    BY EntryType
  <2> QED
    BY <1>2, <2>1, Zenon DEF e
<1> HIDE DEF e
<1>5. /\ log' \in Seq(Entries) /\ Len(log) \in Nat /\ Len(log') = Len(log) + 1
      /\ \A i \in 1..Len(log) : log'[i] = log[i]
      /\ log'[Len(log')] = e
  BY <1>1, <1>3, <1>4, AppendKeeps
<1>6. tab' = [tab EXCEPT ![id] = row]
  BY DEF Change
<1>7. /\ tab' \in Tables /\ tab'[id] = row /\ \A k \in Ids \ {id} : tab'[k] = tab[k]
  BY <1>1, <1>6 DEF Tables
<1> QED
  BY <1>4, <1>5, <1>7 DEF LogGrows

-----------------------------------------------------------------------------
(* What the log says, and the inductive invariant.                         *)

\* The key has had this content.
HasHad(id, obj) == \E n \in EntriesOf(log, id) : log[n].new = obj

\* Some content of the key allowed the caller this action.
WasAllowed(caller, action, id) ==
  \E n \in EntriesOf(log, id) :
    /\ log[n].new # NoContent
    /\ HardcodedPolicies(caller, action, log[n].new)

\* The server operator has launched the object.
WasLaunched(id) ==
  \E n \in EntriesOf(log, id) : log[n].caller = ServerOperator /\ log[n].new.launched

WasDeleted(id) == \E n \in EntriesOf(log, id) : log[n].action = "DELETE"

\* The event tells of a committed change; a DeleteEvent only where URNs are
\* taken as they come.
IsBacked(event) ==
  /\ event.kind # "DeleteEvent" =>
       \E n \in 1..Len(log) : Tells(event, log[n]) /\ log[n].new = event.resource
  /\ event.kind = "DeleteEvent" /\ ~IsISBE => WasDeleted(LocalId(event.id))

\* A row has the type of its key and its seller, and the log explains it; a key
\* that lost its row was deleted.
RowInv(id) ==
  IF tab[id] # NoRow
  THEN LET obj == tab[id].content IN
       /\ obj.type = KeyType(id) /\ SellerKnown(obj) /\ HasHad(id, obj)
       /\ NeedsApproval(obj) => WasLaunched(id)
  ELSE EntriesOf(log, id) # {} => WasDeleted(id)

\* What a worker carries from one step to the next was right when it was read,
\* and the log still says so.
JobInv(w) ==
  LET j == job[w] IN
  /\ j.stage = "update" =>
       /\ j.caller \in ClientCallers
       /\ WasAllowed(j.caller, "UPDATE", LocalId(j.id))
       /\ j.merged.type = KeyType(j.id) /\ SellerKnown(j.merged)
       /\ NeedsApproval(j.merged) =>
            j.caller.org = ServerOperator \/ WasLaunched(LocalId(j.id))
  /\ j.stage = "delete" =>
       /\ j.caller \in ClientCallers
       /\ WasAllowed(j.caller, "DELETE", LocalId(j.id))
  /\ j.stage = "publish" => IsBacked(j.event)

EventsInv == \A i \in 1..Len(events) : IsBacked(events[i])

HistoryInv == ChangesWereAllowed /\ EventsInv

IInv ==
  /\ TypeOK
  /\ \A id \in Ids : RowInv(id)
  /\ \A w \in Workers : JobInv(w)
  /\ HistoryInv

\* What the log has said it goes on saying.
LEMMA Persistence ==
  ASSUME LogGrows
  PROVE  /\ \A id : EntriesOf(log, id) \subseteq EntriesOf(log', id)
         /\ \A id : \A n \in EntriesOf(log, id) : log'[n] = log[n]
         /\ \A id, obj : HasHad(id, obj) => HasHad(id, obj)'
         /\ \A caller, action, id :
              WasAllowed(caller, action, id) => WasAllowed(caller, action, id)'
         /\ \A id : WasLaunched(id) => WasLaunched(id)'
         /\ \A id : WasDeleted(id) => WasDeleted(id)'
         /\ \A event : IsBacked(event) => IsBacked(event)'
<1>1. \A n \in 1..Len(log) : n \in 1..Len(log') /\ log'[n] = log[n]
  BY DEF LogGrows
<1>2. \A id : \A n \in EntriesOf(log, id) : n \in EntriesOf(log', id) /\ log'[n] = log[n]
  BY <1>1 DEF EntriesOf
<1>3. \A id, obj : HasHad(id, obj) => HasHad(id, obj)'
  BY <1>2 DEF HasHad
<1>4. \A caller, action, id :
        WasAllowed(caller, action, id) => WasAllowed(caller, action, id)'
  BY <1>2 DEF WasAllowed
<1>5. \A id : WasLaunched(id) => WasLaunched(id)'
  BY <1>2 DEF WasLaunched
<1>6. \A id : WasDeleted(id) => WasDeleted(id)'
  BY <1>2 DEF WasDeleted
<1>7. \A event : IsBacked(event) => IsBacked(event)'
  <2> SUFFICES ASSUME NEW event, IsBacked(event) PROVE IsBacked(event)'
    OBVIOUS
  <2>1. event.kind # "DeleteEvent" =>
          \E n \in 1..Len(log') : Tells(event, log'[n]) /\ log'[n].new = event.resource
    BY <1>1 DEF IsBacked
  <2> QED
    BY <1>6, <2>1 DEF IsBacked, Tells
<1> QED
  BY <1>2, <1>3, <1>4, <1>5, <1>6, <1>7

\* An entry of the log that was allowed stays so, and so does one added to it.
LEMMA AllowedStays ==
  ASSUME ChangesWereAllowed, LogGrows,
         Len(log') = Len(log) \/ (Len(log') = Len(log) + 1 /\ EntryWasAllowed(Len(log))')
  PROVE  ChangesWereAllowed'
<1>1. \A n \in 1..Len(log) : n \in 1..Len(log') /\ log'[n] = log[n]
  BY DEF LogGrows
<1>2. ASSUME NEW n \in 1..Len(log) PROVE EntryWasAllowed(n)'
  <2>1. EntryWasAllowed(n)
    BY DEF ChangesWereAllowed
  <2>2. \A m \in 1..(n - 1) : m \in 1..Len(log) /\ log'[m] = log[m]
    BY <1>1 DEF LogGrows
  <2>3. log'[n] = log[n]
    BY <1>1
  <2> QED
    BY <2>1, <2>2, <2>3 DEF EntryWasAllowed
<1>3. \A n \in 1..Len(log') : n \in 1..Len(log) \/ (n = Len(log') /\ Len(log') # Len(log))
  BY DEF LogGrows
<1>4. ASSUME NEW n \in 1..Len(log') PROVE EntryWasAllowed(n)'
  <2>1. CASE n \in 1..Len(log)
    BY <1>2, <2>1
  <2>2. CASE n = Len(log') /\ Len(log') # Len(log)
    BY <2>2
  <2> QED
    BY <1>3, <2>1, <2>2
<1> QED
  BY <1>4 DEF ChangesWereAllowed

-----------------------------------------------------------------------------
(* What the parts of the handlers yield.                                   *)

\* Replaced parties leave an object of the same type.
LEMMA WithPartiesFacts ==
  ASSUME NEW obj \in Objects, NEW parties \in Parties, NEW launched \in BOOLEAN,
         NEW o, o = [obj EXCEPT !.parties = parties, !.launched = launched]
  PROVE  /\ o \in Objects /\ o.type = obj.type
         /\ o.parties = parties /\ o.launched = launched
  BY DEF Objects

\* An object that passed the policy of creation is complete.
LEMMA CompletedFacts ==
  ASSUME NEW caller \in ClientCallers, NEW o \in Objects,
         NEW obj, obj = Completed(o, caller), HardcodedPolicies(caller, "CREATE", obj)
  PROVE  obj \in Objects /\ SellerKnown(obj)
<1>1. obj \in Objects /\ obj.type = o.type
  <2>1. o.parties \in Parties /\ caller.org \in OrgOrNone
    BY ObjectFacts, CallerFacts
  <2>2. /\ WithSeller(o.parties, caller.org) \in Parties
        /\ SellerFilledIn(o.parties, caller.org) \in Parties
    BY <2>1, SellerFilledInFacts
  <2>3. \A p \in Parties : [o EXCEPT !.parties = p] \in Objects
                            /\ [o EXCEPT !.parties = p].type = o.type
    BY DEF Objects
  <2> QED
    BY <2>2, <2>3 DEF Completed
<1>2. CASE o.type \in SpecialTypes
  BY <1>1, <1>2 DEF SellerKnown, RequiresSellerInfo
<1>3. CASE o.type \notin SpecialTypes
  <2>1. obj = [o EXCEPT !.parties = SellerFilledIn(o.parties, caller.org)]
    BY <1>3 DEF Completed, SpecialTypes
  <2>2. obj.parties = SellerFilledIn(o.parties, caller.org)
    BY <2>1 DEF Objects
  <2>3. o.parties \in Parties /\ caller.org \in OrgOrNone /\ ServerOperator # NoOrg
    BY ObjectFacts, CallerFacts, ServerOperatorAssumption
  <2>4. obj.parties.seller # NoOrg \/ obj.parties.sellerOp # NoOrg
    BY <2>2, <2>3, SellerFilledInFacts DEF SellerFilledIn
  <2>5. AttributeIntegrity(obj)
    BY DEF HardcodedPolicies
  <2>6. RequiresSellerInfo(obj.type)
    BY <1>1, <1>3 DEF RequiresSellerInfo
  <2>7. Seller(obj) # NoOrg \/ SellerOp(obj) # NoOrg
    BY <2>4, <2>6 DEF Seller, SellerOp
  <2> QED
    BY <1>1, <2>5, <2>7 DEF SellerKnown, AttributeIntegrity
<1> QED
  BY <1>1, <1>2, <1>3

\* A new object gets a key of its type.
LEMMA NewIdsFacts ==
  ASSUME NEW obj \in Objects, NEW id \in NewIds(obj)
  PROVE  /\ id \in Ids /\ KeyType(id) = obj.type
         /\ id \in UuidKeys => EntriesOf(log, id) = {}
<1>1. CASE obj.type = "organization"
  <2>1. id \in OrgKeys
    BY <1>1 DEF NewIds
  <2>2. id \in Ids
    BY <2>1 DEF Ids
  <2> QED
    BY <1>1, <2>1, <2>2, KeyFacts DEF KeyType
<1>2. CASE obj.type # "organization"
  <2>1. id \in UuidKeys /\ id[2] = obj.type /\ EntriesOf(log, id) = {}
    BY <1>2 DEF NewIds
  <2>2. id \in Ids
    BY <2>1 DEF Ids
  <2> QED
    BY <2>1, <2>2, KeyFacts DEF KeyType
<1> QED
  BY <1>1, <1>2

\* A caller that may update an object with a seller is an organization.
LEMMA UpdaterHasOrg ==
  ASSUME NEW caller \in Callers, NEW obj \in Objects, obj.type \notin SpecialTypes,
         SellerKnown(obj), HardcodedPolicies(caller, "UPDATE", obj)
  PROVE  caller.org # NoOrg
<1>1. Seller(obj) # NoOrg /\ SellerOp(obj) # NoOrg /\ ServerOperator # NoOrg
  BY ServerOperatorAssumption DEF SellerKnown, RequiresSellerInfo
<1>2. Buyer(obj) = NoOrg <=> BuyerOp(obj) = NoOrg
  BY DEF HardcodedPolicies, AttributeIntegrity
<1>3. \/ caller.org = ServerOperator
      \/ AtSellerHome(caller, obj) \/ AtBuyerHome(caller, obj)
  BY DEF HardcodedPolicies, EvalUpdatePolicy, EvalWritePolicy, IsServerOperator,
         IsSpecialObject
<1> QED
  BY <1>1, <1>2, <1>3 DEF AtSellerHome, AtBuyerHome, SellerSide, BuyerSide

\* What a permitted patch makes of an object that was read keeps its type and
\* its seller, and is launched only if it was or if the patch says so.
LEMMA MergedFacts ==
  ASSUME NEW caller \in ClientCallers, NEW obj \in Objects, NEW p \in Patches,
         SellerKnown(obj), HardcodedPolicies(caller, "UPDATE", obj),
         NEW o, o = Merged(obj, PatchCompleted(obj.type, p, caller))
  PROVE  /\ o \in Objects /\ o.type = obj.type /\ SellerKnown(o)
         /\ NeedsApproval(o) => NeedsApproval(obj) \/ Launches(p)
<1> DEFINE q == PatchCompleted(obj.type, p, caller)
           parties == IF q.parties = NoPatch THEN obj.parties ELSE q.parties
           launched == IF q.launched = NoPatch THEN obj.launched ELSE q.launched
<1>1. /\ obj.parties \in Parties /\ obj.launched \in BOOLEAN
      /\ caller \in Callers /\ caller.org \in OrgOrNone
  BY ObjectFacts, CallerFacts
<1>2. /\ p \in PatchSet
      /\ p.parties \in Parties \cup {NoPatch} /\ p.launched \in BOOLEAN \cup {NoPatch}
  BY InputAssumption DEF PatchSet
<1>3. q.launched = p.launched
  BY <1>2 DEF PatchCompleted, PatchSet
<1>4. o = [obj EXCEPT !.parties = parties, !.launched = launched]
  BY DEF Merged
<1>5. CASE obj.type \in SpecialTypes
  <2>1. q = p
    BY <1>5 DEF PatchCompleted, RequiresSellerInfo
  <2>2. parties \in Parties /\ launched \in BOOLEAN
    BY <1>1, <1>2, <2>1
  <2>3. o = [obj EXCEPT !.parties = parties, !.launched = launched]
    BY <1>4
  <2> HIDE DEF parties, launched
  <2>4. o \in Objects /\ o.type = obj.type /\ o.launched = launched
    BY <2>2, <2>3 DEF Objects
  <2>5. SellerKnown(o)
    BY <1>5, <2>4 DEF SellerKnown, RequiresSellerInfo
  <2>6. NeedsApproval(o) => NeedsApproval(obj) \/ Launches(p)
    BY <1>1, <1>2, <1>3, <2>4 DEF NeedsApproval, Launches, launched
  <2> QED
    BY <2>4, <2>5, <2>6
<1>6. CASE obj.type \notin SpecialTypes
  <2> DEFINE given == IF p.parties = NoPatch THEN NoParties ELSE p.parties
             filled == SellerFilledIn(given, caller.org)
  <2>1. caller.org # NoOrg /\ ServerOperator # NoOrg
    BY <1>1, <1>6, UpdaterHasOrg, ServerOperatorAssumption
  <2>2. given \in Parties
    BY <1>2 DEF NoParties, Parties, OrgOrNone
  <2>3. filled \in Parties /\ filled.seller # NoOrg /\ filled.sellerOp # NoOrg
    BY <1>1, <2>1, <2>2, SellerFilledInFacts DEF SellerFilledIn
  <2>4. q.parties = filled
    BY <1>2, <1>6 DEF PatchCompleted, RequiresSellerInfo, PatchSet
  <2> HIDE DEF given, filled, q
  <2>5. obj.parties.seller # NoOrg /\ obj.parties.sellerOp # NoOrg
    BY <1>6 DEF SellerKnown, RequiresSellerInfo, Seller, SellerOp
  <2>6. /\ parties \in Parties /\ launched \in BOOLEAN
        /\ parties.seller # NoOrg /\ parties.sellerOp # NoOrg
    BY <1>1, <1>2, <1>3, <2>3, <2>4, <2>5
  <2>7. o = [obj EXCEPT !.parties = parties, !.launched = launched]
    BY <1>4
  <2> HIDE DEF parties, launched
  <2>8. /\ o \in Objects /\ o.type = obj.type
        /\ o.parties = parties /\ o.launched = launched
    BY <2>6, <2>7 DEF Objects
  <2>9. SellerKnown(o)
    BY <2>6, <2>8 DEF SellerKnown, Seller, SellerOp
  <2>10. NeedsApproval(o) => NeedsApproval(obj) \/ Launches(p)
    BY <1>1, <1>2, <1>3, <2>8 DEF NeedsApproval, Launches, launched
  <2> QED
    BY <2>8, <2>9, <2>10
<1> QED
  BY <1>5, <1>6

-----------------------------------------------------------------------------
(* What each action does.                                                  *)

\* The job of one worker is replaced.
JobSet(w, j) == job' = [job EXCEPT ![w] = j]

\* Create adds a row and its entry, and is left with an event that tells of it.
LEMMA CreateEffect ==
  ASSUME TypeOK, NEW w \in Workers, Create(w)
  PROVE  \E caller \in ClientCallers, obj \in Objects : \E id \in NewIds(obj) :
           /\ SellerKnown(obj) /\ (NeedsApproval(obj) => caller.org = ServerOperator)
           /\ HardcodedPolicies(caller, "CREATE", obj)
           /\ tab[id] = NoRow /\ Change("CREATE", id, Record(obj), caller.org)
           /\ JobSet(w, Publish("CreateEvent", id, obj))
           /\ events' = events /\ served' \in 0..MaxRequests
<1>1. PICK caller \in ClientCallers, o \in NewObjects :
        LET obj == Completed(o, caller) IN
        /\ LaunchAllowed(caller, obj.type, obj.launched)
        /\ HardcodedPolicies(caller, "CREATE", obj)
        /\ \E id \in NewIds(obj) :
             LET answer == CreateObject(DB, id, Record(obj), caller.org) IN
             /\ answer.err = "ok" /\ Becomes(answer)
             /\ Serve(w, Publish("CreateEvent", id, obj))
        /\ UNCHANGED events
  BY DEF Create
<1> DEFINE obj == Completed(o, caller)
<1>2. PICK id \in NewIds(obj) :
        LET answer == CreateObject(DB, id, Record(obj), caller.org) IN
        /\ answer.err = "ok" /\ Becomes(answer)
        /\ Serve(w, Publish("CreateEvent", id, obj))
  BY <1>1
<1>3. o \in Objects
  BY InputAssumption
<1>4. obj \in Objects /\ SellerKnown(obj)
  BY <1>1, <1>3, CompletedFacts
<1>5. NeedsApproval(obj) => caller.org = ServerOperator
  BY <1>1 DEF LaunchAllowed, NeedsApproval, IsServerOperator
<1> HIDE DEF obj
<1>6. tab[id] = NoRow /\ Change("CREATE", id, Record(obj), caller.org)
  BY <1>2 DEF CreateObject, Becomes, Apply, DB, Change
<1>7. /\ JobSet(w, Publish("CreateEvent", id, obj)) /\ served' = served + 1
      /\ served < MaxRequests
  BY <1>2 DEF Serve, JobSet
<1>8. served' \in 0..MaxRequests
  BY <1>7, InputAssumption DEF TypeOK
<1>9. HardcodedPolicies(caller, "CREATE", obj) /\ events' = events
  BY <1>1 DEF obj
<1> QED
  BY <1>4, <1>5, <1>6, <1>7, <1>8, <1>9

\* UpdateRead leaves the database alone and takes a merged object with it that
\* was allowed on the row as it is now.
LEMMA UpdateReadEffect ==
  ASSUME IInv, NEW w \in Workers, UpdateRead(w)
  PROVE  \E caller \in ClientCallers, id \in Ids, merged \in Objects :
           /\ WasAllowed(caller, "UPDATE", LocalId(id))
           /\ merged.type = KeyType(id) /\ SellerKnown(merged)
           /\ NeedsApproval(merged) =>
                caller.org = ServerOperator \/ WasLaunched(LocalId(id))
           /\ JobSet(w, [stage |-> "update", caller |-> caller, id |-> id,
                         merged |-> merged])
           /\ UNCHANGED <<tab, log, events>> /\ served' \in 0..MaxRequests
<1>1. PICK caller \in ClientCallers, id \in Ids, p \in Patches :
        /\ LaunchAllowed(caller, KeyType(id), p.launched = TRUE)
        /\ Found(id)
        /\ HardcodedPolicies(caller, "UPDATE", Stored(id))
        /\ Serve(w, [stage |-> "update", caller |-> caller, id |-> id,
                     merged |-> Merged(Stored(id), PatchCompleted(KeyType(id), p, caller))])
        /\ UNCHANGED <<tab, log, events>>
  BY DEF UpdateRead
<1>2. LocalId(id) \in Ids /\ KeyType(LocalId(id)) = KeyType(id)
  BY KeyFacts
<1>3. tab[LocalId(id)] # NoRow /\ tab[LocalId(id)] \in Rows
  BY <1>1, <1>2 DEF Found, IInv, TypeOK, Tables
<1>4. Stored(id) \in Objects
  BY <1>3 DEF Stored, Rows
<1>5. /\ Stored(id).type = KeyType(id) /\ SellerKnown(Stored(id))
      /\ HasHad(LocalId(id), Stored(id))
      /\ NeedsApproval(Stored(id)) => WasLaunched(LocalId(id))
  BY <1>2, <1>3 DEF IInv, RowInv, Stored
<1>6. HardcodedPolicies(caller, "UPDATE", Stored(id))
  BY <1>1
<1>7. PICK merged : merged = Merged(Stored(id), PatchCompleted(Stored(id).type, p, caller))
  OBVIOUS
<1>8. /\ merged \in Objects /\ merged.type = KeyType(id) /\ SellerKnown(merged)
      /\ NeedsApproval(merged) => NeedsApproval(Stored(id)) \/ Launches(p)
  <2>1. /\ merged \in Objects /\ merged.type = Stored(id).type /\ SellerKnown(merged)
        /\ NeedsApproval(merged) => NeedsApproval(Stored(id)) \/ Launches(p)
    BY <1>4, <1>5, <1>7, <1>6, MergedFacts
  <2> QED
    BY <1>5, <2>1
<1>9. WasAllowed(caller, "UPDATE", LocalId(id))
  BY <1>4, <1>5, <1>6, ServiceSentinels DEF WasAllowed, HasHad
<1>10. NeedsApproval(merged) => caller.org = ServerOperator \/ WasLaunched(LocalId(id))
  <2>1. NeedsApproval(merged) /\ Launches(p) => caller.org = ServerOperator
    BY <1>1, <1>8 DEF NeedsApproval, Launches, LaunchAllowed, IsServerOperator
  <2> QED
    BY <1>5, <1>8, <2>1
<1>11. /\ JobSet(w, [stage |-> "update", caller |-> caller, id |-> id, merged |-> merged])
       /\ served' = served + 1 /\ served < MaxRequests
  BY <1>1, <1>5, <1>7 DEF Serve, JobSet
<1>12. served' \in 0..MaxRequests
  BY <1>11, InputAssumption DEF IInv, TypeOK
<1> QED
  BY <1>1, <1>8, <1>9, <1>10, <1>11, <1>12

\* The fields of a pending job.
LEMMA JobFacts ==
  ASSUME TypeOK, NEW w \in Workers
  PROVE  /\ job[w].stage = "update" =>
              job[w].caller \in Callers /\ job[w].id \in Ids /\ job[w].merged \in Objects
         /\ job[w].stage = "delete" => job[w].caller \in Callers /\ job[w].id \in Ids
         /\ job[w].stage = "publish" => job[w].event \in EventSet
<1>1. job[w] \in Jobs
  BY DEF TypeOK
<1> QED
  BY <1>1 DEF Jobs, Idle

\* UpdateWrite ends with an error, or replaces the content of a row that is
\* there by the object that was read and merged.
LEMMA UpdateWriteEffect ==
  ASSUME IInv, NEW w \in Workers, UpdateWrite(w)
  PROVE  /\ UNCHANGED <<events, served>>
         /\ \/ UNCHANGED <<tab, log>> /\ JobSet(w, Idle)
            \/ \E caller \in ClientCallers, id \in Ids, merged \in Objects, row \in Rows :
                 /\ WasAllowed(caller, "UPDATE", LocalId(id))
                 /\ merged.type = KeyType(id) /\ SellerKnown(merged)
                 /\ NeedsApproval(merged) =>
                      caller.org = ServerOperator \/ WasLaunched(LocalId(id))
                 /\ tab[LocalId(id)] # NoRow /\ row.content = merged
                 /\ Change("UPDATE", LocalId(id), row, caller.org)
                 /\ JobSet(w, Publish("AttributeValueChangeEvent", id, merged))
<1>1. PICK caller, id, merged :
        caller = job[w].caller /\ id = job[w].id /\ merged = job[w].merged
  OBVIOUS
<1>2. job[w].stage = "update"
  BY DEF UpdateWrite
<1>3. /\ id \in Ids /\ merged \in Objects /\ caller \in ClientCallers
      /\ WasAllowed(caller, "UPDATE", LocalId(id))
      /\ merged.type = KeyType(id) /\ SellerKnown(merged)
      /\ NeedsApproval(merged) => caller.org = ServerOperator \/ WasLaunched(LocalId(id))
  BY <1>1, <1>2, JobFacts DEF IInv, JobInv
<1>4. LocalId(id) \in Ids
  BY <1>3, KeyFacts
<1> DEFINE old == tab[LocalId(id)]
           row == UpdatedRow(old, Record(merged))
<1>5. Record(merged) \in Rows /\ Record(merged).content = merged
  BY <1>3, RecordType
<1>6. PICK answer : answer = UpdateObject(DB, LocalId(id), Record(merged), caller.org)
  OBVIOUS
<1>7. /\ Becomes(answer) /\ UNCHANGED <<events, served>>
      /\ JobSet(w, IF answer.err = "ok"
                   THEN Publish("AttributeValueChangeEvent", id, merged) ELSE Idle)
  BY <1>1, <1>6 DEF UpdateWrite, JobSet
<1>8. CASE old = NoRow
  <2>1. answer = [err |-> "notfound", db |-> DB]
    BY <1>8, <1>6 DEF UpdateObject, DB
  <2>2. UNCHANGED <<tab, log>> /\ JobSet(w, Idle)
    BY <1>7, <2>1 DEF Becomes, DB
  <2> QED
    BY <1>7, <2>2
<1>9. CASE old # NoRow
  <2>1. old \in Rows
    BY <1>4, <1>9 DEF IInv, TypeOK, Tables
  <2>2. row \in Rows /\ row.content = merged
    BY <1>5, <2>1 DEF UpdatedRow, Rows
  <2>3. answer = [err |-> "ok", db |-> Apply(DB, "UPDATE", LocalId(id), row, caller.org)]
    BY <1>9, <1>6 DEF UpdateObject, DB
  <2> HIDE DEF row
  <2>4. /\ Change("UPDATE", LocalId(id), row, caller.org)
        /\ JobSet(w, Publish("AttributeValueChangeEvent", id, merged))
    BY <1>7, <2>3 DEF Becomes, Apply, DB, Change
  <2> QED
    BY <1>3, <1>9, <1>7, <2>2, <2>4
<1> QED
  BY <1>8, <1>9

\* DeleteRead leaves the database alone and was allowed on the row as it is now.
LEMMA DeleteReadEffect ==
  ASSUME IInv, NEW w \in Workers, DeleteRead(w)
  PROVE  \E caller \in ClientCallers, id \in Ids :
           /\ WasAllowed(caller, "DELETE", LocalId(id))
           /\ JobSet(w, [stage |-> "delete", caller |-> caller, id |-> id])
           /\ UNCHANGED <<tab, log, events>> /\ served' \in 0..MaxRequests
<1>1. PICK caller \in ClientCallers, id \in Ids :
        /\ Found(id)
        /\ HardcodedPolicies(caller, "DELETE", Stored(id))
        /\ Serve(w, [stage |-> "delete", caller |-> caller, id |-> id])
        /\ UNCHANGED <<tab, log, events>>
  BY DEF DeleteRead
<1>2. LocalId(id) \in Ids
  BY KeyFacts
<1>3. tab[LocalId(id)] # NoRow /\ tab[LocalId(id)] \in Rows
  BY <1>1, <1>2 DEF Found, IInv, TypeOK, Tables
<1>4. Stored(id) \in Objects
  BY <1>3 DEF Stored, Rows
<1>5. HasHad(LocalId(id), Stored(id))
  BY <1>2, <1>3 DEF IInv, RowInv, Stored
<1>6. HardcodedPolicies(caller, "DELETE", Stored(id))
  BY <1>1
<1>7. WasAllowed(caller, "DELETE", LocalId(id))
  BY <1>4, <1>5, <1>6, ServiceSentinels DEF WasAllowed, HasHad
<1>8. /\ JobSet(w, [stage |-> "delete", caller |-> caller, id |-> id])
      /\ served' = served + 1 /\ served < MaxRequests
  BY <1>1 DEF Serve, JobSet
<1>9. served' \in 0..MaxRequests
  BY <1>8, InputAssumption DEF IInv, TypeOK
<1> QED
  BY <1>1, <1>7, <1>8, <1>9

\* DeleteWrite removes a row, or nothing when none is there.
LEMMA DeleteWriteEffect ==
  ASSUME IInv, NEW w \in Workers, DeleteWrite(w)
  PROVE  /\ UNCHANGED <<events, served>>
         /\ \E caller \in ClientCallers, id \in Ids :
              /\ WasAllowed(caller, "DELETE", LocalId(id))
              /\ JobSet(w, Publish("DeleteEvent", id, NoContent))
              /\ \/ tab[id] = NoRow /\ UNCHANGED <<tab, log>>
                 \/ tab[id] # NoRow /\ Change("DELETE", id, NoRow, caller.org)
<1>1. PICK caller, id : caller = job[w].caller /\ id = job[w].id
  OBVIOUS
<1>2. job[w].stage = "delete"
  BY DEF DeleteWrite
<1>3. id \in Ids /\ caller \in ClientCallers /\ WasAllowed(caller, "DELETE", LocalId(id))
  BY <1>1, <1>2, JobFacts DEF IInv, JobInv
<1>4. JobSet(w, Publish("DeleteEvent", id, NoContent)) /\ UNCHANGED <<events, served>>
  BY <1>1 DEF DeleteWrite, JobSet
<1>5. \/ tab[id] = NoRow /\ UNCHANGED <<tab, log>>
      \/ tab[id] # NoRow /\ Change("DELETE", id, NoRow, caller.org)
  BY <1>1 DEF DeleteWrite, DeleteObject, Becomes, Apply, DB, Change
<1> QED
  BY <1>3, <1>4, <1>5

-----------------------------------------------------------------------------
(* The invariant is inductive.                                             *)

\* When the log only grows, the jobs of the other workers stay backed.
LEMMA JobsKept ==
  ASSUME IInv, LogGrows, NEW w \in Workers, NEW j \in Jobs, JobSet(w, j), JobInv(w)'
  PROVE  job' \in [Workers -> Jobs] /\ \A v \in Workers : JobInv(v)'
<1>1. job \in [Workers -> Jobs]
  BY DEF IInv, TypeOK
<1>2. job' \in [Workers -> Jobs] /\ \A v \in Workers \ {w} : job'[v] = job[v]
  BY <1>1 DEF JobSet
<1>3. ASSUME NEW v \in Workers \ {w} PROVE JobInv(v)'
  <2>1. JobInv(v) /\ job'[v] = job[v]
    BY <1>2 DEF IInv
  <2> QED
    BY <2>1, Persistence DEF JobInv
<1> QED
  BY <1>2, <1>3

\* And so do the events.
LEMMA EventsKept ==
  ASSUME EventsInv, LogGrows, events' = events
  PROVE  EventsInv'
<1> SUFFICES ASSUME NEW i \in 1..Len(events) PROVE IsBacked(events[i])'
  BY DEF EventsInv
<1>1. PICK event : event = events[i]
  OBVIOUS
<1>2. IsBacked(event)'
  BY <1>1, Persistence DEF EventsInv
<1>3. event = events'[i]
  BY <1>1
<1> QED
  BY <1>2, <1>3 DEF IsBacked

\* Nothing is written and no event is published.
LEMMA QuietKeeps ==
  ASSUME IInv, UNCHANGED <<tab, log, events>>, served' \in 0..MaxRequests,
         NEW w \in Workers, NEW j \in Jobs, JobSet(w, j), JobInv(w)'
  PROVE  IInv'
<1>1. log \in Seq(Entries)
  BY DEF IInv, TypeOK
<1>2. LogGrows
  <2>1. Len(log) \in Nat
    BY <1>1
  <2> QED
    BY <2>1 DEF LogGrows
<1>3. job' \in [Workers -> Jobs] /\ \A v \in Workers : JobInv(v)'
  BY <1>2, JobsKept
<1>4. TypeOK'
  BY <1>3 DEF IInv, TypeOK
<1>5. \A id \in Ids : RowInv(id)'
  BY DEF IInv, RowInv, HasHad, WasLaunched, WasDeleted
<1>6. ChangesWereAllowed'
  BY <1>2, AllowedStays DEF IInv, HistoryInv
<1>7. EventsInv'
  BY <1>2, EventsKept DEF IInv, HistoryInv
<1> QED
  BY <1>3, <1>4, <1>5, <1>6, <1>7 DEF IInv, HistoryInv

\* A row is written together with its entry, and what the writer takes with it
\* is backed.
LEMMA ChangeKeeps ==
  ASSUME IInv, NEW action \in {"CREATE", "UPDATE", "DELETE"}, NEW id \in Ids,
         NEW row \in Rows \cup {NoRow}, NEW who \in OrgOrNone,
         Change(action, id, row, who), events' = events, served' \in 0..MaxRequests,
         RowInv(id)', EntryWasAllowed(Len(log))',
         NEW w \in Workers, NEW j \in Jobs, JobSet(w, j), JobInv(w)'
  PROVE  IInv'
<1>1. /\ tab' \in Tables /\ log' \in Seq(Entries)
      /\ \A k \in Ids \ {id} : tab'[k] = tab[k]
      /\ LogGrows /\ Len(log') = Len(log) + 1 /\ log'[Len(log')].id = id
  BY ChangeFacts DEF IInv
<1>2. job' \in [Workers -> Jobs] /\ \A v \in Workers : JobInv(v)'
  BY <1>1, JobsKept
<1>3. TypeOK'
  BY <1>1, <1>2 DEF IInv, TypeOK
<1>4. ASSUME NEW k \in Ids \ {id} PROVE RowInv(k)'
  <2>1. RowInv(k) /\ tab'[k] = tab[k]
    BY <1>1 DEF IInv
  <2>2. EntriesOf(log', k) \subseteq EntriesOf(log, k)
    <3> SUFFICES ASSUME NEW n \in EntriesOf(log', k) PROVE n \in EntriesOf(log, k)
      OBVIOUS
    <3>1. n \in 1..Len(log') /\ log'[n].id = k
      BY DEF EntriesOf
    <3>2. n # Len(log')
      BY <1>1, <3>1
    <3>3. n \in 1..Len(log) /\ log'[n] = log[n]
      BY <1>1, <3>1, <3>2 DEF LogGrows
    <3> QED
      BY <3>1, <3>3 DEF EntriesOf
  <2> QED
    BY <1>1, <2>1, <2>2, Persistence DEF RowInv
<1>5. ChangesWereAllowed'
  BY <1>1, AllowedStays DEF IInv, HistoryInv
<1>6. EventsInv'
  BY <1>1, EventsKept DEF IInv, HistoryInv
<1> QED
  BY <1>2, <1>3, <1>4, <1>5, <1>6 DEF IInv, HistoryInv

\* Idle workers have nothing to keep.
LEMMA IdleJob == Idle \in Jobs /\ Idle.stage = "idle"
  BY DEF Jobs, Idle

\* A worker that took a job has exactly that job.
LEMMA JobIsSet ==
  ASSUME TypeOK, NEW w \in Workers, NEW j, JobSet(w, j)
  PROVE  job'[w] = j
  BY DEF TypeOK, JobSet

\* The initial database and the idle workers satisfy the invariant.
LEMMA InitInv == Init => IInv
<1> SUFFICES ASSUME Init PROVE IInv
  OBVIOUS
<1>1. tab \in Tables /\ log = << >> /\ events = << >>
  BY DEF Init, EmptyDB, Tables
<1>2. << >> \in Seq(Entries) /\ << >> \in Seq(EventSet)
  OBVIOUS
<1>3. job \in [Workers -> Jobs] /\ \A w \in Workers : job[w] = Idle
  BY IdleJob DEF Init
<1>4. served \in 0..MaxRequests
  BY InputAssumption DEF Init
<1>5. TypeOK
  BY <1>1, <1>2, <1>3, <1>4 DEF TypeOK
<1>6. \A id \in Ids : RowInv(id)
  <2>1. \A id : EntriesOf(log, id) = {}
    BY <1>1 DEF EntriesOf
  <2>2. \A id \in Ids : tab[id] = NoRow
    BY DEF Init, EmptyDB
  <2> QED
    BY <2>1, <2>2 DEF RowInv
<1>7. \A w \in Workers : JobInv(w)
  BY <1>3, IdleJob DEF JobInv
<1>8. HistoryInv
  BY <1>1 DEF HistoryInv, ChangesWereAllowed, EventsInv
<1> QED
  BY <1>5, <1>6, <1>7, <1>8 DEF IInv

\* Step by step: a POST, whatever its policy and its write decide.
LEMMA CreateKeeps ==
  ASSUME IInv, NEW w \in Workers, Create(w)
  PROVE  IInv'
<1>1. PICK caller \in ClientCallers, obj \in Objects : \E id \in NewIds(obj) :
        /\ SellerKnown(obj) /\ (NeedsApproval(obj) => caller.org = ServerOperator)
        /\ HardcodedPolicies(caller, "CREATE", obj)
        /\ tab[id] = NoRow /\ Change("CREATE", id, Record(obj), caller.org)
        /\ JobSet(w, Publish("CreateEvent", id, obj))
        /\ events' = events /\ served' \in 0..MaxRequests
  BY CreateEffect DEF IInv
<1>2. PICK id \in NewIds(obj) :
        /\ SellerKnown(obj) /\ (NeedsApproval(obj) => caller.org = ServerOperator)
        /\ HardcodedPolicies(caller, "CREATE", obj)
        /\ tab[id] = NoRow /\ Change("CREATE", id, Record(obj), caller.org)
        /\ JobSet(w, Publish("CreateEvent", id, obj))
        /\ events' = events /\ served' \in 0..MaxRequests
  BY <1>1
<1>3. id \in Ids /\ KeyType(id) = obj.type
  BY NewIdsFacts
<1>4. /\ Record(obj) \in Rows /\ Record(obj).content = obj /\ caller.org \in OrgOrNone
      /\ Record(obj) # NoRow
  BY RecordType, CallerFacts, ServiceSentinels
<1>5. /\ tab'[id] = Record(obj)
      /\ LogGrows /\ Len(log') = Len(log) + 1
      /\ log'[Len(log')].id = id /\ log'[Len(log')].action = "CREATE"
      /\ log'[Len(log')].caller = caller.org /\ log'[Len(log')].new = obj
  BY <1>2, <1>3, <1>4, ChangeFacts DEF IInv, ContentOf
<1>6. Len(log') \in EntriesOf(log', id) /\ Len(log') \in 1..Len(log')
  BY <1>5 DEF EntriesOf, LogGrows
<1>7. RowInv(id)'
  <2>1. HasHad(id, obj)'
    BY <1>5, <1>6 DEF HasHad
  <2>2. NeedsApproval(obj) => WasLaunched(id)'
    BY <1>2, <1>5, <1>6 DEF NeedsApproval, WasLaunched
  <2> QED
    BY <1>2, <1>3, <1>4, <1>5, <2>1, <2>2 DEF RowInv
<1>8. EntryWasAllowed(Len(log))'
  BY <1>2, <1>5 DEF EntryWasAllowed
<1> DEFINE event == [kind |-> "CreateEvent", id |-> id, resource |-> obj]
<1>9. Publish("CreateEvent", id, obj) \in Jobs
  BY <1>3 DEF Publish, Jobs, EventSet, EventKinds
<1>10. JobInv(w)'
  <2>1. job'[w] = Publish("CreateEvent", id, obj)
    BY <1>2, JobIsSet DEF IInv
  <2>2. job'[w].stage = "publish" /\ job'[w].event = event
    BY <2>1 DEF Publish
  <2>3. IsBacked(event)'
    BY <1>5, <1>6 DEF IsBacked, Tells
  <2> HIDE DEF event
  <2> QED
    BY <2>2, <2>3 DEF JobInv, IsBacked
<1> QED
  BY <1>2, <1>3, <1>4, <1>7, <1>8, <1>9, <1>10, ChangeKeeps

\* The reads of PATCH and DELETE only set the job of their worker.
LEMMA ReadsKeep ==
  ASSUME IInv, NEW w \in Workers, UpdateRead(w) \/ DeleteRead(w)
  PROVE  IInv'
<1>1. CASE UpdateRead(w)
  <2>1. PICK caller \in ClientCallers, id \in Ids, merged \in Objects :
          /\ WasAllowed(caller, "UPDATE", LocalId(id))
          /\ merged.type = KeyType(id) /\ SellerKnown(merged)
          /\ NeedsApproval(merged) =>
               caller.org = ServerOperator \/ WasLaunched(LocalId(id))
          /\ JobSet(w, [stage |-> "update", caller |-> caller, id |-> id,
                        merged |-> merged])
          /\ UNCHANGED <<tab, log, events>> /\ served' \in 0..MaxRequests
    BY <1>1, UpdateReadEffect
  <2> DEFINE j == [stage |-> "update", caller |-> caller, id |-> id, merged |-> merged]
  <2>2. /\ j \in Jobs /\ j.stage = "update"
        /\ j.caller = caller /\ j.id = id /\ j.merged = merged
    BY CallerFacts DEF Jobs
  <2> HIDE DEF j
  <2>3. job'[w] = j
    BY <2>1, JobIsSet DEF j, IInv
  <2>4. /\ WasAllowed(caller, "UPDATE", LocalId(id))'
        /\ WasLaunched(LocalId(id)) => WasLaunched(LocalId(id))'
    BY <2>1 DEF WasAllowed, WasLaunched
  <2>5. JobInv(w)'
    BY <2>1, <2>2, <2>3, <2>4 DEF JobInv
  <2>6. JobSet(w, j)
    BY <2>1 DEF j
  <2> QED
    BY <2>1, <2>2, <2>5, <2>6, QuietKeeps
<1>2. CASE DeleteRead(w)
  <2>1. PICK caller \in ClientCallers, id \in Ids :
          /\ WasAllowed(caller, "DELETE", LocalId(id))
          /\ JobSet(w, [stage |-> "delete", caller |-> caller, id |-> id])
          /\ UNCHANGED <<tab, log, events>> /\ served' \in 0..MaxRequests
    BY <1>2, DeleteReadEffect
  <2> DEFINE j == [stage |-> "delete", caller |-> caller, id |-> id]
  <2>2. /\ j \in Jobs /\ j.stage = "delete" /\ j.caller = caller /\ j.id = id
    BY CallerFacts DEF Jobs
  <2> HIDE DEF j
  <2>3. job'[w] = j
    BY <2>1, JobIsSet DEF j, IInv
  <2>4. WasAllowed(caller, "DELETE", LocalId(id))'
    BY <2>1 DEF WasAllowed
  <2>5. JobInv(w)'
    BY <2>2, <2>3, <2>4 DEF JobInv
  <2>6. JobSet(w, j)
    BY <2>1 DEF j
  <2> QED
    BY <2>1, <2>2, <2>5, <2>6, QuietKeeps
<1> QED
  BY <1>1, <1>2

\* A change that was allowed on an earlier content is an allowed entry.
LEMMA AllowedEntry ==
  ASSUME LogGrows, Len(log') = Len(log) + 1, NEW caller \in ClientCallers, NEW id \in Ids,
         NEW key \in Ids, LocalId(key) = LocalId(id), NEW action \in {"UPDATE", "DELETE"},
         WasAllowed(caller, action, LocalId(id)),
         log'[Len(log')].id = key, log'[Len(log')].action = action,
         log'[Len(log')].caller = caller.org
  PROVE  EntryWasAllowed(Len(log))'
<1>1. PICK m \in EntriesOf(log, LocalId(id)) :
        log[m].new # NoContent /\ HardcodedPolicies(caller, action, log[m].new)
  BY DEF WasAllowed
<1>2. m \in 1..Len(log) /\ log[m].id = LocalId(id)
  BY DEF EntriesOf
<1>3. m \in 1..(Len(log') - 1) /\ log'[m] = log[m]
  BY <1>2 DEF LogGrows
<1> QED
  BY <1>1, <1>2, <1>3 DEF EntryWasAllowed

\* A PATCH writes what it merged to the row as it is by then.
LEMMA UpdateWriteKeeps ==
  ASSUME IInv, NEW w \in Workers, UpdateWrite(w)
  PROVE  IInv'
<1>1. UNCHANGED <<events, served>> /\ served' \in 0..MaxRequests
  BY UpdateWriteEffect DEF IInv, TypeOK
<1>2. CASE UNCHANGED <<tab, log>> /\ JobSet(w, Idle)
  <2>1. job'[w] = Idle
    BY <1>2, JobIsSet DEF IInv
  <2>2. JobInv(w)'
    BY <2>1, IdleJob DEF JobInv
  <2> QED
    BY <1>1, <1>2, <2>2, IdleJob, QuietKeeps
<1>3. CASE \E caller \in ClientCallers, id \in Ids, merged \in Objects, row \in Rows :
             /\ WasAllowed(caller, "UPDATE", LocalId(id))
             /\ merged.type = KeyType(id) /\ SellerKnown(merged)
             /\ NeedsApproval(merged) =>
                  caller.org = ServerOperator \/ WasLaunched(LocalId(id))
             /\ tab[LocalId(id)] # NoRow /\ row.content = merged
             /\ Change("UPDATE", LocalId(id), row, caller.org)
             /\ JobSet(w, Publish("AttributeValueChangeEvent", id, merged))
  <2>1. PICK caller \in ClientCallers, id \in Ids, merged \in Objects, row \in Rows :
             /\ WasAllowed(caller, "UPDATE", LocalId(id))
             /\ merged.type = KeyType(id) /\ SellerKnown(merged)
             /\ NeedsApproval(merged) =>
                  caller.org = ServerOperator \/ WasLaunched(LocalId(id))
             /\ tab[LocalId(id)] # NoRow /\ row.content = merged
             /\ Change("UPDATE", LocalId(id), row, caller.org)
             /\ JobSet(w, Publish("AttributeValueChangeEvent", id, merged))
    BY <1>3
  <2>2. PICK key \in Ids : /\ key = LocalId(id) /\ LocalId(key) = LocalId(id)
                           /\ KeyType(key) = KeyType(id)
    BY KeyFacts
  <2>3. caller.org \in OrgOrNone /\ row # NoRow
    BY CallerFacts, ServiceSentinels
  <2>4. /\ tab'[key] = row
        /\ LogGrows /\ Len(log') = Len(log) + 1
        /\ log'[Len(log')].id = key /\ log'[Len(log')].action = "UPDATE"
        /\ log'[Len(log')].caller = caller.org /\ log'[Len(log')].new = merged
    BY <2>1, <2>2, <2>3, ChangeFacts DEF IInv, ContentOf
  <2>5. Len(log') \in EntriesOf(log', key) /\ Len(log') \in 1..Len(log')
    BY <2>4 DEF EntriesOf, LogGrows
  <2>6. RowInv(key)'
    <3>1. HasHad(key, merged)'
      BY <2>4, <2>5 DEF HasHad
    <3>2. NeedsApproval(merged) /\ caller.org = ServerOperator => WasLaunched(key)'
      BY <2>4, <2>5 DEF NeedsApproval, WasLaunched
    <3>3. WasLaunched(LocalId(id)) => WasLaunched(key)'
      BY <2>2, <2>4, Persistence
    <3> QED
      BY <2>1, <2>2, <2>3, <2>4, <3>1, <3>2, <3>3 DEF RowInv
  <2>7. EntryWasAllowed(Len(log))'
    BY <2>1, <2>2, <2>4, AllowedEntry
  <2> DEFINE event == [kind |-> "AttributeValueChangeEvent", id |-> id, resource |-> merged]
  <2>8. Publish("AttributeValueChangeEvent", id, merged) \in Jobs
    BY DEF Publish, Jobs, EventSet, EventKinds
  <2>9. JobInv(w)'
    <3>1. job'[w] = Publish("AttributeValueChangeEvent", id, merged)
      BY <2>1, JobIsSet DEF IInv
    <3>2. job'[w].stage = "publish" /\ job'[w].event = event
      BY <3>1 DEF Publish
    <3>3. IsBacked(event)'
      BY <2>2, <2>4, <2>5 DEF IsBacked, Tells
    <3> HIDE DEF event
    <3> QED
      BY <3>2, <3>3 DEF JobInv, IsBacked
  <2>10. Change("UPDATE", key, row, caller.org)
    BY <2>1, <2>2
  <2> QED
    BY <1>1, <2>1, <2>3, <2>6, <2>7, <2>8, <2>9, <2>10, ChangeKeeps
<1> QED
  BY <1>2, <1>3, UpdateWriteEffect

\* A DELETE removes the row as it is by then.
LEMMA DeleteWriteKeeps ==
  ASSUME IInv, NEW w \in Workers, DeleteWrite(w)
  PROVE  IInv'
<1>1. PICK caller \in ClientCallers, id \in Ids :
        /\ WasAllowed(caller, "DELETE", LocalId(id))
        /\ JobSet(w, Publish("DeleteEvent", id, NoContent))
        /\ \/ tab[id] = NoRow /\ UNCHANGED <<tab, log>>
           \/ tab[id] # NoRow /\ Change("DELETE", id, NoRow, caller.org)
  BY DeleteWriteEffect
<1>2. UNCHANGED <<events, served>> /\ served' \in 0..MaxRequests
  BY DeleteWriteEffect DEF IInv, TypeOK
<1> DEFINE event == [kind |-> "DeleteEvent", id |-> id, resource |-> NoContent]
<1>3. Publish("DeleteEvent", id, NoContent) \in Jobs
  BY DEF Publish, Jobs, EventSet, EventKinds
<1>4. ASSUME ~IsISBE => WasDeleted(id)' PROVE JobInv(w)'
  <2>1. job'[w] = Publish("DeleteEvent", id, NoContent)
    BY <1>1, JobIsSet DEF IInv
  <2>2. job'[w].stage = "publish" /\ job'[w].event = event
    BY <2>1 DEF Publish
  <2>3. ~IsISBE => LocalId(id) = id
    BY DEF LocalId
  <2>4. IsBacked(event)'
    BY <1>4, <2>3 DEF IsBacked
  <2> HIDE DEF event
  <2> QED
    BY <2>2, <2>4 DEF JobInv, IsBacked
<1>5. CASE tab[id] = NoRow /\ UNCHANGED <<tab, log>>
  <2>1. ~IsISBE => EntriesOf(log, id) # {}
    BY <1>1 DEF WasAllowed, LocalId
  <2>2. ~IsISBE => WasDeleted(id)'
    BY <1>5, <2>1 DEF IInv, RowInv, WasDeleted
  <2>3. JobInv(w)'
    BY <1>4, <2>2
  <2> QED
    BY <1>1, <1>2, <1>3, <1>5, <2>3, QuietKeeps
<1>6. CASE tab[id] # NoRow /\ Change("DELETE", id, NoRow, caller.org)
  <2>1. caller.org \in OrgOrNone
    BY CallerFacts
  <2>2. /\ tab'[id] = NoRow
        /\ LogGrows /\ Len(log') = Len(log) + 1
        /\ log'[Len(log')].id = id /\ log'[Len(log')].action = "DELETE"
        /\ log'[Len(log')].caller = caller.org
    BY <1>6, <2>1, ChangeFacts DEF IInv
  <2>3. WasDeleted(id)'
    BY <2>2 DEF WasDeleted, EntriesOf, LogGrows
  <2>4. RowInv(id)'
    BY <2>2, <2>3 DEF RowInv
  <2>5. EntryWasAllowed(Len(log))'
    <3>1. WasAllowed(caller, "DELETE", LocalId(id))
      BY <1>1
    <3> QED
      BY <2>2, <3>1, AllowedEntry
  <2>6. JobInv(w)'
    BY <1>4, <2>3
  <2> QED
    BY <1>1, <1>2, <1>3, <1>6, <2>1, <2>4, <2>5, <2>6, ChangeKeeps
<1> QED
  BY <1>1, <1>5, <1>6

\* Failing writes and published events end a job without a change.
LEMMA EndsKeep ==
  ASSUME IInv, NEW w \in Workers, WriteFails(w) \/ PublishEvent(w)
  PROVE  IInv'
<1>1. JobSet(w, Idle) /\ UNCHANGED <<tab, log, served>> /\ served' \in 0..MaxRequests
  BY DEF WriteFails, PublishEvent, JobSet, IInv, TypeOK
<1>2. JobInv(w)'
  <2>1. job'[w] = Idle
    BY <1>1, JobIsSet DEF IInv
  <2> QED
    BY <2>1, IdleJob DEF JobInv
<1>3. CASE WriteFails(w)
  <2>1. UNCHANGED <<tab, log, events>>
    BY <1>3 DEF WriteFails
  <2> QED
    BY <1>1, <1>2, <2>1, IdleJob, QuietKeeps
<1>4. CASE PublishEvent(w)
  <2>1. PICK event : event = job[w].event
    OBVIOUS
  <2>2. job[w].stage = "publish" /\ events' = Append(events, event)
    BY <1>4, <2>1 DEF PublishEvent
  <2>3. event \in EventSet /\ IsBacked(event) /\ events \in Seq(EventSet)
    BY <2>1, <2>2, JobFacts DEF IInv, JobInv, TypeOK
  <2>4. /\ events' \in Seq(EventSet) /\ Len(events') = Len(events) + 1 /\ Len(events) \in Nat
        /\ \A i \in 1..Len(events) : events'[i] = events[i]
        /\ events'[Len(events) + 1] = event
    BY <2>2, <2>3, AppendKeeps
  <2>5. LogGrows
    <3>1. Len(log) \in Nat
      BY DEF IInv, TypeOK
    <3> QED
      BY <1>1, <3>1 DEF LogGrows
  <2>6. job' \in [Workers -> Jobs] /\ \A v \in Workers : JobInv(v)'
    BY <1>1, <1>2, <2>5, IdleJob, JobsKept
  <2>7. TypeOK'
    BY <1>1, <2>4, <2>6 DEF IInv, TypeOK
  <2>8. \A id \in Ids : RowInv(id)'
    BY <1>1 DEF IInv, RowInv, HasHad, WasLaunched, WasDeleted
  <2>9. ChangesWereAllowed'
    BY <1>1, <2>5, AllowedStays DEF IInv, HistoryInv
  <2>10. EventsInv'
    <3> SUFFICES ASSUME NEW i \in 1..Len(events') PROVE IsBacked(events[i])'
      BY DEF EventsInv
    <3>1. PICK e : e = events'[i]
      OBVIOUS
    <3>2. e = event \/ (i \in 1..Len(events) /\ e = events[i])
      BY <2>4, <3>1
    <3>3. IsBacked(e)
      BY <2>3, <3>2 DEF IInv, HistoryInv, EventsInv
    <3>4. IsBacked(e)'
      BY <2>5, <3>3, Persistence
    <3> QED
      BY <3>1, <3>4 DEF IsBacked
  <2> QED
    BY <2>6, <2>7, <2>8, <2>9, <2>10 DEF IInv, HistoryInv
<1> QED
  BY <1>3, <1>4

\* A restart forgets the jobs and nothing else.
LEMMA RestartKeeps ==
  ASSUME IInv, Restart
  PROVE  IInv'
<1>1. job' = [w \in Workers |-> Idle] /\ UNCHANGED <<tab, log, events, served>>
  BY DEF Restart
<1>2. \A w \in Workers : job'[w] = Idle
  BY <1>1
<1>3. LogGrows
  <2>1. Len(log) \in Nat
    BY DEF IInv, TypeOK
  <2> QED
    BY <1>1, <2>1 DEF LogGrows
<1>4. TypeOK'
  BY <1>1, IdleJob DEF IInv, TypeOK
<1>5. \A id \in Ids : RowInv(id)'
  BY <1>1 DEF IInv, RowInv, HasHad, WasLaunched, WasDeleted
<1>6. \A w \in Workers : JobInv(w)'
  BY <1>2, IdleJob DEF JobInv
<1>7. HistoryInv'
  BY <1>1, <1>3, AllowedStays, EventsKept DEF IInv, HistoryInv
<1> QED
  BY <1>4, <1>5, <1>6, <1>7 DEF IInv

\* A step that changes nothing.
LEMMA StutterKeeps ==
  ASSUME IInv, UNCHANGED vars
  PROVE  IInv'
<1>1. UNCHANGED <<tab, log, job, events, served>>
  BY DEF vars
<1>2. LogGrows
  <2>1. Len(log) \in Nat
    BY DEF IInv, TypeOK
  <2> QED
    BY <1>1, <2>1 DEF LogGrows
<1>3. TypeOK'
  BY <1>1 DEF IInv, TypeOK
<1>4. \A id \in Ids : RowInv(id)'
  BY <1>1 DEF IInv, RowInv, HasHad, WasLaunched, WasDeleted
<1>5. \A w \in Workers : JobInv(w)'
  <2> SUFFICES ASSUME NEW w \in Workers PROVE JobInv(w)'
    OBVIOUS
  <2>1. JobInv(w) /\ job'[w] = job[w]
    BY <1>1 DEF IInv
  <2> QED
    BY <1>2, <2>1, Persistence DEF JobInv
<1>6. HistoryInv'
  BY <1>1, <1>2, AllowedStays, EventsKept DEF IInv, HistoryInv
<1> QED
  BY <1>3, <1>4, <1>5, <1>6 DEF IInv

\* Every step keeps the invariant.
LEMMA StepInv == IInv /\ [Next]_vars => IInv'
<1> SUFFICES ASSUME IInv, [Next]_vars PROVE IInv'
  OBVIOUS
<1>1. CASE UNCHANGED vars
  BY <1>1, StutterKeeps
<1>2. ASSUME NEW w \in Workers,
             \/ Create(w) \/ UpdateRead(w) \/ UpdateWrite(w) \/ DeleteRead(w)
             \/ DeleteWrite(w) \/ WriteFails(w) \/ PublishEvent(w)
      PROVE  IInv'
  BY <1>2, CreateKeeps, ReadsKeep, UpdateWriteKeeps, DeleteWriteKeeps, EndsKeep
<1>3. CASE Restart
  BY <1>3, RestartKeeps
<1> QED
  BY <1>1, <1>2, <1>3 DEF Next

\* The invariant holds in every state of every behaviour.
LEMMA Invariance == Spec => []IInv
  BY InitInv, StepInv, PTL DEF Spec

-----------------------------------------------------------------------------
(* The theorems.                                                           *)

\* The variables of the service keep their types.
THEOREM TypeCorrect == Spec => []TypeOK
<1>1. IInv => TypeOK
  BY DEF IInv
<1> QED
  BY Invariance, <1>1, PTL

\* No sequence of requests leaves an object that needs a seller without one,
\* however a patch cuts its relatedParty down.
THEOREM SellersKnown == Spec => []SellerAlwaysKnown
<1>1. IInv => SellerAlwaysKnown
  BY DEF IInv, RowInv, SellerKnown, SellerAlwaysKnown
<1> QED
  BY Invariance, <1>1, PTL

\* Every change in the log was allowed to its caller on a content the object
\* had, although PATCH and DELETE decide on one state and write to another.
THEOREM ChangesAllowed == Spec => []ChangesWereAllowed
<1>1. IInv => ChangesWereAllowed
  BY DEF IInv, HistoryInv
<1> QED
  BY Invariance, <1>1, PTL

\* A launched offering was launched by the server operator at some time.
THEOREM LaunchesApproved == Spec => []LaunchWasApproved
<1>1. IInv => LaunchWasApproved
  <2> SUFFICES ASSUME IInv, LaunchOnlyByAdmin, NEW id \in Ids, tab[id] # NoRow,
                      tab[id].content.type = "productOffering", tab[id].content.launched
               PROVE  WasLaunched(id)
    BY DEF LaunchWasApproved, WasLaunched
  <2>1. NeedsApproval(tab[id].content) => WasLaunched(id)
    BY DEF IInv, RowInv
  <2> QED
    BY <2>1 DEF NeedsApproval
<1> QED
  BY Invariance, <1>1, PTL

\* Every event with an object tells of a committed change to that content.
THEOREM EventsBacked == Spec => []EventsAreBacked
<1>1. IInv => EventsAreBacked
  BY DEF IInv, HistoryInv, EventsInv, IsBacked, EventsAreBacked
<1> QED
  BY Invariance, <1>1, PTL

\* Where URNs are taken as they come, who was told of a deletion can rely on
\* it. (In the ISBE profiles a run shows the contrary.)
THEOREM DeletionsBacked ==
  ASSUME ~IsISBE
  PROVE  Spec => []DeletionsHappened
<1>1. IInv => DeletionsHappened
  BY DEF IInv, HistoryInv, EventsInv, IsBacked, DeletionsHappened, WasDeleted
<1> QED
  BY Invariance, <1>1, PTL

\* No request brings an object back that was removed, whatever it had read.
THEOREM NeverResurrected == Spec => NoResurrection
<1> DEFINE Stays == \A id \in UuidKeys : EntriesOf(log, id) # {} /\ tab[id] = NoRow
                                           => tab'[id] = NoRow
<1>1. ASSUME IInv, [Next]_vars PROVE [Stays]_vars
  <2> SUFFICES ASSUME NEW key \in UuidKeys, EntriesOf(log, key) # {}, tab[key] = NoRow
               PROVE  tab'[key] = NoRow
    OBVIOUS
  <2>1. TypeOK /\ key \in Ids
    BY <1>1 DEF IInv, Ids
  <2>2. CASE tab' = tab
    BY <2>2
  <2>3. ASSUME NEW w \in Workers, Create(w) PROVE tab'[key] = NoRow
    <3>1. PICK caller \in ClientCallers, obj \in Objects :
            \E id \in NewIds(obj) : Change("CREATE", id, Record(obj), caller.org)
      BY <2>1, <2>3, CreateEffect
    <3>2. PICK id \in NewIds(obj) : Change("CREATE", id, Record(obj), caller.org)
      BY <3>1
    <3>3. id # key /\ id \in Ids
      BY NewIdsFacts
    <3>4. Record(obj) \in Rows /\ caller.org \in OrgOrNone
      BY RecordType, CallerFacts
    <3> QED
      BY <2>1, <3>2, <3>3, <3>4, ChangeFacts
  <2>4. ASSUME NEW w \in Workers, UpdateWrite(w) PROVE tab'[key] = NoRow
    <3>1. CASE UNCHANGED <<tab, log>>
      BY <3>1
    <3>2. ASSUME NEW caller \in ClientCallers, NEW id \in Ids, NEW row \in Rows,
                 tab[LocalId(id)] # NoRow,
                 Change("UPDATE", LocalId(id), row, caller.org)
          PROVE  tab'[key] = NoRow
      <4>1. LocalId(id) \in Ids /\ LocalId(id) # key /\ caller.org \in OrgOrNone
        BY <3>2, KeyFacts, CallerFacts
      <4> QED
        BY <2>1, <3>2, <4>1, ChangeFacts
    <3> QED
      BY <1>1, <2>4, <3>1, <3>2, UpdateWriteEffect
  <2>5. ASSUME NEW w \in Workers, DeleteWrite(w) PROVE tab'[key] = NoRow
    <3>1. CASE UNCHANGED <<tab, log>>
      BY <3>1
    <3>2. ASSUME NEW caller \in ClientCallers, NEW id \in Ids, tab[id] # NoRow,
                 Change("DELETE", id, NoRow, caller.org)
          PROVE  tab'[key] = NoRow
      <4>1. caller.org \in OrgOrNone /\ id # key
        BY <3>2, CallerFacts
      <4> QED
        BY <2>1, <3>2, <4>1, ChangeFacts
    <3> QED
      BY <1>1, <2>5, <3>1, <3>2, DeleteWriteEffect
  <2>6. ASSUME NEW w \in Workers,
               UpdateRead(w) \/ DeleteRead(w) \/ WriteFails(w) \/ PublishEvent(w)
        PROVE  tab' = tab
    BY <2>6 DEF UpdateRead, DeleteRead, WriteFails, PublishEvent
  <2> QED
    BY <1>1, <2>2, <2>3, <2>4, <2>5, <2>6 DEF Next, vars, Restart
<1> QED
  BY Invariance, <1>1, PTL DEF Spec, NoResurrection

-----------------------------------------------------------------------------
(* The handlers and the store.                                             *)

Store == INSTANCE TMFStoreAbs WITH Contents <- Objects, Columns <- Parties,
                                   Callers <- OrgOrNone

\* The two spellings of the same database and of what a call makes of it.
LEMMA SameCalls ==
  ASSUME NEW id, NEW obj, NEW who
  PROVE  /\ Store!CreateObject(Store!AbsDB, id, obj, who) = CreateObject(DB, id, obj, who)
         /\ Store!UpdateObject(Store!AbsDB, id, obj, who) = UpdateObject(DB, id, obj, who)
         /\ Store!DeleteObject(Store!AbsDB, id, who) = DeleteObject(DB, id, who)
<1>1. Store!AbsDB = DB
  BY DEF Store!AbsDB, DB
<1>2. ASSUME NEW action, NEW row
      PROVE  Store!Apply(DB, action, id, row, who) = Apply(DB, action, id, row, who)
  BY DEF Store!Apply, Apply, Store!Entry, Entry, Store!ContentOf, ContentOf
<1>3. Store!CreateObject(DB, id, obj, who) = CreateObject(DB, id, obj, who)
  BY <1>2 DEF Store!CreateObject, CreateObject
<1>4. Store!UpdateObject(DB, id, obj, who) = UpdateObject(DB, id, obj, who)
  <2>1. Store!UpdatedRow(DB.tab[id], obj) = UpdatedRow(DB.tab[id], obj)
    BY DEF Store!UpdatedRow, UpdatedRow
  <2> QED
    BY <1>2, <2>1 DEF Store!UpdateObject, UpdateObject
<1>5. Store!DeleteObject(DB, id, who) = DeleteObject(DB, id, who)
  BY <1>2 DEF Store!DeleteObject, DeleteObject
<1> QED
  BY <1>1, <1>3, <1>4, <1>5

\* What the handlers do to the database are calls of the store with arguments it
\* accepts, and nothing else: each request changes it in one atomic step or not at
\* all, although it takes several steps itself.  Since TMFStore implements the same
\* specification, the handlers may be reasoned about over its transactions.
THEOREM HandlersKeepToStore == Spec => Store!AbsSpec
<1>1. Init => Store!AbsInit
  BY DEF Init, EmptyDB, Store!AbsInit, Store!AbsDB, Store!EmptyDB
<1>2. ASSUME IInv, [Next]_vars PROVE [Store!AbsNext]_(Store!absvars)
  <2>1. TypeOK
    BY <1>2 DEF IInv
  <2>2. ASSUME UNCHANGED <<tab, log>> PROVE UNCHANGED Store!absvars
    BY <2>2 DEF Store!absvars
  <2>3. ASSUME NEW w \in Workers, Create(w) PROVE Store!AbsNext
    <3>1. PICK caller \in ClientCallers, o \in NewObjects :
            /\ HardcodedPolicies(caller, "CREATE", Completed(o, caller))
            /\ \E id \in NewIds(Completed(o, caller)) :
                 Becomes(CreateObject(DB, id, Record(Completed(o, caller)), caller.org))
      BY <2>3 DEF Create
    <3>2. PICK id \in NewIds(Completed(o, caller)) :
            Becomes(CreateObject(DB, id, Record(Completed(o, caller)), caller.org))
      BY <3>1
    <3>3. Completed(o, caller) \in Objects
      BY <3>1, InputAssumption, CompletedFacts
    <3>4. PICK row \in Rows : row = Record(Completed(o, caller))
      BY <3>3, RecordType
    <3>5. id \in Ids /\ caller.org \in OrgOrNone
      BY <3>3, NewIdsFacts, CallerFacts
    <3>6. Store!Becomes(Store!CreateObject(Store!AbsDB, id, row, caller.org))
      BY <3>2, <3>4, SameCalls DEF Becomes, Store!Becomes
    <3>7. row \in Store!Rows
      BY DEF Rows, Store!Rows
    <3> QED
      BY <3>5, <3>6, <3>7 DEF Store!AbsNext
  <2>4. ASSUME NEW w \in Workers, UpdateWrite(w) PROVE Store!AbsNext
    <3>1. job[w].stage = "update"
      BY <2>4 DEF UpdateWrite
    <3>2. /\ job[w].caller \in ClientCallers /\ job[w].id \in Ids /\ job[w].merged \in Objects
      BY <1>2, <2>1, <3>1, JobFacts DEF IInv, JobInv
    <3>3. PICK row \in Rows : row = Record(job[w].merged)
      BY <3>2, RecordType
    <3>4. PICK id \in Ids : id = LocalId(job[w].id)
      BY <3>2, KeyFacts
    <3>5. PICK who \in OrgOrNone : who = job[w].caller.org
      BY <3>2, CallerFacts
    <3>6. Becomes(UpdateObject(DB, id, row, who))
      BY <2>4, <3>3, <3>4, <3>5 DEF UpdateWrite
    <3>7. Store!Becomes(Store!UpdateObject(Store!AbsDB, id, row, who))
      BY <3>6, SameCalls DEF Becomes, Store!Becomes
    <3>8. row \in Store!Rows
      BY DEF Rows, Store!Rows
    <3> QED
      BY <3>7, <3>8 DEF Store!AbsNext
  <2>5. ASSUME NEW w \in Workers, DeleteWrite(w) PROVE Store!AbsNext
    <3>1. job[w].stage = "delete"
      BY <2>5 DEF DeleteWrite
    <3>2. job[w].caller \in ClientCallers /\ job[w].id \in Ids
      BY <1>2, <2>1, <3>1, JobFacts DEF IInv, JobInv
    <3>3. PICK id \in Ids : id = job[w].id
      BY <3>2
    <3>4. PICK who \in OrgOrNone : who = job[w].caller.org
      BY <3>2, CallerFacts
    <3>5. Becomes(DeleteObject(DB, id, who))
      BY <2>5, <3>3, <3>4 DEF DeleteWrite
    <3>6. Store!Becomes(Store!DeleteObject(Store!AbsDB, id, who))
      BY <3>5, SameCalls DEF Becomes, Store!Becomes
    <3> QED
      BY <3>6 DEF Store!AbsNext
  <2>6. ASSUME NEW w \in Workers,
               UpdateRead(w) \/ DeleteRead(w) \/ WriteFails(w) \/ PublishEvent(w)
        PROVE  UNCHANGED <<tab, log>>
    BY <2>6 DEF UpdateRead, DeleteRead, WriteFails, PublishEvent
  <2>7. CASE Restart \/ UNCHANGED vars
    <3>1. UNCHANGED <<tab, log>>
      BY <2>7 DEF Restart, vars
    <3> QED
      BY <2>2, <3>1
  <2>8. ASSUME NEW w \in Workers,
               \/ Create(w) \/ UpdateRead(w) \/ UpdateWrite(w) \/ DeleteRead(w)
               \/ DeleteWrite(w) \/ WriteFails(w) \/ PublishEvent(w)
        PROVE  Store!AbsNext \/ UNCHANGED Store!absvars
    BY <2>2, <2>3, <2>4, <2>5, <2>6, <2>8
  <2> QED
    BY <1>2, <2>7, <2>8 DEF Next
<1> QED
  BY Invariance, <1>1, <1>2, PTL DEF Spec, Store!AbsSpec
=============================================================================
