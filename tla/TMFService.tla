----------------------------- MODULE TMFService -----------------------------
(***************************************************************************)
(* The service without the proxy: the handlers of CREATE, PATCH and DELETE *)
(* as the goroutines of the web server run them, over the object store     *)
(* whose calls are atomic (TMFStore implements TMFStoreAbs).               *)
(*                                                                         *)
(* PATCH and DELETE read the object, validate it, decide on what they read *)
(* and write in a second call, with other requests in between; PATCH       *)
(* writes back the whole object it read, merged with the patch.  The event *)
(* is published after the write.  GET changes nothing and is left out.     *)
(***************************************************************************)
EXTENDS TMFPolicies, Integers, Sequences, FiniteSets

CONSTANTS
  Workers,        \* the goroutines that serve requests
  Uuids,          \* the random part of generated ids
  ClientCallers,  \* the callers that send requests, a subset of Callers
  NewObjects,     \* the objects that clients POST, a subset of Objects
  Patches,        \* the patches that clients send
  LaunchOnlyByAdmin,  \* Features.OfferingLaunchOnlyByAdmin
  IsISBE,         \* the server runs in one of the ISBE environments
  NoRow, NoContent, \* see TMFRecords
  NoPatch,        \* an attribute that a patch does not mention
  MaxRequests     \* bound of the model: how many writing requests are served

\* The two spellings of an organization's identifier in a URN.
Spellings == {"plain", "did"}

\* A key is a random id with its type, or the URN of an organization.
UuidKeys == Uuids \X (Types \ {"organization"})
OrgKeys == Orgs \X Spellings
Ids == UuidKeys \cup OrgKeys

KeyType(id) == IF id \in OrgKeys THEN "organization" ELSE id[2]

PatchSet == [parties: Parties \cup {NoPatch}, launched: BOOLEAN \cup {NoPatch}]

Times == {0}
INSTANCE TMFRecords WITH Contents <- Objects, Columns <- Parties, Callers <- OrgOrNone

ASSUME InputAssumption ==
  /\ ClientCallers \subseteq Callers /\ NewObjects \subseteq Objects
  /\ Patches \subseteq PatchSet
  /\ LaunchOnlyByAdmin \in BOOLEAN /\ IsISBE \in BOOLEAN /\ MaxRequests \in Nat

ASSUME ServiceSentinels == NoContent \notin Objects /\ NoRow \notin Rows

VARIABLES
  tab, log,   \* the committed database
  job,        \* job[w]: the request that worker w serves, between two of its steps
  events,     \* the events handed to the notification manager, in that order
  served      \* how many writing requests were accepted for processing

vars == <<tab, log, job, events, served>>

DB == [tab |-> tab, log |-> log]

Idle == [stage |-> "idle"]
EventKinds == {"CreateEvent", "AttributeValueChangeEvent", "DeleteEvent"}
EventSet == [kind: EventKinds, id: Ids, resource: Objects \cup {NoContent}]
Jobs == {Idle}
        \cup [stage: {"update"}, caller: Callers, id: Ids, merged: Objects]
        \cup [stage: {"delete"}, caller: Callers, id: Ids]
        \cup [stage: {"publish"}, event: EventSet]

TypeOK ==
  /\ tab \in Tables
  /\ log \in Seq(Entries)
  /\ job \in [Workers -> Jobs]
  /\ events \in Seq(EventSet)
  /\ served \in 0..MaxRequests

Init ==
  /\ tab = EmptyDB.tab /\ log = EmptyDB.log
  /\ job = [w \in Workers |-> Idle]
  /\ events = << >>
  /\ served = 0

-----------------------------------------------------------------------------
(* The parts of the handlers.                                              *)

\* getLocalOrRemoteObject without the proxy: in ISBE the plain spelling of an
\* organization's id is replaced; DeleteObject is called with the id as it came.
LocalId(id) == IF IsISBE /\ id \in OrgKeys THEN <<id[1], "did">> ELSE id

\* Mutant: whoever has the power to update counts as an administrator.
LaunchAllowedByPower(caller, type, launched) ==
  LaunchOnlyByAdmin /\ type = "productOffering" /\ launched =>
    caller.lear \/ "UPDATE" \in caller.powers

\* OfferingLaunchOnlyByAdmin.
LaunchAllowed(caller, type, launched) ==
  LaunchOnlyByAdmin /\ type = "productOffering" /\ launched => IsServerOperator(caller)

\* verifyObjectOnCreate: the seller is filled in, except in the types
\* SetSellerInfo leaves alone.
Completed(obj, caller) ==
  IF obj.type \in {"individual", "organization"} THEN obj
  ELSE IF obj.type = "category" \* its seller is always missing
  THEN [obj EXCEPT !.parties = WithSeller(@, caller.org)]
  ELSE [obj EXCEPT !.parties = SellerFilledIn(@, caller.org)]

\* The row ToTMFRecord makes: the columns copy the parties of the object.
Record(obj) ==
  [content |-> obj, updated |-> 0,
   cols |-> [seller |-> Seller(obj), sellerOp |-> SellerOp(obj),
             buyer |-> Buyer(obj), buyerOp |-> BuyerOp(obj)]]

\* The ids a new object may get: a random one nothing has had before, or the
\* organization's own with its prefix, and none when it says no identifier.
NewIds(obj) ==
  IF obj.type = "organization" THEN {id \in OrgKeys : id = <<obj.org, "did">>}
  ELSE {id \in UuidKeys : id[2] = obj.type /\ \A k \in UuidKeys :
                            k[1] = id[1] => EntriesOf(log, k) = {}}

\* Mutant: the patch goes to the database as the client sent it.
PatchUntouched(type, patch, caller) == patch

\* verifyObjectOnUpdate: a patch without complete seller information gets the
\* caller as seller, also when it has no relatedParty at all.
PatchCompleted(type, patch, caller) ==
  IF ~RequiresSellerInfo(type) THEN patch
  ELSE [patch EXCEPT !.parties =
          SellerFilledIn(IF @ = NoPatch THEN NoParties ELSE @, caller.org)]

\* Mutant: an attribute the patch does not mention is merged as null.
MergedWithAbsent(obj, patch) ==
  [obj EXCEPT !.parties = patch.parties, !.launched = patch.launched]

\* mergeRFC7396: an attribute of the patch replaces the object's, relatedParty
\* is an array and replaced as a whole.
Merged(obj, patch) ==
  [obj EXCEPT !.parties = IF patch.parties = NoPatch THEN @ ELSE patch.parties,
              !.launched = IF patch.launched = NoPatch THEN @ ELSE patch.launched]

\* Reading an object for a decision: it must be there and pass validation.
Found(id) == tab[LocalId(id)] # NoRow /\ Valid(tab[LocalId(id)].content)
Stored(id) == tab[LocalId(id)].content

Becomes(answer) == tab' = answer.db.tab /\ log' = answer.db.log

Serve(w, next) ==
  /\ job[w] = Idle /\ served < MaxRequests
  /\ job' = [job EXCEPT ![w] = next]
  /\ served' = served + 1

Publish(kind, id, obj) ==
  [stage |-> "publish", event |-> [kind |-> kind, id |-> id, resource |-> obj]]

-----------------------------------------------------------------------------
(* The handlers.  A request that is refused, or whose database call fails, *)
(* changes nothing: only its end is a step, and only when it had begun.    *)
(* The policies of the user, asked after the hardcoded ones, can only      *)
(* refuse and are left out.                                                *)

\* CreateTMFObject: verify, authorize and one database call.
Create(w) ==
  \E caller \in ClientCallers, o \in NewObjects :
    LET obj == Completed(o, caller) IN
    /\ caller.authenticated
    /\ LaunchAllowed(caller, obj.type, obj.launched)
    /\ HardcodedPolicies(caller, "CREATE", obj)
    /\ \E id \in NewIds(obj) :
         LET answer == CreateObject(DB, id, Record(obj), caller.org) IN
         /\ answer.err = "ok"
         /\ Becomes(answer)
         /\ Serve(w, Publish("CreateEvent", id, obj))
    /\ UNCHANGED events

\* Mutant: the decision is made on the object the patch will lead to.
UpdateReadDecidesOnResult(w) ==
  \E caller \in ClientCallers, id \in Ids, p \in Patches :
    /\ caller.authenticated
    /\ LaunchAllowed(caller, KeyType(id), p.launched = TRUE)
    /\ Found(id)
    /\ LET merged == Merged(Stored(id), PatchCompleted(KeyType(id), p, caller)) IN
       /\ HardcodedPolicies(caller, "UPDATE", merged)
       /\ Serve(w, [stage |-> "update", caller |-> caller, id |-> id, merged |-> merged])
    /\ UNCHANGED <<tab, log, events>>

\* UpdateTMFObject up to the database call: the object is read and merged.
UpdateRead(w) ==
  \E caller \in ClientCallers, id \in Ids, p \in Patches :
    /\ caller.authenticated
    /\ LaunchAllowed(caller, KeyType(id), p.launched = TRUE)
    /\ Found(id)
    /\ HardcodedPolicies(caller, "UPDATE", Stored(id))
    /\ Serve(w, [stage |-> "update", caller |-> caller, id |-> id,
                 merged |-> Merged(Stored(id), PatchCompleted(KeyType(id), p, caller))])
    /\ UNCHANGED <<tab, log, events>>

\* Mutant: the merged object is upserted.
UpdateWriteUpserts(w) ==
  /\ job[w].stage = "update"
  /\ LET j == job[w]
         answer == UpsertObject(DB, LocalId(j.id), Record(j.merged), j.caller.org, FALSE)
     IN /\ Becomes(answer)
        /\ job' = [job EXCEPT ![w] =
             Publish("AttributeValueChangeEvent", j.id, j.merged)]
  /\ UNCHANGED <<events, served>>

\* Mutant: the event is published whatever the database answered.
UpdateWriteAlwaysTold(w) ==
  /\ job[w].stage = "update"
  /\ LET j == job[w]
         answer == UpdateObject(DB, LocalId(j.id), Record(j.merged), j.caller.org)
     IN /\ Becomes(answer)
        /\ job' = [job EXCEPT ![w] =
             Publish("AttributeValueChangeEvent", j.id, j.merged)]
  /\ UNCHANGED <<events, served>>

\* The database call of updateRemoteOrLocalObject.  The row may be gone: 500.
UpdateWrite(w) ==
  /\ job[w].stage = "update"
  /\ LET j == job[w]
         answer == UpdateObject(DB, LocalId(j.id), Record(j.merged), j.caller.org)
     IN /\ Becomes(answer)
        /\ job' = [job EXCEPT ![w] =
             IF answer.err = "ok"
             THEN Publish("AttributeValueChangeEvent", j.id, j.merged)
             ELSE Idle]
  /\ UNCHANGED <<events, served>>

\* Mutant: an object that is not there is no reason to stop.
DeleteReadMissing(w) ==
  \E caller \in ClientCallers, id \in Ids :
    /\ caller.authenticated
    /\ Found(id) => HardcodedPolicies(caller, "DELETE", Stored(id))
    /\ Serve(w, [stage |-> "delete", caller |-> caller, id |-> id])
    /\ UNCHANGED <<tab, log, events>>

\* DeleteTMFObject up to the database call.
DeleteRead(w) ==
  \E caller \in ClientCallers, id \in Ids :
    /\ caller.authenticated
    /\ Found(id)
    /\ HardcodedPolicies(caller, "DELETE", Stored(id))
    /\ Serve(w, [stage |-> "delete", caller |-> caller, id |-> id])
    /\ UNCHANGED <<tab, log, events>>

\* The database call of DeleteTMFObject: with the id of the request, and no
\* matter whether a row is still there.
DeleteWrite(w) ==
  /\ job[w].stage = "delete"
  /\ Becomes(DeleteObject(DB, job[w].id, job[w].caller.org))
  /\ job' = [job EXCEPT ![w] = Publish("DeleteEvent", job[w].id, NoContent)]
  /\ UNCHANGED <<events, served>>

\* The database call fails: the client gets 500 and nothing has changed.
WriteFails(w) ==
  /\ job[w].stage \in {"update", "delete"}
  /\ job' = [job EXCEPT ![w] = Idle]
  /\ UNCHANGED <<tab, log, events, served>>

\* PublishEvent, then the response.
PublishEvent(w) ==
  /\ job[w].stage = "publish"
  /\ events' = Append(events, job[w].event)
  /\ job' = [job EXCEPT ![w] = Idle]
  /\ UNCHANGED <<tab, log, served>>

\* The process stops and starts again: requests in progress are gone.
Restart ==
  /\ \E w \in Workers : job[w] # Idle
  /\ job' = [w \in Workers |-> Idle]
  /\ UNCHANGED <<tab, log, events, served>>

Next ==
  \/ \E w \in Workers :
       \/ Create(w) \/ UpdateRead(w) \/ UpdateWrite(w) \/ DeleteRead(w)
       \/ DeleteWrite(w) \/ WriteFails(w) \/ PublishEvent(w)
  \/ Restart

Spec == Init /\ [][Next]_vars

-----------------------------------------------------------------------------
(* Properties.                                                             *)

\* An object removed from the database does not come back, whatever requests
\* had read it before its removal: random ids are not used twice and an
\* update needs its row.
NoResurrection ==
  [][\A id \in UuidKeys : EntriesOf(log, id) # {} /\ tab[id] = NoRow
                            => tab'[id] = NoRow]_vars

\* No sequence of creations and patches leaves an object that needs a seller
\* without a seller and its operator (verifyObjectOnCreate, verifyObjectOnUpdate).
SellerAlwaysKnown ==
  \A id \in Ids : tab[id] # NoRow =>
    LET obj == tab[id].content IN
    RequiresSellerInfo(obj.type) => Seller(obj) # NoOrg /\ SellerOp(obj) # NoOrg

\* Every event that carries an object tells of a change that was committed
\* with that content, whatever else happened between the change and the event.
\* (A DeleteEvent may tell of a removal some other request made.)
Tells(event, e) ==
  \/ event.kind = "CreateEvent" /\ e.action = "CREATE" /\ e.id = event.id
  \/ event.kind = "AttributeValueChangeEvent" /\ e.action = "UPDATE"
     /\ e.id = LocalId(event.id)
EventsAreBacked ==
  \A i \in 1..Len(events) : events[i].kind # "DeleteEvent" =>
    \E n \in 1..Len(log) : Tells(events[i], log[n]) /\ log[n].new = events[i].resource

\* Who was told that an object is gone can rely on it: a DELETE of that object
\* was committed, by this request or by one that came in between.
DeletionsHappened ==
  \A i \in 1..Len(events) : events[i].kind = "DeleteEvent" =>
    \E n \in EntriesOf(log, LocalId(events[i].id)) : log[n].action = "DELETE"

\* The action of a log entry was allowed to its caller by the policies, on a
\* content the object really had: the one created, or one committed earlier.
EntryWasAllowed(n) ==
  \E caller \in ClientCallers :
    /\ caller.org = log[n].caller
    /\ \/ /\ log[n].action = "CREATE"
          /\ HardcodedPolicies(caller, "CREATE", log[n].new)
       \/ \E m \in 1..(n - 1) :
            /\ log[n].action # "CREATE"
            /\ log[m].id = LocalId(log[n].id) /\ log[m].new # NoContent
            /\ HardcodedPolicies(caller, log[n].action, log[m].new)
ChangesWereAllowed == \A n \in 1..Len(log) : EntryWasAllowed(n)

\* An offering that is launched was launched by the server operator at some
\* time, when only it may launch.
LaunchWasApproved ==
  LaunchOnlyByAdmin =>
    \A id \in Ids : tab[id] # NoRow /\ tab[id].content.type = "productOffering"
                      /\ tab[id].content.launched =>
      \E n \in EntriesOf(log, id) : log[n].caller = ServerOperator /\ log[n].new.launched

-----------------------------------------------------------------------------
(* What the documentation says of the program and the program does not do. *)

\* An offering becomes Launched only by the server operator ("it can only be
\* done by the admin").
LaunchOnlyByAdminSteps ==
  LaunchOnlyByAdmin =>
    \A n \in 1..Len(log) :
      (/\ log[n].action = "UPDATE" /\ log[n].new.type = "productOffering"
       /\ log[n].new.launched /\ ~log[n].old.launched)
        => log[n].caller = ServerOperator
=============================================================================
