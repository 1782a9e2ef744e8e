------------------------------ MODULE TMFProxy ------------------------------
(***************************************************************************)
(* The server as a caching proxy: the handlers in front of a remote TMF    *)
(* API server, the background goroutine that retrieves everything          *)
(* (ScheduleRetrieveAll), and the local table as the cache of the remote.  *)
(*                                                                         *)
(* A handler works in steps, with the calls of others in between: a look   *)
(* into the local table, a round trip to the remote, a write of what came  *)
(* back into the local table.  The remote also serves other clients, which *)
(* create, change and remove objects at any time; it never uses an id      *)
(* twice.  Of updated_at the model keeps whether the row is younger than   *)
(* the freshness period (service.fressness).  Decisions of the policies    *)
(* are arbitrary here (TMFPolicies has them), and so is the new content a  *)
(* POST or PATCH leads to.  The operation log is left out: TMFStore shows  *)
(* that it follows the table.                                              *)
(***************************************************************************)
EXTENDS Integers, Sequences, FiniteSets, SequencesExt

CONSTANTS
  Ids,            \* ids of objects of one public resource type
  Contents,       \* what an object may contain
  ValidContents,  \* the contents that pass Validate
  NoRow, NoContent, \* see TMFRecords
  Workers,        \* goroutines that serve requests
  Refresher,      \* the goroutine of ScheduleRetrieveAll
  PageSize,       \* objects in a page of the remote's list
  RetrieveLocalFirst, \* the feature of that name: LIST reads the cache only
  DeletesInvalid, \* RetrieveAll removes invalid objects of this type from the remote
  MaxRequests,    \* bound of the model: requests served
  MaxOthers,      \* bound of the model: changes other clients make on the remote
  MaxFaults       \* bound of the model: calls that fail without effect, lost answers

Ages == {"fresh", "stale"}
INSTANCE TMFRecords WITH Columns <- {"any"}, Times <- Ages, Callers <- {"any"}

ASSUME ProxyAssumption ==
  /\ IsFiniteSet(Ids)
  /\ ValidContents \subseteq Contents
  /\ Refresher \notin Workers
  /\ PageSize \in Nat \ {0}
  /\ RetrieveLocalFirst \in BOOLEAN /\ DeletesInvalid \in BOOLEAN
  /\ MaxRequests \in Nat /\ MaxOthers \in Nat /\ MaxFaults \in Nat

ASSUME ProxySentinels == NoContent \notin Contents /\ NoRow \notin Rows

VARIABLES
  remote,  \* remote[id]: the object on the remote server
  had,     \* had[id]: every content the remote has ever had under id
  tab,     \* the local table
  job,     \* job[p]: what process p is in the middle of
  spent    \* how much of the bounds is used

vars == <<remote, had, tab, job, spent>>

Procs == Workers \cup {Refresher}
DB == [tab |-> tab, log |-> << >>]

\* Mutant: a record made without a timestamp.
RowUndated(content) == [content |-> content, cols |-> "any", updated |-> "unset"]

\* The record for an object that the remote sent.
Row(content) == [content |-> content, cols |-> "any", updated |-> "fresh"]

Idle == [stage |-> "idle"]
Received == [id: Ids, content: Contents]
Jobs == {Idle}
  \cup [stage: {"ask"}, op: {"get", "patch", "delete"}, id: Ids]
  \cup [stage: {"store"}, op: {"get", "patch", "delete"}, id: Ids, content: Contents]
  \cup [stage: {"patch", "delete", "forget"}, id: Ids]
  \cup [stage: {"cache", "update"}, id: Ids, content: Contents]
  \cup [stage: {"page"}, offset: Nat, rest: Seq(Received), bad: SUBSET Ids]
  \cup [stage: {"purge"}, bad: SUBSET Ids]

TypeOK ==
  /\ remote \in [Ids -> Contents \cup {NoContent}]
  /\ had \in [Ids -> SUBSET Contents]
  /\ tab \in Tables
  /\ job \in [Procs -> Jobs]
  /\ spent \in [requests: 0..MaxRequests, others: 0..MaxOthers, faults: 0..MaxFaults]

Init ==
  /\ remote = [id \in Ids |-> NoContent]
  /\ had = [id \in Ids |-> {}]
  /\ tab = EmptyDB.tab
  /\ job = [p \in Procs |-> Idle]
  /\ spent = [requests |-> 0, others |-> 0, faults |-> 0]

Goto(p, next) == job' = [job EXCEPT ![p] = next]
Becomes(answer) == tab' = answer.db.tab

-----------------------------------------------------------------------------
(* The remote server and time.                                             *)

Put(id, content) ==
  /\ remote' = [remote EXCEPT ![id] = content]
  /\ had' = [had EXCEPT ![id] = @ \cup ({content} \ {NoContent})]

\* An id that the remote may give to a new object.
Unused(id) == had[id] = {}

\* Another client of the remote creates, changes or removes an object.
Other ==
  /\ spent.others < MaxOthers
  /\ spent' = [spent EXCEPT !.others = @ + 1]
  /\ \E id \in Ids, content \in Contents \cup {NoContent} :
       /\ IF Unused(id) THEN content # NoContent ELSE remote[id] # NoContent
       /\ remote[id] # content
       /\ Put(id, content)
  /\ UNCHANGED <<tab, job>>

\* A row grows older than the freshness period.
Age(id) ==
  /\ tab[id] # NoRow /\ tab[id].updated = "fresh"
  /\ tab' = [tab EXCEPT ![id].updated = "stale"]
  /\ UNCHANGED <<remote, had, job, spent>>

-----------------------------------------------------------------------------
(* GET, PATCH and DELETE begin with getLocalOrRemoteObject.                *)

\* What a handler does with the object it got: the object has to be valid and
\* the caller authorized, and a GET is then done.
Proceed(w, op, id, content) ==
  \/ Goto(w, Idle)
  \/ /\ op # "get" /\ content \in ValidContents
     /\ Goto(w, [stage |-> op, id |-> id])

\* A request arrives and its handler looks into the local table.
Look(w) ==
  /\ job[w] = Idle /\ spent.requests < MaxRequests
  /\ \E op \in {"get", "patch", "delete"}, id \in Ids :
       IF tab[id] # NoRow /\ tab[id].updated = "fresh"
       THEN Proceed(w, op, id, tab[id].content)
       ELSE Goto(w, [stage |-> "ask", op |-> op, id |-> id])
  /\ spent' = [spent EXCEPT !.requests = @ + 1]
  /\ UNCHANGED <<remote, had, tab>>

\* getRemoteObject: a 404 ends the request, and the local table is not told.
Ask(w) ==
  /\ job[w].stage = "ask"
  /\ IF remote[job[w].id] = NoContent
     THEN Goto(w, Idle)
     ELSE Goto(w, [stage |-> "store", op |-> job[w].op, id |-> job[w].id,
                   content |-> remote[job[w].id]])
  /\ UNCHANGED <<remote, had, tab, spent>>

\* CreateObject, whose error (a stale row is there) is only logged.
Store(w) ==
  /\ job[w].stage = "store"
  /\ Becomes(CreateObject(DB, job[w].id, Row(job[w].content), "any"))
  /\ Proceed(w, job[w].op, job[w].id, job[w].content)
  /\ UNCHANGED <<remote, had, spent>>

-----------------------------------------------------------------------------
(* PATCH: updateRemoteOrLocalObject.                                       *)

\* TMFPatch: the remote merges the patch.  When it refuses, or answers with
\* an object that is not valid, the request ends with 500.
Patch(w) ==
  /\ job[w].stage = "patch"
  /\ LET id == job[w].id IN
     \/ Goto(w, Idle) /\ UNCHANGED <<remote, had>>
     \/ /\ remote[id] # NoContent
        /\ \E content \in Contents :
             /\ Put(id, content)
             /\ IF content \in ValidContents
                THEN Goto(w, [stage |-> "update", id |-> id, content |-> content])
                ELSE Goto(w, Idle)
  /\ UNCHANGED <<tab, spent>>

\* UpdateObject: the local row becomes what the remote answered; when there is
\* no row the client gets 500 for a change that was made.
Update(w) ==
  /\ job[w].stage = "update"
  /\ Becomes(UpdateObject(DB, job[w].id, Row(job[w].content), "any"))
  /\ Goto(w, Idle)
  /\ UNCHANGED <<remote, had, spent>>

-----------------------------------------------------------------------------
(* DELETE: DeleteTMFObject.                                                *)

\* Mutant: whatever the remote answers, the local row is removed.
DeleteAnyway(w) ==
  /\ job[w].stage = "delete"
  /\ \/ remote[job[w].id] # NoContent /\ Put(job[w].id, NoContent)
     \/ UNCHANGED <<remote, had>>
  /\ Goto(w, [stage |-> "forget", id |-> job[w].id])
  /\ UNCHANGED <<tab, spent>>

\* DELETE on the remote; when it refuses or knows no such object (status 300
\* or above) its answer is returned and the local row stays.
Delete(w) ==
  /\ job[w].stage = "delete"
  /\ \/ /\ remote[job[w].id] # NoContent
        /\ Put(job[w].id, NoContent)
        /\ Goto(w, [stage |-> "forget", id |-> job[w].id])
     \/ Goto(w, Idle) /\ UNCHANGED <<remote, had>>
  /\ UNCHANGED <<tab, spent>>

Forget(w) ==
  /\ job[w].stage = "forget"
  /\ Becomes(DeleteObject(DB, job[w].id, "any"))
  /\ Goto(w, Idle)
  /\ UNCHANGED <<remote, had, spent>>

-----------------------------------------------------------------------------
(* POST: createRemoteOrLocalObject.                                        *)

\* TMFPost: the remote creates the object and chooses its id; an answer that
\* is not valid ends the request.
Post(w) ==
  /\ job[w] = Idle /\ spent.requests < MaxRequests
  /\ spent' = [spent EXCEPT !.requests = @ + 1]
  /\ \E id \in Ids, content \in Contents :
       /\ Unused(id)
       /\ Put(id, content)
       /\ IF content \in ValidContents
          THEN Goto(w, [stage |-> "cache", id |-> id, content |-> content])
          ELSE Goto(w, Idle)
  /\ UNCHANGED tab

Cache(w) ==
  /\ job[w].stage = "cache"
  /\ Becomes(CreateObject(DB, job[w].id, Row(job[w].content), "any"))
  /\ Goto(w, Idle)
  /\ UNCHANGED <<remote, had, spent>>

-----------------------------------------------------------------------------
(* LIST (listRemoteObjects) and RetrieveAll (listRemoteObjectsRobust).     *)

\* The remote lists its objects in some fixed order.
Order == SetToSeq(Ids)
Listing ==
  LET upTo[n \in 0..Cardinality(Ids)] ==
        IF n = 0 THEN << >>
        ELSE IF remote[Order[n]] = NoContent THEN upTo[n - 1]
        ELSE Append(upTo[n - 1], [id |-> Order[n], content |-> remote[Order[n]]])
  IN upTo[Cardinality(Ids)]

Page(offset, rest, bad) == [stage |-> "page", offset |-> offset, rest |-> rest, bad |-> bad]

\* A page is requested; an empty one is the last.
Fetch(p, offset, bad) ==
  LET page == SubSeq(Listing, offset + 1, Min({offset + PageSize, Len(Listing)})) IN
  IF page # << >> THEN Goto(p, Page(offset + PageSize, page, bad))
  ELSE Goto(p, IF p = Refresher THEN [stage |-> "purge", bad |-> bad] ELSE Idle)

\* LIST of a client begins, unless it is answered from the local table.
List(w) ==
  /\ ~RetrieveLocalFirst
  /\ job[w] = Idle /\ spent.requests < MaxRequests
  /\ spent' = [spent EXCEPT !.requests = @ + 1]
  /\ Fetch(w, 0, {})
  /\ UNCHANGED <<remote, had, tab>>

\* RetrieveAll begins, at the start of the process and every 15 minutes.
Retrieve ==
  /\ job[Refresher] = Idle
  /\ Fetch(Refresher, 0, {})
  /\ UNCHANGED <<remote, had, tab, spent>>

NextPage(p) ==
  /\ job[p].stage = "page" /\ job[p].rest = << >>
  /\ Fetch(p, job[p].offset, job[p].bad)
  /\ UNCHANGED <<remote, had, tab, spent>>

\* Mutant: the objects of a page are inserted, and not updated.
SaveNewOnly(p) ==
  /\ job[p].stage = "page" /\ job[p].rest # << >>
  /\ LET got == Head(job[p].rest)
         after == [job[p] EXCEPT !.rest = Tail(@)]
     IN IF got.content \notin ValidContents
        THEN tab' = tab /\ Goto(p, [after EXCEPT !.bad = @ \cup {got.id}])
        ELSE /\ Becomes(CreateObject(DB, got.id, Row(got.content), "any"))
             /\ \/ Goto(p, after)
                \/ p # Refresher /\ Goto(p, Idle)
  /\ UNCHANGED <<remote, had, spent>>

\* One object of a page: an invalid one is skipped and remembered, a valid one
\* upserted, whoever asked for the list.  A client's list ends early when its
\* limit is reached; RetrieveAll's limit is above what the model holds.
Save(p) ==
  /\ job[p].stage = "page" /\ job[p].rest # << >>
  /\ LET got == Head(job[p].rest)
         after == [job[p] EXCEPT !.rest = Tail(@)]
     IN IF got.content \notin ValidContents
        THEN tab' = tab /\ Goto(p, [after EXCEPT !.bad = @ \cup {got.id}])
        ELSE /\ Becomes(UpsertObject(DB, got.id, Row(got.content), "any", TRUE))
             /\ \/ Goto(p, after)
                \/ p # Refresher /\ Goto(p, Idle)
  /\ UNCHANGED <<remote, had, spent>>

\* RetrieveAll goes on to the invalid objects, and removes them from the remote
\* (which may refuse) unless the resource is category or catalog.
Purge ==
  /\ job[Refresher].stage = "purge"
  /\ LET bad == job[Refresher].bad IN
     IF ~DeletesInvalid \/ bad = {}
     THEN Goto(Refresher, Idle) /\ UNCHANGED <<remote, had>>
     ELSE \E id \in bad :
            /\ Goto(Refresher, [job[Refresher] EXCEPT !.bad = @ \ {id}])
            /\ \/ remote[id] # NoContent /\ Put(id, NoContent)
               \/ UNCHANGED <<remote, had>>
  /\ UNCHANGED <<tab, spent>>

-----------------------------------------------------------------------------
(* Failures.                                                               *)

Fault ==
  /\ spent.faults < MaxFaults
  /\ spent' = [spent EXCEPT !.faults = @ + 1]

\* Mutant: a patch whose answer is lost is assumed to have been applied.
PatchAssumed(w) ==
  /\ Fault
  /\ job[w].stage = "patch"
  /\ \E content \in ValidContents :
       Goto(w, [stage |-> "update", id |-> job[w].id, content |-> content])
  /\ UNCHANGED <<remote, had, tab>>

\* The remote changes its object but its answer is lost: the request ends with
\* an error (the same calls may fail without any effect, see Fail).
AnswerLost(w) ==
  /\ Fault
  /\ \/ /\ job[w].stage = "patch" /\ remote[job[w].id] # NoContent
        /\ \E content \in Contents : Put(job[w].id, content)
     \/ /\ job[w].stage = "delete" /\ remote[job[w].id] # NoContent
        /\ Put(job[w].id, NoContent)
  /\ Goto(w, Idle)
  /\ UNCHANGED tab

\* Mutant: an object that could not be saved is taken for an invalid one.
FailMarks(p) ==
  /\ Fault
  /\ job[p] # Idle /\ job[p].stage # "purge"
  /\ \/ /\ job[p].stage = "page" /\ job[p].rest # << >>
        /\ Goto(p, [job[p] EXCEPT !.rest = Tail(@), !.bad = @ \cup {Head(job[p].rest).id}])
     \/ /\ job[p].stage = "store"
        /\ Proceed(p, job[p].op, job[p].id, job[p].content)
     \/ /\ job[p].stage # "store" /\ (job[p].stage = "page" => job[p].rest = << >>)
        /\ Goto(p, Idle)
  /\ UNCHANGED <<remote, had, tab>>

\* The call a process is about to make fails.  In the middle of a page only
\* the object at hand is lost, and an object from the remote that could not be
\* stored is used all the same; any other failure ends the request or the run
\* of RetrieveAll for this resource.
Fail(p) ==
  /\ Fault
  /\ job[p] # Idle /\ job[p].stage # "purge"
  /\ \/ /\ job[p].stage = "page" /\ job[p].rest # << >>
        /\ Goto(p, [job[p] EXCEPT !.rest = Tail(@)])
     \/ /\ job[p].stage = "store"
        /\ Proceed(p, job[p].op, job[p].id, job[p].content)
     \/ /\ job[p].stage # "store" /\ (job[p].stage = "page" => job[p].rest = << >>)
        /\ Goto(p, Idle)
  /\ UNCHANGED <<remote, had, tab>>

\* The process ends and starts again.  One cause is in RetrieveAll itself: when
\* the connection fails in a purge, it dereferences the nil response.
Restart ==
  /\ Fault
  /\ \E p \in Procs : job[p] # Idle
  /\ job' = [p \in Procs |-> Idle]
  /\ UNCHANGED <<remote, had, tab>>

WorkerStep(w) ==
  \/ Ask(w) \/ Store(w) \/ Patch(w) \/ Update(w) \/ Delete(w) \/ Forget(w)
  \/ Cache(w) \/ NextPage(w) \/ Save(w)
RefresherStep == Retrieve \/ NextPage(Refresher) \/ Save(Refresher) \/ Purge

Next ==
  \/ Other
  \/ \E id \in Ids : Age(id)
  \/ \E w \in Workers : Look(w) \/ Post(w) \/ List(w) \/ WorkerStep(w) \/ AnswerLost(w)
  \/ RefresherStep
  \/ \E p \in Procs : Fail(p)
  \/ Restart

Spec == Init /\ [][Next]_vars

\* Goroutines go on, and time too; no client has to send a request, and nobody
\* has to change the remote.
FairSpec ==
  /\ Spec
  /\ \A w \in Workers : WF_vars(WorkerStep(w))
  /\ WF_vars(RefresherStep)
  /\ \A id \in Ids : WF_vars(Age(id))

-----------------------------------------------------------------------------
(* Properties.                                                             *)

\* The cache invents nothing: what it holds the remote had at some time,
\* whatever answers were lost or came late.
NothingInvented ==
  \A id \in Ids : tab[id] # NoRow => tab[id].content \in had[id]

\* A row is dropped from the cache only when its object is gone for good.
DroppedOnlyIfGone ==
  [][\A id \in Ids : tab[id] # NoRow /\ tab'[id] = NoRow => remote[id] = NoContent]_vars

\* Once the remote is left alone the cache has every valid object as the remote
\* has it, for ever: late answers that were written in the wrong order are
\* corrected by the next RetrieveAll.
CacheConverges ==
  <>[](\A id \in Ids : remote[id] \in ValidContents
                         => tab[id] # NoRow /\ tab[id].content = remote[id])

\* The purge removes from the remote only what was invalid at some time; by then it
\* may have been repaired, since nobody looks again.
PurgedWereInvalid ==
  [][\A id \in Ids :
       (/\ job[Refresher].stage = "purge" /\ id \in job[Refresher].bad
        /\ job'[Refresher] = [job[Refresher] EXCEPT !.bad = @ \ {id}]
        /\ remote[id] # NoContent /\ remote'[id] = NoContent)
         => had[id] \ ValidContents # {}]_vars
=============================================================================
