------------------------------- MODULE TMFHub -------------------------------
(***************************************************************************)
(* The notification manager: subscriptions kept in memory (memoryStore,    *)
(* whose operations a mutex makes atomic), PublishEvent, which hands the   *)
(* event to one goroutine for every matching subscription, and Deliver,    *)
(* which posts it to the subscriber's callback up to three times.          *)
(*                                                                         *)
(* The n-th event published is the number n.  The callbacks are the        *)
(* environment: a post may not arrive, arrive and be refused, or arrive    *)
(* and be accepted while the answer is lost (the client waits 5 seconds).  *)
(***************************************************************************)
EXTENDS Integers, Sequences, FiniteSets, Bags

CONSTANTS
  SubIds,      \* the uuids of subscriptions, numbers in the order they are given
  Families,    \* API families
  EventTypes,  \* event types
  TypeLists,   \* the lists of event types that clients subscribe to
  MaxEvents,   \* bound of the model: events published
  MaxRestarts, \* bound of the model
  MaxFailures  \* bound of the model: posts that fail or whose answer is lost

ASSUME HubInput == SubIds \subseteq Nat /\ TypeLists \subseteq SUBSET EventTypes
ASSUME HubBounds == MaxEvents \in Nat /\ MaxRestarts \in Nat /\ MaxFailures \in Nat

VARIABLES
  store,      \* the subscriptions, each [id, family, types]
  tasks,      \* the goroutines in Deliver, each [sub, event, attempt]
  events,     \* events[n]: family and type of the n-th event
  life,       \* life[id]: the subscription id was given to, and when it was there
  received,   \* the bag of <<id, n>> that reached a callback and was accepted there
  failures,   \* posts that failed or whose answer was lost, so far
  lost,       \* some answer was lost
  restarts    \* how often the process started again

vars == <<store, tasks, events, life, received, failures, lost, restarts>>

Event == [family: Families, type: EventTypes]
\* types is the list of the body, empty when the client wants every type.
Subscription == [id: SubIds, family: Families, types: TypeLists]

\* The life of a subscription: it was added when from events had been
\* published and removed when to had been; Open until it is removed.
Open == MaxEvents + 1
Unborn == [from |-> Open]
Lives == {Unborn} \cup [sub: Subscription, from: 0..MaxEvents, to: 0..Open]

TypeOK ==
  /\ store \subseteq Subscription
  /\ tasks \subseteq [sub: Subscription, event: 1..MaxEvents, attempt: 0..2]
  /\ events \in Seq(Event) /\ Len(events) <= MaxEvents
  /\ life \in [SubIds -> Lives]
  /\ \A x \in BagToSet(received) : x \in SubIds \X (1..MaxEvents)
  /\ failures \in 0..MaxFailures /\ lost \in BOOLEAN /\ restarts \in 0..MaxRestarts

Init ==
  /\ store = {} /\ tasks = {} /\ events = << >>
  /\ life = [id \in SubIds |-> Unborn]
  /\ received = EmptyBag
  /\ failures = 0 /\ lost = FALSE /\ restarts = 0

-----------------------------------------------------------------------------
(* The operations of the manager.                                          *)

\* CreateHubSubscription: a new uuid, a callback, a list of types.
Subscribe ==
  \E s \in Subscription :
    /\ life[s.id] = Unborn /\ \A id \in SubIds : id < s.id => life[id] # Unborn
    /\ store' = store \cup {s}
    /\ life' = [life EXCEPT ![s.id] = [sub |-> s, from |-> Len(events), to |-> Open]]
    /\ UNCHANGED <<tasks, events, received, failures, lost, restarts>>

\* DeleteHubSubscription, with the family of the path; any other pair of family
\* and id is a 404.
Unsubscribe ==
  \E s \in store :
    /\ store' = store \ {s}
    /\ life' = [life EXCEPT ![s.id].to = Len(events)]
    /\ UNCHANGED <<tasks, events, received, failures, lost, restarts>>

\* Mutant: the type of the event is not looked at.
MatchesFamily(s, e) == s.family = e.family

\* The filter of PublishEvent.
Matches(s, e) == s.family = e.family /\ (s.types = {} \/ e.type \in s.types)

\* PublishEvent: the subscriptions of this moment, a goroutine for each match.
Publish ==
  /\ Len(events) < MaxEvents
  /\ \E e \in Event :
       /\ events' = Append(events, e)
       /\ tasks' = tasks \cup {[sub |-> s, event |-> Len(events) + 1, attempt |-> 0] :
                                 s \in {t \in store : Matches(t, e)}}
  /\ UNCHANGED <<store, life, received, failures, lost, restarts>>

-----------------------------------------------------------------------------
(* Deliver, one attempt at a time.                                         *)

Arrives(t) == received' = received (+) SetToBag({<<t.sub.id, t.event>>})

\* Mutants: an accepted post is followed by the next attempt all the same;
\* the callback is tried twice; it is tried four times.
DeliveredGoesOn(t) ==
  /\ Arrives(t)
  /\ tasks' = (tasks \ {t}) \cup
              (IF t.attempt = 2 THEN {} ELSE {[t EXCEPT !.attempt = @ + 1]})
  /\ UNCHANGED <<store, events, life, failures, lost, restarts>>
RetryOnce(t) ==
  tasks' = (tasks \ {t}) \cup
           (IF t.attempt = 1 THEN {} ELSE {[t EXCEPT !.attempt = @ + 1]})
RetryThrice(t) ==
  tasks' = (tasks \ {t}) \cup
           (IF t.attempt = 3 THEN {} ELSE {[t EXCEPT !.attempt = @ + 1]})

\* The callback accepts with 2xx, and Deliver returns.
Delivered(t) ==
  /\ Arrives(t)
  /\ tasks' = tasks \ {t}
  /\ UNCHANGED <<store, events, life, failures, lost, restarts>>

\* After a failed attempt Deliver sleeps and tries again; the third is the last.
Retry(t) ==
  tasks' = (tasks \ {t}) \cup
           (IF t.attempt = 2 THEN {} ELSE {[t EXCEPT !.attempt = @ + 1]})

\* The post does not arrive, or is answered with another status.
PostFails(t) ==
  /\ failures < MaxFailures /\ failures' = failures + 1
  /\ Retry(t)
  /\ UNCHANGED <<store, events, life, received, lost, restarts>>

\* The callback accepts, but the client has stopped waiting.
AnswerLost(t) ==
  /\ failures < MaxFailures /\ failures' = failures + 1
  /\ Arrives(t)
  /\ lost' = TRUE
  /\ Retry(t)
  /\ UNCHANGED <<store, events, life, restarts>>

\* The process ends: store and goroutines were in its memory.
Restart ==
  /\ restarts < MaxRestarts /\ restarts' = restarts + 1
  /\ store' = {} /\ tasks' = {}
  /\ life' = [id \in SubIds |-> IF \E s \in store : s.id = id
                                THEN [life[id] EXCEPT !.to = Len(events)] ELSE life[id]]
  /\ UNCHANGED <<events, received, failures, lost>>

Next ==
  \/ Subscribe \/ Unsubscribe \/ Publish
  \/ \E t \in tasks : Delivered(t) \/ PostFails(t) \/ AnswerLost(t)
  \/ Restart

Spec == Init /\ [][Next]_vars

\* The delivery of event n to subscription id.
Attempts(id, n) ==
  \E t \in tasks : /\ t.sub.id = id /\ t.event = n
                   /\ Delivered(t) \/ PostFails(t) \/ AnswerLost(t)

\* A goroutine in Deliver runs on: a post ends after 5 seconds at the latest.
FairSpec == Spec /\ \A id \in SubIds, n \in 1..MaxEvents : WF_vars(Attempts(id, n))

-----------------------------------------------------------------------------
(* Properties.                                                             *)

\* A callback gets only events published while its subscription was there, of
\* its family and of a type it asked for: whatever is delivered late, an
\* unsubscribed callback hears of nothing newer.
OnlyWhatWasAskedFor ==
  \A x \in BagToSet(received) \cup {<<t.sub.id, t.event>> : t \in tasks} :
    LET l == life[x[1]]
        e == events[x[2]]
    IN /\ l.from < x[2] /\ x[2] <= l.to
       /\ e.family = l.sub.family
       /\ l.sub.types = {} \/ e.type \in l.sub.types

\* A callback gets an event twice only after an answer was lost, and never
\* more than three times.
DuplicatesAreExplained ==
  \A x \in BagToSet(received) : received[x] <= IF lost THEN 3 ELSE 1

\* Three attempts mask fewer than three failures: the event arrives, unless
\* there were more or the process is restarted.
RetriesMaskFailures ==
  \A id \in SubIds, n \in 1..MaxEvents :
    (\E t \in tasks : t.sub.id = id /\ t.event = n)
      ~> (BagIn(<<id, n>>, received) \/ failures >= 3 \/ restarts > 0)
=============================================================================
