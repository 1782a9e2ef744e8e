---------------------------- MODULE TMFHubProofs ----------------------------
(***************************************************************************)
(* The safety properties of TMFHub, proved for any numbers of              *)
(* subscriptions, events, restarts and failures.                           *)
(***************************************************************************)
EXTENDS TMFHub, TLAPS

-----------------------------------------------------------------------------
(* The inductive invariant.                                                *)

\* Event x[2] was published while subscription x[1] was there, and matches it.
WasAskedFor(x) ==
  LET l == life[x[1]] IN
  /\ x[2] <= Len(events)
  /\ l # Unborn /\ l.from < x[2] /\ x[2] <= l.to
  /\ Matches(l.sub, events[x[2]])

Copies(x) == IF x \in DOMAIN received THEN received[x] ELSE 0
Target(t) == <<t.sub.id, t.event>>

\* A subscription of the store is the one its id was given to, and still there.
StoreInv ==
  \A s \in store : life[s.id] \in [sub: {s}, from: 0..Len(events), to: {Open}]

\* There is one goroutine for a subscription and an event.  Before its attempt k
\* (from 0) the event has arrived at most k times, and not at all unless an answer
\* was lost.
TasksInv ==
  /\ \A t \in tasks :
       /\ life[t.sub.id].sub = t.sub
       /\ WasAskedFor(Target(t))
       /\ Copies(Target(t)) <= IF lost THEN t.attempt ELSE 0
  /\ \A t, u \in tasks : Target(t) = Target(u) => t = u

\* Whatever has arrived was asked for, and an event arrives once, or three times at
\* most when answers are lost.
ReceivedInv ==
  \A x \in DOMAIN received :
    /\ x \in SubIds \X (1..MaxEvents) /\ received[x] \in Nat \ {0}
    /\ WasAskedFor(x)
    /\ received[x] <= IF lost THEN 3 ELSE 1

IInv == TypeOK /\ StoreInv /\ TasksInv /\ ReceivedInv

-----------------------------------------------------------------------------
(* Facts the steps use.                                                    *)

Goroutine == [sub: Subscription, event: 1..MaxEvents, attempt: 0..2]

\* One more copy of x.
LEMMA OneMore ==
  ASSUME NEW x, received' = received (+) SetToBag({x})
  PROVE  /\ DOMAIN received' = DOMAIN received \cup {x}
         /\ received'[x] = Copies(x) + 1
         /\ \A y \in DOMAIN received \ {x} : received'[y] = received[y] + 0
<1>1. DOMAIN SetToBag({x}) = {x} /\ SetToBag({x})[x] = 1
  BY DEF SetToBag
<1> DEFINE one == SetToBag({x})
<1>2. received' = [e \in (DOMAIN received) \cup (DOMAIN one) |->
                     (IF e \in DOMAIN received THEN received[e] ELSE 0)
                     + (IF e \in DOMAIN one THEN one[e] ELSE 0)]
  BY DEF (+)
<1> HIDE DEF one
<1>3. DOMAIN one = {x} /\ one[x] = 1
  BY <1>1 DEF one
<1> QED
  BY <1>2, <1>3 DEF Copies

LEMMA Numbers ==
  ASSUME TypeOK
  PROVE  /\ MaxEvents \in Nat /\ Open \in Nat /\ Open > MaxEvents
         /\ Len(events) \in Nat /\ Len(events) <= MaxEvents
         /\ \A t \in tasks : /\ t.sub \in Subscription /\ t.sub.id \in SubIds
                            /\ t.event \in 1..MaxEvents /\ t.attempt \in 0..2
         /\ \A s \in store : s \in Subscription /\ s.id \in SubIds
<1>1. MaxEvents \in Nat /\ Open \in Nat /\ Open > MaxEvents
  BY HubBounds DEF Open
<1> QED
  BY <1>1 DEF TypeOK, Subscription

\* A goroutine makes another attempt, or gives up after the third.
LEMMA RetryType ==
  ASSUME TypeOK, NEW t \in tasks, Retry(t)
  PROVE  /\ tasks' \subseteq Goroutine
         /\ \A u \in tasks' : u \in tasks \ {t} \/
              (/\ u.sub = t.sub /\ u.event = t.event /\ u.attempt = t.attempt + 1
               /\ Target(u) = Target(t))
<1>1. tasks \subseteq Goroutine /\ t \in Goroutine
  BY DEF TypeOK, Goroutine
<1>2. CASE t.attempt = 2
  BY <1>1, <1>2 DEF Retry
<1>3. CASE t.attempt # 2
  <2> DEFINE u == [t EXCEPT !.attempt = @ + 1]
  <2>1. t.attempt + 1 \in 0..2
    BY <1>1, <1>3 DEF Goroutine
  <2>2. /\ u \in Goroutine /\ u.sub = t.sub /\ u.event = t.event
        /\ u.attempt = t.attempt + 1
    BY <1>1, <2>1 DEF Goroutine
  <2>3. tasks' = (tasks \ {t}) \cup {u}
    BY <1>3 DEF Retry
  <2> HIDE DEF u
  <2> QED
    BY <1>1, <2>2, <2>3 DEF Target
<1> QED
  BY <1>2, <1>3

-----------------------------------------------------------------------------
(* Types.                                                                  *)

LEMMA ArrivesType ==
  ASSUME TypeOK, NEW t \in tasks, Arrives(t)
  PROVE  \A x \in BagToSet(received') : x \in SubIds \X (1..MaxEvents)
<1>1. Target(t) \in SubIds \X (1..MaxEvents)
  BY Numbers DEF Target
<1>2. DOMAIN received' = DOMAIN received \cup {Target(t)}
  BY OneMore DEF Arrives, Target
<1> QED
  BY <1>1, <1>2 DEF TypeOK, BagToSet

LEMMA InitType == Init => TypeOK
<1> SUFFICES ASSUME Init PROVE TypeOK
  OBVIOUS
<1>1. DOMAIN received = {}
  BY DEF Init, EmptyBag, SetToBag
<1>2. failures \in 0..MaxFailures /\ restarts \in 0..MaxRestarts /\ Len(events) <= MaxEvents
  BY HubBounds DEF Init
<1>3. \A x \in BagToSet(received) : x \in SubIds \X (1..MaxEvents)
  BY <1>1 DEF BagToSet
<1>4. life \in [SubIds -> Lives] /\ events \in Seq(Event)
  BY DEF Init, Lives
<1> QED
  BY <1>2, <1>3, <1>4 DEF Init, TypeOK

LEMMA NextType ==
  ASSUME TypeOK, StoreInv, [Next]_vars
  PROVE  TypeOK'
<1>0. /\ Len(events) \in 0..MaxEvents /\ Len(events) \in 0..Open /\ Open \in 0..Open
      /\ life \in [SubIds -> Lives]
  BY Numbers DEF TypeOK
<1>1. CASE Subscribe
  <2> PICK s \in Subscription :
        /\ store' = store \cup {s}
        /\ life' = [life EXCEPT ![s.id] = [sub |-> s, from |-> Len(events), to |-> Open]]
        /\ UNCHANGED <<tasks, events, received, failures, lost, restarts>>
    BY <1>1 DEF Subscribe
  <2>1. [sub |-> s, from |-> Len(events), to |-> Open] \in Lives
    BY <1>0 DEF Lives
  <2> QED
    BY <1>0, <2>1 DEF TypeOK, BagToSet
<1>2. ASSUME NEW id \in SubIds, NEW s \in store, s.id = id
      PROVE  [life[id] EXCEPT !.to = Len(events)] \in Lives
  <2>1. life[id] \in [sub: {s}, from: 0..Len(events), to: {Open}]
    BY <1>2 DEF StoreInv
  <2>2. life[id] \in [sub: Subscription, from: 0..MaxEvents, to: 0..Open]
    BY <1>0, <2>1, Numbers DEF TypeOK
  <2> QED
    BY <1>0, <2>2 DEF Lives
<1>3. CASE Unsubscribe
  <2> PICK s \in store :
        /\ store' = store \ {s}
        /\ life' = [life EXCEPT ![s.id].to = Len(events)]
        /\ UNCHANGED <<tasks, events, received, failures, lost, restarts>>
    BY <1>3 DEF Unsubscribe
  <2>1. [life[s.id] EXCEPT !.to = Len(events)] \in Lives
    BY <1>2, Numbers
  <2> QED
    BY <1>0, <2>1 DEF TypeOK, BagToSet
<1>4. CASE Publish
  <2> PICK e \in Event :
        /\ events' = Append(events, e)
        /\ tasks' = tasks \cup {[sub |-> s, event |-> Len(events) + 1, attempt |-> 0] :
                                  s \in {t \in store : Matches(t, e)}}
    BY <1>4 DEF Publish
  <2>1. Len(events) + 1 \in 1..MaxEvents /\ events \in Seq(Event)
    <3>1. Len(events) < MaxEvents /\ Len(events) \in Nat /\ MaxEvents \in Nat
      BY <1>4, Numbers DEF Publish
    <3>2. Len(events) + 1 \in 1..MaxEvents
      BY <3>1
    <3> QED
      BY <3>2 DEF TypeOK
  <2>2. events' \in Seq(Event) /\ Len(events') = Len(events) + 1
    BY <2>1
  <2>3. tasks' \subseteq Goroutine
    BY <2>1 DEF TypeOK, Goroutine
  <2> QED
    BY <1>4, <2>1, <2>2, <2>3 DEF Publish, TypeOK, BagToSet, Goroutine
<1>5. ASSUME NEW t \in tasks, Delivered(t) PROVE TypeOK'
  BY <1>5, ArrivesType DEF Delivered, TypeOK
<1>6. failures < MaxFailures => failures + 1 \in 0..MaxFailures
  BY HubBounds DEF TypeOK
<1>7. ASSUME NEW t \in tasks, PostFails(t) PROVE TypeOK'
  BY <1>6, <1>7, RetryType DEF PostFails, TypeOK, Goroutine, BagToSet
<1>8. ASSUME NEW t \in tasks, AnswerLost(t) PROVE TypeOK'
  BY <1>6, <1>8, RetryType, ArrivesType DEF AnswerLost, TypeOK, Goroutine
<1>9. CASE Restart
  <2>1. restarts + 1 \in 0..MaxRestarts
    BY <1>9, HubBounds DEF Restart, TypeOK
  <2>2. life' \in [SubIds -> Lives]
    BY <1>0, <1>2, <1>9 DEF Restart
  <2> QED
    BY <1>9, <2>1, <2>2 DEF Restart, TypeOK, BagToSet
<1>10. CASE UNCHANGED vars
  BY <1>10 DEF vars, TypeOK, BagToSet
<1> QED
  BY <1>1, <1>3, <1>4, <1>5, <1>7, <1>8, <1>9, <1>10 DEF Next

-----------------------------------------------------------------------------
(* The steps.  Each keeps the three parts of the invariant.                *)

\* What an action keeps that adds no goroutine, event or copy.
LEMMA SameTasks ==
  ASSUME TypeOK, TasksInv, ReceivedInv, tasks' \subseteq tasks,
         UNCHANGED <<events, received, lost>>,
         \A x \in SubIds \X (1..MaxEvents) :
           WasAskedFor(x) => WasAskedFor(x)' /\ life'[x[1]].sub = life[x[1]].sub
  PROVE  TasksInv' /\ ReceivedInv'
<1>1. \A t \in tasks : Target(t) \in SubIds \X (1..MaxEvents) /\ Target(t)[1] = t.sub.id
  BY Numbers DEF Target
<1>2. TasksInv'
  BY <1>1 DEF TasksInv, Copies
<1>3. ReceivedInv'
  BY DEF ReceivedInv
<1> QED
  BY <1>2, <1>3

\* A subscription of the store has been born, and there is one for its id.
LEMMA InStore ==
  ASSUME TypeOK, StoreInv, NEW s \in store
  PROVE  /\ life[s.id].sub = s /\ life[s.id].from \in 0..Len(events) /\ life[s.id].to = Open
         /\ life[s.id] = [sub |-> s, from |-> life[s.id].from, to |-> Open]
         /\ life[s.id] # Unborn
<1>1. life[s.id] \in [sub: {s}, from: 0..Len(events), to: {Open}]
  BY DEF StoreInv
<1>2. life[s.id].from # Open
  BY <1>1, Numbers
<1> QED
  BY <1>1, <1>2 DEF Unborn

LEMMA SubscribeKeeps ==
  ASSUME IInv, Subscribe
  PROVE  StoreInv' /\ TasksInv' /\ ReceivedInv'
<1> PICK s \in Subscription :
      /\ life[s.id] = Unborn
      /\ store' = store \cup {s}
      /\ life' = [life EXCEPT ![s.id] = [sub |-> s, from |-> Len(events), to |-> Open]]
      /\ UNCHANGED <<tasks, events, received, failures, lost, restarts>>
  BY DEF Subscribe
<1>1. /\ s.id \in SubIds /\ life \in [SubIds -> Lives] /\ TypeOK
      /\ Len(events) \in 0..Len(events)
  BY Numbers DEF IInv, TypeOK, Subscription
<1>2. /\ life'[s.id] = [sub |-> s, from |-> Len(events), to |-> Open]
      /\ \A id \in SubIds \ {s.id} : life'[id] = life[id]
  BY <1>1
<1>3. StoreInv'
  <2> SUFFICES ASSUME NEW u \in store'
               PROVE  life'[u.id] \in [sub: {u}, from: 0..Len(events), to: {Open}]
    BY DEF StoreInv
  <2>1. CASE u = s
    BY <1>1, <1>2, <2>1
  <2>2. CASE u \in store
    <3>1. u.id # s.id /\ u.id \in SubIds
      BY <1>1, <2>2, InStore, Numbers DEF IInv
    <3> QED
      BY <1>2, <2>2, <3>1 DEF IInv, StoreInv
  <2> QED
    BY <2>1, <2>2
<1>4. \A x \in SubIds \X (1..MaxEvents) :
        WasAskedFor(x) => WasAskedFor(x)' /\ life'[x[1]].sub = life[x[1]].sub
  <2> SUFFICES ASSUME NEW x \in SubIds \X (1..MaxEvents), WasAskedFor(x)
               PROVE  WasAskedFor(x)' /\ life'[x[1]].sub = life[x[1]].sub
    OBVIOUS
  <2>1. life'[x[1]] = life[x[1]]
    BY <1>2 DEF WasAskedFor
  <2> QED
    BY <2>1 DEF WasAskedFor, Matches
<1> QED
  BY <1>1, <1>3, <1>4, SameTasks DEF IInv

\* The end of a subscription of the store: what was asked for was published before.
LEMMA EndOfLife ==
  ASSUME TypeOK, StoreInv, UNCHANGED events,
         \A id \in SubIds : \/ life'[id] = life[id]
                           \/ /\ \E s \in store : s.id = id
                              /\ life'[id] = [life[id] EXCEPT !.to = Len(events)]
  PROVE  \A x \in SubIds \X (1..MaxEvents) :
           WasAskedFor(x) => WasAskedFor(x)' /\ life'[x[1]].sub = life[x[1]].sub
<1> SUFFICES ASSUME NEW x \in SubIds \X (1..MaxEvents), WasAskedFor(x)
             PROVE  WasAskedFor(x)' /\ life'[x[1]].sub = life[x[1]].sub
  OBVIOUS
<1>1. CASE life'[x[1]] = life[x[1]]
  BY <1>1 DEF WasAskedFor, Matches
<1>2. ASSUME NEW s \in store, s.id = x[1],
             life'[x[1]] = [life[x[1]] EXCEPT !.to = Len(events)]
      PROVE  WasAskedFor(x)' /\ life'[x[1]].sub = life[x[1]].sub
  <2>1. life[x[1]] = [sub |-> s, from |-> life[x[1]].from, to |-> Open]
    BY <1>2, InStore
  <2> DEFINE from == life[x[1]].from
  <2> HIDE DEF from
  <2>2. life[x[1]] = [sub |-> s, from |-> from, to |-> Open]
    BY <2>1 DEF from
  <2>3. /\ life'[x[1]].sub = life[x[1]].sub /\ life'[x[1]].from = life[x[1]].from
        /\ life'[x[1]].to = Len(events) /\ life'[x[1]] # Unborn
    BY <1>2, <2>2 DEF Unborn
  <2> QED
    BY <2>3, Numbers DEF WasAskedFor, Matches
<1> QED
  BY <1>1, <1>2

LEMMA UnsubscribeKeeps ==
  ASSUME IInv, Unsubscribe
  PROVE  StoreInv' /\ TasksInv' /\ ReceivedInv'
<1> PICK s \in store :
      /\ store' = store \ {s}
      /\ life' = [life EXCEPT ![s.id].to = Len(events)]
      /\ UNCHANGED <<tasks, events, received, failures, lost, restarts>>
  BY DEF Unsubscribe
<1>1. life \in [SubIds -> Lives] /\ TypeOK /\ s.id \in SubIds
  BY Numbers DEF IInv, TypeOK
<1>2. /\ life'[s.id] = [life[s.id] EXCEPT !.to = Len(events)]
      /\ \A id \in SubIds \ {s.id} : life'[id] = life[id]
  BY <1>1
<1>3. \A u \in store' : u \in store /\ u.id \in SubIds \ {s.id}
  <2>1. \A u \in store : life[u.id].sub = u /\ u.id \in SubIds
    BY <1>1, InStore, Numbers DEF IInv
  <2> QED
    BY <2>1
<1>4. StoreInv'
  BY <1>2, <1>3 DEF IInv, StoreInv
<1>5. \A x \in SubIds \X (1..MaxEvents) :
        WasAskedFor(x) => WasAskedFor(x)' /\ life'[x[1]].sub = life[x[1]].sub
  BY <1>2, EndOfLife DEF IInv
<1> QED
  BY <1>4, <1>5, SameTasks DEF IInv

LEMMA RestartKeeps ==
  ASSUME IInv, Restart
  PROVE  StoreInv' /\ TasksInv' /\ ReceivedInv'
<1>1. StoreInv'
  BY DEF Restart, StoreInv
<1>2. \A x \in SubIds \X (1..MaxEvents) :
        WasAskedFor(x) => WasAskedFor(x)' /\ life'[x[1]].sub = life[x[1]].sub
  BY EndOfLife DEF IInv, Restart
<1> QED
  BY <1>1, <1>2, SameTasks DEF IInv, Restart

LEMMA PublishKeeps ==
  ASSUME IInv, Publish
  PROVE  StoreInv' /\ TasksInv' /\ ReceivedInv'
<1> PICK last : last = Len(events) + 1
  OBVIOUS
<1> PICK e \in Event :
      /\ events' = Append(events, e)
      /\ tasks' = tasks \cup {[sub |-> s, event |-> last, attempt |-> 0] :
                               s \in {t \in store : Matches(t, e)}}
  BY DEF Publish
<1>1. /\ TypeOK /\ UNCHANGED <<store, life, received, failures, lost, restarts>>
      /\ events \in Seq(Event) /\ Len(events) \in Nat /\ Len(events) < MaxEvents
      /\ MaxEvents \in Nat /\ last \in Nat /\ Open > MaxEvents /\ Open \in Nat
  BY Numbers DEF IInv, TypeOK, Publish
<1>2. /\ Len(events') = last /\ events'[last] = e
      /\ \A n \in 1..Len(events) : events'[n] = events[n]
  BY <1>1
<1>3. last > Len(events) /\ last <= MaxEvents
  BY <1>1
<1>4. StoreInv'
  <2> SUFFICES ASSUME NEW s \in store
               PROVE  life[s.id] \in [sub: {s}, from: 0..last, to: {Open}]
    BY <1>1, <1>2 DEF StoreInv
  <2>1. 0..Len(events) \subseteq 0..last
    BY <1>1, <1>3
  <2> QED
    BY <2>1 DEF IInv, StoreInv
<1>5. ASSUME NEW x \in SubIds \X (1..MaxEvents), WasAskedFor(x)
      PROVE  WasAskedFor(x)' /\ x[2] # last
  <2>1. x[2] <= Len(events) /\ x[2] \in 1..Len(events)
    BY <1>1, <1>5 DEF WasAskedFor
  <2>2. x[2] <= last /\ x[2] # last
    BY <1>1, <1>3, <2>1
  <2> QED
    BY <1>1, <1>2, <1>5, <2>1, <2>2 DEF WasAskedFor, Matches
<1>6. ReceivedInv'
  BY <1>1, <1>5 DEF IInv, ReceivedInv
<1>7. ASSUME NEW t \in tasks
      PROVE  /\ life'[t.sub.id].sub = t.sub /\ WasAskedFor(Target(t))'
             /\ Copies(Target(t))' <= (IF lost THEN t.attempt ELSE 0)
             /\ t.event # last
  <2>1. Target(t) \in SubIds \X (1..MaxEvents) /\ Target(t)[2] = t.event
    BY <1>1, Numbers DEF Target
  <2> QED
    BY <1>1, <1>5, <2>1 DEF IInv, TasksInv, Copies
<1>8. ASSUME NEW t \in tasks' \ tasks
      PROVE  /\ life'[t.sub.id].sub = t.sub /\ WasAskedFor(Target(t))'
             /\ Copies(Target(t))' = 0
             /\ t.event = last /\ t.attempt = 0
  <2>1. PICK s \in store : Matches(s, e) /\ t = [sub |-> s, event |-> last, attempt |-> 0]
    OBVIOUS
  <2>2. /\ t.sub = s /\ t.event = last /\ t.attempt = 0 /\ Target(t) = <<s.id, last>>
    BY <2>1 DEF Target
  <2>3. /\ life[s.id].sub = s /\ life[s.id].from \in 0..Len(events) /\ life[s.id].to = Open
        /\ life[s.id] # Unborn
    BY <1>1, InStore DEF IInv
  <2>4. life[s.id].from < last /\ last <= life[s.id].to
    BY <1>1, <1>3, <2>3
  <2>5. WasAskedFor(<<s.id, last>>)'
    BY <1>1, <1>2, <2>1, <2>3, <2>4 DEF WasAskedFor, Matches
  <2>6. <<s.id, last>> \notin DOMAIN received
    BY <1>5 DEF IInv, ReceivedInv
  <2>7. Copies(<<s.id, last>>)' = 0
    BY <1>1, <2>6 DEF Copies
  <2> QED
    BY <1>1, <2>2, <2>3, <2>5, <2>7
<1>9. ASSUME NEW t \in tasks', NEW u \in tasks', Target(t) = Target(u) PROVE t = u
  <2>1. t.event = u.event /\ t.sub = u.sub
    <3>1. t.event = u.event /\ t.sub.id = u.sub.id
      BY <1>9 DEF Target
    <3>2. life'[t.sub.id].sub = t.sub /\ life'[u.sub.id].sub = u.sub
      BY <1>7, <1>8
    <3> QED
      BY <3>1, <3>2
  <2>2. CASE t \in tasks /\ u \in tasks
    BY <1>9, <2>2 DEF IInv, TasksInv
  <2>3. CASE t \notin tasks /\ u \notin tasks
    BY <2>1, <2>3
  <2> QED
    BY <1>7, <1>8, <2>1, <2>2, <2>3
<1>10. TasksInv'
  <2>1. \A t \in tasks' : Copies(Target(t))' <= IF lost' THEN t.attempt ELSE 0
    BY <1>1, <1>7, <1>8
  <2> QED
    BY <1>7, <1>8, <1>9, <2>1 DEF TasksInv, Target
<1> QED
  BY <1>4, <1>6, <1>10

\* An attempt: the goroutine t arrives, or not, and tries again, or not.
LEMMA AttemptKeeps ==
  ASSUME IInv, TypeOK', NEW t \in tasks, UNCHANGED <<store, events, life>>,
         lost => lost',
         \A u \in tasks' : u \in tasks \ {t} \/
           (u.sub = t.sub /\ u.event = t.event /\ u.attempt = t.attempt + 1),
         \A u, v \in tasks' \ (tasks \ {t}) : u = v,
         \/ Arrives(t) /\ (lost' \/ tasks' \subseteq tasks \ {t})
         \/ received' = received /\ lost' = lost
  PROVE  StoreInv' /\ TasksInv' /\ ReceivedInv'
<1> PICK x : x = Target(t)
  OBVIOUS
<1>1. /\ t.sub \in Subscription /\ x \in SubIds \X (1..MaxEvents) /\ t.attempt \in 0..2
      /\ WasAskedFor(x) /\ Copies(x) <= (IF lost THEN t.attempt ELSE 0)
      /\ life[t.sub.id].sub = t.sub /\ lost \in BOOLEAN /\ lost' \in BOOLEAN
  BY Numbers DEF IInv, TasksInv, TypeOK, Target
<1>2. /\ \A y : WasAskedFor(y)' <=> WasAskedFor(y)
      /\ life' = life
  BY DEF WasAskedFor, Matches
<1>3. StoreInv'
  BY DEF IInv, StoreInv
<1>4. /\ \A y : Copies(y) \in Nat
      /\ \A y \in DOMAIN received : Copies(y) = received[y]
      /\ \A y \in DOMAIN received' : Copies(y)' = received'[y]
  BY DEF IInv, ReceivedInv, Copies
<1>5. /\ \A y : y # x => Copies(y)' = Copies(y)
      /\ Copies(x)' = Copies(x) \/ 
         (Copies(x)' = Copies(x) + 1 /\ (lost' \/ tasks' \subseteq tasks \ {t}))
      /\ DOMAIN received' \subseteq DOMAIN received \cup {x}
      /\ \A y \in DOMAIN received' : received'[y] \in Nat \ {0}
  <2>1. CASE Arrives(t) /\ (lost' \/ tasks' \subseteq tasks \ {t})
    <3>1. /\ DOMAIN received' = DOMAIN received \cup {x}
          /\ received'[x] = Copies(x) + 1
          /\ \A y \in DOMAIN received \ {x} : received'[y] = received[y] + 0
      BY <2>1, OneMore DEF Arrives, Target
    <3>2. \A y \in DOMAIN received : received[y] \in Nat \ {0} /\ received[y] + 0 = received[y]
      BY DEF IInv, ReceivedInv
    <3>3. Copies(x) + 1 \in Nat \ {0}
      BY <1>4
    <3> QED
      BY <2>1, <3>1, <3>2, <3>3 DEF Copies
  <2>2. CASE received' = received
    <3>1. \A y : Copies(y)' = Copies(y)
      BY <2>2 DEF Copies
    <3>2. \A y \in DOMAIN received' : received'[y] \in Nat \ {0}
      BY <2>2 DEF IInv, ReceivedInv
    <3> QED
      BY <2>2, <3>1, <3>2
  <2> QED
    BY <2>1, <2>2
<1>6. Copies(x)' <= IF lost' THEN 3 ELSE 1
  BY <1>1, <1>4, <1>5
<1>7. ReceivedInv'
  <2> SUFFICES ASSUME NEW y \in DOMAIN received'
               PROVE  /\ y \in SubIds \X (1..MaxEvents) /\ received'[y] \in Nat \ {0}
                      /\ WasAskedFor(y)'
                      /\ received'[y] <= IF lost' THEN 3 ELSE 1
    BY DEF ReceivedInv
  <2>1. CASE y = x
    BY <1>1, <1>2, <1>4, <1>5, <1>6, <2>1
  <2>2. CASE y # x
    <3>1. y \in DOMAIN received /\ received'[y] = received[y]
      BY <1>4, <1>5, <2>2
    <3>2. received[y] <= IF lost THEN 3 ELSE 1
      BY <3>1 DEF IInv, ReceivedInv
    <3>3. received[y] <= IF lost' THEN 3 ELSE 1
      BY <1>1, <1>5, <3>1, <3>2
    <3> QED
      BY <1>2, <1>5, <3>1, <3>3 DEF IInv, ReceivedInv
  <2> QED
    BY <2>1, <2>2
<1>8. ASSUME NEW u \in tasks \ {t}
      PROVE  /\ Target(u) # x /\ life'[u.sub.id].sub = u.sub /\ WasAskedFor(Target(u))'
             /\ Copies(Target(u))' <= IF lost' THEN u.attempt ELSE 0
  <2>1. /\ Target(u) # x /\ life[u.sub.id].sub = u.sub /\ WasAskedFor(Target(u))
        /\ Copies(Target(u)) <= IF lost THEN u.attempt ELSE 0
    BY DEF IInv, TasksInv
  <2>2. u.attempt \in 0..2 /\ Copies(Target(u)) \in Nat
    BY <1>4, Numbers DEF IInv
  <2>3. Copies(Target(u))' = Copies(Target(u))
    <3> DEFINE y == Target(u)
    <3>1. Copies(y)' = Copies(y)
      <4>1. y # x
        BY <2>1
      <4> HIDE DEF y
      <4> QED
        BY <1>5, <4>1
    <3> QED
      BY <3>1 DEF Target
  <2> QED
    BY <1>1, <1>2, <2>1, <2>2, <2>3 DEF Target
<1>9. ASSUME NEW u \in tasks' \ (tasks \ {t})
      PROVE  /\ Target(u) = x /\ life'[u.sub.id].sub = u.sub /\ WasAskedFor(Target(u))'
             /\ Copies(Target(u))' <= IF lost' THEN u.attempt ELSE 0
  <2>1. u.sub = t.sub /\ u.event = t.event /\ u.attempt = t.attempt + 1
    OBVIOUS
  <2>2. Target(u) = x
    BY <2>1 DEF Target
  <2>3. ~(tasks' \subseteq tasks \ {t})
    OBVIOUS
  <2>4. Copies(x)' <= IF lost' THEN u.attempt ELSE 0
    BY <1>1, <1>4, <1>5, <2>1, <2>3
  <2> QED
    BY <1>1, <1>2, <2>1, <2>2, <2>4 DEF Target
<1>10. TasksInv'
  <2>1. \A u, v \in tasks' : Target(u) = Target(v) => u = v
    BY <1>8, <1>9 DEF IInv, TasksInv
  <2> QED
    BY <1>8, <1>9, <2>1 DEF TasksInv, Target
<1> QED
  BY <1>3, <1>7, <1>10

LEMMA DeliverKeeps ==
  ASSUME IInv, TypeOK', NEW t \in tasks, Delivered(t) \/ PostFails(t) \/ AnswerLost(t)
  PROVE  StoreInv' /\ TasksInv' /\ ReceivedInv'
<1>1. TypeOK /\ UNCHANGED <<store, events, life>>
  BY DEF IInv, Delivered, PostFails, AnswerLost
<1>2. CASE Delivered(t)
  <2>1. /\ Arrives(t) /\ tasks' = tasks \ {t} /\ lost' = lost
    BY <1>2 DEF Delivered
  <2> QED
    BY <1>1, <2>1, AttemptKeeps
<1>3. ASSUME Retry(t)
      PROVE  /\ \A u \in tasks' : u \in tasks \ {t} \/
                  (u.sub = t.sub /\ u.event = t.event /\ u.attempt = t.attempt + 1)
             /\ \A u, v \in tasks' \ (tasks \ {t}) : u = v
  <2>1. \A u, v \in tasks' \ (tasks \ {t}) : u = v
    BY <1>3 DEF Retry
  <2> QED
    BY <1>1, <1>3, <2>1, RetryType
<1>4. CASE PostFails(t)
  BY <1>1, <1>3, <1>4, AttemptKeeps DEF PostFails
<1>5. CASE AnswerLost(t)
  BY <1>1, <1>3, <1>5, AttemptKeeps DEF AnswerLost
<1> QED
  BY <1>2, <1>4, <1>5

LEMMA InitInvariant == Init => IInv
<1> SUFFICES ASSUME Init PROVE StoreInv /\ TasksInv /\ ReceivedInv
  BY InitType DEF IInv
<1>1. DOMAIN received = {}
  BY DEF Init, EmptyBag, SetToBag
<1> QED
  BY <1>1 DEF Init, StoreInv, TasksInv, ReceivedInv

LEMMA NextInvariant == IInv /\ [Next]_vars => IInv'
<1> SUFFICES ASSUME IInv, [Next]_vars PROVE IInv'
  OBVIOUS
<1>1. TypeOK'
  BY NextType DEF IInv
<1>2. CASE UNCHANGED vars
  BY <1>2 DEF vars, IInv, TypeOK, StoreInv, TasksInv, ReceivedInv, WasAskedFor, Matches,
              Copies, Target
<1> QED
  BY <1>1, <1>2, SubscribeKeeps, UnsubscribeKeeps, PublishKeeps, DeliverKeeps, RestartKeeps
     DEF Next, IInv

LEMMA Invariant == Spec => []IInv
  BY InitInvariant, NextInvariant, PTL DEF Spec

-----------------------------------------------------------------------------
(* The theorems.                                                           *)

\* Every variable has a value of its kind: no goroutine goes beyond the third
\* attempt of Deliver.
THEOREM TypeCorrect == Spec => []TypeOK
  BY Invariant, PTL DEF IInv

\* Whatever is delivered, or is still to be delivered, was published while the
\* subscription was there, is of its family and of a type it asked for: PublishEvent
\* takes the subscriptions of the moment, and no order of deletions, retries and
\* restarts makes a goroutine deliver anything else.
THEOREM NothingUnasked == Spec => []OnlyWhatWasAskedFor
<1>1. IInv => OnlyWhatWasAskedFor
  <2> SUFFICES ASSUME IInv,
                      NEW x \in BagToSet(received) \cup {<<t.sub.id, t.event>> : t \in tasks}
               PROVE  /\ life[x[1]].from < x[2] /\ x[2] <= life[x[1]].to
                      /\ events[x[2]].family = life[x[1]].sub.family
                      /\ \/ life[x[1]].sub.types = {}
                         \/ events[x[2]].type \in life[x[1]].sub.types
    BY DEF OnlyWhatWasAskedFor
  <2>1. WasAskedFor(x)
    BY DEF IInv, TasksInv, ReceivedInv, BagToSet, Target
  <2> QED
    BY <2>1 DEF WasAskedFor, Matches
<1> QED
  BY <1>1, Invariant, PTL

\* A callback gets an event once, and three times at most when answers are lost.
THEOREM CopiesAreFew == Spec => []DuplicatesAreExplained
<1>1. IInv => DuplicatesAreExplained
  BY DEF IInv, ReceivedInv, DuplicatesAreExplained, BagToSet
<1> QED
  BY <1>1, Invariant, PTL
=============================================================================
