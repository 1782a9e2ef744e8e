---------------------------- MODULE TMFPdpProofs ----------------------------
(***************************************************************************)
(* Proofs about the policy decision point for any goroutines, policies and *)
(* numbers of edits and thread entries: no edit hides itself, the cache    *)
(* goes forward, and a decision is made with the policy that was read.     *)
(***************************************************************************)
EXTENDS TMFPdp, TLAPS

-----------------------------------------------------------------------------
(* Types.                                                                  *)

\* The pool holds a thread entry that it got, and no new ones by giving one away.
LEMMA PoolGets ==
  ASSUME NEW B, NEW t
  PROVE  BagToSet(B (+) SetToBag({t})) = BagToSet(B) \cup {t}
  BY DEF (+), SetToBag, BagToSet

LEMMA PoolLoses ==
  ASSUME NEW B, NEW t
  PROVE  BagToSet(B (-) SetToBag({t})) \subseteq BagToSet(B)
  BY DEF (-), SetToBag, BagToSet

LEMMA PoolEmpty == BagToSet(EmptyBag) = {}
  BY DEF EmptyBag, SetToBag, BagToSet

\* A goroutine's record with other values of the right kind is one, too.
Runs == [stage: Stages, thread: Threads \cup {None},
         existing: Entries \cup {None}, got: Entries \cup {None}]

LEMMA EntryType ==
  ASSUME TypeOK, NEW fresh \in BOOLEAN, NEW e \in Entries
  PROVE  /\ e # None /\ e.mtime \in Nat /\ disk.mtime \in Nat
         /\ [e EXCEPT !.fresh = fresh] \in Entries
         /\ [e EXCEPT !.fresh = fresh].mtime = e.mtime
         /\ [e EXCEPT !.fresh = fresh].content = e.content
         /\ [content |-> disk.content, mtime |-> disk.mtime, fresh |-> fresh] \in Entries
<1>1. e # None
  BY PdpSentinel
<1> QED
  BY <1>1 DEF Entries, TypeOK

LEMMA IdleType == Idle \in Runs
  BY DEF Idle, Runs, Stages

\* The result of a flight has the type of what is returned.
LEMMA ResultType ==
  ASSUME TypeOK, NEW g \in Goroutines, NEW e \in Entries, Result(g, e)
  PROVE  run' \in [Goroutines -> Runs] /\ flight' = None
<1>1. \A h \in Goroutines :
        [run[h] EXCEPT !.stage = "loaded", !.got = e, !.existing = None] \in Runs
  BY DEF TypeOK, Runs, Stages
<1> QED
  BY <1>1 DEF TypeOK, Runs, Result

\* A goroutine that is through gives its thread entry back.
LEMMA FinishType ==
  ASSUME TypeOK, NEW g \in Goroutines, NEW t \in Threads \cup {None}, Finish(g, t)
  PROVE  /\ run' \in [Goroutines -> Runs]
         /\ BagToSet(pool') \subseteq BagToSet(pool) \cup ({t} \ {None})
<1>1. run' \in [Goroutines -> Runs]
  BY IdleType DEF Finish, TypeOK, Runs
<1>2. CASE t = None
  BY <1>1, <1>2 DEF Finish
<1>3. CASE t # None
  <2>1. pool' = pool (+) SetToBag({t})
    BY <1>3 DEF Finish
  <2> QED
    BY <1>1, <1>3, <2>1, PoolGets
<1> QED
  BY <1>2, <1>3

LEMMA GotoType ==
  ASSUME TypeOK, NEW g \in Goroutines, NEW stage \in Stages, Goto(g, stage)
  PROVE  run' \in [Goroutines -> Runs]
  BY DEF TypeOK, Runs, Goto

\* The program begins with the policies it has read.
LEMMA InitType == Init => TypeOK
<1> SUFFICES ASSUME Init PROVE TypeOK
  OBVIOUS
<1>1. PICK p \in Contents, at \in {"file", "url"} :
        /\ disk = [at |-> at, content |-> p, mtime |-> 0]
        /\ past = {p}
        /\ entry = [content |-> p, mtime |-> 0, fresh |-> TRUE]
  BY DEF Init
<1>2. 0 \in 0..MaxEdits
  BY PdpAssumption
<1> QED
  BY <1>1, <1>2, IdleType, PoolEmpty DEF Init, TypeOK, Runs, Contents, Entries

\* Whoever has been given an entry has one.
GotInv ==
  \A g \in Goroutines : run[g].stage \in {"read", "store", "loaded", "call"} => run[g].got # None

\* A reset ends in one of four ways.
LEMMA ResetCases ==
  ASSUME TypeOK, GotInv, NEW g \in Goroutines, Reset(g)
  PROVE  LET c == run[g].got.content
             t == run[g].thread
         IN /\ c \in Contents /\ t \in Threads
            /\ \/ c = t.hash /\ Goto(g, "call") /\ pool' = pool
               \/ /\ c # t.hash /\ c \in Policies
                  /\ run' = [run EXCEPT ![g].stage = "call", ![g].thread.function = c]
                  /\ pool' = pool
               \/ c \notin Policies /\ Finish(g, t)
               \/ c \notin Policies /\ Finish(g, [t EXCEPT !.function = None])
<1> DEFINE c == run[g].got.content
           t == run[g].thread
<1>1. c \in Contents /\ t \in Threads
  BY DEF Reset, GotInv, At, Entries, TypeOK
<1>2. t.hash \in Policies
  BY <1>1 DEF Threads
<1>3. c \in Policies \/ c = Broken \/ c = Lacking
  BY <1>1 DEF Contents
<1>4. CASE c = t.hash
  BY <1>1, <1>2, <1>4, PdpAssumption DEF Reset
<1>5. CASE c # t.hash /\ c \in Policies
  BY <1>1, <1>5, PdpAssumption DEF Reset
<1>6. CASE c = Broken \/ c = Lacking
  BY <1>1, <1>2, <1>6, PdpAssumption DEF Reset
<1> QED
  BY <1>3, <1>4, <1>5, <1>6

\* Every step keeps the types.
LEMMA NextType ==
  ASSUME TypeOK, GotInv, [Next]_vars
  PROVE  TypeOK'
<1> USE DEF TypeOK, Runs
<1>1. CASE UNCHANGED vars
  BY <1>1 DEF vars
<1>2. CASE Edit
  <2>1. PICK c \in Contents : /\ disk' = [disk EXCEPT !.content = c, !.mtime = @ + 1]
                             /\ past' = past \cup {c}
    BY <1>2 DEF Edit
  <2>2. disk.mtime + 1 \in 0..MaxEdits
    BY <1>2, PdpAssumption DEF Edit
  <2> QED
    BY <1>2, <2>1, <2>2 DEF Edit
<1>3. CASE Expire
  BY <1>3 DEF Expire, Entries
<1>4. CASE Collect
  BY <1>4, PoolLoses DEF Collect
<1>5. ASSUME NEW g \in Goroutines, Take(g) PROVE TypeOK'
  <2>1. ASSUME NEW t \in BagToSet(pool), pool' = pool (-) SetToBag({t}),
               run' = [run EXCEPT ![g].thread = t, ![g].stage = "load"]
        PROVE  TypeOK'
    <3>1. BagToSet(pool') \subseteq Threads
      BY <2>1, PoolLoses
    <3>2. run' \in [Goroutines -> Runs]
      BY <2>1 DEF Stages
    <3> QED
      BY <1>5, <3>1, <3>2 DEF Take
  <2>2. CASE Goto(g, "load") /\ pool' = pool
    BY <1>5, <2>2, GotoType DEF Take, Stages
  <2> QED
    BY <1>5, <2>1, <2>2 DEF Take
<1>6. ASSUME NEW g \in Goroutines, Load(g) PROVE TypeOK'
  <2>1. \/ /\ entry \in Entries
           /\ run' = [run EXCEPT ![g].stage = "loaded", ![g].got = entry]
        \/ run' = [run EXCEPT ![g].stage = "do", ![g].existing = entry]
    BY <1>6 DEF Load
  <2>2. run' \in [Goroutines -> Runs]
    BY <2>1 DEF Stages
  <2> QED
    BY <1>6, <2>2 DEF Load
<1>7. ASSUME NEW g \in Goroutines, Do(g) PROVE TypeOK'
  BY <1>7, GotoType DEF Do, Stages
<1>8. ASSUME NEW g \in Goroutines, Check(g) PROVE TypeOK'
  BY <1>8, GotoType, ResultType DEF Check, Stages
<1>9. ASSUME NEW g \in Goroutines, Stat(g) PROVE TypeOK'
  <2> DEFINE new == [content |-> disk.content, mtime |-> disk.mtime, fresh |-> TRUE]
             old == [run[g].existing EXCEPT !.fresh = TRUE]
  <2>1. new \in Entries
    BY DEF Entries
  <2>2. run[g].existing # None => old \in Entries
    BY DEF Entries
  <2>3. \/ run' = [run EXCEPT ![g].stage = "read", ![g].got = new]
        \/ /\ run[g].existing # None
           /\ run' = [run EXCEPT ![g].stage = "store", ![g].got = old]
    BY <1>9 DEF Stat
  <2> HIDE DEF new, old
  <2>4. run' \in [Goroutines -> Runs]
    BY <2>1, <2>2, <2>3 DEF Stages
  <2> QED
    BY <1>9, <2>4 DEF Stat
<1>10. ASSUME NEW g \in Goroutines, ReadFile(g) PROVE TypeOK'
  <2>1. run[g].got \in Entries /\ disk.content \in Contents
    BY <1>10 DEF ReadFile, GotInv, At
  <2>2. [run[g].got EXCEPT !.content = disk.content] \in Entries
    BY <2>1 DEF Entries
  <2>3. [run[g] EXCEPT !.got.content = disk.content, !.stage = "store"] \in Runs
    BY <2>2 DEF Stages
  <2>4. run' \in [Goroutines -> Runs]
    BY <1>10, <2>3 DEF ReadFile
  <2> QED
    BY <1>10, <2>4 DEF ReadFile
<1>11. ASSUME NEW g \in Goroutines, Fetch(g) PROVE TypeOK'
  <2>1. PICK got : \E fresh \in BOOLEAN :
          /\ \/ got = [content |-> disk.content, mtime |-> disk.mtime, fresh |-> fresh]
             \/ run[g].existing # None /\ got = [run[g].existing EXCEPT !.fresh = fresh]
          /\ run' = [run EXCEPT ![g].got = got, ![g].stage = "store"]
    BY <1>11 DEF Fetch
  <2>2. got \in Entries
    BY <2>1 DEF Entries
  <2>3. [run[g] EXCEPT !.got = got, !.stage = "store"] \in Runs
    BY <2>2 DEF Stages
  <2>4. run' \in [Goroutines -> Runs]
    BY <2>1, <2>3
  <2> QED
    BY <1>11, <2>4 DEF Fetch
<1>12. ASSUME NEW g \in Goroutines, FetchFails(g) PROVE TypeOK'
  BY <1>12, ResultType DEF FetchFails
<1>13. ASSUME NEW g \in Goroutines, StoreEntry(g) PROVE TypeOK'
  BY <1>13, ResultType DEF StoreEntry, GotInv, At
<1>14. ASSUME NEW g \in Goroutines, ReadFails(g) PROVE TypeOK'
  <2> DEFINE failed == {h \in Goroutines : h = g \/ At(h, "wait")}
             given == {h \in failed : run[h].thread # None}
             back == [t \in {run[h].thread : h \in given} |->
                        Cardinality({h \in given : run[h].thread = t})]
  <2>1. run' \in [Goroutines -> Runs]
    BY <1>14, IdleType DEF ReadFails
  <2>2. DOMAIN back \subseteq Threads
    OBVIOUS
  <2>3. pool' = pool (+) back
    BY <1>14 DEF ReadFails
  <2> HIDE DEF back
  <2>4. BagToSet(pool') = BagToSet(pool) \cup DOMAIN back
    BY <2>3 DEF (+), BagToSet
  <2> QED
    BY <1>14, <2>1, <2>2, <2>4 DEF ReadFails
<1>15. ASSUME NEW g \in Goroutines, Compile(g) PROVE TypeOK'
  <2>1. CASE run[g].got.content \in Policies
    <3>1. [Idle EXCEPT !.stage = "load", !.thread = [function |-> run[g].got.content,
                                                     hash |-> run[g].got.content]] \in Runs
      BY <2>1, IdleType DEF Idle, Stages, Threads
    <3> QED
      BY <1>15, <2>1, <3>1 DEF Compile
  <2>2. CASE run[g].got.content \notin Policies
    BY <1>15, <2>2, FinishType DEF Compile
  <2> QED
    BY <2>1, <2>2
<1>16. ASSUME NEW g \in Goroutines, Reset(g) PROVE TypeOK'
  <2>1. run[g].got.content \in Contents /\ run[g].thread \in Threads
    BY <1>16, ResetCases
  <2>2. CASE Goto(g, "call") /\ pool' = pool
    BY <1>16, <2>2, GotoType DEF Reset, Stages
  <2>3. CASE /\ run[g].got.content \in Policies /\ pool' = pool
             /\ run' = [run EXCEPT ![g].stage = "call",
                                   ![g].thread.function = run[g].got.content]
    <3>1. [run[g].thread EXCEPT !.function = run[g].got.content] \in Threads
      BY <2>1, <2>3 DEF Threads
    <3>2. [run[g] EXCEPT !.stage = "call", !.thread.function = run[g].got.content] \in Runs
      BY <3>1 DEF Stages
    <3>3. run' \in [Goroutines -> Runs]
      BY <2>3, <3>2
    <3> QED
      BY <1>16, <2>3, <3>3 DEF Reset
  <2>4. ASSUME NEW t \in {run[g].thread, [run[g].thread EXCEPT !.function = None]},
               Finish(g, t)
        PROVE  TypeOK'
    <3>1. t \in Threads
      BY <2>1 DEF Threads
    <3> QED
      BY <1>16, <2>4, <3>1, FinishType DEF Reset
  <2> QED
    BY <1>16, <2>2, <2>3, <2>4, ResetCases
<1>17. ASSUME NEW g \in Goroutines, Call(g) PROVE TypeOK'
  BY <1>17, FinishType DEF Call
<1> QED
  BY <1>1, <1>2, <1>3, <1>4, <1>5, <1>6, <1>7, <1>8, <1>9, <1>10, <1>11, <1>12, <1>13,
     <1>14, <1>15, <1>16, <1>17 DEF Next

-----------------------------------------------------------------------------
(* What the cache holds and what is on the way to it.                      *)

\* An entry is not newer than the policies, and if it is not older it is them.
Truthful(e) == e.mtime <= disk.mtime /\ (e.mtime = disk.mtime => e.content = disk.content)

\* What goroutine g knows.  Of all goroutines only the one that executes the
\* singleflight function is on its way to store an entry.
RunInv(g) ==
  /\ run[g].stage \in {"check", "stat", "read", "store"} <=> flight = g
  /\ run[g].existing # None => Truthful(run[g].existing)
  /\ run[g].got # None => Truthful(run[g].got)
  /\ run[g].stage \in {"read", "store", "loaded", "call"} => run[g].got # None
  /\ run[g].stage \in {"read", "store"} => run[g].got.mtime >= entry.mtime

CacheInv ==
  /\ entry # None /\ Truthful(entry)
  /\ \A g \in Goroutines : RunInv(g)

IInv == TypeOK /\ CacheInv

LEMMA InitInv == Init => IInv
<1> SUFFICES ASSUME Init PROVE IInv
  OBVIOUS
<1>1. TypeOK
  BY InitType
<1>2. entry # None /\ Truthful(entry)
  <2>1. PICK p \in Contents, at \in {"file", "url"} :
          /\ disk = [at |-> at, content |-> p, mtime |-> 0]
          /\ entry = [content |-> p, mtime |-> 0, fresh |-> TRUE]
    BY DEF Init
  <2>2. entry \in Entries
    BY <2>1, PdpAssumption DEF Entries, Contents
  <2> QED
    <3>1. entry # None
      BY <2>2, PdpSentinel
    <3>2. disk.mtime = 0 /\ disk.content = p /\ entry.mtime = 0 /\ entry.content = p
      BY <2>1
    <3> QED
      BY <3>1, <3>2 DEF Truthful
<1>3. \A g \in Goroutines : RunInv(g)
  BY PdpSentinel DEF Init, RunInv, Idle
<1> QED
  BY <1>1, <1>2, <1>3 DEF IInv, CacheInv

\* A goroutine whose record stays as it is keeps what it knows.
LEMMA SameInv ==
  ASSUME IInv, NEW h \in Goroutines, run'[h] = run[h], disk' = disk,
         flight' = h <=> flight = h,
         entry'.mtime = entry.mtime \/ flight # h
  PROVE  RunInv(h)'
  BY DEF IInv, CacheInv, RunInv, Truthful

\* So the step of one goroutine that stores nothing has to care for itself only.
LEMMA OwnInv ==
  ASSUME IInv, NEW g \in Goroutines, disk' = disk, entry' = entry,
         \A h \in Goroutines \ {g} : run'[h] = run[h],
         \A h \in Goroutines \ {g} : flight' = h <=> flight = h,
         RunInv(g)'
  PROVE  CacheInv'
<1>1. \A h \in Goroutines : RunInv(h)'
  <2> SUFFICES ASSUME NEW h \in Goroutines \ {g} PROVE RunInv(h)'
    OBVIOUS
  <2> QED
    BY SameInv
<1> QED
  BY <1>1 DEF IInv, CacheInv, Truthful

\* A truthful result makes all that get it know something true.
LEMMA ResultInv ==
  ASSUME IInv, NEW g \in Goroutines, flight = g, disk' = disk,
         NEW e \in Entries, Truthful(e), Result(g, e)
  PROVE  \A h \in Goroutines : RunInv(h)'
<1> SUFFICES ASSUME NEW h \in Goroutines PROVE RunInv(h)'
  OBVIOUS
<1>1. flight' = None /\ h # None /\ e # None
  BY PdpSentinel DEF Result
<1>2. CASE h = g \/ At(h, "wait")
  <2>1. /\ run'[h].stage = "loaded" /\ run'[h].got = e /\ run'[h].existing = None
    BY <1>2 DEF Result, IInv, TypeOK
  <2> QED
    BY <1>1, <2>1 DEF RunInv, Truthful
<1>3. CASE ~(h = g \/ At(h, "wait"))
  <2>1. run'[h] = run[h] /\ run[h].stage \notin {"check", "stat", "read", "store"}
    BY <1>3 DEF Result, IInv, CacheInv, RunInv
  <2> QED
    BY <1>1, <1>3, <2>1 DEF RunInv, Truthful, IInv, CacheInv
<1> QED
  BY <1>2, <1>3

\* A goroutine that is through, or begins, knows nothing.
LEMMA FinishInv ==
  ASSUME IInv, NEW g \in Goroutines, flight # g, disk' = disk, entry' = entry,
         flight' = flight,
         \/ \E t : Finish(g, t)
         \/ /\ \A h \in Goroutines \ {g} : run'[h] = run[h]
            /\ run'[g].existing = None /\ run'[g].got = None
            /\ run'[g].stage \in {"idle", "load"}
  PROVE  CacheInv'
<1>1. /\ \A h \in Goroutines \ {g} : run'[h] = run[h]
      /\ run'[g].existing = None /\ run'[g].got = None
      /\ run'[g].stage \in {"idle", "load"}
  <2>1. CASE \E t : Finish(g, t)
    <3>1. run' = [run EXCEPT ![g] = Idle]
      BY <2>1 DEF Finish
    <3> QED
      BY <3>1 DEF IInv, TypeOK, Idle
  <2> QED
    BY <2>1
<1>2. RunInv(g)'
  BY <1>1 DEF RunInv
<1> QED
  BY <1>1, <1>2, OwnInv

\* The file is edited, or read, stored and used by a goroutine.
LEMMA NextInv ==
  ASSUME IInv, [Next]_vars
  PROVE  IInv'
<1>0. TypeOK'
  BY NextType DEF IInv, CacheInv, RunInv, GotInv
<1> SUFFICES CacheInv'
  BY <1>0 DEF IInv
<1>1. CASE UNCHANGED vars
  BY <1>1 DEF vars, IInv, CacheInv, RunInv, Truthful
<1>2. CASE Edit
  <2>1. disk'.mtime = disk.mtime + 1 /\ disk.mtime \in Nat
    BY <1>2 DEF Edit, IInv, TypeOK
  <2>2. ASSUME NEW e \in Entries, Truthful(e) PROVE Truthful(e)'
    BY <2>1, <2>2 DEF Truthful, Entries
  <2>3. entry' = entry /\ run' = run /\ flight' = flight
    BY <1>2 DEF Edit
  <2>4. entry' # None /\ Truthful(entry)'
    BY <2>2, <2>3 DEF IInv, TypeOK, CacheInv, Truthful
  <2>5. ASSUME NEW g \in Goroutines PROVE RunInv(g)'
    <3>1. RunInv(g) /\ run[g].existing \in Entries \cup {None} /\ run[g].got \in Entries \cup {None}
      BY DEF IInv, TypeOK, CacheInv
    <3> QED
      BY <2>2, <2>3, <3>1 DEF RunInv, Truthful
  <2> QED
    BY <2>4, <2>5 DEF CacheInv
<1>3. CASE Expire
  <2>1. entry' # None /\ entry'.mtime = entry.mtime /\ entry'.content = entry.content
    <3>1. entry' \in Entries
      BY <1>3 DEF Expire, IInv, TypeOK, Entries
    <3> QED
      BY <1>3, <3>1, PdpSentinel DEF Expire, IInv, TypeOK, Entries
  <2> QED
    BY <1>3, <2>1, SameInv DEF Expire, IInv, CacheInv, Truthful
<1>4. CASE Collect
  BY <1>4, SameInv DEF Collect, IInv, CacheInv, Truthful
<1>5. ASSUME NEW g \in Goroutines, Take(g) PROVE CacheInv'
  <2>1. /\ \A h \in Goroutines \ {g} : run'[h] = run[h]
        /\ run'[g].existing = run[g].existing /\ run'[g].got = run[g].got
        /\ run'[g].stage = "load" /\ run[g].stage = "idle"
    BY <1>5 DEF Take, Goto, At, IInv, TypeOK
  <2>2. RunInv(g)'
    BY <1>5, <2>1 DEF Take, RunInv, Truthful, IInv, CacheInv
  <2> QED
    BY <1>5, <2>1, <2>2, OwnInv DEF Take
<1>6. ASSUME NEW g \in Goroutines, Load(g) PROVE CacheInv'
  <2>1. /\ \A h \in Goroutines \ {g} : run'[h] = run[h]
        /\ run[g].stage = "load"
        /\ \/ run'[g].stage = "loaded" /\ run'[g].got = entry /\ run'[g].existing = run[g].existing
           \/ run'[g].stage = "do" /\ run'[g].got = run[g].got /\ run'[g].existing = entry
    BY <1>6 DEF Load, At, IInv, TypeOK
  <2>2. RunInv(g)'
    BY <1>6, <2>1 DEF Load, RunInv, Truthful, IInv, CacheInv
  <2> QED
    BY <1>6, <2>1, <2>2, OwnInv DEF Load
<1>7. ASSUME NEW g \in Goroutines, Do(g) PROVE CacheInv'
  <2>1. /\ \A h \in Goroutines \ {g} : run'[h] = run[h]
        /\ run[g].stage = "do"
        /\ run'[g].got = run[g].got /\ run'[g].existing = run[g].existing
        /\ \/ run'[g].stage = "check" /\ flight = None /\ flight' = g
           \/ run'[g].stage = "wait" /\ flight # None /\ flight' = flight
    BY <1>7 DEF Do, Goto, At, IInv, TypeOK
  <2>2. RunInv(g)'
    BY <1>7, <2>1 DEF Do, RunInv, Truthful, IInv, CacheInv
  <2> QED
    BY <1>7, <2>1, <2>2, OwnInv, PdpSentinel DEF Do
<1>8. ASSUME NEW g \in Goroutines, Check(g) PROVE CacheInv'
  <2>1. flight = g /\ run[g].stage = "check" /\ disk' = disk /\ entry' = entry
    BY <1>8 DEF Check, At, IInv, CacheInv, RunInv
  <2>2. CASE Result(g, entry)
    BY <2>1, <2>2, ResultInv DEF IInv, TypeOK, CacheInv, Truthful
  <2>3. CASE Goto(g, "stat") /\ flight' = flight
    <3>1. /\ \A h \in Goroutines \ {g} : run'[h] = run[h]
          /\ run'[g].got = run[g].got /\ run'[g].existing = run[g].existing
          /\ run'[g].stage = "stat"
      BY <2>3 DEF Goto, IInv, TypeOK
    <3>2. RunInv(g)'
      BY <2>1, <2>3, <3>1 DEF RunInv, Truthful, IInv, CacheInv
    <3> QED
      BY <2>1, <2>3, <3>1, <3>2, OwnInv
  <2> QED
    BY <1>8, <2>2, <2>3 DEF Check
<1>9. ASSUME NEW g \in Goroutines, Stat(g) PROVE CacheInv'
  <2> DEFINE new == [content |-> disk.content, mtime |-> disk.mtime, fresh |-> TRUE]
             old == [run[g].existing EXCEPT !.fresh = TRUE]
  <2>1. /\ \A h \in Goroutines \ {g} : run'[h] = run[h]
        /\ run[g].stage = "stat" /\ run'[g].existing = run[g].existing
        /\ \/ run'[g].stage = "read" /\ run'[g].got = new
           \/ /\ run'[g].stage = "store" /\ run'[g].got = old
              /\ run[g].existing # None /\ run[g].existing.mtime >= disk.mtime
    BY <1>9 DEF Stat, At, IInv, TypeOK
  <2>2. /\ run'[g].got # None
        /\ run'[g].got.mtime = disk.mtime /\ run'[g].got.content = disk.content
    <3>1. CASE run'[g].got = new
      <4>1. new \in Entries
        BY DEF Entries, IInv, TypeOK
      <4>2. new # None
        BY <4>1, PdpSentinel
      <4> QED
        BY <3>1, <4>2
    <3>2. CASE /\ run'[g].got = old /\ run[g].existing # None
               /\ run[g].existing.mtime >= disk.mtime
      <4>1. /\ run[g].existing \in Entries /\ disk.mtime \in Nat
            /\ Truthful(run[g].existing)
        BY <3>2 DEF IInv, TypeOK, CacheInv, RunInv
      <4>2. /\ old # None /\ old.mtime = run[g].existing.mtime
            /\ old.content = run[g].existing.content /\ run[g].existing.mtime \in Nat
        BY <4>1, EntryType DEF IInv
      <4> HIDE DEF old
      <4> QED
        BY <3>2, <4>1, <4>2 DEF Truthful
    <3> QED
      BY <2>1, <3>1, <3>2
  <2>3. disk.mtime >= entry.mtime
    BY DEF IInv, TypeOK, CacheInv, Truthful, Entries
  <2>4. RunInv(g)'
    <3> HIDE DEF new, old
    <3> QED
      BY <1>9, <2>1, <2>2, <2>3 DEF Stat, RunInv, Truthful, IInv, CacheInv, TypeOK
  <2> QED
    BY <1>9, <2>1, <2>4, OwnInv DEF Stat
<1>10. ASSUME NEW g \in Goroutines, ReadFile(g) PROVE CacheInv'
  <2>1. /\ \A h \in Goroutines \ {g} : run'[h] = run[h]
        /\ run[g].stage = "read" /\ run'[g].stage = "store"
        /\ run'[g].existing = run[g].existing
        /\ run'[g].got = [run[g].got EXCEPT !.content = disk.content]
    BY <1>10 DEF ReadFile, At, IInv, TypeOK
  <2>2. run[g].got \in Entries /\ disk.content \in Contents
    BY <2>1 DEF IInv, TypeOK, CacheInv, RunInv
  <2>3. /\ run'[g].got \in Entries /\ run'[g].got.mtime = run[g].got.mtime
        /\ run'[g].got.content = disk.content
    BY <2>1, <2>2 DEF Entries
  <2>4. run'[g].got # None
    BY <2>3, PdpSentinel
  <2>5. RunInv(g)'
    BY <1>10, <2>1, <2>3, <2>4 DEF ReadFile, RunInv, Truthful, IInv, CacheInv
  <2> QED
    BY <1>10, <2>1, <2>5, OwnInv DEF ReadFile
<1>11. ASSUME NEW g \in Goroutines, Fetch(g) PROVE CacheInv'
  <2>1. PICK got : \E fresh \in BOOLEAN :
          /\ \/ got = [content |-> disk.content, mtime |-> disk.mtime, fresh |-> fresh]
             \/ /\ run[g].existing # None /\ run[g].existing.mtime = disk.mtime
                /\ got = [run[g].existing EXCEPT !.fresh = fresh]
          /\ run' = [run EXCEPT ![g].got = got, ![g].stage = "store"]
    BY <1>11 DEF Fetch
  <2>2. got \in Entries /\ got.mtime = disk.mtime /\ got.content = disk.content
    BY <2>1 DEF Entries, IInv, TypeOK, CacheInv, RunInv, Truthful
  <2>3. got # None
    BY <2>2, PdpSentinel
  <2>4. /\ \A h \in Goroutines \ {g} : run'[h] = run[h]
        /\ run[g].stage = "stat" /\ run'[g].stage = "store"
        /\ run'[g].existing = run[g].existing /\ run'[g].got = got
    BY <1>11, <2>1 DEF Fetch, At, IInv, TypeOK
  <2>5. disk.mtime >= entry.mtime
    BY DEF IInv, TypeOK, CacheInv, Truthful, Entries
  <2>6. RunInv(g)'
    BY <1>11, <2>2, <2>3, <2>4, <2>5 DEF Fetch, RunInv, Truthful, IInv, CacheInv, TypeOK
  <2> QED
    BY <1>11, <2>4, <2>6, OwnInv DEF Fetch
<1>12. ASSUME NEW g \in Goroutines, FetchFails(g) PROVE CacheInv'
  <2>1. flight = g /\ run[g].existing \in Entries /\ Truthful(run[g].existing)
    BY <1>12 DEF FetchFails, At, IInv, TypeOK, CacheInv, RunInv
  <2>2. \A h \in Goroutines : RunInv(h)'
    BY <1>12, <2>1, ResultInv DEF FetchFails
  <2> QED
    BY <1>12, <2>2 DEF FetchFails, IInv, CacheInv, Truthful
<1>13. ASSUME NEW g \in Goroutines, StoreEntry(g) PROVE CacheInv'
  <2>1. flight = g /\ run[g].got \in Entries /\ Truthful(run[g].got) /\ run[g].got # None
    BY <1>13 DEF StoreEntry, At, IInv, TypeOK, CacheInv, RunInv
  <2>2. \A h \in Goroutines : RunInv(h)'
    BY <1>13, <2>1, ResultInv DEF StoreEntry
  <2> QED
    BY <1>13, <2>1, <2>2 DEF StoreEntry, CacheInv, Truthful
<1>14. ASSUME NEW g \in Goroutines, ReadFails(g) PROVE CacheInv'
  <2>1. flight = g /\ flight' = None /\ disk' = disk /\ entry' = entry
    BY <1>14 DEF ReadFails, At, IInv, CacheInv, RunInv
  <2>2. ASSUME NEW h \in Goroutines PROVE RunInv(h)'
    <3>1. h # None
      BY PdpSentinel
    <3>2. CASE h = g \/ At(h, "wait")
      <4>1. run'[h] = Idle
        BY <1>14, <3>2 DEF ReadFails
      <4> QED
        BY <2>1, <3>1, <4>1 DEF RunInv, Idle
    <3>3. CASE ~(h = g \/ At(h, "wait"))
      <4>1. run'[h] = run[h] /\ flight # h
        BY <1>14, <2>1, <3>3 DEF ReadFails
      <4> QED
        BY <2>1, <3>1, <4>1, SameInv
    <3> QED
      BY <3>2, <3>3
  <2> QED
    BY <2>1, <2>2 DEF IInv, CacheInv, Truthful
<1>15. ASSUME NEW g \in Goroutines, Compile(g) PROVE CacheInv'
  <2>1. flight # g /\ disk' = disk /\ entry' = entry /\ flight' = flight
    BY <1>15 DEF Compile, At, IInv, CacheInv, RunInv
  <2>2. CASE Finish(g, None)
    BY <2>1, <2>2, FinishInv
  <2>3. CASE \E t : run' = [run EXCEPT ![g] = [Idle EXCEPT !.stage = "load", !.thread = t]]
    <3>1. /\ \A h \in Goroutines \ {g} : run'[h] = run[h]
          /\ run'[g].existing = None /\ run'[g].got = None /\ run'[g].stage = "load"
      BY <2>3 DEF IInv, TypeOK, Idle
    <3> QED
      BY <2>1, <3>1, FinishInv
  <2> QED
    BY <1>15, <2>2, <2>3 DEF Compile
<1>16. ASSUME NEW g \in Goroutines, Reset(g) PROVE CacheInv'
  <2>1. /\ flight # g /\ disk' = disk /\ entry' = entry /\ flight' = flight
        /\ run[g].stage = "loaded"
    BY <1>16 DEF Reset, At, IInv, CacheInv, RunInv
  <2>2. CASE \E t : Finish(g, t)
    BY <2>1, <2>2, FinishInv
  <2>3. CASE \/ Goto(g, "call")
             \/ run' = [run EXCEPT ![g].stage = "call", ![g].thread.function = run[g].got.content]
    <3>1. /\ \A h \in Goroutines \ {g} : run'[h] = run[h]
          /\ run'[g].existing = run[g].existing /\ run'[g].got = run[g].got
          /\ run'[g].stage = "call"
      BY <2>3 DEF Goto, IInv, TypeOK
    <3>2. RunInv(g)'
      BY <2>1, <3>1 DEF RunInv, Truthful, IInv, CacheInv
    <3> QED
      BY <2>1, <3>1, <3>2, OwnInv
  <2>4. TypeOK /\ GotInv
    BY DEF IInv, CacheInv, RunInv, GotInv
  <2> QED
    BY <1>16, <2>2, <2>3, <2>4, ResetCases
<1>17. ASSUME NEW g \in Goroutines, Call(g) PROVE CacheInv'
  BY <1>17, FinishInv DEF Call, At, IInv, CacheInv, RunInv
<1> QED
  BY <1>1, <1>2, <1>3, <1>4, <1>5, <1>6, <1>7, <1>8, <1>9, <1>10, <1>11, <1>12, <1>13,
     <1>14, <1>15, <1>16, <1>17 DEF Next

\* The invariant of the specification.
LEMMA Invariant == Spec => []IInv
  BY InitInv, NextInv, PTL DEF Spec

\* The variables keep their types, whatever edits, expiries and goroutines come
\* together.
THEOREM TypeCorrect == Spec => []TypeOK
  BY Invariant, PTL DEF IInv

\* For any number of goroutines and edits a cached content that is no longer the
\* file's or the URL's has an older time stamp, so that the next check finds it.
THEOREM StaleNoticed == Spec => []StaleIsNoticed
<1>1. IInv => StaleIsNoticed
  <2> SUFFICES ASSUME IInv, entry.content # disk.content
               PROVE  entry.mtime < disk.mtime
    BY DEF StaleIsNoticed
  <2>1. entry \in Entries /\ Truthful(entry)
    BY DEF IInv, TypeOK, CacheInv
  <2>2. entry.mtime \in Nat /\ disk.mtime \in Nat
    BY <2>1, EntryType DEF IInv
  <2> QED
    BY <2>1, <2>2 DEF Truthful
<1> QED
  BY <1>1, Invariant, PTL

\* The entry a step stores, and those it gives to callers.
LEMMA StepGoesForward ==
  ASSUME IInv, [Next]_vars
  PROVE  /\ entry' # None /\ entry'.mtime >= entry.mtime
         /\ \A g \in Goroutines :
              At(g, "loaded")' /\ ~At(g, "loaded")
                => \/ run'[g].got.mtime >= entry.mtime
                   \/ flight # None /\ FetchFails(flight)
<1>1. entry \in Entries /\ entry' # None /\ entry.mtime \in Nat
  BY NextInv, EntryType DEF IInv, CacheInv, TypeOK
<1>2. ASSUME NEW g \in Goroutines, flight = g, NEW e, Result(g, e), e.mtime >= entry.mtime
      PROVE  \A h \in Goroutines :
               At(h, "loaded")' /\ ~At(h, "loaded") => run'[h].got.mtime >= entry.mtime
  BY <1>2 DEF Result, IInv, TypeOK, At
<1>3. CASE \E g \in Goroutines : Check(g)
  <2> PICK g \in Goroutines : Check(g)
    BY <1>3
  <2>1. flight = g /\ entry' = entry
    BY DEF Check, At, IInv, CacheInv, RunInv
  <2>2. CASE Result(g, entry)
    BY <1>1, <1>2, <2>1, <2>2
  <2>3. CASE Goto(g, "stat")
    BY <1>1, <2>1, <2>3 DEF Goto, IInv, TypeOK, At
  <2> QED
    BY <2>2, <2>3 DEF Check
<1>4. CASE \E g \in Goroutines : StoreEntry(g)
  <2> PICK g \in Goroutines : StoreEntry(g)
    BY <1>4
  <2>1. flight = g /\ run[g].got.mtime >= entry.mtime
    BY DEF StoreEntry, At, IInv, CacheInv, RunInv
  <2> QED
    BY <1>1, <1>2, <2>1 DEF StoreEntry
<1>5. CASE \E g \in Goroutines : FetchFails(g)
  <2> PICK g \in Goroutines : FetchFails(g)
    BY <1>5
  <2>1. flight = g /\ flight # None /\ entry' = entry
    BY PdpSentinel DEF FetchFails, At, IInv, CacheInv, RunInv
  <2> QED
    BY <1>1, <2>1
<1>6. CASE \E g \in Goroutines : Load(g)
  BY <1>1, <1>6 DEF Load, IInv, TypeOK, At
<1>7. CASE Expire
  <2>1. entry'.mtime = entry.mtime /\ run' = run
    BY <1>1, <1>7 DEF Expire, Entries
  <2> QED
    BY <1>1, <2>1 DEF At
<1>8. CASE \/ UNCHANGED vars \/ Edit \/ Collect
          \/ \E g \in Goroutines :
               \/ Take(g) \/ Do(g) \/ Stat(g) \/ ReadFile(g) \/ Fetch(g) \/ ReadFails(g)
               \/ Compile(g) \/ Reset(g) \/ Call(g)
  <2>1. entry' = entry
    BY <1>8 DEF vars, Edit, Collect, Take, Do, Stat, ReadFile, Fetch, ReadFails, Compile,
                Reset, Call
  <2>2. \A h \in Goroutines : At(h, "loaded")' => At(h, "loaded")
    <3>1. CASE UNCHANGED vars \/ Edit \/ Collect
      BY <3>1 DEF vars, Edit, Collect, At
    <3>2. ASSUME NEW g \in Goroutines,
                 Take(g) \/ Do(g) \/ Stat(g) \/ ReadFile(g) \/ Fetch(g)
          PROVE  \A h \in Goroutines : At(h, "loaded")' => At(h, "loaded")
      <4>1. CASE Take(g)
        BY <4>1 DEF Take, Goto, At, IInv, TypeOK
      <4>2. CASE Do(g)
        BY <4>2 DEF Do, Goto, At, IInv, TypeOK
      <4>3. CASE Stat(g)
        BY <4>3 DEF Stat, At, IInv, TypeOK
      <4>4. CASE ReadFile(g)
        BY <4>4 DEF ReadFile, At, IInv, TypeOK
      <4>5. CASE Fetch(g)
        BY <4>5 DEF Fetch, At, IInv, TypeOK
      <4> QED
        BY <3>2, <4>1, <4>2, <4>3, <4>4, <4>5
    <3>3. ASSUME NEW g \in Goroutines, ReadFails(g)
          PROVE  \A h \in Goroutines : At(h, "loaded")' => At(h, "loaded")
      BY <3>3 DEF ReadFails, At, IInv, TypeOK, Idle
    <3>4. ASSUME NEW g \in Goroutines, Compile(g) \/ Reset(g) \/ Call(g)
          PROVE  \A h \in Goroutines : At(h, "loaded")' => At(h, "loaded")
      <4>1. \A h \in Goroutines \ {g} : run'[h] = run[h]
        <5>1. TypeOK /\ GotInv
          BY DEF IInv, CacheInv, RunInv, GotInv
        <5> QED
          BY <3>4, <5>1, ResetCases DEF Compile, Call, Finish, Goto, TypeOK
      <4>2. At(g, "loaded")' => At(g, "loaded")
        <5>1. CASE Compile(g) \/ Reset(g)
          BY <5>1 DEF Compile, Reset
        <5>2. CASE Call(g)
          BY <5>2 DEF Call, Finish, At, IInv, TypeOK, Idle
        <5> QED
          BY <3>4, <5>1, <5>2
      <4> QED
        BY <4>1, <4>2 DEF At
    <3> QED
      BY <1>8, <3>1, <3>2, <3>3, <3>4
  <2> QED
    BY <1>1, <2>1, <2>2
<1> QED
  BY <1>3, <1>4, <1>5, <1>6, <1>7, <1>8 DEF Next

\* The cache never returns to an earlier state of the policies, and callers get
\* nothing older than it holds unless a URL could not be fetched.
THEOREM GoesForward == Spec => CacheGoesForward
<1>1. IInv /\ [Next]_vars
      => [/\ entry' # None /\ entry'.mtime >= entry.mtime
          /\ \A g \in Goroutines :
               At(g, "loaded")' /\ ~At(g, "loaded")
                 => \/ run'[g].got.mtime >= entry.mtime
                    \/ flight # None /\ FetchFails(flight)]_<<entry, run>>
  BY StepGoesForward
<1> QED
  BY <1>1, Invariant, PTL DEF Spec, CacheGoesForward

-----------------------------------------------------------------------------
(* Policies in a file that never gets back a content it had.               *)

\* Content c was the file's and is over: it is not there, not cached, and not on
\* the way into the cache.
Over(c) ==
  /\ c \in past /\ c # disk.content /\ c # entry.content
  /\ \A g \in Goroutines : run[g].stage = "store" => run[g].got.content # c

\* What the cache has given to a caller is still cached, or over.
Given(c) == c = entry.content \/ Over(c)

\* Whoever stores another content than the cached one makes that one over.
StoreInv ==
  /\ disk.content \in past /\ entry.content \in past
  /\ \A g \in Goroutines : run[g].stage = "store" =>
       /\ run[g].got.content \in past
       /\ run[g].got.content # entry.content => entry.content # disk.content

\* A thread entry is made of a content that was given; its function is another one
\* only when that content is over.
ThreadInv(t) == Given(t.hash) /\ (t.function # t.hash => Over(t.hash))

\* A goroutine that was given a content compares it with the hash of its thread
\* entry: the same means that the function is the content's, too.
CallerInv(g) ==
  LET c == run[g].got.content
      t == run[g].thread
  IN /\ t # None => ThreadInv(t)
     /\ run[g].stage = "loaded" => Given(c)
     /\ run[g].stage = "loaded" /\ t # None =>
          /\ t.function # t.hash => c # t.hash
          /\ c # t.hash => Over(t.hash)
     /\ run[g].stage = "call" => t # None /\ t.function = c

FileInv ==
  disk.at = "file" =>
    /\ StoreInv
    /\ \A t \in BagToSet(pool) : ThreadInv(t)
    /\ \A g \in Goroutines : CallerInv(g)

\* With a file, a step changes the policies, replaces the cached content by the one
\* that was to be stored, or reads the file in order to store it.
LEMMA FileStep ==
  ASSUME ~Reverts, IInv, disk.at = "file", [Next]_vars
  PROVE  /\ past \subseteq past' /\ disk'.at = "file"
         /\ \/ disk' = disk
            \/ /\ disk'.content \notin past /\ disk'.content \in past'
               /\ entry' = entry /\ run' = run
         /\ \/ entry'.content = entry.content
            \/ /\ \E g \in Goroutines : run[g].stage = "store" /\ entry' = run[g].got
               /\ \A h \in Goroutines : run'[h].stage # "store"
         /\ \A g \in Goroutines : run'[g].stage = "store" =>
              \/ run[g].stage = "store" /\ run'[g].got = run[g].got
              \/ run'[g].got.content = disk.content /\ entry' = entry
<1> DEFINE Kept == \A g \in Goroutines : run'[g].stage = "store" =>
                      run[g].stage = "store" /\ run'[g].got = run[g].got
<1>0. TypeOK /\ GotInv /\ run' \in [Goroutines -> Runs]
  BY NextInv DEF IInv, CacheInv, RunInv, GotInv, TypeOK, Runs
<1>1. CASE UNCHANGED vars \/ Collect
  BY <1>1 DEF vars, Collect
<1>2. CASE Edit
  BY <1>0, <1>2 DEF Edit, TypeOK
<1>3. CASE Expire
  <2>1. entry'.content = entry.content
    BY <1>0, <1>3, PdpSentinel DEF Expire, TypeOK, Entries
  <2> QED
    BY <1>3, <2>1 DEF Expire
<1>4. ASSUME NEW g \in Goroutines, run[g].stage # "store", run'[g].stage # "store",
             \A h \in Goroutines \ {g} : run'[h] = run[h] \/ run'[h].stage # "store"
      PROVE  Kept
  BY <1>4
<1>5. ASSUME NEW g \in Goroutines, Take(g) \/ Load(g) \/ Do(g) PROVE Kept
  <2>1. CASE Take(g)
    BY <1>0, <2>1 DEF Take, Goto, At, TypeOK
  <2>2. CASE Load(g)
    BY <1>0, <2>2 DEF Load, At, TypeOK
  <2>3. CASE Do(g)
    BY <1>0, <2>3 DEF Do, Goto, At, TypeOK
  <2> QED
    BY <1>5, <2>1, <2>2, <2>3
<1>6. ASSUME NEW g \in Goroutines, NEW e, flight = g, Result(g, e)
      PROVE  \A h \in Goroutines : run'[h].stage # "store"
  BY <1>0, <1>6 DEF Result, TypeOK, IInv, CacheInv, RunInv
<1>7. ASSUME NEW g \in Goroutines, Check(g) PROVE Kept
  <2>1. flight = g
    BY <1>7 DEF Check, At, IInv, CacheInv, RunInv
  <2> QED
    BY <1>0, <1>6, <1>7, <2>1 DEF Check, Goto, At, TypeOK
<1>8. CASE \E g \in Goroutines : StoreEntry(g)
  <2> PICK g \in Goroutines : StoreEntry(g)
    BY <1>8
  <2>1. flight = g /\ run[g].stage = "store"
    BY DEF StoreEntry, At, IInv, CacheInv, RunInv
  <2> QED
    BY <1>6, <2>1 DEF StoreEntry
<1>9. CASE \E g \in Goroutines : Stat(g)
  <2> PICK g \in Goroutines : Stat(g)
    BY <1>9
  <2>1. \A h \in Goroutines \ {g} : run'[h] = run[h]
    BY <1>0 DEF Stat, TypeOK
  <2>2. run'[g].stage = "store" => run'[g].got.content = disk.content
    <3> SUFFICES ASSUME run'[g].stage = "store" PROVE run'[g].got.content = disk.content
      OBVIOUS
    <3>1. /\ run[g].existing # None /\ run[g].existing.mtime >= disk.mtime
          /\ run'[g].got = [run[g].existing EXCEPT !.fresh = TRUE]
      BY <1>0 DEF Stat, TypeOK
    <3>2. run[g].existing \in Entries /\ Truthful(run[g].existing)
      BY <3>1 DEF IInv, TypeOK, CacheInv, RunInv
    <3>3. run[g].existing.content = disk.content
      <4>1. run[g].existing.mtime \in Nat /\ disk.mtime \in Nat
        BY <1>0, <3>2, EntryType
      <4> QED
        BY <3>1, <3>2, <4>1 DEF Truthful
    <3>4. [run[g].existing EXCEPT !.fresh = TRUE].content = run[g].existing.content
      BY <1>0, <3>2, EntryType
    <3> QED
      BY <3>1, <3>3, <3>4
  <2> QED
    BY <2>1, <2>2 DEF Stat
<1>10. CASE \E g \in Goroutines : ReadFile(g)
  <2> PICK g \in Goroutines : ReadFile(g)
    BY <1>10
  <2>1. \A h \in Goroutines \ {g} : run'[h] = run[h]
    BY <1>0 DEF ReadFile, TypeOK
  <2>2. run[g].got \in Entries
    BY <1>0 DEF ReadFile, At, GotInv, TypeOK
  <2>3. run'[g].got.content = disk.content
    BY <1>0, <2>2 DEF ReadFile, TypeOK, Entries
  <2> QED
    BY <2>1, <2>3 DEF ReadFile
<1>11. ASSUME NEW g \in Goroutines, ReadFails(g) PROVE Kept
  BY <1>0, <1>11 DEF ReadFails, TypeOK, Idle
<1>12. ASSUME NEW g \in Goroutines, Compile(g) PROVE Kept
  <2>1. CASE Finish(g, None)
    BY <1>0, <2>1 DEF Finish, TypeOK, Idle
  <2>2. CASE \E t : run' = [run EXCEPT ![g] = [Idle EXCEPT !.stage = "load", !.thread = t]]
    <3>1. (\A h \in Goroutines \ {g} : run'[h] = run[h]) /\ run'[g].stage = "load"
      BY <1>0, <2>2 DEF TypeOK, Idle
    <3> QED
      BY <3>1
  <2> QED
    BY <1>12, <2>1, <2>2 DEF Compile
<1>13. ASSUME NEW g \in Goroutines, Reset(g) PROVE Kept
  <2>1. CASE \E t : Finish(g, t)
    BY <1>0, <2>1 DEF Finish, TypeOK, Idle
  <2>2. CASE \/ Goto(g, "call")
             \/ run' = [run EXCEPT ![g].stage = "call", ![g].thread.function = run[g].got.content]
    <3>1. (\A h \in Goroutines \ {g} : run'[h] = run[h]) /\ run'[g].stage = "call"
      BY <1>0, <2>2 DEF Goto, TypeOK
    <3> QED
      BY <3>1
  <2> HIDE DEF Kept
  <2> QED
    BY <1>0, <1>13, <2>1, <2>2, ResetCases
<1>14. ASSUME NEW g \in Goroutines, Call(g) PROVE Kept
  BY <1>0, <1>14 DEF Call, Finish, TypeOK, Idle
<1>15. ASSUME NEW g \in Goroutines,
              \/ Take(g) \/ Load(g) \/ Do(g) \/ Check(g) \/ ReadFails(g)
              \/ Compile(g) \/ Reset(g) \/ Call(g)
       PROVE  disk' = disk /\ past' = past /\ entry' = entry /\ Kept
  <2>1. disk' = disk /\ past' = past /\ entry' = entry
    BY <1>15 DEF Take, Load, Do, Check, ReadFails, Compile, Reset, Call
  <2> HIDE DEF Kept
  <2> QED
    BY <1>5, <1>7, <1>11, <1>12, <1>13, <1>14, <1>15, <2>1
<1>16. ~ \E g \in Goroutines : Fetch(g) \/ FetchFails(g)
  BY DEF Fetch, FetchFails
<1> QED
  BY <1>1, <1>2, <1>3, <1>8, <1>9, <1>10, <1>15, <1>16 DEF Next

\* What is over stays over, and what was given stays given.
LEMMA OverStays ==
  ASSUME ~Reverts, IInv, StoreInv, disk.at = "file", [Next]_vars
  PROVE  /\ StoreInv'
         /\ \A c : Over(c) => Over(c)'
         /\ \A c : Given(c) => Given(c)'
<1>1. \A c : Over(c) => Over(c)'
  BY FileStep DEF Over, StoreInv
<1>2. StoreInv'
  BY FileStep DEF StoreInv
<1>3. \A c : Given(c) => Given(c)'
  BY <1>1, FileStep DEF Given, Over, StoreInv
<1> QED
  BY <1>1, <1>2, <1>3

LEMMA InitFile == Init => FileInv
<1> SUFFICES ASSUME Init PROVE FileInv
  OBVIOUS
<1>1. PICK p \in Contents, at \in {"file", "url"} :
        /\ disk = [at |-> at, content |-> p, mtime |-> 0]
        /\ past = {p}
        /\ entry = [content |-> p, mtime |-> 0, fresh |-> TRUE]
  BY DEF Init
<1>2. BagToSet(pool) = {} /\ \A g \in Goroutines : run[g] = Idle
  BY PoolEmpty DEF Init
<1>3. StoreInv
  BY <1>1, <1>2 DEF StoreInv, Idle
<1>4. \A g \in Goroutines : CallerInv(g)
  BY <1>2 DEF CallerInv, Idle
<1> QED
  BY <1>2, <1>3, <1>4 DEF FileInv

\* A goroutine that keeps its thread entry, and its place unless it was given
\* nothing since, knows no more than before.
LEMMA SameCaller ==
  ASSUME ~Reverts, IInv, StoreInv, disk.at = "file", [Next]_vars,
         NEW g \in Goroutines, CallerInv(g),
         \/ run'[g] = run[g]
         \/ run'[g].thread = run[g].thread /\ run'[g].stage \notin {"loaded", "call"}
  PROVE  CallerInv(g)'
<1>1. \A t : ThreadInv(t) => ThreadInv(t)'
  BY OverStays DEF ThreadInv
<1> QED
  BY <1>1, OverStays DEF CallerInv

\* A goroutine that is given the cached content compares it with a hash whose
\* content is cached, too, or over.
LEMMA CallerGets ==
  ASSUME ~Reverts, IInv, StoreInv, disk.at = "file", [Next]_vars,
         NEW g \in Goroutines, CallerInv(g), run'[g].stage = "loaded",
         run'[g].thread = run[g].thread, run'[g].got.content = entry'.content
  PROVE  CallerInv(g)'
<1>1. \A t : ThreadInv(t) => ThreadInv(t)'
  BY OverStays DEF ThreadInv
<1>2. run[g].thread # None => ThreadInv(run[g].thread)'
  BY <1>1 DEF CallerInv
<1> QED
  BY <1>2 DEF CallerInv, ThreadInv, Given, Over

\* A goroutine that was given the function's result knows it.
LEMMA CallersGet ==
  ASSUME ~Reverts, IInv, StoreInv, disk.at = "file", [Next]_vars,
         \A g \in Goroutines : CallerInv(g),
         NEW g \in Goroutines, NEW e, Result(g, e), e.content = entry'.content
  PROVE  \A h \in Goroutines : CallerInv(h)'
<1> SUFFICES ASSUME NEW h \in Goroutines PROVE CallerInv(h)'
  OBVIOUS
<1>1. CASE h = g \/ At(h, "wait")
  <2>1. run'[h] = [run[h] EXCEPT !.stage = "loaded", !.got = e, !.existing = None]
    BY <1>1 DEF Result
  <2>2. run[h] \in Runs
    BY DEF IInv, TypeOK, Runs
  <2>3. run'[h].stage = "loaded" /\ run'[h].thread = run[h].thread /\ run'[h].got = e
    BY <2>1, <2>2 DEF Runs
  <2> QED
    BY <2>3, CallerGets
<1>2. CASE ~(h = g \/ At(h, "wait"))
  <2>1. run'[h] = run[h]
    BY <1>2 DEF Result
  <2> QED
    BY <2>1, SameCaller
<1> QED
  BY <1>1, <1>2

\* A decision that is over: the thread entry goes back as it is known.
LEMMA FinishFile ==
  ASSUME ~Reverts, IInv, StoreInv, disk.at = "file", [Next]_vars,
         \A t \in BagToSet(pool) : ThreadInv(t),
         \A g \in Goroutines : CallerInv(g),
         NEW g \in Goroutines, NEW t \in Threads \cup {None}, Finish(g, t),
         t # None => ThreadInv(t)
  PROVE  /\ \A u \in BagToSet(pool') : ThreadInv(u)'
         /\ \A h \in Goroutines : CallerInv(h)'
<1>1. \A u : ThreadInv(u) => ThreadInv(u)'
  BY OverStays DEF ThreadInv
<1>2. BagToSet(pool') \subseteq BagToSet(pool) \cup ({t} \ {None})
  BY FinishType DEF IInv
<1>3. run' = [run EXCEPT ![g] = Idle]
  BY DEF Finish
<1>4. CallerInv(g)'
  <2>1. run'[g] = Idle
    BY <1>3 DEF IInv, TypeOK
  <2> QED
    BY <2>1 DEF CallerInv, Idle
<1>5. \A h \in Goroutines \ {g} : CallerInv(h)'
  BY <1>3, SameCaller DEF IInv, TypeOK
<1> QED
  BY <1>1, <1>2, <1>4, <1>5

\* The pool and the goroutines after a step, where the policies are a file.
LEMMA CallersStep ==
  ASSUME ~Reverts, IInv, StoreInv, disk.at = "file", [Next]_vars,
         \A t \in BagToSet(pool) : ThreadInv(t),
         \A g \in Goroutines : CallerInv(g)
  PROVE  /\ \A t \in BagToSet(pool') : ThreadInv(t)'
         /\ \A g \in Goroutines : CallerInv(g)'
<1> DEFINE PoolAfter == \A t \in BagToSet(pool') : ThreadInv(t)'
           CallersAfter == \A g \in Goroutines : CallerInv(g)'
<1>0. TypeOK /\ GotInv
  BY DEF IInv, CacheInv, RunInv, GotInv
<1>1. \A t : ThreadInv(t) => ThreadInv(t)'
  BY OverStays DEF ThreadInv
<1>2. ASSUME BagToSet(pool') \subseteq BagToSet(pool) PROVE PoolAfter
  BY <1>1, <1>2
<1>3. CASE run' = run /\ BagToSet(pool') \subseteq BagToSet(pool)
  BY <1>2, <1>3, SameCaller
<1>4. CASE UNCHANGED vars \/ Edit \/ Expire \/ Collect
  BY <1>3, <1>4, PoolLoses DEF vars, Edit, Expire, Collect
<1>5. ASSUME NEW g \in Goroutines, Take(g) PROVE PoolAfter /\ CallersAfter
  <2>1. CASE \E t \in BagToSet(pool) :
               /\ pool' = pool (-) SetToBag({t})
               /\ run' = [run EXCEPT ![g].thread = t, ![g].stage = "load"]
    <3> PICK t \in BagToSet(pool) :
               /\ pool' = pool (-) SetToBag({t})
               /\ run' = [run EXCEPT ![g].thread = t, ![g].stage = "load"]
      BY <2>1
    <3>1. PoolAfter
      BY <1>2, PoolLoses
    <3>2. /\ run'[g].thread = t /\ run'[g].stage = "load"
          /\ \A h \in Goroutines \ {g} : run'[h] = run[h]
      BY <1>0 DEF TypeOK
    <3>3. CallerInv(g)'
      BY <1>1, <3>2 DEF CallerInv
    <3> QED
      BY <3>1, <3>2, <3>3, SameCaller
  <2>2. CASE Goto(g, "load") /\ pool' = pool
    <3>1. /\ run'[g].thread = run[g].thread /\ run'[g].stage = "load"
          /\ \A h \in Goroutines \ {g} : run'[h] = run[h]
      BY <1>0, <2>2 DEF Goto, TypeOK
    <3> QED
      BY <1>2, <2>2, <3>1, SameCaller
  <2> QED
    BY <1>5, <2>1, <2>2 DEF Take
<1>6. ASSUME NEW g \in Goroutines, Load(g) PROVE PoolAfter /\ CallersAfter
  <2>1. \A h \in Goroutines \ {g} : run'[h] = run[h]
    BY <1>0, <1>6 DEF Load, TypeOK
  <2>2. CASE run'[g].stage = "loaded"
    <3>1. run'[g].thread = run[g].thread /\ run'[g].got = entry /\ entry' = entry
      BY <1>0, <1>6, <2>2 DEF Load, TypeOK
    <3> QED
      BY <1>2, <1>6, <2>1, <2>2, <3>1, SameCaller, CallerGets DEF Load
  <2>3. CASE run'[g].stage # "loaded"
    <3>1. run'[g].thread = run[g].thread /\ run'[g].stage = "do"
      BY <1>0, <1>6, <2>3 DEF Load, TypeOK
    <3> QED
      BY <1>2, <1>6, <2>1, <3>1, SameCaller DEF Load
  <2> QED
    BY <2>2, <2>3
<1>7. ASSUME NEW g \in Goroutines, Do(g) \/ Stat(g) \/ ReadFile(g)
      PROVE  PoolAfter /\ CallersAfter
  <2>1. \A h \in Goroutines \ {g} : run'[h] = run[h]
    BY <1>0, <1>7 DEF Do, Stat, ReadFile, Goto, TypeOK
  <2>2. run'[g].thread = run[g].thread /\ run'[g].stage \notin {"loaded", "call"}
    <3>1. CASE Do(g)
      BY <1>0, <3>1 DEF Do, Goto, TypeOK
    <3>2. CASE Stat(g)
      BY <1>0, <3>2 DEF Stat, TypeOK
    <3>3. CASE ReadFile(g)
      BY <1>0, <3>3 DEF ReadFile, TypeOK
    <3> QED
      BY <1>7, <3>1, <3>2, <3>3
  <2>3. pool' = pool
    BY <1>7 DEF Do, Stat, ReadFile
  <2> QED
    BY <1>2, <2>1, <2>2, <2>3, SameCaller
<1>8. ASSUME NEW g \in Goroutines, Check(g) PROVE PoolAfter /\ CallersAfter
  <2>1. pool' = pool /\ entry' = entry
    BY <1>8 DEF Check
  <2>2. CASE Result(g, entry)
    BY <1>2, <2>1, <2>2, CallersGet
  <2>3. CASE Goto(g, "stat")
    <3>1. /\ run'[g].thread = run[g].thread /\ run'[g].stage = "stat"
          /\ \A h \in Goroutines \ {g} : run'[h] = run[h]
      BY <1>0, <2>3 DEF Goto, TypeOK
    <3> QED
      BY <1>2, <2>1, <3>1, SameCaller
  <2> QED
    BY <1>8, <2>2, <2>3 DEF Check
<1>9. ASSUME NEW g \in Goroutines, StoreEntry(g) PROVE PoolAfter /\ CallersAfter
  BY <1>2, <1>9, CallersGet DEF StoreEntry
<1>10. ASSUME NEW g \in Goroutines, ReadFails(g) PROVE PoolAfter /\ CallersAfter
  <2> DEFINE failed == {h \in Goroutines : h = g \/ At(h, "wait")}
             given == {h \in failed : run[h].thread # None}
             back == [t \in {run[h].thread : h \in given} |->
                        Cardinality({h \in given : run[h].thread = t})]
  <2>1. pool' = pool (+) back /\ \A t \in DOMAIN back : ThreadInv(t)
    BY <1>10 DEF ReadFails, CallerInv
  <2>2. \A h \in Goroutines : run'[h] = Idle \/ run'[h] = run[h]
    BY <1>10 DEF ReadFails
  <2> HIDE DEF back
  <2>3. BagToSet(pool') = BagToSet(pool) \cup DOMAIN back
    BY <2>1 DEF (+), BagToSet
  <2>4. PoolAfter
    BY <1>1, <2>1, <2>3
  <2>5. CallersAfter
    BY <2>2, SameCaller DEF CallerInv, Idle
  <2> QED
    BY <2>4, <2>5
<1>11. ASSUME NEW g \in Goroutines, Compile(g) PROVE PoolAfter /\ CallersAfter
  <2>1. CASE Finish(g, None)
    BY <2>1, FinishFile
  <2>2. CASE /\ pool' = pool
             /\ run' = [run EXCEPT ![g] = [Idle EXCEPT !.stage = "load",
                          !.thread = [function |-> run[g].got.content,
                                      hash |-> run[g].got.content]]]
    <3>1. \A h \in Goroutines \ {g} : run'[h] = run[h]
      BY <1>0, <2>2 DEF TypeOK
    <3>2. /\ run'[g].stage = "load"
          /\ run'[g].thread = [function |-> run[g].got.content, hash |-> run[g].got.content]
      BY <1>0, <2>2 DEF TypeOK, Idle
    <3>3. Given(run[g].got.content)
      BY <1>11 DEF Compile, At, CallerInv
    <3>4. ThreadInv(run'[g].thread)
      BY <3>2, <3>3 DEF ThreadInv
    <3>5. CallerInv(g)'
      BY <1>1, <3>2, <3>4 DEF CallerInv
    <3> QED
      BY <1>2, <2>2, <3>1, <3>5, SameCaller
  <2> QED
    BY <1>11, <2>1, <2>2 DEF Compile
<1>12. ASSUME NEW g \in Goroutines, Reset(g) PROVE PoolAfter /\ CallersAfter
  <2> DEFINE c == run[g].got.content
             t == run[g].thread
  <2>1. /\ c \in Contents /\ t \in Threads /\ t.hash \in Policies
        /\ run[g].stage = "loaded" /\ t # None
    BY <1>0, <1>12, ResetCases DEF Reset, At, Threads
  <2>2. /\ ThreadInv(t) /\ Given(c)
        /\ t.function # t.hash => c # t.hash
        /\ c # t.hash => Over(t.hash)
    BY <2>1 DEF CallerInv
  <2>3. CASE c = t.hash /\ Goto(g, "call") /\ pool' = pool
    <3>1. /\ run'[g].thread = t /\ run'[g].stage = "call" /\ run'[g].got = run[g].got
          /\ \A h \in Goroutines \ {g} : run'[h] = run[h]
      BY <1>0, <2>3 DEF Goto, TypeOK
    <3>2. CallerInv(g)'
      BY <1>1, <2>1, <2>2, <2>3, <3>1 DEF CallerInv
    <3> QED
      BY <1>2, <2>3, <3>1, <3>2, SameCaller
  <2>4. CASE /\ c # t.hash /\ pool' = pool
             /\ run' = [run EXCEPT ![g].stage = "call", ![g].thread.function = c]
    <3>1. /\ run'[g].thread = [t EXCEPT !.function = c]
          /\ run'[g].stage = "call" /\ run'[g].got = run[g].got
          /\ \A h \in Goroutines \ {g} : run'[h] = run[h]
      BY <1>0, <2>4 DEF TypeOK
    <3>2. [t EXCEPT !.function = c] = [function |-> c, hash |-> t.hash]
      BY <2>1 DEF Threads
    <3>3. ThreadInv(run'[g].thread)
      BY <2>2, <2>4, <3>1, <3>2 DEF ThreadInv
    <3>4. [function |-> c, hash |-> t.hash] # None
      BY <2>1, <3>2, PdpSentinel, <1>0, NextInv, <3>1, <2>4 DEF IInv, TypeOK, Threads
    <3>5. CallerInv(g)'
      BY <1>1, <3>1, <3>2, <3>3, <3>4 DEF CallerInv
    <3> QED
      BY <1>2, <2>4, <3>1, <3>5, SameCaller
  <2>5. CASE Finish(g, t)
    BY <2>1, <2>2, <2>5, FinishFile
  <2>6. CASE c \notin Policies /\ Finish(g, [t EXCEPT !.function = None])
    <3>1. [t EXCEPT !.function = None] \in Threads /\ [t EXCEPT !.function = None].hash = t.hash
      BY <2>1 DEF Threads
    <3>2. ThreadInv([t EXCEPT !.function = None])
      BY <2>1, <2>2, <2>6, <3>1 DEF ThreadInv
    <3> QED
      BY <2>6, <3>1, <3>2, FinishFile
  <2> QED
    BY <1>0, <1>12, <2>3, <2>4, <2>5, <2>6, ResetCases
<1>13. ASSUME NEW g \in Goroutines, Call(g) PROVE PoolAfter /\ CallersAfter
  <2>1. run[g].thread \in Threads \cup {None}
    BY <1>0 DEF TypeOK
  <2> QED
    BY <1>13, <2>1, FinishFile DEF Call, CallerInv
<1>14. ~ \E g \in Goroutines : Fetch(g) \/ FetchFails(g)
  BY DEF Fetch, FetchFails
<1> QED
  BY <1>4, <1>5, <1>6, <1>7, <1>8, <1>9, <1>10, <1>11, <1>12, <1>13, <1>14 DEF Next

\* The policies stay where they are.
LEMMA Stays ==
  ASSUME TypeOK, [Next]_vars
  PROVE  disk'.at = disk.at
<1>1. CASE Edit
  BY <1>1 DEF Edit, TypeOK
<1>2. CASE UNCHANGED vars \/ (Next /\ ~Edit)
  <2>1. disk' = disk
    BY <1>2 DEF Next, vars, Expire, Collect, Take, Load, Do, Check, Stat, ReadFile, Fetch,
                FetchFails, StoreEntry, ReadFails, Compile, Reset, Call
  <2> QED
    BY <2>1
<1> QED
  BY <1>1, <1>2

\* A decision is made with the policy that its reset got from the cache, for any
\* number of goroutines, edits and thread entries, when the policies are in a file
\* and no edit brings back a content the file had before.
THEOREM FileDecides ==
  ASSUME ~Reverts
  PROVE  Spec => []FileDecidesByPolicyRead
<1>1. IInv /\ FileInv /\ [Next]_vars => FileInv'
  BY OverStays, CallersStep, Stays DEF FileInv, IInv
<1>2. FileInv => FileDecidesByPolicyRead
  BY DEF FileInv, FileDecidesByPolicyRead, DecidesByPolicyRead, CallerInv, At
<1> QED
  BY <1>1, <1>2, InitFile, Invariant, PTL DEF Spec
=============================================================================
