--------------------------- MODULE TMFProxyProofs ---------------------------
(***************************************************************************)
(* The safety properties of TMFProxy, proved for any finite set of ids and *)
(* any numbers of workers, requests, changes by others and faults.         *)
(***************************************************************************)
EXTENDS TMFProxy, TMFNaturals, FiniteSetTheorems, SequenceTheorems

-----------------------------------------------------------------------------
(* The inductive invariant.                                                *)

WasInvalid(id) == had[id] \ ValidContents # {}

\* What a process carries from one step to the next: contents the remote had,
\* whatever it has now; ids of objects that were invalid at some time; and the
\* id of an object that is gone for good.
JobInv(j) ==
  /\ j.stage \in {"store", "cache", "update"} => j.content \in had[j.id]
  /\ j.stage = "forget" => remote[j.id] = NoContent /\ ~Unused(j.id)
  /\ j.stage = "page" => \A n \in DOMAIN j.rest : j.rest[n].content \in had[j.rest[n].id]
  /\ j.stage \in {"page", "purge"} => \A id \in j.bad : WasInvalid(id)

RemoteInv == \A id \in Ids : remote[id] # NoContent => remote[id] \in had[id]

IInv ==
  /\ TypeOK
  /\ RemoteInv
  /\ \A p \in Procs : JobInv(job[p])
  /\ NothingInvented

-----------------------------------------------------------------------------
(* The remote's list.                                                      *)

LEMMA OrderType ==
  Order \in [1..Cardinality(Ids) -> Ids] /\ Cardinality(Ids) \in Nat
<1>1. PICK n \in Nat : ExistsBijection(1..n, Ids)
  BY ProxyAssumption, FS_NatBijection
<1>2. Cardinality(Ids) = n
  BY <1>1, FS_CountingElements
<1>3. \E f \in [1..n -> Ids] : IsInjective(f)
  BY <1>1 DEF ExistsBijection, Bijection, Injection, IsInjective
<1> QED
  BY <1>2, <1>3 DEF Order, SetToSeq

\* The n-th step of the recursion.
Upto(f, n) ==
  IF n = 0 THEN << >>
  ELSE IF remote[Order[n]] = NoContent THEN f[n - 1]
  ELSE Append(f[n - 1], [id |-> Order[n], content |-> remote[Order[n]]])

\* The recursion defines a function.
LEMMA UptoExists ==
  ASSUME NEW size \in Nat
  PROVE  \E f : f = [n \in 0..size |-> Upto(f, n)]
<1> DEFINE S == {m \in Nat : \E f : f = [n \in 0..m |-> Upto(f, n)]}
<1>1. 0 \in S
  <2>1. [n \in 0..0 |-> << >>] = [n \in 0..0 |-> Upto([i \in 0..0 |-> << >>], n)]
    BY DEF Upto
  <2> QED
    BY <2>1
<1>2. ASSUME NEW m \in S PROVE m + 1 \in S
  <2>1. PICK f : f = [n \in 0..m |-> Upto(f, n)]
    OBVIOUS
  <2> DEFINE g == [n \in 0..(m + 1) |-> IF n = m + 1 THEN Upto(f, m + 1) ELSE f[n]]
  <2>2. \A n \in 0..m : g[n] = f[n]
    OBVIOUS
  <2>3. ASSUME NEW n \in 0..(m + 1) PROVE Upto(g, n) = Upto(f, n)
    <3>1. n # 0 => n - 1 \in 0..m
      OBVIOUS
    <3> HIDE DEF g
    <3> QED
      BY <2>2, <3>1 DEF Upto
  <2>4. ASSUME NEW n \in 0..(m + 1) PROVE g[n] = Upto(f, n)
    <3>1. CASE n = m + 1
      BY <3>1
    <3>2. CASE n # m + 1
      <4>1. n \in 0..m
        BY <3>2
      <4> QED
        BY <2>1, <2>2, <4>1
    <3> QED
      BY <3>1, <3>2
  <2>5. g = [n \in 0..(m + 1) |-> g[n]]
    OBVIOUS
  <2> HIDE DEF g
  <2>6. g = [n \in 0..(m + 1) |-> Upto(g, n)]
    BY <2>3, <2>4, <2>5
  <2> QED
    BY <2>6
<1> HIDE DEF S
<1>3. Nat \subseteq S
  BY <1>1, <1>2, NaturalsCovered
<1> QED
  BY <1>3 DEF S

\* The list holds objects as the remote has them.
Sent == {got \in Received : got.content = remote[got.id]}

LEMMA ListingType ==
  ASSUME remote \in [Ids -> Contents \cup {NoContent}]
  PROVE  Listing \in Seq(Sent)
<1> DEFINE size == Cardinality(Ids)
           F == CHOOSE f : f = [n \in 0..size |-> Upto(f, n)]
<1>1. size \in Nat /\ Order \in [1..size -> Ids]
  BY OrderType
<1>2. F = [n \in 0..size |-> Upto(F, n)]
  BY <1>1, UptoExists
<1>3. Listing = F[size]
  BY DEF Listing, Upto
<1> HIDE DEF F, size
<1> DEFINE S == {n \in Nat : n <= size => F[n] \in Seq(Sent)}
<1>4. 0 \in S
  <2>1. F[0] = << >>
    BY <1>1, <1>2 DEF Upto
  <2>2. << >> \in Seq(Sent)
    OBVIOUS
  <2> QED
    BY <2>1, <2>2
<1>5. ASSUME NEW n \in S PROVE n + 1 \in S
  <2> SUFFICES ASSUME n + 1 <= size PROVE F[n + 1] \in Seq(Sent)
    OBVIOUS
  <2>1. n + 1 \in 0..size /\ n + 1 \in 1..size /\ n + 1 # 0 /\ (n + 1) - 1 = n /\ n <= size
    BY <1>1
  <2>2. F[n + 1] = Upto(F, n + 1) /\ F[n] \in Seq(Sent) /\ Order[n + 1] \in Ids
    BY <1>1, <1>2, <2>1
  <2> DEFINE id == Order[n + 1]
             got == [id |-> id, content |-> remote[id]]
  <2>3. remote[id] # NoContent => got \in Sent
    BY <2>2 DEF Sent, Received
  <2>4. F[n + 1] = F[n] \/ (got \in Sent /\ F[n + 1] = Append(F[n], got))
    BY <2>1, <2>2, <2>3 DEF Upto
  <2> HIDE DEF got
  <2> QED
    BY <2>2, <2>4
<1> HIDE DEF S
<1>6. Nat \subseteq S
  BY <1>4, <1>5, NaturalsCovered
<1> QED
  BY <1>1, <1>3, <1>6 DEF S

\* A page of the list, or the empty sequence behind its end.
LEMMA PageType ==
  ASSUME remote \in [Ids -> Contents \cup {NoContent}], NEW offset \in Nat
  PROVE  SubSeq(Listing, offset + 1, Min({offset + PageSize, Len(Listing)})) \in Seq(Sent)
<1> DEFINE last == Min({offset + PageSize, Len(Listing)})
<1>1. Listing \in Seq(Sent) /\ Len(Listing) \in Nat /\ PageSize \in Nat
  BY ListingType, ProxyAssumption
<1>2. last \in {offset + PageSize, Len(Listing)} /\ last \in Int /\ last <= Len(Listing)
  <2> DEFINE a == offset + PageSize
             b == Len(Listing)
  <2>1. a \in Int /\ b \in Int
    BY <1>1
  <2> HIDE DEF a, b
  <2>2. \E x \in {a, b} : \A y \in {a, b} : x <= y
    BY <2>1
  <2>3. Min({a, b}) \in {a, b} /\ \A y \in {a, b} : Min({a, b}) <= y
    BY <2>2 DEF Min
  <2>4. Min({a, b}) \in {a, b} /\ Min({a, b}) \in Int /\ Min({a, b}) <= b
    BY <2>1, <2>3
  <2> QED
    BY <2>4 DEF a, b
<1> HIDE DEF last
<1>3. CASE offset + 1 <= last
  <2>1. \A i \in (offset + 1)..last : Listing[i] \in Sent
    <3> SUFFICES ASSUME NEW i \in (offset + 1)..last PROVE Listing[i] \in Sent
      OBVIOUS
    <3>1. i \in 1..Len(Listing)
      BY <1>1, <1>2
    <3> QED
      BY <1>1, <3>1
  <2>2. /\ Listing \in Seq(Sent) /\ offset + 1 \in 1..(Len(Listing) + 1)
        /\ last \in 0..Len(Listing)
    BY <1>1, <1>2, <1>3
  <2>3. SubSeq(Listing, offset + 1, last) \in Seq(Sent)
    BY <2>1, <2>2, SubSeqProperties
  <2> QED
    BY <2>3 DEF last
<1>4. CASE ~(offset + 1 <= last)
  <2>1. SubSeq(Listing, offset + 1, last) = << >>
    BY <1>1, <1>2, <1>4, SubSeqEmpty
  <2>2. << >> \in Seq(Sent)
    OBVIOUS
  <2> QED
    BY <2>1, <2>2 DEF last
<1> QED
  BY <1>3, <1>4

-----------------------------------------------------------------------------
(* What steps have in common.                                              *)

\* The remote remembers, and an object that is gone does not come back.
Grows ==
  /\ remote' \in [Ids -> Contents \cup {NoContent}] /\ had' \in [Ids -> SUBSET Contents]
  /\ RemoteInv'
  /\ \A id \in Ids : /\ had[id] \subseteq had'[id]
                     /\ ~Unused(id) /\ remote[id] = NoContent => remote'[id] = NoContent

LEMMA SameGrows ==
  ASSUME TypeOK, RemoteInv, UNCHANGED <<remote, had>>
  PROVE  Grows
  BY DEF TypeOK, RemoteInv, Grows

LEMMA PutGrows ==
  ASSUME TypeOK, RemoteInv, NEW id \in Ids, NEW content \in Contents \cup {NoContent},
         remote[id] # NoContent \/ Unused(id), Put(id, content)
  PROVE  /\ Grows /\ remote'[id] = content
         /\ content # NoContent => content \in had'[id]
         /\ ~Unused(id)' \/ (Unused(id) /\ content = NoContent)
<1>1. /\ remote \in [Ids -> Contents \cup {NoContent}] /\ had \in [Ids -> SUBSET Contents]
      /\ remote' = [remote EXCEPT ![id] = content]
      /\ had' = [had EXCEPT ![id] = @ \cup ({content} \ {NoContent})]
  BY DEF TypeOK, Put
<1>2. /\ remote'[id] = content /\ had'[id] = had[id] \cup ({content} \ {NoContent})
      /\ \A i \in Ids \ {id} : remote'[i] = remote[i] /\ had'[i] = had[i]
  BY <1>1
<1>3. remote' \in [Ids -> Contents \cup {NoContent}] /\ had' \in [Ids -> SUBSET Contents]
  BY <1>1
<1>4. RemoteInv'
  BY <1>2 DEF RemoteInv
<1>5. \A i \in Ids : /\ had[i] \subseteq had'[i]
                    /\ ~Unused(i) /\ remote[i] = NoContent => remote'[i] = NoContent
  BY <1>2 DEF Unused
<1>6. ~Unused(id)' \/ (Unused(id) /\ content = NoContent)
  BY <1>2 DEF Unused, RemoteInv
<1> QED
  BY <1>2, <1>3, <1>4, <1>5, <1>6 DEF Grows

\* The kinds of jobs.
LEMMA JobKinds ==
  ASSUME NEW j \in Jobs
  PROVE  /\ j.stage = "ask" => j \in [stage: {"ask"}, op: {"get", "patch", "delete"}, id: Ids]
         /\ j.stage = "store" =>
              j \in [stage: {"store"}, op: {"get", "patch", "delete"}, id: Ids, content: Contents]
         /\ j.stage \in {"patch", "delete", "forget"} =>
              j \in [stage: {"patch", "delete", "forget"}, id: Ids]
         /\ j.stage \in {"cache", "update"} =>
              j \in [stage: {"cache", "update"}, id: Ids, content: Contents]
         /\ j.stage = "page" =>
              j \in [stage: {"page"}, offset: Nat, rest: Seq(Received), bad: SUBSET Ids]
         /\ j.stage = "purge" => j \in [stage: {"purge"}, bad: SUBSET Ids]
  BY DEF Jobs, Idle

\* What a process carries stays true.
LEMMA JobStays ==
  ASSUME TypeOK, Grows, NEW j \in Jobs, JobInv(j)
  PROVE  JobInv(j)'
<1>1. j.stage \in {"store", "cache", "update"} => j.content \in had'[j.id]
  BY JobKinds DEF JobInv, Grows
<1>2. j.stage = "forget" => remote'[j.id] = NoContent /\ ~Unused(j.id)'
  BY JobKinds DEF JobInv, Grows, Unused
<1>3. j.stage = "page" => \A n \in DOMAIN j.rest : j.rest[n].content \in had'[j.rest[n].id]
  <2> SUFFICES ASSUME j.stage = "page", NEW n \in DOMAIN j.rest
               PROVE  j.rest[n].content \in had'[j.rest[n].id]
    OBVIOUS
  <2>1. j.rest \in Seq(Received)
    BY JobKinds
  <2>2. j.rest[n] \in Received
    BY <2>1
  <2>3. j.rest[n].id \in Ids /\ j.rest[n].content \in had[j.rest[n].id]
    BY <2>2 DEF JobInv, Received
  <2> QED
    BY <2>3 DEF Grows
<1>4. j.stage \in {"page", "purge"} => \A id \in j.bad : WasInvalid(id)'
  BY JobKinds DEF JobInv, Grows, WasInvalid
<1> QED
  BY <1>1, <1>2, <1>3, <1>4 DEF JobInv

\* One process goes on, the others carry what they had.
LEMMA Moves ==
  ASSUME IInv, Grows, NEW p \in Procs, NEW next \in Jobs, Goto(p, next), JobInv(next)'
  PROVE  job' \in [Procs -> Jobs] /\ \A q \in Procs : JobInv(job[q])'
<1>1. job \in [Procs -> Jobs] /\ TypeOK
  BY DEF IInv, TypeOK
<1>2. job' \in [Procs -> Jobs] /\ job'[p] = next /\ \A q \in Procs \ {p} : job'[q] = job[q]
  BY <1>1 DEF Goto
<1>3. \A q \in Procs \ {p} : JobInv(job[q]) /\ job[q] \in Jobs
  BY <1>1 DEF IInv
<1>4. ASSUME NEW q \in Procs, NEW j, j = job'[q] PROVE JobInv(j)'
  BY <1>1, <1>2, <1>3, <1>4, JobStays
<1> QED
  BY <1>2, <1>4 DEF JobInv

\* Stages in which nothing is carried.
LEMMA LightJob ==
  ASSUME NEW j \in Jobs, j.stage \in {"idle", "ask", "patch", "delete"}
  PROVE  JobInv(j)'
  BY DEF JobInv
LEMMA IdleIsLight == Idle \in Jobs /\ JobInv(Idle)'
  BY DEF Idle, Jobs, JobInv

LEMMA AllStay ==
  ASSUME IInv, Grows, job' = job
  PROVE  job' \in [Procs -> Jobs] /\ \A q \in Procs : JobInv(job[q])'
<1>1. job \in [Procs -> Jobs] /\ TypeOK
  BY DEF IInv, TypeOK
<1>2. ASSUME NEW q \in Procs, NEW j, j = job'[q] PROVE JobInv(j)'
  <2>1. j \in Jobs /\ JobInv(j)
    BY <1>1, <1>2 DEF IInv
  <2> QED
    BY <1>1, <2>1, JobStays
<1> QED
  BY <1>1, <1>2 DEF JobInv

\* No row is dropped whose object is still there.
Drops == \A id \in Ids : tab[id] # NoRow /\ tab'[id] = NoRow => remote[id] = NoContent

TableKept == tab' \in Tables /\ NothingInvented' /\ Drops

LEMMA SameTable ==
  ASSUME IInv, Grows, tab' = tab
  PROVE  TableKept
  BY DEF IInv, TypeOK, Grows, TableKept, Drops, NothingInvented

\* A row becomes one whose content the remote has had.
LEMMA RowChanges ==
  ASSUME IInv, Grows, NEW id \in Ids, NEW row \in Rows, row.content \in had[id],
         tab' = [tab EXCEPT ![id] = row]
  PROVE  TableKept
<1>1. tab \in [Ids -> Rows \cup {NoRow}] /\ NoRow \notin Rows
  BY ProxySentinels DEF IInv, TypeOK, Tables
<1>2. /\ tab' \in [Ids -> Rows \cup {NoRow}] /\ tab'[id] = row
      /\ \A i \in Ids \ {id} : tab'[i] = tab[i]
  BY <1>1
<1>3. NothingInvented'
  BY <1>2 DEF IInv, NothingInvented, Grows
<1>4. Drops
  BY <1>1, <1>2 DEF Drops
<1> QED
  BY <1>2, <1>3, <1>4 DEF TableKept, Tables

\* The calls of the database that the handlers make.
LEMMA Written ==
  ASSUME IInv, Grows, NEW id \in Ids, NEW content \in Contents, content \in had[id],
         \/ Becomes(CreateObject(DB, id, Row(content), "any"))
         \/ Becomes(UpdateObject(DB, id, Row(content), "any"))
         \/ Becomes(UpsertObject(DB, id, Row(content), "any", TRUE))
  PROVE  TableKept
<1>1. /\ Row(content) \in Rows /\ Row(content).content = content
      /\ Row(content).updated = "fresh"
  BY DEF Row, Rows, Ages
<1>2. ASSUME NEW row \in Rows
      PROVE  UpdatedRow(row, Row(content)) \in Rows
             /\ UpdatedRow(row, Row(content)).content = content
  BY <1>1, <1>2 DEF UpdatedRow, Rows, Ages
<1>3. tab[id] # NoRow => tab[id] \in Rows
  BY DEF IInv, TypeOK, Tables
<1>4. \/ tab' = tab
      \/ tab' = [tab EXCEPT ![id] = Row(content)]
      \/ tab[id] \in Rows /\ tab' = [tab EXCEPT ![id] = UpdatedRow(tab[id], Row(content))]
  <2>1. CASE Becomes(CreateObject(DB, id, Row(content), "any"))
    BY <2>1 DEF Becomes, CreateObject, Apply, DB
  <2>2. CASE Becomes(UpdateObject(DB, id, Row(content), "any"))
    BY <1>3, <2>2 DEF Becomes, UpdateObject, Apply, DB
  <2>3. CASE Becomes(UpsertObject(DB, id, Row(content), "any", TRUE))
    BY <1>3, <2>3 DEF Becomes, UpsertObject, Apply, DB
  <2> QED
    BY <2>1, <2>2, <2>3
<1>5. CASE tab' = tab
  BY <1>5, SameTable
<1>6. CASE tab' = [tab EXCEPT ![id] = Row(content)]
  <2> PICK row \in Rows : row = Row(content)
    BY <1>1
  <2> QED
    BY <1>1, <1>6, RowChanges
<1>7. CASE tab[id] \in Rows /\ tab' = [tab EXCEPT ![id] = UpdatedRow(tab[id], Row(content))]
  <2> PICK row \in Rows : row = UpdatedRow(tab[id], Row(content)) /\ row.content = content
    BY <1>2, <1>7
  <2> QED
    BY <1>7, RowChanges
<1> QED
  BY <1>4, <1>5, <1>6, <1>7

-----------------------------------------------------------------------------
(* The steps.                                                              *)

Kept ==
  /\ Grows /\ TableKept
  /\ job' \in [Procs -> Jobs] /\ \A q \in Procs : JobInv(job[q])'

LEMMA OtherKeeps ==
  ASSUME IInv, Other
  PROVE  Kept
<1> PICK id \in Ids, content \in Contents \cup {NoContent} :
      /\ IF Unused(id) THEN content # NoContent ELSE remote[id] # NoContent
      /\ Put(id, content)
  BY DEF Other
<1>1. Grows
  BY PutGrows DEF IInv
<1> QED
  BY <1>1, SameTable, AllStay DEF Other, Kept

LEMMA AgeKeeps ==
  ASSUME IInv, NEW id \in Ids, Age(id)
  PROVE  Kept
<1>1. Grows /\ tab \in [Ids -> Rows \cup {NoRow}] /\ tab[id] \in Rows /\ job' = job
  BY SameGrows DEF IInv, TypeOK, Tables, Age
<1>2. PICK row \in Rows : row = [tab[id] EXCEPT !.updated = "stale"]
                         /\ row.content = tab[id].content
  <2>1. [tab[id] EXCEPT !.updated = "stale"] \in Rows
        /\ [tab[id] EXCEPT !.updated = "stale"].content = tab[id].content
    BY <1>1 DEF Rows, Ages
  <2> QED
    BY <2>1
<1>3. tab' = [tab EXCEPT ![id] = row]
  BY <1>1, <1>2 DEF Age
<1>4. row.content \in had[id]
  BY <1>2 DEF IInv, NothingInvented, Age
<1> QED
  BY <1>1, <1>3, <1>4, RowChanges, AllStay DEF Kept

\* A process goes to a stage in which it carries nothing.
Light == {Idle} \cup [stage: {"ask"}, op: {"get", "patch", "delete"}, id: Ids]
         \cup [stage: {"patch", "delete"}, id: Ids]
LEMMA GoesLight ==
  ASSUME IInv, Grows, NEW p \in Procs, NEW next \in Light, Goto(p, next)
  PROVE  job' \in [Procs -> Jobs] /\ \A q \in Procs : JobInv(job[q])'
<1>1. next \in Jobs /\ next.stage \in {"idle", "ask", "patch", "delete"}
  BY DEF Light, Jobs, Idle
<1> QED
  BY <1>1, LightJob, Moves

LEMMA ProceedIsLight ==
  ASSUME NEW w, NEW op \in {"get", "patch", "delete"}, NEW id \in Ids, NEW content,
         Proceed(w, op, id, content)
  PROVE  \E next \in Light : Goto(w, next)
<1>1. Idle \in Light
  BY DEF Light
<1>2. op # "get" => [stage |-> op, id |-> id] \in Light
  BY DEF Light
<1> QED
  BY <1>1, <1>2 DEF Proceed

LEMMA LookKeeps ==
  ASSUME IInv, NEW w \in Workers, Look(w)
  PROVE  Kept
<1>1. Grows /\ tab' = tab /\ w \in Procs
  BY SameGrows DEF IInv, Look, Procs
<1>2. \E next \in Light : Goto(w, next)
  <2> PICK op \in {"get", "patch", "delete"}, id \in Ids :
        \/ Proceed(w, op, id, tab[id].content)
        \/ Goto(w, [stage |-> "ask", op |-> op, id |-> id])
    BY DEF Look
  <2>1. CASE Proceed(w, op, id, tab[id].content)
    <3> PICK content : content = tab[id].content
      OBVIOUS
    <3> QED
      BY <2>1, ProceedIsLight
  <2>2. CASE Goto(w, [stage |-> "ask", op |-> op, id |-> id])
    <3>1. [stage |-> "ask", op |-> op, id |-> id] \in Light
      BY DEF Light
    <3> QED
      BY <2>2, <3>1
  <2> QED
    BY <2>1, <2>2
<1> QED
  BY <1>1, <1>2, SameTable, GoesLight DEF Kept

LEMMA AskKeeps ==
  ASSUME IInv, NEW w \in Workers, Ask(w)
  PROVE  Kept
<1>1. Grows /\ tab' = tab /\ w \in Procs
  BY SameGrows DEF IInv, Ask, Procs
<1>2. job[w] \in [stage: {"ask"}, op: {"get", "patch", "delete"}, id: Ids]
  BY <1>1, JobKinds DEF IInv, TypeOK, Ask
<1>3. CASE Goto(w, Idle)
  <2>1. Idle \in Light
    BY DEF Light
  <2> QED
    BY <1>1, <1>3, <2>1, SameTable, GoesLight DEF Kept
<1>4. CASE remote[job[w].id] # NoContent
  <2> PICK op \in {"get", "patch", "delete"}, id \in Ids, content \in {remote[job[w].id]} :
        op = job[w].op /\ id = job[w].id /\ content = remote[id]
    BY <1>2
  <2>1. content \in Contents /\ content \in had'[id]
    BY <1>4 DEF IInv, TypeOK, RemoteInv, Ask
  <2> DEFINE next == [stage |-> "store", op |-> op, id |-> id, content |-> content]
  <2>2. Goto(w, next)
    BY <1>4 DEF Ask
  <2>3. next \in Jobs
    BY <2>1 DEF Jobs
  <2>4. JobInv(next)'
    BY <2>1 DEF JobInv
  <2> HIDE DEF next
  <2>5. job' \in [Procs -> Jobs] /\ \A q \in Procs : JobInv(job[q])'
    <3> PICK j : j = next
      OBVIOUS
    <3> QED
      BY <1>1, <2>2, <2>3, <2>4, Moves DEF next
  <2> QED
    BY <1>1, <2>5, SameTable DEF Kept
<1> QED
  BY <1>3, <1>4 DEF Ask

LEMMA StoreKeeps ==
  ASSUME IInv, NEW w \in Workers, Store(w)
  PROVE  Kept
<1>1. Grows /\ w \in Procs
  BY SameGrows DEF IInv, Store, Procs
<1>2. /\ job[w] \in [stage: {"store"}, op: {"get", "patch", "delete"}, id: Ids, content: Contents]
      /\ job[w].content \in had[job[w].id]
  BY <1>1, JobKinds DEF IInv, TypeOK, Store, JobInv
<1> PICK op \in {"get", "patch", "delete"}, id \in Ids, content \in Contents :
      op = job[w].op /\ id = job[w].id /\ content = job[w].content
  BY <1>2
<1>3. TableKept
  BY <1>1, <1>2, Written DEF Store
<1>4. \E next \in Light : Goto(w, next)
  BY ProceedIsLight DEF Store
<1> QED
  BY <1>1, <1>3, <1>4, GoesLight DEF Kept

\* A request ends.
LEMMA GoesIdle ==
  ASSUME IInv, Grows, NEW p \in Procs, Goto(p, Idle)
  PROVE  job' \in [Procs -> Jobs] /\ \A q \in Procs : JobInv(job[q])'
<1>1. Idle \in Light
  BY DEF Light
<1> QED
  BY <1>1, GoesLight

\* The remote answered with a valid object, which is to be written.
LEMMA GoesToWrite ==
  ASSUME IInv, Grows, NEW w \in Procs, NEW stage \in {"update", "cache"}, NEW id \in Ids,
         NEW content \in Contents, content \in had'[id],
         Goto(w, [stage |-> stage, id |-> id, content |-> content])
  PROVE  job' \in [Procs -> Jobs] /\ \A q \in Procs : JobInv(job[q])'
<1> PICK next : next = [stage |-> stage, id |-> id, content |-> content]
  OBVIOUS
<1>1. next \in Jobs /\ JobInv(next)' /\ Goto(w, next)
  BY DEF Jobs, JobInv
<1> QED
  BY <1>1, Moves

LEMMA PatchKeeps ==
  ASSUME IInv, NEW w \in Workers, Patch(w)
  PROVE  Kept
<1>1. tab' = tab /\ w \in Procs /\ TypeOK
  BY DEF IInv, Patch, Procs
<1>2. CASE Goto(w, Idle) /\ UNCHANGED <<remote, had>>
  BY <1>1, <1>2, SameGrows, SameTable, GoesIdle DEF IInv, Kept
<1>3. CASE ~(Goto(w, Idle) /\ UNCHANGED <<remote, had>>)
  <2> PICK id \in Ids : id = job[w].id
    BY <1>1, JobKinds DEF TypeOK, Patch
  <2> PICK content \in Contents :
        /\ remote[id] # NoContent /\ Put(id, content)
        /\ \/ Goto(w, [stage |-> "update", id |-> id, content |-> content])
           \/ Goto(w, Idle)
    BY <1>3 DEF Patch
  <2>1. Grows /\ content \in had'[id]
    BY <1>1, PutGrows, ProxySentinels DEF IInv
  <2> QED
    BY <1>1, <2>1, SameTable, GoesToWrite, GoesIdle DEF Kept
<1> QED
  BY <1>2, <1>3

LEMMA WriteKeeps ==
  ASSUME IInv, NEW w \in Workers, Update(w) \/ Cache(w)
  PROVE  Kept
<1>1. Grows /\ w \in Procs /\ Goto(w, Idle)
  BY SameGrows DEF IInv, Update, Cache, Procs
<1>2. /\ job[w] \in [stage: {"cache", "update"}, id: Ids, content: Contents]
      /\ job[w].content \in had[job[w].id]
  BY <1>1, JobKinds DEF IInv, TypeOK, Update, Cache, JobInv
<1> PICK id \in Ids, content \in Contents : id = job[w].id /\ content = job[w].content
  BY <1>2
<1>3. TableKept
  BY <1>1, <1>2, Written DEF Update, Cache
<1> QED
  BY <1>1, <1>3, GoesIdle DEF Kept

LEMMA DeleteKeeps ==
  ASSUME IInv, NEW w \in Workers, Delete(w)
  PROVE  Kept
<1>1. tab' = tab /\ w \in Procs /\ TypeOK
  BY DEF IInv, Delete, Procs
<1>2. CASE Goto(w, Idle) /\ UNCHANGED <<remote, had>>
  BY <1>1, <1>2, SameGrows, SameTable, GoesIdle DEF IInv, Kept
<1>3. CASE ~(Goto(w, Idle) /\ UNCHANGED <<remote, had>>)
  <2> PICK id \in Ids : id = job[w].id
    BY <1>1, JobKinds DEF TypeOK, Delete
  <2>1. /\ remote[id] # NoContent /\ Put(id, NoContent)
        /\ Goto(w, [stage |-> "forget", id |-> id])
    BY <1>3 DEF Delete
  <2>2. Grows /\ remote'[id] = NoContent /\ ~Unused(id)'
    <3>1. ~Unused(id)
      BY <2>1 DEF IInv, RemoteInv, Unused
    <3> QED
      BY <1>1, <2>1, <3>1, PutGrows DEF IInv
  <2> PICK next : next = [stage |-> "forget", id |-> id]
    OBVIOUS
  <2>3. next \in Jobs /\ JobInv(next)' /\ Goto(w, next)
    BY <2>1, <2>2 DEF Jobs, JobInv
  <2> QED
    BY <1>1, <2>2, <2>3, SameTable, Moves DEF Kept
<1> QED
  BY <1>2, <1>3

LEMMA ForgetKeeps ==
  ASSUME IInv, NEW w \in Workers, Forget(w)
  PROVE  Kept
<1>1. Grows /\ w \in Procs /\ Goto(w, Idle) /\ TypeOK
  BY SameGrows DEF IInv, Forget, Procs
<1> PICK id \in Ids : id = job[w].id
  BY <1>1, JobKinds DEF TypeOK, Forget
<1>2. remote[id] = NoContent
  BY <1>1 DEF IInv, JobInv, Forget
<1>3. tab \in [Ids -> Rows \cup {NoRow}]
  BY <1>1 DEF TypeOK, Tables
<1>4. tab' = tab \/ tab' = [tab EXCEPT ![id] = NoRow]
  BY DEF Forget, Becomes, DeleteObject, Apply, DB
<1>5. TableKept
  <2>1. CASE tab' = tab
    BY <1>1, <2>1, SameTable
  <2>2. CASE tab' = [tab EXCEPT ![id] = NoRow]
    <3>1. /\ tab' \in [Ids -> Rows \cup {NoRow}] /\ tab'[id] = NoRow
          /\ \A i \in Ids \ {id} : tab'[i] = tab[i]
      BY <1>3, <2>2
    <3>2. NothingInvented'
      BY <1>1, <3>1 DEF IInv, NothingInvented, Grows
    <3> QED
      BY <1>2, <3>1, <3>2 DEF TableKept, Tables, Drops
  <2> QED
    BY <1>4, <2>1, <2>2
<1> QED
  BY <1>1, <1>5, GoesIdle DEF Kept

LEMMA PostKeeps ==
  ASSUME IInv, NEW w \in Workers, Post(w)
  PROVE  Kept
<1> PICK id \in Ids, content \in Contents :
      /\ Unused(id) /\ Put(id, content)
      /\ \/ Goto(w, [stage |-> "cache", id |-> id, content |-> content])
         \/ Goto(w, Idle)
  BY DEF Post
<1>1. Grows /\ content \in had'[id] /\ tab' = tab /\ w \in Procs
  BY PutGrows, ProxySentinels DEF IInv, Post, Procs
<1> QED
  BY <1>1, SameTable, GoesToWrite, GoesIdle DEF Kept

LEMMA AnswerLostKeeps ==
  ASSUME IInv, NEW w \in Workers, AnswerLost(w)
  PROVE  Kept
<1>1. TypeOK /\ tab' = tab /\ w \in Procs /\ Goto(w, Idle)
  BY DEF IInv, AnswerLost, Procs
<1>2. job[w].id \in Ids
  BY <1>1, JobKinds DEF TypeOK, AnswerLost
<1> PICK id \in Ids, content \in Contents \cup {NoContent} :
      id = job[w].id /\ remote[id] # NoContent /\ Put(id, content)
  BY <1>2 DEF AnswerLost
<1>3. Grows
  BY <1>1, PutGrows DEF IInv
<1> QED
  BY <1>1, <1>3, SameTable, GoesIdle DEF Kept

LEMMA RestartKeeps ==
  ASSUME IInv, Restart
  PROVE  Kept
<1>1. Grows /\ tab' = tab /\ job' = [p \in Procs |-> Idle]
  BY SameGrows DEF IInv, Restart
<1>2. job' \in [Procs -> Jobs] /\ \A q \in Procs : JobInv(job[q])'
  <2>1. \A q \in Procs : job'[q] = Idle
    BY <1>1
  <2> QED
    BY <1>1, <2>1 DEF Jobs, JobInv, Idle
<1> QED
  BY <1>1, <1>2, SameTable DEF Kept

-----------------------------------------------------------------------------
(* Pages.                                                                  *)

\* A process begins to save a page, or goes on with one.
LEMMA GoesToPage ==
  ASSUME IInv, Grows, NEW p \in Procs, NEW offset \in Nat, NEW rest \in Seq(Received),
         \A n \in DOMAIN rest : rest[n].content \in had[rest[n].id],
         NEW bad \in SUBSET Ids, \A id \in bad : WasInvalid(id),
         Goto(p, Page(offset, rest, bad))
  PROVE  job' \in [Procs -> Jobs] /\ \A q \in Procs : JobInv(job[q])'
<1> PICK next : next = Page(offset, rest, bad)
  OBVIOUS
<1>1. next \in Jobs /\ JobInv(next) /\ Goto(p, next)
  BY DEF Jobs, JobInv, Page
<1>2. JobInv(next)'
  BY <1>1, JobStays DEF IInv
<1> QED
  BY <1>1, <1>2, Moves

\* A page that has just been fetched holds what the remote has.
LEMMA FetchKeeps ==
  ASSUME IInv, UNCHANGED <<remote, had, tab>>, NEW p \in Procs, NEW offset \in Nat,
         NEW bad \in SUBSET Ids, \A id \in bad : WasInvalid(id), Fetch(p, offset, bad)
  PROVE  Kept
<1>1. Grows /\ TypeOK /\ TableKept
  BY SameGrows, SameTable DEF IInv
<1> PICK page \in Seq(Sent) :
      page = SubSeq(Listing, offset + 1, Min({offset + PageSize, Len(Listing)}))
  BY <1>1, PageType DEF TypeOK
<1>2. offset + PageSize \in Nat
  BY ProxyAssumption
<1>3. page \in Seq(Received) /\ \A n \in DOMAIN page : page[n] \in Sent
  <2>1. Sent \subseteq Received
    BY DEF Sent
  <2>2. page \in Seq(Received)
    BY <2>1, SeqMonotonic
  <2>3. \A n \in DOMAIN page : page[n] \in Sent
    BY ElementOfSeq, LenProperties
  <2> QED
    BY <2>2, <2>3
<1>4. ASSUME NEW n \in DOMAIN page PROVE page[n].content \in had[page[n].id]
  <2>1. page[n] \in Received /\ page[n].content = remote[page[n].id]
    BY <1>3 DEF Sent
  <2>2. page[n].content # NoContent /\ page[n].id \in Ids
    BY <2>1, ProxySentinels DEF Received
  <2> QED
    BY <2>1, <2>2 DEF IInv, RemoteInv
<1>5. CASE Goto(p, Page(offset + PageSize, page, bad))
  BY <1>1, <1>2, <1>3, <1>4, <1>5, GoesToPage DEF Kept
<1>6. CASE Goto(p, [stage |-> "purge", bad |-> bad])
  <2> PICK next : next = [stage |-> "purge", bad |-> bad]
    OBVIOUS
  <2>1. next \in Jobs /\ JobInv(next) /\ Goto(p, next)
    BY <1>6 DEF Jobs, JobInv
  <2>2. JobInv(next)'
    BY <1>1, <2>1, JobStays
  <2> QED
    BY <1>1, <2>1, <2>2, Moves DEF Kept
<1>7. CASE Goto(p, Idle)
  BY <1>1, <1>7, GoesIdle DEF Kept
<1> QED
  BY <1>5, <1>6, <1>7 DEF Fetch

LEMMA ListKeeps ==
  ASSUME IInv, Retrieve \/ \E w \in Workers : List(w)
  PROVE  Kept
<1>1. PICK p \in Procs : Fetch(p, 0, {}) /\ UNCHANGED <<remote, had, tab>>
  BY DEF Retrieve, List, Procs
<1>2. 0 \in Nat /\ {} \in SUBSET Ids /\ \A id \in {} : WasInvalid(id)
  OBVIOUS
<1> QED
  BY <1>1, <1>2, FetchKeeps

\* The page a process is at.
LEMMA AtPage ==
  ASSUME IInv, NEW p \in Procs, job[p].stage = "page"
  PROVE  \E offset \in Nat, rest \in Seq(Received), bad \in SUBSET Ids :
           /\ job[p] = Page(offset, rest, bad)
           /\ \A n \in DOMAIN rest : rest[n].content \in had[rest[n].id]
           /\ \A id \in bad : WasInvalid(id)
<1>1. job[p] \in [stage: {"page"}, offset: Nat, rest: Seq(Received), bad: SUBSET Ids]
  BY JobKinds DEF IInv, TypeOK
<1>2. JobInv(job[p])
  BY DEF IInv
<1> QED
  BY <1>1, <1>2 DEF JobInv, Page

LEMMA NextPageKeeps ==
  ASSUME IInv, NEW p \in Procs, NextPage(p)
  PROVE  Kept
<1> PICK offset \in Nat, rest \in Seq(Received), bad \in SUBSET Ids :
      /\ job[p] = Page(offset, rest, bad)
      /\ \A id \in bad : WasInvalid(id)
  BY AtPage DEF NextPage
<1> QED
  BY FetchKeeps DEF NextPage, Page

LEMMA RestOf ==
  ASSUME NEW rest \in Seq(Received), rest # << >>
  PROVE  /\ 1 \in DOMAIN rest /\ Head(rest) = rest[1] /\ rest[1] \in Received
         /\ Tail(rest) \in Seq(Received)
         /\ \A n \in DOMAIN Tail(rest) : n + 1 \in DOMAIN rest /\ Tail(rest)[n] = rest[n + 1]
  OBVIOUS

\* What Save and Fail make of the state of a process at a page: the first object
\* is done with, and an identifier is remembered.
Behind(j) == [j EXCEPT !.rest = Tail(@)]
Remember(j, id) == [j EXCEPT !.bad = @ \cup {id}]

LEMMA RestChanges ==
  ASSUME NEW offset \in Nat, NEW rest \in Seq(Received), rest # << >>, NEW bad \in SUBSET Ids
  PROVE  /\ Page(offset, rest, bad).rest = rest
         /\ Behind(Page(offset, rest, bad)) = Page(offset, Tail(rest), bad)
<1> PICK j : j = [stage |-> "page", offset |-> offset, rest |-> rest, bad |-> bad]
  OBVIOUS
<1>1. j.rest = rest
  OBVIOUS
<1> PICK tail \in Seq(Received) : tail = Tail(rest)
  BY RestOf
<1>2. [j EXCEPT !.rest = tail] = [stage |-> "page", offset |-> offset, rest |-> tail, bad |-> bad]
  OBVIOUS
<1> QED
  BY <1>1, <1>2 DEF Page, Behind

LEMMA BadChanges ==
  ASSUME NEW offset \in Nat, NEW rest \in Seq(Received), NEW bad \in SUBSET Ids,
         NEW got \in Received
  PROVE  Remember(Page(offset, rest, bad), got.id) = Page(offset, rest, bad \cup {got.id})
<1> PICK id \in Ids, all \in SUBSET Ids : id = got.id /\ all = bad \cup {id}
  BY DEF Received
<1> PICK j : j = [stage |-> "page", offset |-> offset, rest |-> rest, bad |-> bad]
  OBVIOUS
<1>1. j.bad = bad
  OBVIOUS
<1> PICK after : after = [j EXCEPT !.bad = all]
  OBVIOUS
<1>2. after = [stage |-> "page", offset |-> offset, rest |-> rest, bad |-> all]
  OBVIOUS
<1> QED
  BY <1>1, <1>2 DEF Page, Remember

\* A process is done with the first object of what is left of its page.
LEMMA PageGoesOn ==
  ASSUME IInv, Grows, NEW p \in Procs, NEW offset \in Nat, NEW rest \in Seq(Received),
         rest # << >>, \A n \in DOMAIN rest : rest[n].content \in had[rest[n].id],
         NEW bad \in SUBSET Ids, \A id \in bad : WasInvalid(id),
         Goto(p, Page(offset, Tail(rest), bad))
  PROVE  job' \in [Procs -> Jobs] /\ \A q \in Procs : JobInv(job[q])'
<1>1. /\ Tail(rest) \in Seq(Received)
      /\ \A n \in DOMAIN Tail(rest) : Tail(rest)[n].content \in had[Tail(rest)[n].id]
  BY RestOf
<1> PICK tail \in Seq(Received) : tail = Tail(rest)
  BY <1>1
<1> QED
  BY <1>1, GoesToPage

LEMMA SaveKeeps ==
  ASSUME IInv, NEW p \in Procs, Save(p)
  PROVE  Kept
<1>1. Grows
  BY SameGrows DEF IInv, Save
<1> PICK offset \in Nat, rest \in Seq(Received), bad \in SUBSET Ids :
      /\ job[p] = Page(offset, rest, bad)
      /\ \A n \in DOMAIN rest : rest[n].content \in had[rest[n].id]
      /\ \A id \in bad : WasInvalid(id)
  BY AtPage DEF Save
<1>2. rest # << >>
  BY DEF Save, Page
<1>3. PICK got \in Received : got = Head(rest) /\ got.content \in had[got.id]
  BY <1>2, RestOf
<1>4. got.id \in Ids /\ got.content \in Contents
  BY <1>3 DEF Received
<1>5. PICK tail \in Seq(Received) : tail = Tail(rest)
  BY <1>2, RestOf
<1>6. /\ job[p].rest = rest
      /\ Behind(job[p]) = Page(offset, tail, bad)
      /\ Remember(Page(offset, tail, bad), got.id) = Page(offset, tail, bad \cup {got.id})
  <2>1. job[p].rest = rest /\ Behind(job[p]) = Page(offset, tail, bad)
    BY <1>2, <1>5, RestChanges
  <2>2. Remember(Page(offset, tail, bad), got.id) = Page(offset, tail, bad \cup {got.id})
    BY BadChanges
  <2> QED
    BY <2>1, <2>2
<1>7. CASE got.content \notin ValidContents
  <2>1. tab' = tab
    BY <1>3, <1>6, <1>7 DEF Save
  <2>2. Goto(p, Remember(Behind(job[p]), got.id))
    BY <1>3, <1>6, <1>7 DEF Save, Behind, Remember
  <2> PICK all \in SUBSET Ids : all = bad \cup {got.id} /\ \A id \in all : WasInvalid(id)
    <3>1. WasInvalid(got.id) /\ bad \cup {got.id} \in SUBSET Ids
      BY <1>3, <1>4, <1>7 DEF WasInvalid
    <3> QED
      BY <3>1
  <2>3. Goto(p, Page(offset, Tail(rest), all))
    BY <1>3, <1>5, <1>6, <2>2
  <2> QED
    BY <1>1, <1>2, <2>1, <2>3, SameTable, PageGoesOn DEF Kept
<1>8. CASE got.content \in ValidContents
  <2>1. /\ Becomes(UpsertObject(DB, got.id, Row(got.content), "any", TRUE))
        /\ Goto(p, Behind(job[p])) \/ Goto(p, Idle)
    BY <1>3, <1>6, <1>8 DEF Save, Behind
  <2> PICK id \in Ids, content \in Contents : id = got.id /\ content = got.content
    BY <1>4
  <2>2. TableKept
    BY <1>1, <1>3, <2>1, Written
  <2>3. CASE Goto(p, Behind(job[p]))
    <3>1. Goto(p, Page(offset, Tail(rest), bad))
      BY <1>5, <1>6, <2>3
    <3> QED
      BY <1>1, <1>2, <2>2, <3>1, PageGoesOn DEF Kept
  <2>4. CASE Goto(p, Idle)
    BY <1>1, <2>2, <2>4, GoesIdle DEF Kept
  <2> QED
    BY <2>1, <2>3, <2>4
<1> QED
  BY <1>7, <1>8

LEMMA FailKeeps ==
  ASSUME IInv, NEW p \in Procs, Fail(p)
  PROVE  Kept
<1>1. Grows /\ TableKept
  BY SameGrows, SameTable DEF IInv, Fail
<1>2. CASE Goto(p, Idle)
  BY <1>1, <1>2, GoesIdle DEF Kept
<1>3. CASE job[p].stage = "page" /\ job[p].rest # << >> /\ Goto(p, [job[p] EXCEPT !.rest = Tail(@)])
  <2> PICK offset \in Nat, rest \in Seq(Received), bad \in SUBSET Ids :
        /\ job[p] = Page(offset, rest, bad)
        /\ \A n \in DOMAIN rest : rest[n].content \in had[rest[n].id]
        /\ \A id \in bad : WasInvalid(id)
    BY <1>3, AtPage
  <2>1. /\ rest # << >>
        /\ Behind(job[p]) = Page(offset, Tail(rest), bad)
    <3>1. rest # << >>
      BY <1>3 DEF Page
    <3> QED
      BY <3>1, RestChanges
  <2>2. Goto(p, Page(offset, Tail(rest), bad))
    BY <1>3, <2>1 DEF Behind
  <2> QED
    BY <1>1, <1>3, <2>1, <2>2, PageGoesOn DEF Kept
<1>4. CASE /\ job[p].stage = "store"
           /\ Proceed(p, job[p].op, job[p].id, job[p].content)
  <2>1. job[p] \in [stage: {"store"}, op: {"get", "patch", "delete"}, id: Ids, content: Contents]
    BY <1>4, JobKinds DEF IInv, TypeOK
  <2> PICK op \in {"get", "patch", "delete"}, id \in Ids, content \in Contents :
        op = job[p].op /\ id = job[p].id /\ content = job[p].content
    BY <2>1
  <2>2. \E next \in Light : Goto(p, next)
    BY <1>4, ProceedIsLight
  <2> QED
    BY <1>1, <2>2, GoesLight DEF Kept
<1> QED
  BY <1>2, <1>3, <1>4 DEF Fail

LEMMA PurgeKeeps ==
  ASSUME IInv, Purge
  PROVE  Kept
<1>1. TypeOK /\ tab' = tab /\ Refresher \in Procs
  BY DEF IInv, Purge, Procs
<1>2. PICK bad \in SUBSET Ids :
        job[Refresher] = [stage |-> "purge", bad |-> bad] /\ \A id \in bad : WasInvalid(id)
  <2>1. job[Refresher] \in [stage: {"purge"}, bad: SUBSET Ids]
    BY <1>1, JobKinds DEF TypeOK, Purge
  <2> QED
    BY <1>1, <2>1 DEF IInv, JobInv
<1>3. CASE Goto(Refresher, Idle) /\ UNCHANGED <<remote, had>>
  BY <1>1, <1>3, SameGrows, SameTable, GoesIdle DEF IInv, Kept
<1>4. CASE ~(Goto(Refresher, Idle) /\ UNCHANGED <<remote, had>>)
  <2> PICK id \in bad :
        /\ Goto(Refresher, [job[Refresher] EXCEPT !.bad = @ \ {id}])
        /\ \/ remote[id] # NoContent /\ Put(id, NoContent)
           \/ UNCHANGED <<remote, had>>
    BY <1>2, <1>4 DEF Purge
  <2>1. Grows
    BY <1>1, SameGrows, PutGrows DEF IInv
  <2> PICK next : next = [stage |-> "purge", bad |-> bad \ {id}]
    OBVIOUS
  <2>2. next \in Jobs /\ JobInv(next) /\ Goto(Refresher, next)
    <3>1. [job[Refresher] EXCEPT !.bad = @ \ {id}] = next
      BY <1>2
    <3>2. bad \ {id} \in SUBSET Ids
      OBVIOUS
    <3> QED
      BY <1>2, <3>1, <3>2 DEF Jobs, JobInv
  <2>3. JobInv(next)'
    BY <1>1, <2>1, <2>2, JobStays
  <2> QED
    BY <1>1, <2>1, <2>2, <2>3, SameTable, Moves DEF Kept
<1> QED
  BY <1>3, <1>4

-----------------------------------------------------------------------------
(* The theorems.                                                           *)

LEMMA SpentType ==
  ASSUME TypeOK, [Next]_vars
  PROVE  spent' \in [requests: 0..MaxRequests, others: 0..MaxOthers, faults: 0..MaxFaults]
<1> DEFINE Spent == [requests: 0..MaxRequests, others: 0..MaxOthers, faults: 0..MaxFaults]
<1>1. spent \in Spent
  BY DEF TypeOK
<1>2. /\ spent.requests < MaxRequests => spent.requests + 1 \in 0..MaxRequests
      /\ spent.others < MaxOthers => spent.others + 1 \in 0..MaxOthers
      /\ spent.faults < MaxFaults => spent.faults + 1 \in 0..MaxFaults
  BY <1>1, ProxyAssumption
<1>3. CASE spent.requests < MaxRequests /\ spent' = [spent EXCEPT !.requests = @ + 1]
  BY <1>1, <1>2, <1>3
<1>4. CASE spent.others < MaxOthers /\ spent' = [spent EXCEPT !.others = @ + 1]
  BY <1>1, <1>2, <1>4
<1>5. CASE Fault
  BY <1>1, <1>2, <1>5 DEF Fault
<1>6. CASE spent' = spent
  BY <1>1, <1>6
<1> QED
  BY <1>3, <1>4, <1>5, <1>6
     DEF Next, vars, Other, Age, Look, Post, List, WorkerStep, AnswerLost, RefresherStep, Fail,
         Restart, Ask, Store, Patch, Update, Delete, Forget, Cache, NextPage, Save, Retrieve, Purge

LEMMA NextKept == IInv /\ [Next]_vars => Kept
<1> SUFFICES ASSUME IInv, [Next]_vars PROVE Kept
  OBVIOUS
<1>1. CASE UNCHANGED vars
  BY <1>1, SameGrows, SameTable, AllStay DEF vars, IInv, Kept
<1>2. CASE Other \/ (\E id \in Ids : Age(id)) \/ Restart \/ \E p \in Procs : Fail(p)
  BY <1>2, OtherKeeps, AgeKeeps, RestartKeeps, FailKeeps
<1>3. CASE RefresherStep
  BY <1>3, ListKeeps, NextPageKeeps, SaveKeeps, PurgeKeeps DEF RefresherStep, Procs
<1>4. ASSUME NEW w \in Workers, Look(w) \/ Post(w) \/ List(w) \/ WorkerStep(w) \/ AnswerLost(w)
      PROVE  Kept
  <2>1. w \in Procs
    BY DEF Procs
  <2> QED
    BY <1>4, <2>1, LookKeeps, PostKeeps, ListKeeps, AnswerLostKeeps, AskKeeps, StoreKeeps,
       PatchKeeps, WriteKeeps, DeleteKeeps, ForgetKeeps, NextPageKeeps, SaveKeeps DEF WorkerStep
<1> QED
  BY <1>1, <1>2, <1>3, <1>4 DEF Next

LEMMA InitInvariant == Init => IInv
<1> SUFFICES ASSUME Init PROVE IInv
  OBVIOUS
<1>1. spent \in [requests: 0..MaxRequests, others: 0..MaxOthers, faults: 0..MaxFaults]
  BY ProxyAssumption DEF Init
<1>2. tab = [id \in Ids |-> NoRow]
  BY DEF Init, EmptyDB
<1>3. TypeOK
  BY <1>1, <1>2 DEF Init, TypeOK, Tables, Jobs
<1>4. \A p \in Procs : JobInv(job[p])
  BY DEF Init, Idle, JobInv
<1> QED
  BY <1>2, <1>3, <1>4 DEF Init, IInv, RemoteInv, NothingInvented

LEMMA NextInvariant == IInv /\ [Next]_vars => IInv'
  BY NextKept, SpentType DEF IInv, TypeOK, Kept, Grows, TableKept

LEMMA Invariant == Spec => []IInv
  BY InitInvariant, NextInvariant, PTL DEF Spec

\* Every variable has a value of its kind, at every step of every handler.
THEOREM TypeCorrect == Spec => []TypeOK
  BY Invariant, PTL DEF IInv

\* The cache invents nothing: whatever the order in which the answers of the remote
\* are written, and whichever of them are lost, a row holds what the remote had
\* under that id at some time.
THEOREM CacheIsFromRemote == Spec => []NothingInvented
  BY Invariant, PTL DEF IInv

\* A row is dropped (Forget, the end of a DELETE) only when its object is gone for
\* good, even when the answer of the remote is acted on late.
THEOREM DropsAreSafe == Spec => DroppedOnlyIfGone
<1>1. IInv /\ [Next]_vars =>
        [\A id \in Ids : tab[id] # NoRow /\ tab'[id] = NoRow => remote[id] = NoContent]_vars
  BY NextKept DEF Kept, TableKept, Drops
<1> QED
  BY <1>1, Invariant, PTL DEF Spec, DroppedOnlyIfGone

\* What the purge of RetrieveAll removes from the remote had been invalid at some
\* time, however long ago its page was read.
THEOREM PurgesHaveCause == Spec => PurgedWereInvalid
<1>1. IInv /\ [Next]_vars =>
        [\A id \in Ids :
           (/\ job[Refresher].stage = "purge" /\ id \in job[Refresher].bad
            /\ job'[Refresher] = [job[Refresher] EXCEPT !.bad = @ \ {id}]
            /\ remote[id] # NoContent /\ remote'[id] = NoContent)
             => had[id] \ ValidContents # {}]_vars
  BY DEF IInv, JobInv, WasInvalid, Procs
<1> QED
  BY <1>1, Invariant, PTL DEF Spec, PurgedWereInvalid
=============================================================================
