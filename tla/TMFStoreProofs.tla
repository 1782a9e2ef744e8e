-------------------------- MODULE TMFStoreProofs ----------------------------
(***************************************************************************)
(* Proofs about the object store for any sets of keys, contents, columns,  *)
(* callers and connections: it keeps its types, its log explains its table *)
(* without a gap, rows keep their party columns, and it implements the     *)
(* abstract store.                                                         *)
(***************************************************************************)
EXTENDS TMFStore, TLAPS

-----------------------------------------------------------------------------
(* Lemmas about the operation log.                                         *)

\* Appending an entry keeps the entries before it where they are.
LEMMA AppendKeeps ==
  ASSUME NEW S, NEW s \in Seq(S), NEW e \in S
  PROVE  /\ Append(s, e) \in Seq(S)
         /\ Len(Append(s, e)) = Len(s) + 1
         /\ Len(s) \in Nat
         /\ \A i \in 1..Len(s) : Append(s, e)[i] = s[i]
         /\ Append(s, e)[Len(s) + 1] = e
  OBVIOUS

\* What the first n entries say of a key does not depend on later entries.
LEMMA LoggedContentStable ==
  ASSUME NEW l \in Seq(Entries), NEW e \in Entries, NEW id, NEW x,
         NEW n \in 0..Len(l), LoggedContent(l, id, n, x)
  PROVE  LoggedContent(Append(l, e), id, n, x)
<1> DEFINE l2 == Append(l, e)
<1>1. /\ Len(l2) = Len(l) + 1 /\ Len(l) \in Nat
      /\ \A i \in 1..Len(l) : l2[i] = l[i]
  BY AppendKeeps
<1>2. \A i \in 1..Len(l2) : i <= n => i \in 1..Len(l)
  BY <1>1
<1>3. \A i \in EntriesOf(l2, id) : i <= n => i \in EntriesOf(l, id)
  BY <1>1, <1>2 DEF EntriesOf
<1>4. \A i \in EntriesOf(l, id) : i \in EntriesOf(l2, id)
  BY <1>1 DEF EntriesOf
<1>5. CASE x = NoContent /\ \A i \in EntriesOf(l, id) : i > n
  <2>1. \A i \in EntriesOf(l2, id) : i > n
    <3> SUFFICES ASSUME NEW i \in EntriesOf(l2, id), ~(i > n)
                 PROVE  FALSE
      OBVIOUS
    <3>1. i \in Nat /\ i <= n
      BY <1>1 DEF EntriesOf
    <3>2. i \in EntriesOf(l, id)
      BY <1>3, <3>1
    <3> QED
      BY <1>5, <3>1, <3>2
  <2> QED
    BY <1>5, <2>1 DEF LoggedContent
<1>6. CASE \E i \in 1..Len(l) : IsLastOf(l, id, i, n) /\ x = l[i].new
  <2> PICK i \in 1..Len(l) : IsLastOf(l, id, i, n) /\ x = l[i].new
    BY <1>6
  <2>1. IsLastOf(l2, id, i, n)
    BY <1>3, <1>4 DEF IsLastOf
  <2>2. i \in 1..Len(l2) /\ x = l2[i].new
    BY <1>1
  <2> QED
    BY <2>1, <2>2 DEF LoggedContent
<1> QED
  BY <1>5, <1>6 DEF LoggedContent

\* An entry about another key changes nothing for this one.
LEMMA LoggedContentOther ==
  ASSUME NEW l \in Seq(Entries), NEW e \in Entries, NEW id, NEW x,
         e.id # id, LoggedContent(l, id, Len(l), x)
  PROVE  LoggedContent(Append(l, e), id, Len(Append(l, e)), x)
<1> DEFINE l2 == Append(l, e)
<1>1. /\ Len(l2) = Len(l) + 1 /\ Len(l) \in Nat
      /\ \A i \in 1..Len(l) : l2[i] = l[i]
      /\ l2[Len(l) + 1] = e
  BY AppendKeeps
<1>2. EntriesOf(l2, id) = EntriesOf(l, id)
  BY <1>1 DEF EntriesOf
<1>3. CASE x = NoContent /\ \A i \in EntriesOf(l, id) : i > Len(l)
  <2>1. EntriesOf(l, id) = {}
    BY <1>1, <1>3 DEF EntriesOf
  <2> QED
    BY <1>2, <1>3, <2>1 DEF LoggedContent
<1>4. CASE \E i \in 1..Len(l) : IsLastOf(l, id, i, Len(l)) /\ x = l[i].new
  <2> PICK i \in 1..Len(l) : IsLastOf(l, id, i, Len(l)) /\ x = l[i].new
    BY <1>4
  <2>1. \A j \in EntriesOf(l, id) : j \in Nat /\ j <= Len(l)
    BY <1>1 DEF EntriesOf
  <2>2. IsLastOf(l2, id, i, Len(l2))
    BY <1>1, <1>2, <2>1 DEF IsLastOf
  <2> QED
    BY <1>1, <2>2 DEF LoggedContent
<1> QED
  BY <1>3, <1>4 DEF LoggedContent

\* The newest entry of a key is its logged content.
LEMMA LoggedContentNew ==
  ASSUME NEW l \in Seq(Entries), NEW e \in Entries
  PROVE  LoggedContent(Append(l, e), e.id, Len(Append(l, e)), e.new)
<1> DEFINE l2 == Append(l, e)
           m == Len(l) + 1
<1>1. Len(l2) = m /\ Len(l) \in Nat /\ l2[m] = e
  BY AppendKeeps
<1>2. m \in EntriesOf(l2, e.id)
  BY <1>1 DEF EntriesOf
<1>3. IsLastOf(l2, e.id, m, m)
  BY <1>1, <1>2 DEF IsLastOf
<1> QED
  BY <1>1, <1>3 DEF LoggedContent

-----------------------------------------------------------------------------
(* The transactions.                                                       *)

\* What a transaction has prepared, by the call it serves: nothing, or one
\* change of the row as it is in the committed table.
Prepared(c) ==
  LET a == call[c]  p == pend[c]  row == tab[a.id]
  IN \/ p = NoChange /\ pc[c] = "commit"
     \/ /\ p = [row |-> a.obj, action |-> "CREATE"]
        /\ a.op \in {"Create", "Upsert"} /\ row = NoRow
     \/ /\ p = [row |-> UpdatedRow(row, a.obj), action |-> "UPDATE"]
        /\ a.op \in {"Update", "Upsert"} /\ row # NoRow
     \/ /\ p = [row |-> NoRow, action |-> "DELETE"]
        /\ a.op = "Delete" /\ row # NoRow

\* What a connection knows at each statement: the row it has read is the row
\* the table still holds.
ConnInv(c) ==
  /\ pc[c] # "idle" => call[c] \in Calls
  /\ pc[c] \in {"idle", "begin", "read"} => old[c] = NoRow
  /\ pc[c] \in {"idle", "begin", "read", "write"} => pend[c] = NoChange
  /\ pc[c] = "read" => call[c].op # "Create"
  /\ pc[c] = "write" => \/ call[c].op = "Create" /\ old[c] = NoRow
                        \/ /\ call[c].op # "Create"
                           /\ old[c] = tab[call[c].id]
                           /\ call[c].op = "Update" => old[c] # NoRow
  /\ pc[c] \in {"record", "commit"} =>
       /\ Prepared(c)
       /\ pend[c] # NoChange => old[c] = tab[call[c].id]

\* The transactions are those of the holder of the lock.
TxInv ==
  /\ \A c \in Conns : pc[c] \in InTx <=> lock = c
  /\ \A c \in Conns : ConnInv(c)

IInv == TypeOK /\ TxInv

USE DEF Ops, InTx, Actions, NoChange

\* An object that updates a row leaves a row.
LEMMA UpdatedRowType ==
  ASSUME NEW row \in Rows, NEW obj \in Rows
  PROVE  UpdatedRow(row, obj) \in Rows /\ UpdatedRow(row, obj).cols = row.cols
  BY DEF UpdatedRow, Rows

\* The log entries of the model are entries.
LEMMA EntryType ==
  ASSUME NEW action \in {"CREATE", "UPDATE", "DELETE"}, NEW id \in Ids,
         NEW r1 \in Rows \cup {NoRow}, NEW r2 \in Rows \cup {NoRow}, NEW who \in Callers
  PROVE  /\ Entry(action, id, r1, r2, who) \in Entries
         /\ Entry(action, id, r1, r2, who).id = id
         /\ Entry(action, id, r1, r2, who).action = action
         /\ Entry(action, id, r1, r2, who).old = ContentOf(r1)
         /\ Entry(action, id, r1, r2, who).new = ContentOf(r2)
  BY DEF Entry, Entries, ContentOf, Rows

LEMMA CallsType ==
  ASSUME NEW a \in Calls
  PROVE  /\ a.op \in {"Create", "Update", "Upsert", "Delete"}
         /\ a.id \in Ids /\ a.obj \in Rows /\ a.who \in Callers
  BY DEF Calls

LEMMA AnyRowType ==
  ASSUME Rows # {}
  PROVE  AnyRow \in Rows
  BY DEF AnyRow

LEMMA EmptyType == EmptyDB.tab \in Tables /\ EmptyDB.log \in Seq(Entries)
<1>1. << >> \in Seq(Entries)
  OBVIOUS
<1> QED
  BY <1>1 DEF EmptyDB, Tables

\* The program begins with an empty database and no transaction.
LEMMA InitInv == Init => IInv
<1> SUFFICES ASSUME Init PROVE IInv
  OBVIOUS
<1>1. TypeOK
  <2>1. log \in Seq(Entries)
    BY EmptyType DEF Init
  <2>2. pend \in [Conns -> [row: Rows \cup {NoRow}, action: Actions]]
    BY DEF Init
  <2> QED
    BY EmptyType, <2>1, <2>2 DEF Init, TypeOK
<1>2. \A c \in Conns : pc[c] = "idle" /\ old[c] = NoRow /\ pend[c] = NoChange
  BY DEF Init
<1>3. \A c \in Conns : ConnInv(c)
  BY <1>2 DEF ConnInv
<1> QED
  BY <1>1, <1>2, <1>3, ConnAssumption DEF IInv, TxInv, Init

\* A connection is not disturbed by a step of another one that leaves the
\* committed table alone.
LEMMA OtherInv ==
  ASSUME NEW c \in Conns, ConnInv(c), tab' = tab, pc'[c] = pc[c],
         call'[c] = call[c], old'[c] = old[c], pend'[c] = pend[c]
  PROVE  ConnInv(c)'
  BY DEF ConnInv, Prepared

\* To keep the invariant, a step of c that leaves the committed database alone
\* must keep the types, the lock discipline and its own invariant.
LEMMA OwnInv ==
  ASSUME IInv, NEW c \in Conns, tab' = tab, TypeOK', ConnInv(c)',
         \A d \in Conns \ {c} : /\ pc'[d] = pc[d] /\ call'[d] = call[d]
                               /\ old'[d] = old[d] /\ pend'[d] = pend[d],
         \/ lock' = lock /\ (pc'[c] \in InTx <=> pc[c] \in InTx)
         \/ lock = NoConn /\ lock' = c /\ pc'[c] \in InTx
         \/ lock' = NoConn /\ pc[c] \in InTx /\ pc'[c] \notin InTx
  PROVE  IInv'
<1>1. \A d \in Conns : ConnInv(d)'
  <2> SUFFICES ASSUME NEW d \in Conns \ {c} PROVE ConnInv(d)'
    OBVIOUS
  <2>1. ConnInv(d)
    BY DEF IInv, TxInv
  <2> QED
    BY <2>1, OtherInv
<1>2. \A d \in Conns : pc'[d] \in InTx <=> lock' = d
  <2> SUFFICES ASSUME NEW d \in Conns PROVE pc'[d] \in InTx <=> lock' = d
    OBVIOUS
  <2>1. (pc[c] \in InTx <=> lock = c) /\ (pc[d] \in InTx <=> lock = d)
    BY DEF IInv, TxInv
  <2>2. CASE d = c
    BY <2>1, <2>2, ConnAssumption
  <2>3. CASE d # c
    <3>1. pc'[d] = pc[d]
      BY <2>3
    <3> QED
      BY <2>1, <2>3, <3>1, ConnAssumption
  <2> QED
    BY <2>2, <2>3
<1> QED
  BY <1>1, <1>2 DEF IInv, TxInv

\* A method returns without ever having had the lock, or gives it back.
LEMMA ReturnInv ==
  ASSUME IInv, NEW c \in Conns, Return({c}), tab' = tab, log' = log,
         \/ lock' = NoConn /\ pc[c] \in InTx
         \/ lock' = lock /\ pc[c] = "begin"
  PROVE  IInv'
<1>1. TypeOK'
  BY DEF IInv, TypeOK, Return
<1>2. pc'[c] = "idle" /\ old'[c] = NoRow /\ pend'[c] = NoChange
  BY DEF Return
<1>3. ConnInv(c)'
  BY <1>2 DEF ConnInv
<1>4. \A d \in Conns \ {c} : /\ pc'[d] = pc[d] /\ call'[d] = call[d]
                            /\ old'[d] = old[d] /\ pend'[d] = pend[d]
  BY DEF Return
<1> QED
  BY <1>1, <1>2, <1>3, <1>4, OwnInv

\* What is known of the call a connection serves.
LEMMA CallFacts ==
  ASSUME IInv, NEW c \in Conns, pc[c] # "idle"
  PROVE  /\ call[c].id \in Ids /\ call[c].obj \in Rows /\ call[c].who \in Callers
         /\ call[c].op \in {"Create", "Update", "Upsert", "Delete"}
         /\ call[c] \in Calls
         /\ tab[call[c].id] \in Rows \cup {NoRow}
<1>1. call[c] \in Calls
  BY DEF IInv, TxInv, ConnInv
<1> QED
  BY <1>1, CallsType DEF IInv, TypeOK, Tables

\* A statement that moves its connection on and may change what the
\* transaction has read or prepared.
LEMMA MoveInv ==
  ASSUME IInv, NEW c \in Conns, NEW label \in InTx, NEW row \in Rows \cup {NoRow},
         NEW p \in [row: Rows \cup {NoRow}, action: Actions],
         pc[c] \in InTx, Goto(c, label), tab' = tab, log' = log,
         lock' = lock, call' = call,
         old' = old \/ old' = [old EXCEPT ![c] = row],
         pend' = pend \/ pend' = [pend EXCEPT ![c] = p],
         ConnInv(c)'
  PROVE  IInv'
<1>1. TypeOK'
  <2>1. old' \in [Conns -> Rows \cup {NoRow}]
    BY DEF IInv, TypeOK
  <2>2. pend' \in [Conns -> [row: Rows \cup {NoRow}, action: Actions]]
    BY DEF IInv, TypeOK
  <2> QED
    BY <2>1, <2>2 DEF IInv, TypeOK, Goto
<1>2. \A d \in Conns \ {c} : /\ pc'[d] = pc[d] /\ call'[d] = call[d]
                            /\ old'[d] = old[d] /\ pend'[d] = pend[d]
  BY DEF IInv, TypeOK, Goto
<1>3. pc'[c] \in InTx
  BY DEF IInv, TypeOK, Goto
<1> QED
  BY <1>1, <1>2, <1>3, OwnInv

\* One step of a transaction that leaves the committed database alone.
LEMMA StatementInv ==
  ASSUME IInv, NEW c \in Conns,
         \/ Start(c) \/ Begin(c) \/ BeginBusy(c) \/ ReadOld(c) \/ Insert(c)
         \/ SetRow(c) \/ Unchanged(c) \/ Remove(c) \/ Record(c) \/ Fail(c)
  PROVE  IInv' /\ tab' = tab /\ log' = log
<1>1. CASE Start(c)
  <2>1. TypeOK'
    BY <1>1 DEF Start, Goto, IInv, TypeOK
  <2>2. pc'[c] = "begin" /\ call'[c] \in Calls /\ old'[c] = NoRow /\ pend'[c] = NoChange
    BY <1>1 DEF Start, Goto, IInv, TypeOK, TxInv, ConnInv
  <2>3. ConnInv(c)'
    BY <2>2 DEF ConnInv
  <2>4. \A d \in Conns \ {c} : /\ pc'[d] = pc[d] /\ call'[d] = call[d]
                              /\ old'[d] = old[d] /\ pend'[d] = pend[d]
    BY <1>1 DEF Start, Goto, IInv, TypeOK
  <2> QED
    BY <1>1, <2>1, <2>2, <2>3, <2>4, OwnInv DEF Start
<1>2. CASE Begin(c)
  <2>1. TypeOK'
    BY <1>2 DEF Begin, Goto, IInv, TypeOK
  <2>2. ConnInv(c)'
    <3>1. /\ pc'[c] = IF call[c].op = "Create" THEN "write" ELSE "read"
          /\ call'[c] = call[c] /\ old'[c] = NoRow /\ pend'[c] = NoChange
      BY <1>2 DEF Begin, Goto, IInv, TypeOK, TxInv, ConnInv
    <3> QED
      BY <1>2, <3>1, CallFacts DEF Begin, ConnInv
  <2>3. \A d \in Conns \ {c} : /\ pc'[d] = pc[d] /\ call'[d] = call[d]
                              /\ old'[d] = old[d] /\ pend'[d] = pend[d]
    BY <1>2 DEF Begin, Goto, IInv, TypeOK
  <2>4. pc'[c] \in InTx
    BY <1>2 DEF Begin, Goto, IInv, TypeOK
  <2> QED
    BY <1>2, <2>1, <2>2, <2>3, <2>4, OwnInv DEF Begin
<1>3. CASE BeginBusy(c)
  BY <1>3, ReturnInv DEF BeginBusy
<1>4. CASE ReadOld(c)
  <2>1. CASE call[c].op = "Update" /\ tab[call[c].id] = NoRow
    BY <1>4, <2>1, ReturnInv DEF ReadOld, Rollback
  <2>2. CASE ~(call[c].op = "Update" /\ tab[call[c].id] = NoRow)
    <3>1. ConnInv(c)
      BY DEF IInv, TxInv
    <3>2. /\ pc'[c] = "write" /\ old'[c] = tab[call[c].id]
          /\ call'[c] = call[c] /\ pend'[c] = pend[c] /\ tab' = tab
      BY <1>4, <2>2 DEF ReadOld, Goto, IInv, TypeOK
    <3>3. ConnInv(c)'
      BY <1>4, <2>2, <3>1, <3>2 DEF ReadOld, ConnInv
    <3>4. NoChange \in [row: Rows \cup {NoRow}, action: Actions]
      OBVIOUS
    <3> QED
      BY <1>4, <2>2, <3>3, <3>4, CallFacts, MoveInv DEF ReadOld
  <2> QED
    BY <2>1, <2>2
<1>5. CASE Insert(c)
  <2>1. CASE tab[call[c].id] # NoRow
    BY <1>5, <2>1, ReturnInv DEF Insert, Rollback
  <2>2. CASE tab[call[c].id] = NoRow
    <3>1. ConnInv(c) /\ call[c].obj \in Rows
      BY <1>5, CallFacts DEF Insert, IInv, TxInv
    <3> DEFINE p == [row |-> call[c].obj, action |-> "CREATE"]
    <3>2. p \in [row: Rows \cup {NoRow}, action: Actions]
      BY <3>1
    <3>3. /\ pc'[c] = "record" /\ old'[c] = old[c] /\ call'[c] = call[c]
          /\ pend'[c] = p /\ tab' = tab
      BY <1>5, <2>2 DEF Insert, Leaves, Goto, IInv, TypeOK
    <3>4. ConnInv(c)'
      BY <1>5, <2>2, <3>1, <3>3 DEF Insert, ConnInv, Prepared
    <3> QED
      BY <1>5, <2>2, <3>2, <3>4, MoveInv DEF Insert, Leaves
  <2> QED
    BY <2>1, <2>2
<1>6. CASE SetRow(c)
  <2>1. ConnInv(c) /\ call[c].obj \in Rows /\ tab[call[c].id] \in Rows \cup {NoRow}
    BY <1>6, CallFacts DEF SetRow, IInv, TxInv
  <2>2. tab[call[c].id] \in Rows
    BY <1>6, <2>1 DEF SetRow, ConnInv
  <2> DEFINE p == [row |-> UpdatedRow(tab[call[c].id], call[c].obj), action |-> "UPDATE"]
  <2>3. p \in [row: Rows \cup {NoRow}, action: Actions]
    BY <2>1, <2>2, UpdatedRowType
  <2>4. /\ pc'[c] = "record" /\ old'[c] = old[c] /\ call'[c] = call[c]
        /\ pend'[c] = p /\ tab' = tab
    BY <1>6 DEF SetRow, Leaves, Goto, IInv, TypeOK
  <2>5. ConnInv(c)'
    BY <1>6, <2>1, <2>2, <2>4, NoRowAssumption DEF SetRow, ConnInv, Prepared
  <2> QED
    BY <1>6, <2>3, <2>5, MoveInv DEF SetRow, Leaves
<1>7. CASE Unchanged(c)
  <2>1. ConnInv(c)
    BY DEF IInv, TxInv
  <2>2. /\ pc'[c] = "commit" /\ old'[c] = old[c] /\ call'[c] = call[c]
        /\ pend'[c] = pend[c] /\ tab' = tab
    BY <1>7 DEF Unchanged, Goto, IInv, TypeOK
  <2>3. ConnInv(c)'
    BY <1>7, <2>1, <2>2 DEF Unchanged, ConnInv, Prepared
  <2>4. NoChange \in [row: Rows \cup {NoRow}, action: Actions]
    OBVIOUS
  <2> QED
    BY <1>7, <2>3, <2>4, MoveInv DEF Unchanged
<1>8. CASE Remove(c)
  <2>1. ConnInv(c)
    BY DEF IInv, TxInv
  <2>2. /\ NoChange \in [row: Rows \cup {NoRow}, action: Actions]
        /\ [row |-> NoRow, action |-> "DELETE"] \in [row: Rows \cup {NoRow}, action: Actions]
    OBVIOUS
  <2>3. CASE tab[call[c].id] # NoRow
    <3>1. /\ pc'[c] = "record" /\ old'[c] = old[c] /\ call'[c] = call[c]
          /\ pend'[c] = [row |-> NoRow, action |-> "DELETE"] /\ tab' = tab
      BY <1>8, <2>3 DEF Remove, Leaves, Goto, IInv, TypeOK
    <3>2. ConnInv(c)'
      BY <1>8, <2>1, <2>3, <3>1 DEF Remove, ConnInv, Prepared
    <3> QED
      BY <1>8, <2>2, <2>3, <3>2, MoveInv DEF Remove, Leaves
  <2>4. CASE tab[call[c].id] = NoRow
    <3>1. /\ pc'[c] = "commit" /\ old'[c] = old[c] /\ call'[c] = call[c]
          /\ pend'[c] = pend[c] /\ tab' = tab
      BY <1>8, <2>4 DEF Remove, Goto, IInv, TypeOK
    <3>2. ConnInv(c)'
      BY <1>8, <2>1, <3>1 DEF Remove, ConnInv, Prepared
    <3> QED
      BY <1>8, <2>2, <2>4, <3>2, MoveInv DEF Remove
  <2> QED
    BY <2>3, <2>4
<1>9. CASE Record(c)
  <2>1. ConnInv(c)
    BY DEF IInv, TxInv
  <2>2. /\ pc'[c] = "commit" /\ old'[c] = old[c] /\ call'[c] = call[c]
        /\ pend'[c] = pend[c] /\ tab' = tab
    BY <1>9 DEF Record, Goto, IInv, TypeOK
  <2>3. ConnInv(c)'
    BY <1>9, <2>1, <2>2 DEF Record, ConnInv, Prepared
  <2>4. NoChange \in [row: Rows \cup {NoRow}, action: Actions]
    OBVIOUS
  <2> QED
    BY <1>9, <2>3, <2>4, MoveInv DEF Record
<1>10. CASE Fail(c)
  BY <1>10, ReturnInv DEF Fail, Rollback
<1> QED
  BY <1>1, <1>2, <1>3, <1>4, <1>5, <1>6, <1>7, <1>8, <1>9, <1>10

-----------------------------------------------------------------------------
(* Commits.                                                                *)

\* A change applied to a database gives a database.
LEMMA ApplyType ==
  ASSUME TypeOK, NEW id \in Ids, NEW row \in Rows \cup {NoRow}, NEW who \in Callers,
         NEW action \in {"CREATE", "UPDATE", "DELETE"}
  PROVE  /\ Apply(DB, action, id, row, who).tab \in Tables
         /\ Apply(DB, action, id, row, who).log \in Seq(Entries)
         /\ Apply(DB, action, id, row, who).tab = [tab EXCEPT ![id] = row]
         /\ Apply(DB, action, id, row, who).log
              = Append(log, Entry(action, id, tab[id], row, who))
<1>1. tab[id] \in Rows \cup {NoRow} /\ log \in Seq(Entries)
  BY DEF TypeOK, Tables
<1>2. Entry(action, id, tab[id], row, who) \in Entries
  BY <1>1, EntryType
<1>3. Append(log, Entry(action, id, tab[id], row, who)) \in Seq(Entries)
  BY <1>1, <1>2, AppendKeeps
<1>4. [tab EXCEPT ![id] = row] \in Tables
  BY DEF TypeOK, Tables
<1> QED
  BY <1>3, <1>4 DEF Apply, DB

\* What a transaction commits: nothing, or the change it prepared, applied to
\* the database as it is at the commit and not as it was when it was read.
LEMMA CommittedIsApplied ==
  ASSUME IInv, NEW c \in Conns, pc[c] = "commit"
  PROVE  \/ Committed(c) = DB
         \/ /\ Prepared(c)
            /\ pend[c].action \in {"CREATE", "UPDATE", "DELETE"}
            /\ pend[c].row \in Rows \cup {NoRow}
            /\ Committed(c) = Apply(DB, pend[c].action, call[c].id, pend[c].row, call[c].who)
<1>1. ConnInv(c) /\ Prepared(c)
  BY DEF IInv, TxInv, ConnInv
<1>2. pend[c] \in [row: Rows \cup {NoRow}, action: Actions]
  BY DEF IInv, TypeOK
<1>3. CASE pend[c].action = ""
  BY <1>3 DEF Committed
<1>4. CASE pend[c].action # ""
  <2>1. pend[c] # NoChange
    <3>1. NoChange.action = ""
      OBVIOUS
    <3> QED
      BY <1>4, <3>1
  <2>2. old[c] = tab[call[c].id]
    BY <1>1, <2>1 DEF ConnInv
  <2>3. Committed(c) = Apply(DB, pend[c].action, call[c].id, pend[c].row, call[c].who)
    BY <1>4, <2>2 DEF Committed, Apply, DB
  <2> QED
    BY <1>1, <1>2, <1>4, <2>3
<1> QED
  BY <1>3, <1>4

\* A commit keeps the types and leaves the other connections, none of which is
\* in a transaction, undisturbed.
LEMMA CommitInv ==
  ASSUME IInv, NEW c \in Conns, Commit(c)
  PROVE  IInv'
<1>1. tab' \in Tables /\ log' \in Seq(Entries)
  <2>1. TypeOK /\ pc[c] = "commit" /\ tab' = Committed(c).tab /\ log' = Committed(c).log
    BY DEF Commit, IInv
  <2>2. DB.tab = tab /\ DB.log = log
    BY DEF DB
  <2>3. call[c].id \in Ids /\ call[c].who \in Callers
    BY <2>1, CallFacts
  <2>4. CASE Committed(c) = DB
    BY <2>1, <2>2, <2>4 DEF TypeOK
  <2>5. CASE Committed(c) # DB
    <3>1. /\ pend[c].action \in {"CREATE", "UPDATE", "DELETE"}
          /\ pend[c].row \in Rows \cup {NoRow}
          /\ Committed(c) = Apply(DB, pend[c].action, call[c].id, pend[c].row, call[c].who)
      BY <2>1, <2>5, CommittedIsApplied
    <3> DEFINE new == Apply(DB, pend[c].action, call[c].id, pend[c].row, call[c].who)
    <3>2. new.tab \in Tables /\ new.log \in Seq(Entries)
      BY <2>1, <2>3, <3>1, ApplyType
    <3> HIDE DEF new
    <3>3. Committed(c) = new
      BY <3>1 DEF new
    <3> QED
      BY <2>1, <3>2, <3>3
  <2> QED
    BY <2>4, <2>5
<1>2. TypeOK'
  BY <1>1 DEF Commit, Return, IInv, TypeOK
<1>3. \A d \in Conns \ {c} : /\ pc'[d] = pc[d] /\ call'[d] = call[d]
                            /\ old'[d] = old[d] /\ pend'[d] = pend[d]
  BY DEF Commit, Return
<1>4. /\ pc'[c] = "idle" /\ old'[c] = NoRow /\ pend'[c] = NoChange
      /\ lock' = NoConn
  BY DEF Commit, Return
<1>5. \A d \in Conns \ {c} : pc[d] \in {"idle", "begin"} /\ ConnInv(d)
  BY DEF Commit, IInv, TxInv, TypeOK
<1>6. \A d \in Conns : ConnInv(d)'
  BY <1>3, <1>4, <1>5 DEF ConnInv
<1>7. \A d \in Conns : pc'[d] \in InTx <=> lock' = d
  BY <1>3, <1>4, <1>5, ConnAssumption
<1> QED
  BY <1>2, <1>6, <1>7 DEF IInv, TxInv

\* After a crash no transaction is left.
LEMMA CrashInv ==
  ASSUME IInv, Crash
  PROVE  IInv' /\ tab' = tab /\ log' = log
<1>1. \A d \in Conns : pc'[d] = "idle" /\ old'[d] = NoRow /\ pend'[d] = NoChange
  BY DEF Crash, Return
<1>2. TypeOK'
  BY DEF Crash, Return, IInv, TypeOK
<1>3. \A d \in Conns : ConnInv(d)'
  BY <1>1 DEF ConnInv
<1>4. lock' = NoConn
  BY DEF Crash
<1> QED
  BY <1>1, <1>2, <1>3, <1>4, ConnAssumption DEF IInv, TxInv, Crash

\* Every step keeps the invariant, and only a commit changes the database.
LEMMA NextInv ==
  ASSUME IInv, [Next]_vars
  PROVE  /\ IInv'
         /\ (tab' = tab /\ log' = log) \/ \E c \in Conns : Commit(c)
<1>1. CASE \E c \in Conns : Commit(c)
  BY <1>1, CommitInv
<1>2. CASE Crash
  BY <1>2, CrashInv
<1>3. CASE UNCHANGED vars
  BY <1>3 DEF vars, IInv, TypeOK, TxInv, ConnInv, Prepared
<1>4. ASSUME NEW c \in Conns,
             \/ Start(c) \/ Begin(c) \/ BeginBusy(c) \/ ReadOld(c) \/ Insert(c)
             \/ SetRow(c) \/ Unchanged(c) \/ Remove(c) \/ Record(c) \/ Fail(c)
      PROVE  IInv' /\ tab' = tab /\ log' = log
  BY <1>4, StatementInv
<1> QED
  BY <1>1, <1>2, <1>3, <1>4 DEF Next, Step

\* The store keeps its types, for any keys, contents, callers and goroutines.
THEOREM TypeCorrect == Spec => []TypeOK
<1>1. IInv /\ [Next]_vars => IInv'
  BY NextInv
<1>2. IInv => TypeOK
  BY DEF IInv
<1> QED
  BY InitInv, <1>1, <1>2, PTL DEF Spec

-----------------------------------------------------------------------------
(* The operation log.                                                      *)

LogInv == LogExplainsTable /\ LogUnbroken /\ LogActionsFit

\* A key has a content exactly when it has a row.
LEMMA ContentOfRow ==
  ASSUME NEW row \in Rows \cup {NoRow}
  PROVE  ContentOf(row) = NoContent <=> row = NoRow
  BY SentinelAssumption DEF ContentOf, Rows

\* A logged change keeps the log a faithful account of the table, when its
\* action tells what happened to the row.
LEMMA ApplyKeepsLog ==
  ASSUME TypeOK, LogInv,
         NEW id \in Ids, NEW row \in Rows \cup {NoRow}, NEW who \in Callers,
         NEW action \in {"CREATE", "UPDATE", "DELETE"},
         action = "CREATE" <=> tab[id] = NoRow,
         action = "DELETE" <=> row = NoRow,
         tab' = Apply(DB, action, id, row, who).tab,
         log' = Apply(DB, action, id, row, who).log
  PROVE  LogInv'
<1> DEFINE e == Entry(action, id, tab[id], row, who)
<1>1. /\ tab' = [tab EXCEPT ![id] = row] /\ log' = Append(log, e)
      /\ log \in Seq(Entries)
  <2>1. log \in Seq(Entries)
    BY DEF TypeOK
  <2>2. /\ Apply(DB, action, id, row, who).tab = [tab EXCEPT ![id] = row]
        /\ Apply(DB, action, id, row, who).log = Append(log, e)
    BY DEF Apply, DB
  <2> QED
    BY <2>1, <2>2
<1>2. tab[id] \in Rows \cup {NoRow}
  BY DEF TypeOK, Tables
<1>3. /\ e \in Entries /\ e.id = id /\ e.action = action
      /\ e.old = ContentOf(tab[id]) /\ e.new = ContentOf(row)
  <2> HIDE DEF e
  <2>1. \A r \in Rows \cup {NoRow} :
          LET f == Entry(action, id, r, row, who) IN
          /\ f \in Entries /\ f.id = id /\ f.action = action
          /\ f.old = ContentOf(r) /\ f.new = ContentOf(row)
    BY EntryType
  <2> QED
    BY <1>2, <2>1, Zenon DEF e
<1> HIDE DEF e
<1>4. /\ Len(log') = Len(log) + 1 /\ Len(log) \in Nat
      /\ \A i \in 1..Len(log) : log'[i] = log[i]
      /\ log'[Len(log) + 1] = e
  BY <1>1, <1>3, AppendKeeps
<1>5. LogExplainsTable'
  <2> SUFFICES ASSUME NEW k \in Ids
               PROVE  LoggedContent(log', k, Len(log'), ContentOf(tab'[k]))
    BY DEF LogExplainsTable
  <2>1. CASE k = id
    <3>1. tab'[k] = row
      BY <1>1, <2>1 DEF TypeOK, Tables
    <3> QED
      BY <1>1, <1>3, <2>1, <3>1, LoggedContentNew
  <2>2. CASE k # id
    <3>1. tab'[k] = tab[k]
      BY <1>1, <2>2 DEF TypeOK, Tables
    <3>2. LoggedContent(log, k, Len(log), ContentOf(tab[k]))
      BY DEF LogInv, LogExplainsTable
    <3> QED
      BY <1>1, <1>3, <2>2, <3>1, <3>2, LoggedContentOther
  <2> QED
    BY <2>1, <2>2
<1>6. LogUnbroken'
  <2> SUFFICES ASSUME NEW n \in 1..Len(log')
               PROVE  LoggedContent(log', log'[n].id, n - 1, log'[n].old)
    BY DEF LogUnbroken
  <2>1. CASE n \in 1..Len(log)
    <3>1. LoggedContent(log, log[n].id, n - 1, log[n].old) /\ n - 1 \in 0..Len(log)
      BY <1>4, <2>1 DEF LogInv, LogUnbroken
    <3> QED
      BY <1>1, <1>3, <1>4, <2>1, <3>1, LoggedContentStable
  <2>2. CASE n = Len(log) + 1
    <3>1. LoggedContent(log, id, Len(log), ContentOf(tab[id]))
      BY DEF LogInv, LogExplainsTable
    <3>2. LoggedContent(log', id, Len(log), ContentOf(tab[id]))
      BY <1>1, <1>3, <1>4, <3>1, LoggedContentStable
    <3>3. n - 1 = Len(log)
      BY <1>4, <2>2
    <3> QED
      BY <1>3, <1>4, <2>2, <3>2, <3>3
  <2> QED
    BY <1>4, <2>1, <2>2
<1>7. LogActionsFit'
  <2>1. ActionFits(e)
    BY <1>2, <1>3, ContentOfRow DEF ActionFits
  <2> QED
    BY <1>4, <2>1 DEF LogInv, LogActionsFit, ActionFits
<1> QED
  BY <1>5, <1>6, <1>7 DEF LogInv

\* A prepared change has the action that tells what happens to the row.
LEMMA PreparedFits ==
  ASSUME IInv, NEW c \in Conns, pc[c] = "commit", Prepared(c), pend[c].action # ""
  PROVE  /\ pend[c].action = "CREATE" <=> tab[call[c].id] = NoRow
         /\ pend[c].action = "DELETE" <=> pend[c].row = NoRow
<1>1. call[c].obj \in Rows /\ tab[call[c].id] \in Rows \cup {NoRow}
  BY CallFacts
<1> DEFINE new == UpdatedRow(tab[call[c].id], call[c].obj)
<1>2. tab[call[c].id] # NoRow => new \in Rows
  BY <1>1, UpdatedRowType
<1> HIDE DEF new
<1>3. tab[call[c].id] # NoRow => new # NoRow
  BY <1>2, NoRowAssumption
<1>4. CASE pend[c] = [row |-> call[c].obj, action |-> "CREATE"] /\ tab[call[c].id] = NoRow
  BY <1>1, <1>4, NoRowAssumption
<1>5. CASE pend[c] = [row |-> new, action |-> "UPDATE"] /\ tab[call[c].id] # NoRow
  BY <1>3, <1>5
<1>6. CASE pend[c] = [row |-> NoRow, action |-> "DELETE"] /\ tab[call[c].id] # NoRow
  BY <1>6
<1>7. pend[c] # NoChange
  <2>1. NoChange.action = ""
    OBVIOUS
  <2> QED
    BY <2>1
<1> QED
  BY <1>4, <1>5, <1>6, <1>7 DEF Prepared, new

LEMMA LogNext == ASSUME IInv, LogInv, [Next]_vars PROVE LogInv'
<1>1. CASE tab' = tab /\ log' = log
  BY <1>1 DEF LogInv, LogExplainsTable, LogUnbroken, LogActionsFit, ActionFits
<1>2. ASSUME NEW c \in Conns, Commit(c), ~(tab' = tab /\ log' = log) PROVE LogInv'
  <2>1. /\ pc[c] = "commit" /\ tab' = Committed(c).tab /\ log' = Committed(c).log
        /\ TypeOK
    BY <1>2 DEF Commit, IInv
  <2>2. DB.tab = tab /\ DB.log = log
    BY DEF DB
  <2>3. Committed(c) # DB
    BY <1>2, <2>1, <2>2
  <2>4. call[c].id \in Ids /\ call[c].who \in Callers
    BY <2>1, CallFacts
  <2>5. /\ Prepared(c)
        /\ pend[c].action \in {"CREATE", "UPDATE", "DELETE"}
        /\ pend[c].row \in Rows \cup {NoRow}
        /\ Committed(c) = Apply(DB, pend[c].action, call[c].id, pend[c].row, call[c].who)
    BY <2>1, <2>3, CommittedIsApplied
  <2>6. /\ pend[c].action = "CREATE" <=> tab[call[c].id] = NoRow
        /\ pend[c].action = "DELETE" <=> pend[c].row = NoRow
    BY <2>1, <2>5, PreparedFits
  <2>7. /\ tab' = Apply(DB, pend[c].action, call[c].id, pend[c].row, call[c].who).tab
        /\ log' = Apply(DB, pend[c].action, call[c].id, pend[c].row, call[c].who).log
    BY <2>1, <2>5
  <2> QED
    BY <2>1, <2>4, <2>5, <2>6, <2>7, ApplyKeepsLog
<1> QED
  BY <1>1, <1>2, NextInv

LEMMA LogInit == Init => LogInv
<1> SUFFICES ASSUME Init PROVE LogInv
  OBVIOUS
<1>1. Len(<< >>) = 0
  OBVIOUS
<1>2. Len(log) = 0 /\ \A id \in Ids : tab[id] = NoRow
  BY <1>1 DEF Init, EmptyDB
<1>3. \A i : i \notin 1..Len(log)
  BY <1>2
<1>4. LogExplainsTable
  BY <1>2, <1>3 DEF LogExplainsTable, LoggedContent, EntriesOf, ContentOf
<1> QED
  BY <1>3, <1>4 DEF LogInv, LogUnbroken, LogActionsFit

\* The invariant and the faithfulness of the log together.
LEMMA LogCorrect == Spec => [](IInv /\ LogInv)
<1>1. IInv /\ LogInv /\ [Next]_vars => (IInv /\ LogInv)'
  BY NextInv, LogNext
<1> QED
  BY InitInv, LogInit, <1>1, PTL DEF Spec

\* The operation log explains the table: every key's content is the
\* new_content of its latest entry (dbservice.go writes both in one
\* transaction, under the write lock taken before the row is read).
THEOREM LogExplains == Spec => []LogExplainsTable
<1>1. IInv /\ LogInv => LogExplainsTable
  BY DEF LogInv
<1> QED
  BY LogCorrect, <1>1, PTL

\* No change is missing from the log or out of order in it.
THEOREM LogIsUnbroken == Spec => []LogUnbroken
<1>1. IInv /\ LogInv => LogUnbroken
  BY DEF LogInv
<1> QED
  BY LogCorrect, <1>1, PTL

\* The action of every log entry says whether the row appeared, changed or
\* disappeared.
THEOREM LogActions == Spec => []LogActionsFit
<1>1. IInv /\ LogInv => LogActionsFit
  BY DEF LogInv
<1> QED
  BY LogCorrect, <1>1, PTL

-----------------------------------------------------------------------------
(* What one step may do to the table.                                      *)

\* A commit changes nothing, or one row by one of the four calls.
LEMMA CommitKinds ==
  ASSUME IInv, NEW c \in Conns, Commit(c), ~(tab' = tab /\ log' = log)
  PROVE  /\ call[c] \in Calls
         /\ tab[call[c].id] \in Rows \cup {NoRow}
         /\ pend[c].action \in {"CREATE", "UPDATE", "DELETE"}
         /\ Prepared(c)
         /\ tab' = [tab EXCEPT ![call[c].id] = pend[c].row]
         /\ log' = Append(log, Entry(pend[c].action, call[c].id, tab[call[c].id],
                                     pend[c].row, call[c].who))
<1>1. /\ pc[c] = "commit" /\ tab' = Committed(c).tab /\ log' = Committed(c).log
  BY DEF Commit
<1>2. DB.tab = tab /\ DB.log = log
  BY DEF DB
<1>3. Committed(c) # DB
  BY <1>1, <1>2
<1>4. /\ Prepared(c)
      /\ pend[c].action \in {"CREATE", "UPDATE", "DELETE"}
      /\ Committed(c) = Apply(DB, pend[c].action, call[c].id, pend[c].row, call[c].who)
  BY <1>1, <1>3, CommittedIsApplied
<1>5. /\ Committed(c).tab = [tab EXCEPT ![call[c].id] = pend[c].row]
      /\ Committed(c).log = Append(log, Entry(pend[c].action, call[c].id, tab[call[c].id],
                                              pend[c].row, call[c].who))
  BY <1>4 DEF Apply, DB
<1> QED
  BY <1>1, <1>4, <1>5, CallFacts

\* Rows keep their party columns between insertion and removal.
THEOREM ColumnsFinal == Spec => ColumnsAreFinal
<1> DEFINE Kept == \A id \in Ids : tab[id] # NoRow /\ tab'[id] # NoRow
                                     => tab'[id].cols = tab[id].cols
<1>1. ASSUME IInv, [Next]_vars PROVE [Kept]_vars
  <2>1. CASE tab' = tab /\ log' = log
    BY <2>1
  <2>2. ASSUME NEW c \in Conns, Commit(c), ~(tab' = tab /\ log' = log) PROVE Kept
    <3>1. /\ call[c].id \in Ids /\ call[c].obj \in Rows
          /\ tab[call[c].id] \in Rows \cup {NoRow} /\ Prepared(c)
          /\ pend[c].action \in {"CREATE", "UPDATE", "DELETE"}
          /\ tab' = [tab EXCEPT ![call[c].id] = pend[c].row]
      BY <1>1, <2>2, CommitKinds, CallsType
    <3>2. \A id \in Ids : tab'[id] = IF id = call[c].id THEN pend[c].row ELSE tab[id]
      BY <1>1, <3>1 DEF IInv, TypeOK, Tables
    <3>3. CASE tab[call[c].id] = NoRow
      BY <3>2, <3>3
    <3>4. CASE tab[call[c].id] # NoRow
      <4>1. UpdatedRow(tab[call[c].id], call[c].obj).cols = tab[call[c].id].cols
        BY <3>1, <3>4, UpdatedRowType
      <4>2. pend[c].row \in {UpdatedRow(tab[call[c].id], call[c].obj), NoRow}
        <5>1. NoChange.action = ""
          OBVIOUS
        <5>2. pend[c] # NoChange
          BY <3>1, <5>1
        <5>3. \/ pend[c] = [row |-> UpdatedRow(tab[call[c].id], call[c].obj),
                            action |-> "UPDATE"]
              \/ pend[c] = [row |-> NoRow, action |-> "DELETE"]
          BY <3>1, <3>4, <5>2 DEF Prepared
        <5> HIDE DEF NoChange
        <5> QED
          BY <5>3
      <4> QED
        BY <3>2, <4>1, <4>2
    <3> QED
      BY <3>3, <3>4
  <2> QED
    BY <1>1, <2>1, <2>2, NextInv
<1>2. IInv /\ [Next]_vars => IInv'
  BY NextInv
<1> QED
  BY InitInv, <1>1, <1>2, PTL DEF Spec, ColumnsAreFinal

\* Every call is one atomic step of the abstract store, or no step at all.
THEOREM StoreImplementsAbs == Spec => ImplementsAbs
<1>1. Init => Abs!AbsInit
  BY DEF Init, Abs!AbsInit, Abs!AbsDB, Abs!EmptyDB, EmptyDB
<1>2. ASSUME IInv, [Next]_vars PROVE [Abs!AbsNext]_(Abs!absvars)
  <2>1. CASE tab' = tab /\ log' = log
    BY <2>1 DEF Abs!absvars
  <2>2. ASSUME NEW c \in Conns, Commit(c), ~(tab' = tab /\ log' = log) PROVE Abs!AbsNext
    <3> DEFINE id == call[c].id
               obj == call[c].obj
               who == call[c].who
               row == tab[id]
    <3>1. /\ id \in Ids /\ obj \in Rows /\ who \in Callers
          /\ row \in Rows \cup {NoRow} /\ Prepared(c)
          /\ pend[c].action \in {"CREATE", "UPDATE", "DELETE"}
          /\ tab' = [tab EXCEPT ![id] = pend[c].row]
          /\ log' = Append(log, Entry(pend[c].action, id, row, pend[c].row, who))
      BY <1>2, <2>2, CommitKinds, CallsType
    <3>2. obj \in Abs!Rows
      BY <3>1 DEF Rows, Abs!Rows
    <3>3. \A action, new :
            /\ Abs!Apply(Abs!AbsDB, action, id, new, who).tab = [tab EXCEPT ![id] = new]
            /\ Abs!Apply(Abs!AbsDB, action, id, new, who).log
                 = Append(log, Entry(action, id, row, new, who))
      BY DEF Abs!Apply, Abs!AbsDB, Abs!Entry, Entry, Abs!ContentOf, ContentOf
    <3>4. Abs!AbsDB.tab = tab
      BY DEF Abs!AbsDB
    <3> DEFINE new == Abs!Apply(Abs!AbsDB, pend[c].action, id, pend[c].row, who)
    <3>9. tab' = new.tab /\ log' = new.log
      BY <3>1, <3>3
    <3>10. \A answer : answer.db = new => Abs!Becomes(answer)
      BY <3>9 DEF Abs!Becomes
    <3>5. CASE pend[c] = [row |-> obj, action |-> "CREATE"] /\ row = NoRow
      <4>1. Abs!Becomes(Abs!CreateObject(Abs!AbsDB, id, obj, who))
        <5>1. Abs!CreateObject(Abs!AbsDB, id, obj, who).db = new
          BY <3>4, <3>5 DEF Abs!CreateObject
        <5> QED
          BY <3>10, <5>1
      <4> QED
        BY <3>1, <3>2, <4>1 DEF Abs!AbsNext
    <3>6. CASE pend[c] = [row |-> UpdatedRow(row, obj), action |-> "UPDATE"] /\ row # NoRow
      <4>1. UpdatedRow(row, obj) = Abs!UpdatedRow(row, obj)
        BY DEF UpdatedRow, Abs!UpdatedRow
      <4>2. Abs!Becomes(Abs!UpdateObject(Abs!AbsDB, id, obj, who))
        <5>1. Abs!UpdateObject(Abs!AbsDB, id, obj, who).db = new
          BY <3>4, <4>1, <3>6 DEF Abs!UpdateObject
        <5> QED
          BY <3>10, <5>1
      <4> QED
        BY <3>1, <3>2, <4>2 DEF Abs!AbsNext
    <3>7. CASE pend[c] = [row |-> NoRow, action |-> "DELETE"] /\ row # NoRow
      <4>1. Abs!Becomes(Abs!DeleteObject(Abs!AbsDB, id, who))
        <5>1. Abs!DeleteObject(Abs!AbsDB, id, who).db = new
          BY <3>4, <3>7 DEF Abs!DeleteObject
        <5> QED
          BY <3>10, <5>1
      <4> QED
        BY <3>1, <4>1 DEF Abs!AbsNext
    <3>8. pend[c] # NoChange
      <4>1. NoChange.action = ""
        OBVIOUS
      <4> QED
        BY <3>1, <4>1
    <3> QED
      BY <3>1, <3>5, <3>6, <3>7, <3>8 DEF Prepared
  <2> QED
    BY <1>2, <2>1, <2>2, NextInv
<1>3. IInv /\ [Next]_vars => IInv'
  BY NextInv
<1> QED
  BY InitInv, <1>1, <1>2, <1>3, PTL DEF Spec, ImplementsAbs, Abs!AbsSpec
=============================================================================
