------------------------------ MODULE TMFStore ------------------------------
(***************************************************************************)
(* DBService as its callers' goroutines run it: each writing call is a     *)
(* SQLite transaction of several statements, every statement can fail, the *)
(* process can crash between two of them, and a call whose error path is   *)
(* taken rolls back (defer tx.Rollback()).  The connection string asks for *)
(* BEGIN IMMEDIATE (_txlock=immediate), so that a transaction owns the     *)
(* write lock from its beginning, and for a busy timeout, after which      *)
(* Begin gives up.  Readers run outside transactions and see what is       *)
(* committed (WAL).                                                        *)
(*                                                                         *)
(* tab and log are the committed tables; what a transaction has done so    *)
(* far is in pend until it commits.                                        *)
(***************************************************************************)
EXTENDS TMFRecords

CONSTANTS
  Conns,    \* the goroutines that call DBService, each with a connection
  NoConn,   \* nobody holds the write lock
  NoCall,   \* a connection that serves no call
  MaxLog    \* bound of the model: no transaction begins once the log has this length

ASSUME ConnAssumption == NoConn \notin Conns
ASSUME NoCallAssumption == \A a \in [op: {"Create", "Update", "Upsert", "Delete"},
                                      id: Ids, obj: Rows, who: Callers] : NoCall # a
ASSUME MaxLogAssumption == MaxLog \in Nat

VARIABLES
  tab, log,   \* the committed database
  lock,       \* the connection that holds SQLite's write lock
  pc,         \* pc[c]: the statement connection c executes next
  call,       \* call[c]: the arguments of its current call, or NoCall
  old,        \* old[c]: oldObj, the row getObjectWithTx read
  pend        \* pend[c]: the row the transaction leaves, and its log action

vars == <<tab, log, lock, pc, call, old, pend>>

DB == [tab |-> tab, log |-> log]

Ops == {"Create", "Update", "Upsert", "Delete"}
\* A Delete has no object; the model gives it an arbitrary one.
AnyRow == CHOOSE obj \in Rows : TRUE
Calls == {a \in [op: Ops, id: Ids, obj: Rows, who: Callers] :
            a.op = "Delete" => a.obj = AnyRow}

\* pend[c].action is "" while the transaction has changed nothing.
Actions == {"", "CREATE", "UPDATE", "DELETE"}
NoChange == [row |-> NoRow, action |-> ""]

InTx == {"read", "write", "record", "commit"}

TypeOK ==
  /\ tab \in Tables
  /\ log \in Seq(Entries)
  /\ lock \in Conns \cup {NoConn}
  /\ pc \in [Conns -> {"idle", "begin"} \cup InTx]
  /\ call \in [Conns -> Calls \cup {NoCall}]
  /\ old \in [Conns -> Rows \cup {NoRow}]
  /\ pend \in [Conns -> [row: Rows \cup {NoRow}, action: Actions]]

Init ==
  /\ tab = EmptyDB.tab /\ log = EmptyDB.log
  /\ lock = NoConn
  /\ pc = [c \in Conns |-> "idle"]
  /\ call = [c \in Conns |-> NoCall]
  /\ old = [c \in Conns |-> NoRow]
  /\ pend = [c \in Conns |-> NoChange]

Goto(c, label) == pc' = [pc EXCEPT ![c] = label]

\* The method returns to its caller, or dies with it: C is a set of connections.
Return(C) ==
  /\ pc' = [c \in Conns |-> IF c \in C THEN "idle" ELSE pc[c]]
  /\ call' = [c \in Conns |-> IF c \in C THEN NoCall ELSE call[c]]
  /\ old' = [c \in Conns |-> IF c \in C THEN NoRow ELSE old[c]]
  /\ pend' = [c \in Conns |-> IF c \in C THEN NoChange ELSE pend[c]]

-----------------------------------------------------------------------------
(* The statements of a transaction.                                        *)

\* A caller enters one of the four methods.
Start(c) ==
  /\ pc[c] = "idle" /\ Len(log) < MaxLog
  /\ \E a \in Calls : call' = [call EXCEPT ![c] = a]
  /\ Goto(c, "begin")
  /\ UNCHANGED <<tab, log, lock, old, pend>>

\* Mutant: BEGIN DEFERRED, a transaction begins while another one is open.
BeginDeferred(c) ==
  /\ pc[c] = "begin"
  /\ lock' = c
  /\ Goto(c, IF call[c].op = "Create" THEN "write" ELSE "read")
  /\ UNCHANGED <<tab, log, call, old, pend>>

\* BEGIN IMMEDIATE takes the write lock.  CreateObject goes straight to its
\* INSERT, the others read the row first.
Begin(c) ==
  /\ pc[c] = "begin" /\ lock = NoConn
  /\ lock' = c
  /\ Goto(c, IF call[c].op = "Create" THEN "write" ELSE "read")
  /\ UNCHANGED <<tab, log, call, old, pend>>

\* The busy timeout expires while another connection holds the lock.
BeginBusy(c) ==
  /\ pc[c] = "begin" /\ lock # NoConn
  /\ Return({c})
  /\ UNCHANGED <<tab, log, lock>>

\* Mutant: an error path without the rollback.
NoRollback(c) ==
  /\ Return({c})
  /\ UNCHANGED <<tab, log, lock>>

\* The deferred tx.Rollback() of a call that returns early: nothing of the
\* transaction stays and the lock is free again.
Rollback(c) ==
  /\ lock' = NoConn
  /\ Return({c})
  /\ UNCHANGED <<tab, log>>

\* getObjectWithTx; UpdateObject returns ErrObjectNotFound when there is no row.
ReadOld(c) ==
  /\ pc[c] = "read"
  /\ IF call[c].op = "Update" /\ tab[call[c].id] = NoRow
     THEN Rollback(c)
     ELSE /\ old' = [old EXCEPT ![c] = tab[call[c].id]]
          /\ Goto(c, "write")
          /\ UNCHANGED <<tab, log, lock, call, pend>>

Leaves(c, row, action) ==
  /\ pend' = [pend EXCEPT ![c] = [row |-> row, action |-> action]]
  /\ UNCHANGED <<tab, log, lock, call, old>>

\* Mutant: INSERT OR REPLACE.
InsertOrReplace(c) ==
  /\ pc[c] = "write"
  /\ call[c].op = "Create" \/ (call[c].op = "Upsert" /\ old[c] = NoRow)
  /\ Leaves(c, call[c].obj, "CREATE") /\ Goto(c, "record")

\* INSERT of CreateObject, or of UpsertObject when it read no row.  A primary
\* key violation is ErrObjectExists; either way an error ends the call.
Insert(c) ==
  /\ pc[c] = "write"
  /\ call[c].op = "Create" \/ (call[c].op = "Upsert" /\ old[c] = NoRow)
  /\ IF tab[call[c].id] # NoRow
     THEN Rollback(c)
     ELSE Leaves(c, call[c].obj, "CREATE") /\ Goto(c, "record")

\* UPDATE of UpdateObject, or of UpsertObject when the stored text differs.
SetRow(c) ==
  /\ pc[c] = "write"
  /\ call[c].op \in {"Update", "Upsert"} /\ old[c] # NoRow
  /\ Leaves(c, UpdatedRow(tab[call[c].id], call[c].obj), "UPDATE")
  /\ Goto(c, "record")

\* UpsertObject finds the stored text identical and commits without writing.
Unchanged(c) ==
  /\ pc[c] = "write"
  /\ call[c].op = "Upsert" /\ old[c] # NoRow
  /\ call[c].obj.content = old[c].content
  /\ Goto(c, "commit")
  /\ UNCHANGED <<tab, log, lock, call, old, pend>>

\* Mutant: a DELETE that is logged whether or not it removed something.
RemoveAlwaysLogged(c) ==
  /\ pc[c] = "write" /\ call[c].op = "Delete"
  /\ Leaves(c, NoRow, "DELETE") /\ Goto(c, "record")

\* DELETE: recordOperation runs only when a row was affected.
Remove(c) ==
  /\ pc[c] = "write" /\ call[c].op = "Delete"
  /\ IF tab[call[c].id] # NoRow
     THEN Leaves(c, NoRow, "DELETE") /\ Goto(c, "record")
     ELSE Goto(c, "commit") /\ UNCHANGED <<tab, log, lock, call, old, pend>>

\* INSERT INTO tmf_operation_log, in the same transaction.
Record(c) ==
  /\ pc[c] = "record"
  /\ Goto(c, "commit")
  /\ UNCHANGED <<tab, log, lock, call, old, pend>>

\* Mutants: a removal without a log entry; UpsertObject's own action name.
CommittedUnlogged(c) ==
  IF pend[c].action = "" THEN DB
  ELSE [tab |-> [tab EXCEPT ![call[c].id] = pend[c].row],
        log |-> IF pend[c].action = "DELETE" THEN log
                ELSE Append(log, Entry(pend[c].action, call[c].id, old[c],
                                       pend[c].row, call[c].who))]
CommittedAsUpsert(c) ==
  IF pend[c].action = "" THEN DB
  ELSE [tab |-> [tab EXCEPT ![call[c].id] = pend[c].row],
        log |-> Append(log, Entry(IF call[c].op = "Upsert" THEN "UPSERT" ELSE pend[c].action,
                                  call[c].id, old[c], pend[c].row, call[c].who))]

\* The database the transaction commits: the row, and the entry with the old
\* row the transaction has read.
Committed(c) ==
  IF pend[c].action = "" THEN DB
  ELSE [tab |-> [tab EXCEPT ![call[c].id] = pend[c].row],
        log |-> Append(log, Entry(pend[c].action, call[c].id, old[c],
                                  pend[c].row, call[c].who))]

Commit(c) ==
  /\ pc[c] = "commit"
  /\ tab' = Committed(c).tab /\ log' = Committed(c).log
  /\ lock' = NoConn
  /\ Return({c})

\* A statement fails and the method returns its error.
Fail(c) ==
  /\ pc[c] \in InTx
  /\ Rollback(c)

\* The process dies: the WAL of the transaction in progress is discarded when
\* the database is next opened, and no caller is left.
Crash ==
  /\ \E c \in Conns : pc[c] # "idle"
  /\ lock' = NoConn
  /\ Return(Conns)
  /\ UNCHANGED <<tab, log>>

Step(c) == \/ Begin(c) \/ BeginBusy(c)
           \/ ReadOld(c) \/ Insert(c) \/ SetRow(c) \/ Unchanged(c) \/ Remove(c)
           \/ Record(c) \/ Commit(c)

Next == (\E c \in Conns : Start(c) \/ Step(c) \/ Fail(c)) \/ Crash

Spec == Init /\ [][Next]_vars

\* A method that was entered runs on: its goroutine is scheduled, and Begin
\* returns after the busy timeout at the latest.
FairSpec == Spec /\ \A c \in Conns : WF_vars(Step(c))

-----------------------------------------------------------------------------
(* Properties.                                                             *)

\* The table is exactly what the log says: the content of every key is the
\* new_content of its latest entry, and a key with no entry has no row.
LogExplainsTable ==
  \A id \in Ids : LoggedContent(log, id, Len(log), ContentOf(tab[id]))

\* The log of each key is unbroken: every entry's old_content is what the
\* entries before it left, so no committed change is missing from the log or
\* out of order in it.
LogUnbroken ==
  \A n \in 1..Len(log) : LoggedContent(log, log[n].id, n - 1, log[n].old)

\* The action of an entry tells insertion, change and removal apart.
ActionFits(e) ==
  /\ e.action = "CREATE" <=> e.old = NoContent
  /\ e.action = "DELETE" <=> e.new = NoContent
LogActionsFit == \A n \in 1..Len(log) : ActionFits(log[n])

\* Between its insertion and its removal a row keeps its party columns, as the
\* comment in UpdateObject says (dbservice.go:333: they cannot be changed after
\* creation).  The comment of the table (dbservice.go:24) says the opposite, that
\* they are always in sync with the contents of the JSON object: an UPDATE that
\* brings another relatedParty breaks that one, since it keeps this one.
ColumnsAreFinal ==
  [][\A id \in Ids : tab[id] # NoRow /\ tab'[id] # NoRow
                       => tab'[id].cols = tab[id].cols]_vars

\* Every call is atomic: the store implements the abstract one.
Abs == INSTANCE TMFStoreAbs
ImplementsAbs == Abs!AbsSpec

\* No error path keeps the write lock: whoever holds it gives it back.
LockIsReleased == \A c \in Conns : (lock = c) ~> (lock # c)
=============================================================================
