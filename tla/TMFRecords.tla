----------------------------- MODULE TMFRecords -----------------------------
(***************************************************************************)
(* The SQLite database of the server: the table tmf_object and the table   *)
(* tmf_operation_log, and what one committed transaction of DBService does *)
(* to the pair.                                                            *)
(*                                                                         *)
(* A database is a record [tab, log]: tab maps an object's primary key to  *)
(* its row, log is the sequence of operation log entries, whose positions  *)
(* are the values of the column seq (an INTEGER PRIMARY KEY of a table     *)
(* from which nothing is deleted).  A key stands for the pair (id, type).  *)
(* Of a row the model keeps the JSON content, the four convenience columns *)
(* seller .. buyer_operator as one value, and updated_at; of a log entry   *)
(* the action, the key, the old and the new content, and the caller.       *)
(***************************************************************************)
EXTENDS Integers, Sequences

CONSTANTS
  Ids,        \* primary keys (id, type) of tmf_object
  Contents,   \* JSON contents of TM Forum objects
  Columns,    \* values of the columns seller, seller_operator, buyer, buyer_operator
  Times,      \* values of updated_at
  Callers,    \* callers written in the operation log
  NoRow,      \* no row with that key
  NoContent   \* the NULL of old_content and new_content

ASSUME SentinelAssumption == NoContent \notin Contents

Rows == [content: Contents, cols: Columns, updated: Times]

ASSUME NoRowAssumption == NoRow \notin Rows

Entries == [action: {"CREATE", "UPDATE", "DELETE"}, id: Ids,
            old: Contents \cup {NoContent}, new: Contents \cup {NoContent},
            caller: Callers]

Tables == [Ids -> Rows \cup {NoRow}]

EmptyDB == [tab |-> [id \in Ids |-> NoRow], log |-> << >>]

\* The content of what a key holds in a table.
ContentOf(row) == IF row = NoRow THEN NoContent ELSE row.content

\* recordOperation: the entry for the change of a row into another.
Entry(action, id, oldRow, newRow, who) ==
  [action |-> action, id |-> id, old |-> ContentOf(oldRow),
   new |-> ContentOf(newRow), caller |-> who]

\* Mutant: the columns with the parties are in the SET clause too.
UpdatedRowWithColumns(row, obj) == obj

\* UPDATE tmf_object SET version, last_update, content, updated_at: the
\* columns with the parties are not in the SET clause.
UpdatedRow(row, obj) == [row EXCEPT !.content = obj.content, !.updated = obj.updated]

\* A committed change of one row together with its log entry.
Apply(db, action, id, newRow, who) ==
  [tab |-> [db.tab EXCEPT ![id] = newRow],
   log |-> Append(db.log, Entry(action, id, db.tab[id], newRow, who))]

-----------------------------------------------------------------------------
(* The four writing calls, each as its answer and the database after it.   *)

CreateObject(db, id, obj, who) ==
  IF db.tab[id] # NoRow
  THEN [err |-> "exists", db |-> db]
  ELSE [err |-> "ok", db |-> Apply(db, "CREATE", id, obj, who)]

UpdateObject(db, id, obj, who) ==
  IF db.tab[id] = NoRow
  THEN [err |-> "notfound", db |-> db]
  ELSE [err |-> "ok",
        db |-> Apply(db, "UPDATE", id, UpdatedRow(db.tab[id], obj), who)]

\* sameBytes: the stored text of the JSON equals the incoming one byte by
\* byte.  Equal contents can have different texts; the reverse cannot happen.
UpsertObject(db, id, obj, who, sameBytes) ==
  IF db.tab[id] = NoRow
  THEN [err |-> "ok", db |-> Apply(db, "CREATE", id, obj, who)]
  ELSE IF sameBytes /\ obj.content = db.tab[id].content
  THEN [err |-> "ok", db |-> db]
  ELSE [err |-> "ok",
        db |-> Apply(db, "UPDATE", id, UpdatedRow(db.tab[id], obj), who)]

\* Deleting what is not there is no error and leaves no trace in the log.
DeleteObject(db, id, who) ==
  [err |-> "ok",
   db |-> IF db.tab[id] = NoRow THEN db ELSE Apply(db, "DELETE", id, NoRow, who)]

-----------------------------------------------------------------------------
(* What the operation log says.                                            *)

\* The positions of the log entries of one key.
EntriesOf(log, id) == {i \in 1..Len(log) : log[i].id = id}

\* Entry i is the last of its key among the first n entries.
IsLastOf(log, id, i, n) ==
  /\ i \in EntriesOf(log, id) /\ i <= n
  /\ \A j \in EntriesOf(log, id) : j <= n => j <= i

\* The content that the first n entries of the log give a key.
LoggedContent(log, id, n, content) ==
  \/ content = NoContent /\ \A i \in EntriesOf(log, id) : i > n
  \/ \E i \in 1..Len(log) : IsLastOf(log, id, i, n) /\ content = log[i].new
=============================================================================
