------------------------------ MODULE TMFLists ------------------------------
(***************************************************************************)
(* LIST with limit and offset, answered from the local table               *)
(* (listLocalObjects, DBService.ListObjects) or from the remote server     *)
(* (listRemoteObjects), and a client that walks the pages of a collection  *)
(* while others change it.                                                 *)
(*                                                                         *)
(* Both loops go through all objects from the beginning, drop those the    *)
(* caller may not see, then skip offset objects, and stop at the limit.    *)
(* The local loop reads one SELECT, whose rows come in the order of their  *)
(* insertion since it has no ORDER BY; the remote loop asks for one page   *)
(* after the other, with changes in between, and saves each object in the  *)
(* local table before it goes on: one whose saving fails is dropped from   *)
(* the answer, which is 200 all the same.  An object is its id and whether *)
(* it is shown: valid, selected by the query and allowed.                  *)
(*                                                                         *)
(* Left out: the parameter diagnostic, with which a LIST answers with what *)
(* is wrong with the invalid objects and those not allowed, not with a     *)
(* page.                                                                   *)
(***************************************************************************)
EXTENDS Integers, Sequences, FiniteSets, SequencesExt

CONSTANTS
  MaxRows,     \* bound: how many ids there are
  Limits,      \* the limits that clients ask for, and the offsets of requests
  Offsets,     \* that are not part of the walk; -1 is added to both
  PageSize,    \* TMFClient.PageSize
  MaxChanges,  \* bound: how often others change the collection
  MaxUnsaved   \* bound: how many objects of the walk and of one LIST are not saved

ASSUME ListsAssumption ==
  /\ MaxRows \in Nat /\ MaxChanges \in Nat /\ MaxUnsaved \in Nat /\ PageSize \in Nat \ {0}
  /\ Limits \subseteq Nat /\ Offsets \subseteq Nat

Ids == 1..MaxRows
Rows == [id: Ids, shown: BOOLEAN]

VARIABLES
  source,   \* where LIST reads: "local" or "remote" (RetrieveLocalFirst, the proxy)
  rows,     \* the collection there, in its order
  list,     \* the LIST that is being served
  walk,     \* the client's walk: its limit, the next offset, the ids it has got
  history   \* what happened since the walk began: ids shown throughout, rows that
            \* went away or were hidden, rows that came in before others, changes,
            \* objects that its answers lack because they were not saved

vars == <<source, rows, list, walk, history>>

NoList == [stage |-> "none"]
Lists == {NoList}
         \cup [stage: {"serving", "answered"}, walking: BOOLEAN, limit: Int, offset: Int,
               page: Nat, skipped: Nat, result: Seq(Ids), unsaved: Seq(Ids), quiet: BOOLEAN]

TypeOK ==
  /\ source \in {"local", "remote"}
  /\ rows \in Seq(Rows) /\ IsInjective([n \in DOMAIN rows |-> rows[n].id])
  /\ list \in Lists
  /\ list # NoList => list.skipped = 0 \/ list.skipped <= list.offset
  /\ walk \in [limit: Nat \ {0}, offset: Nat, got: Seq(Ids), over: BOOLEAN]
  /\ history \in [stable: SUBSET Ids, lost: Nat, inserted: Nat, changes: 0..MaxChanges,
                 unsaved: Nat]

ShownIn(rs) == {rs[n].id : n \in {m \in DOMAIN rs : rs[m].shown}}

Init ==
  /\ source \in {"local", "remote"}
  /\ \E size \in 0..MaxRows : \E shown \in [1..size -> BOOLEAN] :
       rows = [n \in 1..size |-> [id |-> n, shown |-> shown[n]]]
  /\ list = NoList
  /\ \E limit \in Limits : limit > 0
       /\ walk = [limit |-> limit, offset |-> 0, got |-> << >>, over |-> FALSE]
  /\ history = [stable |-> ShownIn(rows), lost |-> 0, inserted |-> 0, changes |-> 0,
                unsaved |-> 0]

-----------------------------------------------------------------------------
(* Serving a LIST.                                                         *)

\* The limit is reached.  The remote loop takes a negative limit for none, the
\* local loop stops after its first object.
Enough(limit, result) ==
  (source = "remote" => limit >= 0) /\ Len(result) >= limit

\* Mutant: offset rows are skipped whether or not the caller may see them.
TakeAfterRows(l, row, saved) ==
  IF l.stage = "answered" THEN l
  ELSE IF l.skipped < l.offset THEN [l EXCEPT !.skipped = @ + 1]
  ELSE IF ~row.shown THEN l
  ELSE LET result == Append(l.result, row.id) IN
       [l EXCEPT !.result = result,
                 !.stage = IF Enough(l.limit, result) THEN "answered" ELSE @]

\* Mutant: the offset is taken for the number of the first object, from one on.
TakeFromOne(l, row, saved) ==
  IF l.stage = "answered" \/ ~row.shown THEN l
  ELSE IF l.skipped <= l.offset THEN [l EXCEPT !.skipped = @ + 1]
  ELSE LET result == Append(l.result, row.id) IN
       [l EXCEPT !.result = result,
                 !.stage = IF Enough(l.limit, result) THEN "answered" ELSE @]

\* One turn of the loop, until the limit is reached.  An object that is not saved
\* counts neither for the offset nor for the limit.
Take(l, row, saved) ==
  IF l.stage = "answered" \/ ~row.shown THEN l
  ELSE IF ~saved THEN [l EXCEPT !.unsaved = Append(@, row.id)]
  ELSE IF l.skipped < l.offset THEN [l EXCEPT !.skipped = @ + 1]
  ELSE LET result == Append(l.result, row.id) IN
       [l EXCEPT !.result = result,
                 !.stage = IF Enough(l.limit, result) THEN "answered" ELSE @]

\* The loop over rows, from l on, of which some are not saved.
Loop(l, rs, failed) ==
  LET upTo[n \in 0..Len(rs)] ==
        IF n = 0 THEN l ELSE Take(upTo[n - 1], rs[n], n \notin failed)
  IN upTo[Len(rs)]

\* Mutant: the remote server is asked for the page at the client's offset.
StartAtOffset(walking, limit, offset) ==
  list' = [stage |-> IF limit = 0 THEN "answered" ELSE "serving",
           walking |-> walking, limit |-> limit, offset |-> offset,
           page |-> IF offset > 0 THEN offset ELSE 0,
           skipped |-> 0, result |-> << >>, unsaved |-> << >>, quiet |-> TRUE]

\* ListTMFObjects: limit 0 is answered at once.
Start(walking, limit, offset) ==
  list' = [stage |-> IF limit = 0 THEN "answered" ELSE "serving",
           walking |-> walking, limit |-> limit, offset |-> offset, page |-> 0,
           skipped |-> 0, result |-> << >>, unsaved |-> << >>, quiet |-> TRUE]

\* A client asks for something, or the walking client for its next page.
Ask ==
  /\ list = NoList
  /\ \/ \E limit \in Limits \cup {-1}, offset \in Offsets \cup {-1} : Start(FALSE, limit, offset)
     \/ ~walk.over /\ Start(TRUE, walk.limit, walk.offset)
  /\ UNCHANGED <<source, rows, walk, history>>

\* DBService.ListObjects: the loop over the rows of one SELECT.
ListLocal ==
  /\ list.stage = "serving" /\ source = "local"
  /\ list' = [Loop(list, rows, {}) EXCEPT !.stage = "answered"]
  /\ UNCHANGED <<source, rows, walk, history>>

\* listRemoteObjects: one page of the remote server, and the loop over it, in which
\* UpsertObject fails for some objects.  The first empty page is the last.
ListRemotePage ==
  /\ list.stage = "serving" /\ source = "remote"
  /\ LET page == SubSeq(rows, list.page + 1,
                        IF list.page + PageSize < Len(rows) THEN list.page + PageSize
                        ELSE Len(rows))
     IN \E failed \in SUBSET (DOMAIN page) :
          /\ list' = IF page = << >> THEN [list EXCEPT !.stage = "answered"]
                     ELSE [Loop(list, page, failed) EXCEPT !.page = @ + PageSize]
          /\ Len(list'.unsaved) > Len(list.unsaved) =>
               history.unsaved + Len(list'.unsaved) <= MaxUnsaved
  /\ UNCHANGED <<source, rows, walk, history>>

\* The query or a call to the remote server fails: the client gets 500.
ListFails ==
  /\ list.stage = "serving"
  /\ list' = NoList
  /\ UNCHANGED <<source, rows, walk, history>>

\* The answer arrives.  The walking client goes on after it, until a page has
\* less than its limit.
Receive ==
  /\ list.stage = "answered"
  /\ list' = NoList
  /\ walk' = IF ~list.walking THEN walk
             ELSE [walk EXCEPT !.got = @ \o list.result,
                               !.offset = @ + Len(list.result),
                               !.over = Len(list.result) < walk.limit]
  /\ history' = IF ~list.walking THEN history
                ELSE [history EXCEPT !.unsaved = @ + Len(list.unsaved)]
  /\ UNCHANGED <<source, rows>>

-----------------------------------------------------------------------------
(* The collection changes.                                                 *)

Changed(rs, lost, inserted) ==
  /\ history.changes < MaxChanges
  /\ rows' = rs
  /\ history' = [stable |-> history.stable \cap ShownIn(rs),
                 lost |-> history.lost + lost, inserted |-> history.inserted + inserted,
                 changes |-> history.changes + 1, unsaved |-> history.unsaved]
  /\ list' = IF list = NoList THEN list ELSE [list EXCEPT !.quiet = FALSE]
  /\ UNCHANGED <<source, walk>>

Returned == ToSet(walk.got) \cup (IF list = NoList THEN {} ELSE ToSet(list.result))

\* CreateObject and the inserting UpsertObject: the new row comes last.  The id
\* of an organization can come again.
Create ==
  \E row \in Rows :
    /\ \A n \in DOMAIN rows : rows[n].id # row.id
    /\ Changed(Append(rows, row), 0,
               IF row.id \in Returned THEN 1 ELSE 0)

\* UpdateObject: the row keeps its place, and may become visible or hidden.
Update ==
  \E n \in DOMAIN rows :
    Changed([rows EXCEPT ![n].shown = ~@],
            IF rows[n].shown THEN 1 ELSE 0, IF rows[n].shown THEN 0 ELSE 1)

\* DeleteObject.
Delete == \E n \in DOMAIN rows : Changed(RemoveAt(rows, n), 1, 0)

Next ==
  \/ Ask \/ ListLocal \/ ListRemotePage \/ ListFails \/ Receive
  \/ Create \/ Update \/ Delete

Spec == Init /\ [][Next]_vars

-----------------------------------------------------------------------------
(* Properties.                                                             *)

\* How many of the first n rows of rs the caller may see, the n-th object it may
\* see, and the objects after the first ones of these up to the last.
Rank(rs, n) == Cardinality({m \in 1..n : rs[m].shown})
Nth(rs, n) == rs[CHOOSE m \in DOMAIN rs : rs[m].shown /\ Rank(rs, m) = n].id
Slice(rs, first, last) ==
  [n \in 1..(IF last > first THEN last - first ELSE 0) |-> Nth(rs, first + n)]

\* What a page of rs is: limit objects of those the caller may see, after offset
\* others.  A negative limit means one object when the answer comes from the local
\* table and all of them when it comes from the remote server.
First(offset) == IF offset > 0 THEN offset ELSE 0
Window(rs, limit, offset) ==
  LET total == Rank(rs, Len(rs))
      length == IF limit >= 0 THEN limit ELSE IF source = "local" THEN 1 ELSE total
      last == First(offset) + length
  IN Slice(rs, First(offset), IF last < total THEN last ELSE total)

\* The collection as it looks to a LIST that could not save these objects.
Without(ids) == [n \in DOMAIN rows |->
                   [rows[n] EXCEPT !.shown = @ /\ rows[n].id \notin ToSet(ids)]]

\* While nobody changes the collection a LIST answers with the page that was
\* asked for, wherever the caller's objects lie among the others, and however
\* the remote server cuts them into pages: the page of the collection without the
\* objects that the LIST could not save, which it passes over as if they were not
\* there.  A negative limit means one object of the local table because ListObjects
\* compares after it has added one (dbservice.go:570-573).  The comment at
\* dbservice.go:589 says otherwise, that -1 "is equivalent to no values provided",
\* and the remote loop does otherwise (proxy_support.go:306).
AnswerIsAWindow ==
  list # NoList /\ list.stage = "answered" /\ list.quiet =>
    list.result = Window(Without(list.unsaved), list.limit, list.offset)

\* A client that walks through the pages misses of the objects that were there
\* all the time no more than one for each row that was removed or hidden
\* meanwhile, and one for each object that an answer lacks because it was not
\* saved: insertions cost it nothing.
MissesAreExplained ==
  walk.over =>
    Cardinality(history.stable \ ToSet(walk.got)) <= history.lost + history.unsaved

\* It gets an object twice no more often than rows became visible at a place in
\* the middle, or came back at the end.  When the answers come from the remote
\* server any change can do it: an object that came to lie in a page the LIST had
\* already asked for is not counted in this LIST, and is in the next.  So is an
\* object that was not saved in this one.
RepeatsAreExplained ==
  Len(walk.got) - Cardinality(ToSet(walk.got))
    <= IF source = "remote" THEN history.changes + history.unsaved ELSE history.inserted
=============================================================================
