---------------------------- MODULE TMFStoreAbs -----------------------------
(***************************************************************************)
(* What DBService promises to the rest of the server: every writing call   *)
(* is one atomic step on the object table and the operation log, or has no *)
(* effect at all.                                                          *)
(***************************************************************************)
EXTENDS TMFRecords

VARIABLES
  tab,   \* the table tmf_object
  log    \* the table tmf_operation_log, ordered by seq

absvars == <<tab, log>>

AbsDB == [tab |-> tab, log |-> log]

AbsInit == AbsDB = EmptyDB

Becomes(answer) == /\ tab' = answer.db.tab
                   /\ log' = answer.db.log

AbsNext ==
  \E id \in Ids, who \in Callers :
    \/ \E obj \in Rows : \/ Becomes(CreateObject(AbsDB, id, obj, who))
                         \/ Becomes(UpdateObject(AbsDB, id, obj, who))
                         \/ \E same \in BOOLEAN :
                              Becomes(UpsertObject(AbsDB, id, obj, who, same))
    \/ Becomes(DeleteObject(AbsDB, id, who))

AbsSpec == AbsInit /\ [][AbsNext]_absvars
=============================================================================
