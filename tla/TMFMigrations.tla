--------------------------- MODULE TMFMigrations ----------------------------
(***************************************************************************)
(* What a starting process does to the database before it serves:          *)
(* CreateAndMigrateTables.  Without a migrations table the tables are      *)
(* created, in statements of their own, and a first version is recorded    *)
(* that is the time of day; otherwise the registered migrations later than *)
(* the last recorded version are applied, each in a savepoint together     *)
(* with its record.  A process can die between any two of these steps, and *)
(* the next one may have another binary.                                   *)
(*                                                                         *)
(* The migrations are numbered in the order of their versions; a binary is *)
(* the number of migrations it has registered.                             *)
(***************************************************************************)
EXTENDS Integers, Sequences, FiniteSets, FiniteSetsExt

CONSTANTS
  Starters,       \* the processes
  LastMigration   \* the migrations that are ever written are 1..LastMigration

ASSUME MigrationsAssumption == LastMigration \in Nat

Migrations == 1..LastMigration
Binaries == 0..LastMigration

VARIABLES
  db,     \* the database: which tables there are, what tmf_object's layout has
          \* incorporated, who made it, the migrations table, and whether there are rows
  setup   \* setup[p]: how far process p is with CreateAndMigrateTables

TableNames == {"tmf_object", "tmf_operation_log", "migrations"}
Databases == [tables: SUBSET TableNames, layout: SUBSET Migrations, made: Binaries,
              versions: Seq(Binaries), rows: BOOLEAN]

Outside == [at |-> "outside"]
Steps == {"exists", "object", "log", "migrations", "first", "last", "done"}
Setups == {Outside} \cup [at: Steps, binary: Binaries]
          \cup [at: {"apply"}, binary: Binaries, next: 1..LastMigration + 1]

MigrationsTypeOK == db \in Databases /\ setup \in [Starters -> Setups]

EmptyDatabase == [tables |-> {}, layout |-> {}, made |-> 0, versions |-> << >>,
                  rows |-> FALSE]

MigrationsInit ==
  /\ db = EmptyDatabase
  /\ setup = [p \in Starters |-> Outside]

At(p, step) == setup[p].at = step
ToStep(p, step) == setup' = [setup EXCEPT ![p] = [at |-> step, binary |-> @.binary]]

-----------------------------------------------------------------------------
(* createtables and InsertFirstMigration: CREATE TABLE IF NOT EXISTS.      *)

\* Mutant: a database with a migrations table is taken for up to date.
TablesAreThere(p) ==
  /\ At(p, "exists")
  /\ ToStep(p, IF "migrations" \in db.tables THEN "done" ELSE "object")
  /\ db' = db

\* CreateAndMigrateTables asks for the migrations table.
MigrationsTableExists(p) ==
  /\ At(p, "exists")
  /\ ToStep(p, IF "migrations" \in db.tables THEN "last" ELSE "object")
  /\ db' = db

\* A new tmf_object table has the layout of the binary that creates it; one that
\* is already there keeps its own.
CreateObjectTable(p) ==
  /\ At(p, "object")
  /\ db' = IF "tmf_object" \in db.tables THEN db
           ELSE [db EXCEPT !.tables = @ \cup {"tmf_object"},
                           !.layout = 1..setup[p].binary, !.made = setup[p].binary]
  /\ ToStep(p, "log")

CreateLogTable(p) ==
  /\ At(p, "log")
  /\ db' = [db EXCEPT !.tables = @ \cup {"tmf_operation_log"}]
  /\ ToStep(p, "migrations")

CreateMigrationsTable(p) ==
  /\ At(p, "migrations")
  /\ db' = [db EXCEPT !.tables = @ \cup {"migrations"}]
  /\ ToStep(p, "first")

\* The time of day is recorded as the first version: later than the version of
\* every migration this binary has, and maybe of others, written by then.
InsertFirstMigration(p) ==
  /\ At(p, "first")
  /\ \E stamp \in setup[p].binary..LastMigration :
       db' = [db EXCEPT !.versions = Append(@, stamp)]
  /\ ToStep(p, "done")

-----------------------------------------------------------------------------
(* RunMigrationsUp and applyMigration.                                     *)

Recorded == {db.versions[n] : n \in DOMAIN db.versions}

\* Mutant: the last recorded version is applied again.
FromLastVersion(p) ==
  /\ At(p, "last")
  /\ setup' = [setup EXCEPT ![p] =
       [at |-> "apply", binary |-> @.binary, next |-> Max(Recorded \cup {1})]]
  /\ db' = db

\* The last recorded version is read; "" when there is none, smaller than all.
ReadLastVersion(p) ==
  /\ At(p, "last")
  /\ setup' = [setup EXCEPT ![p] =
       [at |-> "apply", binary |-> @.binary, next |-> Max(Recorded \cup {0}) + 1]]
  /\ db' = db

\* Mutant: the record of a migration is not part of its savepoint, and the
\* process ends before it is written.
ApplyUnrecorded(p) ==
  /\ At(p, "apply") /\ setup[p].next <= setup[p].binary
  /\ \E recorded \in BOOLEAN :
       IF recorded
       THEN /\ db' = [db EXCEPT !.layout = @ \cup {setup[p].next},
                                !.versions = Append(@, setup[p].next)]
            /\ setup' = [setup EXCEPT ![p].next = @ + 1]
       ELSE /\ db' = [db EXCEPT !.layout = @ \cup {setup[p].next}]
            /\ setup' = [setup EXCEPT ![p] = Outside]

\* applyMigration: the savepoint makes the migration and its record one step.
ApplyMigration(p) ==
  /\ At(p, "apply") /\ setup[p].next <= setup[p].binary
  /\ db' = [db EXCEPT !.layout = @ \cup {setup[p].next},
                      !.versions = Append(@, setup[p].next)]
  /\ setup' = [setup EXCEPT ![p].next = @ + 1]

NoMigrationLeft(p) ==
  /\ At(p, "apply") /\ setup[p].next > setup[p].binary
  /\ ToStep(p, "done") /\ db' = db

SetupStep(p) ==
  \/ MigrationsTableExists(p)
  \/ CreateObjectTable(p) \/ CreateLogTable(p) \/ CreateMigrationsTable(p)
  \/ InsertFirstMigration(p)
  \/ ReadLastVersion(p) \/ ApplyMigration(p) \/ NoMigrationLeft(p)

\* A process with this binary begins, or one ends, whatever it was doing:
\* SQLite rolls the open savepoint back.
BeginSetup(p, binary) == setup' = [setup EXCEPT ![p] = [at |-> "exists", binary |-> binary]]

-----------------------------------------------------------------------------
(* Properties of the database.                                             *)

\* Each migration is recorded once and after those before it ("applied in the
\* correct order"), however many processes started, and died, one after the other.
MigrationsInOrder ==
  \A n \in DOMAIN db.versions : n > 1 => db.versions[n - 1] < db.versions[n]

\* Data is never migrated a second time: a migration can meet a layout that
\* already has it (the process that created the tables died before it recorded
\* a version), but then there are no rows yet.
MigratedOnce ==
  [][\A n \in DOMAIN db'.versions \ DOMAIN db.versions :
       db'.versions[n] \in db.layout => ~db.rows]_db

\* Whoever is through with CreateAndMigrateTables finds the layout its binary
\* was written for.  The exception is a migration that the table's maker did not
\* have and the first recorded version already covers: it is skipped for ever.
Covered == IF db.versions = << >> THEN {} ELSE (db.made + 1)..db.versions[1]
SchemaFits ==
  \A p \in Starters : At(p, "done") => 1..setup[p].binary \subseteq db.layout \cup Covered
=============================================================================
