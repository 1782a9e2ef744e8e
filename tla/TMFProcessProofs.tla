-------------------------- MODULE TMFProcessProofs --------------------------
(***************************************************************************)
(* The properties of TMFProcess and TMFMigrations, proved for any number   *)
(* of processes, migrations, signals, crashes and requests.                *)
(***************************************************************************)
EXTENDS TMFProcess, TMFNaturals, FiniteSetTheorems

-----------------------------------------------------------------------------
(* The inductive invariant.                                                *)

\* What process g knows and where it is: a process that was not started or has
\* ended keeps nothing; one that serves is through with the database; the child of
\* an upgrade is one that was started by g and not by anyone else.
ProcInv(g) ==
  LET me == proc[g] IN
  /\ me.stage \in {"none", "gone"} => me = Process(me.stage, NoProcess) /\ setup[g] = Outside
  /\ me.stage = "setup" => setup[g].at # "outside" /\ me.busy = 0
  /\ me.stage \in {"listening", "ready", "draining"} => setup[g].at = "done"
  /\ me.child # NoProcess =>
       /\ me.stage = "ready" /\ me.child # g
       /\ proc[me.child].stage # "none"
       /\ proc[me.child].stage # "gone" => proc[me.child].parent = g
  /\ Wanted(me.sigs) \/ me.stopped => history.ended

\* Of two processes that are not on their way out one is the child of the other's
\* upgrade: hence no two of them are busy with the database.
Current(g) == proc[g].stage \in {"setup", "listening", "ready"}
OneAtATime ==
  \A p, q \in Starters :
    p # q /\ Current(p) /\ Current(q) => proc[p].child = q \/ proc[q].child = p

\* Whatever lets init end the program was caused by a signal to end it.
InitInv ==
  Wanted(init.sigs) \/ init.done \/ init.blocked \/ init.killer \/ init.main = "reaping"
    => history.ended

\* Service needs a process that is ready.
Serving == history.up /\ ~history.ended => \E g \in Starters : proc[g].stage = "ready"

LifeInv ==
  /\ \A g \in Starters : ProcInv(g)
  /\ OneAtATime /\ InitInv /\ Serving

\* The recorded versions are in order, and everything up to each of them is in the
\* layout, or covered by the first one.
InOrder == \A m, n \in DOMAIN db.versions : m < n => db.versions[m] < db.versions[n]
VersionsInv ==
  /\ InOrder
  /\ \A n \in DOMAIN db.versions : 1..db.versions[n] \subseteq db.layout \cup Covered
  /\ "migrations" \notin db.tables => db.versions = << >>
  /\ "migrations" \in db.tables => "tmf_object" \in db.tables
  /\ "tmf_object" \in db.tables => 1..db.made \subseteq db.layout
  /\ \A m \in db.layout : m <= db.made \/ \E n \in DOMAIN db.versions : m <= db.versions[n]
  /\ db.made <= machine.disk

\* Each migration the layout has is recorded, or came with a table whose first
\* version covers it.
Settled ==
  /\ "migrations" \in db.tables
  /\ \A m \in db.layout : \E n \in DOMAIN db.versions : m <= db.versions[n]

\* How far process p is with CreateAndMigrateTables, and what it can rely on.
Busy(p) == setup[p].at \notin {"outside", "done"}
SetupInv(p) ==
  /\ setup[p].at # "outside" => setup[p].binary <= machine.disk
  /\ Busy(p) => db.made <= setup[p].binary
  /\ setup[p].at \in {"object", "log", "migrations", "first"} =>
       ~db.rows /\ \A q \in Starters : ~At(q, "done")
  /\ setup[p].at \in {"object", "log", "migrations"} => "migrations" \notin db.tables
  /\ setup[p].at \in {"log", "migrations", "first", "last", "apply", "done"} =>
       "tmf_object" \in db.tables
  /\ setup[p].at \in {"first", "last", "apply"} => "migrations" \in db.tables
  /\ At(p, "first") => db.versions = << >>
  /\ At(p, "apply") =>
       /\ \A n \in DOMAIN db.versions : db.versions[n] < setup[p].next
       /\ setup[p].next = 1 \/ \E n \in DOMAIN db.versions : db.versions[n] = setup[p].next - 1
  /\ At(p, "done") => 1..setup[p].binary \subseteq db.layout \cup Covered

DatabaseInv ==
  /\ VersionsInv
  /\ \A p \in Starters : SetupInv(p)
  /\ db.rows \/ (\E p \in Starters : At(p, "done")) => Settled

IInv == TypeOK /\ LifeInv /\ DatabaseInv

-----------------------------------------------------------------------------
(* Types.                                                                  *)

Procs == [stage: {"none", "setup", "listening", "ready", "draining", "gone"},
          sigs: Channel, busy: 0..MaxBusy, stopped: BOOLEAN,
          child: Starters \cup {NoProcess}, waits: BOOLEAN,
          parent: Starters \cup {NoProcess}]
Inits == [main: {"absent", "waiting", "reaping", "gone"}, child: Starters,
          sigs: Channel, blocked: BOOLEAN, done: BOOLEAN, killer: BOOLEAN]

\* The processes are numbered from 1.
LEMMA Numbered ==
  /\ Starters \subseteq Nat \ {0} /\ NoProcess \notin Starters /\ 1 \in Starters
  /\ \A g \in Starters : 1..(g - 1) \subseteq Starters
<1>1. Cardinality(Starters) \in Nat
  BY ProcessAssumption, FS_CardinalityType
<1>2. Starters = 1..Cardinality(Starters)
  BY ProcessAssumption
<1> DEFINE n == Cardinality(Starters)
<1> HIDE DEF n
<1>3. n \in Nat /\ Starters = 1..n /\ Starters # {}
  BY <1>1, <1>2, ProcessAssumption DEF n
<1> QED
  BY <1>3 DEF NoProcess

LEMMA ProcessType ==
  ASSUME NEW stage \in {"none", "setup", "gone"}, NEW parent \in Starters \cup {NoProcess}
  PROVE  Process(stage, parent) \in Procs
  BY ProcessAssumption DEF Process, Procs, Channel

LEMMA InitProcessType ==
  ASSUME NEW mode, NEW child \in Starters
  PROVE  /\ InitProcess(mode, child) \in Inits
         /\ [InitProcess(mode, child) EXCEPT !.main = "gone"] \in Inits
  BY DEF InitProcess, Inits, Channel

LEMMA DieType ==
  ASSUME MigrationsTypeOK, NEW gs, NEW others \in [Starters -> Procs], Die(gs, others)
  PROVE  proc' \in [Starters -> Procs] /\ setup' \in [Starters -> Setups]
  BY ProcessType DEF Die, Gone, MigrationsTypeOK, Setups

LEMMA DeliverType ==
  ASSUME TypeOK, NEW g, NEW s \in Signals, Deliver(g, s)
  PROVE  proc' \in [Starters -> Procs] /\ setup' \in [Starters -> Setups]
<1>1. proc \in [Starters -> Procs] /\ MigrationsTypeOK
  BY DEF TypeOK, Procs
<1>2. CASE Stage(g, {"setup", "listening"})
  BY <1>1, <1>2, DieType DEF Deliver
<1>3. CASE /\ Stage(g, {"ready", "draining"})
           /\ proc' = [proc EXCEPT ![g].sigs = <<s>>] /\ setup' = setup
  <2>1. g \in Starters
    BY <1>3 DEF Stage
  <2>2. <<s>> \in Channel
    BY DEF Channel
  <2>3. [proc[g] EXCEPT !.sigs = <<s>>] \in Procs
    BY <1>1, <2>1, <2>2 DEF Procs
  <2> QED
    BY <1>1, <1>3, <2>1, <2>3 DEF MigrationsTypeOK
<1>4. CASE proc' = proc /\ setup' = setup
  BY <1>1, <1>4 DEF MigrationsTypeOK
<1> QED
  BY <1>2, <1>3, <1>4 DEF Deliver

\* The child of an upgrade is the first process that was not started yet.
LEMMA TheChild ==
  ASSUME NEW g, CanUpgrade(g), NEW others, NEW bySignal, Upgrade(g, bySignal, others)
  PROVE  \E c \in Starters :
           /\ proc[c].stage = "none" /\ c # g
           /\ proc' = [others EXCEPT ![c] = Process("setup", g),
                                     ![g].child = c, ![g].waits = bySignal]
           /\ BeginSetup(c, machine.disk)
<1> DEFINE T == {n \in Starters : proc[n].stage = "none"}
           P(n) == proc[n].stage = "none" /\ \A m \in 1..(n - 1) : proc[m].stage # "none"
           c == CHOOSE n \in Starters : P(n)
<1>1. \E n \in Starters : P(n)
  <2>1. T \subseteq Nat /\ T # {}
    BY Numbered DEF CanUpgrade
  <2>2. PICK n \in T : \A m \in T : n <= m
    <3> HIDE DEF T
    <3> QED
      BY <2>1, LeastNatural
  <2>3. ASSUME NEW m \in 1..(n - 1) PROVE proc[m].stage # "none"
    <3>1. n \in Nat /\ ~(n <= m) /\ n \in Starters
      BY Numbered
    <3>2. m \in Starters
      BY <3>1, Numbered
    <3> QED
      BY <2>2, <3>1, <3>2
  <2> QED
    BY <2>3
<1>2. c \in Starters /\ P(c)
  <2> HIDE DEF P
  <2> QED
    BY <1>1
<1>3. c # g
  BY <1>2 DEF CanUpgrade, Stage
<1>4. /\ proc' = [others EXCEPT ![c] = Process("setup", g),
                                ![g].child = c, ![g].waits = bySignal]
      /\ BeginSetup(c, machine.disk)
  BY DEF Upgrade
<1> HIDE DEF c
<1> QED
  BY <1>2, <1>3, <1>4

\* The recorded versions are numbers, and one is appended to them.
LEMMA VersionsType ==
  ASSUME MigrationsTypeOK
  PROVE  /\ Len(db.versions) \in Nat /\ DOMAIN db.versions = 1..Len(db.versions)
         /\ \A n \in DOMAIN db.versions : db.versions[n] \in Binaries
         /\ Binaries \subseteq Nat /\ Migrations \subseteq Binaries
         /\ \A v \in Binaries :
              /\ Append(db.versions, v) \in Seq(Binaries)
              /\ DOMAIN Append(db.versions, v) = 1..(Len(db.versions) + 1)
              /\ Append(db.versions, v)[Len(db.versions) + 1] = v
              /\ \A n \in DOMAIN db.versions : Append(db.versions, v)[n] = db.versions[n]
<1>1. db.versions \in Seq(Binaries)
  BY DEF MigrationsTypeOK, Databases
<1>2. Binaries \subseteq Nat /\ Migrations \subseteq Binaries
  BY MigrationsAssumption DEF Binaries, Migrations
<1> QED
  BY <1>1, <1>2

\* What ReadLastVersion finds.
LEMMA TheLast ==
  ASSUME MigrationsTypeOK, InOrder
  PROVE  LET last == Max(Recorded \cup {0})
         IN /\ last \in Binaries /\ (last = 0 \/ last \in Recorded)
            /\ \A v \in Recorded : v <= last
<1> DEFINE S == Recorded \cup {0}
<1>1. S \subseteq Binaries
  BY VersionsType, MigrationsAssumption DEF Recorded, Binaries
<1>2. \E x \in S : \A y \in S : x >= y
  <2>1. CASE db.versions = << >>
    <3>1. S = {0}
      BY <2>1 DEF Recorded
    <3> QED
      BY <3>1
  <2>2. CASE db.versions # << >>
    <3> DEFINE n == Len(db.versions)
    <3>1. n \in DOMAIN db.versions
      BY <2>2, VersionsType DEF MigrationsTypeOK, Databases
    <3>2. \A m \in DOMAIN db.versions : db.versions[n] >= db.versions[m]
      BY <3>1, VersionsType DEF InOrder
    <3>3. db.versions[n] >= 0 /\ db.versions[n] \in S
      BY <3>1, VersionsType DEF Recorded
    <3> QED
      BY <3>2, <3>3 DEF Recorded
  <2> QED
    BY <2>1, <2>2
<1>3. Max(S) \in S /\ \A y \in S : Max(S) >= y
  <2> HIDE DEF S
  <2> QED
    BY <1>2 DEF Max
<1>4. \A v \in Recorded : v <= Max(S)
  <2> SUFFICES ASSUME NEW v \in Recorded PROVE v <= Max(S)
    OBVIOUS
  <2>1. v \in Nat /\ Max(S) \in Nat /\ Max(S) >= v
    BY <1>1, <1>3, VersionsType
  <2> QED
    BY <2>1
<1> QED
  BY <1>1, <1>3, <1>4

LEMMA SetupBinary ==
  ASSUME MigrationsTypeOK, NEW p \in Starters, setup[p].at # "outside"
  PROVE  setup[p].binary \in Binaries /\ setup[p].binary \in Nat
<1>1. setup[p] \in Setups
  BY DEF MigrationsTypeOK
<1>2. setup[p].binary \in Binaries
  BY <1>1 DEF Setups, Outside
<1> QED
  BY <1>2, VersionsType

\* A step of CreateAndMigrateTables.
LEMMA SetupType ==
  ASSUME MigrationsTypeOK, InOrder, NEW p \in Starters, SetupStep(p)
  PROVE  MigrationsTypeOK'
<1>1. db \in Databases /\ setup \in [Starters -> Setups]
  BY DEF MigrationsTypeOK
<1>2. setup[p].at # "outside" => setup[p].binary \in Binaries
  BY SetupBinary
<1>3. ASSUME NEW step \in Steps, setup[p].binary \in Binaries, ToStep(p, step)
      PROVE  setup' \in [Starters -> Setups]
  BY <1>1, <1>3 DEF ToStep, Setups
<1>4. CASE MigrationsTableExists(p)
  BY <1>1, <1>2, <1>3, <1>4 DEF MigrationsTableExists, MigrationsTypeOK, At, Steps
<1>5. CASE CreateObjectTable(p)
  <2>1. setup[p].binary \in Binaries
    BY <1>2, <1>5 DEF CreateObjectTable, At, Steps
  <2>2. 1..setup[p].binary \subseteq Migrations
    BY <2>1, MigrationsAssumption DEF Binaries, Migrations
  <2>3. [db EXCEPT !.tables = @ \cup {"tmf_object"}, !.layout = 1..setup[p].binary,
                   !.made = setup[p].binary] \in Databases
    BY <1>1, <2>1, <2>2 DEF Databases, TableNames
  <2> QED
    BY <1>1, <1>3, <1>5, <2>1, <2>3 DEF CreateObjectTable, MigrationsTypeOK, At, Steps
<1>6. CASE CreateLogTable(p) \/ CreateMigrationsTable(p)
  BY <1>1, <1>2, <1>3, <1>6
     DEF CreateLogTable, CreateMigrationsTable, MigrationsTypeOK, At, Steps, Databases, TableNames
<1>7. CASE InsertFirstMigration(p)
  <2>1. setup[p].binary \in Binaries
    BY <1>2, <1>7 DEF InsertFirstMigration, At, Steps
  <2>2. PICK stamp \in setup[p].binary..LastMigration :
          db' = [db EXCEPT !.versions = Append(@, stamp)]
    BY <1>7 DEF InsertFirstMigration
  <2>3. stamp \in Binaries
    BY <2>1, MigrationsAssumption DEF Binaries
  <2>4. [db EXCEPT !.versions = Append(@, stamp)] \in Databases
    BY <1>1, <2>3, VersionsType DEF Databases
  <2> QED
    BY <1>3, <1>7, <2>1, <2>2, <2>4 DEF InsertFirstMigration, MigrationsTypeOK, At, Steps
<1>8. CASE ReadLastVersion(p)
  <2> DEFINE last == Max(Recorded \cup {0})
  <2>1. last \in Binaries
    BY TheLast
  <2>2. last + 1 \in 1..LastMigration + 1
    BY <2>1, MigrationsAssumption DEF Binaries
  <2>3. setup[p].binary \in Binaries
    BY <1>2, <1>8 DEF ReadLastVersion, At, Steps
  <2>4. [at |-> "apply", binary |-> setup[p].binary, next |-> last + 1] \in Setups
    BY <2>2, <2>3 DEF Setups
  <2>5. setup' = [setup EXCEPT ![p] =
                    [at |-> "apply", binary |-> setup[p].binary, next |-> last + 1]]
    BY <1>1, <1>8 DEF ReadLastVersion
  <2> QED
    BY <1>1, <1>8, <2>4, <2>5 DEF ReadLastVersion, MigrationsTypeOK
<1>9. CASE ApplyMigration(p)
  <2>1. setup[p] \in [at: {"apply"}, binary: Binaries, next: 1..LastMigration + 1]
    BY <1>1, <1>9 DEF ApplyMigration, At, Setups, Steps, Outside
  <2>2. setup[p].next \in Migrations /\ setup[p].next + 1 \in 1..LastMigration + 1
    BY <1>9, <2>1, MigrationsAssumption DEF ApplyMigration, Binaries, Migrations
  <2>3. [db EXCEPT !.layout = @ \cup {setup[p].next},
                   !.versions = Append(@, setup[p].next)] \in Databases
    BY <1>1, <2>2, VersionsType DEF Databases
  <2>4. [setup[p] EXCEPT !.next = @ + 1] \in Setups
    BY <2>1, <2>2 DEF Setups
  <2> QED
    BY <1>1, <1>9, <2>3, <2>4 DEF ApplyMigration, MigrationsTypeOK
<1>10. CASE NoMigrationLeft(p)
  BY <1>1, <1>2, <1>3, <1>10 DEF NoMigrationLeft, MigrationsTypeOK, At, Steps
<1> QED
  BY <1>4, <1>5, <1>6, <1>7, <1>8, <1>9, <1>10 DEF SetupStep

LEMMA InitType == Init => TypeOK
<1> SUFFICES ASSUME Init PROVE TypeOK
  OBVIOUS
<1>1. PICK mode \in Modes, binary \in Binaries :
        /\ machine = [mode |-> mode, disk |-> binary, pidfile |-> NoProcess]
        /\ init = InitProcess(mode, 1)
        /\ setup = [p \in Starters |-> IF p = 1 THEN [at |-> "exists", binary |-> binary]
                                       ELSE Outside]
  BY DEF Init
<1>2. binary \in Binaries /\ 0 \in Binaries /\ mode \in Modes
  BY MigrationsAssumption DEF Binaries
<1>3. 1 \in Starters
  BY Numbered
<1>4. setup \in [Starters -> Setups]
  BY <1>1 DEF Setups, Steps
<1>5. db \in Databases
  BY <1>2 DEF Init, EmptyDatabase, Databases
<1>6. proc \in [Starters -> Procs]
  BY ProcessType DEF Init
<1>7. init \in Inits
  BY <1>1, <1>3, InitProcessType
<1>8. machine \in [mode: Modes, disk: Binaries, pidfile: Starters \cup {NoProcess}]
  BY <1>1
<1>9. history \in [signals: 0..MaxSignals, crashes: 0..MaxCrashes, up: BOOLEAN, ended: BOOLEAN]
  BY ProcessAssumption DEF Init
<1> QED
  BY <1>4, <1>5, <1>6, <1>7, <1>8, <1>9 DEF TypeOK, MigrationsTypeOK, Procs, Inits

\* An upgrade that is begun or refused.
LEMMA UpgradeType ==
  ASSUME TypeOK, NEW g \in Starters, NEW bySignal \in BOOLEAN,
         NEW others \in [Starters -> Procs], Upgrade(g, bySignal, others)
  PROVE  proc' \in [Starters -> Procs] /\ setup' \in [Starters -> Setups]
<1>1. CASE CanUpgrade(g)
  <2>1. PICK c \in Starters :
          /\ c # g
          /\ proc' = [others EXCEPT ![c] = Process("setup", g),
                                    ![g].child = c, ![g].waits = bySignal]
          /\ BeginSetup(c, machine.disk)
    BY <1>1, TheChild
  <2>2. Process("setup", g) \in Procs
    BY ProcessType
  <2>3. [others[g] EXCEPT !.child = c, !.waits = bySignal] \in Procs
    BY DEF Procs
  <2>4. [at |-> "exists", binary |-> machine.disk] \in Setups
    BY DEF TypeOK, Setups, Steps
  <2> QED
    BY <2>1, <2>2, <2>3, <2>4 DEF BeginSetup, TypeOK, MigrationsTypeOK
<1>2. CASE ~CanUpgrade(g)
  BY <1>2 DEF Upgrade, TypeOK, MigrationsTypeOK
<1> QED
  BY <1>1, <1>2

\* A step that changes one process's record, or several.
LEMMA ResumedType ==
  ASSUME TypeOK, NEW g \in Starters
  PROVE  /\ Resumed(g) \in Procs /\ [Resumed(g) EXCEPT !.stage = "draining"] \in Procs
         /\ [proc EXCEPT ![g] = Resumed(g)] \in [Starters -> Procs]
         /\ [proc EXCEPT ![g] = [Resumed(g) EXCEPT !.stage = "draining"]]
              \in [Starters -> Procs]
<1>1. proc[g] \in Procs
  BY DEF TypeOK, Procs
<1>2. Resumed(g) \in Procs
  BY <1>1 DEF Resumed, Procs
<1>3. [Resumed(g) EXCEPT !.stage = "draining"] \in Procs
  BY <1>2 DEF Procs
<1> QED
  BY <1>2, <1>3 DEF TypeOK, Procs

LEMMA NextType ==
  ASSUME TypeOK, InOrder, [Next]_vars
  PROVE  TypeOK'
<1> USE DEF TypeOK, Procs, Inits
<1> DEFINE ProcType == proc' \in [Starters -> Procs]
           SetupsType == setup' \in [Starters -> Setups]
<1>0. MigrationsTypeOK /\ db \in Databases /\ setup \in [Starters -> Setups]
  BY DEF MigrationsTypeOK
<1>1. ASSUME db' = db, SetupsType PROVE MigrationsTypeOK'
  BY <1>0, <1>1 DEF MigrationsTypeOK
<1>2. CASE UNCHANGED vars
  BY <1>0, <1>2 DEF vars, MigrationsTypeOK
<1>3. CASE Send
  <2> PICK s \in Signals :
        /\ history' = [history EXCEPT !.signals = @ + 1, !.ended = @ \/ s = "TERM"]
        /\ IF init.main = "absent"
           THEN /\ Deliver(IF machine.pidfile = NoProcess THEN init.child ELSE machine.pidfile, s)
                /\ init' = init
           ELSE /\ init' = [init EXCEPT !.sigs = IF @ = << >> THEN <<s>> ELSE @]
                /\ UNCHANGED <<proc, setup>>
    BY <1>3 DEF Send
  <2>1. ProcType /\ SetupsType
    BY <1>0, DeliverType
  <2>2. init' \in Inits
    BY DEF Channel
  <2>3. history' \in [signals: 0..MaxSignals, crashes: 0..MaxCrashes, up: BOOLEAN,
                      ended: BOOLEAN]
    <3>1. history.signals + 1 \in 0..MaxSignals
      BY <1>3, ProcessAssumption DEF Send
    <3> QED
      BY <3>1
  <2> QED
    BY <1>1, <1>3, <2>1, <2>2, <2>3 DEF Send
<1>4. CASE Forward
  <2>1. Head(init.sigs) \in Signals
    BY <1>4 DEF Forward, Channel
  <2>2. ProcType /\ SetupsType
    BY <1>4, <2>1, DeliverType DEF Forward
  <2>3. init' \in Inits
    BY <1>4, ProcessAssumption DEF Forward, Channel
  <2> QED
    BY <1>1, <1>4, <2>2, <2>3 DEF Forward
<1>5. CASE TakeDone
  BY <1>0, <1>1, <1>5 DEF TakeDone
<1>6. CASE EndInit
  BY <1>0, <1>1, <1>6, DieType, InitProcessType DEF EndInit
<1>7. CASE Kill
  BY <1>0, <1>1, <1>7, DieType DEF Kill
<1>8. CASE Deploy
  BY <1>0, <1>1, <1>8, MigrationsAssumption DEF Deploy, Binaries
<1>9. CASE Boot
  <2> PICK g \in Starters :
        /\ proc' = [proc EXCEPT ![g] = Process("setup", NoProcess)]
        /\ BeginSetup(g, machine.disk)
        /\ init' = InitProcess(machine.mode, g)
    BY <1>9 DEF Boot
  <2>1. ProcType
    BY ProcessType
  <2>2. SetupsType
    BY <1>0 DEF BeginSetup, Setups, Steps
  <2> QED
    BY <1>1, <1>9, <2>1, <2>2, InitProcessType DEF Boot
<1>10. ASSUME NEW g \in Starters, Setup(g) PROVE TypeOK'
  BY <1>0, <1>10, SetupType DEF Setup
<1>11. ASSUME NEW g \in Starters, Listen(g) PROVE TypeOK'
  BY <1>0, <1>1, <1>11 DEF Listen
<1>12. ASSUME NEW g \in Starters, Ready(g) PROVE TypeOK'
  <2>1. ProcType /\ SetupsType
    BY <1>0, <1>12, DieType DEF Ready
  <2> QED
    BY <1>1, <1>12, <2>1 DEF Ready
<1>13. ASSUME NEW g \in Starters, StartFails(g) \/ Shutdown(g) PROVE TypeOK'
  BY <1>0, <1>1, <1>13, DieType DEF StartFails, Shutdown
<1>14. ASSUME NEW g \in Starters, HandleSignal(g) PROVE TypeOK'
  <2> DEFINE read == [proc EXCEPT ![g].sigs = << >>]
  <2>1. read \in [Starters -> Procs] /\ [read EXCEPT ![g].stopped = TRUE] \in [Starters -> Procs]
    <3>1. [proc[g] EXCEPT !.sigs = << >>] \in Procs
      BY DEF Channel
    <3>2. read \in [Starters -> Procs]
      BY <3>1
    <3> HIDE DEF read
    <3>3. read[g] \in Procs
      BY <3>2
    <3>4. [read[g] EXCEPT !.stopped = TRUE] \in Procs
      BY <3>3
    <3> QED
      BY <3>2, <3>4
  <2>2. ProcType /\ SetupsType
    BY <1>0, <1>14, <2>1, UpgradeType DEF HandleSignal
  <2> QED
    BY <1>1, <1>14, <2>2 DEF HandleSignal
<1>15. ASSUME NEW g \in Starters, NightlyRestart(g) PROVE TypeOK'
  <2>1. ProcType /\ SetupsType
    BY <1>0, <1>15, UpgradeType DEF NightlyRestart
  <2> QED
    BY <1>1, <1>15, <2>1 DEF NightlyRestart
<1>16. ASSUME NEW g \in Starters, Upgrader(g) PROVE TypeOK'
  <2>1. CASE ChildExited(g) \/ Upgraded(g)
    <3>1. ProcType
      <4>1. \/ proc' = [proc EXCEPT ![g] = Resumed(g)]
            \/ proc' = [proc EXCEPT ![g] = [Resumed(g) EXCEPT !.stage = "draining"]]
        BY <2>1 DEF ChildExited, Upgraded
      <4> HIDE DEF Procs, TypeOK
      <4> QED
        BY <4>1, ResumedType
    <3> QED
      BY <1>0, <1>1, <2>1, <3>1 DEF ChildExited, Upgraded
  <2>2. CASE UpgradeTimeout(g) \/ Stop(g)
    <3>1. ProcType /\ SetupsType
      BY <1>0, <2>2, DieType, ResumedType DEF UpgradeTimeout, Stop
    <3> QED
      BY <1>1, <2>2, <3>1 DEF UpgradeTimeout, Stop
  <2> QED
    BY <1>16, <2>1, <2>2 DEF Upgrader
<1>17. ASSUME NEW g \in Starters, Accept(g) PROVE TypeOK'
  <2>1. proc[g].busy + 1 \in 0..MaxBusy
    BY <1>17, ProcessAssumption DEF Accept
  <2>2. [proc[g] EXCEPT !.busy = @ + 1] \in Procs
    BY <2>1
  <2>3. ProcType
    BY <1>17, <2>2 DEF Accept
  <2> QED
    BY <1>0, <1>1, <1>17, <2>3 DEF Accept
<1>18. ASSUME NEW g \in Starters, Answer(g) PROVE TypeOK'
  <2>1. ProcType
    BY <1>18, ProcessAssumption DEF Answer
  <2>2. db' \in Databases
    BY <1>0, <1>18 DEF Answer, Databases
  <2> QED
    BY <1>0, <1>18, <2>1, <2>2 DEF Answer, MigrationsTypeOK
<1>19. ASSUME NEW g \in Starters, Crash(g) PROVE TypeOK'
  <2>1. ProcType /\ SetupsType
    BY <1>0, <1>19, DieType DEF Crash
  <2>2. history.crashes + 1 \in 0..MaxCrashes
    BY <1>19, ProcessAssumption DEF Crash
  <2> QED
    BY <1>1, <1>19, <2>1, <2>2 DEF Crash
<1> QED
  BY <1>2, <1>3, <1>4, <1>5, <1>6, <1>7, <1>8, <1>9, <1>10, <1>11, <1>12, <1>13, <1>14,
     <1>15, <1>16, <1>17, <1>18, <1>19 DEF Next, InitStep, Main

-----------------------------------------------------------------------------
(* The processes.                                                          *)

\* In this step process h ends, or stays what it was or goes on to its next stage:
\* it takes no child, and lets one go only when one of the two is on its way out.
Ages(h) ==
  \/ /\ proc[h].stage # "none"
     /\ proc'[h] = Gone /\ setup'[h] = Outside
  \/ /\ proc'[h].stage \in {"none", "gone"} => proc'[h] = proc[h] /\ setup'[h] = Outside
     /\ proc'[h].stage = "setup" =>
          proc[h].stage = "setup" /\ proc'[h].busy = 0 /\ setup'[h].at # "outside"
     /\ proc'[h].stage \in {"listening", "ready", "draining"} =>
          proc[h].stage \notin {"none", "gone"} /\ setup'[h].at = "done"
     /\ Current(h)' => Current(h)
     /\ proc'[h].parent = proc[h].parent
     /\ proc'[h].child # NoProcess =>
          proc'[h].child = proc[h].child /\ proc'[h].stage = "ready"
     /\ proc[h].child # NoProcess /\ proc'[h].child = NoProcess =>
          \/ ~Current(h)'
          \/ proc'[proc[h].child].stage \notin {"setup", "listening", "ready"}
     /\ Wanted(proc'[h].sigs) \/ proc'[h].stopped => history'.ended

LEMMA Same ==
  ASSUME NEW h, ProcInv(h), proc'[h] = proc[h], setup'[h] = setup[h],
         history.ended => history'.ended
  PROVE  Ages(h)
  BY DEF Ages, ProcInv, Current

\* When no process is started the ones there are keep their relations.
LEMMA Aging ==
  ASSUME TypeOK, TypeOK', \A g \in Starters : ProcInv(g), OneAtATime,
         \A h \in Starters : Ages(h)
  PROVE  (\A g \in Starters : ProcInv(g)') /\ OneAtATime'
<1>1. \A h \in Starters : proc[h].child # NoProcess =>
        proc[h].child \in Starters /\ proc[h].stage = "ready"
  BY DEF TypeOK, ProcInv
<1>2. ASSUME NEW h \in Starters PROVE ProcInv(h)'
  <2>1. CASE proc'[h] = Gone /\ setup'[h] = Outside
    BY <2>1 DEF ProcInv, Gone, Process, Wanted
  <2>2. CASE ~(proc'[h] = Gone /\ setup'[h] = Outside)
    <3>1. /\ proc'[h].stage \in {"none", "gone"} =>
               proc'[h] = Process(proc'[h].stage, NoProcess) /\ setup'[h] = Outside
          /\ proc'[h].stage = "setup" => setup'[h].at # "outside" /\ proc'[h].busy = 0
          /\ proc'[h].stage \in {"listening", "ready", "draining"} => setup'[h].at = "done"
          /\ Wanted(proc'[h].sigs) \/ proc'[h].stopped => history'.ended
      BY <2>2 DEF Ages, ProcInv
    <3>2. ASSUME proc'[h].child # NoProcess
          PROVE  /\ proc'[h].stage = "ready" /\ proc'[h].child # h
                 /\ proc'[proc'[h].child].stage # "none"
                 /\ proc'[proc'[h].child].stage # "gone" =>
                      proc'[proc'[h].child].parent = h
      <4> DEFINE c == proc[h].child
      <4>1. /\ proc'[h].child = c /\ proc'[h].stage = "ready" /\ c # NoProcess
        BY <2>2, <3>2 DEF Ages
      <4>2. c \in Starters /\ c # h /\ proc[c].stage # "none"
            /\ (proc[c].stage # "gone" => proc[c].parent = h)
        BY <1>1, <4>1 DEF ProcInv
      <4>3. proc'[c].stage # "none" /\ (proc'[c].stage # "gone" => proc'[c].parent = h)
        <5>1. proc'[c].stage \in {"none", "setup", "listening", "ready", "draining", "gone"}
          BY <4>2 DEF TypeOK
        <5> QED
          BY <4>2, <5>1 DEF Ages, Gone, Process
      <4> QED
        BY <4>1, <4>2, <4>3
    <3> QED
      BY <3>1, <3>2 DEF ProcInv
  <2> QED
    BY <2>1, <2>2
<1>3. ASSUME NEW p \in Starters, NEW q \in Starters, p # q, Current(p)', Current(q)'
      PROVE  proc'[p].child = q \/ proc'[q].child = p
  <2>1. Current(p) /\ Current(q)
    BY <1>3 DEF Ages, Current, Gone, Process
  <2>2. proc[p].child = q \/ proc[q].child = p
    BY <1>3, <2>1 DEF OneAtATime
  <2>3. ASSUME NEW g \in {p, q}, NEW c \in {p, q}, proc[g].child = c
        PROVE  proc'[g].child = c
    <3>1. c # NoProcess /\ Current(g)' /\ Current(c)'
      BY <1>3, Numbered
    <3>2. proc'[g].stage # "gone" /\ proc'[c].stage \in {"setup", "listening", "ready"}
      BY <3>1 DEF Current
    <3> QED
      BY <2>3, <3>1, <3>2 DEF Ages, Gone, Process
  <2> QED
    BY <2>2, <2>3
<1> QED
  BY <1>2, <1>3 DEF OneAtATime

\* Processes that end.
LEMMA DieAges ==
  ASSUME TypeOK, \A g \in Starters : ProcInv(g), NEW gs,
         \A h \in Starters \cap gs : proc[h].stage # "none",
         Die(gs, proc), history.ended => history'.ended
  PROVE  \A h \in Starters : Ages(h)
<1> SUFFICES ASSUME NEW h \in Starters PROVE Ages(h)
  OBVIOUS
<1>1. CASE h \in gs
  BY <1>1 DEF Die, Ages
<1>2. CASE h \notin gs
  <2>1. proc'[h] = proc[h] /\ setup'[h] = setup[h]
    BY <1>2 DEF Die
  <2> QED
    BY <2>1, Same
<1> QED
  BY <1>1, <1>2

\* A signal that reaches a process, or is lost on its way.
LEMMA DeliverAges ==
  ASSUME TypeOK, \A g \in Starters : ProcInv(g), NEW g, NEW s, Deliver(g, s),
         history.ended \/ s = "TERM" => history'.ended
  PROVE  \A h \in Starters : Ages(h)
<1>1. CASE Stage(g, {"setup", "listening"})
  BY <1>1, DieAges DEF Deliver, Stage
<1>2. CASE /\ Stage(g, {"ready", "draining"})
           /\ proc' = [proc EXCEPT ![g].sigs = <<s>>] /\ setup' = setup
  <2>1. g \in Starters /\ proc'[g] = [proc[g] EXCEPT !.sigs = <<s>>]
    BY <1>2 DEF Stage, TypeOK
  <2>2. Ages(g)
    BY <1>2, <2>1 DEF Ages, Stage, TypeOK, ProcInv, Current, Wanted
  <2>3. \A h \in Starters \ {g} : Ages(h)
    BY <1>2, Same DEF TypeOK
  <2> QED
    BY <2>2, <2>3
<1>3. CASE proc' = proc /\ setup' = setup
  BY <1>3, Same
<1> QED
  BY <1>1, <1>2, <1>3 DEF Deliver

\* A step of CreateAndMigrateTables is p's.
LEMMA SetupMoves ==
  ASSUME MigrationsTypeOK, NEW p \in Starters, SetupStep(p)
  PROVE  /\ setup'[p].at # "outside"
         /\ \A q \in Starters \ {p} : setup'[q] = setup[q]
<1>1. setup \in [Starters -> Setups]
  BY DEF MigrationsTypeOK
<1>2. CASE ApplyMigration(p)
  <2>1. setup[p] \in [at: {"apply"}, binary: Binaries, next: 1..LastMigration + 1]
    BY <1>1, <1>2 DEF ApplyMigration, At, Setups, Steps, Outside
  <2>2. setup'[p].at = "apply" /\ \A q \in Starters \ {p} : setup'[q] = setup[q]
    BY <1>1, <1>2, <2>1 DEF ApplyMigration
  <2> QED
    BY <2>2
<1>3. CASE ReadLastVersion(p)
  BY <1>1, <1>3 DEF ReadLastVersion
<1>4. CASE \E step \in Steps : ToStep(p, step)
  BY <1>1, <1>4 DEF ToStep, Steps
<1> QED
  BY <1>2, <1>3, <1>4
     DEF SetupStep, MigrationsTableExists, CreateObjectTable, CreateLogTable,
         CreateMigrationsTable, InsertFirstMigration, NoMigrationLeft, Steps

\* What a step does to the processes when it starts none.
LEMMA NextAges ==
  ASSUME TypeOK, LifeInv, [Next]_vars, ~Boot,
         \A g \in Starters : CanUpgrade(g) =>
           ~NightlyRestart(g) /\ ~(HandleSignal(g) /\ Head(proc[g].sigs) = "HUP")
  PROVE  \A h \in Starters : Ages(h)
<1>0. /\ proc \in [Starters -> Procs] /\ setup \in [Starters -> Setups] /\ MigrationsTypeOK
      /\ \A g \in Starters : ProcInv(g)
  BY DEF TypeOK, MigrationsTypeOK, Procs, LifeInv
<1>1. ASSUME NEW g \in Starters, Ages(g), history.ended => history'.ended,
             \A h \in Starters \ {g} : proc'[h] = proc[h] /\ setup'[h] = setup[h]
      PROVE  \A h \in Starters : Ages(h)
  BY <1>0, <1>1, Same
<1>2. ASSUME proc' = proc, setup' = setup, history.ended => history'.ended
      PROVE  \A h \in Starters : Ages(h)
  BY <1>0, <1>2, Same
<1>3. CASE UNCHANGED vars \/ TakeDone \/ Deploy
  BY <1>2, <1>3 DEF vars, TakeDone, Deploy
<1>4. CASE Send
  <2> PICK s \in Signals :
        /\ history' = [history EXCEPT !.signals = @ + 1, !.ended = @ \/ s = "TERM"]
        /\ \/ Deliver(IF machine.pidfile = NoProcess THEN init.child ELSE machine.pidfile, s)
           \/ UNCHANGED <<proc, setup>>
    BY <1>4 DEF Send
  <2>1. history.ended \/ s = "TERM" => history'.ended
    BY DEF TypeOK
  <2> QED
    BY <1>0, <1>2, <2>1, DeliverAges
<1>5. CASE Forward
  <2>1. Head(init.sigs) = "TERM" => history.ended
    BY <1>5 DEF Forward, TypeOK, Channel, LifeInv, InitInv, Wanted
  <2> QED
    BY <1>0, <1>5, <2>1, DeliverAges DEF Forward
<1>6. CASE EndInit \/ Kill
  BY <1>0, <1>2, <1>6, DieAges DEF EndInit, Kill, Alive, Stage
<1>7. ASSUME NEW g \in Starters, Setup(g) PROVE \A h \in Starters : Ages(h)
  <2>1. Ages(g)
    BY <1>0, <1>7, SetupMoves DEF Setup, Ages, Stage, ProcInv, Current
  <2> QED
    BY <1>0, <1>1, <1>7, <2>1, SetupMoves DEF Setup
<1>8. ASSUME NEW g \in Starters, Listen(g) PROVE \A h \in Starters : Ages(h)
  <2>1. proc'[g] = [proc[g] EXCEPT !.stage = "listening"] /\ setup' = setup
    BY <1>0, <1>8 DEF Listen
  <2>2. Ages(g)
    BY <1>0, <1>8, <2>1 DEF Listen, Ages, Stage, ProcInv, Current, Procs, At
  <2> QED
    BY <1>0, <1>1, <1>8, <2>2 DEF Listen
<1>9. ASSUME NEW g \in Starters, Ready(g) PROVE \A h \in Starters : Ages(h)
  <2>1. CASE Die({g}, proc) /\ history' = history
    BY <1>0, <1>9, <2>1, DieAges DEF Ready, Stage
  <2>2. CASE /\ proc' = [proc EXCEPT ![g].stage = "ready"] /\ setup' = setup
             /\ history' = [history EXCEPT !.up = TRUE]
    <3>1. proc'[g] = [proc[g] EXCEPT !.stage = "ready"] /\ history'.ended = history.ended
      BY <1>0, <2>2 DEF TypeOK
    <3>2. Ages(g)
      BY <1>0, <1>9, <2>2, <3>1 DEF Ready, Ages, Stage, ProcInv, Current, Procs
    <3> QED
      BY <1>0, <1>1, <2>2, <3>1, <3>2
  <2> QED
    BY <1>9, <2>1, <2>2 DEF Ready
<1>10. ASSUME NEW g \in Starters, StartFails(g) \/ Shutdown(g) \/ Crash(g)
       PROVE  \A h \in Starters : Ages(h)
  BY <1>0, <1>10, DieAges DEF StartFails, Shutdown, Crash, Stage, Alive, TypeOK
<1>11. ASSUME NEW g \in Starters, HandleSignal(g) PROVE \A h \in Starters : Ages(h)
  <2> DEFINE read == [proc EXCEPT ![g].sigs = << >>]
  <2>1. read[g] = [proc[g] EXCEPT !.sigs = << >>] /\ read[g] \in Procs
        /\ \A h \in Starters \ {g} : read[h] = proc[h]
    BY <1>0 DEF Procs, Channel
  <2>2. CASE Head(proc[g].sigs) = "HUP"
    <3>1. proc' = read /\ setup' = setup /\ history' = history
      BY <1>11, <2>2 DEF HandleSignal, Upgrade
    <3>2. Ages(g)
      <4>1. ~Wanted(<< >>)
        BY DEF Wanted
      <4>2. /\ proc'[g] = [proc[g] EXCEPT !.sigs = << >>] /\ setup'[g] = setup[g]
            /\ proc[g].stage \in {"ready", "draining"}
        BY <1>11, <2>1, <3>1 DEF HandleSignal, Stage
      <4> QED
        BY <1>0, <3>1, <4>1, <4>2 DEF Ages, ProcInv, Current, Procs
    <3> QED
      BY <1>0, <1>1, <2>1, <3>1, <3>2
  <2>3. CASE Head(proc[g].sigs) # "HUP"
    <3>1. history.ended
      <4>1. Wanted(proc[g].sigs)
        BY <1>0, <1>11, <2>3 DEF HandleSignal, Procs, Channel, Signals, Wanted
      <4> QED
        BY <1>0, <4>1 DEF ProcInv
    <3>2. proc'[g] = [read[g] EXCEPT !.stopped = TRUE] /\ setup' = setup /\ history' = history
          /\ \A h \in Starters \ {g} : proc'[h] = proc[h]
      <4>1. read \in [Starters -> Procs]
        BY <1>0, <2>1
      <4> HIDE DEF read
      <4>2. proc' = [read EXCEPT ![g].stopped = TRUE] /\ setup' = setup /\ history' = history
        BY <1>11, <2>3 DEF HandleSignal, read
      <4> QED
        BY <2>1, <4>1, <4>2
    <3>3. Ages(g)
      BY <1>0, <1>11, <2>1, <3>1, <3>2 DEF HandleSignal, Stage, Ages, ProcInv, Current, Procs
    <3> QED
      BY <1>1, <3>2, <3>3
  <2> QED
    BY <2>2, <2>3
<1>12. ASSUME NEW g \in Starters, ChildExited(g) \/ Upgraded(g)
       PROVE  \A h \in Starters : Ages(h)
  <2> DEFINE c == proc[g].child
  <2>1. /\ proc[g].stage = "ready" /\ c \in Starters /\ c # g /\ setup' = setup
        /\ history' = history
        /\ ChildExited(g) => proc[c].stage = "gone"
    BY <1>0, <1>12 DEF ChildExited, Upgraded, Upgrading, Stage, ProcInv
  <2>2. \A h \in Starters \ {g} : proc'[h] = proc[h]
    BY <1>0, <1>12 DEF ChildExited, Upgraded
  <2>3. /\ proc'[g] = [proc[g] EXCEPT !.child = NoProcess, !.waits = FALSE,
                                      !.stage = proc'[g].stage]
        /\ ChildExited(g) => proc'[g].stage = "ready"
        /\ ~ChildExited(g) => proc'[g].stage = "draining"
    BY <1>0, <1>12, <2>1 DEF ChildExited, Upgraded, Resumed, Procs
  <2>4. /\ proc'[g].child = NoProcess /\ proc'[g].parent = proc[g].parent
        /\ proc'[g].sigs = proc[g].sigs /\ proc'[g].stopped = proc[g].stopped
    <3>1. PICK stage : proc'[g] = [proc[g] EXCEPT !.child = NoProcess, !.waits = FALSE,
                                                  !.stage = stage]
      BY <2>3
    <3>2. proc[g] \in Procs
      BY <1>0
    <3> QED
      BY <3>1, <3>2 DEF Procs
  <2>5. ChildExited(g) => proc'[c].stage = "gone"
    BY <2>1, <2>2
  <2>6. Ages(g)
    BY <1>0, <2>1, <2>3, <2>4, <2>5 DEF Ages, ProcInv, Current
  <2> QED
    BY <1>0, <1>1, <2>1, <2>2, <2>6
<1>13. ASSUME NEW g \in Starters, UpgradeTimeout(g) \/ Stop(g)
       PROVE  \A h \in Starters : Ages(h)
  <2> DEFINE c == proc[g].child
  <2>1. /\ proc[g].stage = "ready" /\ setup[g].at = "done" /\ c # g
        /\ c # NoProcess => c \in Starters /\ proc[c].stage # "none"
        /\ history' = history
    <3>1. proc[g].stage = "ready" /\ history' = history
      BY <1>13 DEF UpgradeTimeout, Stop, Upgrading, Stage
    <3>2. c \in Starters \cup {NoProcess}
      BY <1>0 DEF Procs
    <3>3. c # g
      BY Numbered, <1>0 DEF ProcInv
    <3> QED
      BY <1>0, <3>1, <3>2, <3>3 DEF ProcInv
  <2>2. /\ \A h \in Starters \ {g, c} : proc'[h] = proc[h] /\ setup'[h] = setup[h]
        /\ c # NoProcess => proc'[c] = Gone /\ setup'[c] = Outside
        /\ setup'[g] = setup[g]
        /\ UpgradeTimeout(g) => proc'[g] = Resumed(g)
        /\ ~UpgradeTimeout(g) => proc'[g] = [Resumed(g) EXCEPT !.stage = "draining"]
    BY <1>0, <1>13, <2>1 DEF UpgradeTimeout, Stop, Die
  <2>3. /\ proc'[g] = [proc[g] EXCEPT !.child = NoProcess, !.waits = FALSE,
                                      !.stage = proc'[g].stage]
        /\ UpgradeTimeout(g) => proc'[g].stage = "ready"
        /\ ~UpgradeTimeout(g) => proc'[g].stage = "draining"
    BY <1>0, <2>1, <2>2 DEF Resumed, Procs
  <2>4. c # NoProcess => proc'[c].stage = "gone"
    BY <2>2 DEF Gone, Process
  <2>5. /\ proc'[g].child = NoProcess /\ proc'[g].parent = proc[g].parent
        /\ proc'[g].sigs = proc[g].sigs /\ proc'[g].stopped = proc[g].stopped
    <3>1. PICK stage : proc'[g] = [proc[g] EXCEPT !.child = NoProcess, !.waits = FALSE,
                                                  !.stage = stage]
      BY <2>3
    <3>2. proc[g] \in Procs
      BY <1>0
    <3> QED
      BY <3>1, <3>2 DEF Procs
  <2>6. Ages(g)
    BY <1>0, <2>1, <2>2, <2>3, <2>4, <2>5 DEF Ages, ProcInv, Current
  <2>7. c # NoProcess => Ages(c)
    BY <2>1, <2>2 DEF Ages
  <2>8. ASSUME NEW h \in Starters \ {g, c} PROVE Ages(h)
    BY <1>0, <2>1, <2>2, Same
  <2>9. c \in Starters => c # NoProcess
    BY Numbered
  <2> QED
    BY <2>6, <2>7, <2>8, <2>9
<1>14. ASSUME NEW g \in Starters, Accept(g) \/ Answer(g) PROVE \A h \in Starters : Ages(h)
  <2>1. /\ setup' = setup /\ history' = history
        /\ proc[g].stage \in {"listening", "ready", "draining"}
    BY <1>0, <1>14, ProcessAssumption
       DEF Accept, Answer, Accepting, Alive, Stage, ProcInv
  <2>2. /\ proc'[g] = [proc[g] EXCEPT !.busy = proc'[g].busy]
        /\ \A h \in Starters \ {g} : proc'[h] = proc[h]
    BY <1>0, <1>14 DEF Accept, Answer, Procs
  <2>3. Ages(g)
    BY <1>0, <2>1, <2>2 DEF Ages, ProcInv, Current, Procs
  <2> QED
    BY <1>1, <2>1, <2>2, <2>3
<1>15. \A g \in Starters : ~NightlyRestart(g)
  BY DEF NightlyRestart
<1> QED
  BY <1>3, <1>4, <1>5, <1>6, <1>7, <1>8, <1>9, <1>10, <1>11, <1>12, <1>13, <1>14, <1>15
     DEF Next, InitStep, Main, Upgrader

\* A process that begins an upgrade goes on with its child.
LEMMA UpgradeBegins ==
  ASSUME TypeOK, NEW g \in Starters, CanUpgrade(g), NEW bySignal \in BOOLEAN,
         NEW others \in [Starters -> Procs], Upgrade(g, bySignal, others)
  PROVE  \E c \in Starters :
           /\ proc[c].stage = "none" /\ c # g
           /\ proc'[c] = Process("setup", g) /\ setup'[c].at = "exists"
           /\ proc'[g].stage = others[g].stage /\ proc'[g].child = c
           /\ proc'[g].sigs = others[g].sigs /\ proc'[g].stopped = others[g].stopped
           /\ \A h \in Starters \ {c} : setup'[h] = setup[h]
           /\ \A h \in Starters \ {c, g} : proc'[h] = others[h]
<1>1. PICK c \in Starters :
        /\ proc[c].stage = "none" /\ c # g
        /\ proc' = [others EXCEPT ![c] = Process("setup", g),
                                  ![g].child = c, ![g].waits = bySignal]
        /\ BeginSetup(c, machine.disk)
  BY TheChild
<1>2. /\ proc'[c] = Process("setup", g)
      /\ \A h \in Starters \ {c, g} : proc'[h] = others[h]
  BY <1>1
<1>3. /\ setup'[c].at = "exists" /\ \A h \in Starters \ {c} : setup'[h] = setup[h]
  BY <1>1 DEF BeginSetup, TypeOK, MigrationsTypeOK
<1>4. proc'[g] = [others[g] EXCEPT !.child = c, !.waits = bySignal]
  BY <1>1
<1>5. others[g] \in Procs
  OBVIOUS
<1>6. /\ proc'[g].stage = others[g].stage /\ proc'[g].child = c
      /\ proc'[g].sigs = others[g].sigs /\ proc'[g].stopped = others[g].stopped
  BY <1>4, <1>5 DEF Procs
<1> QED
  BY <1>1, <1>2, <1>3, <1>6

\* It was the only current process.
LEMMA UpgradeLife ==
  ASSUME TypeOK, LifeInv, NEW g \in Starters, CanUpgrade(g), NEW c \in Starters,
         proc[c].stage = "none", c # g,
         proc'[c] = Process("setup", g), setup'[c].at = "exists",
         proc'[g].stage = "ready", proc'[g].child = c,
         proc'[g].sigs \in {proc[g].sigs, << >>}, proc'[g].stopped = proc[g].stopped,
         \A h \in Starters \ {c} : setup'[h] = setup[h],
         \A h \in Starters \ {c, g} : proc'[h] = proc[h],
         history' = history
  PROVE  (\A h \in Starters : ProcInv(h)') /\ OneAtATime'
<1>0. \A h \in Starters : ProcInv(h)
  BY DEF LifeInv
<1>1. /\ proc[g].stage = "ready" /\ proc[g].child = NoProcess /\ ~Alive(proc[g].parent)
      /\ setup[g].at = "done"
  BY <1>0 DEF CanUpgrade, Stage, ProcInv
<1>2. proc'[c].stage = "setup" /\ proc'[c].parent = g
  BY DEF Process
<1>3. \A h \in Starters \ {g} : ~Current(h)
  <2> SUFFICES ASSUME NEW h \in Starters \ {g}, Current(h) PROVE FALSE
    OBVIOUS
  <2>1. proc[g].child = h \/ proc[h].child = g
    BY <1>1 DEF LifeInv, OneAtATime, Current
  <2>2. proc[h].child = g
    BY <1>1, <2>1, Numbered
  <2>3. proc[g].parent = h
    BY <1>0, <1>1, <2>2, Numbered DEF ProcInv
  <2> QED
    BY <1>1, <2>3 DEF Alive, Stage, Current
<1>4. c # NoProcess /\ ~Wanted(<< >>)
  BY Numbered DEF Wanted
<1>5. ProcInv(c)'
  BY <1>4 DEF ProcInv, Process
<1>6. ProcInv(g)'
  BY <1>0, <1>1, <1>2, <1>4 DEF ProcInv
<1>7. ASSUME NEW h \in Starters \ {c, g} PROVE ProcInv(h)'
  <2>1. proc[h].child = NoProcess
    BY <1>0, <1>3 DEF ProcInv, Current
  <2> QED
    BY <1>0, <2>1 DEF ProcInv
<1>8. OneAtATime'
  <2>1. \A h \in Starters \ {c, g} : ~Current(h)'
    BY <1>3 DEF Current
  <2> QED
    BY <2>1 DEF OneAtATime
<1> QED
  BY <1>5, <1>6, <1>7, <1>8

\* When nothing runs any more the program is started again.
LEMMA BootLife ==
  ASSUME TypeOK, LifeInv, Boot
  PROVE  LifeInv'
<1>0. /\ proc \in [Starters -> Procs] /\ setup \in [Starters -> Setups]
      /\ \A h \in Starters : ProcInv(h)
  BY DEF TypeOK, MigrationsTypeOK, Procs, LifeInv
<1>1. PICK g \in Starters :
        /\ proc' = [proc EXCEPT ![g] = Process("setup", NoProcess)]
        /\ BeginSetup(g, machine.disk)
        /\ init' = InitProcess(machine.mode, g)
  BY DEF Boot
<1>2. \A h \in Starters : proc[h].stage \in {"none", "gone"}
  BY <1>0 DEF Boot, Alive, Stage, Procs
<1>3. /\ proc'[g] = Process("setup", NoProcess) /\ setup'[g].at = "exists"
      /\ \A h \in Starters \ {g} : proc'[h] = proc[h] /\ setup'[h] = setup[h]
  BY <1>0, <1>1 DEF BeginSetup
<1>4. ~Wanted(<< >>)
  BY DEF Wanted
<1>5. ProcInv(g)'
  BY <1>3, <1>4 DEF ProcInv, Process
<1>6. ASSUME NEW h \in Starters \ {g} PROVE ProcInv(h)'
  <2>1. proc'[h] = Process(proc'[h].stage, NoProcess) /\ setup'[h] = Outside
        /\ proc'[h].stage \in {"none", "gone"}
    BY <1>0, <1>2, <1>3 DEF ProcInv
  <2> QED
    BY <1>4, <2>1 DEF ProcInv, Process
<1>7. OneAtATime'
  BY <1>2, <1>3 DEF OneAtATime, Current
<1>8. InitInv'
  BY <1>1, <1>4 DEF InitInv, InitProcess
<1>9. Serving'
  BY DEF Boot, Serving, TypeOK
<1> QED
  BY <1>5, <1>6, <1>7, <1>8, <1>9 DEF LifeInv

LEMMA DeliverKeeps ==
  ASSUME TypeOK, NEW g, NEW s, Deliver(g, s)
  PROVE  \A h \in Starters : proc[h].stage = "ready" => proc'[h].stage = "ready"
<1>1. proc \in [Starters -> Procs]
  BY DEF TypeOK, Procs
<1>2. CASE Stage(g, {"setup", "listening"})
  BY <1>2 DEF Deliver, Die, Stage
<1>3. CASE Stage(g, {"ready", "draining"}) /\ proc' = [proc EXCEPT ![g].sigs = <<s>>]
  <2>1. g \in Starters /\ proc'[g] = [proc[g] EXCEPT !.sigs = <<s>>]
    BY <1>1, <1>3 DEF Stage
  <2>2. proc'[g].stage = proc[g].stage
    BY <1>1, <2>1 DEF Procs
  <2> QED
    BY <1>1, <1>3, <2>2
<1> QED
  BY <1>2, <1>3 DEF Deliver

\* What init was told, and whether there is service.
LEMMA NextServing ==
  ASSUME TypeOK, LifeInv, [Next]_vars, ~Boot
  PROVE  InitInv' /\ Serving'
<1> DEFINE Kept == \A h \in Starters : proc[h].stage = "ready" => proc'[h].stage = "ready"
<1>0. /\ proc \in [Starters -> Procs] /\ init \in Inits
      /\ \A g \in Starters : ProcInv(g)
      /\ history \in [signals: 0..MaxSignals, crashes: 0..MaxCrashes, up: BOOLEAN,
                      ended: BOOLEAN]
  BY DEF TypeOK, Procs, Inits, LifeInv
<1>1. CASE Send
  <2> PICK s \in Signals :
        /\ history' = [history EXCEPT !.signals = @ + 1, !.ended = @ \/ s = "TERM"]
        /\ IF init.main = "absent"
           THEN /\ Deliver(IF machine.pidfile = NoProcess THEN init.child ELSE machine.pidfile, s)
                /\ init' = init
           ELSE /\ init' = [init EXCEPT !.sigs = IF @ = << >> THEN <<s>> ELSE @]
                /\ UNCHANGED <<proc, setup>>
    BY <1>1 DEF Send
  <2>1. history'.up = history.up /\ history'.ended = (history.ended \/ s = "TERM")
    BY <1>0
  <2>2. InitInv'
    <3>1. CASE init' = init
      BY <2>1, <3>1 DEF InitInv, LifeInv
    <3>2. CASE init' = [init EXCEPT !.sigs = <<s>>]
      BY <1>0, <2>1, <3>2 DEF InitInv, LifeInv, Wanted, Inits
    <3> QED
      BY <1>0, <3>1, <3>2 DEF Inits
  <2>3. Kept
    BY <1>0, DeliverKeeps
  <2> QED
    BY <2>1, <2>2, <2>3 DEF Serving, LifeInv
<1>2. CASE Forward
  <2>1. Kept /\ history' = history
    BY <1>2, DeliverKeeps DEF Forward
  <2>2. Head(init.sigs) # "HUP" => history.ended
    <3>1. Head(init.sigs) # "HUP" => Wanted(init.sigs)
      BY <1>0, <1>2 DEF Forward, Inits, Channel, Signals, Wanted
    <3> QED
      BY <3>1 DEF InitInv, LifeInv
  <2>3. Head(init.sigs) = "HUP" => InitInv'
    <3>1. Head(init.sigs) = "HUP" => init' = [init EXCEPT !.sigs = << >>]
      BY <1>2 DEF Forward
    <3> QED
      BY <1>0, <2>1, <3>1 DEF InitInv, LifeInv, Inits, Wanted
  <2> QED
    BY <2>1, <2>2, <2>3 DEF InitInv, Serving, LifeInv
<1>3. CASE TakeDone \/ EndInit \/ Kill
  <2>1. history.ended /\ history' = history
    BY <1>3 DEF TakeDone, EndInit, Kill, LifeInv, InitInv
  <2> QED
    BY <2>1 DEF InitInv, Serving
<1>4. ASSUME init' = init, history' = history, history.ended \/ Kept
      PROVE  InitInv' /\ Serving'
  BY <1>4 DEF InitInv, Serving, LifeInv
<1>5. CASE UNCHANGED vars \/ Deploy
  BY <1>4, <1>5 DEF vars, Deploy
<1>6. ASSUME NEW g \in Starters,
             Setup(g) \/ Listen(g) \/ StartFails(g) \/ Shutdown(g) \/ Accept(g) \/ Answer(g)
      PROVE  InitInv' /\ Serving'
  <2>1. Kept
    BY <1>0, <1>6 DEF Setup, Listen, StartFails, Shutdown, Accept, Answer, Die, Stage, Procs
  <2> QED
    BY <1>4, <1>6, <2>1 DEF Setup, Listen, StartFails, Shutdown, Accept, Answer
<1>7. ASSUME NEW g \in Starters, Ready(g) PROVE InitInv' /\ Serving'
  <2>1. history'.ended = history.ended /\ init' = init
    BY <1>0, <1>7 DEF Ready
  <2>2. InitInv'
    BY <2>1 DEF InitInv, LifeInv
  <2>3. CASE proc' = [proc EXCEPT ![g].stage = "ready"]
    <3>1. proc'[g].stage = "ready"
      BY <1>0, <2>3 DEF Procs
    <3> QED
      BY <2>2, <3>1 DEF Serving
  <2>4. CASE Die({g}, proc) /\ history' = history
    <3>1. Kept
      BY <1>0, <1>7, <2>4 DEF Ready, Die, Stage
    <3> QED
      BY <1>4, <2>1, <2>4, <3>1
  <2> QED
    BY <1>7, <2>3, <2>4 DEF Ready
<1>8. ASSUME NEW g \in Starters, Crash(g) PROVE InitInv' /\ Serving'
  <2>1. history'.up = history.up /\ init' = init
        /\ history'.ended = (history.ended \/ Stage(g, {"ready"}))
    BY <1>0, <1>8 DEF Crash
  <2>2. Stage(g, {"ready"}) \/ Kept
    BY <1>0, <1>8 DEF Crash, Die, Stage
  <2> QED
    BY <2>1, <2>2 DEF InitInv, Serving, LifeInv
<1>9. ASSUME NEW g \in Starters, HandleSignal(g) \/ NightlyRestart(g)
      PROVE  InitInv' /\ Serving'
  <2>1. init' = init /\ history' = history
    BY <1>9 DEF HandleSignal, NightlyRestart
  <2> DEFINE read == [proc EXCEPT ![g].sigs = << >>]
  <2>2. read \in [Starters -> Procs] /\ \A h \in Starters : read[h].stage = proc[h].stage
    BY <1>0 DEF Procs, Channel
  <2> HIDE DEF read
  <2>3. ASSUME NEW bySignal \in BOOLEAN, NEW others \in {proc, read},
               Upgrade(g, bySignal, others)
        PROVE  Kept
    <3>1. others \in [Starters -> Procs] /\ \A h \in Starters : others[h].stage = proc[h].stage
      BY <1>0, <2>2
    <3>2. CASE CanUpgrade(g)
      <4>1. PICK c \in Starters :
              /\ proc[c].stage = "none" /\ proc'[g].stage = others[g].stage
              /\ \A h \in Starters \ {c, g} : proc'[h] = others[h]
        BY <2>3, <3>1, <3>2, UpgradeBegins
      <4> QED
        BY <3>1, <4>1
    <3>3. CASE ~CanUpgrade(g)
      BY <2>3, <3>1, <3>3 DEF Upgrade
    <3> QED
      BY <3>2, <3>3
  <2>4. ASSUME proc' = [read EXCEPT ![g].stopped = TRUE] PROVE Kept
    <3>1. proc'[g] = [read[g] EXCEPT !.stopped = TRUE] /\ read[g] \in Procs
          /\ \A h \in Starters \ {g} : proc'[h] = read[h]
      BY <2>2, <2>4
    <3>2. proc'[g].stage = read[g].stage
      BY <3>1 DEF Procs
    <3>3. \A h \in Starters : proc'[h].stage = read[h].stage
      BY <3>1, <3>2
    <3> QED
      BY <2>2, <3>3
  <2>5. Kept
    <3>1. CASE HandleSignal(g) /\ Head(proc[g].sigs) = "HUP"
      <4>1. Upgrade(g, TRUE, read)
        BY <3>1 DEF HandleSignal, read
      <4> QED
        BY <2>3, <4>1
    <3>2. CASE HandleSignal(g) /\ Head(proc[g].sigs) # "HUP"
      <4>1. proc' = [read EXCEPT ![g].stopped = TRUE]
        BY <3>2 DEF HandleSignal, read
      <4> QED
        BY <2>4, <4>1
    <3>3. CASE NightlyRestart(g)
      <4>1. Upgrade(g, FALSE, proc)
        BY <3>3 DEF NightlyRestart
      <4> QED
        BY <2>3, <4>1
    <3> QED
      BY <1>9, <3>1, <3>2, <3>3
  <2> QED
    BY <1>4, <2>1, <2>5
<1>10. ASSUME NEW g \in Starters, Upgrader(g) PROVE InitInv' /\ Serving'
  <2>1. init' = init /\ history' = history
    BY <1>10 DEF Upgrader, ChildExited, UpgradeTimeout, Upgraded, Stop
  <2>2. CASE ChildExited(g)
    <3>1. proc'[g] = Resumed(g) /\ \A h \in Starters \ {g} : proc'[h] = proc[h]
      BY <1>0, <2>2 DEF ChildExited
    <3>2. Resumed(g).stage = proc[g].stage
      BY <1>0 DEF Resumed, Procs
    <3> QED
      BY <1>4, <2>1, <3>1, <3>2
  <2>3. CASE UpgradeTimeout(g)
    <3>1. proc[g].stage = "ready" /\ g # proc[g].child /\ g # NoProcess
      BY <1>0, <2>3, Numbered DEF UpgradeTimeout, Upgrading, Stage, ProcInv
    <3>2. proc'[g].stage = "ready"
      <4>1. proc'[g] = Resumed(g)
        BY <1>0, <2>3, <3>1 DEF UpgradeTimeout, Die
      <4> QED
        BY <1>0, <3>1, <4>1 DEF Resumed, Procs
    <3> QED
      BY <2>1, <3>2 DEF InitInv, Serving, LifeInv
  <2>4. CASE Upgraded(g)
    <3>1. proc[g].child \in Starters /\ proc[g].child # g /\ proc[proc[g].child].stage = "ready"
      BY <1>0, <2>4, Numbered DEF Upgraded, Upgrading, Stage, ProcInv
    <3>2. proc'[proc[g].child].stage = "ready"
      BY <1>0, <2>4, <3>1 DEF Upgraded
    <3> QED
      BY <2>1, <3>1, <3>2 DEF InitInv, Serving, LifeInv
  <2>5. CASE Stop(g)
    BY <1>0, <1>4, <2>1, <2>5 DEF Stop, ProcInv
  <2> QED
    BY <1>10, <2>2, <2>3, <2>4, <2>5 DEF Upgrader
<1> QED
  BY <1>1, <1>2, <1>3, <1>5, <1>6, <1>7, <1>8, <1>9, <1>10 DEF Next, InitStep, Main

LEMMA NextLife ==
  ASSUME TypeOK, InOrder, LifeInv, [Next]_vars
  PROVE  LifeInv'
<1>1. TypeOK'
  BY NextType
<1>2. CASE Boot
  BY <1>2, BootLife
<1>3. ASSUME ~Boot, (\A g \in Starters : ProcInv(g)') /\ OneAtATime'
      PROVE  LifeInv'
  BY <1>3, NextServing DEF LifeInv
<1>4. ASSUME ~Boot, NEW g \in Starters, CanUpgrade(g),
             \/ NightlyRestart(g)
             \/ HandleSignal(g) /\ Head(proc[g].sigs) = "HUP"
      PROVE  LifeInv'
  <2> DEFINE read == [proc EXCEPT ![g].sigs = << >>]
  <2>1. /\ proc \in [Starters -> Procs] /\ history' = history
        /\ proc[g] \in Procs /\ proc[g].stage = "ready"
    BY <1>4 DEF TypeOK, Procs, NightlyRestart, HandleSignal, CanUpgrade, Stage
  <2>2. /\ read \in [Starters -> Procs]
        /\ \A h \in Starters \ {g} : read[h] = proc[h]
        /\ read[g].stage = "ready" /\ read[g].sigs = << >> /\ read[g].stopped = proc[g].stopped
    BY <2>1 DEF Procs, Channel
  <2>3. \E bySignal \in BOOLEAN, others \in {proc, read} : Upgrade(g, bySignal, others)
    BY <1>4 DEF NightlyRestart, HandleSignal
  <2> HIDE DEF read
  <2>4. PICK bySignal \in BOOLEAN, others \in {proc, read} : Upgrade(g, bySignal, others)
    BY <2>3
  <2>5. /\ others \in [Starters -> Procs]
        /\ \A h \in Starters \ {g} : others[h] = proc[h]
        /\ others[g].stage = "ready" /\ others[g].sigs \in {proc[g].sigs, << >>}
        /\ others[g].stopped = proc[g].stopped
    BY <2>1, <2>2
  <2>6. PICK c \in Starters :
           /\ proc[c].stage = "none" /\ c # g
           /\ proc'[c] = Process("setup", g) /\ setup'[c].at = "exists"
           /\ proc'[g].stage = others[g].stage /\ proc'[g].child = c
           /\ proc'[g].sigs = others[g].sigs /\ proc'[g].stopped = others[g].stopped
           /\ \A h \in Starters \ {c} : setup'[h] = setup[h]
           /\ \A h \in Starters \ {c, g} : proc'[h] = others[h]
    BY <1>4, <2>4, <2>5, UpgradeBegins
  <2>7. (\A h \in Starters : ProcInv(h)') /\ OneAtATime'
    BY <1>4, <2>1, <2>5, <2>6, UpgradeLife
  <2> QED
    BY <1>3, <1>4, <2>7
<1>5. CASE ~Boot /\ \A g \in Starters : CanUpgrade(g) =>
             ~NightlyRestart(g) /\ ~(HandleSignal(g) /\ Head(proc[g].sigs) = "HUP")
  <2>1. \A h \in Starters : Ages(h)
    BY <1>5, NextAges
  <2> QED
    BY <1>1, <1>3, <1>5, <2>1, Aging DEF LifeInv
<1> QED
  BY <1>2, <1>4, <1>5

LEMMA InitLife == Init => LifeInv
<1> SUFFICES ASSUME Init PROVE LifeInv
  OBVIOUS
<1>1. PICK mode \in Modes, binary \in Binaries :
        /\ init = InitProcess(mode, 1)
        /\ setup = [p \in Starters |-> IF p = 1 THEN [at |-> "exists", binary |-> binary]
                                       ELSE Outside]
  BY DEF Init
<1>2. ~Wanted(<< >>)
  BY DEF Wanted
<1>3. ASSUME NEW g \in Starters PROVE ProcInv(g)
  <2>1. CASE g = 1
    <3>1. proc[g] = Process("setup", NoProcess) /\ setup[g].at = "exists"
      BY <1>1, <2>1 DEF Init
    <3> QED
      BY <1>2, <3>1 DEF ProcInv, Process
  <2>2. CASE g # 1
    <3>1. proc[g] = Process("none", NoProcess) /\ setup[g] = Outside
      BY <1>1, <2>2 DEF Init
    <3> QED
      BY <1>2, <3>1 DEF ProcInv, Process
  <2> QED
    BY <2>1, <2>2
<1>4. \A g \in Starters : Current(g) => g = 1
  BY DEF Init, Current, Process
<1>5. OneAtATime
  BY <1>4 DEF OneAtATime
<1>6. InitInv /\ Serving
  BY <1>1, <1>2 DEF Init, InitInv, Serving, InitProcess
<1> QED
  BY <1>3, <1>5, <1>6 DEF LifeInv

-----------------------------------------------------------------------------
(* The database.                                                           *)

\* What a step does to the database, unless it is one of CreateAndMigrateTables:
\* requests may write rows, processes begin and end, and binaries get newer.
Quiet ==
  /\ \/ db' = db
     \/ db' = [db EXCEPT !.rows = TRUE] /\ \E g \in Starters : At(g, "done")
  /\ \A p \in Starters :
       \/ setup'[p] = setup[p] \/ setup'[p] = Outside
       \/ setup'[p] = [at |-> "exists", binary |-> machine.disk]
  /\ machine.disk <= machine'.disk

LEMMA NextQuiet ==
  ASSUME TypeOK, LifeInv, [Next]_vars, ~ \E g \in Starters : Setup(g)
  PROVE  Quiet
<1>0. /\ proc \in [Starters -> Procs] /\ setup \in [Starters -> Setups]
      /\ machine.disk \in Binaries /\ Binaries \subseteq Nat /\ db \in Databases
      /\ machine \in [mode: Modes, disk: Binaries, pidfile: Starters \cup {NoProcess}]
  BY VersionsType DEF TypeOK, MigrationsTypeOK, Procs
<1> DEFINE Begin(c) == setup' = [setup EXCEPT ![c] = [at |-> "exists", binary |-> machine.disk]]
           Calm == \/ setup' = setup \/ \E c \in Starters : Begin(c)
                   \/ \E gs, others : Die(gs, others)
<1>1. ASSUME Calm, db' = db, machine.disk <= machine'.disk PROVE Quiet
  <2>1. CASE setup' = setup
    BY <1>1, <2>1 DEF Quiet
  <2>2. CASE \E gs, others : Die(gs, others)
    BY <1>1, <2>2 DEF Quiet, Die
  <2>3. CASE \E c \in Starters : Begin(c)
    BY <1>0, <1>1, <2>3 DEF Quiet
  <2> QED
    BY <1>1, <2>1, <2>2, <2>3
<1>2. ASSUME machine' = machine PROVE machine.disk <= machine'.disk
  <2>1. machine.disk \in Nat
    BY <1>0
  <2> QED
    BY <1>2, <2>1
<1>3. ASSUME machine'.disk = machine.disk PROVE machine.disk <= machine'.disk
  <2>1. machine.disk \in Nat
    BY <1>0
  <2> QED
    BY <1>3, <2>1
<1>4. CASE Deploy
  BY <1>0, <1>1, <1>4 DEF Deploy
<1>5. ASSUME NEW g \in Starters, Answer(g) PROVE Quiet
  <2>1. At(g, "done")
    BY <1>5, ProcessAssumption DEF Answer, Alive, Stage, LifeInv, ProcInv, At
  <2>2. db' = db \/ db' = [db EXCEPT !.rows = TRUE]
    BY <1>0, <1>5 DEF Answer, Databases
  <2> QED
    BY <1>0, <1>5, <2>1, <2>2 DEF Quiet, Answer
<1>6. ASSUME NEW g \in Starters, Ready(g) PROVE Quiet
  <2>1. machine'.disk = machine.disk
    BY <1>0, <1>6 DEF Ready
  <2> QED
    BY <1>0, <1>1, <1>6, <2>1 DEF Ready
<1>7. CASE Boot
  <2>1. machine'.disk = machine.disk
    BY <1>0, <1>7 DEF Boot
  <2>2. Calm /\ db' = db
    BY <1>7 DEF Boot, BeginSetup
  <2>3. machine.disk <= machine'.disk
    BY <2>1, <2>2, <1>2, <1>3
  <2> QED
    BY <1>1, <2>1, <2>2, <2>3
<1>8. CASE UNCHANGED vars \/ Send \/ Forward \/ TakeDone \/ EndInit \/ Kill
  <2>1. Calm
    BY <1>8 DEF vars, Send, Forward, TakeDone, EndInit, Kill, Deliver
  <2>2. db' = db /\ machine' = machine
    BY <1>8 DEF vars, Send, Forward, TakeDone, EndInit, Kill
  <2>3. machine.disk <= machine'.disk
    BY <2>1, <2>2, <1>2, <1>3
  <2> QED
    BY <1>1, <2>1, <2>2, <2>3
<1>9. ASSUME NEW g \in Starters,
             \/ Listen(g) \/ Shutdown(g) \/ StartFails(g) \/ Accept(g) \/ Crash(g) \/ Upgrader(g)
      PROVE  Quiet
  <2>1. Calm
    BY <1>9 DEF Listen, Shutdown, StartFails, Accept, Crash, Upgrader, ChildExited,
                UpgradeTimeout, Upgraded, Stop
  <2> QED
    BY <1>0, <1>1, <1>9, <2>1
       DEF Listen, Shutdown, StartFails, Accept, Crash, Upgrader, ChildExited, UpgradeTimeout,
           Upgraded, Stop
<1>10. ASSUME NEW g \in Starters, HandleSignal(g) \/ NightlyRestart(g) PROVE Quiet
  <2>1. ASSUME NEW bySignal, NEW others, Upgrade(g, bySignal, others) PROVE Calm
    <3>1. CASE CanUpgrade(g)
      BY <2>1, <3>1, TheChild DEF BeginSetup
    <3>2. CASE ~CanUpgrade(g)
      BY <2>1, <3>2 DEF Upgrade
    <3> QED
      BY <3>1, <3>2
  <2>2. Calm
    BY <1>10, <2>1 DEF HandleSignal, NightlyRestart
  <2>3. db' = db /\ machine' = machine
    BY <1>10 DEF HandleSignal, NightlyRestart
  <2>4. machine.disk <= machine'.disk
    BY <2>3, <1>2
  <2> QED
    BY <1>1, <2>2, <2>3, <2>4
<1> QED
  BY <1>4, <1>5, <1>6, <1>7, <1>8, <1>9, <1>10 DEF Next, InitStep, Main

LEMMA QuietDatabase ==
  ASSUME TypeOK, TypeOK', DatabaseInv, Quiet
  PROVE  DatabaseInv'
<1>0. /\ db \in Databases /\ setup \in [Starters -> Setups] /\ machine.disk \in Nat
      /\ Binaries \subseteq Nat /\ machine.disk \in Binaries
  BY VersionsType DEF TypeOK, MigrationsTypeOK
<1>1. /\ db'.tables = db.tables /\ db'.layout = db.layout /\ db'.made = db.made
      /\ db'.versions = db.versions
      /\ db'.rows => db.rows \/ \E g \in Starters : At(g, "done")
  BY <1>0 DEF Quiet, Databases
<1>2. Covered' = Covered
  BY <1>1 DEF Covered
<1>3. db.made \in Nat /\ machine'.disk \in Nat /\ machine.disk <= machine'.disk
  <2>1. db.made \in Binaries /\ machine'.disk \in Binaries
    BY <1>0 DEF Databases, TypeOK
  <2> QED
    BY <1>0, <2>1 DEF Quiet
<1>4. VersionsInv'
  <2>1. db'.made <= machine'.disk
    BY <1>0, <1>1, <1>3 DEF DatabaseInv, VersionsInv
  <2> QED
    BY <1>1, <1>2, <2>1 DEF DatabaseInv, VersionsInv, InOrder
<1>5. \A p \in Starters : At(p, "done")' => At(p, "done")
  BY DEF Quiet, At, Outside
<1>6. db'.rows \/ (\E p \in Starters : At(p, "done")') => Settled'
  <2>1. db'.rows \/ (\E p \in Starters : At(p, "done")') => Settled
    BY <1>1, <1>5 DEF DatabaseInv
  <2> QED
    BY <1>1, <2>1 DEF Settled
<1>7. ASSUME NEW p \in Starters PROVE SetupInv(p)'
  <2>1. CASE setup'[p] = Outside
    BY <2>1 DEF SetupInv, Busy, At, Outside
  <2>2. CASE setup'[p] = [at |-> "exists", binary |-> machine.disk]
    BY <1>0, <1>1, <1>3, <2>2 DEF SetupInv, Busy, At, DatabaseInv, VersionsInv
  <2>3. CASE setup'[p] = setup[p]
    <3>1. SetupInv(p)
      BY DEF DatabaseInv
    <3>2. setup[p].at # "outside" => setup[p].binary \in Nat
      BY SetupBinary DEF TypeOK
    <3>3. setup'[p].at # "outside" => setup'[p].binary <= machine'.disk
      BY <1>0, <1>3, <2>3, <3>1, <3>2 DEF SetupInv
    <3>4. setup'[p].at \in {"object", "log", "migrations", "first"} =>
            ~db'.rows /\ \A q \in Starters : ~At(q, "done")'
      BY <1>1, <1>5, <2>3, <3>1 DEF SetupInv
    <3> QED
      BY <1>1, <1>2, <2>3, <3>1, <3>3, <3>4 DEF SetupInv, Busy, At
  <2> QED
    BY <2>1, <2>2, <2>3 DEF Quiet
<1> QED
  BY <1>4, <1>6, <1>7 DEF DatabaseInv

\* While a process is busy with the database no other one is.
LEMMA Alone ==
  ASSUME TypeOK, LifeInv, NEW p \in Starters, Stage(p, {"setup"}), NEW q \in Starters \ {p}
  PROVE  ~Busy(q)
<1>1. SUFFICES ASSUME Busy(q) PROVE FALSE
  OBVIOUS
<1>2. ProcInv(p) /\ ProcInv(q) /\ proc[p].stage = "setup"
  BY DEF LifeInv, Stage
<1>3. proc[q].stage = "setup"
  BY <1>1, <1>2 DEF ProcInv, Busy, Outside, TypeOK
<1>4. proc[p].child = NoProcess /\ proc[q].child = NoProcess
  BY <1>2, <1>3 DEF ProcInv
<1>5. proc[p].child = q \/ proc[q].child = p
  BY <1>2, <1>3 DEF LifeInv, OneAtATime, Current
<1> QED
  BY <1>4, <1>5, Numbered

\* What another process relies on.
LEMMA OthersRely ==
  ASSUME NEW q, ~Busy(q), SetupInv(q), setup'[q] = setup[q], machine' = machine,
         db.tables \subseteq db'.tables,
         "tmf_object" \in db.tables => db.layout \cup Covered \subseteq (db.layout \cup Covered)'
  PROVE  SetupInv(q)'
  BY DEF Busy, SetupInv, At

\* What a step of CreateAndMigrateTables keeps: one lemma for each.
Step(p) == TypeOK /\ TypeOK' /\ LifeInv /\ DatabaseInv /\ Stage(p, {"setup"})
           /\ machine' = machine /\ p \in Starters

\* Numbers the steps compare.
LEMMA SetupNumbers ==
  ASSUME MigrationsTypeOK, NEW p \in Starters, setup[p].at = "apply"
  PROVE  /\ setup[p] \in [at: {"apply"}, binary: Binaries, next: 1..LastMigration + 1]
         /\ setup[p].binary \in Nat /\ setup[p].next \in Nat \ {0}
         /\ setup[p].next <= setup[p].binary => setup[p].next \in Migrations
         /\ db.made \in Nat /\ db.layout \subseteq Nat \ {0}
         /\ \A n \in DOMAIN db.versions : db.versions[n] \in Nat
<1>1. setup[p] \in [at: {"apply"}, binary: Binaries, next: 1..LastMigration + 1]
  <2>1. setup[p] \in Setups
    BY DEF MigrationsTypeOK
  <2> QED
    BY <2>1 DEF Setups, Steps, Outside
<1>2. setup[p].binary \in Nat /\ setup[p].binary <= LastMigration
  BY <1>1, MigrationsAssumption DEF Binaries
<1>3. setup[p].next \in Nat \ {0} /\ setup[p].next <= LastMigration + 1
  BY <1>1, MigrationsAssumption
<1>4. setup[p].next <= setup[p].binary => setup[p].next \in Migrations
  BY <1>2, <1>3, MigrationsAssumption DEF Migrations
<1>5. db.made \in Nat /\ db.layout \subseteq Nat \ {0}
  BY MigrationsAssumption DEF MigrationsTypeOK, Databases, Binaries, Migrations
<1> QED
  BY <1>1, <1>2, <1>3, <1>4, <1>5, VersionsType

\* The process is at another step then.
LEMMA StepMoves ==
  ASSUME NEW p, Step(p), NEW step \in Steps, ToStep(p, step)
  PROVE  /\ setup'[p].at = step /\ setup'[p].binary = setup[p].binary
         /\ \A q \in Starters \ {p} : setup'[q] = setup[q] /\ ~Busy(q)
<1>1. setup \in [Starters -> Setups]
  BY DEF Step, TypeOK, MigrationsTypeOK
<1> QED
  BY <1>1, Alone DEF Step, ToStep

LEMMA ExistsKeeps ==
  ASSUME NEW p, Step(p), MigrationsTableExists(p)
  PROVE  DatabaseInv'
<1>1. PICK step \in {"last", "object"} :
        /\ ToStep(p, step) /\ db' = db
        /\ step = "last" <=> "migrations" \in db.tables
  BY DEF MigrationsTableExists
<1>2. /\ setup'[p].at = step /\ setup'[p].binary = setup[p].binary
      /\ \A q \in Starters \ {p} : setup'[q] = setup[q] /\ ~Busy(q)
  BY <1>1, StepMoves DEF Steps
<1>3. /\ machine' = machine /\ p \in Starters /\ setup[p].at = "exists"
      /\ VersionsInv /\ \A q \in Starters : SetupInv(q)
      /\ db.rows \/ (\E q \in Starters : At(q, "done")) => Settled
  BY DEF Step, DatabaseInv, MigrationsTableExists, At
<1>4. Covered' = Covered /\ VersionsInv' /\ Settled' = Settled
  BY <1>1, <1>3 DEF Covered, VersionsInv, InOrder, Settled
<1>5. \A q \in Starters : At(q, "done")' <=> At(q, "done")
  BY <1>1, <1>2, <1>3 DEF At
<1>6. \A q \in Starters \ {p} : SetupInv(q)'
  BY <1>1, <1>2, <1>3, <1>4, OthersRely
<1>7. SetupInv(p)'
  <2>1. step = "object" => ~db.rows /\ \A q \in Starters : ~At(q, "done")
    BY <1>1, <1>3 DEF Settled
  <2> QED
    BY <1>1, <1>2, <1>3, <1>5, <2>1 DEF SetupInv, Busy, At, VersionsInv
<1> QED
  BY <1>1, <1>3, <1>4, <1>5, <1>6, <1>7 DEF DatabaseInv

LEMMA ObjectKeeps ==
  ASSUME NEW p, Step(p), CreateObjectTable(p)
  PROVE  DatabaseInv'
<1>1. /\ setup'[p].at = "log" /\ setup'[p].binary = setup[p].binary
      /\ \A q \in Starters \ {p} : setup'[q] = setup[q] /\ ~Busy(q)
  BY StepMoves DEF CreateObjectTable, Steps
<1>2. /\ machine' = machine /\ p \in Starters /\ setup[p].at = "object"
      /\ VersionsInv /\ \A q \in Starters : SetupInv(q)
      /\ db \in Databases
  BY DEF Step, DatabaseInv, CreateObjectTable, At, TypeOK, MigrationsTypeOK
<1>3. /\ ~db.rows /\ (\A q \in Starters : ~At(q, "done"))
      /\ "migrations" \notin db.tables /\ db.versions = << >>
      /\ setup[p].binary <= machine.disk /\ db.made <= setup[p].binary
  BY <1>2 DEF SetupInv, Busy, VersionsInv
<1>4. /\ db'.versions = << >> /\ ~db'.rows /\ db'.tables = db.tables \cup {"tmf_object"}
      /\ "tmf_object" \in db.tables => db' = db
      /\ "tmf_object" \notin db.tables =>
           db'.layout = 1..setup[p].binary /\ db'.made = setup[p].binary
  BY <1>2, <1>3 DEF CreateObjectTable, Databases
<1>5. setup[p].binary \in Nat
  BY <1>2, SetupBinary DEF Step, TypeOK
<1>6. VersionsInv'
  <2>1. "tmf_object" \in db.tables => VersionsInv'
    BY <1>2, <1>4 DEF VersionsInv, InOrder, Covered
  <2>2. "tmf_object" \notin db.tables => VersionsInv'
    BY <1>2, <1>3, <1>4, <1>5 DEF VersionsInv, InOrder
  <2> QED
    BY <2>1, <2>2
<1>7. \A q \in Starters : ~At(q, "done")'
  BY <1>1, <1>3 DEF At
<1>8. \A q \in Starters \ {p} : SetupInv(q)'
  BY <1>1, <1>2, <1>3, <1>4, OthersRely DEF SetupInv, Busy, At
<1>9. SetupInv(p)'
  <2>1. db'.made <= setup[p].binary
    BY <1>3, <1>4, <1>5
  <2> QED
    BY <1>1, <1>2, <1>3, <1>4, <1>7, <2>1 DEF SetupInv, Busy, At
<1> QED
  BY <1>4, <1>6, <1>7, <1>8, <1>9 DEF DatabaseInv

LEMMA TablesKeep ==
  ASSUME NEW p, Step(p), CreateLogTable(p) \/ CreateMigrationsTable(p)
  PROVE  DatabaseInv'
<1>1. PICK step \in {"migrations", "first"} :
        /\ ToStep(p, step)
        /\ step = "migrations" <=> CreateLogTable(p)
  BY DEF CreateLogTable, CreateMigrationsTable, At
<1>2. /\ setup'[p].at = step /\ setup'[p].binary = setup[p].binary
      /\ \A q \in Starters \ {p} : setup'[q] = setup[q] /\ ~Busy(q)
  BY <1>1, StepMoves DEF Steps
<1>3. /\ machine' = machine /\ p \in Starters /\ setup[p].at \in {"log", "migrations"}
      /\ VersionsInv /\ \A q \in Starters : SetupInv(q)
      /\ db \in Databases
  BY DEF Step, DatabaseInv, CreateLogTable, CreateMigrationsTable, At, TypeOK, MigrationsTypeOK
<1>4. /\ ~db.rows /\ (\A q \in Starters : ~At(q, "done"))
      /\ "migrations" \notin db.tables /\ db.versions = << >> /\ "tmf_object" \in db.tables
  BY <1>3 DEF SetupInv, VersionsInv
<1>5. /\ db'.versions = << >> /\ ~db'.rows /\ db'.layout = db.layout /\ db'.made = db.made
      /\ db.tables \subseteq db'.tables
      /\ step = "first" <=> "migrations" \in db'.tables
  BY <1>1, <1>3, <1>4 DEF CreateLogTable, CreateMigrationsTable, Databases
<1>6. Covered' = Covered /\ VersionsInv'
  BY <1>3, <1>4, <1>5 DEF VersionsInv, InOrder, Covered
<1>7. \A q \in Starters : ~At(q, "done")'
  BY <1>2, <1>4, <1>1 DEF At
<1>8. \A q \in Starters \ {p} : SetupInv(q)'
  BY <1>2, <1>3, <1>5, <1>6, OthersRely
<1>9. SetupInv(p)'
  BY <1>2, <1>3, <1>4, <1>5, <1>7, <1>1 DEF SetupInv, Busy, At
<1> QED
  BY <1>5, <1>6, <1>7, <1>8, <1>9 DEF DatabaseInv

LEMMA FirstKeeps ==
  ASSUME NEW p, Step(p), InsertFirstMigration(p)
  PROVE  DatabaseInv'
<1>1. /\ setup'[p].at = "done" /\ setup'[p].binary = setup[p].binary
      /\ \A q \in Starters \ {p} : setup'[q] = setup[q] /\ ~Busy(q)
  BY StepMoves DEF InsertFirstMigration, Steps
<1>2. /\ machine' = machine /\ p \in Starters /\ setup[p].at = "first"
      /\ VersionsInv /\ \A q \in Starters : SetupInv(q)
      /\ db \in Databases
  BY DEF Step, DatabaseInv, InsertFirstMigration, At, TypeOK, MigrationsTypeOK
<1>3. /\ ~db.rows /\ (\A q \in Starters : ~At(q, "done"))
      /\ "migrations" \in db.tables /\ db.versions = << >> /\ "tmf_object" \in db.tables
      /\ setup[p].binary <= machine.disk /\ db.made <= setup[p].binary
      /\ 1..db.made \subseteq db.layout /\ \A m \in db.layout : m <= db.made
  BY <1>2 DEF SetupInv, Busy, At, VersionsInv
<1>4. setup[p].binary \in Nat /\ db.made \in Nat /\ db.layout \subseteq Nat
  <2>1. setup[p].binary \in Nat /\ Binaries \subseteq Nat /\ Migrations \subseteq Binaries
    BY <1>2, SetupBinary, VersionsType DEF Step, TypeOK
  <2> QED
    BY <1>2, <2>1 DEF Databases
<1>5. PICK stamp \in setup[p].binary..LastMigration :
        db' = [db EXCEPT !.versions = Append(@, stamp)]
  BY DEF InsertFirstMigration
<1>6. /\ db'.versions = <<stamp>> /\ db'.tables = db.tables /\ db'.layout = db.layout
      /\ db'.made = db.made /\ db'.rows = db.rows
  BY <1>2, <1>3, <1>5 DEF Databases
<1>7. stamp \in Nat /\ setup[p].binary <= stamp
  BY <1>4, <1>5, MigrationsAssumption
<1>8. DOMAIN db'.versions = {1} /\ db'.versions[1] = stamp /\ db'.versions # << >>
  BY <1>6
<1>9. Covered' = (db.made + 1)..stamp
  BY <1>6, <1>8 DEF Covered
<1>10. 1..stamp \subseteq db.layout \cup Covered'
  BY <1>3, <1>4, <1>7, <1>9
<1>11. \A m \in db.layout : m <= stamp
  BY <1>3, <1>4, <1>7
<1>12. VersionsInv'
  BY <1>2, <1>3, <1>6, <1>8, <1>10, <1>11 DEF VersionsInv, InOrder
<1>13. Settled'
  BY <1>3, <1>6, <1>8, <1>11 DEF Settled
<1>14. \A q \in Starters \ {p} : SetupInv(q)'
  BY <1>1, <1>2, <1>3, OthersRely, <1>6, <1>9 DEF Covered
<1>15. SetupInv(p)'
  <2>1. 1..setup[p].binary \subseteq 1..stamp
    BY <1>4, <1>7
  <2> QED
    BY <1>1, <1>2, <1>3, <1>6, <1>10, <2>1 DEF SetupInv, Busy, At
<1> QED
  BY <1>12, <1>13, <1>14, <1>15 DEF DatabaseInv

LEMMA LastKeeps ==
  ASSUME NEW p, Step(p), ReadLastVersion(p)
  PROVE  DatabaseInv'
<1> DEFINE last == Max(Recorded \cup {0})
<1>1. /\ machine' = machine /\ p \in Starters /\ setup[p].at = "last"
      /\ VersionsInv /\ (\A q \in Starters : SetupInv(q))
      /\ db.rows \/ (\E q \in Starters : At(q, "done")) => Settled
      /\ db' = db /\ setup \in [Starters -> Setups]
  BY DEF Step, DatabaseInv, ReadLastVersion, At, TypeOK, MigrationsTypeOK
<1>2. setup' = [setup EXCEPT ![p] =
                  [at |-> "apply", binary |-> setup[p].binary, next |-> last + 1]]
  BY <1>1 DEF ReadLastVersion
<1>3. /\ setup'[p] = [at |-> "apply", binary |-> setup[p].binary, next |-> last + 1]
      /\ \A q \in Starters \ {p} : setup'[q] = setup[q] /\ ~Busy(q)
  BY <1>1, <1>2, Alone DEF Step
<1>4. Covered' = Covered /\ VersionsInv' /\ Settled' = Settled
  BY <1>1 DEF Covered, VersionsInv, InOrder, Settled
<1>5. \A q \in Starters : At(q, "done")' <=> At(q, "done")
  BY <1>1, <1>3 DEF At
<1>6. \A q \in Starters \ {p} : SetupInv(q)'
  BY <1>1, <1>3, <1>4, OthersRely
<1>7. SetupInv(p)'
  <2>1. /\ last \in Binaries /\ (last = 0 \/ last \in Recorded)
        /\ \A v \in Recorded : v <= last
    BY <1>1, TheLast DEF Step, TypeOK, VersionsInv
  <2> HIDE DEF last
  <2>2. \A n \in DOMAIN db.versions : db.versions[n] \in Nat /\ db.versions[n] <= last
    BY <2>1, VersionsType DEF Step, TypeOK, Recorded
  <2>3. last \in Nat
    BY <2>1, VersionsType DEF Step, TypeOK
  <2>4. \A n \in DOMAIN db.versions : db.versions[n] < last + 1
    BY <2>2, <2>3
  <2>5. last + 1 = 1 \/ \E n \in DOMAIN db.versions : db.versions[n] = (last + 1) - 1
    BY <2>1, <2>3 DEF Recorded
  <2> QED
    BY <1>1, <1>3, <2>4, <2>5 DEF SetupInv, Busy, At
<1> QED
  BY <1>1, <1>4, <1>5, <1>6, <1>7 DEF DatabaseInv

LEMMA NoneLeftKeeps ==
  ASSUME NEW p, Step(p), NoMigrationLeft(p)
  PROVE  DatabaseInv'
<1>1. /\ setup'[p].at = "done" /\ setup'[p].binary = setup[p].binary
      /\ \A q \in Starters \ {p} : setup'[q] = setup[q] /\ ~Busy(q)
  BY StepMoves DEF NoMigrationLeft, Steps
<1>2. /\ machine' = machine /\ p \in Starters /\ setup[p].at = "apply" /\ db' = db
      /\ setup[p].next > setup[p].binary
      /\ VersionsInv /\ (\A q \in Starters : SetupInv(q))
      /\ MigrationsTypeOK /\ db \in Databases
  BY DEF Step, DatabaseInv, NoMigrationLeft, At, TypeOK, MigrationsTypeOK
<1>3. /\ "migrations" \in db.tables /\ "tmf_object" \in db.tables
      /\ setup[p].binary <= machine.disk /\ db.made <= setup[p].binary
      /\ setup[p].next = 1 \/ \E n \in DOMAIN db.versions : db.versions[n] = setup[p].next - 1
  BY <1>2 DEF SetupInv, Busy, At
<1>4. /\ setup[p].binary \in Nat /\ setup[p].next \in Nat \ {0} /\ db.made \in Nat
      /\ db.layout \subseteq Nat \ {0}
      /\ \A n \in DOMAIN db.versions : db.versions[n] \in Nat
  BY <1>2, SetupNumbers
<1>5. Covered' = Covered /\ VersionsInv'
  BY <1>2 DEF Covered, VersionsInv, InOrder
<1>6. \A q \in Starters \ {p} : SetupInv(q)'
  BY <1>1, <1>2, <1>5, OthersRely
<1>7. 1..setup[p].binary \subseteq db.layout \cup Covered
  <2>1. CASE setup[p].next = 1
    BY <1>2, <1>4, <2>1
  <2>2. CASE \E n \in DOMAIN db.versions : db.versions[n] = setup[p].next - 1
    <3> PICK n \in DOMAIN db.versions : db.versions[n] = setup[p].next - 1
      BY <2>2
    <3>1. 1..setup[p].binary \subseteq 1..db.versions[n]
      BY <1>2, <1>4
    <3> QED
      BY <1>2, <3>1 DEF VersionsInv
  <2> QED
    BY <1>3, <2>1, <2>2
<1>8. SetupInv(p)'
  BY <1>1, <1>2, <1>3, <1>5, <1>7 DEF SetupInv, Busy, At
<1>9. Settled
  <2> SUFFICES ASSUME NEW m \in db.layout PROVE \E n \in DOMAIN db.versions : m <= db.versions[n]
    BY <1>3 DEF Settled
  <2>1. m <= db.made \/ \E n \in DOMAIN db.versions : m <= db.versions[n]
    BY <1>2 DEF VersionsInv
  <2>2. CASE m <= db.made
    <3>1. m <= setup[p].next - 1 /\ setup[p].next # 1
      BY <1>2, <1>3, <1>4, <2>2
    <3> QED
      BY <1>3, <3>1
  <2> QED
    BY <2>1, <2>2
<1>10. Settled'
  BY <1>2, <1>9 DEF Settled
<1> QED
  BY <1>5, <1>6, <1>8, <1>10 DEF DatabaseInv

LEMMA ApplyKeeps ==
  ASSUME NEW p, Step(p), ApplyMigration(p)
  PROVE  DatabaseInv'
<1> DEFINE v == setup[p].next
           last == Len(db.versions) + 1
<1>1. /\ machine' = machine /\ p \in Starters /\ setup[p].at = "apply"
      /\ v <= setup[p].binary
      /\ VersionsInv /\ (\A q \in Starters : SetupInv(q))
      /\ db.rows \/ (\E q \in Starters : At(q, "done")) => Settled
      /\ MigrationsTypeOK /\ db \in Databases /\ setup \in [Starters -> Setups]
  BY DEF Step, DatabaseInv, ApplyMigration, At, TypeOK, MigrationsTypeOK
<1>2. /\ "migrations" \in db.tables /\ "tmf_object" \in db.tables
      /\ setup[p].binary <= machine.disk /\ db.made <= setup[p].binary
      /\ \A n \in DOMAIN db.versions : db.versions[n] < v
      /\ v = 1 \/ \E n \in DOMAIN db.versions : db.versions[n] = v - 1
  BY <1>1 DEF SetupInv, Busy, At
<1>3. /\ setup[p] \in [at: {"apply"}, binary: Binaries, next: 1..LastMigration + 1]
      /\ setup[p].binary \in Nat /\ v \in Nat \ {0} /\ v \in Migrations
      /\ db.made \in Nat /\ db.layout \subseteq Nat \ {0}
      /\ \A n \in DOMAIN db.versions : db.versions[n] \in Nat
  BY <1>1, SetupNumbers
<1>4. /\ setup'[p].at = "apply" /\ setup'[p].binary = setup[p].binary
      /\ setup'[p].next = v + 1
      /\ \A q \in Starters \ {p} : setup'[q] = setup[q] /\ ~Busy(q)
  <2>1. setup' = [setup EXCEPT ![p].next = @ + 1]
    BY DEF ApplyMigration
  <2>2. setup'[p] = [setup[p] EXCEPT !.next = @ + 1]
    BY <1>1, <2>1
  <2>3. \A q \in Starters \ {p} : setup'[q] = setup[q] /\ ~Busy(q)
    BY <1>1, <2>1, Alone DEF Step
  <2> QED
    BY <1>3, <2>2, <2>3
<1>5. /\ db'.versions = Append(db.versions, v) /\ db'.layout = db.layout \cup {v}
      /\ db'.tables = db.tables /\ db'.made = db.made /\ db'.rows = db.rows
  BY <1>1 DEF ApplyMigration, Databases
<1> HIDE DEF v
<1>6. /\ last \in Nat \ {0} /\ DOMAIN db.versions = 1..(last - 1)
      /\ DOMAIN db'.versions = 1..last /\ db'.versions[last] = v
      /\ \A n \in DOMAIN db.versions : db'.versions[n] = db.versions[n]
  <2>1. /\ Len(db.versions) \in Nat /\ DOMAIN db.versions = 1..Len(db.versions)
        /\ DOMAIN Append(db.versions, v) = 1..(Len(db.versions) + 1)
        /\ Append(db.versions, v)[Len(db.versions) + 1] = v
        /\ \A n \in DOMAIN db.versions : Append(db.versions, v)[n] = db.versions[n]
    BY <1>1, <1>3, VersionsType
  <2>2. Len(db.versions) = last - 1 /\ last \in Nat \ {0}
    BY <2>1
  <2> QED
    BY <1>5, <2>1, <2>2
<1> HIDE DEF last
<1>7. DOMAIN db'.versions = DOMAIN db.versions \cup {last} /\ last \notin DOMAIN db.versions
  BY <1>6
<1>8. Covered \subseteq Covered'
  <2>1. CASE db.versions = << >>
    BY <2>1 DEF Covered
  <2>2. CASE db.versions # << >>
    <3>1. 1 \in DOMAIN db.versions
      BY <1>1, <2>2, VersionsType DEF Databases
    <3>2. db'.versions # << >>
      <4> SUFFICES ASSUME db'.versions = << >> PROVE FALSE
        OBVIOUS
      <4>1. DOMAIN db'.versions = {}
        OBVIOUS
      <4> QED
        BY <1>7, <4>1
    <3>3. db'.versions[1] = db.versions[1]
      BY <1>6, <3>1
    <3> QED
      BY <1>5, <2>2, <3>2, <3>3 DEF Covered
  <2> QED
    BY <2>1, <2>2
<1>9. InOrder'
  <2> SUFFICES ASSUME NEW m \in DOMAIN db'.versions, NEW n \in DOMAIN db'.versions, m < n
               PROVE  db'.versions[m] < db'.versions[n]
    BY DEF InOrder
  <2>1. m \in DOMAIN db.versions
    BY <1>6
  <2>2. CASE n = last
    BY <1>2, <1>6, <2>1, <2>2
  <2>3. CASE n # last
    <3>1. n \in DOMAIN db.versions
      BY <1>7, <2>3
    <3> QED
      BY <1>1, <1>6, <2>1, <3>1 DEF VersionsInv, InOrder
  <2> QED
    BY <2>2, <2>3
<1>10. ASSUME NEW n \in DOMAIN db'.versions
       PROVE  1..db'.versions[n] \subseteq (db.layout \cup Covered)'
  <2>1. ASSUME NEW m \in DOMAIN db.versions
        PROVE  1..db.versions[m] \subseteq (db.layout \cup Covered)'
    BY <1>1, <1>5, <1>8 DEF VersionsInv
  <2>2. 1..v \subseteq (db.layout \cup Covered)'
    <3>1. CASE v = 1
      <4>1. 1..1 = {1}
        OBVIOUS
      <4> QED
        BY <1>5, <3>1, <4>1
    <3>2. CASE \E m \in DOMAIN db.versions : db.versions[m] = v - 1
      <4>1. 1..v = 1..(v - 1) \cup {v}
        BY <1>3
      <4> QED
        BY <1>5, <2>1, <3>2, <4>1
    <3> QED
      BY <1>2, <3>1, <3>2
  <2> QED
    BY <1>6, <1>7, <2>1, <2>2
<1>11. \A m \in db.layout : (\E n \in DOMAIN db.versions : m <= db.versions[n])
         => \E n \in DOMAIN db'.versions : m <= db'.versions[n]
  BY <1>6, <1>7
<1>12. last \in DOMAIN db'.versions /\ v <= db'.versions[last]
  BY <1>3, <1>6
<1>13. \A m \in db'.layout : m <= db'.made \/ \E n \in DOMAIN db'.versions : m <= db'.versions[n]
  BY <1>1, <1>5, <1>11, <1>12 DEF VersionsInv
<1>14. VersionsInv'
  BY <1>1, <1>2, <1>5, <1>9, <1>10, <1>13 DEF VersionsInv
<1>15. \A q \in Starters : At(q, "done")' => At(q, "done")
  BY <1>4 DEF At
<1>16. Settled => Settled'
  BY <1>5, <1>11, <1>12 DEF Settled
<1>17. \A q \in Starters \ {p} : SetupInv(q)'
  BY <1>1, <1>4, <1>5, <1>8, OthersRely
<1>18. SetupInv(p)'
  <2>1. \A n \in DOMAIN db'.versions : db'.versions[n] < v + 1
    BY <1>2, <1>3, <1>6, <1>7
  <2>2. db'.versions[last] = (v + 1) - 1
    BY <1>3, <1>6
  <2> QED
    BY <1>1, <1>2, <1>4, <1>5, <1>12, <2>1, <2>2 DEF SetupInv, Busy, At
<1> QED
  BY <1>1, <1>5, <1>14, <1>15, <1>16, <1>17, <1>18 DEF DatabaseInv

\* The database keeps its invariant, whoever does what to it.
LEMMA NextDatabase ==
  ASSUME IInv, [Next]_vars
  PROVE  DatabaseInv'
<1>1. TypeOK'
  BY NextType DEF IInv, DatabaseInv, VersionsInv
<1>2. CASE \E p \in Starters : Setup(p)
  <2> PICK p \in Starters : Setup(p)
    BY <1>2
  <2>1. Step(p) /\ SetupStep(p)
    BY <1>1 DEF IInv, Step, Setup
  <2> QED
    BY <2>1, ExistsKeeps, ObjectKeeps, TablesKeep, FirstKeeps, LastKeeps, ApplyKeeps,
       NoneLeftKeeps
       DEF SetupStep
<1>3. CASE ~ \E p \in Starters : Setup(p)
  BY <1>1, <1>3, NextQuiet, QuietDatabase DEF IInv
<1> QED
  BY <1>2, <1>3

LEMMA InitDatabase == Init => DatabaseInv
<1> SUFFICES ASSUME Init PROVE DatabaseInv
  OBVIOUS
<1>1. PICK binary \in Binaries :
        /\ machine.disk = binary
        /\ setup = [p \in Starters |-> IF p = 1 THEN [at |-> "exists", binary |-> binary]
                                       ELSE Outside]
  BY DEF Init
<1>2. binary \in Nat
  BY <1>1, MigrationsAssumption DEF Binaries
<1>3. VersionsInv
  BY <1>1, <1>2 DEF Init, EmptyDatabase, VersionsInv, InOrder
<1>4. ASSUME NEW p \in Starters PROVE setup[p] \in {[at |-> "exists", binary |-> binary], Outside}
  BY <1>1
<1>5. \A p \in Starters : SetupInv(p) /\ ~At(p, "done")
  BY <1>1, <1>2, <1>4 DEF Init, EmptyDatabase, SetupInv, Busy, At, Outside
<1>6. ~db.rows
  BY DEF Init, EmptyDatabase
<1> QED
  BY <1>3, <1>5, <1>6 DEF DatabaseInv

-----------------------------------------------------------------------------
(* The theorems.                                                           *)

LEMMA InitInvariant == Init => IInv
  BY InitType, InitLife, InitDatabase DEF IInv

LEMMA NextInvariant == IInv /\ [Next]_vars => IInv'
  BY NextType, NextLife, NextDatabase DEF IInv, DatabaseInv, VersionsInv

LEMMA Invariant == Spec => []IInv
  BY InitInvariant, NextInvariant, PTL DEF Spec

\* Every variable has a value of its kind: no process serves more requests than
\* it may, and no channel of signals holds more than one.
THEOREM TypeCorrect == Spec => []TypeOK
  BY Invariant, PTL DEF IInv

\* Each migration is recorded once and after those before it (applyMigration), for
\* any number of processes, with any binaries, that start and die at any point of
\* CreateAndMigrateTables.
THEOREM MigrationsAreInOrder == Spec => []MigrationsInOrder
<1>1. IInv => MigrationsInOrder
  <2> SUFFICES ASSUME IInv, NEW n \in DOMAIN db.versions, n > 1
               PROVE  db.versions[n - 1] < db.versions[n]
    BY DEF MigrationsInOrder
  <2>1. Len(db.versions) \in Nat /\ DOMAIN db.versions = 1..Len(db.versions)
    BY VersionsType DEF IInv, TypeOK
  <2>2. n - 1 \in DOMAIN db.versions /\ n - 1 < n
    BY <2>1
  <2> QED
    BY <2>2 DEF IInv, DatabaseInv, VersionsInv, InOrder
<1> QED
  BY <1>1, Invariant, PTL

\* Who is through with CreateAndMigrateTables has the layout its binary was written
\* for, except for what the first recorded version covers (InsertFirstMigration
\* records the time of day).
THEOREM LayoutFits == Spec => []SchemaFits
<1>1. IInv => SchemaFits
  BY DEF IInv, DatabaseInv, SetupInv, SchemaFits
<1> QED
  BY <1>1, Invariant, PTL

\* Upgrades are without downtime: whatever upgrades, failures to start, timeouts and
\* new binaries there are, one process accepts connections until somebody ends the
\* program or the process that serves crashes.
THEOREM ServiceContinues == Spec => []ServiceIsContinuous
<1>1. IInv => ServiceIsContinuous
  BY DEF IInv, LifeInv, Serving, ServiceIsContinuous, Accepting, Stage
<1> QED
  BY <1>1, Invariant, PTL

\* Rows are never migrated a second time: a record is only appended for a migration
\* the layout has while there are no rows.
THEOREM NoRowsMigratedTwice == Spec => MigratedOnce
<1>1. ASSUME IInv, [Next]_vars, NEW n \in DOMAIN db'.versions \ DOMAIN db.versions,
             db'.versions[n] \in db.layout, db.rows
      PROVE  FALSE
  <2>0. db \in Databases /\ MigrationsTypeOK
    BY <1>1 DEF IInv, TypeOK, MigrationsTypeOK
  <2>1. Settled
    BY <1>1 DEF IInv, DatabaseInv
  <2>2. db'.versions # db.versions
    BY <1>1
  <2>3. PICK p \in Starters : Setup(p)
    BY <1>1, <2>0, <2>2, NextQuiet DEF IInv, Quiet, Databases
  <2>4. SetupInv(p)
    BY <1>1 DEF IInv, DatabaseInv
  <2>5. CASE InsertFirstMigration(p)
    BY <1>1, <2>4, <2>5 DEF InsertFirstMigration, At, SetupInv
  <2>6. CASE ApplyMigration(p)
    <3> DEFINE v == setup[p].next
    <3>1. v \in Binaries /\ v \in Nat /\ \A m \in DOMAIN db.versions : db.versions[m] \in Nat
      BY <2>0, <2>6, SetupNumbers, VersionsType DEF ApplyMigration, At
    <3>2. db'.versions = Append(db.versions, v)
      BY <2>0, <2>6 DEF ApplyMigration, Databases
    <3>3. db'.versions[n] = v
      <4> HIDE DEF v
      <4>1. n = Len(db.versions) + 1
        BY <1>1, <2>0, <3>1, <3>2, VersionsType
      <4> QED
        BY <2>0, <3>1, <3>2, <4>1, VersionsType
    <3>4. PICK m \in DOMAIN db.versions : v <= db.versions[m]
      BY <1>1, <2>1, <3>3 DEF Settled
    <3>5. db.versions[m] < v
      BY <2>4, <2>6 DEF ApplyMigration, At, SetupInv
    <3> QED
      BY <3>1, <3>4, <3>5
  <2>7. CASE ~InsertFirstMigration(p) /\ ~ApplyMigration(p)
    BY <2>0, <2>2, <2>3, <2>7
       DEF Setup, SetupStep, MigrationsTableExists, CreateObjectTable, CreateLogTable,
           CreateMigrationsTable, ReadLastVersion, NoMigrationLeft, Databases
  <2> QED
    BY <2>5, <2>6, <2>7
<1>2. IInv /\ [Next]_vars =>
        [\A n \in DOMAIN db'.versions \ DOMAIN db.versions :
           db'.versions[n] \in db.layout => ~db.rows]_db
  BY <1>1
<1> QED
  BY <1>2, Invariant, PTL DEF Spec, MigratedOnce

\* A process that serves, is not the child of an upgrade and meets no end of the
\* program and no crash goes on or finishes its requests: it is not gone.
LEMMA Spared ==
  ASSUME IInv, [Next]_vars, NEW g \in Starters, proc[g].stage = "ready",
         \A p \in Starters : proc[p].child # g,
         ~history'.ended, ~(history'.crashes > history.crashes)
  PROVE  proc'[g].stage # "gone"
<1>0. /\ proc \in [Starters -> Procs] /\ TypeOK /\ LifeInv /\ InitInv
      /\ history \in [signals: 0..MaxSignals, crashes: 0..MaxCrashes,
                      up: BOOLEAN, ended: BOOLEAN]
  BY DEF IInv, TypeOK, Procs, LifeInv
<1>1. ASSUME NEW gs, NEW others, Die(gs, others), g \notin gs, others[g].stage # "gone"
      PROVE  proc'[g].stage # "gone"
  BY <1>1 DEF Die
<1>2. ASSUME NEW p, NEW s, Deliver(p, s) PROVE proc'[g].stage # "gone"
  BY <1>0, <1>1, <1>2 DEF Deliver, Stage, Procs
<1>3. ASSUME NEW p \in Starters, NEW bySignal \in BOOLEAN,
             NEW others \in [Starters -> Procs], others[g].stage = "ready",
             Upgrade(p, bySignal, others)
      PROVE  proc'[g].stage # "gone"
  <2>1. CASE ~CanUpgrade(p)
    BY <1>3, <2>1 DEF Upgrade
  <2>2. CASE CanUpgrade(p)
    <3>1. PICK c \in Starters :
            /\ proc[c].stage = "none" /\ proc'[p].stage = others[p].stage
            /\ \A h \in Starters \ {c, p} : proc'[h] = others[h]
      BY <1>0, <1>3, <2>2, UpgradeBegins
    <3> QED
      BY <1>3, <3>1
  <2> QED
    BY <2>1, <2>2
<1>4. ~Boot
  BY DEF Boot, Alive, Stage
<1>5. ~history.ended
  BY <1>0, <1>4 DEF Next, InitStep, Main, Upgrader, vars, Send, Forward, TakeDone, EndInit, Kill,
     Deploy, Setup, Listen, Ready, Shutdown, StartFails, HandleSignal, NightlyRestart,
     ChildExited, UpgradeTimeout, Upgraded, Stop, Accept, Answer, Crash
<1>6. CASE Send \/ InitStep \/ Kill \/ Deploy \/ UNCHANGED vars
  BY <1>0, <1>2, <1>5, <1>6
     DEF Send, InitStep, Forward, TakeDone, EndInit, Kill, Deploy, InitInv, vars
<1>7. ASSUME NEW p \in Starters, Main(p) \/ StartFails(p) PROVE proc'[g].stage # "gone"
  BY <1>0, <1>1, <1>7 DEF Main, Setup, Listen, Ready, Shutdown, StartFails, Stage, Procs
<1>8. ASSUME NEW p \in Starters, HandleSignal(p) PROVE proc'[g].stage # "gone"
  <2> DEFINE read == [proc EXCEPT ![p].sigs = << >>]
  <2>1. read \in [Starters -> Procs] /\ read[g].stage = "ready"
    <3>1. [proc[p] EXCEPT !.sigs = << >>] \in Procs
      BY <1>0 DEF Procs, Channel
    <3>2. read \in [Starters -> Procs]
      BY <1>0, <3>1
    <3> QED
      BY <1>0, <3>2 DEF Procs
  <2> HIDE DEF read
  <2>2. CASE proc' = [read EXCEPT ![p].stopped = TRUE]
    BY <2>1, <2>2 DEF Procs
  <2>3. CASE Upgrade(p, TRUE, read)
    BY <1>3, <2>1, <2>3
  <2> QED
    BY <1>8, <2>2, <2>3 DEF HandleSignal, read
<1>9. ASSUME NEW p \in Starters, NightlyRestart(p) PROVE proc'[g].stage # "gone"
  BY <1>0, <1>3, <1>9 DEF NightlyRestart
<1>10. ASSUME NEW p \in Starters, Upgrader(p) PROVE proc'[g].stage # "gone"
  <2>1. ASSUME NEW after, after \in {Resumed(p), [Resumed(p) EXCEPT !.stage = "draining"]},
               proc[p].stage = "ready"
        PROVE  [proc EXCEPT ![p] = after][g].stage # "gone"
    <3>1. after.stage # "gone"
      BY <1>0, <2>1 DEF Resumed, Procs
    <3> QED
      BY <1>0, <3>1
  <2> QED
    BY <1>0, <1>1, <1>10, <2>1
       DEF Upgrader, ChildExited, UpgradeTimeout, Upgraded, Stop, Upgrading, Stage
<1>11. ASSUME NEW p \in Starters, Accept(p) \/ Answer(p) PROVE proc'[g].stage # "gone"
  BY <1>0, <1>11 DEF Accept, Answer, Procs
<1>12. ASSUME NEW p \in Starters, Crash(p) PROVE proc'[g].stage # "gone"
  <2>1. history'.crashes = history.crashes + 1 /\ history.crashes \in Nat
    BY <1>0, <1>12, ProcessAssumption DEF Crash
  <2> QED
    BY <2>1
<1> QED
  BY <1>4, <1>6, <1>7, <1>8, <1>9, <1>10, <1>11, <1>12 DEF Next

\* A request is cut off only with a reason: in particular no upgrade, whether it
\* succeeds, fails or times out, does it to the process that serves.
THEOREM NoCutWithoutReason == Spec => CutsHaveReasons
<1>1. ASSUME IInv, [Next]_vars, NEW g \in Starters, Cut(g),
             proc[g].stage \notin {"draining", "listening"},
             \A p \in Starters : proc[p].child # g,
             ~history'.ended, ~(history'.crashes > history.crashes)
      PROVE  FALSE
  <2>1. proc[g].stage \in {"none", "setup", "listening", "ready", "draining", "gone"}
        /\ proc[g].busy > 0 /\ ProcInv(g)
    BY <1>1 DEF IInv, TypeOK, LifeInv, Cut
  <2>2. proc[g].stage = "ready"
    BY <1>1, <2>1 DEF ProcInv, Process
  <2> QED
    BY <1>1, <2>2, Spared DEF Cut
<1>2. IInv /\ [Next]_vars =>
        [\A g \in Starters : Cut(g) =>
           \/ proc[g].stage \in {"draining", "listening"}
           \/ \E p \in Starters : proc[p].child = g
           \/ history'.ended \/ history'.crashes > history.crashes]_vars
  BY <1>1
<1> QED
  BY <1>2, Invariant, PTL DEF Spec, CutsHaveReasons
=============================================================================
