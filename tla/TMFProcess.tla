----------------------------- MODULE TMFProcess -----------------------------
(***************************************************************************)
(* The life of the server's processes: start, upgrade, signals and end.    *)
(* A normal process (runNormalProcess) prepares the database, listens,     *)
(* says that it is ready and serves until tableflip tells it to exit; then *)
(* it finishes the requests it has.  An upgrade, asked for by SIGHUP or    *)
(* every night, starts a child that inherits the listener, and the parent  *)
(* exits when the child is ready.  In a container an init process          *)
(* (runAsInitProcess) starts the first one and relays signals to it.       *)
(*                                                                         *)
(* Processes are numbered as they start.  The library tableflip and the    *)
(* delivery of signals are modelled from how this program uses them.       *)
(* Time is abstracted: whatever a timeout ends may end at any moment.      *)
(***************************************************************************)
EXTENDS TMFMigrations

CONSTANTS
  Modes,       \* how the program may run: "init" (process 1 of a container, or by
               \* flag) or "bare" (no init process)
  MaxSignals,  \* bound: signals sent from outside
  MaxCrashes,  \* bound: processes that panic or are killed
  MaxBusy      \* bound: requests one process serves at a time

ASSUME ProcessAssumption ==
  /\ Modes \subseteq {"init", "bare"}
  /\ IsFiniteSet(Starters) /\ Starters # {} /\ Starters = 1..Cardinality(Starters)
  /\ MaxSignals \in Nat /\ MaxCrashes \in Nat /\ MaxBusy \in Nat

VARIABLES
  proc,     \* proc[g]: process g
  init,     \* the init process
  machine,  \* the mode, the binary on disk, and the process the PID file names
  history   \* what was sent and what crashed, and whether there was service since the boot

vars == <<db, setup, proc, init, machine, history>>

Signals == {"TERM", "HUP"}      \* SIGINT is treated as SIGTERM
NoProcess == 0

\* A process: the signal channel, requests in progress, whether Stop was called,
\* the child of the upgrade in progress and whether the signal goroutine waits for
\* it, and the process it was started by.
Process(stage, parent) ==
  [stage |-> stage, sigs |-> << >>, busy |-> 0, stopped |-> FALSE,
   child |-> NoProcess, waits |-> FALSE, parent |-> parent]
Gone == Process("gone", NoProcess)
Channel == {<< >>} \cup {<<s>> : s \in Signals}

TypeOK ==
  /\ MigrationsTypeOK
  /\ proc \in [Starters -> [stage: {"none", "setup", "listening", "ready", "draining", "gone"},
                            sigs: Channel, busy: 0..MaxBusy, stopped: BOOLEAN,
                            child: Starters \cup {NoProcess}, waits: BOOLEAN,
                            parent: Starters \cup {NoProcess}]]
  /\ init \in [main: {"absent", "waiting", "reaping", "gone"}, child: Starters,
               sigs: Channel, blocked: BOOLEAN, done: BOOLEAN, killer: BOOLEAN]
  /\ machine \in [mode: Modes, disk: Binaries, pidfile: Starters \cup {NoProcess}]
  /\ history \in [signals: 0..MaxSignals, crashes: 0..MaxCrashes, up: BOOLEAN, ended: BOOLEAN]

InitProcess(mode, child) ==
  [main |-> IF mode = "bare" THEN "absent" ELSE "waiting", child |-> child,
   sigs |-> << >>, blocked |-> FALSE, done |-> FALSE, killer |-> FALSE]

Init ==
  /\ \E mode \in Modes, binary \in Binaries :
       /\ machine = [mode |-> mode, disk |-> binary, pidfile |-> NoProcess]
       /\ init = InitProcess(mode, 1)
       /\ setup = [p \in Starters |-> IF p = 1 THEN [at |-> "exists", binary |-> binary]
                                      ELSE Outside]
  /\ db = EmptyDatabase
  /\ proc = [p \in Starters |-> Process(IF p = 1 THEN "setup" ELSE "none", NoProcess)]
  /\ history = [signals |-> 0, crashes |-> 0, up |-> FALSE, ended |-> FALSE]

Stage(g, stages) == g \in Starters /\ proc[g].stage \in stages
Alive(g) == Stage(g, {"setup", "listening", "ready", "draining"})
Accepting(g) == Stage(g, {"listening", "ready"})

\* The processes gs end: what they were doing to the database is rolled back.
Die(gs, others) ==
  /\ proc' = [g \in Starters |-> IF g \in gs THEN Gone ELSE others[g]]
  /\ setup' = [g \in Starters |-> IF g \in gs THEN Outside ELSE setup[g]]

-----------------------------------------------------------------------------
(* Signals.                                                                *)

\* Mutant: the channel of signals keeps all of them.
DeliverAll(g, s) ==
  IF Stage(g, {"setup", "listening"}) THEN Die({g}, proc)
  ELSE /\ proc' = IF Stage(g, {"ready", "draining"})
                  THEN [proc EXCEPT ![g].sigs = Append(@, s)] ELSE proc
       /\ setup' = setup

\* A signal reaches process g.  Before signal.Notify it ends the process; later it
\* goes into a channel that holds one and drops what it cannot hold.
Deliver(g, s) ==
  IF Stage(g, {"setup", "listening"}) THEN Die({g}, proc)
  ELSE /\ proc' = IF Stage(g, {"ready", "draining"}) /\ proc[g].sigs = << >>
                  THEN [proc EXCEPT ![g].sigs = <<s>>] ELSE proc
       /\ setup' = setup

\* Somebody sends a signal: to init, or to the process the PID file names, or,
\* before there is one, to the process that was started.
Send ==
  /\ history.signals < MaxSignals
  /\ init.main # "gone"
  /\ \E s \in Signals :
       /\ history' = [history EXCEPT !.signals = @ + 1, !.ended = @ \/ s = "TERM"]
       /\ IF init.main = "absent"
          THEN /\ Deliver(IF machine.pidfile = NoProcess THEN init.child ELSE machine.pidfile, s)
               /\ init' = init
          ELSE /\ init' = [init EXCEPT !.sigs = IF @ = << >> THEN <<s>> ELSE @]
               /\ UNCHANGED <<proc, setup>>
  /\ UNCHANGED <<db, machine>>

\* Mutant: init is not told that it is over, it only kills the child.
ForwardOnly ==
  /\ init.main \in {"waiting", "reaping"} /\ ~init.blocked /\ init.sigs # << >>
  /\ LET s == Head(init.sigs) IN
     /\ Deliver(init.child, s)
     /\ init' = [init EXCEPT !.sigs = << >>, !.killer = s = "TERM"]
  /\ UNCHANGED <<db, machine, history>>

\* The forwarding goroutine of runAsInitProcess: always to the process it started.
\* After SIGTERM it starts the killer and sends on done, which holds one value.
Forward ==
  /\ init.main \in {"waiting", "reaping"} /\ ~init.blocked /\ init.sigs # << >>
  /\ LET s == Head(init.sigs) IN
     /\ Deliver(init.child, s)
     /\ init' = IF s = "HUP" THEN [init EXCEPT !.sigs = << >>]
                ELSE [init EXCEPT !.sigs = << >>, !.killer = TRUE,
                                  !.done = TRUE, !.blocked = init.done]
  /\ UNCHANGED <<db, machine, history>>

\* The goroutine that sleeps for 10 seconds and kills the child.
Kill ==
  /\ init.main \in {"waiting", "reaping"} /\ init.killer
  /\ init' = [init EXCEPT !.killer = FALSE]
  /\ IF Alive(init.child) THEN Die({init.child}, proc) ELSE UNCHANGED <<proc, setup>>
  /\ UNCHANGED <<db, machine, history>>

\* <-done, which may let the forwarder go on with its value.
TakeDone ==
  /\ init.main = "waiting" /\ init.done
  /\ init' = [init EXCEPT !.main = "reaping", !.done = init.blocked, !.blocked = FALSE]
  /\ UNCHANGED <<db, setup, proc, machine, history>>

\* cmd.Process.Wait returns and init exits.  If it is process 1 of a container every
\* other process goes with it.
EndInit ==
  /\ init.main = "reaping" /\ ~Alive(init.child)
  /\ init' = [InitProcess(machine.mode, init.child) EXCEPT !.main = "gone"]
  /\ \/ Die({g \in Starters : Alive(g)}, proc)
     \/ UNCHANGED <<proc, setup>>
  /\ UNCHANGED <<db, machine, history>>

-----------------------------------------------------------------------------
(* The start of a process.                                                 *)

\* NewDBService.
Setup(g) ==
  /\ Stage(g, {"setup"}) /\ SetupStep(g)
  /\ UNCHANGED <<proc, init, machine, history>>

\* The listener, inherited or new, and the goroutine that serves it.
Listen(g) ==
  /\ Stage(g, {"setup"}) /\ At(g, "done")
  /\ proc' = [proc EXCEPT ![g].stage = "listening"]
  /\ UNCHANGED <<db, setup, init, machine, history>>

\* upg.Ready writes the PID file and tells the parent, and panics when there is no
\* parent left to tell.
Ready(g) ==
  /\ Stage(g, {"listening"})
  /\ machine' = [machine EXCEPT !.pidfile = g]
  /\ IF Stage(proc[g].parent, {"gone"})
     THEN Die({g}, proc) /\ history' = history
     ELSE /\ proc' = [proc EXCEPT ![g].stage = "ready"] /\ setup' = setup
          /\ history' = [history EXCEPT !.up = TRUE]
  /\ UNCHANGED <<db, init>>

\* A database that is busy, a policy file that does not compile, a port in use.
StartFails(g) ==
  /\ Stage(g, {"setup", "listening"})
  /\ Die({g}, proc)
  /\ UNCHANGED <<db, init, machine, history>>

-----------------------------------------------------------------------------
(* Upgrades: tableflip's Upgrader as this program uses it.                 *)

CanUpgrade(g) ==
  /\ Stage(g, {"ready"}) /\ ~proc[g].stopped
  /\ proc[g].child = NoProcess            \* no upgrade is in progress
  /\ ~Alive(proc[g].parent)               \* the parent has exited
  /\ \E c \in Starters : proc[c].stage = "none"   \* a child can be started

\* Upgrade starts the child, with the binary that is on disk now, or returns an
\* error.  The signal goroutine waits until the upgrade is over.
Upgrade(g, bySignal, others) ==
  IF ~CanUpgrade(g) THEN proc' = others /\ setup' = setup
  ELSE LET c == CHOOSE n \in Starters : /\ proc[n].stage = "none"
                                        /\ \A m \in 1..(n - 1) : proc[m].stage # "none"
       IN /\ proc' = [others EXCEPT ![c] = Process("setup", g),
                                    ![g].child = c, ![g].waits = bySignal]
          /\ BeginSetup(c, machine.disk)

\* The signal goroutine.
HandleSignal(g) ==
  /\ Stage(g, {"ready", "draining"}) /\ ~proc[g].waits /\ proc[g].sigs # << >>
  /\ LET read == [proc EXCEPT ![g].sigs = << >>] IN
     IF Head(proc[g].sigs) = "HUP" THEN Upgrade(g, TRUE, read)
     ELSE proc' = [read EXCEPT ![g].stopped = TRUE] /\ setup' = setup
  /\ UNCHANGED <<db, init, machine, history>>

\* ScheduleMaintenance, at three o'clock.
NightlyRestart(g) ==
  /\ Stage(g, {"ready"}) /\ CanUpgrade(g)
  /\ Upgrade(g, FALSE, proc)
  /\ UNCHANGED <<db, init, machine, history>>

Upgrading(g) == Stage(g, {"ready"}) /\ proc[g].child # NoProcess
Resumed(g) == [proc[g] EXCEPT !.child = NoProcess, !.waits = FALSE]

\* Mutant: after an upgrade, failed or not, the signal goroutine calls Stop.
ChildExitedStops(g) ==
  /\ Upgrading(g) /\ Stage(proc[g].child, {"gone"})
  /\ proc' = [proc EXCEPT ![g] = [Resumed(g) EXCEPT !.stopped = @ \/ proc[g].waits]]
  /\ UNCHANGED <<db, setup, init, machine, history>>

\* The child exited before it was ready: Upgrade returns an error.
ChildExited(g) ==
  /\ Upgrading(g) /\ Stage(proc[g].child, {"gone"})
  /\ proc' = [proc EXCEPT ![g] = Resumed(g)]
  /\ UNCHANGED <<db, setup, init, machine, history>>

\* After a minute the child is killed, also when it has become ready just now.
UpgradeTimeout(g) ==
  /\ Upgrading(g) /\ Alive(proc[g].child)
  /\ Die({proc[g].child}, [proc EXCEPT ![g] = Resumed(g)])
  /\ UNCHANGED <<db, init, machine, history>>

\* Mutant: the process ends when the child is ready, without a shutdown of its
\* web server.
UpgradedAndGone(g) ==
  /\ Upgrading(g) /\ Stage(proc[g].child, {"ready"})
  /\ Die({g}, proc)
  /\ UNCHANGED <<db, init, machine, history>>

\* The child is ready: Exit is closed, and the web server shuts down.
Upgraded(g) ==
  /\ Upgrading(g) /\ Stage(proc[g].child, {"ready"})
  /\ proc' = [proc EXCEPT ![g] = [Resumed(g) EXCEPT !.stage = "draining"]]
  /\ UNCHANGED <<db, setup, init, machine, history>>

\* Stop closes Exit too, and kills the child of an upgrade in progress.
Stop(g) ==
  /\ Stage(g, {"ready"}) /\ proc[g].stopped
  /\ Die({proc[g].child}, [proc EXCEPT ![g] = [Resumed(g) EXCEPT !.stage = "draining"]])
  /\ UNCHANGED <<db, init, machine, history>>

-----------------------------------------------------------------------------
(* Requests and the end.                                                   *)

Accept(g) ==
  /\ Accepting(g) /\ proc[g].busy < MaxBusy
  /\ proc' = [proc EXCEPT ![g].busy = @ + 1]
  /\ UNCHANGED <<db, setup, init, machine, history>>

\* A request is answered, and may have written rows.
Answer(g) ==
  /\ Alive(g) /\ proc[g].busy > 0
  /\ proc' = [proc EXCEPT ![g].busy = @ - 1]
  /\ \E rows \in {db.rows, TRUE} : db' = [db EXCEPT !.rows = rows]
  /\ UNCHANGED <<setup, init, machine, history>>

\* ShutdownWithTimeout returns when the last request is answered or after 30
\* seconds; the deferred functions close the database, and the process ends.
Shutdown(g) ==
  /\ Stage(g, {"draining"})
  /\ Die({g}, proc)
  /\ UNCHANGED <<db, init, machine, history>>

\* A goroutine panics outside of any recover, or somebody kills the process.
Crash(g) ==
  /\ Alive(g) /\ history.crashes < MaxCrashes
  /\ Die({g}, proc)
  /\ history' = [history EXCEPT !.crashes = @ + 1, !.ended = @ \/ Stage(g, {"ready"})]
  /\ UNCHANGED <<db, init, machine>>

\* A new binary is installed.
Deploy ==
  /\ machine.disk < LastMigration
  /\ machine' = [machine EXCEPT !.disk = @ + 1]
  /\ UNCHANGED <<db, setup, proc, init, history>>

\* When nothing runs any more somebody starts the program again, and ends an init
\* process first that nobody has told to end.
Boot ==
  /\ \A g \in Starters : ~Alive(g)
  /\ init.main = "waiting" => init.sigs = << >> /\ ~init.done
  /\ init.main # "reaping"
  /\ \E g \in Starters :
       /\ proc[g].stage = "none" /\ \A m \in 1..(g - 1) : proc[m].stage # "none"
       /\ proc' = [proc EXCEPT ![g] = Process("setup", NoProcess)]
       /\ BeginSetup(g, machine.disk)
       /\ init' = InitProcess(machine.mode, g)
  /\ machine' = [machine EXCEPT !.pidfile = NoProcess]
  /\ history' = [history EXCEPT !.up = FALSE, !.ended = FALSE]
  /\ db' = db

Main(g) == Setup(g) \/ Listen(g) \/ Ready(g) \/ Shutdown(g)
Upgrader(g) == ChildExited(g) \/ UpgradeTimeout(g) \/ Upgraded(g) \/ Stop(g)
InitStep == Forward \/ TakeDone \/ EndInit

Next ==
  \/ Send \/ InitStep \/ Kill \/ Deploy \/ Boot
  \/ \E g \in Starters :
       \/ Main(g) \/ StartFails(g) \/ HandleSignal(g) \/ NightlyRestart(g)
       \/ Upgrader(g) \/ Accept(g) \/ Answer(g) \/ Crash(g)

Spec == Init /\ [][Next]_vars

\* Goroutines run on and timers go off, as long as one of them can.  Nobody has to
\* send a signal, to accept a connection or to boot the program, and a request may
\* never be answered.  Every such step is progress, so that fairness to all of them
\* together, less than the scheduler gives, is enough.
Progress ==
  InitStep \/ Kill \/ \E g \in Starters : Main(g) \/ Upgrader(g) \/ HandleSignal(g)
FairSpec == Spec /\ WF_vars(Progress)

-----------------------------------------------------------------------------
(* Properties.                                                             *)

\* Zero downtime: from the first process that was ready on there is always one
\* that accepts connections, through upgrades that succeed, fail, hang or are
\* refused, until somebody sends SIGTERM or the process that serves crashes.
ServiceIsContinuous ==
  history.up /\ ~history.ended => \E g \in Starters : Accepting(g)

\* A request is cut off only in a process that was given time to finish it, in one
\* that was not ready yet or whose parent has not taken notice of it, by a crash, or
\* when somebody wanted the program to end.  In particular no upgrade does it to
\* the process that serves.
Cut(g) == proc[g].busy > 0 /\ proc'[g].stage = "gone"
CutsHaveReasons ==
  [][\A g \in Starters : Cut(g) =>
       \/ proc[g].stage \in {"draining", "listening"}
       \/ \E p \in Starters : proc[p].child = g
       \/ history'.ended \/ history'.crashes > history.crashes]_vars

\* A termination signal that reached init's channel ends it, and one that reached
\* a server's channel ends that server, whatever other signals, upgrades and
\* requests keep them from it.
Wanted(sigs) == sigs = <<"TERM">>
TerminationEnds ==
  /\ Wanted(init.sigs) ~> init.main = "gone"
  /\ \A g \in Starters : Wanted(proc[g].sigs) ~> proc[g].stage = "gone"

-----------------------------------------------------------------------------
(* What the documentation says of the program and the program does not do. *)

\* The end is graceful too: init relays the signal "gracefully", so that until its
\* ten seconds are over no process loses the requests it serves, except by a crash.
EndIsGraceful ==
  [][\A g \in Starters : Cut(g) =>
       \/ init.killer => ~init'.killer /\ init'.main # "gone"
       \/ proc[g].stage \in {"draining", "listening"}
       \/ \E p \in Starters : proc[p].child = g
       \/ history'.crashes > history.crashes]_vars
=============================================================================
