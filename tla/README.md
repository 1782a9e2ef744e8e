# tmfgo: a verification project

tmfgo is a server for the TM Forum product APIs. It keeps TMF objects (offerings,
catalogs, orders, organizations, …) in a SQLite database, decides with policies
who may do what to which object, tells subscribers about changes, and, in the
DOME profiles, works as a caching proxy in front of a remote TMF server. This
directory holds TLA+ models of these parts, translated from the Go source, the
TLC configurations that check them and proofs that TLAPS checks. Paths below are
relative to the repository (`src/`).

## 1. The system

| Part | State | Operations | Interacts with |
|---|---|---|---|
| Object store and operation log (`tmfserver/repository/dbservice.go`, `auditlog.go`) | tables `tmf_object` and `tmf_operation_log`, SQLite's write lock | Create-, Update-, Upsert-, DeleteObject (transactions), Get-, ListObjects, GetOperationLogs | called by every handler goroutine and by the refresh |
| Policies (`tmfserver/service/takedecision.go`, `repository/tmfobjectmap.go`) | none | `hardcodedPolicies`, validation | handlers, before the write |
| Handlers (`tmfserver/service/api_*.go`, `helpers.go`, `proxy_support.go`) | only what a request has read | CREATE, READ, LIST, UPDATE, DELETE, hub | store, remote, notifications |
| Remote client and refresh (`client.go`, `retrieve_all.go`) | the row's `updated_at` decides whether it is fresh | round trips, `RetrieveAll` at the start and every 15 minutes | the remote server, shared with other clients |
| Notifications (`tmfserver/notifications`) | subscriptions in memory | subscribe, unsubscribe, publish, deliver (3 attempts) | callbacks of subscribers |
| Policy decision point (`pdp/`) and file cache (`internal/filecache`) | pool of compiled policies, cache entries | `Authorize`, `GetFile`, `GetURL` | a file or URL somebody edits |
| Lists (`api_list.go`, `listLocalObjects`, `listRemoteObjects`, `DBService.ListObjects`) | none between two requests; the offset is the client's | LIST with limit and offset | store or remote, policies |
| Processes (`main.go`, `maintenance.go`, with the library tableflip) | listener, PID file, signal channels of capacity one, the upgrade in progress | start, upgrade by SIGHUP and at three o'clock, relay of signals by init, drain, end | everything; parent and child share the database |
| Migrations (`repository/migration.go`, `migrations/`) | table `migrations`, layout of `tmf_object` | creation of tables, first version, migrations in savepoints | each starting process, before it serves |
| SQLite log handler, credentials, admin pages, generators | | | |

What is hard in it: handlers read, decide and write in separate steps with other
requests in between; the store's calls are transactions that can fail at each
statement or be cut off by a crash; the proxy keeps copies of objects that others
change, over calls whose answers can be lost or come late; deliveries run after
the request that caused them and after an unsubscription; the policy file changes
under a cache and a pool; clients page by offset through collections that change;
processes replace one another, are signalled and die while they serve, drain or
migrate. `PROJECT.json` lists these hazards at their lines.

What makes each part correct:

* store: each call is atomic, and the log explains the table, entry by entry;
* policies: the rights of one action fit those of another (who may write may
  read), strangers have none;
* handlers: every committed change was allowed on a content the object really
  had; nothing removed comes back; events tell of committed changes;
* proxy: the cache invents nothing, loses nothing that still exists, and agrees
  with the remote again when that is left alone;
* notifications: a callback gets what it asked for while it asked for it,
  duplicates have a cause, few failures are masked;
* decision point: a decision is made with the policy that was read, the cache
  never goes back;
* lists: an answer is the window asked for, what a walk misses or repeats has a
  cause;
* processes: there is always one that accepts connections, an upgrade cuts no
  request off, a termination signal ends what it reaches;
* migrations: each is applied in order, once, and the layout fits the binary.

## 2. The modules

| Module | Models | Remarks |
|---|---|---|
| `TMFRecords` | a database `[tab, log]` and what one committed call makes of it | used by the store and by the handlers, so that both mean the same |
| `TMFStoreAbs` | the promise of the store: each call is one step | abstract specification |
| `TMFStore` | the calls as SQLite transactions, statement by statement | implements `TMFStoreAbs` |
| `TMFStoreProofs` | theorems about `TMFStore` | TLAPS |
| `TMFPolicies` | `hardcodedPolicies` and the validation of objects | operators only |
| `TMFService`, `MCService` | CREATE, PATCH, DELETE without proxy; events | uses `TMFPolicies` and `TMFRecords` |
| `TMFServiceProofs` | theorems about `TMFPolicies` and `TMFService` | TLAPS |
| `TMFProxy` | the handlers with the proxy, and `RetrieveAll` | uses `TMFRecords` |
| `TMFProxyProofs` | theorems about `TMFProxy` | TLAPS |
| `TMFHub` | subscriptions, publication, delivery | |
| `TMFHubProofs` | theorems about `TMFHub` | TLAPS |
| `TMFPdp` | `Authorize`, the pool, `GetFile` and `GetURL` with singleflight | |
| `TMFPdpProofs` | theorems about `TMFPdp` | TLAPS |
| `TMFLists` | LIST, local and remote, and a client that walks the pages | |
| `TMFListsProofs` | theorems about `TMFLists` | TLAPS |
| `TMFMigrations` | `CreateAndMigrateTables` as a starting process executes it | actions only, no specification of its own |
| `TMFProcess` | processes, upgrades, signals, init, crashes, reboots | extends `TMFMigrations`, whose steps are the `Setup` of a process |
| `TMFProcessProofs` | theorems about `TMFProcess` and, as its part, `TMFMigrations` | TLAPS |
| `TMFNaturals` | least elements and induction on natural numbers, stated with sets | TLAPS; used by the proofs |

Operators that begin with the words "Mutant:" in their comment are plausible
bugs; no specification uses them. Substituted for the definition after them they
show that a property can fail.

### Store

`pc[c]` is the statement that connection `c` executes next: `begin`, `read`
(`getObjectWithTx`), `write` (the INSERT, UPDATE or DELETE), `record`
(`recordOperation`), `commit`. `lock` is SQLite's write lock, taken by BEGIN
because of `_txlock=immediate`. Uncommitted effects are in `pend`. `Fail` is an
error of any statement with its deferred rollback, `BeginBusy` the busy timeout,
`Crash` the end of the process. Contents are opaque, the key `(id, type)` is one
value and the four party columns are one value. Whether UpsertObject finds the
stored text identical is a choice when the contents are equal (equal JSON can be
spelled in two ways) and impossible when they differ.

### Policies and handlers

An organization is one value whatever its spelling (`SameOrganizations`). An object
is its type, its four parties, whether it is launched, and the organization it is
or belongs to; each of the six types stands for the resources the code treats
alike. A handler is two or three steps: read and decide (`UpdateRead`,
`DeleteRead`), write (`UpdateWrite`, `DeleteWrite`), publish. CREATE has one
database call and is one step with it. A request that is refused before it
changes anything is not a step. `LocalId` is the replacement of the plain URN of an
organization by the one with `did:elsi:` under which POST stores it; in ISBE
profiles all reads and PATCH do it, and the deletion does not. A patch mentions
parties or the launch or neither, and no other attribute. The policies a user
writes in Starlark are asked after the hardcoded ones and can only refuse
(`checkAuthorization`); a refused request changes nothing, so the model, which
leaves them out, has every behaviour they leave possible.

### Proxy

`remote` is the remote server, which also serves others (`Other`) and never uses
an id twice; `had` remembers what it has had. A row is `fresh` or `stale` (`Age` is
the passing of `ClonePeriod`). Each handler is a sequence of look, ask, store, and
then patch or delete with the write of the answer into the table. `Fail` is a call
without effect (an object that the table does not take is used by the handler all the
same, and passed over by a list), `AnswerLost` one that had an effect the server does not learn of,
`Restart` the end of the process. The decision of the policies is arbitrary here,
and so is what a POST or PATCH leads to: properties that hold, hold for all of them.
`RetrieveAll` is the process `Refresher`: pages, upserts, then the deletion of
invalid objects from the remote.

### Notification hub

`life` remembers when a subscription was there, `received` is the bag of
accepted posts. One task is one goroutine in `Deliver`. Waiting times are not
modelled: every order of attempts and other steps is possible.

### Policy decision point

A hash is the content it is computed from, a compiled policy the content it was
compiled from. `Broken` does not compile, `Lacking` compiles and defines no
`authorize`. `Load` .. `StoreEntry` are the steps of `GetFile` and `GetURL`, with
`flight` the leader of the singleflight group; they differ in `Stat`, `ReadFile`,
`ReadFails` on one side and `Fetch`, `FetchFails` on the other. The number `mtime` is
the modification time or the ETag. The profiles that come with the program name
a file; a URL is what the cache offers for the same setting. `Collect` is sync.Pool
forgetting an entry.

### Lists

An object is its id and whether the caller may see it: validity, the filters of
the query and the policies together. One turn of a loop is `Take`; `Loop`, a
recursive function, takes it over all rows of one SELECT (`ListLocal`, one step,
since SQLite reads one snapshot) or over one page of the remote server after the
other (`ListRemotePage`), with changes in between. The remote loop saves each valid
object in the local table before it goes on; when `UpsertObject` fails
(`proxy_support.go:267-272`) it passes over the object, which then counts neither for
the offset nor for the limit, and the answer is 200 all the same. `list.unsaved` are
the objects a LIST lacks for that reason, `history.unsaved` counts them over the walk.
The walking client asks for `limit` objects, adds what it got to its offset
and stops at a short page; other requests, with negative limits and offsets too,
come in between. A negative limit is one object when the answer is local (the
loop tests the limit after it has appended) and no limit when it is remote.

The query parameter `diagnostic` is left out. With it the remote loop adds invalid
objects to its answer (`proxy_support.go:236-242`), where they count towards the
limit, but then there are diagnostics, and `ListTMFObjects` sends these instead of the
objects: what the client gets is not a page.

### Migrations

A binary is the number of migrations it has; the layout of `tmf_object` is the set
of those it has incorporated. Creating the tables takes five statements that commit
one by one; a migration and its record are one step because they share a
savepoint, which a dying process loses. The steps of a process use one connection
after the other in sequence, so that the pool gives them the same one.

### Processes

Processes have the numbers 1, 2, 3 in the order of their start. `proc[g].stage` goes
from `setup` (the database, the policies) over `listening` (requests are accepted,
signals still kill) and `ready` to `draining` and `gone`. `sigs` is a channel of one
signal that drops the next one. `child` and `waits` are the upgrade in progress and
the signal goroutine in `upg.Upgrade()`. What tableflip does is modelled from how
`main.go` uses it. A timeout is a step that may come at any time: `UpgradeTimeout`,
`Kill` (ten seconds after a termination), `Shutdown` (thirty seconds of drain). `Boot`
is a new start when nothing is left, with whatever binary is installed by then.

## 3. The runs

| Run | Instance and bounds | Shows |
|---|---|---|
| `store` | 2 connections, 2 keys, 2 contents, bounded log | the log explains the table and is unbroken per key, columns are final, the calls are atomic (refinement), the lock is released |
| `service` | ISBE; operator, seller, buyer; 2 workers, 4 writing requests; symmetry over the workers | sellers stay known, changes were allowed, launches were approved, events are backed, no resurrection |
| `service_dome` | DOME; orders, service catalogs, categories, individuals; 3 requests | sellers and permissions where the rules differ, and every announced deletion happened |
| `service_isbe` | as `service`, 3 requests | *violated*: a DELETE by the plain URN deletes nothing and is announced |
| `service_launch` | as `service` | *violated*: a lost update launches an offering again |
| `proxy` | 2 ids, 2 workers and the refresh, 2 requests, 1 foreign change, 1 fault | nothing invented, dropped only if gone, only what was invalid is purged, convergence |
| `hub` | 2 subscriptions, 2 families, 2 types, 2 lists of types, 2 events, 3 failures, 1 restart | only what was asked for, duplicates explained, failures masked |
| `pdp` | file and URL, 2 goroutines, 3 edits, 3 pool entries, contents do not come back | edits are noticed, the cache goes forward, decisions by the policy read from a file |
| `pdp_revert` | a content may come back | *violated*: the pool decides with an outdated policy |
| `lists` | local and remote, up to 4 objects, limits up to 2, offsets up to 1, and -1, remote pages of 2, 2 changes, 1 object not saved | a quiet answer is the window, misses and repeats are explained |
| `process` | with and without init, 3 processes, 2 binaries (without and with a migration), 2 signals, 1 crash, 1 request per process | continuous service, no request cut by an upgrade, termination, migrations in order and once, the layout fits |
| `process_relay` | init, 2 processes, 1 signal, no crash | *violated*: after an upgrade SIGTERM cuts off the process that serves |

Why the bounds are enough to be of interest: the races of the handlers and of the
store are between two actors on one key, and a third key, worker or connection adds no new
kind of step; a lost update needs three or four requests (create, launch,
withdraw, and the late patch), which is why `service` has four; three failures
are the three attempts of `Deliver`; an outdated cache entry needs two
edits, and a third one lets a hidden edit be followed by another; a walk over
four objects in pages of one or two has a beginning, a middle and an end, and two
changes can hit both sides of its offset, with one object that is not saved between
them; three processes are two upgrades in a
row, or an upgrade that fails and one that succeeds, or a reboot after an
upgrade; two signals are SIGHUP and SIGTERM in each order and two SIGTERM. The
bounds are guards (`MaxLog`, `MaxRequests`, `MaxOthers`, `MaxFaults`, `MaxEvents`,
`MaxFailures`, `MaxRestarts`, `MaxEdits`, `MaxThreads`, `MaxRows`, `MaxChanges`, `MaxUnsaved`,
`Starters`, `LastMigration`, `MaxSignals`, `MaxCrashes`, `MaxBusy`). Where such a bound ends a
behaviour the cfg says `CHECK_DEADLOCK FALSE`; in `proxy` deadlock is checked,
since the refresh goes on for ever.

Fairness. `TMFStore`: a method that was entered runs on (its goroutine is
scheduled and Begin gives up after the busy timeout), nothing forces calls to be
made, to fail or to crash. `TMFProxy`: handlers and the refresh run on, and time
passes (`Age`); no client has to come and nobody has to change the remote. Since
faults and foreign changes are bounded, convergence says: once they cease.
`TMFHub`: a goroutine in `Deliver` runs on, because a post ends after 5 seconds at
the latest; whether it succeeds is open. `TMFProcess`: a process executes its
statements, its signal goroutine and tableflip's run on, and timers go off (a
start, an upgrade and a drain come to an end, the killer of init wakes up); it is
enough that one such step happens whenever one can, which is less than each
process and goroutine gets. No signal has to be sent, no request has to arrive or
be answered, and nothing has to crash or be booted. `TMFLists` and `TMFPdp` have
safety properties only.

### What the violations say

* `DeletionsHappened` in `service_isbe`: DELETE reads an organization under the
  completed URN and removes the row of the URN as it came. With the plain URN it
  removes nothing, answers 204 and announces the deletion. In `service_dome`, where
  URNs are taken as they come, the property holds, also for a DELETE that finds its
  row already removed.
* `LaunchOnlyByAdminSteps`: PATCH writes back the whole object it has read. A
  seller's patch of anything, read while the offering was launched, launches it
  again after the operator withdrew it. `LaunchWasApproved`, which holds, is the
  weaker fact that the operator has launched it at some time.
* `DecidesByPolicyRead` in `pdp_revert`: `reset` never stores the hash of what it
  compiled. In `pdp`, where contents do not come back, the property holds for a
  file (`FileDecidesByPolicyRead`). For a URL it would not, even there: a failed fetch
  hands out the entry that was loaded before, which brings a content back.
* `EndIsGraceful`: `runAsInitProcess` keeps relaying signals to the process it
  started, although an upgrade replaces that one by its child. SIGTERM then reaches
  nobody, the `Wait` on a process that is gone returns, and in a container the end of
  init is the end of the process that serves. `TerminationEnds`, which holds, says
  that the end comes; it does not say how.

Also seen while modelling, and listed as hazards: a POST can store what no GET can
read; `RetrieveAll` may delete from the remote an object that was repaired since its
page was read; a row whose object is gone from the remote stays in the cache; a
migration older than the first version of a database is skipped for ever
(`Covered`).

### What disagrees with the comments

Two properties that hold say what the code does where one of its comments says
something else. No run asks for what the comments say, and the properties do not
catch what is wrong if the comments are right.

* `ColumnsAreFinal`. The comment of the table (`dbservice.go:24`) promises that seller,
  buyer and their operators are columns "always in sync with the contents of the JSON
  object"; the comment in `UpdateObject` (`:333`) says that they cannot be changed, and
  the UPDATE (`:336-342`) leaves them out while it replaces the content. Both can be
  true only as long as no PATCH changes `relatedParty`, and even a PATCH without one
  does: `verifyObjectOnUpdate` (`helpers.go:340`) fills in the caller as the seller. When
  the operator patches a seller's offering, the content names the operator as its seller
  from then on and the column still the one who created it. The property is the
  comment at `:333`.
* `AnswerIsAWindow`. "-1 is equivalent to no values provided" (`dbservice.go:589`), but
  `ListObjects` compares with the limit after it has added an object (`:570-573`), and
  limit=-1 gets one. The remote loop has a test for it (`proxy_support.go:306`), and
  the same request gets all objects there. The property has both cases.

## 4. The proofs

`TMFStoreProofs` proves, for all sets of connections, keys, contents and callers
and without any bound but `MaxLog \in Nat`:

* `TypeCorrect`, `LogExplains`, `LogIsUnbroken`, `LogActions`: the invariants of the
  run `store`;
* `ColumnsFinal`: its action property;
* `StoreImplementsAbs`: `Spec => Abs!AbsSpec`.

The argument: none of them is inductive, because a commit writes what the
transaction has read and computed before. The strengthening is `TxInv`: whoever is
inside a transaction holds the lock (so there is at most one), the row it has read
is still the committed one, and what it is going to commit is what the abstract
call makes of that row; outside a transaction nothing is pending. `LogInv` adds the
three facts about the log. `IInv` is their conjunction with `TypeOK`. Each action
has its own step; only `Commit` changes the tables, and there the abstract call is
named. The refinement maps each `Commit` of a change to the call's abstract step and
everything else to a stutter. The assumptions are those `TMFRecords` and `TMFStore`
name: the values for "no row", "no content", "no call" and "nobody" are not
values of the other kind.

`TMFServiceProofs` begins with facts about the policies for every set of organizations:
who may change or remove an object may read it, who may remove it may change it,
strangers can do neither, others than the operator write only objects that are at
home here, and what the anonymous can see. They are consequences of five functions
that were written separately.

It then proves, for all organizations, callers, objects, patches and
profiles, for any number of workers and any `MaxRequests`:

* `TypeCorrect`, `SellersKnown`, `ChangesAllowed`, `LaunchesApproved`,
  `EventsBacked`: the invariants of the runs `service*`;
* `DeletionsBacked`: `DeletionsHappened`, under the assumption `~IsISBE`; the run
  `service_isbe` shows why the assumption is needed;
* `NeverResurrected`: the action property `NoResurrection`;
* `HandlersKeepToStore`: `Spec => Store!AbsSpec`, that is, what the handlers do to the
  database is what `TMFStoreAbs` allows. With `StoreImplementsAbs` it says that the
  atomic calls of `TMFService` are those that the transactions of `TMFStore` bring
  about. No run checks it: `AbsNext` ranges over all rows, too many for TLC with
  the objects of this module.

The argument: PATCH and DELETE read, decide and write in separate steps, and
between them other workers change the same row, so the state decided on is not the
state written to. What remains true is in the operation log, which only grows.
`IInv` is `TypeOK` with three parts. `RowInv`: a row has the type of its key and
its seller, the log holds its content and, when it needs approval, its launch; a
key that lost its row has a DELETE in the log. `JobInv`: what a worker carries was
allowed to its caller on a content the log holds, the merged object has its seller
and, if it is launched, either its caller is the operator or the log holds an
earlier launch; an event about to be published is backed by the log. `HistoryInv`:
the entries and the published events are allowed and backed. `Persistence` says
that what the log has said it goes on saying; `JobsKept` and `EventsKept` follow,
and with them each handler's effect is stated once (`CreateEffect`,
`UpdateWriteEffect` and so on) and shown to keep the invariant. The assumptions are
those of `TMFPolicies` (about the operator and `IsDOME`) and `TMFService`
(`InputAssumption`, and `ServiceSentinels`: "no content" and "no row" are
neither objects nor rows).

`TMFProxyProofs` proves, for any finite set of ids and any contents, workers, page
size, profile and bounds: `TypeCorrect`, `CacheIsFromRemote` (`NothingInvented`),
`DropsAreSafe` (`DroppedOnlyIfGone`) and `PurgesHaveCause` (`PurgedWereInvalid`). A
handler acts on an answer the remote gave some steps ago, so nothing can be said of
what a process carries and what the remote has now; it can of what the remote has
had. `JobInv`: a content on its way to the table, and every object of a page, is in
`had`; the ids a purge remembers were invalid once; and what is about to be
forgotten is gone from the remote and its id is used, so that it stays gone.
`Grows` says that `had` only grows and that what is gone is gone for good: it is
what each step does to the remote, and `JobStays` that a process which does not move
keeps its `JobInv` through such a step. The remote's list is a recursive function
over the ids; that it is a sequence of what the remote holds is shown by induction
over a set (`TMFNaturals`). Assumed are `ProxyAssumption` (ids are finite, the
refresh is no worker, pages are not empty) and `ProxySentinels` ("no content" and
"no row" are neither).

`TMFHubProofs` proves, for any number of subscriptions, events, failures and
restarts: `TypeCorrect`, `NothingUnasked` (`OnlyWhatWasAskedFor`) and `CopiesAreFew`
(`DuplicatesAreExplained`). `StoreInv` connects the store with the history of each id;
`TasksInv` says that there is one goroutine for a subscription and an event, and
that before its attempt k the event has arrived at most k times, not at all unless
an answer was lost; `ReceivedInv` says the same of what has arrived when the
goroutine is over. Without the count per attempt three copies could not be bounded.
The assumptions are `HubInput` and `HubBounds`.

`TMFPdpProofs` proves, for any number of goroutines, edits and pool entries:
`TypeCorrect`, `StaleNoticed` (`StaleIsNoticed`), `GoesForward` (`CacheGoesForward`) and,
under the assumption `~Reverts`, `FileDecides` (`FileDecidesByPolicyRead`); the run
`pdp_revert` shows why that one needs the assumption. `CacheInv` says that entries,
cached or held by a goroutine, are truthful (not newer than the policies, and the
same as them unless older) and that what a goroutine is going to store is not older than what is
cached, which singleflight brings about. `FileInv` is what the last theorem needs: a
pooled thread may hold a function that does not fit its hash, but only if the hash
is of a content that is over, that is, no longer cached and never to come back; the
comparison with the hash then always fails, and the policy is compiled again.
Assumed are `PdpAssumption` and `PdpSentinel`.

`TMFProcessProofs` proves, for any number of processes, binaries, migrations,
signals and crashes, with and without init: `TypeCorrect`, `ServiceContinues`
(`ServiceIsContinuous`), `NoCutWithoutReason` (`CutsHaveReasons`), `MigrationsAreInOrder`,
`LayoutFits` (`SchemaFits`) and `NoRowsMigratedTwice` (`MigratedOnce`). `LifeInv` has a
part for each process (what its stage says of its child, its parent and its
signals), `OneAtATime` (of two processes that are alive and not draining one is the
child the other waits for, so that at most two are, and only one migrates),
`InitInv` (whatever lets init end the program was caused by a signal) and `Serving`
(a process that is ready exists while the program is up and nobody has ended it).
`DatabaseInv` says of the migrations what holds between any two statements: how far
the process in its setup has come, and that the tables are `Settled` before there
are rows. `MigratedOnce` rests on that last part: only a table without rows can lack
the record of a migration it already has. Assumed is `ProcessAssumption`: at least
one process, numbered from 1.

`TMFListsProofs` proves, for collections, limits, offsets and pages of any size and any
number of changes: `TypeCorrect`, `AnswersAreWindows` (`AnswerIsAWindow`), `MissesHaveCause`
(`MissesAreExplained`) and `RepeatsHaveCause` (`RepeatsAreExplained`), the invariants of the
run `lists`, with any number of objects that are not saved. The invariant says of a LIST how far it is. `QuietInv`, while nobody
changes anything: after q rows the result is the slice of the visible objects from
the offset to the rank of q, where the rank of a place is the number of visible
objects up to it; visible are those of `Without(list.unsaved)`, the collection as this
LIST could see it. `WalkInv` and `FitsIn`, for the client that walks: an object that
was there all the time is *missing* when it lies before the place where the loop is,
or will be skipped, and the client has not got it; an object is *coming* when it will
be returned and the client has it already. Neither bound is inductive alone: a
removal before the place costs nothing now and lets the loop skip one object too
many later. So each is stated twice, alone and with the difference between what the
loop has counted and the rank of its place, and this difference is charged to the
same account: missing objects, and counted objects that have gone, to the removals
and hidings; repetitions, and visible objects that were not counted, to what became
visible or came back. An object that is not saved is charged to both, at once in the
LIST that lacks it (`u` in `Fits`) and, when its answer has arrived, in the walk
(`Losses`, `Bound`). Each kind of change (`UpdateFits`, `AppendFits`, `RemoveFits`) and
each turn of the loop (`TakeFits`) keeps that account; `FitsPaged` carries it from the
end of one page to the beginning of the next, and `FitsComplete` from the end of the
collection to the client's last answer. `LoopKeeps` is the induction over
the turns of the loop, which uses `TMFNaturals`. Assumed is `ListsAssumption`:
limits and offsets are naturals and pages are not empty.

`TMFNaturals` proves that a set of naturals has a least element and that one which
holds 0 and is closed under successor holds all, from the library's theorem that
their order is well-founded.

Every invariant and action property of a passing run is stated by a theorem. Only
model-checked are the runs that are violated and all liveness (`LockIsReleased`,
`CacheConverges`, `RetriesMaskFailures`, `TerminationEnds`), which is out of the provers'
reach altogether.

## 5. Not modelled, and the plan

Not modelled: credentials and signatures (the models take the caller as given),
routing and rendering, JSON paths and error helpers, generators, web assets and
configuration files, the SQL of the list filters (data of one SELECT), VACUUM,
checkpoint and backup (they leave the modelled state alone), and the SQLite part of
the log handler: `main.go` never turns it on (`Options.WriteToDB`), and without it
the handler prints lines.

The restart hour and minute of the command line (`-rh`, `-rm`) are stored and never
read: `ScheduleMaintenance` restarts at three o'clock whatever they say. The model
has `NightlyRestart` at any time, which covers every hour.

Next:

1. Facts about the migrations a reviewer may ask for beyond the properties: which
   ones can be skipped (`Covered`) when no binary older than the tables is started.
2. The order in which events of concurrent writers of one object are published
   against that of their commits, a hazard that no property covers yet.
