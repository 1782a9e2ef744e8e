------------------------------- MODULE TMFPdp -------------------------------
(***************************************************************************)
(* The policy decision point: goroutines that call PDP.Authorize, the pool *)
(* of compiled policies they take an instance from (threadEntry), and the  *)
(* file cache they read the policies through (SimpleFileCache.GetFile or,  *)
(* when their name begins with https://, GetURL, with a singleflight       *)
(* group).                                                                 *)
(*                                                                         *)
(* A hash stands for the content it is computed from, a compiled policy    *)
(* for the content it was compiled from.  Somebody edits the policies at   *)
(* any time; each edit of a file gets a later modification time, and each  *)
(* edit of what a URL serves an ETag of its own, if the server sends any:  *)
(* mtime stands for both.                                                  *)
(***************************************************************************)
EXTENDS Integers, FiniteSets, Bags

CONSTANTS
  Goroutines,  \* the goroutines that ask for decisions
  Policies,    \* contents of the file that compile and define authorize
  Broken,      \* a content that does not compile
  Lacking,     \* a content that compiles, but does not define authorize
  None,        \* no cache entry, no compiled function, no leader
  Reverts,     \* the file may get back a content it had before
  MaxEdits,    \* bound of the model: edits of the file
  MaxThreads   \* bound of the model: thread entries in the pool and in use

ASSUME PdpAssumption ==
  /\ {Broken, Lacking, None} \cap Policies = {}
  /\ Broken # Lacking /\ None \notin {Broken, Lacking}
  /\ Reverts \in BOOLEAN /\ MaxEdits \in Nat /\ MaxThreads \in Nat

VARIABLES
  disk,    \* the policies: where they are ("file" or "url"), content and mtime
  past,    \* the contents the file has had
  entry,   \* the entry of the sync.Map: content, mtime, fresh; or None
  flight,  \* the goroutine that executes the singleflight function, or None
  pool,    \* the bag of idle thread entries
  run      \* run[g]: what goroutine g is doing

vars == <<disk, past, entry, flight, pool, run>>

Contents == Policies \cup {Broken, Lacking}
Entries == [content: Contents, mtime: 0..MaxEdits, fresh: BOOLEAN]
\* A threadEntry: authorizeFunction and scriptHash.
Threads == [function: Policies \cup {None}, hash: Policies]

ASSUME PdpSentinel == None \notin Goroutines \cup Entries \cup Threads

\* thread is None while threadPool.New has not compiled one yet; existing is
\* the entry loaded before singleflight; got is what GetFile returned.
Idle == [stage |-> "idle", thread |-> None, existing |-> None, got |-> None]
Stages == {"idle", "load", "do", "wait", "check", "stat", "read", "store", "loaded", "call"}
TypeOK ==
  /\ disk \in [at: {"file", "url"}, content: Contents, mtime: 0..MaxEdits]
  /\ past \subseteq Contents
  /\ entry \in Entries \cup {None}
  /\ flight \in Goroutines \cup {None}
  /\ BagToSet(pool) \subseteq Threads
  /\ run \in [Goroutines -> [stage: Stages, thread: Threads \cup {None},
                             existing: Entries \cup {None}, got: Entries \cup {None}]]

\* NewPDPService has read the policies into the cache, whether they compile or not.
Init ==
  /\ \E p \in Contents, at \in {"file", "url"} :
       /\ disk = [at |-> at, content |-> p, mtime |-> 0]
       /\ past = {p}
       /\ entry = [content |-> p, mtime |-> 0, fresh |-> TRUE]
  /\ flight = None /\ pool = EmptyBag
  /\ run = [g \in Goroutines |-> Idle]

At(g, stage) == run[g].stage = stage
Goto(g, stage) == run' = [run EXCEPT ![g].stage = stage]

-----------------------------------------------------------------------------
(* The file, and time.                                                     *)

Edit ==
  /\ disk.mtime < MaxEdits
  /\ \E c \in Contents \ {disk.content} :
       /\ Reverts \/ c \notin past
       /\ disk' = [disk EXCEPT !.content = c, !.mtime = @ + 1]
       /\ past' = past \cup {c}
  /\ UNCHANGED <<entry, flight, pool, run>>

\* 20 seconds have passed since the file was checked, or the time until which the
\* server said, or is taken to have said, that the entry is fresh.
Expire ==
  /\ entry # None /\ entry.fresh
  /\ entry' = [entry EXCEPT !.fresh = FALSE]
  /\ UNCHANGED <<disk, past, flight, pool, run>>

\* sync.Pool forgets entries when it likes.
Collect ==
  /\ \E t \in BagToSet(pool) : pool' = pool (-) SetToBag({t})
  /\ UNCHANGED <<disk, past, entry, flight, run>>

-----------------------------------------------------------------------------
(* Authorize: a thread entry is taken from the pool, or a new one made.    *)

Take(g) ==
  /\ At(g, "idle")
  /\ \/ \E t \in BagToSet(pool) :
          /\ pool' = pool (-) SetToBag({t})
          /\ run' = [run EXCEPT ![g].thread = t, ![g].stage = "load"]
     \/ /\ BagCardinality(pool) + Cardinality({h \in Goroutines : ~At(h, "idle")}) < MaxThreads
        /\ Goto(g, "load") /\ pool' = pool
  /\ UNCHANGED <<disk, past, entry, flight>>

\* The decision is over, made or refused with an error: the deferred Put gives
\* the thread entry back to the pool.
Finish(g, t) ==
  /\ run' = [run EXCEPT ![g] = Idle]
  /\ pool' = IF t = None THEN pool ELSE pool (+) SetToBag({t})

-----------------------------------------------------------------------------
(* GetFile and GetURL.                                                     *)

\* The fast path, or the entry is remembered as existing.
Load(g) ==
  /\ At(g, "load")
  /\ run' = [run EXCEPT ![g] =
       IF entry # None /\ entry.fresh THEN [@ EXCEPT !.stage = "loaded", !.got = entry]
       ELSE [@ EXCEPT !.stage = "do", !.existing = entry]]
  /\ UNCHANGED <<disk, past, entry, flight, pool>>

\* Mutant: no singleflight, every goroutine fetches for itself.
DoAlone(g) ==
  /\ At(g, "do")
  /\ flight' = g
  /\ Goto(g, "check")
  /\ UNCHANGED <<disk, past, entry, pool>>

\* sfGroup.Do: the first executes the function, the others wait for its result.
Do(g) ==
  /\ At(g, "do")
  /\ IF flight = None THEN flight' = g /\ Goto(g, "check")
     ELSE flight' = flight /\ Goto(g, "wait")
  /\ UNCHANGED <<disk, past, entry, pool>>

\* The function's result goes to the one that executed it and to those that wait.
Result(g, e) ==
  /\ flight' = None
  /\ run' = [h \in Goroutines |->
               IF h = g \/ At(h, "wait")
               THEN [run[h] EXCEPT !.stage = "loaded", !.got = e, !.existing = None]
               ELSE run[h]]

\* The cache is looked at again.
Check(g) ==
  /\ At(g, "check")
  /\ IF entry # None /\ entry.fresh THEN Result(g, entry)
     ELSE Goto(g, "stat") /\ flight' = flight
  /\ UNCHANGED <<disk, past, entry, pool>>

\* fetchFile, os.Stat: with the modification time of existing, its content is
\* given another 20 seconds.
Stat(g) ==
  /\ At(g, "stat") /\ disk.at = "file"
  /\ run' = [run EXCEPT ![g] =
       IF @.existing # None /\ @.existing.mtime >= disk.mtime
       THEN [@ EXCEPT !.stage = "store", !.got = [run[g].existing EXCEPT !.fresh = TRUE]]
       ELSE [@ EXCEPT !.stage = "read",
               !.got = [content |-> disk.content, mtime |-> disk.mtime, fresh |-> TRUE]]]
  /\ UNCHANGED <<disk, past, entry, flight, pool>>

\* Mutant: the entry gets the modification time the file has after it was read.
ReadThenStat(g) ==
  /\ At(g, "read")
  /\ run' = [run EXCEPT ![g].got.mtime = disk.mtime, ![g].stage = "store"]
  /\ UNCHANGED <<disk, past, entry, flight, pool>>

\* fetchFile, os.ReadFile: the content is the one of now.
ReadFile(g) ==
  /\ At(g, "read")
  /\ run' = [run EXCEPT ![g].got.content = disk.content, ![g].stage = "store"]
  /\ UNCHANGED <<disk, past, entry, flight, pool>>

\* fetchURL: the server answers 200 with the content of now, or, if it is asked
\* with the ETag that it would send, 304.  Its Expires header decides how long the
\* answer is fresh, which can be over already; without one a 200 is fresh for five
\* minutes, and a 304 leaves the entry as stale as it was.
Fetch(g) ==
  /\ At(g, "stat") /\ disk.at = "url"
  /\ \E fresh \in BOOLEAN :
       LET new == [content |-> disk.content, mtime |-> disk.mtime, fresh |-> fresh]
           old == run[g].existing
       IN \E got \in {new} \cup (IF old # None /\ old.mtime = disk.mtime
                                THEN {[old EXCEPT !.fresh = fresh]} ELSE {}) :
            run' = [run EXCEPT ![g].got = got, ![g].stage = "store"]
  /\ UNCHANGED <<disk, past, entry, flight, pool>>

\* The server does not answer, or with another status: the entry that was loaded
\* before the flight is returned, and not stored.
FetchFails(g) ==
  /\ At(g, "stat") /\ disk.at = "url" /\ run[g].existing # None
  /\ Result(g, run[g].existing)
  /\ UNCHANGED <<disk, past, entry, pool>>

StoreEntry(g) ==
  /\ At(g, "store")
  /\ entry' = run[g].got
  /\ Result(g, run[g].got)
  /\ UNCHANGED <<disk, past, pool>>

\* os.Stat or os.ReadFile fails: so does GetFile, for those that wait too.
ReadFails(g) ==
  /\ disk.at = "file" /\ (At(g, "stat") \/ At(g, "read"))
  /\ flight' = None
  /\ LET failed == {h \in Goroutines : h = g \/ At(h, "wait")}
         given == {h \in failed : run[h].thread # None}
     IN /\ run' = [h \in Goroutines |-> IF h \in failed THEN Idle ELSE run[h]]
        /\ pool' = pool (+) [t \in {run[h].thread : h \in given} |->
                               Cardinality({h \in given : run[h].thread = t})]
  /\ UNCHANGED <<disk, past, entry>>

-----------------------------------------------------------------------------
(* Compiling and deciding.                                                 *)

\* bufferedParseAndCompileFile makes a new thread entry, and Authorize goes on
\* to reset it; without a policy there is no entry and no decision.
Compile(g) ==
  /\ At(g, "loaded") /\ run[g].thread = None
  /\ LET c == run[g].got.content IN
     IF c \in Policies
     THEN /\ run' = [run EXCEPT ![g] = [Idle EXCEPT !.stage = "load",
                                          !.thread = [function |-> c, hash |-> c]]]
          /\ pool' = pool
     ELSE Finish(g, None)
  /\ UNCHANGED <<disk, past, entry, flight>>

\* Mutant: a thread entry is never compiled again.
ResetNever(g) ==
  /\ At(g, "loaded") /\ run[g].thread # None
  /\ Goto(g, "call") /\ pool' = pool
  /\ UNCHANGED <<disk, past, entry, flight>>

\* Mutant: reset keeps the new hash before it compiles the content.
ResetHashFirst(g) ==
  /\ At(g, "loaded") /\ run[g].thread # None
  /\ LET c == run[g].got.content
         t == run[g].thread
     IN CASE c = t.hash -> Goto(g, "call") /\ pool' = pool
          [] c # t.hash /\ c \in Policies ->
               /\ run' = [run EXCEPT ![g].stage = "call", ![g].thread = [function |-> c, hash |-> c]]
               /\ pool' = pool
          [] c = Broken -> Finish(g, [t EXCEPT !.hash = c])
          [] c = Lacking -> Finish(g, [function |-> None, hash |-> c])
  /\ UNCHANGED <<disk, past, entry, flight>>

\* reset: unless the hash is the one the thread entry was made with, the content
\* is compiled, every time, since the new hash is not kept.  A content that does
\* not compile leaves the function that was there, one without authorize none.
Reset(g) ==
  /\ At(g, "loaded") /\ run[g].thread # None
  /\ LET c == run[g].got.content
         t == run[g].thread
     IN CASE c = t.hash -> Goto(g, "call") /\ pool' = pool
          [] c # t.hash /\ c \in Policies ->
               /\ run' = [run EXCEPT ![g].stage = "call", ![g].thread.function = c]
               /\ pool' = pool
          [] c = Broken -> Finish(g, t)
          [] c = Lacking -> Finish(g, [t EXCEPT !.function = None])
  /\ UNCHANGED <<disk, past, entry, flight>>

\* The function authorize is called and decides.
Call(g) ==
  /\ At(g, "call")
  /\ Finish(g, run[g].thread)
  /\ UNCHANGED <<disk, past, entry, flight>>

Next ==
  \/ Edit \/ Expire \/ Collect
  \/ \E g \in Goroutines :
       \/ Take(g) \/ Load(g) \/ Do(g) \/ Check(g) \/ Stat(g) \/ ReadFile(g)
       \/ Fetch(g) \/ FetchFails(g) \/ StoreEntry(g) \/ ReadFails(g) \/ Compile(g) \/ Reset(g) \/ Call(g)

Spec == Init /\ [][Next]_vars

-----------------------------------------------------------------------------
(* Properties.                                                             *)

\* A cached content that is no longer the file's or the URL's will be noticed at
\* the next os.Stat or conditional GET: an edit between os.Stat and os.ReadFile
\* does not hide itself.
StaleIsNoticed ==
  entry # None /\ entry.content # disk.content => entry.mtime < disk.mtime

\* The cache never goes back to an earlier state of the policies, although each
\* goroutine brings along the entry it loaded before its turn; nor does a call get
\* an older entry than the cache holds, unless a URL could not be fetched.
CacheGoesForward ==
  [][/\ entry' # None /\ entry'.mtime >= entry.mtime
     /\ \A g \in Goroutines :
          At(g, "loaded")' /\ ~At(g, "loaded")
            => \/ run'[g].got.mtime >= entry.mtime
               \/ flight # None /\ FetchFails(flight)]_<<entry, run>>

\* A decision is made with the policy that its reset got from the cache ("new
\* ones will pick the new version of the policies").
DecidesByPolicyRead ==
  \A g \in Goroutines : At(g, "call") => run[g].thread.function = run[g].got.content

\* That is so for a file that never gets back a content it had.  (The policies of a
\* URL come back by themselves: a failed fetch returns an entry from before.)
FileDecidesByPolicyRead == disk.at = "file" => DecidesByPolicyRead
=============================================================================
