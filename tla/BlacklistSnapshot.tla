-------------------------- MODULE BlacklistSnapshot -------------------------
(***************************************************************************)
(* blacklist_snapshot.py: a background task publishes the blacklist to     *)
(* Redis under two keys, the blob and its version, and every web worker    *)
(* keeps a copy that a daemon thread reloads when the version has changed. *)
(*                                                                         *)
(* The states the remote lists go through are numbered 1, 2, ..., and a    *)
(* blob or version stands for the number of the state it was built from;   *)
(* a version is a content hash, so versions compare by ContentOf.  0 is a  *)
(* missing key, an array that was never loaded, or a version never read.   *)
(***************************************************************************)
EXTENDS Naturals

CONSTANTS
    Workers,
    Requests,     \* request threads of a worker
    Boot,         \* the thread that imports search_setup
    MaxUpstream,  \* bound on the states of the remote lists
    ContentOf,    \* state of the lists -> their content
    MaxFaults     \* bound on Redis errors, evictions, failed tasks and restarts

ASSUME SnapshotConstants ==
    /\ Boot \notin Requests
    /\ MaxUpstream \in Nat \ {0} /\ MaxFaults \in Nat
    /\ DOMAIN ContentOf = 0 .. MaxUpstream
    /\ \A n \in 1 .. MaxUpstream : ContentOf[n] # ContentOf[0]

Slots == Requests \cup {Boot}

VARIABLES
    upstream,   \* the lists as the providers return them
    task,       \* the refresh task: "idle", "built" or "set" (blob set, version not)
    built,      \* the state of the lists it hashed
    blob,       \* SNAPSHOT_KEY
    version,    \* SNAPSHOT_VERSION_KEY
    newest,     \* history: the last blob that was SET
    array,      \* worker -> _array
    loaded,     \* worker -> _version
    due,        \* worker -> BLACKLIST_SNAPSHOT_CHECK_SECONDS have passed since _last_checked
    loading,    \* worker -> _loading
    pc,         \* worker -> request thread -> where it is in _maybe_refresh
    load,       \* worker -> thread that called load_now, or started the daemon thread
                \*   that does -> where that call is
    faults      \* counter for the bound

publishVars == <<upstream, task, built, blob, version, newest>>
workerVars == <<array, loaded, due, loading, pc, load>>
vars == <<publishVars, workerVars, faults>>

Content(n) == ContentOf[n]
NotLoading == [stage |-> "none", version |-> 0, blob |-> 0]
Fault == faults < MaxFaults /\ faults' = faults + 1

-----------------------------------------------------------------------------
(* The write side. *)

ListsChange ==
    /\ upstream < MaxUpstream
    /\ upstream' = upstream + 1
    /\ UNCHANGED <<task, built, blob, version, newest, workerVars, faults>>

BuildSnapshot ==
    /\ task = "idle"
    /\ task' = "built" /\ built' = upstream
    /\ UNCHANGED <<upstream, blob, version, newest, workerVars, faults>>

\* publish_snapshot: blob first, then version.
PublishBlob ==
    /\ task = "built"
    /\ task' = "set" /\ blob' = built /\ newest' = built
    /\ UNCHANGED <<upstream, built, version, workerVars, faults>>

PublishVersion ==
    /\ task = "set"
    /\ task' = "idle" /\ version' = built
    /\ UNCHANGED <<upstream, built, blob, newest, workerVars, faults>>

\* Mutant: a failed download counts as an empty list.
TaskPublishesNothing ==
    /\ task = "built"
    /\ Fault
    /\ built' = 0
    /\ UNCHANGED <<upstream, task, blob, version, newest, workerVars>>

\* A download or a Redis call raises, or the process dies.
TaskFails ==
    /\ task # "idle"
    /\ Fault
    /\ task' = "idle"
    /\ UNCHANGED <<upstream, built, blob, version, newest, workerVars>>

\* allkeys-lru
Evict ==
    /\ \/ blob # 0 /\ blob' = 0 /\ UNCHANGED version
       \/ version # 0 /\ version' = 0 /\ UNCHANGED blob
    /\ Fault
    /\ UNCHANGED <<upstream, task, built, newest, workerVars>>

-----------------------------------------------------------------------------
(* load_now, run by thread t of worker w. *)

\* The call returns, and a daemon thread clears _loading (load's finally).
Return(w, t) ==
    /\ load' = [load EXCEPT ![w][t] = NotLoading]
    /\ loading' = [loading EXCEPT ![w] = IF t = Boot THEN @ ELSE FALSE]

ReadVersion(w, t) ==
    /\ load[w][t].stage = "version"
    /\ IF version = 0 \/ Content(version) = Content(loaded[w])
       THEN Return(w, t)
       ELSE /\ load' = [load EXCEPT ![w][t] =
                            [stage |-> "blob", version |-> version, blob |-> 0]]
            /\ UNCHANGED loading
    /\ UNCHANGED <<publishVars, array, loaded, due, pc, faults>>

\* Mutant: a missing blob is an empty array.
ReadMissingBlob(w, t) ==
    /\ load[w][t].stage = "blob"
    /\ load' = [load EXCEPT ![w][t] = [stage |-> "swap", version |-> @.version, blob |-> blob]]
    /\ UNCHANGED <<publishVars, array, loaded, due, loading, pc, faults>>

ReadBlob(w, t) ==
    /\ load[w][t].stage = "blob"
    /\ IF blob = 0
       THEN Return(w, t)
       ELSE /\ load' = [load EXCEPT ![w][t] =
                            [stage |-> "swap", version |-> @.version, blob |-> blob]]
            /\ UNCHANGED loading
    /\ UNCHANGED <<publishVars, array, loaded, due, pc, faults>>

SwapArray(w, t) ==
    /\ load[w][t].stage = "swap"
    /\ array' = [array EXCEPT ![w] = load[w][t].blob]
    /\ load' = [load EXCEPT ![w][t] =
                    [stage |-> "finish", version |-> @.version, blob |-> @.blob]]
    /\ UNCHANGED <<publishVars, loaded, due, loading, pc, faults>>

\* Mutant: the version is read again once the array is in place.
FinishWithCurrentVersion(w, t) ==
    /\ load[w][t].stage = "finish"
    /\ loaded' = [loaded EXCEPT ![w] = version]
    /\ Return(w, t)
    /\ UNCHANGED <<publishVars, array, due, pc, faults>>

Finish(w, t) ==
    /\ load[w][t].stage = "finish"
    /\ loaded' = [loaded EXCEPT ![w] = load[w][t].version]
    /\ Return(w, t)
    /\ UNCHANGED <<publishVars, array, due, pc, faults>>

\* A Redis call of load_now raises.
LoadFails(w, t) ==
    /\ load[w][t].stage \in {"version", "blob"}
    /\ Fault
    /\ Return(w, t)
    /\ UNCHANGED <<publishVars, array, loaded, due, pc>>

LoadStep(w, t) == ReadVersion(w, t) \/ ReadBlob(w, t) \/ SwapArray(w, t) \/ Finish(w, t)

-----------------------------------------------------------------------------
(* _maybe_refresh, called by filter_blacklisted on request threads, which do *)
(* not run before the import has finished.                                   *)

IntervalPasses(w) ==
    /\ ~due[w]
    /\ due' = [due EXCEPT ![w] = TRUE]
    /\ UNCHANGED <<publishVars, array, loaded, loading, pc, load, faults>>

\* The first test, without the lock.
CheckDue(w, r) ==
    /\ pc[w][r] = "idle" /\ load[w][Boot].stage = "none"
    /\ due[w]
    /\ pc' = [pc EXCEPT ![w][r] = "lock"]
    /\ UNCHANGED <<publishVars, array, loaded, due, loading, load, faults>>

\* Mutant: _loading is not tested.
ClaimRefreshWhileLoading(w, r) ==
    /\ pc[w][r] = "lock"
    /\ due' = [due EXCEPT ![w] = FALSE]
    /\ loading' = [loading EXCEPT ![w] = TRUE]
    /\ pc' = [pc EXCEPT ![w][r] = IF due[w] THEN "start" ELSE "idle"]
    /\ UNCHANGED <<publishVars, array, loaded, load, faults>>

\* The critical section.
ClaimRefresh(w, r) ==
    /\ pc[w][r] = "lock"
    /\ IF due[w] /\ ~loading[w]
       THEN /\ due' = [due EXCEPT ![w] = FALSE]
            /\ loading' = [loading EXCEPT ![w] = TRUE]
            /\ pc' = [pc EXCEPT ![w][r] = "start"]
       ELSE /\ pc' = [pc EXCEPT ![w][r] = "idle"]
            /\ UNCHANGED <<due, loading>>
    /\ UNCHANGED <<publishVars, array, loaded, load, faults>>

StartThread(w, r) ==
    /\ pc[w][r] = "start"
    /\ pc' = [pc EXCEPT ![w][r] = "idle"]
    /\ load' = [load EXCEPT ![w][r] = [stage |-> "version", version |-> 0, blob |-> 0]]
    /\ UNCHANGED <<publishVars, array, loaded, due, loading, faults>>

\* Mutant: _loading stays set when the thread cannot be started.
StartThreadFailsLoading(w, r) ==
    /\ pc[w][r] = "start"
    /\ Fault
    /\ pc' = [pc EXCEPT ![w][r] = "idle"]
    /\ UNCHANGED <<publishVars, array, loaded, due, loading, load>>

\* Thread.start raises RuntimeError.
StartThreadFails(w, r) ==
    /\ pc[w][r] = "start"
    /\ Fault
    /\ pc' = [pc EXCEPT ![w][r] = "idle"]
    /\ loading' = [loading EXCEPT ![w] = FALSE]
    /\ UNCHANGED <<publishVars, array, loaded, due, load>>

RefreshStep(w, r) == ClaimRefresh(w, r) \/ StartThread(w, r)

\* A process starts with nothing loaded, and load_now running at import.
Booting == [t \in Slots |-> IF t = Boot THEN [NotLoading EXCEPT !.stage = "version"]
                            ELSE NotLoading]

Restart(w) ==
    /\ Fault
    /\ array' = [array EXCEPT ![w] = 0]
    /\ loaded' = [loaded EXCEPT ![w] = 0]
    /\ due' = [due EXCEPT ![w] = TRUE]
    /\ loading' = [loading EXCEPT ![w] = FALSE]
    /\ pc' = [pc EXCEPT ![w] = [r \in Requests |-> "idle"]]
    /\ load' = [load EXCEPT ![w] = Booting]
    /\ UNCHANGED publishVars

-----------------------------------------------------------------------------
Init ==
    /\ upstream = 1 /\ task = "idle" /\ built = 1
    /\ blob = 0 /\ version = 0 /\ newest = 0
    /\ array = [w \in Workers |-> 0]
    /\ loaded = [w \in Workers |-> 0]
    /\ due = [w \in Workers |-> TRUE]
    /\ loading = [w \in Workers |-> FALSE]
    /\ pc = [w \in Workers |-> [r \in Requests |-> "idle"]]
    /\ load = [w \in Workers |-> Booting]
    /\ faults = 0

Refresh == BuildSnapshot \/ PublishBlob \/ PublishVersion

Next ==
    \/ ListsChange \/ Refresh \/ TaskFails \/ Evict
    \/ \E w \in Workers :
        \/ IntervalPasses(w) \/ Restart(w)
        \/ \E t \in Slots : LoadStep(w, t) \/ LoadFails(w, t)
        \/ \E r \in Requests :
              CheckDue(w, r) \/ RefreshStep(w, r) \/ StartThreadFails(w, r)

Spec == Init /\ [][Next]_vars

(* Fairness.  The refresh task is run again and again, queries keep coming,  *)
(* time passes, and a thread that has started something goes on with it.     *)
(* The lists need not change and nothing need fail.                          *)
Fairness ==
    /\ WF_vars(Refresh)
    /\ \A w \in Workers :
        /\ WF_vars(IntervalPasses(w))
        /\ WF_vars(\E r \in Requests : CheckDue(w, r))
        /\ \A r \in Requests : WF_vars(RefreshStep(w, r))
        /\ \A t \in Slots : WF_vars(LoadStep(w, t))

FairSpec == Spec /\ Fairness

-----------------------------------------------------------------------------
(* Properties. *)

Numbers == 0 .. MaxUpstream
LoadStates == [stage : {"none", "version", "blob", "swap", "finish"},
               version : Numbers, blob : Numbers]

\* Types of the variables.
TypeOK ==
    /\ upstream \in 1 .. MaxUpstream /\ built \in 1 .. MaxUpstream
    /\ task \in {"idle", "built", "set"}
    /\ blob \in Numbers /\ version \in Numbers /\ newest \in Numbers
    /\ array \in [Workers -> Numbers] /\ loaded \in [Workers -> Numbers]
    /\ due \in [Workers -> BOOLEAN] /\ loading \in [Workers -> BOOLEAN]
    /\ pc \in [Workers -> [Requests -> {"idle", "lock", "start"}]]
    /\ load \in [Workers -> [Slots -> LoadStates]]
    /\ faults \in Nat

Active(w, t) == load[w][t].stage # "none"

\* _loading and its lock let at most one thread of a process be inside load_now, although
\* the flag is tested twice, cleared without the lock and cleared again when a thread
\* cannot be started.
SingleLoader ==
    \A w \in Workers : \A s, t \in Slots : Active(w, s) /\ Active(w, t) => s = t

\* What is left of "blob first, then version: a worker that sees a new version is then
\* guaranteed to find the matching blob": the array is never OLDER than the version the
\* worker holds it for, whatever is published, evicted or interrupted between its two reads.
NotOlderThanVersion == \A w \in Workers : loaded[w] <= array[w]

\* A refresh never moves a process to an older blacklist, and neither an eviction nor a
\* failed load takes the one it has away: the worker's array implements the abstract feed.
Feed == INSTANCE BlacklistFeed WITH starting <- [w \in Workers |-> Active(w, Boot)]
FeedSpec == Feed!Spec

\* Once the lists stop changing every worker ends up filtering against them, in spite of
\* evictions, failed refreshes, failed loads and threads that could not be started.  (With
\* contents that never recur: see the README for what happens when they do.)
Converges == \A w \in Workers : <>[](Content(array[w]) = Content(upstream))

\* "Blob first, then version: a worker that sees a new version is then guaranteed to find
\* the matching blob" (publish_snapshot): what a worker has loaded is the snapshot whose
\* version it remembers.
LoadedMatchesVersion ==
    \A w \in Workers : (\A t \in Slots : ~Active(w, t)) => Content(array[w]) = Content(loaded[w])
=============================================================================
