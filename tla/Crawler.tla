------------------------------ MODULE Crawler ------------------------------
(***************************************************************************)
(* The standalone crawler (crawl.py): crawl processes that work on the URL *)
(* queue and push what they crawled on a Redis list, an index process that *)
(* takes batches from it, and the supervisor that starts dead processes    *)
(* again until the index process has died too often within an hour.        *)
(***************************************************************************)
EXTENDS UrlQueue

CONSTANTS
    TakeSize,        \* batches one lpop takes
    CrashThreshold   \* deaths of the index process within an hour that are put up with

ASSUME CrawlerConstants == TakeSize \in Nat \ {0} /\ CrashThreshold \in Nat

VARIABLES
    batches,   \* length of BATCH_QUEUE_KEY
    indexer,   \* the index process: "idle", "working" or "dead"
    taken,     \* batches it is working on
    missing,   \* history: batches put on the list and not indexed
    failures,  \* history: times it failed or died
    crashes,   \* length of index_crash_history
    gaveUp     \* the supervisor has raised

indexVars == <<batches, indexer, taken, missing, failures, crashes, gaveUp>>
crawlerVars == <<urlQueueVars, indexVars>>

\* process_batch ends with the rpush.
PushBatch(c) ==
    /\ proc[c].stage = "push"
    /\ batches' = batches + 1 /\ missing' = missing + 1
    /\ Goes(c, Waiting)
    /\ UNCHANGED <<score, queued, crawled, started, faults, historyVars>>
    /\ UNCHANGED <<indexer, taken, failures, crashes, gaveUp>>

\* Mutant: every lpop is taken for a full one.
TakeFull ==
    /\ indexer = "idle" /\ batches > 0
    /\ taken' = TakeSize
    /\ batches' = batches - taken'
    /\ indexer' = "working"
    /\ UNCHANGED <<urlQueueVars, missing, failures, crashes, gaveUp>>

\* run_indexing: lpop takes up to TakeSize batches; without any the process sleeps.
TakeBatches ==
    /\ indexer = "idle" /\ batches > 0
    /\ taken' = IF batches < TakeSize THEN batches ELSE TakeSize
    /\ batches' = batches - taken'
    /\ indexer' = "working"
    /\ UNCHANGED <<urlQueueVars, missing, failures, crashes, gaveUp>>

\* Mutant: only the first of them is indexed.
IndexFirstBatch ==
    /\ indexer = "working"
    /\ missing' = missing - 1 /\ taken' = 0
    /\ indexer' = "idle"
    /\ UNCHANGED <<urlQueueVars, batches, failures, crashes, gaveUp>>

\* index_batches and the exchange with the remote index.
IndexBatches ==
    /\ indexer = "working"
    /\ missing' = missing - taken /\ taken' = 0
    /\ indexer' = "idle"
    /\ UNCHANGED <<urlQueueVars, batches, failures, crashes, gaveUp>>

\* An exception, after which the loop goes on, or the death of the process (check_redis
\* ends it too).
IndexFails ==
    /\ indexer # "dead" /\ faults < MaxFaults
    /\ faults' = faults + 1 /\ failures' = failures + 1 /\ taken' = 0
    /\ indexer' = "dead" \/ (indexer = "working" /\ indexer' = "idle")
    /\ UNCHANGED <<score, queued, crawled, proc, started, historyVars>>
    /\ UNCHANGED <<batches, missing, crashes, gaveUp>>

\* Mutant: off by one.
RespawnOneLess ==
    /\ indexer = "dead" /\ ~gaveUp
    /\ crashes' = crashes + 1
    /\ IF crashes' >= CrashThreshold
       THEN gaveUp' = TRUE /\ UNCHANGED indexer
       ELSE indexer' = "idle" /\ UNCHANGED gaveUp
    /\ UNCHANGED <<urlQueueVars, batches, taken, missing, failures>>

\* run: the death is recorded, and too many of them end the supervisor with a RuntimeError;
\* it joins the crawl processes, which go on without it.
RespawnIndexer ==
    /\ indexer = "dead" /\ ~gaveUp
    /\ crashes' = crashes + 1
    /\ IF crashes' > CrashThreshold
       THEN gaveUp' = TRUE /\ UNCHANGED indexer
       ELSE indexer' = "idle" /\ UNCHANGED gaveUp
    /\ UNCHANGED <<urlQueueVars, batches, taken, missing, failures>>

\* An entry of index_crash_history gets older than an hour.
HourPasses ==
    /\ crashes > 0 /\ ~gaveUp
    /\ crashes' = crashes - 1
    /\ UNCHANGED <<urlQueueVars, batches, indexer, taken, missing, failures, gaveUp>>

Init ==
    /\ QueueInit
    /\ batches = 0 /\ taken = 0 /\ missing = 0 /\ failures = 0
    /\ indexer = "idle" /\ crashes = 0 /\ gaveUp = FALSE

Next ==
    \/ \E c \in Crawlers :
        \/ (GetBatch(c) \/ Advance(c) \/ CrawlFails(c)) /\ UNCHANGED indexVars
        \/ PushBatch(c)
    \/ TakeBatches \/ IndexBatches \/ IndexFails \/ RespawnIndexer \/ HourPasses

Spec == Init /\ [][Next]_crawlerVars

(* Fairness.  A process goes on with what it has begun, the index process    *)
(* looks at the list again and again, and the supervisor at the processes.   *)
(* No batch need be taken, and nothing need fail.                            *)
Fairness ==
    /\ \A c \in Crawlers :
        WF_crawlerVars((Advance(c) /\ UNCHANGED indexVars) \/ PushBatch(c))
    /\ WF_crawlerVars(TakeBatches) /\ WF_crawlerVars(IndexBatches)
    /\ WF_crawlerVars(RespawnIndexer)

FairSpec == Spec /\ Fairness

-----------------------------------------------------------------------------
(* Properties. *)

\* Types of the variables of crawl.py; the list is never taken to hold more than it does.
TypeOK ==
    /\ QueueTypeOK
    /\ batches \in Nat /\ taken \in Nat /\ missing \in Nat /\ failures \in Nat /\ crashes \in Nat
    /\ indexer \in {"idle", "working", "dead"} /\ gaveUp \in BOOLEAN

\* run_indexing takes its batches off the list before it indexes them, so a failure loses
\* them; but it loses no more than one lpop's, and nothing else loses any.
LossBounded == missing <= batches + taken + failures * TakeSize

\* run: whatever is pushed is taken in the end and indexed or lost to a failure, unless the index
\* process died more often than the supervisor puts up with; the crawl processes then fill
\* a list that nobody empties.
BatchesAreTaken == <>[](batches = 0 /\ taken = 0) \/ <>[](gaveUp /\ failures > CrashThreshold)
=============================================================================
