------------------------------ MODULE PurgeLoop -----------------------------
(***************************************************************************)
(* The loop the purge queue closes: retrieval reads pages of the index,    *)
(* filters them against the worker's copy of the blacklist and queues what *)
(* it dropped (Ranker._remove_blacklisted); the background task drains the *)
(* queue and rewrites the pages (purge_blacklisted_from_queue); indexing   *)
(* and curation rewrite the same pages meanwhile.  Composes IndexPages and *)
(* PurgeQueue: a step of this module is a step of one of them, or of both  *)
(* at once where the code passes documents from one to the other.          *)
(***************************************************************************)
EXTENDS Naturals, FiniteSets

CONSTANTS
    Urls, Terms, Pages, PageOf, Tokens, Words, TitleOf, PageCapacity,
    Writers, Purger, Curators, NoPage, MaxJobs,
    Searchers, MaxQueueSize, BatchSize,
    Queries,      \* queries that keep being asked
    RawTerms,     \* terms that raw retrieval may be asked for
    TermsOf,      \* query -> its retrieval terms, completions included, and its bigrams
    MaxTerms,     \* most terms a query retrieves
    ProcessOf,    \* searcher, writer or purger -> the process it runs in
    MaxFaults,    \* bound on crashes, Redis failures and evictions together
    MaxPublish    \* bound on changes of the published blacklist

VARIABLES
    page, held, indexing, curations, reverting, purging, purgeTodo, jobs, crashes,
    searching, recent, queue, faults,
    published,    \* URLs the published blacklist covers
    view,         \* process -> URLs its SnapshotBlacklist covers
    publishes     \* counter for the bound

Index == INSTANCE IndexPages WITH MaxCrashes <- MaxFaults
Queue == INSTANCE PurgeQueue WITH Payloads <- Index!Copies, MaxFound <- MaxTerms * PageCapacity

ASSUME LoopConstants ==
    /\ Index!IndexConstants
    /\ IsFiniteSet(Urls) /\ IsFiniteSet(Terms) /\ IsFiniteSet(Searchers)
    /\ RawTerms \subseteq Terms
    /\ TermsOf \in [Queries -> SUBSET Terms] /\ MaxTerms \in Nat \ {0}
    /\ \A q \in Queries : Cardinality(TermsOf[q]) <= MaxTerms
    /\ MaxQueueSize \in Nat \ {0} /\ BatchSize \in Nat \ {0}

Processes == {ProcessOf[x] : x \in Searchers \cup Writers \cup {Purger}}
ViewOf(x) == view[ProcessOf[x]]

indexVars == <<page, held, indexing, curations, reverting, purging, purgeTodo, jobs, crashes>>
queueVars == <<searching, recent, queue, faults>>
viewVars == <<published, view, publishes>>
vars == <<indexVars, queueVars, viewVars>>

-----------------------------------------------------------------------------
\* The blacklist changes; a process reloads its snapshot.
Publish(us) ==
    /\ publishes < MaxPublish /\ us # published
    /\ published' = us
    /\ publishes' = publishes + 1
    /\ UNCHANGED <<indexVars, queueVars, view>>

LoadSnapshot(x) ==
    /\ view[x] # published
    /\ view' = [view EXCEPT ![x] = published]
    /\ UNCHANGED <<indexVars, queueVars, published, publishes>>

\* Of the documents retrieved for a term, those blacklisted in the view of the worker of s:
\* what there can be of them, on the page as it is read.
Blacklisted(s, t) ==
    {{Index!CopyOf(d) : d \in {e \in docs : e.term = t /\ e.url \in ViewOf(s)}} :
        docs \in Index!GetPage(PageOf[t])}

\* _remove_blacklisted: a request that has retrieved terms passes what is blacklisted of all of
\* them to one call of enqueue_for_purge.
Surface(s, terms) ==
    /\ \E found \in SUBSET {c \in Index!Copies : c.term \in terms} :
        /\ Queue!Enqueue(s, found)
        /\ \A t \in terms : {c \in found : c.term = t} \in Blacklisted(s, t)
    /\ UNCHANGED <<indexVars, viewVars>>

\* get_results.  The documents curated for the query as a whole are filtered too, but only
\* what was retrieved (index_items) is queued: when the query has three words or more, the
\* term they are curated under is not among its terms.
GetResults(s, q) == Surface(s, TermsOf[q])

\* get_raw_results: the whole query is its only term.
GetRawResults(s, t) == Surface(s, {t})

\* index_documents filters with the writer's view (filter_blacklisted_documents), super
\* search with its own (_drop_blacklisted), and then they write.
IndexDocuments(w, us) ==
    Index!IndexDocuments(w, us \ ViewOf(w)) /\ UNCHANGED <<queueVars, viewVars>>

IndexResultsAgainstQuery(w, us, query) ==
    Index!IndexResultsAgainstQuery(w, us \ ViewOf(w), query) /\ UNCHANGED <<queueVars, viewVars>>

\* purge_blacklisted_from_queue: drain, re-check the blacklist, then purge page by page.
PurgeBlacklistedFromQueue(batch) ==
    /\ Queue!Drain(batch)
    /\ Index!PurgeDocuments({c \in batch : c.url \in ViewOf(Purger)})
    /\ UNCHANGED viewVars

-----------------------------------------------------------------------------
Init ==
    /\ Index!Init /\ Queue!Init
    /\ published = {} /\ view = [x \in Processes |-> {}] /\ publishes = 0

Failures == crashes + faults

\* Steps of one component that leave the others alone.
IndexStep ==
    /\ \/ Index!Store
       \/ \E w \in Writers, p \in Pages : Index!IndexPage(w, p)
       \/ Index!Curate
       \/ \E p \in Pages : Index!PurgePage(p)
       \/ Failures < MaxFaults /\ \E x \in Index!Actors : Index!Crash(x)
    /\ UNCHANGED <<queueVars, viewVars>>

QueueStep ==
    /\ \/ \E s \in Searchers :
            \/ Queue!Progress(s)
            \/ \E c \in Index!Copies : Queue!Forget(s, c)
            \/ Failures < MaxFaults /\ Queue!RedisFails(s)
       \/ Failures < MaxFaults /\ Queue!EvictQueue
    /\ UNCHANGED <<indexVars, viewVars>>

Purge == \E batch \in SUBSET queue : PurgeBlacklistedFromQueue(batch)

OtherStep ==
    \/ IndexStep \/ QueueStep
    \/ \E us \in SUBSET Urls : Publish(us)
    \/ \E x \in Processes : LoadSnapshot(x)
    \/ \E s \in Searchers, q \in Queries : GetResults(s, q)
    \/ \E s \in Searchers, t \in RawTerms : GetRawResults(s, t)
    \/ \E w \in Writers, us \in SUBSET Urls \ {{}} : IndexDocuments(w, us)
    \/ \E w \in Writers, us \in SUBSET Urls \ {{}}, query \in SUBSET Terms :
          IndexResultsAgainstQuery(w, us, query)

Next == Purge \/ OtherStep

Spec == Init /\ [][Next]_vars

(* Fairness.  Every request that has started runs on, the background task    *)
(* keeps draining the queue, snapshots are reloaded and records expire; each *)
(* of the queries keeps being asked of some worker that is not at that time  *)
(* serving another.  Raw retrieval, indexing, curation, changes of the       *)
(* blacklist and faults need never happen.                                   *)
Stores(x) == (Index!StoreBegin(x) \/ Index!StoreEnd(x)) /\ UNCHANGED <<queueVars, viewVars>>
FilesPage(w) == (\E p \in Pages : Index!IndexPage(w, p)) /\ UNCHANGED <<queueVars, viewVars>>
PurgesPage == (\E p \in Pages : Index!PurgePage(p)) /\ UNCHANGED <<queueVars, viewVars>>

Fairness ==
    /\ \A x \in Curators : WF_vars(Stores(x))
    /\ \A w \in Writers : WF_vars(Stores(w) \/ FilesPage(w))
    /\ WF_vars(Stores(Purger) \/ PurgesPage \/ Purge)
    /\ \A x \in Processes : WF_vars(LoadSnapshot(x))
    /\ \A q \in Queries : SF_vars(\E s \in Searchers : GetResults(s, q))
    /\ \A s \in Searchers :
        /\ WF_vars(Queue!Progress(s) /\ UNCHANGED <<indexVars, viewVars>>)
        /\ \A c \in Index!Copies : WF_vars(Queue!Forget(s, c) /\ UNCHANGED <<indexVars, viewVars>>)

FairSpec == Spec /\ Fairness

-----------------------------------------------------------------------------
(* Properties. *)

Retrieved == UNION {TermsOf[q] : q \in Queries}

\* The loop is self-healing (purge_queue.py) and "no document can churn through the queue
\* forever" (purge_blacklisted.py): if from some time on a URL stays on the published
\* blacklist, then in spite of lost updates, torn reads, stale snapshots, crashes, evictions
\* and reverted curations there is a time after which no page holds a copy of it under a
\* term that some query retrieves.
SelfHealing ==
    \A u \in Urls :
        <>[](u \in published) =>
            <>[](\A p \in Pages : \A d \in page[p] : d.url = u => d.term \notin Retrieved)
=============================================================================
