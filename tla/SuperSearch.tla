---------------------------- MODULE SuperSearch ----------------------------
(***************************************************************************)
(* The stream of events of one super search (super_search.py).  A producer *)
(* runs the pipeline under a deadline, gives a last ranking, indexes what  *)
(* was found and ends the stream; the pipeline starts a task for every     *)
(* result that enters the top K, which crawls its page and links; all of   *)
(* them rank and emit the results found so far, under one lock.            *)
(*                                                                         *)
(* The tasks share one event loop: a step is what a task does between two  *)
(* awaits.  A queue without a bound never makes a task wait, so emit is    *)
(* part of the step it is called in.  A task is named by what it works on. *)
(***************************************************************************)
EXTENDS SuperSearchQuota, SequencesExt

CONSTANTS
    Sources,
    Docs,       \* URLs of documents that have a title and are not blacklisted
    Lists,      \* what a source can return: sequences of results
    Relevant,   \* URLs whose first document passes the term filter: it is the one ranked
    TopK,       \* SUPER_SEARCH_TOP_K
    FinalLimit, \* SUPER_SEARCH_FINAL_RESULTS_LIMIT
    MaxLinks,   \* SUPER_SEARCH_MAX_LINKS_PER_PAGE
    Watched,    \* the request whose stream is followed
    Pipe, Prod, \* the tasks of _run_pipeline and producer
    NoTask

Tasks == Docs \cup {Pipe, Prod}

\* A document of a source with its heuristic score, of which only the order counts: it is
\* that of its title and extract too, so one URL may come with several.
Results == [url : Docs, score : Nat]

Urls(results) == {r.url : r \in results}

ASSUME SearchConstants ==
    /\ Watched \in Requests
    /\ Relevant \subseteq Docs /\ Lists \subseteq Seq(Results)
    /\ TopK \in Nat \ {0} /\ FinalLimit \in Nat
    /\ Pipe \notin Docs /\ Prod \notin Docs /\ Pipe # Prod /\ NoTask \notin Tasks

VARIABLES
    consumer,   \* the response: "none", "reading", "ended" or "gone"
    reason,     \* what the done event will say
    ended,      \* the sentinel is in the queue
    pending,    \* sources that have not been dealt with
    hand,       \* what the last one returned
    allDocs,    \* URLs of all_docs
    offered,    \* history: URLs that sources returned
    considered, \* history: results of theirs that were not refused for their URL
    heap,       \* the live top K: results
    promoted,   \* _promoted_urls
    task,       \* task -> where it is
    holder,     \* the task that holds results_lock
    ranking,    \* what it is ranking
    last,       \* last_results_key: the URLs emitted last
    lastFailed  \* history: the ranking after the pipeline raised

topVars == <<offered, considered, heap, promoted>>
pipeVars == <<pending, hand, topVars>>
streamVars == <<consumer, reason, ended, pipeVars, allDocs, task, holder, ranking, last,
                lastFailed>>
vars == <<quotaVars, streamVars>>

StartStream ==
    /\ consumer = "none" /\ request[Watched] = "admitted"
    /\ consumer' = "reading"
    /\ task' = [task EXCEPT ![Pipe] = "collect", ![Prod] = "run"]
    /\ UNCHANGED <<reason, ended, pipeVars, allDocs, holder, ranking, last, lastFailed>>
    /\ UNCHANGED quotaVars

-----------------------------------------------------------------------------
(* _run_pipeline. *)

\* The loop over as_completed, and then the gather.
Resume(left) == IF left = {} THEN "gather" ELSE "collect"

\* A source has failed, timed out or returned; what it returned is scored in a thread.
SourceReturns(s) ==
    /\ task[Pipe] = "collect" /\ s \in pending
    /\ pending' = pending \ {s}
    /\ \/ /\ task' = [task EXCEPT ![Pipe] = Resume(pending')]
          /\ UNCHANGED hand
       \/ \E list \in Lists :
            /\ hand' = list
            /\ task' = [task EXCEPT ![Pipe] = "score"]
    /\ UNCHANGED <<consumer, reason, ended, allDocs, topVars, holder, ranking, last, lastFailed>>
    /\ UNCHANGED quotaVars

Lowest(h) == CHOOSE r \in h : \A e \in h : r.score <= e.score

\* Mutant: the best goes in the place of the worst.
PromoteOverBest(top, r) ==
    LET best == CHOOSE e \in top.heap : \A f \in top.heap : f.score <= e.score
        worst == CHOOSE e \in top.heap : \A f \in top.heap : e.score <= f.score
        rated(h, urls) == [heap |-> h, promoted |-> urls, considered |-> top.considered \cup {r}]
        enters(rest) == rated(rest \cup {r}, top.promoted \cup {r.url})
    IN  IF r.url \in top.promoted THEN top
        ELSE IF Cardinality(top.heap) < TopK THEN enters(top.heap)
        ELSE IF r.score > worst.score THEN enters(top.heap \ {best})
        ELSE rated(top.heap, top.promoted)

\* _maybe_promote.  Of the heap only the scores matter.
Promote(top, r) ==
    LET rated(h, urls) == [heap |-> h, promoted |-> urls, considered |-> top.considered \cup {r}]
        enters(rest) == rated(rest \cup {r}, top.promoted \cup {r.url})
    IN  IF r.url \in top.promoted THEN top
        ELSE IF Cardinality(top.heap) < TopK THEN enters(top.heap)
        ELSE IF r.score > Lowest(top.heap).score THEN enters(top.heap \ {Lowest(top.heap)})
        ELSE rated(top.heap, top.promoted)

Top == [heap |-> heap, promoted |-> promoted, considered |-> considered]

\* The scored documents are added and promoted, each with a task of its own the one time that
\* it is promoted, without an await.
PromoteDocs ==
    LET top == FoldLeft(Promote, Top, hand)
        urls == Urls(ToSet(hand))
    IN  /\ task[Pipe] = "score"
        /\ allDocs' = allDocs \cup urls /\ offered' = offered \cup urls
        /\ heap' = top.heap /\ promoted' = top.promoted /\ considered' = top.considered
        /\ task' = [t \in Tasks |-> IF t = Pipe THEN "wait"
                                    ELSE IF t \in top.promoted /\ task[t] = "none" THEN "crawl"
                                    ELSE task[t]]
        /\ hand' = <<>>
        /\ UNCHANGED <<consumer, reason, ended, pending, holder, ranking, last, lastFailed>>
        /\ UNCHANGED quotaVars

Over(t) == task[t] \in {"none", "over"}

\* Mutant: the pipeline does not wait for the tasks it has started.
GatherNone ==
    /\ task[Pipe] = "gather"
    /\ task' = [task EXCEPT ![Pipe] = "over", ![Prod] = "wait"]
    /\ UNCHANGED <<consumer, reason, ended, pipeVars, allDocs, holder, ranking, last, lastFailed>>
    /\ UNCHANGED quotaVars

\* The gather, after which the pipeline returns.
Gather ==
    /\ task[Pipe] = "gather" /\ \A d \in Docs : Over(d)
    /\ task' = [task EXCEPT ![Pipe] = "over", ![Prod] = "wait"]
    /\ UNCHANGED <<consumer, reason, ended, pipeVars, allDocs, holder, ranking, last, lastFailed>>
    /\ UNCHANGED quotaVars

-----------------------------------------------------------------------------
(* _follow_links. *)

\* The page: none, one without links, or one whose best links are crawled next.
CrawlPage(d) ==
    /\ task[d] = "crawl"
    /\ \E stage \in {"over", "wait", "links"} : task' = [task EXCEPT ![d] = stage]
    /\ UNCHANGED <<consumer, reason, ended, pipeVars, allDocs, holder, ranking, last, lastFailed>>
    /\ UNCHANGED quotaVars

CrawlLinks(d) ==
    /\ task[d] = "links"
    /\ \E fetched \in SUBSET Docs :
        /\ Cardinality(fetched) <= MaxLinks
        /\ allDocs' = allDocs \cup fetched
    /\ task' = [task EXCEPT ![d] = "wait"]
    /\ UNCHANGED <<consumer, reason, ended, pipeVars, holder, ranking, last, lastFailed>>
    /\ UNCHANGED quotaVars

-----------------------------------------------------------------------------
(* _emit_final_results, called by all of them. *)

\* What a task does once it has emitted.
Continue(t) == IF t = Pipe THEN Resume(pending) ELSE IF t = Prod THEN "index" ELSE "over"

\* Mutant: without the lock.
RankUnlocked(t) ==
    /\ task[t] = "wait"
    /\ task' = [task EXCEPT ![t] = "rank"]
    /\ holder' = t /\ ranking' = [ranking EXCEPT ![t] = allDocs \cap Relevant]
    /\ UNCHANGED <<consumer, reason, ended, pipeVars, allDocs, last, lastFailed>>
    /\ UNCHANGED quotaVars

\* The lock is taken and the documents so far are handed to a thread to be scored.
Rank(t) ==
    /\ task[t] = "wait" /\ holder = NoTask
    /\ IF allDocs \cap Relevant = {}
       THEN /\ task' = [task EXCEPT ![t] = Continue(t)]
            /\ UNCHANGED <<holder, ranking>>
       ELSE /\ task' = [task EXCEPT ![t] = "rank"]
            /\ holder' = t /\ ranking' = [ranking EXCEPT ![t] = allDocs \cap Relevant]
    /\ UNCHANGED <<consumer, reason, ended, pipeVars, allDocs, last, lastFailed>>
    /\ UNCHANGED quotaVars

\* The best of what was found, as the ranking model has it: any that many.
Cut(found) ==
    IF Cardinality(found) <= FinalLimit THEN {found}
    ELSE {shown \in SUBSET found : Cardinality(shown) = FinalLimit}

\* The scores are there: unless the results are those emitted last, they are emitted.
Emit(t) ==
    /\ task[t] = "rank"
    /\ last' \in Cut(ranking[t])
    /\ holder' = NoTask /\ ranking' = [ranking EXCEPT ![t] = {}]
    /\ task' = [task EXCEPT ![t] = Continue(t)]
    /\ UNCHANGED <<consumer, reason, ended, pipeVars, allDocs, lastFailed>>
    /\ UNCHANGED quotaVars

-----------------------------------------------------------------------------
(* producer, and the response that reads its queue. *)

\* Mutant: a task that is cancelled while it holds the lock keeps it.
StopHolding(S, stage) ==
    /\ task' = [t \in Tasks |-> IF t = Prod THEN stage
                                ELSE IF t \in S /\ task[t] # "none" THEN "over" ELSE task[t]]
    /\ UNCHANGED <<holder, ranking>>

\* Tasks are stopped at the await they are at, which releases the lock.
Stop(S, stage) ==
    /\ task' = [t \in Tasks |-> IF t = Prod THEN stage
                                ELSE IF t \in S /\ task[t] # "none" THEN "over" ELSE task[t]]
    /\ holder' = IF holder \in S THEN NoTask ELSE holder
    /\ ranking' = [t \in Tasks |-> IF t \in S THEN {} ELSE ranking[t]]

\* Cancelling the pipeline cancels the tasks it is gathering; before that nobody has them.
Cancellable == IF task[Pipe] = "gather" THEN Docs \cup {Pipe} ELSE {Pipe}

\* wait_for runs out.
Deadline ==
    /\ task[Prod] = "run"
    /\ reason' = "timed_out"
    /\ Stop(Cancellable, "wait")
    /\ UNCHANGED <<consumer, ended, pipeVars, allDocs, last, lastFailed>>
    /\ UNCHANGED quotaVars

\* Mutant: the sentinel only after a search that got to its end.
PipelineRaisesSilently ==
    /\ task[Prod] = "run" /\ task[Pipe] \in {"score", "rank"} /\ faults < MaxFaults
    /\ reason' = "error"
    /\ Stop({Pipe}, "over")
    /\ faults' = faults + 1
    /\ UNCHANGED <<consumer, ended, pipeVars, allDocs, last, lastFailed>>
    /\ UNCHANGED <<request, count, charged, stale>>

\* Scoring raises in the pipeline: an error event and the sentinel.
PipelineRaises ==
    /\ task[Prod] = "run" /\ task[Pipe] \in {"score", "rank"} /\ faults < MaxFaults
    /\ reason' = "error" /\ ended' = TRUE
    /\ Stop({Pipe}, "over")
    /\ faults' = faults + 1
    /\ UNCHANGED <<consumer, pipeVars, allDocs, last, lastFailed>>
    /\ UNCHANGED <<request, count, charged, stale>>

\* Scoring raises in a task that follows links, which is the end of it, or in the producer,
\* which goes on to index.
RankingRaises(t) ==
    /\ t # Pipe /\ task[t] = "rank" /\ faults < MaxFaults
    /\ task' = [task EXCEPT ![t] = Continue(t)]
    /\ holder' = NoTask /\ ranking' = [ranking EXCEPT ![t] = {}]
    /\ lastFailed' = (lastFailed \/ t = Prod)
    /\ faults' = faults + 1
    /\ UNCHANGED <<consumer, reason, ended, pipeVars, allDocs, last>>
    /\ UNCHANGED <<request, count, charged, stale>>

\* _index_results, which logs what it raises, and the sentinel.
IndexResults ==
    /\ task[Prod] = "index"
    /\ task' = [task EXCEPT ![Prod] = "over"] /\ ended' = TRUE
    /\ UNCHANGED <<consumer, reason, pipeVars, allDocs, holder, ranking, last, lastFailed>>
    /\ UNCHANGED quotaVars

\* The sentinel is read and the done event sent; what is queued after it never is.
EndStream ==
    /\ consumer = "reading" /\ ended
    /\ consumer' = "ended"
    /\ UNCHANGED <<reason, ended, pipeVars, allDocs, task, holder, ranking, last, lastFailed>>
    /\ UNCHANGED quotaVars

\* The client goes: the producer is cancelled wherever it is, and with it the pipeline.
ClientGoes ==
    /\ consumer = "reading"
    /\ consumer' = "gone"
    /\ \/ /\ task[Prod] = "run"
          /\ reason' = "cancelled" /\ ended' = TRUE
          /\ Stop(Cancellable, "over")
       \/ /\ task[Prod] # "run"
          /\ Stop({Prod}, "over")
          /\ UNCHANGED <<reason, ended>>
    /\ UNCHANGED <<pipeVars, allDocs, last, lastFailed>>
    /\ UNCHANGED quotaVars

StreamInit ==
    /\ consumer = "none" /\ reason = "complete" /\ ended = FALSE
    /\ pending = Sources /\ hand = <<>> /\ allDocs = {}
    /\ offered = {} /\ considered = {} /\ heap = {} /\ promoted = {}
    /\ task = [t \in Tasks |-> "none"]
    /\ holder = NoTask /\ ranking = [t \in Tasks |-> {}]
    /\ last = {} /\ lastFailed = FALSE

StreamNext ==
    \/ \E s \in Sources : SourceReturns(s)
    \/ PromoteDocs \/ Gather
    \/ \E d \in Docs : CrawlPage(d) \/ CrawlLinks(d)
    \/ \E t \in Tasks : Rank(t) \/ Emit(t) \/ RankingRaises(t)
    \/ Deadline \/ PipelineRaises \/ IndexResults \/ EndStream \/ ClientGoes

Init == QuotaInit /\ StreamInit

Next == (QuotaNext /\ UNCHANGED streamVars) \/ StartStream \/ StreamNext

Spec == Init /\ [][Next]_vars

(* Fairness.  Threads return, the event loop runs the tasks that can go on, *)
(* and timers fire.  Sources and pages may never answer.                    *)
Fairness ==
    /\ \A t \in Tasks : WF_vars(Rank(t)) /\ WF_vars(Emit(t))
    /\ WF_vars(Deadline) /\ WF_vars(IndexResults) /\ WF_vars(EndStream)

-----------------------------------------------------------------------------
(* Properties. *)

\* Types of the variables; the lock is held by the task that has results in a thread to be
\* scored and by no other, cancellations and exceptions included.
StreamTypeOK ==
    /\ consumer \in {"none", "reading", "ended", "gone"}
    /\ reason \in {"complete", "timed_out", "cancelled", "error"}
    /\ ended \in BOOLEAN /\ lastFailed \in BOOLEAN
    /\ pending \subseteq Sources
    /\ allDocs \subseteq Docs /\ last \subseteq Docs
    /\ task \in [Tasks -> {"none", "collect", "score", "wait", "rank", "gather", "crawl",
                           "links", "run", "index", "over"}]
    /\ holder \in Tasks \cup {NoTask}
    /\ ranking \in [Tasks -> SUBSET Docs]
    /\ \A t \in Tasks : (task[t] = "rank" <=> holder = t) /\ (task[t] # "rank" => ranking[t] = {})

\* "The current authoritative ranking ... replace your displayed list on each": though several
\* tasks rank snapshots of all_docs in threads and documents arrive meanwhile, a results event
\* lacks nothing that an earlier one had, unless it is full.
ResultsGrow == [][last \subseteq last' \/ Cardinality(last') = FinalLimit]_vars

\* "Emitted ... once more at the end": when done says complete, no task of the search is left
\* and the last results event has every relevant document, or as many as an event holds,
\* whatever raised in tasks that follow links.
CompleteShowsAll ==
    ended /\ reason = "complete" /\ ~lastFailed
        => (\A d \in Docs : Over(d)) /\ last \in Cut(allDocs \cap Relevant)

\* Every URL that a source has returned was considered, and the heap holds the K best of the
\* results considered, in whatever order and however often URLs came.  A result is not
\* considered when its URL was promoted before, though it may be better now, so the heap may
\* lack one of the K best returned; but then its URL has its task.
TopKLive ==
    /\ Urls(considered) = offered
    /\ heap \subseteq considered /\ Urls(heap) \subseteq promoted /\ promoted \subseteq offered
    /\ \A r \in considered \ heap, e \in heap : r.score <= e.score
    /\ Cardinality(heap) = IF Cardinality(considered) < TopK THEN Cardinality(considered) ELSE TopK

\* A stream ends, whatever sources and pages do, with a done event or because the client
\* has gone.
StreamEnds == consumer = "reading" ~> consumer \in {"ended", "gone"}
=============================================================================
