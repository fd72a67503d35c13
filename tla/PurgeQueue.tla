----------------------------- MODULE PurgeQueue -----------------------------
(***************************************************************************)
(* purge_queue.py: the hand-off between retrieval, which drops blacklisted *)
(* documents from a result and queues them, and the background purge.  The *)
(* queue is a Redis SET of payloads; each web worker also remembers what   *)
(* it has queued recently.  enqueue_for_purge is a sequence of round trips *)
(* (SCARD, SADD) between which the other workers and the purge run.        *)
(***************************************************************************)
EXTENDS Naturals, FiniteSets

CONSTANTS
    Payloads,
    Searchers,    \* threads answering queries
    MaxFound,     \* documents one query can surface
    MaxQueueSize, \* MAX_QUEUE_SIZE
    BatchSize,    \* BLACKLIST_PURGE_BATCH_SIZE
    MaxFaults     \* bound on Redis failures and evictions

ASSUME QueueConstants ==
    /\ IsFiniteSet(Payloads) /\ IsFiniteSet(Searchers)
    /\ MaxFound \in Nat /\ MaxQueueSize \in Nat \ {0} /\ BatchSize \in Nat \ {0}
    /\ MaxFaults \in Nat

VARIABLES
    searching,  \* searcher -> where it is in enqueue_for_purge, with what
    recent,     \* searcher -> _recently_enqueued
    queue,      \* PURGE_QUEUE_KEY
    faults      \* counter for the bound

queueVars == <<searching, recent, queue, faults>>

Idle == [stage |-> "idle", found |-> {}]

\* _unqueued, at the head of enqueue_for_purge.
Enqueue(s, documents) ==
    LET payloads == documents \ recent[s]
    IN  /\ searching[s] = Idle
        /\ payloads # {}
        /\ searching' = [searching EXCEPT ![s] = [stage |-> "check", found |-> payloads]]
        /\ UNCHANGED <<recent, queue, faults>>

\* Mutant: no cap.
CheckNoQueueSize(s) ==
    /\ searching[s].stage = "check"
    /\ searching' = [searching EXCEPT ![s] = [stage |-> "add", found |-> @.found]]
    /\ UNCHANGED <<recent, queue, faults>>

CheckQueueSize(s) ==
    /\ searching[s].stage = "check"
    /\ searching' = [searching EXCEPT ![s] =
            IF Cardinality(queue) >= MaxQueueSize THEN Idle
            ELSE [stage |-> "add", found |-> @.found]]
    /\ UNCHANGED <<recent, queue, faults>>

\* Mutant: the list of payloads is added as one member.
AddListToQueue(s) ==
    /\ searching[s].stage = "add"
    /\ queue' = queue \cup {searching[s].found}
    /\ searching' = [searching EXCEPT ![s] = [stage |-> "record", found |-> @.found]]
    /\ UNCHANGED <<recent, faults>>

AddToQueue(s) ==
    /\ searching[s].stage = "add"
    /\ queue' = queue \cup searching[s].found
    /\ searching' = [searching EXCEPT ![s] = [stage |-> "record", found |-> @.found]]
    /\ UNCHANGED <<recent, faults>>

\* _record_enqueued
RecordEnqueued(s) ==
    /\ searching[s].stage = "record"
    /\ recent' = [recent EXCEPT ![s] = @ \cup searching[s].found]
    /\ searching' = [searching EXCEPT ![s] = Idle]
    /\ UNCHANGED <<queue, faults>>

\* A record outlives _RECENTLY_ENQUEUED_TTL, or newer ones push it out.
Forget(s, p) ==
    /\ p \in recent[s]
    /\ recent' = [recent EXCEPT ![s] = @ \ {p}]
    /\ UNCHANGED <<searching, queue, faults>>

\* drain_purge_queue: SPOP takes any batch of that size.
Drain(batch) ==
    /\ batch \subseteq queue /\ batch # {}
    /\ Cardinality(batch) = IF Cardinality(queue) <= BatchSize
                            THEN Cardinality(queue) ELSE BatchSize
    /\ queue' = queue \ batch
    /\ UNCHANGED <<searching, recent, faults>>

\* A Redis call of enqueue_for_purge raises (the SADD may have been applied all the same);
\* the exception is swallowed and nothing is recorded.
RedisFails(s) ==
    /\ faults < MaxFaults
    /\ searching[s].stage \in {"check", "add"}
    /\ \/ UNCHANGED queue
       \/ searching[s].stage = "add" /\ queue' = queue \cup searching[s].found
    /\ searching' = [searching EXCEPT ![s] = Idle]
    /\ faults' = faults + 1
    /\ UNCHANGED recent

\* allkeys-lru evicts the queue.
EvictQueue ==
    /\ faults < MaxFaults
    /\ queue # {}
    /\ queue' = {}
    /\ faults' = faults + 1
    /\ UNCHANGED <<searching, recent>>

Init ==
    /\ searching = [s \in Searchers |-> Idle]
    /\ recent = [s \in Searchers |-> {}]
    /\ queue = {}
    /\ faults = 0

Surfaced == {documents \in SUBSET Payloads : Cardinality(documents) <= MaxFound}

\* One request's progress through enqueue_for_purge once it has started.
Progress(s) == CheckQueueSize(s) \/ AddToQueue(s) \/ RecordEnqueued(s)

Next ==
    \/ \E s \in Searchers :
        \/ \E documents \in Surfaced : Enqueue(s, documents)
        \/ Progress(s)
        \/ \E p \in Payloads : Forget(s, p)
        \/ RedisFails(s)
    \/ \E batch \in SUBSET queue : Drain(batch)
    \/ EvictQueue

Spec == Init /\ [][Next]_queueVars

-----------------------------------------------------------------------------
(* Properties. *)

\* Types of the variables.
TypeOK ==
    /\ searching \in [Searchers -> [stage : {"idle", "check", "add", "record"},
                                    found : SUBSET Payloads]]
    /\ recent \in [Searchers -> SUBSET Payloads]
    /\ queue \in SUBSET Payloads
    /\ faults \in Nat

\* "It must not grow without bound": the size check and the SADD are two round trips, so
\* requests can overshoot MAX_QUEUE_SIZE, but together by no more than one query's
\* documents each, however they interleave with one another and with the purge.
QueueBounded ==
    Cardinality(queue) < MaxQueueSize + Cardinality(Searchers) * MaxFound
=============================================================================
