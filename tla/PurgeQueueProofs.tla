-------------------------- MODULE PurgeQueueProofs --------------------------
(***************************************************************************)
(* The bound on the purge queue, for any number of searchers, any batch    *)
(* and queue size.  The size check and the SADD are apart, so the bound is *)
(* kept by counting the searchers between the two: each of them may still  *)
(* add MaxFound documents, and none could get there over a full queue.     *)
(***************************************************************************)
EXTENDS PurgeQueue, FiniteSetTheorems, TLAPS

SearchState == [stage : {"idle", "check", "add", "record"}, found : SUBSET Payloads]

Adding == {s \in Searchers : searching[s].stage = "add"}

SmallQueries == \A s \in Searchers : Cardinality(searching[s].found) <= MaxFound

RoomLeft == Cardinality(queue) + Cardinality(Adding) * MaxFound
                <= MaxQueueSize - 1 + Cardinality(Searchers) * MaxFound

Inv == TypeOK /\ SmallQueries /\ RoomLeft

-----------------------------------------------------------------------------
LEMMA FiniteFacts ==
    ASSUME QueueConstants, TypeOK
    PROVE  /\ IsFiniteSet(Adding) /\ Cardinality(Adding) \in Nat
           /\ Cardinality(Adding) <= Cardinality(Searchers)
           /\ Cardinality(Searchers) \in Nat
           /\ IsFiniteSet(queue) /\ Cardinality(queue) \in Nat
           /\ \A s \in Searchers : IsFiniteSet(searching[s].found)
                                   /\ Cardinality(searching[s].found) \in Nat
<1>1. Adding \in SUBSET Searchers
  BY DEF Adding
<1>2. \A S \in SUBSET Payloads : IsFiniteSet(S) /\ Cardinality(S) \in Nat
  <2> TAKE S \in SUBSET Payloads
  <2>1. IsFiniteSet(S)
    BY FS_Subset DEF QueueConstants
  <2>2. QED BY <2>1, FS_CardinalityType
<1>3. QED BY <1>1, <1>2, FS_Subset, FS_CardinalityType DEF QueueConstants, TypeOK

LEMMA InitInv == QueueConstants /\ Init => Inv
<1> SUFFICES ASSUME QueueConstants, Init PROVE Inv
  OBVIOUS
<1>1. TypeOK /\ Adding = {}
  BY DEF Init, TypeOK, Idle, Adding
<1>2. SmallQueries
  <2>1. \A s \in Searchers : searching[s].found = {}
    BY DEF Init, Idle
  <2>2. Cardinality({}) = 0
    BY FS_EmptySet
  <2>3. QED BY <2>1, <2>2 DEF SmallQueries, QueueConstants
<1>3. Cardinality(Searchers) * MaxFound \in Nat
  BY <1>1, FiniteFacts DEF QueueConstants
<1>4. RoomLeft
  BY <1>1, <1>3, FS_EmptySet DEF Init, RoomLeft, QueueConstants
<1>5. QED BY <1>1, <1>2, <1>4 DEF Inv

\* Where a searcher goes, and with what.
LEMMA MoveInv ==
    ASSUME QueueConstants, TypeOK, SmallQueries, NEW s \in Searchers,
           NEW new \in SearchState, Cardinality(new.found) <= MaxFound,
           searching' = [searching EXCEPT ![s] = new]
    PROVE  /\ searching' \in [Searchers -> SearchState] /\ SmallQueries'
           /\ Adding' = IF new.stage = "add" THEN Adding \cup {s} ELSE Adding \ {s}
<1>1. \A r \in Searchers : searching'[r] = IF r = s THEN new ELSE searching[r]
  BY DEF TypeOK
<1>2. QED BY <1>1 DEF TypeOK, SearchState, SmallQueries, Adding

LEMMA IdleSmall == QueueConstants => Idle \in SearchState /\ Cardinality(Idle.found) <= MaxFound
BY FS_EmptySet DEF Idle, SearchState, QueueConstants

\* Room is kept when the queue does not grow and nobody comes to add.
LEMMA ShrinkRoom ==
    ASSUME QueueConstants, TypeOK, TypeOK', RoomLeft,
           queue' \subseteq queue, Adding' \subseteq Adding
    PROVE  RoomLeft'
<1>1. Cardinality(queue') <= Cardinality(queue) /\ Cardinality(Adding') <= Cardinality(Adding)
  BY FiniteFacts, FS_Subset
<1>2. Cardinality(Adding') * MaxFound <= Cardinality(Adding) * MaxFound
  <2>1. \A i, j, m \in Nat : i <= j => i * m <= j * m
    BY SMTT(30)
  <2>2. Cardinality(Adding') \in Nat /\ Cardinality(Adding) \in Nat
    BY FiniteFacts, FS_Subset, FS_CardinalityType
  <2>3. QED BY <1>1, <2>1, <2>2 DEF QueueConstants
<1>3. QED
  <2> DEFINE a == Cardinality(Adding) * MaxFound
             b == Cardinality(Adding') * MaxFound
             c == Cardinality(Searchers) * MaxFound
  <2>1. /\ a \in Nat /\ b \in Nat /\ c \in Nat
        /\ Cardinality(queue) \in Nat /\ Cardinality(queue') \in Nat
    BY FiniteFacts, FS_Subset, FS_CardinalityType DEF QueueConstants
  <2>2. Cardinality(queue) + a <= MaxQueueSize - 1 + c
    BY DEF RoomLeft
  <2>3. b <= a
    BY <1>2
  <2> HIDE DEF a, b, c
  <2>4. Cardinality(queue') + b <= MaxQueueSize - 1 + c
    BY <1>1, <2>1, <2>2, <2>3 DEF QueueConstants
  <2>5. QED BY <2>4 DEF RoomLeft, b, c

\* A searcher that has just seen room: the queue is below its limit.
LEMMA CheckRoom ==
    ASSUME QueueConstants, TypeOK, TypeOK',
           UNCHANGED queue, Cardinality(queue) < MaxQueueSize
    PROVE  RoomLeft'
<1>1. /\ Cardinality(Adding') \in Nat /\ Cardinality(Adding') <= Cardinality(Searchers)
      /\ Cardinality(Searchers) \in Nat /\ Cardinality(queue) \in Nat
  <2>1. Adding' \in SUBSET Searchers
    BY DEF Adding
  <2>2. QED BY <2>1, FiniteFacts, FS_Subset, FS_CardinalityType DEF QueueConstants
<1>2. Cardinality(Adding') * MaxFound <= Cardinality(Searchers) * MaxFound
  <2>1. \A i, j, m \in Nat : i <= j => i * m <= j * m
    BY SMTT(30)
  <2>2. QED BY <1>1, <2>1 DEF QueueConstants
<1>3. Cardinality(queue') + Cardinality(Adding') * MaxFound
          <= MaxQueueSize - 1 + Cardinality(Searchers) * MaxFound
  <2> DEFINE b == Cardinality(Adding') * MaxFound
             c == Cardinality(Searchers) * MaxFound
  <2>1. b \in Nat /\ c \in Nat /\ b <= c
    BY <1>1, <1>2 DEF QueueConstants
  <2> HIDE DEF b, c
  <2>2. Cardinality(queue') + b <= MaxQueueSize - 1 + c
    BY <1>1, <2>1 DEF QueueConstants
  <2>3. QED BY <2>2 DEF b, c
<1>4. QED BY <1>3 DEF RoomLeft

\* A searcher adds what it found, and stops being one that may.
LEMMA AddRoom ==
    ASSUME QueueConstants, TypeOK, TypeOK', SmallQueries, RoomLeft,
           NEW s \in Searchers, searching[s].stage = "add",
           queue' = queue \cup searching[s].found, Adding' = Adding \ {s}
    PROVE  RoomLeft'
<1> DEFINE n == Cardinality(Adding)
           f == Cardinality(searching[s].found)
<1>1. n \in Nat /\ f \in Nat /\ f <= MaxFound /\ Cardinality(queue) \in Nat
  BY FiniteFacts DEF SmallQueries
<1>2. Cardinality(Adding') = n - 1 /\ n - 1 \in Nat
  <2>1. s \in Adding /\ IsFiniteSet(Adding)
    BY FiniteFacts DEF Adding
  <2>2. Cardinality(Adding \ {s}) = n - 1
    BY <2>1, FS_RemoveElement
  <2>3. Cardinality(Adding \ {s}) \in Nat
    BY <2>1, FS_RemoveElement, FS_CardinalityType
  <2>4. QED BY <2>2, <2>3
<1>3. Cardinality(queue') \in Nat /\ Cardinality(queue') <= Cardinality(queue) + f
  <2>1. IsFiniteSet(queue) /\ IsFiniteSet(searching[s].found)
    BY FiniteFacts
  <2>2. Cardinality(queue \cup searching[s].found) =
            Cardinality(queue) + f - Cardinality(queue \cap searching[s].found)
    BY <2>1, FS_Union
  <2>3. IsFiniteSet(queue \cap searching[s].found) /\ IsFiniteSet(queue \cup searching[s].found)
    BY <2>1, FS_Union, FS_Subset
  <2>4. Cardinality(queue \cap searching[s].found) \in Nat
        /\ Cardinality(queue \cup searching[s].found) \in Nat
    BY <2>3, FS_CardinalityType
  <2>5. QED BY <1>1, <2>2, <2>4
<1>4. (n - 1) * MaxFound + MaxFound = n * MaxFound
  <2>1. \A i, m \in Nat : (i - 1) * m + m = i * m
    BY SMTT(30)
  <2>2. QED BY <1>1, <2>1 DEF QueueConstants
<1>5. n * MaxFound \in Nat /\ (n - 1) * MaxFound \in Nat
      /\ Cardinality(Searchers) * MaxFound \in Nat
  BY <1>1, <1>2, FiniteFacts DEF QueueConstants
<1>6. QED
  <2> DEFINE a == n * MaxFound
             b == (n - 1) * MaxFound
             c == Cardinality(Searchers) * MaxFound
  <2>1. Cardinality(queue) + a <= MaxQueueSize - 1 + c
    BY DEF RoomLeft
  <2>2. b + MaxFound = a /\ a \in Nat /\ b \in Nat /\ c \in Nat
    BY <1>4, <1>5
  <2> HIDE DEF a, b, c, f
  <2>3. Cardinality(queue') + b <= MaxQueueSize - 1 + c
    BY <1>1, <1>3, <2>1, <2>2 DEF QueueConstants
  <2>4. QED BY <1>2, <2>3 DEF RoomLeft, b, c

-----------------------------------------------------------------------------
LEMMA NextInv == QueueConstants /\ Inv /\ [Next]_queueVars => Inv'
<1> SUFFICES ASSUME QueueConstants, Inv, [Next]_queueVars PROVE Inv'
  OBVIOUS
<1> USE DEF Inv
<1>1. ASSUME NEW s \in Searchers, NEW documents \in Surfaced, Enqueue(s, documents)
      PROVE  Inv'
  <2> DEFINE payloads == documents \ recent[s]
             new == [stage |-> "check", found |-> payloads]
  <2>1. new \in SearchState /\ Cardinality(payloads) <= MaxFound
    <3>1. documents \in SUBSET Payloads /\ Cardinality(documents) <= MaxFound
      BY DEF Surfaced
    <3>2. IsFiniteSet(documents) /\ payloads \in SUBSET documents
      BY <3>1, FS_Subset DEF QueueConstants
    <3>3. Cardinality(payloads) <= Cardinality(documents)
          /\ Cardinality(payloads) \in Nat /\ Cardinality(documents) \in Nat
      BY <3>2, FS_Subset, FS_CardinalityType
    <3>4. QED BY <3>1, <3>3 DEF SearchState, QueueConstants
  <2>2. searching' = [searching EXCEPT ![s] = new] /\ UNCHANGED <<recent, queue, faults>>
    BY <1>1 DEF Enqueue
  <2>3. searching' \in [Searchers -> SearchState] /\ SmallQueries' /\ Adding' = Adding \ {s}
    BY <2>1, <2>2, MoveInv
  <2>4. TypeOK'
    BY <2>2, <2>3 DEF TypeOK, SearchState
  <2>5. QED BY <2>2, <2>3, <2>4, ShrinkRoom
<1>2. ASSUME NEW s \in Searchers, CheckQueueSize(s) PROVE Inv'
  <2>1. CASE Cardinality(queue) >= MaxQueueSize
    <3>1. searching' = [searching EXCEPT ![s] = Idle] /\ UNCHANGED <<recent, queue, faults>>
      BY <1>2, <2>1 DEF CheckQueueSize
    <3>2. searching' \in [Searchers -> SearchState] /\ SmallQueries' /\ Adding' = Adding \ {s}
      BY <3>1, MoveInv, IdleSmall DEF Idle
    <3>3. TypeOK'
      BY <3>1, <3>2 DEF TypeOK, SearchState
    <3>4. QED BY <3>1, <3>2, <3>3, ShrinkRoom
  <2>2. CASE ~(Cardinality(queue) >= MaxQueueSize)
    <3> DEFINE new == [stage |-> "add", found |-> searching[s].found]
    <3>1. searching' = [searching EXCEPT ![s] = new] /\ UNCHANGED <<recent, queue, faults>>
      BY <1>2, <2>2 DEF CheckQueueSize, TypeOK
    <3>2. new \in SearchState /\ Cardinality(new.found) <= MaxFound
      BY DEF TypeOK, SearchState, SmallQueries
    <3>3. searching' \in [Searchers -> SearchState] /\ SmallQueries'
      BY <3>1, <3>2, MoveInv
    <3>4. TypeOK'
      BY <3>1, <3>3 DEF TypeOK, SearchState
    <3>5. Cardinality(queue) < MaxQueueSize
      BY <2>2, FiniteFacts DEF QueueConstants
    <3>6. QED BY <3>1, <3>3, <3>4, <3>5, CheckRoom
  <2>3. QED BY <2>1, <2>2
<1>3. ASSUME NEW s \in Searchers, AddToQueue(s) PROVE Inv'
  <2> DEFINE new == [stage |-> "record", found |-> searching[s].found]
  <2>1. searching' = [searching EXCEPT ![s] = new] /\ UNCHANGED <<recent, faults>>
        /\ searching[s].stage = "add" /\ queue' = queue \cup searching[s].found
    BY <1>3 DEF AddToQueue, TypeOK
  <2>2. new \in SearchState /\ Cardinality(new.found) <= MaxFound /\ searching[s].found \subseteq Payloads
    BY DEF TypeOK, SearchState, SmallQueries
  <2>3. searching' \in [Searchers -> SearchState] /\ SmallQueries' /\ Adding' = Adding \ {s}
    BY <2>1, <2>2, MoveInv
  <2>4. TypeOK'
    BY <2>1, <2>2, <2>3 DEF TypeOK, SearchState
  <2>5. QED BY <2>1, <2>3, <2>4, AddRoom
<1>4. ASSUME NEW s \in Searchers, RecordEnqueued(s) PROVE Inv'
  <2>1. searching' = [searching EXCEPT ![s] = Idle] /\ UNCHANGED <<queue, faults>>
        /\ recent' \in [Searchers -> SUBSET Payloads]
    BY <1>4 DEF RecordEnqueued, TypeOK
  <2>2. searching' \in [Searchers -> SearchState] /\ SmallQueries' /\ Adding' = Adding \ {s}
    BY <2>1, MoveInv, IdleSmall DEF Idle
  <2>3. TypeOK'
    BY <2>1, <2>2 DEF TypeOK, SearchState
  <2>4. QED BY <2>1, <2>2, <2>3, ShrinkRoom
<1>5. ASSUME NEW s \in Searchers, RedisFails(s) PROVE Inv'
  <2>1. searching' = [searching EXCEPT ![s] = Idle] /\ UNCHANGED recent /\ faults' \in Nat
    BY <1>5 DEF RedisFails, TypeOK
  <2>2. searching' \in [Searchers -> SearchState] /\ SmallQueries' /\ Adding' = Adding \ {s}
    BY <2>1, MoveInv, IdleSmall DEF Idle
  <2>3. queue' \subseteq Payloads
    BY <1>5 DEF RedisFails, TypeOK
  <2>4. TypeOK'
    BY <2>1, <2>2, <2>3 DEF TypeOK, SearchState
  <2>5. QED BY <1>5, <2>2, <2>4, ShrinkRoom, AddRoom DEF RedisFails
<1>6. ASSUME NEW s \in Searchers, NEW p \in Payloads, Forget(s, p) PROVE Inv'
  <2>1. recent' \in [Searchers -> SUBSET Payloads] /\ UNCHANGED <<searching, queue, faults>>
    BY <1>6 DEF Forget, TypeOK
  <2>2. QED BY <2>1 DEF TypeOK, SmallQueries, RoomLeft, Adding
<1>7. ASSUME \/ \E batch \in SUBSET queue : Drain(batch)
             \/ EvictQueue
      PROVE  Inv'
  <2>1. queue' \subseteq queue /\ faults' \in Nat /\ UNCHANGED <<searching, recent>>
    BY <1>7 DEF Drain, EvictQueue, TypeOK
  <2>2. TypeOK' /\ SmallQueries' /\ Adding' = Adding
    BY <2>1 DEF TypeOK, SmallQueries, Adding
  <2>3. QED BY <2>1, <2>2, ShrinkRoom
<1>8. CASE UNCHANGED queueVars
  BY <1>8 DEF queueVars, TypeOK, SmallQueries, RoomLeft, Adding
<1>9. QED
  BY <1>1, <1>2, <1>3, <1>4, <1>5, <1>6, <1>7, <1>8 DEF Next, Progress

\* The queue, the searchers and what they remember keep their types, whatever fails or is
\* evicted (enqueue_for_purge, drain_purge_queue).
THEOREM TypeCorrect == Spec => []TypeOK
<1>1. QueueConstants /\ Inv => TypeOK
  BY DEF Inv
<1>2. QED BY QueueConstants, InitInv, NextInv, <1>1, PTL DEF Spec

\* The queue never holds as many documents as its limit and one query of each searcher
\* together, however size checks, SADDs, drains and failures interleave (enqueue_for_purge).
THEOREM QueueStaysBounded == Spec => []QueueBounded
<1>1. QueueConstants /\ Inv => QueueBounded
  <2> SUFFICES ASSUME QueueConstants, Inv PROVE QueueBounded
    OBVIOUS
  <2> DEFINE a == Cardinality(Adding) * MaxFound
             c == Cardinality(Searchers) * MaxFound
  <2>1. a \in Nat /\ c \in Nat /\ Cardinality(queue) \in Nat
    BY FiniteFacts DEF Inv, QueueConstants
  <2>2. Cardinality(queue) + a <= MaxQueueSize - 1 + c
    BY DEF Inv, RoomLeft
  <2> HIDE DEF a, c
  <2>3. Cardinality(queue) < MaxQueueSize + c
    BY <2>1, <2>2 DEF QueueConstants
  <2>4. QED BY <2>3 DEF QueueBounded, c
<1>2. QED BY QueueConstants, InitInv, NextInv, <1>1, PTL DEF Spec
=============================================================================
