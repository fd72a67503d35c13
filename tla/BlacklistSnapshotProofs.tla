---------------------- MODULE BlacklistSnapshotProofs -----------------------
(***************************************************************************)
(* For every number of workers, threads, publications and faults: the      *)
(* types, at most one loader per process, arrays no older than the version *)
(* they are held for, and the refinement of BlacklistFeed.                 *)
(*                                                                         *)
(* The three safety properties are not inductive.  Inv adds how the two    *)
(* keys and the task relate to the newest blob, what a thread inside       *)
(* load_now has read, and who owns _loading.                               *)
(***************************************************************************)
EXTENDS BlacklistSnapshot, TLAPS

\* The blob, while it is there, is the newest; nobody has published a version above it.
Published ==
    /\ newest <= upstream /\ built <= upstream
    /\ blob \in {0, newest}
    /\ version <= newest
    /\ task = "built" => newest <= built
    /\ task = "set" => newest = built

\* What thread t knows while it is inside load_now.
Reading(w, t) ==
    LET l == load[w][t]
    IN  /\ l.stage = "blob" => l.version <= newest
        /\ l.stage = "swap" => /\ l.version <= l.blob
                               /\ array[w] <= l.blob /\ l.blob <= newest
        /\ l.stage = "finish" => l.version <= array[w]

Loads ==
    \A w \in Workers :
        /\ loaded[w] <= array[w] /\ array[w] <= newest
        /\ \A t \in Slots : Reading(w, t)

\* The threads that may be between setting _loading and clearing it.
Owner(w, t) == Active(w, t) \/ (t # Boot /\ pc[w][t] = "start")

Owners ==
    \A w \in Workers :
        /\ \A s, t \in Slots : Owner(w, s) /\ Owner(w, t) => s = t
        /\ \A r \in Requests : Owner(w, r) => loading[w]
        /\ \A r \in Requests : Active(w, r) => pc[w][r] # "start"
        /\ Active(w, Boot) => \A r \in Requests : pc[w][r] = "idle"

Inv == TypeOK /\ Published /\ Loads /\ Owners

-----------------------------------------------------------------------------
(* Types. *)

\* Changing one thread's record keeps the type of load.
LEMMA UpdateType ==
    ASSUME NEW A, NEW B, NEW R, NEW f \in [A -> [B -> R]], NEW a \in A, NEW b \in B, NEW r \in R
    PROVE  [f EXCEPT ![a][b] = r] \in [A -> [B -> R]]
OBVIOUS

\* The values load_now gives its record.
LEMMA LoadStatesValues ==
    ASSUME NEW v \in Numbers, NEW b \in Numbers,
           NEW s \in {"none", "version", "blob", "swap", "finish"}
    PROVE  /\ [stage |-> s, version |-> v, blob |-> b] \in LoadStates
           /\ 0 \in Numbers
           /\ NotLoading \in LoadStates
BY SnapshotConstants DEF LoadStates, NotLoading, Numbers

\* Moving a request thread keeps the type of pc.
LEMMA PcUpdate ==
    ASSUME TypeOK, NEW w \in Workers, NEW r \in Requests, NEW at \in {"idle", "lock", "start"}
    PROVE  [pc EXCEPT ![w][r] = at] \in [Workers -> [Requests -> {"idle", "lock", "start"}]]
BY UpdateType DEF TypeOK

LEMMA BootingType == Booting \in [Slots -> LoadStates]
BY SnapshotConstants DEF Booting, LoadStates, NotLoading, Numbers

LEMMA InitTypeOK == Init => TypeOK
BY SnapshotConstants, BootingType DEF Init, TypeOK, Numbers

LEMMA ReturnType ==
    ASSUME TypeOK, NEW w \in Workers, NEW t \in Slots, Return(w, t)
    PROVE  /\ load' \in [Workers -> [Slots -> LoadStates]]
           /\ loading' \in [Workers -> BOOLEAN]
<1>1. load' \in [Workers -> [Slots -> LoadStates]]
  BY SnapshotConstants, LoadStatesValues, UpdateType DEF TypeOK, Return
<1>2. CASE t = Boot
  BY <1>1, <1>2 DEF TypeOK, Return
<1>3. CASE t # Boot
  BY <1>1, <1>3 DEF TypeOK, Return
<1>4. QED BY <1>2, <1>3

LEMMA NextTypeOK == TypeOK /\ [Next]_vars => TypeOK'
<1> SUFFICES ASSUME TypeOK, [Next]_vars PROVE TypeOK'
  OBVIOUS
<1> DEFINE LoadType == load' \in [Workers -> [Slots -> LoadStates]]
           PcType == pc' \in [Workers -> [Requests -> {"idle", "lock", "start"}]]
<1>1. CASE ListsChange
  BY <1>1, SnapshotConstants DEF ListsChange, workerVars, TypeOK
<1>2. CASE Refresh
  BY <1>2, SnapshotConstants
  DEF Refresh, BuildSnapshot, PublishBlob, PublishVersion, workerVars, TypeOK, Numbers
<1>3. CASE TaskFails \/ Evict
  BY <1>3, SnapshotConstants DEF TaskFails, Evict, Fault, workerVars, publishVars, TypeOK, Numbers
<1>4. ASSUME NEW w \in Workers, IntervalPasses(w) PROVE TypeOK'
  BY <1>4 DEF IntervalPasses, publishVars, TypeOK
<1>5. ASSUME NEW w \in Workers, Restart(w) PROVE TypeOK'
  BY <1>5, SnapshotConstants, BootingType DEF Restart, Fault, publishVars, TypeOK, Numbers
<1>6. ASSUME NEW w \in Workers, NEW t \in Slots, LoadStep(w, t) \/ LoadFails(w, t)
      PROVE  TypeOK'
  <2> DEFINE l == load[w][t]
  <2>0. l \in LoadStates
    BY DEF TypeOK
  <2>1. CASE ReadVersion(w, t)
    <3>1. CASE Return(w, t)
      BY <2>1, <3>1, ReturnType DEF ReadVersion, publishVars, TypeOK
    <3>2. CASE load' = [load EXCEPT ![w][t] = [stage |-> "blob", version |-> version, blob |-> 0]]
               /\ UNCHANGED loading
      <4>1. [stage |-> "blob", version |-> version, blob |-> 0] \in LoadStates
        BY SnapshotConstants DEF TypeOK, LoadStates, Numbers
      <4>2. LoadType
        BY <3>2, <4>1, UpdateType DEF TypeOK
      <4>3. QED BY <2>1, <3>2, <4>2 DEF ReadVersion, publishVars, TypeOK
    <3>3. QED BY <2>1, <3>1, <3>2 DEF ReadVersion
  <2>2. CASE ReadBlob(w, t)
    <3>1. CASE Return(w, t)
      BY <2>2, <3>1, ReturnType DEF ReadBlob, publishVars, TypeOK
    <3>2. CASE load' = [load EXCEPT ![w][t] =
                            [stage |-> "swap", version |-> l.version, blob |-> blob]]
               /\ UNCHANGED loading
      <4>1. LoadType
        BY <2>0, <3>2, LoadStatesValues, UpdateType DEF TypeOK, LoadStates
      <4>2. QED BY <2>2, <3>2, <4>1 DEF ReadBlob, publishVars, TypeOK
    <3>3. QED BY <2>2, <3>1, <3>2 DEF ReadBlob, TypeOK
  <2>3. CASE SwapArray(w, t)
    <3>1. load' = [load EXCEPT ![w][t] = [stage |-> "finish", version |-> l.version, blob |-> l.blob]]
      BY <2>3 DEF SwapArray, TypeOK
    <3>2. LoadType
      BY <2>0, <3>1, LoadStatesValues, UpdateType DEF TypeOK, LoadStates
    <3>3. QED BY <2>0, <2>3, <3>2 DEF SwapArray, publishVars, TypeOK, LoadStates
  <2>4. CASE Finish(w, t)
    BY <2>0, <2>4, ReturnType DEF Finish, publishVars, TypeOK, LoadStates
  <2>5. CASE LoadFails(w, t)
    BY <2>5, ReturnType DEF LoadFails, Fault, publishVars, TypeOK
  <2>6. QED BY <1>6, <2>1, <2>2, <2>3, <2>4, <2>5 DEF LoadStep
<1>7. ASSUME NEW w \in Workers, NEW r \in Requests,
             CheckDue(w, r) \/ RefreshStep(w, r) \/ StartThreadFails(w, r)
      PROVE  TypeOK'
  <2>1. CASE StartThread(w, r)
    <3>1. [stage |-> "version", version |-> 0, blob |-> 0] \in LoadStates
      BY SnapshotConstants DEF LoadStates, Numbers
    <3>2. LoadType
      BY <2>1, <3>1, UpdateType DEF StartThread, TypeOK, Slots
    <3>3. PcType
      BY <2>1, PcUpdate DEF StartThread, TypeOK
    <3>4. QED BY <2>1, <3>2, <3>3 DEF StartThread, publishVars, TypeOK
  <2>2. CASE ClaimRefresh(w, r)
    <3>1. PcType
      <4>1. \E at \in {"idle", "start"} : pc' = [pc EXCEPT ![w][r] = at]
        BY <2>2 DEF ClaimRefresh
      <4>2. QED BY <4>1, PcUpdate
    <3>2. due' \in [Workers -> BOOLEAN] /\ loading' \in [Workers -> BOOLEAN]
      BY <2>2 DEF ClaimRefresh, TypeOK
    <3>3. QED BY <2>2, <3>1, <3>2 DEF ClaimRefresh, publishVars, TypeOK
  <2>3. CASE CheckDue(w, r)
    <3>1. PcType
      BY <2>3, PcUpdate DEF CheckDue, TypeOK
    <3>2. QED BY <2>3, <3>1 DEF CheckDue, publishVars, TypeOK
  <2>4. CASE StartThreadFails(w, r)
    <3>1. PcType
      BY <2>4, PcUpdate DEF StartThreadFails, TypeOK
    <3>2. QED BY <2>4, <3>1 DEF StartThreadFails, Fault, publishVars, TypeOK
  <2>5. QED BY <1>7, <2>1, <2>2, <2>3, <2>4 DEF RefreshStep
<1>8. CASE UNCHANGED vars
  BY <1>8 DEF vars, publishVars, workerVars, TypeOK
<1>9. QED
  BY <1>1, <1>2, <1>3, <1>4, <1>5, <1>6, <1>7, <1>8 DEF Next

\* Every variable keeps its type.
THEOREM TypeCorrect == Spec => []TypeOK
BY InitTypeOK, NextTypeOK, PTL DEF Spec

-----------------------------------------------------------------------------
(* The two keys and the task. *)

LEMMA NextPublished == TypeOK /\ Published /\ [Next]_vars => Published'
<1> SUFFICES ASSUME TypeOK, Published, [Next]_vars PROVE Published'
  OBVIOUS
<1> USE SnapshotConstants DEF Published
<1>1. CASE ListsChange
  BY <1>1 DEF ListsChange, TypeOK, Numbers
<1>2. CASE Refresh
  BY <1>2 DEF Refresh, BuildSnapshot, PublishBlob, PublishVersion, TypeOK, Numbers
<1>3. CASE TaskFails \/ Evict
  BY <1>3 DEF TaskFails, Evict, TypeOK, Numbers
<1>4. CASE UNCHANGED publishVars
  BY <1>4 DEF publishVars
<1>5. ASSUME ~(ListsChange \/ Refresh \/ TaskFails \/ Evict) PROVE UNCHANGED publishVars
  BY <1>5 DEF Next, vars, IntervalPasses, Restart, LoadStep, ReadVersion, ReadBlob, SwapArray,
              Finish, LoadFails, CheckDue, RefreshStep, ClaimRefresh, StartThread,
              StartThreadFails
<1>6. QED BY <1>1, <1>2, <1>3, <1>4, <1>5

-----------------------------------------------------------------------------
(* Who owns _loading. *)

\* A step of load_now either ends the call, or leaves it inside and _loading alone.
LEMMA LoadEffect ==
    ASSUME TypeOK, NEW w \in Workers, NEW t \in Slots, LoadStep(w, t) \/ LoadFails(w, t)
    PROVE  /\ Active(w, t)
           /\ UNCHANGED pc
           /\ \/ Return(w, t)
              \/ /\ \E rec : rec.stage # "none" /\ load' = [load EXCEPT ![w][t] = rec]
                 /\ UNCHANGED loading
<1>1. CASE ReadVersion(w, t)
  BY <1>1 DEF ReadVersion, Active
<1>2. CASE ReadBlob(w, t)
  <2>1. ASSUME blob # 0
        PROVE  \E rec : rec.stage # "none" /\ load' = [load EXCEPT ![w][t] = rec]
    <3>1. load' = [load EXCEPT ![w][t] =
                      [stage |-> "swap", version |-> load[w][t].version, blob |-> blob]]
      BY <1>2, <2>1 DEF ReadBlob, TypeOK
    <3>2. QED BY <3>1
  <2>2. QED BY <1>2, <2>1 DEF ReadBlob, Active
<1>3. CASE SwapArray(w, t)
  <2>1. load' = [load EXCEPT ![w][t] = [stage |-> "finish", version |-> load[w][t].version,
                                        blob |-> load[w][t].blob]]
    BY <1>3 DEF SwapArray, TypeOK
  <2>2. QED BY <1>3, <2>1 DEF SwapArray, Active
<1>4. CASE Finish(w, t) \/ LoadFails(w, t)
  BY <1>4 DEF Finish, LoadFails, Active
<1>5. QED BY <1>1, <1>2, <1>3, <1>4 DEF LoadStep

LEMMA LoadOwners ==
    ASSUME TypeOK, Owners, NEW w \in Workers, NEW t \in Slots, LoadStep(w, t) \/ LoadFails(w, t)
    PROVE  Owners'
<1>1. Active(w, t) /\ UNCHANGED pc
  BY LoadEffect
<1>2. CASE Return(w, t)
  <2>1. \A v \in Workers, s \in Slots :
            Active(v, s)' <=> Active(v, s) /\ ~(v = w /\ s = t)
    BY <1>2 DEF Return, NotLoading, Active, TypeOK
  <2>2. \A v \in Workers : v # w \/ t = Boot => loading'[v] = loading[v]
    BY <1>2 DEF Return, TypeOK
  <2>3. QED BY <1>1, <2>1, <2>2 DEF Owners, Owner, Slots
<1>3. CASE /\ \E rec : rec.stage # "none" /\ load' = [load EXCEPT ![w][t] = rec]
           /\ UNCHANGED loading
  <2>1. \A v \in Workers, s \in Slots : Active(v, s)' <=> Active(v, s)
    BY <1>1, <1>3 DEF Active, TypeOK
  <2>2. QED BY <1>1, <1>3, <2>1 DEF Owners, Owner, Slots
<1>4. QED BY <1>2, <1>3, LoadEffect

LEMMA RequestOwners ==
    ASSUME TypeOK, Owners, SnapshotConstants, NEW w \in Workers, NEW r \in Requests,
           CheckDue(w, r) \/ RefreshStep(w, r) \/ StartThreadFails(w, r)
    PROVE  Owners'
<1>0. r \in Slots /\ r # Boot /\ Boot \in Slots
  BY DEF Slots, SnapshotConstants
<1>1. \A v \in Workers, q \in Requests : <<v, q>> # <<w, r>> => pc'[v][q] = pc[v][q]
  BY DEF CheckDue, RefreshStep, ClaimRefresh, StartThread, StartThreadFails, TypeOK
<1>2. CASE CheckDue(w, r)
  <2>1. pc[w][r] = "idle" /\ pc'[w][r] = "lock" /\ ~Active(w, Boot)
    BY <1>2 DEF CheckDue, TypeOK, Active
  <2>2. UNCHANGED <<load, loading>>
    BY <1>2 DEF CheckDue
  <2>3. QED BY <1>0, <1>1, <2>1, <2>2 DEF Owners, Owner, Active, Slots
<1>3. CASE ClaimRefresh(w, r)
  <2>1. pc[w][r] = "lock" /\ UNCHANGED load /\ ~Active(w, Boot)
    BY <1>3 DEF ClaimRefresh, Owners
  <2>2. CASE due[w] /\ ~loading[w]
    <3>1. pc'[w][r] = "start" /\ loading'[w]
      BY <1>3, <2>2 DEF ClaimRefresh, TypeOK
    <3>2. \A v \in Workers \ {w} : loading'[v] = loading[v]
      BY <1>3, <2>2 DEF ClaimRefresh, TypeOK
    <3>3. \A s \in Slots : ~Owner(w, s)
      BY <2>1, <2>2 DEF Owners, Owner, Slots
    <3>4. QED BY <1>0, <1>1, <2>1, <3>1, <3>2, <3>3 DEF Owners, Owner, Active, Slots
  <2>3. CASE ~(due[w] /\ ~loading[w])
    <3>1. pc'[w][r] = "idle" /\ UNCHANGED loading
      BY <1>3, <2>3 DEF ClaimRefresh, TypeOK
    <3>2. QED BY <1>0, <1>1, <2>1, <3>1 DEF Owners, Owner, Active, Slots
  <2>4. QED BY <2>2, <2>3
<1>4. CASE StartThread(w, r)
  <2>1. pc[w][r] = "start" /\ pc'[w][r] = "idle" /\ UNCHANGED loading
    BY <1>4 DEF StartThread, TypeOK
  <2>2. \A v \in Workers, s \in Slots : Active(v, s)' <=> Active(v, s) \/ (v = w /\ s = r)
    BY <1>0, <1>4 DEF StartThread, TypeOK, Active
  <2>3. ~Active(w, Boot)
    BY <2>1 DEF Owners
  <2>4. QED BY <1>0, <1>1, <2>1, <2>2, <2>3 DEF Owners, Owner, Slots
<1>5. CASE StartThreadFails(w, r)
  <2>1. pc[w][r] = "start" /\ pc'[w][r] = "idle" /\ UNCHANGED load
    BY <1>5 DEF StartThreadFails, TypeOK
  <2>2. \A v \in Workers \ {w} : loading'[v] = loading[v]
    BY <1>5 DEF StartThreadFails, TypeOK
  <2>3. \A s \in Slots : ~Owner(w, s)'
    <3>1. \A s \in Slots : Owner(w, s) => s = r
      BY <1>0, <2>1 DEF Owners, Owner
    <3>2. \A s \in Slots : Owner(w, s)' => Owner(w, s)
      BY <1>0, <1>1, <2>1 DEF Owner, Active, Slots
    <3>3. ~Owner(w, r)'
      BY <2>1 DEF Owners, Owner, Active
    <3>4. QED BY <3>1, <3>2, <3>3
  <2>4. QED BY <1>0, <1>1, <2>1, <2>2, <2>3 DEF Owners, Owner, Active, Slots
<1>6. QED BY <1>2, <1>3, <1>4, <1>5 DEF RefreshStep

LEMMA NextOwners == TypeOK /\ Owners /\ [Next]_vars => Owners'
<1> SUFFICES ASSUME TypeOK, Owners, [Next]_vars PROVE Owners'
  OBVIOUS
<1>1. CASE UNCHANGED <<pc, load, loading>>
  BY <1>1 DEF Owners, Owner, Active
<1>2. ASSUME NEW w \in Workers, Restart(w) PROVE Owners'
  <2>1. \A t \in Slots : Active(w, t)' => t = Boot
    BY <1>2, SnapshotConstants DEF Restart, Booting, NotLoading, Active, TypeOK
  <2>2. \A r \in Requests : pc'[w][r] = "idle"
    BY <1>2 DEF Restart, TypeOK
  <2>3. \A v \in Workers \ {w} : UNCHANGED <<pc[v], load[v], loading[v]>>
    BY <1>2 DEF Restart, TypeOK
  <2>4. QED BY <2>1, <2>2, <2>3, SnapshotConstants DEF Owners, Owner, Active, Slots
<1>3. QED
  BY <1>1, <1>2, LoadOwners, RequestOwners, SnapshotConstants
  DEF Next, vars, workerVars, ListsChange, Refresh, BuildSnapshot, PublishBlob, PublishVersion,
      TaskFails, Evict, IntervalPasses

-----------------------------------------------------------------------------
(* What load_now reads and stores. *)

LEMMA LoadLoads ==
    ASSUME TypeOK, Published, Loads, Owners, NEW w \in Workers, NEW t \in Slots,
           LoadStep(w, t) \/ LoadFails(w, t)
    PROVE  Loads'
<1> USE SnapshotConstants DEF TypeOK, Numbers
<1>1. \A s \in Slots \ {t} : load[w][s].stage = "none"
  BY LoadEffect DEF Owners, Owner, Active
<1>2. \A v \in Workers, s \in Slots : <<v, s>> # <<w, t>> => load'[v][s] = load[v][s]
  <2>1. PICK rec : load' = [load EXCEPT ![w][t] = rec]
    BY LoadEffect DEF Return
  <2>2. QED BY <2>1
<1>3. /\ UNCHANGED newest
      /\ \A v \in Workers \ {w} : UNCHANGED <<array[v], loaded[v]>>
  BY DEF LoadStep, ReadVersion, ReadBlob, SwapArray, Finish, LoadFails, publishVars
<1>4. load[w][t] \in LoadStates
  OBVIOUS
<1>5. Reading(w, t) /\ loaded[w] <= array[w] /\ array[w] <= newest
  BY DEF Loads
<1>6. SUFFICES /\ (loaded[w] <= array[w])' /\ (array[w] <= newest)'
               /\ Reading(w, t)'
  <2>1. \A v \in Workers : (loaded[v] <= array[v])' /\ (array[v] <= newest)'
    BY <1>3 DEF Loads
  <2>2. \A v \in Workers \ {w}, s \in Slots : Reading(v, s)'
    BY <1>2, <1>3 DEF Loads, Reading
  <2>3. \A s \in Slots \ {t} : Reading(w, s)'
    BY <1>1, <1>2 DEF Reading
  <2>4. QED BY <2>1, <2>2, <2>3 DEF Loads
<1>7. CASE UNCHANGED <<array, loaded>> /\ load'[w][t].stage = "none"
  BY <1>3, <1>5, <1>7 DEF Reading
<1>8. CASE ReadVersion(w, t)
  <2>1. CASE Return(w, t)
    BY <1>7, <1>8, <2>1 DEF ReadVersion, Return, NotLoading
  <2>2. CASE load'[w][t] = [stage |-> "blob", version |-> version, blob |-> 0]
    BY <1>3, <1>5, <1>8, <2>2 DEF ReadVersion, Reading, Published
  <2>3. QED BY <1>8, <2>1, <2>2 DEF ReadVersion
<1>9. CASE ReadBlob(w, t)
  <2>1. CASE blob = 0
    BY <1>7, <1>9, <2>1 DEF ReadBlob, Return, NotLoading
  <2>2. CASE blob # 0
    <3>1. load'[w][t] = [stage |-> "swap", version |-> load[w][t].version, blob |-> blob]
      BY <1>9, <2>2 DEF ReadBlob
    <3>2. UNCHANGED <<array, loaded>> /\ load[w][t].stage = "blob" /\ blob = newest
      BY <1>9, <2>2 DEF ReadBlob, Published
    <3>3. QED BY <1>3, <1>4, <1>5, <3>1, <3>2 DEF Reading, LoadStates
  <2>3. QED BY <2>1, <2>2
<1>10. CASE SwapArray(w, t)
  <2>1. array'[w] = load[w][t].blob /\ UNCHANGED loaded /\ load[w][t].stage = "swap"
    BY <1>10 DEF SwapArray
  <2>2. load'[w][t] = [stage |-> "finish", version |-> load[w][t].version,
                       blob |-> load[w][t].blob]
    BY <1>10 DEF SwapArray
  <2>3. QED BY <1>3, <1>4, <1>5, <2>1, <2>2 DEF Reading, LoadStates
<1>11. CASE Finish(w, t)
  <2>1. loaded'[w] = load[w][t].version /\ UNCHANGED array /\ load[w][t].stage = "finish"
    BY <1>11 DEF Finish
  <2>2. load'[w][t].stage = "none"
    BY <1>11 DEF Finish, Return, NotLoading
  <2>3. QED BY <1>3, <1>4, <1>5, <2>1, <2>2 DEF Reading, LoadStates
<1>12. CASE LoadFails(w, t)
  BY <1>7, <1>12 DEF LoadFails, Return, NotLoading
<1>13. QED BY <1>8, <1>9, <1>10, <1>11, <1>12 DEF LoadStep

LEMMA NextLoads == Inv /\ [Next]_vars => Loads'
<1> SUFFICES ASSUME Inv, [Next]_vars PROVE Loads'
  OBVIOUS
<1> USE SnapshotConstants DEF Inv
<1>1. CASE UNCHANGED <<array, loaded, load>> /\ newest <= newest'
  BY <1>1, NextTypeOK DEF Loads, Reading, TypeOK, Numbers, LoadStates
<1>2. ASSUME NEW w \in Workers, Restart(w) PROVE Loads'
  <2>1. /\ UNCHANGED newest
        /\ array'[w] = 0 /\ loaded'[w] = 0
        /\ \A t \in Slots : load'[w][t].stage \in {"none", "version"}
    BY <1>2 DEF Restart, Booting, NotLoading, publishVars, TypeOK
  <2>2. \A v \in Workers \ {w} : UNCHANGED <<array[v], loaded[v], load[v]>>
    BY <1>2 DEF Restart, TypeOK
  <2>3. \A t \in Slots : Reading(w, t)'
    BY <2>1 DEF Reading
  <2>4. (loaded[w] <= array[w])' /\ (array[w] <= newest)'
    BY <2>1 DEF TypeOK, Numbers
  <2>5. \A v \in Workers \ {w} : /\ (loaded[v] <= array[v])' /\ (array[v] <= newest)'
                               /\ \A t \in Slots : Reading(v, t)'
    BY <2>1, <2>2 DEF Loads, Reading
  <2>6. QED BY <2>3, <2>4, <2>5 DEF Loads
<1>3. ASSUME NEW w \in Workers, NEW r \in Requests, StartThread(w, r) PROVE Loads'
  <2>1. load'[w][r].stage = "version"
    BY <1>3 DEF StartThread, TypeOK, Slots
  <2>2. \A v \in Workers, s \in Slots : <<v, s>> # <<w, r>> => UNCHANGED load[v][s]
    BY <1>3 DEF StartThread, TypeOK
  <2>3. UNCHANGED <<newest, array, loaded>>
    BY <1>3 DEF StartThread, publishVars
  <2>4. \A v \in Workers, s \in Slots : Reading(v, s)'
    BY <2>1, <2>2, <2>3 DEF Loads, Reading
  <2>5. QED BY <2>3, <2>4 DEF Loads
<1>4. CASE PublishBlob
  BY <1>1, <1>4 DEF PublishBlob, workerVars, Published, TypeOK, Numbers
<1>5. QED
  BY <1>1, <1>2, <1>3, <1>4, LoadLoads
  DEF Next, vars, workerVars, publishVars, ListsChange, Refresh, BuildSnapshot, PublishVersion,
      TaskFails, Evict, IntervalPasses, CheckDue, RefreshStep, ClaimRefresh, StartThreadFails,
      TypeOK, Numbers

-----------------------------------------------------------------------------
(* The theorems. *)

LEMMA InitInv == Init => Inv
<1> SUFFICES ASSUME Init PROVE Inv
  OBVIOUS
<1>1. TypeOK
  BY InitTypeOK
<1>2. Published /\ Loads
  BY SnapshotConstants DEF Init, Published, Loads, Reading, Booting, NotLoading
<1>3. Owners
  BY SnapshotConstants DEF Init, Owners, Owner, Active, Booting, NotLoading, Slots
<1>4. QED BY <1>1, <1>2, <1>3 DEF Inv

\* The inductive invariant behind the theorems that follow: types, what the two keys can
\* hold against each other, what a load has read, and which thread owns _loading.
THEOREM Invariance == Spec => []Inv
<1>1. Inv /\ [Next]_vars => Inv'
  BY NextTypeOK, NextPublished, NextOwners, NextLoads DEF Inv
<1>2. QED BY InitInv, <1>1, PTL DEF Spec

\* _loading and its lock admit one thread of a process to load_now, however the unlocked
\* tests, the unlocked clears and failed thread starts interleave (_maybe_refresh, load_now).
THEOREM OneLoader == Spec => []SingleLoader
<1>1. Inv => SingleLoader
  BY DEF Inv, Owners, Owner, SingleLoader
<1>2. QED BY <1>1, Invariance, PTL

\* The array a worker filters with is at least as new as the version it holds it for
\* (publish_snapshot's write order against load_now's read order).
THEOREM ArrayNotOlder == Spec => []NotOlderThanVersion
<1>1. Inv => NotOlderThanVersion
  BY DEF Inv, Loads, NotOlderThanVersion
<1>2. QED BY <1>1, Invariance, PTL

\* The two-key protocol implements the feed: a worker only moves forward through published
\* lists, and nothing but a restart takes its list away (load_now, publish_snapshot).
THEOREM ImplementsFeed == Spec => FeedSpec
<1> DEFINE Starting == [w \in Workers |-> Active(w, Boot)]
<1>1. Init => Feed!Init
  <2> SUFFICES ASSUME Init PROVE Feed!Init
    OBVIOUS
  <2>1. \A w \in Workers : Active(w, Boot) = TRUE
    BY DEF Init, Booting, NotLoading, Active, Slots
  <2>2. QED BY <2>1 DEF Init, Feed!Init
<1>2. Inv /\ [Next]_vars => [Feed!Next]_<<newest, array, Starting>>
  <2> SUFFICES ASSUME Inv, [Next]_vars PROVE [Feed!Next]_<<newest, array, Starting>>
    OBVIOUS
  <2> USE SnapshotConstants DEF Inv
  <2>1. CASE UNCHANGED <<newest, array, load>>
    BY <2>1 DEF Active
  <2>2. CASE PublishBlob
    BY <2>2
    DEF PublishBlob, workerVars, Published, TypeOK, Numbers, Active, Feed!Next, Feed!Publish
  <2>3. ASSUME NEW w \in Workers, Restart(w) PROVE Feed!Next
    <3>1. Starting' = [Starting EXCEPT ![w] = TRUE]
      BY <2>3 DEF Restart, Booting, NotLoading, Active, Slots, TypeOK
    <3>2. Feed!Restart(w)
      BY <2>3, <3>1 DEF Restart, publishVars, Feed!Restart
    <3>3. QED BY <3>2 DEF Feed!Next
  <2>4. ASSUME NEW w \in Workers, NEW t \in Slots, SwapArray(w, t) PROVE Feed!Next
    <3>1. load[w][t].blob \in array[w] .. newest
      BY <2>4 DEF SwapArray, Loads, Reading, TypeOK, LoadStates, Numbers
    <3>2. UNCHANGED Starting
      BY <2>4 DEF SwapArray, Active, TypeOK
    <3>3. Feed!Load(w)
      BY <2>4, <3>1, <3>2 DEF SwapArray, publishVars, Feed!Load
    <3>4. QED BY <3>3 DEF Feed!Next
  <2>5. ASSUME NEW w \in Workers, NEW t \in Slots,
               ReadVersion(w, t) \/ ReadBlob(w, t) \/ Finish(w, t) \/ LoadFails(w, t)
        PROVE  Feed!Next \/ UNCHANGED <<newest, array, Starting>>
    <3>1. PICK rec : load' = [load EXCEPT ![w][t] = rec]
      BY <2>5, LoadEffect DEF LoadStep, Return
    <3>2. UNCHANGED <<newest, array>> /\ Active(w, t)
      BY <2>5 DEF ReadVersion, ReadBlob, Finish, LoadFails, Active, publishVars
    <3>3. \A v \in Workers, s \in Slots : <<v, s>> # <<w, t>> => Active(v, s)' = Active(v, s)
      BY <3>1 DEF TypeOK, Active
    <3>4. Starting' = [Starting EXCEPT ![w] = Active(w, Boot)']
      BY <3>3 DEF Slots
    <3>5. CASE Active(w, Boot)'= Active(w, Boot)
      BY <3>2, <3>3, <3>5 DEF Slots
    <3>6. CASE Active(w, Boot)' # Active(w, Boot)
      <4>1. t = Boot
        BY <3>3, <3>6 DEF Slots
      <4>2. Active(w, Boot)' = FALSE
        BY <4>1, <3>2, <3>6 DEF Active
      <4>3. Feed!Started(w)
        BY <3>2, <3>4, <4>2 DEF Feed!Started
      <4>4. QED BY <4>3 DEF Feed!Next
    <3>7. QED BY <3>5, <3>6
  <2>6. ASSUME NEW w \in Workers, NEW r \in Requests, StartThread(w, r)
        PROVE  UNCHANGED <<newest, array, Starting>>
    BY <2>6 DEF StartThread, publishVars, Active, TypeOK
  <2>7. QED
    BY <2>1, <2>2, <2>3, <2>4, <2>5, <2>6
    DEF Next, vars, workerVars, publishVars, ListsChange, Refresh, BuildSnapshot, PublishVersion,
        TaskFails, Evict, IntervalPasses, LoadStep, CheckDue, RefreshStep, ClaimRefresh,
        StartThreadFails
<1>3. QED BY <1>1, <1>2, Invariance, PTL DEF Spec, FeedSpec, Feed!Spec
-----------------------------------------------------------------------------
(* What convergence rests on. *)

\* _loading is set while a request thread is between its claim and the end of the thread it
\* starts, and at no other time: nothing that fails leaves it set.
LoadingOwned == \A w \in Workers : loading[w] <=> \E r \in Requests : Owner(w, r)

LEMMA NextOwned == Inv /\ LoadingOwned /\ [Next]_vars => LoadingOwned'
<1> SUFFICES ASSUME Inv, LoadingOwned, [Next]_vars PROVE LoadingOwned'
  OBVIOUS
<1> USE DEF Inv
<1>1. Owners'
  BY NextOwners
<1> SUFFICES ASSUME NEW v \in Workers, loading'[v] PROVE \E r \in Requests : Owner(v, r)'
  BY <1>1 DEF LoadingOwned, Owners
<1>2. CASE UNCHANGED <<pc, load, loading>>
  BY <1>2 DEF LoadingOwned, Owner, Active
<1>3. ASSUME NEW w \in Workers, NEW t \in Slots, LoadStep(w, t) \/ LoadFails(w, t)
      PROVE  \E r \in Requests : Owner(v, r)'
  <2>1. loading[v] /\ UNCHANGED pc /\ (v = w => t = Boot \/ ~Return(w, t))
    BY <1>3, LoadEffect DEF Return, TypeOK
  <2>2. PICK r \in Requests : Owner(v, r)
    BY <2>1 DEF LoadingOwned
  <2>3. r # Boot
    BY SnapshotConstants
  <2>4. Active(v, r) => Active(v, r)'
    <3>1. r \in Slots
      BY DEF Slots
    <3>2. PICK rec : load' = [load EXCEPT ![w][t] = rec] /\ (~Return(w, t) => rec.stage # "none")
      BY <1>3, LoadEffect DEF Return
    <3>3. CASE v # w \/ r # t
      BY <3>1, <3>2, <3>3 DEF Active, TypeOK
    <3>4. CASE v = w /\ r = t
      <4>1. rec.stage # "none" /\ load'[w][t] = rec
        BY <2>1, <2>3, <3>2, <3>4 DEF TypeOK
      <4>2. QED BY <3>4, <4>1 DEF Active
    <3>5. QED BY <3>3, <3>4
  <2>5. QED BY <2>1, <2>2, <2>4 DEF Owner
<1>4. ASSUME NEW w \in Workers, NEW q \in Requests,
             CheckDue(w, q) \/ RefreshStep(w, q) \/ StartThreadFails(w, q)
      PROVE  \E r \in Requests : Owner(v, r)'
  <2>1. q \in Slots /\ q # Boot
    BY SnapshotConstants DEF Slots
  <2>2. \A u \in Workers, r \in Requests : <<u, r>> # <<w, q>> =>
            UNCHANGED <<pc[u][r], load[u][r]>>
    BY <1>4 DEF CheckDue, RefreshStep, ClaimRefresh, StartThread, StartThreadFails, TypeOK, Slots
  <2>3. \A u \in Workers \ {w} : UNCHANGED loading[u]
    BY <1>4 DEF CheckDue, RefreshStep, ClaimRefresh, StartThread, StartThreadFails, TypeOK
  <2>4. CASE v # w
    BY <2>2, <2>3, <2>4 DEF LoadingOwned, Owner, Active
  <2>5. CASE v = w /\ StartThreadFails(w, q)
    BY <2>5 DEF StartThreadFails, TypeOK
  <2>6. CASE v = w /\ StartThread(w, q)
    <3>1. Active(w, q)'
      BY <2>1, <2>6 DEF StartThread, Active, TypeOK
    <3>2. QED BY <2>6, <3>1 DEF Owner
  <2>7. CASE v = w /\ (CheckDue(w, q) \/ ClaimRefresh(w, q))
    <3>1. pc[w][q] # "start" /\ UNCHANGED load
      BY <2>7 DEF CheckDue, ClaimRefresh
    <3>2. pc'[w][q] = "start" \/ UNCHANGED loading
      BY <2>7 DEF CheckDue, ClaimRefresh, TypeOK
    <3>3. CASE pc'[w][q] = "start"
      BY <2>1, <2>7, <3>3 DEF Owner
    <3>4. CASE UNCHANGED loading
      <4>1. PICK r \in Requests : Owner(w, r)
        BY <2>7, <3>4 DEF LoadingOwned
      <4>2. Owner(w, r)'
        BY <2>2, <3>1, <4>1 DEF Owner, Active
      <4>3. QED BY <2>7, <4>2
    <3>5. QED BY <3>2, <3>3, <3>4
  <2>8. QED BY <1>4, <2>4, <2>5, <2>6, <2>7 DEF RefreshStep
<1>5. ASSUME NEW w \in Workers, Restart(w) PROVE \E r \in Requests : Owner(v, r)'
  <2>1. v # w /\ loading[v] /\ UNCHANGED <<pc[v], load[v]>>
    BY <1>5 DEF Restart, TypeOK
  <2>2. QED BY <2>1 DEF LoadingOwned, Owner, Active
<1>6. QED
  BY <1>2, <1>3, <1>4, <1>5
  DEF Next, vars, workerVars, ListsChange, Refresh, BuildSnapshot, PublishBlob, PublishVersion,
      TaskFails, Evict, IntervalPasses

\* Whatever raises or restarts, _loading is set exactly while some thread is going to clear
\* it, so that no process is kept from refreshing for ever (_maybe_refresh).
THEOREM LoadingIsReleased == Spec => []LoadingOwned
<1>1. Init => LoadingOwned
  <2> SUFFICES ASSUME Init, NEW w \in Workers PROVE ~loading[w] /\ \A r \in Requests : ~Owner(w, r)
    BY DEF LoadingOwned
  <2>1. \A r \in Requests : load[w][r] = NotLoading /\ pc[w][r] = "idle"
    BY SnapshotConstants DEF Init, Booting, Slots
  <2>2. QED BY <2>1 DEF Init, Owner, Active, NotLoading
<1>2. QED BY <1>1, NextOwned, Invariance, PTL DEF Spec

\* Comparing versions is enough (load_now): a worker that holds the newest version filters
\* against the newest blacklist.
UpToDate == \A w \in Workers : loaded[w] = newest => array[w] = newest

THEOREM VersionsSuffice == Spec => []UpToDate
<1>1. Inv => UpToDate
  BY SnapshotConstants DEF Inv, TypeOK, Numbers, Loads, UpToDate
<1>2. QED BY <1>1, Invariance, PTL
=============================================================================
