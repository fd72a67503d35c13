--------------------------- MODULE AccountProofs ---------------------------
(***************************************************************************)
(* The account, for any number of keys, requests, handlers and calls.  For *)
(* the keys: the age of a lost row and the life left to its cache entry    *)
(* never exceed CACHE_TTL together.  For the row: what must hold of it     *)
(* must hold of every copy a handler holds, because copies are saved whole.*)
(***************************************************************************)
EXTENDS Account, TLAPS

AgesAddUp ==
    \A k \in Keys : /\ Backed(k) \/ k \notin issued => age[k] = 0
                    /\ cached[k] + age[k] <= CacheTTL

KeysInv == KeysTypeOK /\ AgesAddUp

-----------------------------------------------------------------------------
(* The keys. *)

LEMMA KeysInitInv == KeyConstants /\ KeysInit => KeysInv
BY DEF KeyConstants, KeysInit, KeysInv, KeysTypeOK, AgesAddUp, NoRequest, NoRevoke

\* A step that touches neither cache, ages nor requests keeps the sum, if no row appears
\* for a key that already had one.
LEMMA RowStepInv ==
    ASSUME KeysInv, KeysTypeOK', UNCHANGED <<cached, request, age>>,
           issued \subseteq issued',
           \A k \in rows' \ rows : k \notin issued
    PROVE  KeysInv'
BY DEF KeysInv, AgesAddUp, Backed, Filling

LEMMA AuthenticateInv ==
    ASSUME KeyConstants, KeysInv, NEW r \in Requests, Authenticate(r)
    PROVE  KeysInv'
<1> USE DEF KeysInv, KeysTypeOK
<1>1. ASSUME NEW k \in Keys, LookUp(r, k) PROVE KeysInv'
  BY <1>1 DEF LookUp, AgesAddUp, Backed, Filling, NoRequest, KeyConstants
<1>2. CASE FetchRow(r)
  <2>1. KeysTypeOK'
    BY <1>2 DEF FetchRow, NoRequest
  <2>2. \A k \in Keys : Filling(k)' => Backed(k)
    BY <1>2 DEF FetchRow, NoRequest, Backed, Filling
  <2>3. AgesAddUp'
    BY <1>2, <2>2 DEF FetchRow, AgesAddUp, Backed
  <2>4. QED BY <2>1, <2>3
<1>3. CASE FillCache(r)
  <2>1. \A k \in Keys : Filling(k)' => Filling(k)
    BY <1>3 DEF FillCache, NoRequest, Filling
  <2>2. request[r].key \in Keys => Backed(request[r].key)
    BY <1>3 DEF FillCache, Backed, Filling
  <2>3. KeysTypeOK'
    <3>1. CacheTTL \in 0 .. CacheTTL
      BY DEF KeyConstants
    <3>2. cached' \in [Keys -> 0 .. CacheTTL]
      BY <1>3, <3>1 DEF FillCache
    <3>3. QED BY <1>3, <3>2 DEF FillCache, NoRequest
  <2>4. AgesAddUp'
    BY <1>3, <2>1, <2>2 DEF FillCache, AgesAddUp, Backed, KeyConstants
  <2>5. QED BY <2>3, <2>4
<1>4. QED BY <1>1, <1>2, <1>3 DEF Authenticate

LEMMA TickInv ==
    ASSUME KeyConstants, KeysInv, Tick PROVE KeysInv'
<1>1. KeysTypeOK'
  BY DEF KeysInv, KeysTypeOK, Tick, KeyConstants
<1>2. \A k \in Keys : Backed(k)' = Backed(k)
  BY DEF Tick, Backed, Filling
<1>3. ASSUME NEW k \in Keys
      PROVE  /\ Backed(k)' \/ k \notin issued' => age'[k] = 0
             /\ cached'[k] + age'[k] <= CacheTTL
  <2>1. cached[k] \in Nat /\ age[k] \in Nat /\ cached[k] + age[k] <= CacheTTL
    BY DEF KeysInv, KeysTypeOK, AgesAddUp, KeyConstants
  <2>2. QED BY <1>2, <2>1 DEF Tick, KeyConstants, KeysInv, KeysTypeOK
<1>4. QED BY <1>1, <1>3 DEF KeysInv, AgesAddUp

LEMMA KeysStepInv == KeyConstants /\ KeysInv /\ [Next]_accountVars => KeysInv'
<1> SUFFICES ASSUME KeyConstants, KeysInv, [Next]_accountVars PROVE KeysInv'
  OBVIOUS
<1> USE DEF KeysInv, KeysTypeOK
<1>1. ASSUME NEW k \in Keys, CreateApiKey(k) PROVE KeysInv'
  <2>1. KeysTypeOK'
    BY <1>1 DEF CreateApiKey
  <2>2. QED BY <1>1, <2>1, RowStepInv DEF CreateApiKey
<1>2. ASSUME NEW k \in Keys, AdminDelete(k) PROVE KeysInv'
  BY <1>2, RowStepInv DEF AdminDelete
<1>3. ASSUME NEW v \in Revokers, NEW K \in SUBSET Keys, NEW whole \in BOOLEAN,
             StartRevoke(v, K, whole)
      PROVE  KeysInv'
  <2>1. KeysTypeOK'
    BY <1>3 DEF StartRevoke
  <2>2. QED BY <1>3, <2>1, RowStepInv DEF StartRevoke
<1>4. ASSUME NEW v \in Revokers, Invalidate(v) PROVE KeysInv'
  BY <1>4 DEF Invalidate, AgesAddUp, Backed, Filling, KeyConstants
<1>5. ASSUME NEW v \in Revokers, DeleteRows(v) PROVE KeysInv'
  <2>1. KeysTypeOK'
    BY <1>5 DEF DeleteRows, NoRevoke
  <2>2. QED BY <1>5, <2>1, RowStepInv DEF DeleteRows
<1>6. ASSUME NEW k \in Keys, EvictKey(k) PROVE KeysInv'
  BY <1>6 DEF EvictKey, AgesAddUp, Backed, Filling, KeyConstants
<1>7. CASE UNCHANGED keyVars
  BY <1>7 DEF keyVars, AgesAddUp, Backed, Filling
<1>8. CASE KeyCalls
  BY <1>8, <1>1, <1>2, <1>3 DEF KeyCalls, DeleteUser, DeleteApiKey
<1>9. CASE Next
  <2>1. CASE \E r \in Requests : Authenticate(r)
    BY <2>1, AuthenticateInv
  <2>2. CASE Tick
    BY <2>2, TickInv
  <2>3. QED BY <1>9, <1>4, <1>5, <1>6, <1>7, <1>8, <2>1, <2>2 DEF Next, DeleteFromDatabase
<1>10. QED BY <1>7, <1>9 DEF accountVars

\* The invariant of the keys.
LEMMA KeysAlways == Spec => []KeysInv
<1>1. Init => KeysInv
  BY KeysInitInv, KeyConstants DEF Init
<1>2. KeysInv /\ [Next]_accountVars => KeysInv'
  BY KeysStepInv, KeyConstants
<1>3. QED BY <1>1, <1>2, PTL DEF Spec

\* A revoked key is refused one CACHE_TTL after the last request that had read its row,
\* however requests, revocations, the admin and evictions interleave.
THEOREM RevokedKeysDie == Spec => []RevokedWithinTTL
<1>1. KeysInv => RevokedWithinTTL
  BY KeyConstants DEF KeysInv, KeysTypeOK, AgesAddUp, RevokedWithinTTL, Works, KeyConstants
<1>2. QED BY <1>1, KeysAlways, PTL

\* Types of the keys' variables.
THEOREM KeysTypeCorrect == Spec => []KeysTypeOK
<1>1. KeysInv => KeysTypeOK
  BY DEF KeysInv
<1>2. QED BY <1>1, KeysAlways, PTL

-----------------------------------------------------------------------------
(* The row. *)

\* The provider has made the subscription.
Made(s) == s \in Subs /\ polar[s] # "none"

\* What holds of the row and of every copy of it.
Sound(row) ==
    /\ row \in Rows
    /\ row.sub # NoSub => Made(row.sub)
    /\ row.spend > 0 => row.sub # NoSub

SoundHandler(x) ==
    /\ Sound(x.row)
    /\ \A e \in x.event : Made(e.sub)
    /\ x.stage = "remote" => x.row.sub # NoSub
    /\ x.stage # "idle" => x.do # "none"
    /\ x.do = "limit" /\ x.limit > 0 => x.row.sub # NoSub
    /\ x.do = "active" => x.event # {}

BillingInv ==
    /\ BillingTypeOK
    /\ billing # Missing => Sound(billing)
    /\ \A e \in events : Made(e.sub)
    /\ \A h \in Handlers : SoundHandler(handler[h])
    /\ LimitStands

HandlerStates ==
    [stage : {"idle", "create", "remote", "save"},
     do : {"none", "keep", "cancel", "limit"} \cup Kinds,
     row : Rows, limit : Nat, event : SUBSET Events]

LEMMA IdleSound == Idle \in HandlerStates /\ SoundHandler(Idle) /\ NewRow \in Rows /\ Sound(NewRow)
<1>1. NewRow \in Rows /\ Sound(NewRow)
  BY DEF NewRow, Rows, Sound
<1>2. Idle \in HandlerStates
  BY <1>1 DEF Idle, HandlerStates
<1>3. SoundHandler(Idle)
  BY <1>1 DEF Idle, SoundHandler
<1>4. QED BY <1>1, <1>2, <1>3

LEMMA BillingInitInv == BillingInit => BillingInv
<1> SUFFICES ASSUME BillingInit PROVE BillingInv
  OBVIOUS
<1>1. BillingTypeOK
  BY IdleSound DEF BillingInit, BillingTypeOK, HandlerStates
<1>2. \A h \in Handlers : SoundHandler(handler[h])
  BY IdleSound DEF BillingInit
<1>3. QED BY <1>1, <1>2 DEF BillingInit, BillingInv, LimitStands, Spend

\* Subscriptions are never unmade, so what was sound of a copy stays so.
LEMMA SoundStable ==
    ASSUME \A s \in Subs : polar[s] # "none" => polar'[s] # "none"
    PROVE  /\ \A s : Made(s) => Made(s)'
           /\ \A row : Sound(row) => Sound(row)'
           /\ \A x : SoundHandler(x) => SoundHandler(x)'
BY DEF Made, Sound, SoundHandler

\* A handler goes from one sound state to another while the row stays what it was.
LEMMA HandlerStep ==
    ASSUME BillingInv, NEW h \in Handlers, NEW x \in HandlerStates, SoundHandler(x),
           handler' = [handler EXCEPT ![h] = x],
           UNCHANGED <<user, billing, polar, historyVars>>,
           events' \subseteq events, calls' \in Nat, faults' \in Nat
    PROVE  BillingInv'
<1>1. BillingTypeOK'
  BY DEF BillingInv, BillingTypeOK, HandlerStates, historyVars
<1>2. \A g \in Handlers : SoundHandler(handler'[g])
  BY DEF BillingInv, BillingTypeOK
<1>3. QED
  BY <1>1, <1>2 DEF BillingInv, Made, Sound, SoundHandler, LimitStands, Spend, historyVars

LEMMA UserCallInv ==
    ASSUME BillingConstants, BillingInv, NEW h \in Handlers, UserCall(h)
    PROVE  BillingInv'
<1>1. ASSUME NEW stage \in {"create", "remote", "save"}, NEW do \in {"keep", "cancel", "limit"},
             NEW row, NEW c \in Nat,
             Begin(h, stage, do, row, c, {}), Call, Sound(row),
             stage = "remote" \/ c > 0 => row.sub # NoSub
      PROVE  BillingInv'
  <2> DEFINE x == [stage |-> stage, do |-> do, row |-> row, limit |-> c, event |-> {}]
  <2>1. x \in HandlerStates /\ SoundHandler(x)
    BY <1>1 DEF HandlerStates, SoundHandler, Sound
  <2>2. calls' \in Nat /\ faults' \in Nat
    BY <1>1 DEF Call, Begin, BillingInv, BillingTypeOK
  <2> HIDE DEF x
  <2>3. handler' = [handler EXCEPT ![h] = x]
    BY <1>1 DEF x, Begin
  <2>4. QED BY <1>1, <2>1, <2>2, <2>3, HandlerStep DEF Begin, providerVars
<1>2. billing # Missing => Sound(billing)
  BY DEF BillingInv
<1>3. CASE UncancelSubscription(h)
  BY <1>1, <1>2, <1>3 DEF UncancelSubscription, HasSubscription
<1>4. CASE CancelSubscription(h)
  BY <1>1, <1>2, <1>4 DEF CancelSubscription, HasSubscription
<1>5. ASSUME NEW c \in Limits, UpdateSpendLimit(h, c) PROVE BillingInv'
  <2>1. c \in Nat /\ Sound(NewRow) /\ (billing = Missing => c <= 0)
    BY <1>5, IdleSound DEF BillingConstants, UpdateSpendLimit, HasSubscription
  <2>2. CASE billing = Missing
    BY <1>1, <1>5, <2>1, <2>2 DEF UpdateSpendLimit
  <2>3. CASE billing # Missing
    BY <1>1, <1>2, <1>5, <2>1, <2>3 DEF UpdateSpendLimit, HasSubscription
  <2>4. QED BY <2>2, <2>3
<1>6. QED BY <1>3, <1>4, <1>5 DEF UserCall

LEMMA ReceiveEventInv ==
    ASSUME BillingConstants, BillingInv, NEW h \in Handlers, NEW e \in events, ReceiveEvent(h, e)
    PROVE  BillingInv'
<1>1. events' \subseteq events /\ faults' \in Nat /\ e \in Events /\ Made(e.sub)
  BY DEF ReceiveEvent, Acknowledge, BillingInv, BillingTypeOK
<1>2. CASE UNCHANGED <<billing, handler>>
  BY <1>1, <1>2 DEF ReceiveEvent, BillingInv, BillingTypeOK, Made, Sound, SoundHandler,
                    LimitStands, Spend, historyVars
<1>3. CASE ~UNCHANGED <<billing, handler>>
  <2> DEFINE x == [stage |-> "save", do |-> e.kind, row |-> billing', limit |-> 0, event |-> {e}]
  <2>1. /\ billing' = IF billing = Missing THEN NewRow ELSE billing
        /\ handler' = [handler EXCEPT ![h] = x]
        /\ UNCHANGED <<user, polar, calls, historyVars>>
    BY <1>3 DEF ReceiveEvent
  <2>2. Sound(billing') /\ billing' \in Rows
    BY <2>1, IdleSound DEF BillingInv, Sound
  <2>3. x \in HandlerStates /\ SoundHandler(x)
    BY <1>1, <2>2 DEF HandlerStates, SoundHandler, Sound, Events, Kinds
  <2> HIDE DEF x
  <2>4. BillingTypeOK'
    BY <1>1, <2>1, <2>2, <2>3 DEF BillingInv, BillingTypeOK, HandlerStates, historyVars
  <2>5. \A g \in Handlers : SoundHandler(handler'[g])
    BY <2>1, <2>3 DEF BillingInv, BillingTypeOK
  <2>6. Spend' = Spend
    BY <2>1 DEF Spend, NewRow
  <2>7. QED
    BY <1>1, <2>1, <2>2, <2>4, <2>5, <2>6
       DEF BillingInv, Made, Sound, SoundHandler, LimitStands, historyVars
<1>4. QED BY <1>2, <1>3

LEMMA SaveInv ==
    ASSUME BillingConstants, MissingConstant, BillingInv, NEW h \in Handlers, Save(h)
    PROVE  BillingInv'
<1> DEFINE x == handler[h]
<1>1. /\ x \in HandlerStates /\ SoundHandler(x) /\ x.stage = "save"
      /\ events' \subseteq events /\ faults' \in Nat
      /\ handler' = [handler EXCEPT ![h] = Idle]
      /\ UNCHANGED <<user, polar, calls>>
  BY DEF Save, Acknowledge, BillingInv, BillingTypeOK, HandlerStates
<1>2. \A g \in Handlers : SoundHandler(handler'[g])
  BY <1>1, IdleSound DEF BillingInv, BillingTypeOK
<1>3. handler' \in [Handlers -> HandlerStates]
  BY <1>1, IdleSound DEF BillingInv, BillingTypeOK, HandlerStates
<1>4. CASE ~user
  <2>1. UNCHANGED <<billing, agreed, overwritten>>
    BY <1>4 DEF Save, historyVars
  <2>2. QED
    BY <1>1, <1>2, <1>3, <2>1 DEF BillingInv, BillingTypeOK, HandlerStates, Made, Sound,
                                  SoundHandler, LimitStands, Spend
<1>5. CASE user
  <2>1. /\ billing' = Changed(h)
        /\ overwritten' = (overwritten \/ billing # x.row)
        /\ agreed' = CASE x.do = "limit" -> x.limit [] x.do = "ended" -> 0 [] OTHER -> agreed
    BY <1>5 DEF Save
  <2>2. x.row \in Rows /\ x.limit \in Nat
    BY <1>1 DEF HandlerStates
  <2>3. /\ Sound(billing') /\ billing' \in Rows
        /\ billing'.spend = CASE x.do = "limit" -> x.limit [] x.do = "ended" -> 0
                               [] OTHER -> x.row.spend
    <3>1. CASE x.do = "keep"
      BY <1>1, <2>1, <2>2, <3>1 DEF Changed, Rows, Sound, SoundHandler
    <3>2. CASE x.do \in {"cancel", "scheduled"}
      BY <1>1, <2>1, <2>2, <3>2 DEF Changed, Rows, Sound, SoundHandler
    <3>3. CASE x.do = "limit"
      <4>1. billing' = [x.row EXCEPT !.spend = x.limit]
        BY <2>1, <3>3 DEF Changed
      <4>2. QED BY <1>1, <2>2, <3>3, <4>1 DEF Rows, Sound, SoundHandler
    <3>4. CASE x.do = "active"
      <4>1. PICK e \in x.event : billing' = Subscribed(x.row, e)
        BY <1>1, <2>1, <3>4 DEF Changed, SoundHandler
      <4>2. e.sub \in Subs /\ Made(e.sub) /\ e.sub # NoSub
        BY <1>1 DEF SoundHandler, Made, BillingConstants
      <4>3. QED BY <1>1, <2>2, <3>4, <4>1, <4>2 DEF Subscribed, Rows, Sound, SoundHandler
    <3>5. CASE x.do = "ended"
      <4>1. billing' = [x.row EXCEPT !.cancel = FALSE, !.spend = 0]
        BY <2>1, <3>5 DEF Changed, Withdrawn
      <4>2. billing' \in Rows /\ billing'.sub = x.row.sub /\ billing'.spend = 0
        BY <2>2, <4>1 DEF Rows
      <4>3. QED BY <1>1, <3>5, <4>2 DEF Sound, SoundHandler
    <3>6. QED BY <1>1, <3>1, <3>2, <3>3, <3>4, <3>5 DEF HandlerStates, SoundHandler, Kinds
  <2>4. agreed' \in Nat /\ overwritten' \in BOOLEAN
    BY <2>1, <2>2 DEF BillingInv, BillingTypeOK
  <2>5. LimitStands'
    <3>1. billing' # Missing
      BY <2>3 DEF MissingConstant
    <3>2. CASE overwritten'
      BY <3>2 DEF LimitStands
    <3>3. CASE ~overwritten'
      <4>1. billing = x.row /\ ~overwritten
        BY <2>1, <3>3
      <4>2. billing # Missing
        BY <2>2, <4>1 DEF MissingConstant
      <4>3. x.row.spend = agreed
        BY <4>1, <4>2 DEF BillingInv, LimitStands, Spend
      <4>4. QED BY <2>1, <2>3, <3>1, <4>3 DEF LimitStands, Spend
    <3>4. QED BY <2>4, <3>2, <3>3
  <2>6. BillingTypeOK'
    BY <1>1, <1>3, <2>3, <2>4 DEF BillingInv, BillingTypeOK, HandlerStates
  <2>7. QED
    BY <1>1, <1>2, <2>3, <2>5, <2>6 DEF BillingInv, Made, Sound, SoundHandler
<1>6. QED BY <1>4, <1>5

\* The provider's states move on and its events are about subscriptions it has made.
LEMMA ProviderStep ==
    ASSUME BillingInv, NEW s \in Subs, NEW state \in {"active", "canceling", "ended"},
           polar' = [polar EXCEPT ![s] = state],
           \A e \in events' \ events : e \in Events /\ e.sub = s,
           UNCHANGED <<user, billing, calls, faults, historyVars>>,
           handler' \in [Handlers -> HandlerStates],
           \A h \in Handlers : SoundHandler(handler'[h])
    PROVE  BillingInv'
<1>1. polar' \in [Subs -> {"none", "active", "canceling", "ended"}] /\ Made(s)'
  BY DEF BillingInv, BillingTypeOK, Made
<1>2. \A t \in Subs : polar[t] # "none" => polar'[t] # "none"
  BY DEF BillingInv, BillingTypeOK
<1>3. BillingTypeOK'
  BY <1>1 DEF BillingInv, BillingTypeOK, HandlerStates, historyVars
<1>4. \A e \in events' : Made(e.sub)'
  BY <1>1, <1>2, SoundStable DEF BillingInv
<1>5. (billing # Missing => Sound(billing))'
  BY <1>2, SoundStable DEF BillingInv
<1>6. \A h \in Handlers : SoundHandler(handler[h])'
  BY <1>2, SoundStable DEF SoundHandler, Sound, Made
<1>7. LimitStands'
  BY DEF BillingInv, LimitStands, Spend, historyVars
<1>8. QED BY <1>3, <1>4, <1>5, <1>6, <1>7 DEF BillingInv

LEMMA UpdateAtProviderInv ==
    ASSUME BillingConstants, BillingInv, NEW h \in Handlers, UpdateAtProvider(h)
    PROVE  BillingInv'
<1> DEFINE x == handler[h]
           s == x.row.sub
<1>1. x \in HandlerStates /\ SoundHandler(x) /\ x.stage = "remote"
  BY DEF UpdateAtProvider, BillingInv, BillingTypeOK, HandlerStates
<1>2. s \in Subs
  BY <1>1 DEF SoundHandler, Sound, Made
<1>3. CASE UNCHANGED providerVars /\ handler' = [handler EXCEPT ![h] = Idle]
  <2>1. calls' \in Nat /\ faults' \in Nat
    BY DEF UpdateAtProvider, BillingInv, BillingTypeOK
  <2>2. QED BY <1>3, <2>1, IdleSound, HandlerStep DEF UpdateAtProvider, providerVars
<1>4. ASSUME polar' = [polar EXCEPT ![s] = IF x.do = "cancel" THEN "canceling" ELSE "active"],
             events' = events \cup (IF x.do = "cancel"
                          THEN {Event("scheduled", s), Event("active", s)}
                          ELSE {Event("active", s)}),
             handler' = [handler EXCEPT ![h].stage = "save"]
      PROVE  BillingInv'
  <2> DEFINE y == [x EXCEPT !.stage = "save"]
  <2>1. y \in HandlerStates
    BY <1>1 DEF HandlerStates
  <2>2. SoundHandler(y)
    BY <1>1, <2>1 DEF HandlerStates, SoundHandler, Sound
  <2>3. handler' = [handler EXCEPT ![h] = y]
    BY <1>4
  <2> HIDE DEF y
  <2>4. handler' \in [Handlers -> HandlerStates] /\ \A g \in Handlers : SoundHandler(handler'[g])
    BY <2>1, <2>2, <2>3 DEF BillingInv, BillingTypeOK, HandlerStates
  <2>5. \A e \in events' \ events : e \in Events /\ e.sub = s
    BY <1>2, <1>4 DEF Event, Events, Kinds
  <2>6. UNCHANGED <<user, billing, calls, faults, historyVars>>
    BY DEF UpdateAtProvider
  <2>7. PICK state \in {"active", "canceling", "ended"} : polar' = [polar EXCEPT ![s] = state]
    BY <1>4
  <2> HIDE DEF s, x
  <2>8. QED BY <1>2, <2>4, <2>5, <2>6, <2>7, ProviderStep
<1>5. QED BY <1>3, <1>4 DEF UpdateAtProvider, Sends

LEMMA BillingStepInv ==
    ASSUME BillingConstants, MissingConstant, BillingInv, [Next]_accountVars
    PROVE  BillingInv'
<1>1. CASE UNCHANGED billingVars
  BY <1>1 DEF billingVars, providerVars, historyVars, BillingInv, BillingTypeOK, Made, Sound,
              SoundHandler, LimitStands, Spend
<1>2. CASE Call /\ UNCHANGED <<user, billing, providerVars, handler, faults, historyVars>>
  BY <1>2 DEF Call, providerVars, historyVars, BillingInv, BillingTypeOK, Made, Sound,
              SoundHandler, LimitStands, Spend
<1>3. CASE DeleteUserRow
  <2>1. BillingTypeOK'
    BY <1>3 DEF DeleteUserRow, providerVars, BillingInv, BillingTypeOK
  <2>2. QED
    BY <1>3, <2>1 DEF DeleteUserRow, providerVars, BillingInv, Made, Sound, SoundHandler,
                      LimitStands, Spend
<1>4. ASSUME NEW h \in Handlers, CreateRow(h) PROVE BillingInv'
  <2> DEFINE x == IF user /\ billing = Missing THEN [handler[h] EXCEPT !.stage = "save"] ELSE Idle
  <2>1. handler[h] \in HandlerStates /\ SoundHandler(handler[h]) /\ handler[h].stage = "create"
    BY <1>4 DEF CreateRow, BillingInv, BillingTypeOK, HandlerStates
  <2>2. x \in HandlerStates /\ SoundHandler(x)
    <3>1. CASE user /\ billing = Missing
      <4>1. x = [handler[h] EXCEPT !.stage = "save"]
        BY <3>1
      <4>2. QED BY <2>1, <4>1 DEF HandlerStates, SoundHandler, Sound
    <3>2. QED BY <3>1, IdleSound
  <2>3. /\ handler' = [handler EXCEPT ![h] = x]
        /\ billing' = billing \/ (billing = Missing /\ billing' = NewRow)
        /\ UNCHANGED <<user, polar, events, agreed, overwritten, calls, faults>>
    BY <1>4, <2>1 DEF CreateRow, providerVars, historyVars
  <2> HIDE DEF x
  <2>4. BillingTypeOK' /\ \A g \in Handlers : SoundHandler(handler'[g])
    BY <2>2, <2>3, IdleSound DEF BillingInv, BillingTypeOK, HandlerStates
  <2>5. Spend' = Spend
    BY <2>3 DEF Spend, NewRow
  <2>6. QED
    BY <2>3, <2>4, <2>5, IdleSound DEF BillingInv, Made, Sound, SoundHandler, LimitStands
<1>5. ASSUME NEW h \in Handlers, HandlerDies(h) PROVE BillingInv'
  <2>1. calls' \in Nat /\ faults' \in Nat
    BY <1>5 DEF HandlerDies, BillingInv, BillingTypeOK
  <2>2. QED BY <1>5, <2>1, IdleSound, HandlerStep DEF HandlerDies, providerVars
<1>6. ASSUME NEW s \in Subs, Subscribe(s) \/ EndSubscription(s) PROVE BillingInv'
  <2>1. PICK state \in {"active", "canceling", "ended"} : polar' = [polar EXCEPT ![s] = state]
    BY <1>6 DEF Subscribe, EndSubscription
  <2>2. \A e \in events' \ events : e \in Events /\ e.sub = s
    BY <1>6 DEF Subscribe, EndSubscription, Sends, Event, Events, Kinds
  <2>3. UNCHANGED <<user, billing, handler, calls, faults, historyVars>>
    BY <1>6 DEF Subscribe, EndSubscription
  <2>4. handler' \in [Handlers -> HandlerStates] /\ \A h \in Handlers : SoundHandler(handler'[h])
    BY <2>3 DEF BillingInv, BillingTypeOK, HandlerStates
  <2>5. QED BY <2>1, <2>2, <2>3, <2>4, ProviderStep
<1>7. CASE BillingNext
  BY <1>4, <1>5, <1>6, <1>7, UserCallInv, ReceiveEventInv, SaveInv, UpdateAtProviderInv
     DEF BillingNext, Handle
<1>8. QED BY <1>1, <1>2, <1>3, <1>7 DEF Next, DeleteFromDatabase, accountVars

\* The invariant of the row.
LEMMA BillingAlways == Spec => []BillingInv
<1>1. Init => BillingInv
  BY BillingInitInv DEF Init
<1>2. BillingInv /\ [Next]_accountVars => BillingInv'
  BY BillingStepInv, BillingConstants, MissingConstant
<1>3. QED BY <1>1, <1>2, PTL DEF Spec

\* Types of the row's variables.
THEOREM BillingTypeCorrect == Spec => []BillingTypeOK
<1>1. BillingInv => BillingTypeOK
  BY DEF BillingInv
<1>2. QED BY <1>1, BillingAlways, PTL

\* A limit is never paired with no subscription, whatever stale copies are saved.
THEOREM PaidHaveSubscription == Spec => []PaidNeedsSubscription
<1>1. BillingInv => PaidNeedsSubscription
  BY DEF BillingInv, Sound, Made, PaidNeedsSubscription, Spend
<1>2. QED BY <1>1, BillingAlways, PTL

\* The limit is what was agreed on unless a change was saved over.
THEOREM LimitAsAgreed == Spec => []LimitStands
<1>1. BillingInv => LimitStands
  BY DEF BillingInv
<1>2. QED BY <1>1, BillingAlways, PTL
-----------------------------------------------------------------------------
(* What the provider may forget. *)

\* A handler does what its event says, and a deleted user has no row.
EventsHandled ==
    /\ ~user => billing = Missing
    /\ \A h \in Handlers : \A e \in handler[h].event : handler[h].do = e.kind

LEMMA EventsHandledStep ==
    BillingInv /\ EventsHandled /\ [Next]_accountVars => EventsHandled'
<1> SUFFICES ASSUME BillingInv, EventsHandled, [Next]_accountVars PROVE EventsHandled'
  OBVIOUS
<1> USE DEF EventsHandled
<1>1. CASE UNCHANGED <<user, billing, handler>> \/ DeleteUserRow
  BY <1>1 DEF DeleteUserRow
<1>2. ASSUME NEW h \in Handlers, NEW x, \A e \in x.event : x.do = e.kind,
             handler' = [handler EXCEPT ![h] = x],
             UNCHANGED user, ~user => billing' = billing
      PROVE  EventsHandled'
  BY <1>2 DEF BillingInv, BillingTypeOK
<1>3. \A e \in Idle.event : Idle.do = e.kind
  BY DEF Idle
<1>4. ASSUME NEW h \in Handlers, UserCall(h) PROVE EventsHandled'
  <2>1. ASSUME NEW stage, NEW do, NEW row, NEW c, Begin(h, stage, do, row, c, {})
        PROVE  EventsHandled'
    BY <1>2, <2>1 DEF Begin
  <2>2. QED
    BY <1>4, <2>1
    DEF UserCall, UncancelSubscription, CancelSubscription, UpdateSpendLimit
<1>5. ASSUME NEW h \in Handlers, NEW stage, handler' = [handler EXCEPT ![h].stage = stage],
             UNCHANGED user, ~user => billing' = billing
      PROVE  EventsHandled'
  <2>1. \A g \in Handlers : handler'[g].event = handler[g].event /\ handler'[g].do = handler[g].do
    BY <1>5 DEF BillingInv, BillingTypeOK
  <2>2. QED BY <1>5, <2>1
<1>6. ASSUME NEW h \in Handlers, Handle(h) PROVE EventsHandled'
  <2>1. CASE CreateRow(h)
    BY <1>2, <1>3, <1>5, <2>1 DEF CreateRow
  <2>2. CASE UpdateAtProvider(h)
    BY <1>2, <1>3, <1>5, <2>2 DEF UpdateAtProvider
  <2>3. CASE Save(h)
    BY <1>2, <1>3, <2>3 DEF Save
  <2>4. QED BY <1>6, <2>1, <2>2, <2>3 DEF Handle
<1>7. ASSUME NEW h \in Handlers, HandlerDies(h) PROVE EventsHandled'
  BY <1>2, <1>3, <1>7 DEF HandlerDies
<1>8. ASSUME NEW h \in Handlers, NEW e \in events, ReceiveEvent(h, e) PROVE EventsHandled'
  <2>1. CASE UNCHANGED <<billing, handler>>
    BY <1>1, <1>8, <2>1 DEF ReceiveEvent
  <2>2. CASE user
    BY <1>2, <1>8, <2>1, <2>2 DEF ReceiveEvent
  <2>3. QED BY <1>8, <2>1, <2>2 DEF ReceiveEvent
<1>9. ASSUME NEW s \in Subs, Subscribe(s) \/ EndSubscription(s) PROVE EventsHandled'
  BY <1>1, <1>9 DEF Subscribe, EndSubscription
<1>10. QED
  BY <1>1, <1>4, <1>6, <1>7, <1>8, <1>9
  DEF Next, DeleteFromDatabase, BillingNext, accountVars, billingVars

LEMMA EndStep ==
    BillingInv /\ EventsHandled /\ [Next]_accountVars =>
        [\A s \in Subs : Event("ended", s) \in events \ events' => Spend' = 0]_accountVars
<1> SUFFICES ASSUME BillingInv, EventsHandled, Next,
                    NEW s \in Subs, Event("ended", s) \in events \ events'
             PROVE  Spend' = 0
  OBVIOUS
<1>1. PICK h \in Handlers : Save(h) \/ \E e \in events : ReceiveEvent(h, e)
  BY DEF Next, DeleteFromDatabase, DeleteUserRow, BillingNext, billingVars, providerVars, UserCall,
         UncancelSubscription, CancelSubscription, UpdateSpendLimit, Begin, Handle, CreateRow,
         UpdateAtProvider, Sends, HandlerDies, Subscribe, EndSubscription
<1>2. CASE Save(h)
  <2>1. Event("ended", s) \in handler[h].event
    BY <1>2 DEF Save, Acknowledge
  <2>2. handler[h].do = "ended"
    BY <2>1 DEF EventsHandled, Event
  <2>3. billing' = Withdrawn(handler[h].row) /\ handler[h].row \in Rows
    BY <1>2, <2>2 DEF Save, Changed, BillingInv, BillingTypeOK
  <2>4. QED BY <2>3 DEF Withdrawn, Rows, Spend
<1>3. ASSUME NEW e \in events, ReceiveEvent(h, e) PROVE Spend' = 0
  <2>1. e = Event("ended", s) /\ e.kind = "ended" /\ (~user \/ billing = Missing) /\ UNCHANGED billing
    BY <1>3 DEF ReceiveEvent, Acknowledge, Event
  <2>2. QED BY <2>1 DEF EventsHandled, Spend
<1>4. QED BY <1>1, <1>2, <1>3

\* The provider repeats an event until it is acknowledged, and the one that ends a
\* subscription is acknowledged by nobody before the limit is gone: whatever other handlers
\* save, whoever dies and whether the user has been deleted (polar_webhook).
THEOREM EndNotForgotten == Spec => EndForgotten
<1>1. Init => EventsHandled
  BY DEF Init, BillingInit, EventsHandled, Idle
<1>2. QED BY <1>1, EventsHandledStep, EndStep, BillingAlways, PTL DEF Spec, EndForgotten
=============================================================================
