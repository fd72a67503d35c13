------------------------------ MODULE Billing ------------------------------
(***************************************************************************)
(* One user's UserBilling row, the endpoints and the webhook that change   *)
(* it (platform/api.py), and as much of the billing provider as they see.  *)
(* Every handler reads the row, may call the provider, and then saves the  *)
(* whole row it read: two that overlap undo each other's changes.  The     *)
(* provider's events arrive in any order and again until acknowledged.     *)
(***************************************************************************)
EXTENDS Naturals, FiniteSets

CONSTANTS
    Handlers,   \* threads serving the user's calls and the webhook
    Subs,       \* subscriptions the provider may make
    Limits,     \* spend limits a user may ask for, in cents
    NoSub,      \* polar_subscription_id = ""
    Missing,    \* the user has no row
    MaxCalls,   \* bound on the user's calls, those about keys included
    MaxFaults   \* bound on handlers that die and events that are repeated

ASSUME BillingConstants ==
    /\ NoSub \notin Subs
    /\ Limits \subseteq Nat
    /\ MaxCalls \in Nat /\ MaxFaults \in Nat

Rows == [sub : Subs \cup {NoSub}, cancel : BOOLEAN, spend : Nat]

ASSUME MissingConstant == Missing \notin Rows

VARIABLES
    user,        \* the user has not been deleted
    billing,     \* the row
    polar,       \* subscription -> its state at the provider
    events,      \* events not acknowledged yet
    handler,     \* handler -> what it is doing
    calls,       \* counter for the bound
    faults,      \* counter for the bound
    agreed,      \* history: the limit the user asked for, or 0 after it was withdrawn
    overwritten  \* history: a handler has saved over what another had changed

providerVars == <<polar, events>>
historyVars == <<agreed, overwritten>>
billingVars == <<user, billing, providerVars, handler, calls, faults, historyVars>>

NewRow == [sub |-> NoSub, cancel |-> FALSE, spend |-> 0]

Spend == IF billing = Missing THEN 0 ELSE billing.spend

Kinds == {"active", "scheduled", "ended"}
Events == [kind : Kinds, sub : Subs]
Event(kind, s) == [kind |-> kind, sub |-> s]

\* do: the change to be saved; row: the row that was read; event: what is acknowledged.
Idle == [stage |-> "idle", do |-> "none", row |-> NewRow, limit |-> 0, event |-> {}]

Begin(h, stage, do, row, limit, event) ==
    /\ handler[h] = Idle
    /\ handler' = [handler EXCEPT ![h] =
            [stage |-> stage, do |-> do, row |-> row, limit |-> limit, event |-> event]]
    /\ UNCHANGED <<user, billing, providerVars, historyVars, faults>>

Call == user /\ calls < MaxCalls /\ calls' = calls + 1

HasSubscription == billing # Missing /\ billing.sub # NoSub

-----------------------------------------------------------------------------
(* The user's calls. *)

\* uncancel_subscription: 404 without a subscription, 409 if none is to be cancelled.
UncancelSubscription(h) ==
    /\ Call
    /\ HasSubscription /\ billing.cancel
    /\ Begin(h, "remote", "keep", billing, 0, {})

\* cancel_subscription
CancelSubscription(h) ==
    /\ Call
    /\ HasSubscription
    /\ Begin(h, "remote", "cancel", billing, 0, {})

\* Mutant: any row will do.
UpdateSpendLimitOfAnyRow(h, c) ==
    /\ Call
    /\ c > 0 => billing # Missing
    /\ IF billing = Missing
       THEN Begin(h, "create", "limit", NewRow, c, {})
       ELSE Begin(h, "save", "limit", billing, c, {})

\* update_spend_limit: raising the limit takes a subscription; a missing row is created.
UpdateSpendLimit(h, c) ==
    /\ Call
    /\ c > 0 => HasSubscription
    /\ IF billing = Missing
       THEN Begin(h, "create", "limit", NewRow, c, {})
       ELSE Begin(h, "save", "limit", billing, c, {})

\* UserBilling.objects.create, which raises if somebody else has created the row.
CreateRow(h) ==
    /\ handler[h].stage = "create"
    /\ IF user /\ billing = Missing
       THEN /\ billing' = NewRow
            /\ handler' = [handler EXCEPT ![h].stage = "save"]
       ELSE handler' = [handler EXCEPT ![h] = Idle] /\ UNCHANGED billing
    /\ UNCHANGED <<user, providerVars, historyVars, calls, faults>>

-----------------------------------------------------------------------------
(* The provider. *)

Sends(E) == events' = events \cup E

\* polar.subscriptions.update: it raises if the subscription is over or already cancelled.
UpdateAtProvider(h) ==
    LET s == handler[h].row.sub
        cancel == handler[h].do = "cancel"
    IN  /\ handler[h].stage = "remote"
        /\ IF polar[s] = "active" \/ (polar[s] = "canceling" /\ ~cancel)
           THEN /\ polar' = [polar EXCEPT ![s] = IF cancel THEN "canceling" ELSE "active"]
                /\ Sends(IF cancel THEN {Event("scheduled", s), Event("active", s)}
                         ELSE {Event("active", s)})
                /\ handler' = [handler EXCEPT ![h].stage = "save"]
           ELSE handler' = [handler EXCEPT ![h] = Idle] /\ UNCHANGED providerVars
        /\ UNCHANGED <<user, billing, historyVars, calls, faults>>

\* A checkout (create_checkout) is completed.
Subscribe(s) ==
    /\ user /\ polar[s] = "none"
    /\ polar' = [polar EXCEPT ![s] = "active"]
    /\ Sends({Event("active", s)})
    /\ UNCHANGED <<user, billing, handler, calls, faults, historyVars>>

\* The period of a cancelled subscription ends, or it is revoked at once.
EndSubscription(s) ==
    /\ polar[s] \in {"active", "canceling"}
    /\ polar' = [polar EXCEPT ![s] = "ended"]
    /\ Sends({Event("ended", s)})
    /\ UNCHANGED <<user, billing, handler, calls, faults, historyVars>>

-----------------------------------------------------------------------------
(* polar_webhook. *)

\* The response, which may be lost: the event then comes again.
Acknowledge(E) ==
    \/ events' = events \ E /\ UNCHANGED faults
    \/ E # {} /\ UNCHANGED events /\ faults < MaxFaults /\ faults' = faults + 1

\* Mutant: the event is acknowledged before it is handled.
ReceiveAndAcknowledge(h, e) ==
    /\ e \in events /\ handler[h] = Idle
    /\ Acknowledge({e})
    /\ user /\ billing # Missing
    /\ handler' = [handler EXCEPT ![h] =
            [stage |-> "save", do |-> e.kind, row |-> billing, limit |-> 0, event |-> {e}]]
    /\ UNCHANGED <<user, billing, polar, calls, historyVars>>

\* Mutant: the event of a user who has been deleted is refused.
ReceiveEventOfUser(h, e) ==
    /\ e \in events /\ handler[h] = Idle
    /\ user
    /\ \/ /\ billing = Missing /\ e.kind # "active"
          /\ Acknowledge({e})
          /\ UNCHANGED <<billing, handler>>
       \/ /\ billing # Missing \/ e.kind = "active"
          /\ billing' = IF billing = Missing THEN NewRow ELSE billing
          /\ handler' = [handler EXCEPT ![h] =
                [stage |-> "save", do |-> e.kind, row |-> billing', limit |-> 0, event |-> {e}]]
          /\ UNCHANGED <<events, faults>>
    /\ UNCHANGED <<user, polar, calls, historyVars>>

\* The row is read; "active" stands for active, updated and uncanceled, "scheduled" for a
\* cancellation at the end of the period, "ended" for revoked and an immediate cancellation.
ReceiveEvent(h, e) ==
    /\ e \in events /\ handler[h] = Idle
    /\ \/ /\ ~user \/ (billing = Missing /\ e.kind # "active")
          /\ Acknowledge({e})
          /\ UNCHANGED <<billing, handler>>
       \/ /\ user /\ (billing # Missing \/ e.kind = "active")
          /\ billing' = IF billing = Missing THEN NewRow ELSE billing   \* get_or_create
          /\ handler' = [handler EXCEPT ![h] =
                [stage |-> "save", do |-> e.kind, row |-> billing', limit |-> 0, event |-> {e}]]
          /\ UNCHANGED <<events, faults>>
    /\ UNCHANGED <<user, polar, calls, historyVars>>

-----------------------------------------------------------------------------
(* What a handler makes of the row it read, and its save. *)

\* Mutant: the event's data in the place of the id in it.
SubscribedToEvent(row, e) == [row EXCEPT !.cancel = FALSE, !.sub = e]

\* An active or updated subscription; whatever was to be cancelled no longer is.
Subscribed(row, e) == [row EXCEPT !.cancel = FALSE, !.sub = e.sub]

\* Mutant: a subscription that ends leaves the limit.
WithdrawnButLimit(row) == [row EXCEPT !.cancel = FALSE]

\* The subscription has ended; its id stays.
Withdrawn(row) == [row EXCEPT !.cancel = FALSE, !.spend = 0]

Changed(h) ==
    LET row == handler[h].row  do == handler[h].do
    IN  CASE do = "keep"                     -> [row EXCEPT !.cancel = FALSE]
          [] do \in {"cancel", "scheduled"} -> [row EXCEPT !.cancel = TRUE]
          [] do = "limit"  -> [row EXCEPT !.spend = handler[h].limit]
          [] do = "active" -> Subscribed(row, CHOOSE e \in handler[h].event : TRUE)
          [] do = "ended"  -> Withdrawn(row)

\* billing.save() writes every column.  If the user is gone it raises: the webhook answers
\* 500, and the event comes again.
Save(h) ==
    /\ handler[h].stage = "save"
    /\ IF user
       THEN /\ billing' = Changed(h)
            /\ overwritten' = (overwritten \/ billing # handler[h].row)
            /\ agreed' = CASE handler[h].do = "limit" -> handler[h].limit
                           [] handler[h].do = "ended" -> 0
                           [] OTHER -> agreed
            /\ Acknowledge(handler[h].event)
       ELSE UNCHANGED <<billing, historyVars, events, faults>>
    /\ handler' = [handler EXCEPT ![h] = Idle]
    /\ UNCHANGED <<user, polar, calls>>

\* The process dies, or a call raises; the event is not acknowledged and comes again.
HandlerDies(h) ==
    /\ handler[h] # Idle /\ faults < MaxFaults
    /\ handler' = [handler EXCEPT ![h] = Idle]
    /\ faults' = faults + 1
    /\ UNCHANGED <<user, billing, providerVars, calls, historyVars>>

\* What becomes of the row when the user is deleted.
DeleteUserRow ==
    /\ user' = FALSE /\ billing' = Missing /\ agreed' = 0
    /\ UNCHANGED <<providerVars, handler, calls, faults, overwritten>>

BillingInit ==
    /\ user = TRUE /\ billing = Missing
    /\ polar = [s \in Subs |-> "none"] /\ events = {}
    /\ handler = [h \in Handlers |-> Idle]
    /\ calls = 0 /\ faults = 0
    /\ agreed = 0 /\ overwritten = FALSE

UserCall(h) ==
    \/ UncancelSubscription(h) \/ CancelSubscription(h)
    \/ \E c \in Limits : UpdateSpendLimit(h, c)

\* A handler that has started goes on.
Handle(h) == CreateRow(h) \/ UpdateAtProvider(h) \/ Save(h)

BillingNext ==
    \/ \E h \in Handlers : \/ UserCall(h) \/ Handle(h) \/ HandlerDies(h)
                           \/ \E e \in events : ReceiveEvent(h, e)
    \/ \E s \in Subs : Subscribe(s) \/ EndSubscription(s)

-----------------------------------------------------------------------------
(* Properties. *)

\* Types of the variables.
BillingTypeOK ==
    /\ user \in BOOLEAN /\ overwritten \in BOOLEAN
    /\ billing \in Rows \cup {Missing}
    /\ polar \in [Subs -> {"none", "active", "canceling", "ended"}]
    /\ events \subseteq Events
    /\ handler \in [Handlers -> [stage : {"idle", "create", "remote", "save"},
                                 do : {"none", "keep", "cancel", "limit"} \cup Kinds,
                                 row : Rows, limit : Nat, event : SUBSET Events]]
    /\ calls \in Nat /\ faults \in Nat /\ agreed \in Nat

\* Whoever may be billed has a subscription the provider knows of, so that it can be
\* cancelled: rows saved from stale copies, in any order, never pair a limit with no
\* subscription.  The subscription may have ended; a stale copy may even bring the limit back.
PaidNeedsSubscription ==
    Spend > 0 => billing.sub \in Subs /\ polar[billing.sub] # "none"

\* The limit in force is the one the user last set, or none since a subscription ended -
\* whatever else is saved and in which order events come - unless a handler has saved over
\* a change it had not read.
LimitStands == Spend = agreed \/ overwritten
=============================================================================
