------------------------------ MODULE Account ------------------------------
(***************************************************************************)
(* One user's account: the API keys and the billing row.  They meet in the *)
(* deletion of the user, which invalidates the keys it finds and then      *)
(* deletes both, while requests and the webhook go on.                     *)
(***************************************************************************)
EXTENDS ApiKeys, Billing

accountVars == <<keyVars, billingVars>>

\* user.delete() takes the keys and the row with it, in one transaction.
DeleteFromDatabase(v) ==
    /\ DeleteRows(v)
    /\ IF revoking[v].user THEN DeleteUserRow ELSE UNCHANGED billingVars

KeyCalls ==
    \/ \E k \in Keys : CreateApiKey(k) \/ AdminDelete(k)
    \/ \E v \in Revokers : DeleteUser(v) \/ \E k \in Keys : DeleteApiKey(v, k)

Init == KeysInit /\ BillingInit

Next ==
    \/ KeyCalls /\ Call /\ UNCHANGED <<user, billing, providerVars, handler, faults, historyVars>>
    \/ /\ \/ \E r \in Requests : Authenticate(r)
          \/ \E v \in Revokers : Invalidate(v)
          \/ \E k \in Keys : EvictKey(k)
          \/ Tick
       /\ UNCHANGED billingVars
    \/ \E v \in Revokers : DeleteFromDatabase(v)
    \/ BillingNext /\ UNCHANGED keyVars

Spec == Init /\ [][Next]_accountVars

(* Fairness.  The provider repeats an event until it is acknowledged, and a  *)
(* handler that has started goes on.  Nobody need call, and nothing fail.    *)
Fairness ==
    /\ \A h \in Handlers : WF_accountVars(Handle(h) /\ UNCHANGED keyVars)
    /\ \A e \in Events :
        WF_accountVars((\E h \in Handlers : ReceiveEvent(h, e)) /\ UNCHANGED keyVars)

FairSpec == Spec /\ Fairness

-----------------------------------------------------------------------------
(* Properties of the webhook while the account changes. *)

\* The event that ends a subscription is not forgotten before its work is done: whoever
\* acknowledges it leaves no limit in doing so, though the user's calls, other events, the
\* deletion of the user and handlers that die come between the reading of the row and its
\* save.  A handler that had read the row before may still save the old limit afterwards.
EndForgotten ==
    [][\A s \in Subs : Event("ended", s) \in events \ events' => Spend' = 0]_accountVars

\* ... and it is acknowledged in the end, whether or not there still is a user or a row.
EndAcknowledged ==
    \A s \in Subs : Event("ended", s) \in events ~> Event("ended", s) \notin events
=============================================================================
