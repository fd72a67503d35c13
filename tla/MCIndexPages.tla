---------------------------- MODULE MCIndexPages ----------------------------
(* A bad and a good site, two terms on two pages.  The bad document is also  *)
(* filed under a query term its own tokens do not give.  Runs of the purge   *)
(* cost nothing, so they are bounded here: one that has been given documents *)
(* is the last, unless it dies.                                              *)
EXTENDS PurgeEffect, TLC

CONSTANTS bad, good, t1, t2, p1, p2

MCPageOf == (t1 :> p1) @@ (t2 :> p2)
MCTokens == (bad :> {t1}) @@ (good :> {t1})
MCWords  == (bad :> {t2}) @@ (good :> {t1})
MCTitleOf == (bad :> "bad title") @@ (good :> "good title")

MCNext == (purging = {} /\ Purge /\ Undisturbed) \/ (OtherStep /\ Disturbs)

MCSpec == HistoryInit /\ [][MCNext]_<<vars, disturbed>>
=============================================================================
