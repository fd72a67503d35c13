---------------------------- MODULE MCPurgeLoop -----------------------------
(* A site that may become blacklisted, whose document is filed under its own *)
(* token on one page and may be curated under that term and under two terms  *)
(* of another page.  One query retrieves the token and one of those two, the *)
(* other is the term of a query of three words or more.                      *)
EXTENDS PurgeLoop, TLC

CONSTANTS bad, q1, t1, t2, t3, p1, p2, s1, w1, purger, worker, background

MCPageOf == (t1 :> p1) @@ (t2 :> p2) @@ (t3 :> p2)
MCTokens == (bad :> {t1})
MCWords  == (bad :> {})
MCTitleOf == (bad :> "bad title")
MCTermsOf == (q1 :> {t1, t2})
MCProcessOf == (s1 :> worker) @@ (w1 :> worker) @@ (purger :> background)
=============================================================================
