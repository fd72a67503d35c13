----------------------------- MODULE MCCrawler -----------------------------
(* Two domains, with room for one of them; the first has two URLs and room   *)
(* for one.  A link to its second URL finds its first as well.               *)
EXTENDS Crawler, TLC

CONSTANTS a1, a2, b1, A, B

MCUrls == {a1, a2, b1}
MCDomains == {A, B}
MCDomainOf == a1 :> A @@ a2 :> A @@ b1 :> B
MCRootOf == a1 :> a1 @@ a2 :> a1 @@ b1 :> b1
MCUrlScore == a1 :> 2 @@ a2 :> 1 @@ b1 :> 2
MCLinkScore == A :> 0 @@ B :> 1
MCMaxUrls == A :> 1 @@ B :> 1
=============================================================================
