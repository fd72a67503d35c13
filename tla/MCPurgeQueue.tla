---------------------------- MODULE MCPurgeQueue ----------------------------
(* Five documents, so that the queue could hold one more than QueueBounded   *)
(* allows two searches that surface two each.                                *)
EXTENDS PurgeQueue, TLC

Symmetry == Permutations(Payloads) \cup Permutations(Searchers)
=============================================================================
