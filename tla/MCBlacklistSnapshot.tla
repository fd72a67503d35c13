------------------------ MODULE MCBlacklistSnapshot -------------------------
(* The lists change twice, never back to an earlier content. *)
EXTENDS BlacklistSnapshot

MCContentOf == [n \in 0 .. MaxUpstream |-> n]
=============================================================================
