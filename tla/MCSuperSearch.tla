--------------------------- MODULE MCSuperSearch ---------------------------
(* The stream does not touch the counter, nor a request the stream, once it  *)
(* has begun: their steps commute.  So the quota is explored without the     *)
(* stream, and the stream from the one state in which the other requests     *)
(* have yet to come.                                                         *)
EXTENDS SuperSearch

CONSTANTS a, b, c, d

MCDocs == {a, b, c, d}
Scored(u, n) == [url |-> u, score |-> n]

\* a comes again with a better score, before or after it was promoted.
MCLists == {<<Scored(a, 2)>>, <<Scored(b, 1), Scored(c, 2)>>,
            <<Scored(c, 2), Scored(d, 3), Scored(a, 4)>>}

OthersToCome == faults = 0 /\ \A r \in Requests \ {Watched} : request[r] = "new"

MCNext ==
    \/ consumer = "none" /\ QuotaNext /\ UNCHANGED streamVars
    \/ OthersToCome /\ StartStream
    \/ StreamNext

MCSpec == Init /\ [][MCNext]_vars /\ Fairness
=============================================================================
