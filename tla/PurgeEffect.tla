----------------------------- MODULE PurgeEffect ----------------------------
(***************************************************************************)
(* What a run of the purge has achieved when it ends.  IndexPages with a   *)
(* history variable: the pages somebody else was writing to at some time   *)
(* since the run began.                                                    *)
(***************************************************************************)
EXTENDS IndexPages

VARIABLE disturbed

BeingWritten ==
    {held[x].page : x \in {y \in Actors \ {Purger} : held[y] # NoPage /\ held[y].copying}}

HistoryInit == Init /\ disturbed = {}

\* A run begins; anything else happens.
Undisturbed == disturbed' = BeingWritten'
Disturbs == disturbed' = disturbed \cup BeingWritten'

HistoryNext == (Purge /\ Undisturbed) \/ (OtherStep /\ Disturbs)

HistorySpec == HistoryInit /\ [][HistoryNext]_<<vars, disturbed>>

-----------------------------------------------------------------------------
\* "Every purge removes at least the copy that was queued" (purge_blacklisted.py): when a
\* run has ended, no copy it was asked to remove is left on any page, the copies filed under
\* a query or curation term the document's own tokens do not give included, except on a
\* page somebody else was writing to meanwhile.
PurgeRemovesCopies ==
    purgeTodo = {} /\ held[Purger] = NoPage =>
        \A p \in Pages \ disturbed : \A d \in page[p] : CopyOf(d) \notin purging
=============================================================================
