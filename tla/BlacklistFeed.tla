---------------------------- MODULE BlacklistFeed ---------------------------
(***************************************************************************)
(* What the published blacklist promises a search worker: the list it      *)
(* filters against is always one that was published, it only ever moves    *)
(* forward, and nothing but a restart of the process takes it away.        *)
(* Published lists are numbered in order; 0 is "none".                     *)
(***************************************************************************)
EXTENDS Naturals

CONSTANT Workers

VARIABLES
    newest,     \* the last list published
    array,      \* worker -> the list it filters against
    starting    \* worker -> its process has not finished importing

Init ==
    /\ newest = 0
    /\ array = [w \in Workers |-> 0]
    /\ starting = [w \in Workers |-> TRUE]

Publish ==
    /\ newest' \in Nat /\ newest' >= newest
    /\ UNCHANGED <<array, starting>>

Load(w) ==
    /\ \E n \in array[w] .. newest : array' = [array EXCEPT ![w] = n]
    /\ UNCHANGED <<newest, starting>>

Started(w) ==
    /\ starting' = [starting EXCEPT ![w] = FALSE]
    /\ UNCHANGED <<newest, array>>

Restart(w) ==
    /\ array' = [array EXCEPT ![w] = 0]
    /\ starting' = [starting EXCEPT ![w] = TRUE]
    /\ UNCHANGED newest

Next == Publish \/ \E w \in Workers : Load(w) \/ Started(w) \/ Restart(w)

Spec == Init /\ [][Next]_<<newest, array, starting>>
=============================================================================
