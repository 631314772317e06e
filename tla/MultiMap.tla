------------------------------ MODULE MultiMap ------------------------------
(***************************************************************************)
(* What a hash table promises: for each key the values that were put in    *)
(* under it, in the order they were put in, each kept for good.            *)
(***************************************************************************)
EXTENDS Sequences, SequencesExt

CONSTANTS Keys, Values

VARIABLE store

Init == store = [k \in Keys |-> <<>>]

\* One value more for one key, after the ones it has; what it is may be read
\* off the new list, so that Values need not be enumerated.
Insert(k) ==
    /\ store'[k] # <<>> /\ Last(store'[k]) \in Values
    /\ store' = [store EXCEPT ![k] = Append(@, Last(store'[k]))]

Next == \E k \in Keys : Insert(k)

Spec == Init /\ [][Next]_store
=============================================================================
