----------------------------- MODULE HashTable -----------------------------
(***************************************************************************)
(* kpathsea's hash tables (hash.c): an array of buckets, each a linked     *)
(* list, and the elements they are made of.  An element is known by the    *)
(* number of its allocation; 0 is the null pointer.  hash_remove, which    *)
(* xdvi alone calls, is left out, and so is the folding of case that       *)
(* hash_insert_normalized saves: off Windows TRANSFORM is the identity.    *)
(***************************************************************************)
EXTENDS Naturals, Sequences

CONSTANTS Keys, Slots,
          Hash        \* [Keys -> Slots]: which keys collide

hash_create == [buckets |-> [n \in Slots |-> 0], elements |-> <<>>]

\* The last element of the list that p is in.
LastFrom(table, p) ==
    LET last[q \in 1..Len(table.elements)] ==
            LET next == table.elements[q].next IN IF next = 0 THEN q ELSE last[next]
    IN last[p]

Added(table, key, value) ==
    [table EXCEPT !.elements = Append(@, [key |-> key, value |-> value, next |-> 0])]

\* Slip: the new element takes the place of the list behind the first one.
hash_insert_second(table, key, value) ==
    LET n == Hash[key]
        new == Len(table.elements) + 1
        first == table.buckets[n]
    IN IF first = 0 THEN [Added(table, key, value) EXCEPT !.buckets[n] = new]
       ELSE [Added(table, key, value) EXCEPT !.elements[first].next = new]

\* The new element goes to the end of its bucket's list.
hash_insert(table, key, value) ==
    LET n == Hash[key]
        new == Len(table.elements) + 1
        first == table.buckets[n]
    IN IF first = 0 THEN [Added(table, key, value) EXCEPT !.buckets[n] = new]
       ELSE [Added(table, key, value) EXCEPT !.elements[LastFrom(table, first)].next = new]

\* The values of the elements from q on that have the key.
Matching(table, key) ==
    LET from[q \in 0..Len(table.elements)] ==
            IF q = 0 THEN <<>>
            ELSE LET e == table.elements[q]
                 IN (IF e.key = key THEN <<e.value>> ELSE <<>>) \o from[e.next]
    IN from

\* The values of all elements of the bucket that have the key, in the order of
\* the list; the empty list stands for NULL.
hash_lookup(table, key) == Matching(table, key)[table.buckets[Hash[key]]]
=============================================================================
