------------------------------ MODULE StrLlist -------------------------------
(***************************************************************************)
(* str-llist.c: the linked list of strings whose elements float towards    *)
(* the front, each once, behind those that floated before.  A list is the  *)
(* sequence of its elements, which are distinct nodes even where two hold  *)
(* the same string, and the set of those whose `moved' flag is set.        *)
(***************************************************************************)
EXTENDS Naturals, Sequences, SequencesExt

CONSTANT Null   \* the null element

At(s, d) == CHOOSE p \in DOMAIN s : s[p] = d

\* STR_LLIST_NEXT
Next_elt(s, d) == IF At(s, d) = Len(s) THEN Null ELSE s[At(s, d) + 1]

Head_elt(s) == IF s = <<>> THEN Null ELSE s[1]

\* The element the mover is inserted before.
FirstUnmoved(s, mv) ==
  CHOOSE p \in DOMAIN s : s[p] \notin mv /\ \A r \in 1..(p - 1) : s[r] \in mv

\* Slip: move to the very front, as a plain move-to-front list does.
FloatToFront(s, mv, mover) ==
  [p \in 1..Len(s) |-> IF p = 1 THEN mover
                       ELSE IF At(s, mover) < p THEN s[p] ELSE s[p - 1]]

\* str_llist_float: unlink the mover, relink it after the last moved element.
Float(s, mv, mover) ==
  IF mover \in mv THEN s
  ELSE LET u == FirstUnmoved(s, mv)
           m == At(s, mover)
       IN  [p \in 1..Len(s) |-> IF p < u \/ m < p THEN s[p]
                                ELSE IF p = u THEN mover ELSE s[p - 1]]

\* The elements that have moved are the first k of the list.
MovedPrefix(s, mv) ==
  \E k \in 0..Len(s) : \A p \in DOMAIN s : s[p] \in mv <=> p <= k
==============================================================================
