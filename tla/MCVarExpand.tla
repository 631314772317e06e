---------------------------- MODULE MCVarExpand ------------------------------
(* Two or three variables that refer to each other in all the ways that     *)
(* values of at most two tokens allow.                                      *)
EXTENDS VarExpand
CONSTANTS A, B, C
Ref(v) == [var |-> v, braces |-> FALSE]
BraceRef(v) == [var |-> v, braces |-> TRUE]
MCVars == {A, B, C}
MCValues == { <<>>, <<Text>>, <<Ref(A)>>, <<Ref(B)>>, <<Ref(C)>>,
              <<Text, Ref(A)>>, <<BraceRef(C), Ref(B)>>, <<Ref(C), Ref(C)>> }
MCElements == { <<Ref(A), Text>>, <<BraceRef(B), Ref(A)>> }
==============================================================================
