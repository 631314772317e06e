----------------------------- MODULE VarExpand -------------------------------
(***************************************************************************)
(* The expansion of variables in a path element: kpathsea_var_expand with  *)
(* expand, expanding and expanding_p of variable.c, and the repetition of  *)
(* kpathsea_brace_expand_element in expand.c until nothing changes.        *)
(*                                                                         *)
(* A string is a sequence of tokens: plain text, or a reference to a       *)
(* variable, written $v or ${v}.                                           *)
(***************************************************************************)
EXTENDS Naturals, Sequences, SequencesExt

CONSTANTS
  Variables,
  Text,       \* a token without a reference
  Values,     \* the values that variables may have: sequences of tokens
  Undefined,  \* a variable without a value
  PathElements, \* the path elements that are expanded
  MaxRounds   \* bound on the repetitions (the code has none)

References == [var : Variables, braces : BOOLEAN]
Strings == Seq(References \cup {Text})

ASSUME ValuesAssumption == /\ Values \subseteq Strings /\ PathElements \subseteq Strings
                           /\ Undefined \notin Strings /\ Text \notin References
                           /\ MaxRounds \in Nat \ {0}

VARIABLES
  value,   \* value[v]: from the environment or texmf.cnf
  elt,     \* the string being expanded
  calls,   \* the calls of kpathsea_var_expand, innermost first: the variable each one is
           \* the value of (<<>> for elt itself), and the tokens still to come
  marks,   \* the variables whose `expanding' flag is set
  out,     \* the expansion so far
  round,   \* the depth of recursion of kpathsea_brace_expand_element
  pc       \* "idle" or "expand"

expansionVars == <<value, elt, calls, marks, out, round, pc>>

ExpansionTypeOK ==
  /\ value \in [Variables -> Values \cup {Undefined}]
  /\ elt \in Strings /\ out \in Strings
  /\ calls \in Seq([var : Variables \cup {<<>>}, rest : Strings])
  /\ marks \subseteq Variables
  /\ round \in 0..MaxRounds
  /\ pc \in {"idle", "expand"}

-----------------------------------------------------------------------------
ExpansionInit ==
  /\ value \in [Variables -> Values \cup {Undefined}]
  /\ elt = <<>> /\ calls = <<>> /\ marks = {} /\ out = <<>> /\ round = 0 /\ pc = "idle"

Expanding(s) == calls' = <<[var |-> <<>>, rest |-> s]>> /\ elt' = s /\ out' = <<>>

Start(s) ==
  /\ pc = "idle"
  /\ Expanding(s)
  /\ round' = 1 /\ pc' = "expand"
  /\ UNCHANGED <<value, marks>>

\* The next token of the innermost call, and the calls with it consumed.
Ready == calls # <<>> /\ Head(calls).rest # <<>>
Token == Head(Head(calls).rest)
Consumed == <<[Head(calls) EXCEPT !.rest = Tail(@)]>> \o Tail(calls)

Copy ==
  /\ Ready /\ Token = Text
  /\ out' = Append(out, Text)
  /\ calls' = Consumed
  /\ UNCHANGED <<value, elt, marks, round, pc>>

Expandable(v) == v \notin marks /\ value[v] # Undefined

\* Mark the variable and expand its value in place of the reference.
Expand ==
  /\ Ready /\ Token # Text /\ Expandable(Token.var)
  /\ marks' = marks \cup {Token.var}
  /\ calls' = <<[var |-> Token.var, rest |-> value[Token.var]]>> \o Consumed
  /\ UNCHANGED <<value, elt, out, round, pc>>

\* Slip: the scan does not go past the } of an empty expansion.
KeepStuck ==
  /\ Ready /\ Token # Text /\ ~Expandable(Token.var)
  /\ out' = IF Token.braces THEN out ELSE Append(out, Token)
  /\ calls' = IF Token.braces THEN calls ELSE Consumed
  /\ UNCHANGED <<value, elt, marks, round, pc>>

\* An undefined variable, or one that is being expanded: $v stays as it is,
\* ${v} expands to nothing.
Keep ==
  /\ Ready /\ Token # Text /\ ~Expandable(Token.var)
  /\ out' = IF Token.braces THEN out ELSE Append(out, Token)
  /\ calls' = Consumed
  /\ UNCHANGED <<value, elt, marks, round, pc>>

\* Slip: the flag is not reset.
LeaveMarked ==
  /\ Len(calls) > 1 /\ Head(calls).rest = <<>>
  /\ calls' = Tail(calls)
  /\ UNCHANGED <<value, elt, marks, out, round, pc>>

\* The value has been expanded.
Leave ==
  /\ Len(calls) > 1 /\ Head(calls).rest = <<>>
  /\ marks' = marks \ {Head(calls).var}
  /\ calls' = Tail(calls)
  /\ UNCHANGED <<value, elt, out, round, pc>>

Expanded == Len(calls) = 1 /\ Head(calls).rest = <<>>

\* Something was expanded: expand the result again.
Again ==
  /\ Expanded /\ out # elt /\ round < MaxRounds
  /\ Expanding(out)
  /\ round' = round + 1
  /\ UNCHANGED <<value, marks, pc>>

Return ==
  /\ Expanded /\ (out = elt \/ round = MaxRounds)
  /\ calls' = <<>> /\ pc' = "idle" /\ round' = 0 /\ elt' = <<>> /\ out' = <<>>
  /\ UNCHANGED <<value, marks>>

ExpansionStep == Copy \/ Expand \/ Keep \/ Leave \/ Again \/ Return

ExpansionNext == ExpansionStep \/ \E s \in PathElements : Start(s)

ExpansionSpec == ExpansionInit /\ [][ExpansionNext]_expansionVars

ExpansionFairSpec == ExpansionSpec /\ WF_expansionVars(ExpansionStep)

-----------------------------------------------------------------------------
(* Properties *)

RefersTo(v, w) == value[v] # Undefined /\ \E t \in ToSet(value[v]) : t # Text /\ t.var = w

\* The variables whose value refers to themselves, perhaps through others: they
\* are in every set that has what they refer to and what its members refer to.
Recursive ==
  {v \in Variables : \A S \in SUBSET Variables :
     (\A u \in S \cup {v} : \A w \in Variables : RefersTo(u, w) => w \in S) => v \in S}

\* What is left of references when an expansion ends is undefined or
\* recursive: every other variable has been replaced by its value, however
\* often it occurred.
FullyExpanded ==
  Expanded => \A t \in ToSet(out) :
    t # Text => value[t.var] = Undefined \/ t.var \in Recursive

\* An element that is expanded again does not contain what it came from, or
\* it would be expanded for ever ("Since recursive variable definitions are
\* not allowed, this recursion must terminate").
NotRecursive ==
  Expanded /\ out # elt =>
    \A i \in 1..Len(out) : \A j \in i..Len(out) : elt # <<>> => SubSeq(out, i, j) # elt

\* Every expansion ends, also that of a recursive variable, which would have
\* no end without the marks.
ExpansionEnds == pc = "expand" ~> Expanded
==============================================================================
