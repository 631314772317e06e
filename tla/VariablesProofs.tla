--------------------------- MODULE VariablesProofs ---------------------------
(***************************************************************************)
(* Proofs about the variables: where a value comes from (Cnf), when the    *)
(* files it comes from are read (KpseInit), and how it is expanded         *)
(* (VarExpand), for any variables, programs, files, paths and values.      *)
(***************************************************************************)
EXTENDS Cnf, KpseInit, VarExpand, FiniteSetTheorems, SequenceTheorems, WellFoundedInduction, TLAPS

-----------------------------------------------------------------------------
(* Numbers and sequences *)

\* The order of the natural numbers, as a set of pairs.
Less == {x \in Nat \X Nat : x[1] < x[2]}

\* A set of natural numbers that is not empty has a least element.
LEMMA Least ==
    ASSUME NEW T \in SUBSET Nat, T # {}
    PROVE  \E x \in T : \A y \in T : x <= y
  <1>1. Less \cap (Nat \X Nat) \subseteq OpToRel(<, Nat)
    BY DEF Less, OpToRel
  <1>2. IsWellFoundedOn(Less, Nat)
    BY <1>1, NatLessThanWellFounded, IsWellFoundedOnSubrelation
  <1>3. PICK x \in T : \A y \in T : ~ (<<y, x>> \in Less)
    BY <1>2, WFMin
  <1>4. ASSUME NEW y \in T PROVE x <= y
    <2>1. x \in Nat /\ y \in Nat /\ ~ (<<y, x>> \in Less)
      BY <1>3
    <2> QED  BY <2>1 DEF Less
  <1> QED  BY <1>4

\* A set of numbers that has 0, and with each number the next one, has them all.
LEMMA Upwards ==
    ASSUME NEW n \in Nat, NEW T, 0 \in T, \A i \in 0..n : i \in T /\ i < n => i + 1 \in T
    PROVE  \A i \in 0..n : i \in T
  <1> DEFINE B == {i \in 0..n : i \notin T}
  <1> SUFFICES ASSUME B # {} PROVE FALSE
    OBVIOUS
  <1>1. PICK m \in B : \A k \in B : m <= k
    <2>1. B \in SUBSET Nat
      OBVIOUS
    <2> HIDE DEF B
    <2> QED  BY <2>1, Least
  <1>2. m # 0 /\ m \in 1..n
    BY <1>1
  <1>3. m - 1 \in 0..n /\ m - 1 < n /\ ~ (m <= m - 1)
    BY <1>2
  <1>4. m - 1 \in T
    BY <1>1, <1>3
  <1>5. m - 1 + 1 = m
    BY <1>2
  <1> QED  BY <1>1, <1>3, <1>4, <1>5

LEMMA Small ==
    \A n \in Nat : /\ n # 0 => n = 1 \/ n > 1
                   /\ n = 1 => \A i \in 1..n : i = 1
                   /\ 1 + 1 = n => n = 2 /\ \A i \in 1..n : i = 1 \/ i = 1 + 1
  OBVIOUS

LEMMA FirstReplaced ==
    ASSUME NEW S, NEW s \in Seq(S), s # <<>>, NEW x \in S
    PROVE  /\ <<x>> \o Tail(s) \in Seq(S) /\ Len(<<x>> \o Tail(s)) = Len(s)
           /\ (<<x>> \o Tail(s))[1] = x
           /\ \A i \in 2..Len(s) : (<<x>> \o Tail(s))[i] = s[i]
  <1>1. Tail(s) \in Seq(S) /\ <<x>> \in Seq(S) /\ Len(<<x>>) = 1 /\ Len(Tail(s)) = Len(s) - 1
    OBVIOUS
  <1> QED  BY <1>1

LEMMA FirstPushed ==
    ASSUME NEW S, NEW s \in Seq(S), NEW x \in S
    PROVE  /\ <<x>> \o s \in Seq(S) /\ Len(<<x>> \o s) = Len(s) + 1
           /\ (<<x>> \o s)[1] = x
           /\ \A i \in 1..Len(s) : (<<x>> \o s)[i + 1] = s[i]
  <1>1. <<x>> \in Seq(S) /\ Len(<<x>>) = 1
    OBVIOUS
  <1> QED  BY <1>1

LEMMA FirstDropped ==
    ASSUME NEW S, NEW s \in Seq(S), s # <<>>
    PROVE  /\ Tail(s) \in Seq(S) /\ Len(Tail(s)) = Len(s) - 1
           /\ \A i \in 1..Len(s) - 1 : Tail(s)[i] = s[i + 1]
  OBVIOUS

\* The function f starts with a and takes the steps of G.
Steps(f, n, a, G) == \A i \in 0..n : f[i] = IF i = 0 THEN a ELSE G[i][f[i - 1]]

\* There is one for every start and all steps.
LEMMA Recursion ==
    ASSUME NEW n \in Nat, NEW S, NEW a \in S, NEW G \in [1..n -> [S -> S]]
    PROVE  \E f \in [0..n -> S] : Steps(f, n, a, G)
  <1> DEFINE T == {m \in 0..n : \E f \in [0..m -> S] :
                      \A i \in 0..m : f[i] = IF i = 0 THEN a ELSE G[i][f[i - 1]]}
  <1>1. 0 \in T
    <2> DEFINE f == [i \in 0..0 |-> a]
    <2>1. f \in [0..0 -> S] /\ \A i \in 0..0 : f[i] = IF i = 0 THEN a ELSE G[i][f[i - 1]]
      <3>1. \A i \in 0..0 : i = 0 /\ f[i] = a
        OBVIOUS
      <3>2. f \in [0..0 -> S]
        OBVIOUS
      <3> HIDE DEF f
      <3> QED  BY <3>1, <3>2
    <2> HIDE DEF f
    <2>2. 0 \in 0..n
      OBVIOUS
    <2> QED  BY <2>1, <2>2
  <1>2. ASSUME NEW m \in 0..n, m \in T, m < n PROVE m + 1 \in T
    <2>1. PICK f \in [0..m -> S] : \A i \in 0..m : f[i] = IF i = 0 THEN a ELSE G[i][f[i - 1]]
      BY <1>2
    <2> DEFINE g == [i \in 0..m + 1 |-> IF i = m + 1 THEN G[i][f[m]] ELSE f[i]]
    <2>2. m + 1 \in 1..n /\ m \in 0..m /\ f[m] \in S
      BY <1>2
    <2>3. G[m + 1][f[m]] \in S
      BY <2>2
    <2>4. g \in [0..m + 1 -> S]
      BY <2>3
    <2>5. ASSUME NEW i \in 0..m + 1 PROVE g[i] = IF i = 0 THEN a ELSE G[i][g[i - 1]]
      <3>1. CASE i = m + 1
        <4>1. i - 1 = m /\ i # 0 /\ m # m + 1 /\ m \in 0..m + 1
          BY <2>2, <3>1
        <4> QED  BY <3>1, <4>1
      <3>2. CASE i # m + 1
        <4>1. i \in 0..m /\ (i # 0 => i - 1 \in 0..m /\ i - 1 # m + 1 /\ i - 1 \in 0..m + 1)
          BY <2>2, <3>2
        <4> QED  BY <2>1, <3>2, <4>1
      <3> QED  BY <3>1, <3>2
    <2> HIDE DEF g
    <2> QED  BY <2>2, <2>4, <2>5
  <1> HIDE DEF T
  <1>3. \A i \in 0..n : i \in T /\ i < n => i + 1 \in T
    BY <1>2
  <1>4. \A i \in 0..n : i \in T
    BY <1>1, <1>3, Upwards
  <1>5. n \in T
    BY <1>4
  <1> QED  BY <1>5 DEF T, Steps

\* A set of numbers that has each one with all larger ones before it has all.
LEMMA Downwards ==
    ASSUME NEW n \in Nat, NEW T,
           \A q \in 1..n : (\A r \in q + 1..n : r \in T) => q \in T
    PROVE  \A q \in 1..n : q \in T
  <1> DEFINE U == {m \in 0..n : \A q \in n - m + 1..n : q \in T}
  <1>1. 0 \in U
    OBVIOUS
  <1>2. ASSUME NEW m \in 0..n, m \in U, m < n PROVE m + 1 \in U
    <2>1. n - m \in 1..n /\ n - (m + 1) + 1 = n - m /\ m + 1 \in 0..n
      BY <1>2
    <2>2. n - m \in T
      BY <1>2, <2>1
    <2>3. \A q \in n - m..n : q = n - m \/ q \in n - m + 1..n
      BY <2>1
    <2> QED  BY <1>2, <2>1, <2>2, <2>3
  <1> HIDE DEF U
  <1>3. \A m \in 0..n : m \in U /\ m < n => m + 1 \in U
    BY <1>2
  <1>4. \A m \in 0..n : m \in U
    BY <1>1, <1>3, Upwards
  <1>5. n \in U
    BY <1>4
  <1> QED  BY <1>5 DEF U

\* A function takes each number to what the one it is linked to is taken to,
\* changed in some way.
Follows(n, S, a, G, link) ==
    \E f \in [0..n -> S] : f[0] = a /\ \A q \in 1..n : f[q] = G[q][f[link[q]]]

\* There is one if the links go upwards and end in 0.
LEMMA Linked ==
    ASSUME NEW n \in Nat, NEW S, NEW a \in S, NEW G \in [1..n -> [S -> S]], NEW link \in [1..n -> Nat],
           \A q \in 1..n : link[q] = 0 \/ link[q] \in q + 1..n
    PROVE  Follows(n, S, a, G, link)
  <1> DEFINE T == {m \in 0..n : \E f \in [0..n -> S] :
                      f[0] = a /\ \A q \in n - m + 1..n : f[q] = G[q][f[link[q]]]}
  <1>1. 0 \in T
    <2> DEFINE f == [q \in 0..n |-> a]
    <2>1. f \in [0..n -> S] /\ f[0] = a
      OBVIOUS
    <2>2. \A q \in n - 0 + 1..n : FALSE
      OBVIOUS
    <2> HIDE DEF f
    <2> QED  BY <2>1, <2>2
  <1>2. ASSUME NEW m \in 0..n, m \in T, m < n PROVE m + 1 \in T
    <2>1. PICK f \in [0..n -> S] : f[0] = a /\ \A q \in n - m + 1..n : f[q] = G[q][f[link[q]]]
      BY <1>2
    <2> DEFINE p == n - m
               g == [f EXCEPT ![p] = G[p][f[link[p]]]]
    <2>2. p \in 1..n /\ p \in Nat /\ p # 0 /\ n - (m + 1) + 1 = p /\ n - m + 1 = p + 1 /\ m + 1 \in 0..n
      BY <1>2
    <2> HIDE DEF p
    <2>3. \A q \in p..n : q = p \/ q \in p + 1..n
      BY <2>2
    <2>4. \A q \in p..n : link[q] \in 0..n /\ link[q] # p /\ q \in 1..n
      BY <2>2
    <2>5. g \in [0..n -> S] /\ g[p] = G[p][f[link[p]]] /\ \A q \in 0..n : q # p => g[q] = f[q]
      BY <2>2, <2>4
    <2> HIDE DEF g
    <2>6. g[0] = a
      BY <2>1, <2>2, <2>5
    <2>7. ASSUME NEW q \in p..n PROVE g[q] = G[q][g[link[q]]]
      <3>1. g[link[q]] = f[link[q]]
        BY <2>4, <2>5
      <3>2. CASE q = p
        BY <2>5, <3>1, <3>2
      <3>3. CASE q \in p + 1..n
        <4>1. q # p /\ q \in 0..n
          BY <2>2, <3>3
        <4>2. f[q] = G[q][f[link[q]]]
          BY <2>1, <2>2, <3>3
        <4> QED  BY <2>5, <3>1, <4>1, <4>2
      <3> QED  BY <2>3, <3>2, <3>3
    <2> QED  BY <2>2, <2>5, <2>6, <2>7
  <1> HIDE DEF T
  <1>3. \A m \in 0..n : m \in T /\ m < n => m + 1 \in T
    BY <1>2
  <1>4. \A m \in 0..n : m \in T
    BY <1>1, <1>3, Upwards
  <1>5. n \in T /\ n - n + 1 = 1
    BY <1>4
  <1> QED  BY <1>5 DEF T, Follows

-----------------------------------------------------------------------------
(* The hash table *)

Elts == [key : Keys, value : Seq(Nat), next : Nat]

\* The bucket that an element is in.
Slot(t, q) == Hash[t.elements[q].key]

\* The lists are apart and run from older elements to newer ones; each has one end.
Table(t) ==
    /\ t \in [buckets : [Slots -> Nat], elements : Seq(Elts)]
    /\ \A n \in Slots : t.buckets[n] # 0 =>
         t.buckets[n] \in 1..Len(t.elements) /\ Slot(t, t.buckets[n]) = n
    /\ \A q \in 1..Len(t.elements) :
         /\ t.elements[q].next # 0 =>
              t.elements[q].next \in q + 1..Len(t.elements) /\ Slot(t, t.elements[q].next) = Slot(t, q)
         /\ t.buckets[Slot(t, q)] # 0
         /\ t.elements[q].next = 0 =>
              \A r \in 1..Len(t.elements) : Slot(t, r) = Slot(t, q) /\ t.elements[r].next = 0 => r = q

Part(t, key, q) == IF t.elements[q].key = key THEN <<t.elements[q].value>> ELSE <<>>

LEMMA EltTyped ==
    ASSUME NEW t, Table(t), NEW q \in 1..Len(t.elements)
    PROVE  /\ t.elements[q] \in Elts /\ t.elements[q].key \in Keys
           /\ t.elements[q].value \in Seq(Nat) /\ t.elements[q].next \in Nat
           /\ \A key : Part(t, key, q) \in Seq(Seq(Nat))
  <1>1. t.elements[q] \in Elts
    BY DEF Table
  <1>2. t.elements[q].key \in Keys /\ t.elements[q].value \in Seq(Nat) /\ t.elements[q].next \in Nat
    BY <1>1 DEF Elts
  <1> QED  BY <1>1, <1>2 DEF Part

\* The recursive functions of the table do what their definitions say.
LEMMA MatchingIs ==
    ASSUME NEW t, Table(t), NEW key
    PROVE  /\ Matching(t, key) \in [0..Len(t.elements) -> Seq(Seq(Nat))]
           /\ Matching(t, key)[0] = <<>>
           /\ \A q \in 1..Len(t.elements) :
                Matching(t, key)[q] = Part(t, key, q) \o Matching(t, key)[t.elements[q].next]
  <1> DEFINE n == Len(t.elements)
             S == Seq(Seq(Nat))
             link == [q \in 1..n |-> t.elements[q].next]
             part == [q \in 1..n |-> Part(t, key, q)]
             G == [q \in 1..n |-> [s \in S |-> part[q] \o s]]
             from == CHOOSE from : from = [q \in 0..Len(t.elements) |->
                        IF q = 0 THEN <<>>
                        ELSE LET e == t.elements[q]
                             IN (IF e.key = key THEN <<e.value>> ELSE <<>>) \o from[e.next]]
  <1>1. Matching(t, key) = from
    BY DEF Matching
  <1>2. /\ n \in Nat /\ <<>> \in S
        /\ link \in [1..n -> Nat] /\ part \in [1..n -> S]
    BY EltTyped DEF Table
  <1>3. \A q \in 1..n : link[q] = 0 \/ link[q] \in q + 1..n
    BY DEF Table
  <1>4. G \in [1..n -> [S -> S]] /\ \A q \in 1..n, s \in S : G[q][s] = part[q] \o s
    <2>1. \A u, v \in S : u \o v \in S
      OBVIOUS
    <2> HIDE DEF S, part, n
    <2> QED  BY <1>2, <2>1
  <1>5. \A q \in 1..n : part[q] = IF t.elements[q].key = key THEN <<t.elements[q].value>> ELSE <<>>
    BY DEF Part
  <1>6. \A q \in 1..n : link[q] = t.elements[q].next /\ part[q] = Part(t, key, q)
    OBVIOUS
  <1> HIDE DEF S, part, link, G
  <1>7. PICK f \in [0..n -> S] : f[0] = <<>> /\ \A q \in 1..n : f[q] = G[q][f[link[q]]]
    <2> HIDE DEF n
    <2>1. /\ n \in Nat /\ <<>> \in S /\ G \in [1..n -> [S -> S]] /\ link \in [1..n -> Nat]
          /\ \A q \in 1..n : link[q] = 0 \/ link[q] \in q + 1..n
      BY <1>2, <1>3, <1>4
    <2>2. Follows(n, S, <<>>, G, link)
      BY <2>1, Linked
    <2> QED  BY <2>2 DEF Follows
  <1>8. \A q \in 1..n : link[q] \in 0..n
    <2> HIDE DEF n
    <2> QED  BY <1>2, <1>3
  <1>9. \A q \in 1..n : f[q] = part[q] \o f[link[q]]
    BY <1>4, <1>7, <1>8
  <1>10. f = [q \in 0..n |-> IF q = 0 THEN <<>>
                             ELSE LET e == t.elements[q]
                                  IN (IF e.key = key THEN <<e.value>> ELSE <<>>) \o f[e.next]]
    <2>1. \A q \in 0..n : q # 0 => q \in 1..n
      BY <1>2
    <2> QED  BY <1>5, <1>6, <1>7, <1>9, <2>1
  <1>11. from = [q \in 0..n |-> IF q = 0 THEN <<>>
                                ELSE LET e == t.elements[q]
                                     IN (IF e.key = key THEN <<e.value>> ELSE <<>>) \o from[e.next]]
    BY <1>10
  <1> HIDE DEF from
  <1>12. 0 \in 0..n /\ \A q \in 1..n : q \in 0..n /\ q # 0
    BY <1>2
  <1>13. from[0] = <<>> /\ \A q \in 1..n : from[q] = Part(t, key, q) \o from[t.elements[q].next]
    BY <1>11, <1>12 DEF Part
  <1>14. \A q \in 1..n : from[q] = part[q] \o from[link[q]]
    BY <1>6, <1>13
  <1>15. \A q \in 0..n : from[q] \in S
    <2> DEFINE T == {q \in 1..n : from[q] \in S}
    <2>1. \A q \in 1..n : (\A r \in q + 1..n : r \in T) => q \in T
      <3> SUFFICES ASSUME NEW q \in 1..n, \A r \in q + 1..n : r \in T PROVE from[q] \in S
        OBVIOUS
      <3>1. from[link[q]] \in S
        BY <1>2, <1>3, <1>13
      <3>2. part[q] \in S /\ from[q] = part[q] \o from[link[q]]
        BY <1>2, <1>14
      <3> QED  BY <3>1, <3>2 DEF S
    <2> HIDE DEF T
    <2>2. \A q \in 1..n : q \in T
      BY <1>2, <2>1, Downwards
    <2>3. \A q \in 0..n : q = 0 \/ q \in 1..n
      BY <1>2
    <2> QED  BY <1>2, <1>13, <2>2, <2>3 DEF T
  <1>16. from \in [0..n -> S]
    BY <1>11, <1>15
  <1> QED  BY <1>1, <1>13, <1>16 DEF S

LEMMA EndIs ==
    ASSUME NEW t, Table(t), NEW p \in 1..Len(t.elements)
    PROVE  /\ LastFrom(t, p) \in 1..Len(t.elements) /\ t.elements[LastFrom(t, p)].next = 0
           /\ Slot(t, LastFrom(t, p)) = Slot(t, p)
  <1> DEFINE n == Len(t.elements)
             S == 0..n
             link == [q \in 1..n |-> t.elements[q].next]
             G == [q \in 1..n |-> [s \in S |-> IF link[q] = 0 THEN q ELSE s]]
             last == CHOOSE last : last = [q \in 1..Len(t.elements) |->
                        LET next == t.elements[q].next IN IF next = 0 THEN q ELSE last[next]]
  <1>1. LastFrom(t, p) = last[p]
    BY DEF LastFrom
  <1>2. n \in Nat /\ link \in [1..n -> Nat] /\ 0 \in S
    BY EltTyped DEF Table
  <1>3. /\ \A q \in 1..n : link[q] = 0 \/ link[q] \in q + 1..n
        /\ \A q \in 1..n : link[q] # 0 => Slot(t, link[q]) = Slot(t, q)
        /\ \A q \in 1..n : link[q] = t.elements[q].next
    BY DEF Table
  <1>4. G \in [1..n -> [S -> S]] /\ \A q \in 1..n, s \in S : G[q][s] = IF link[q] = 0 THEN q ELSE s
    OBVIOUS
  <1> HIDE DEF link, G
  <1>5. PICK f \in [0..n -> S] : f[0] = 0 /\ \A q \in 1..n : f[q] = G[q][f[link[q]]]
    <2> HIDE DEF n, S
    <2>1. /\ n \in Nat /\ 0 \in S /\ G \in [1..n -> [S -> S]] /\ link \in [1..n -> Nat]
          /\ \A q \in 1..n : link[q] = 0 \/ link[q] \in q + 1..n
      BY <1>2, <1>3, <1>4
    <2>2. Follows(n, S, 0, G, link)
      BY <2>1, Linked
    <2> QED  BY <2>2 DEF Follows
  <1>6. \A q \in 1..n : link[q] \in 0..n /\ (link[q] # 0 => link[q] \in 1..n)
    <2> HIDE DEF n
    <2> QED  BY <1>2, <1>3
  <1>7. \A q \in 1..n : f[q] = IF link[q] = 0 THEN q ELSE f[link[q]]
    BY <1>4, <1>5, <1>6
  <1> DEFINE h == [q \in 1..n |-> f[q]]
  <1>8. h = [q \in 1..n |-> LET next == t.elements[q].next IN IF next = 0 THEN q ELSE h[next]]
    <2>1. \A q \in 1..n : h[q] = f[q] /\ (link[q] # 0 => h[link[q]] = f[link[q]])
      BY <1>6
    <2>2. \A q \in 1..n : h[q] = IF link[q] = 0 THEN q ELSE h[link[q]]
      BY <1>7, <2>1
    <2> QED  BY <1>3, <2>2
  <1>9. last = [q \in 1..n |-> LET next == t.elements[q].next IN IF next = 0 THEN q ELSE last[next]]
    BY <1>8
  <1> HIDE DEF last, h
  <1>10. \A q \in 1..n : last[q] = IF link[q] = 0 THEN q ELSE last[link[q]]
    BY <1>3, <1>9
  <1> DEFINE T == {q \in 1..n : last[q] \in 1..n /\ link[last[q]] = 0 /\ Slot(t, last[q]) = Slot(t, q)}
  <1>11. \A q \in 1..n : (\A r \in q + 1..n : r \in T) => q \in T
    <2> SUFFICES ASSUME NEW q \in 1..n, \A r \in q + 1..n : r \in T PROVE q \in T
      OBVIOUS
    <2>1. CASE link[q] = 0
      BY <1>10, <2>1
    <2>2. CASE link[q] # 0
      <3>1. link[q] \in T /\ last[q] = last[link[q]] /\ Slot(t, link[q]) = Slot(t, q)
        BY <1>3, <1>10, <2>2
      <3> QED  BY <3>1
    <2> QED  BY <2>1, <2>2
  <1> HIDE DEF T, n
  <1>12. \A q \in 1..n : q \in T
    BY <1>2, <1>11, Downwards
  <1>13. p \in T
    BY <1>12 DEF n
  <1> QED  BY <1>1, <1>3, <1>13 DEF T, n

\* What is in the table after an insertion.
LEMMA InsertIs ==
    ASSUME CnfAssumption, NEW t, Table(t), NEW k \in Keys, NEW v \in Seq(Nat),
           NEW u, u = hash_insert(t, k, v)
    PROVE  LET n    == Len(t.elements)
               here == t.buckets[Hash[k]] # 0
               last == LastFrom(t, t.buckets[Hash[k]])
           IN  /\ u \in [buckets : [Slots -> Nat], elements : Seq(Elts)]
               /\ n \in Nat /\ Len(u.elements) = n + 1
               /\ here => last \in 1..n /\ t.elements[last].next = 0 /\ Slot(t, last) = Hash[k]
               /\ u.elements[n + 1] = [key |-> k, value |-> v, next |-> 0]
               /\ \A q \in 1..n :
                    /\ u.elements[q].key = t.elements[q].key
                    /\ u.elements[q].value = t.elements[q].value
                    /\ u.elements[q].next = IF here /\ q = last THEN n + 1 ELSE t.elements[q].next
               /\ \A m \in Slots :
                    u.buckets[m] = IF ~here /\ m = Hash[k] THEN n + 1 ELSE t.buckets[m]
  <1> DEFINE n == Len(t.elements)
             e == [key |-> k, value |-> v, next |-> 0]
             es == Append(t.elements, e)
             here == t.buckets[Hash[k]] # 0
             last == LastFrom(t, t.buckets[Hash[k]])
  <1>1. /\ t \in [buckets : [Slots -> Nat], elements : Seq(Elts)] /\ t.elements \in Seq(Elts)
        /\ n \in Nat /\ e \in Elts /\ Hash[k] \in Slots /\ t.buckets \in [Slots -> Nat]
    BY DEF Table, Elts, CnfAssumption
  <1> HIDE DEF e
  <1>2. es \in Seq(Elts) /\ Len(es) = n + 1 /\ es[n + 1] = e /\ \A q \in 1..n : es[q] = t.elements[q]
    BY <1>1, AppendProperties
  <1> HIDE DEF es
  <1>3. Added(t, k, v) = [buckets |-> t.buckets, elements |-> es]
    <2>1. t = [buckets |-> t.buckets, elements |-> t.elements]
      BY <1>1
    <2>2. Added(t, k, v) = [t EXCEPT !.elements = Append(t.elements, e)]
      BY <1>1 DEF Added, e
    <2> QED  BY <2>1, <2>2 DEF es
  <1>4. CASE ~here
    <2>1. u = [Added(t, k, v) EXCEPT !.buckets[Hash[k]] = n + 1]
      BY <1>4 DEF hash_insert
    <2>2. /\ Added(t, k, v) \in [buckets : [Slots -> Nat], elements : Seq(Elts)]
          /\ Added(t, k, v).buckets = t.buckets /\ Added(t, k, v).elements = es
      BY <1>1, <1>2, <1>3
    <2>3. /\ u \in [buckets : [Slots -> Nat], elements : Seq(Elts)]
          /\ u.buckets = [t.buckets EXCEPT ![Hash[k]] = n + 1] /\ u.elements = es
      <3>1. \A r \in [buckets : [Slots -> Nat], elements : Seq(Elts)], i \in Slots, m \in Nat :
              LET z == [r EXCEPT !.buckets[i] = m]
              IN  /\ z \in [buckets : [Slots -> Nat], elements : Seq(Elts)]
                  /\ z.buckets = [r.buckets EXCEPT ![i] = m] /\ z.elements = r.elements
        OBVIOUS
      <3>2. n + 1 \in Nat
        BY <1>1
      <3> DEFINE r == Added(t, k, v)
                 m == n + 1
      <3>3. r \in [buckets : [Slots -> Nat], elements : Seq(Elts)] /\ m \in Nat /\ Hash[k] \in Slots
        BY <1>1, <2>2, <3>2
      <3> HIDE DEF m, r
      <3>4. LET z == [r EXCEPT !.buckets[Hash[k]] = m]
            IN  /\ z \in [buckets : [Slots -> Nat], elements : Seq(Elts)]
                /\ z.buckets = [r.buckets EXCEPT ![Hash[k]] = m] /\ z.elements = r.elements
        BY <3>1, <3>3, Zenon
      <3> QED  BY <2>1, <2>2, <3>4 DEF m, r
    <2> QED  BY <1>1, <1>2, <1>4, <2>3 DEF e
  <1>5. CASE here
    <2>1. t.buckets[Hash[k]] \in 1..n /\ Slot(t, t.buckets[Hash[k]]) = Hash[k]
      BY <1>1, <1>5 DEF Table
    <2>2. last \in 1..n /\ t.elements[last].next = 0 /\ Slot(t, last) = Hash[k]
      BY <2>1, EndIs
    <2> HIDE DEF last
    <2>3. u = [buckets |-> t.buckets, elements |-> [es EXCEPT ![last].next = n + 1]]
      BY <1>3, <1>5 DEF hash_insert, last
    <2> DEFINE x == [es[last] EXCEPT !.next = n + 1]
    <2>4. last \in 1..n + 1 /\ es[last] \in Elts /\ last # n + 1
      BY <1>1, <1>2, <2>2
    <2>5. x \in Elts /\ x.next = n + 1 /\ x.key = es[last].key /\ x.value = es[last].value
      <3>1. \A m \in Nat, y \in Elts :
              LET z == [y EXCEPT !.next = m]
              IN  z \in Elts /\ z.next = m /\ z.key = y.key /\ z.value = y.value
        BY DEF Elts
      <3>2. n + 1 \in Nat
        BY <1>1
      <3> HIDE DEF n
      <3> QED  BY <2>4, <3>1, <3>2
    <2> HIDE DEF x
    <2>6. u.elements = [es EXCEPT ![last] = x] /\ u.buckets = t.buckets
      BY <2>3 DEF x
    <2>7. /\ u.elements \in Seq(Elts) /\ Len(u.elements) = n + 1 /\ u.elements[last] = x
          /\ \A q \in 1..n + 1 : q # last => u.elements[q] = es[q]
      BY <1>1, <1>2, <2>4, <2>5, <2>6
    <2>8. u \in [buckets : [Slots -> Nat], elements : Seq(Elts)]
      BY <1>1, <2>3, <2>6, <2>7
    <2>9. u.elements[n + 1] = e
      BY <1>1, <1>2, <2>4, <2>7
    <2>10. \A q \in 1..n : q \in 1..n + 1
      BY <1>1
    <2>11. ASSUME NEW q \in 1..n
           PROVE  /\ u.elements[q].key = t.elements[q].key
                  /\ u.elements[q].value = t.elements[q].value
                  /\ u.elements[q].next = IF q = last THEN n + 1 ELSE t.elements[q].next
      <3>1. es[q] = t.elements[q]
        BY <1>2
      <3>2. CASE q = last
        BY <2>5, <2>7, <3>1, <3>2
      <3>3. CASE q # last
        BY <2>7, <2>10, <3>1, <3>3
      <3> QED  BY <3>2, <3>3
    <2>12. \A m \in Slots : u.buckets[m] = t.buckets[m]
      BY <2>6
    <2>13. u.elements[n + 1] = [key |-> k, value |-> v, next |-> 0]
      BY <2>9 DEF e
    <2>14. Len(u.elements) = n + 1
      BY <2>7
    <2> HIDE DEF n
    <2> QED  BY <1>1, <1>5, <2>2, <2>8, <2>11, <2>12, <2>13, <2>14 DEF n, last
  <1> QED  BY <1>4, <1>5

\* An insertion leaves the lists in order, and adds the value to those of its key.
LEMMA InsertAdds ==
    ASSUME CnfAssumption, NEW t, Table(t), NEW k \in Keys, NEW v \in Seq(Nat),
           NEW u, u = hash_insert(t, k, v)
    PROVE  /\ Table(u)
           /\ \A key \in Keys : hash_lookup(u, key) =
                IF key = k THEN Append(hash_lookup(t, key), v) ELSE hash_lookup(t, key)
  <1> DEFINE n == Len(t.elements)
             slot == Hash[k]
             here == t.buckets[slot] # 0
             last == LastFrom(t, t.buckets[slot])
  <1>1. /\ u \in [buckets : [Slots -> Nat], elements : Seq(Elts)]
        /\ n \in Nat /\ Len(u.elements) = n + 1
        /\ here => last \in 1..n /\ t.elements[last].next = 0 /\ Slot(t, last) = slot
        /\ u.elements[n + 1] = [key |-> k, value |-> v, next |-> 0]
        /\ \A q \in 1..n : /\ u.elements[q].key = t.elements[q].key
                           /\ u.elements[q].value = t.elements[q].value
                           /\ u.elements[q].next = IF here /\ q = last THEN n + 1 ELSE t.elements[q].next
        /\ \A m \in Slots : u.buckets[m] = IF ~here /\ m = slot THEN n + 1 ELSE t.buckets[m]
    BY InsertIs
  <1>2. /\ t.buckets \in [Slots -> Nat] /\ slot \in Slots
        /\ \A m \in Slots : t.buckets[m] # 0 => t.buckets[m] \in 1..n /\ Slot(t, t.buckets[m]) = m
        /\ \A q \in 1..n :
             /\ t.elements[q].next # 0 =>
                  t.elements[q].next \in q + 1..n /\ Slot(t, t.elements[q].next) = Slot(t, q)
             /\ t.buckets[Slot(t, q)] # 0
             /\ t.elements[q].next = 0 =>
                  \A r \in 1..n : Slot(t, r) = Slot(t, q) /\ t.elements[r].next = 0 => r = q
    BY DEF Table, CnfAssumption
  <1>3. \A q \in 1..n : Slot(t, q) \in Slots /\ t.elements[q].next \in Nat
    BY EltTyped DEF Slot, CnfAssumption
  <1> HIDE DEF n, here, last, slot
  <1>4. Slot(u, n + 1) = slot /\ u.elements[n + 1].next = 0 /\ \A q \in 1..n : Slot(u, q) = Slot(t, q)
    BY <1>1 DEF Slot, slot
  <1>5. \A q \in 1..n + 1 : q = n + 1 \/ q \in 1..n
    BY <1>1
  <1>6. \A q \in 1..n : Slot(t, q) = slot => here
    BY <1>2 DEF here
  <1>7. Table(u)
    <2>1. ASSUME NEW m \in Slots, u.buckets[m] # 0
          PROVE  u.buckets[m] \in 1..n + 1 /\ Slot(u, u.buckets[m]) = m
      <3>1. CASE ~here /\ m = slot
        BY <1>1, <1>4, <3>1
      <3>2. CASE ~(~here /\ m = slot)
        <4>1. u.buckets[m] = t.buckets[m] /\ t.buckets[m] \in 1..n /\ Slot(t, t.buckets[m]) = m
          BY <1>1, <1>2, <2>1, <3>2
        <4> QED  BY <1>1, <1>4, <4>1
      <3> QED  BY <3>1, <3>2
    <2>2. ASSUME NEW q \in 1..n + 1, u.elements[q].next # 0
          PROVE  u.elements[q].next \in q + 1..n + 1 /\ Slot(u, u.elements[q].next) = Slot(u, q)
      <3>1. q \in 1..n
        BY <1>4, <1>5, <2>2
      <3>2. CASE here /\ q = last
        <4>1. u.elements[q].next = n + 1 /\ Slot(u, q) = slot
          BY <1>1, <1>4, <3>1, <3>2
        <4>2. n + 1 \in q + 1..n + 1
          BY <1>1, <3>1
        <4> QED  BY <1>4, <4>1, <4>2
      <3>3. CASE ~(here /\ q = last)
        <4>1. u.elements[q].next = t.elements[q].next
          BY <1>1, <3>1, <3>3
        <4>2. t.elements[q].next \in q + 1..n /\ Slot(t, t.elements[q].next) = Slot(t, q)
          BY <1>2, <2>2, <3>1, <4>1
        <4>3. t.elements[q].next \in 1..n /\ t.elements[q].next \in q + 1..n + 1
          BY <1>1, <3>1, <4>2
        <4> QED  BY <1>4, <3>1, <4>1, <4>2, <4>3
      <3> QED  BY <3>2, <3>3
    <2>3. ASSUME NEW q \in 1..n + 1
          PROVE  u.buckets[Slot(u, q)] # 0
      <3>1. n + 1 # 0
        BY <1>1
      <3>2. CASE q = n + 1
        BY <1>1, <1>2, <1>4, <3>1, <3>2 DEF here
      <3>3. CASE q \in 1..n
        BY <1>1, <1>2, <1>3, <1>4, <3>1, <3>3
      <3> QED  BY <1>5, <3>2, <3>3
    <2>4. ASSUME NEW q \in 1..n + 1, NEW r \in 1..n + 1, Slot(u, r) = Slot(u, q),
                 u.elements[q].next = 0, u.elements[r].next = 0
          PROVE  r = q
      <3>1. ASSUME NEW s \in 1..n, u.elements[s].next = 0 PROVE Slot(u, s) # slot /\ t.elements[s].next = 0
        <4>1. n + 1 # 0
          BY <1>1
        <4>2. ~(here /\ s = last) /\ t.elements[s].next = 0
          BY <1>1, <3>1, <4>1
        <4>3. Slot(t, s) # slot
          BY <1>1, <1>2, <1>6, <4>2
        <4> QED  BY <1>4, <4>2, <4>3
      <3>2. CASE q \in 1..n /\ r \in 1..n
        BY <1>2, <1>4, <2>4, <3>1, <3>2
      <3>3. CASE q = n + 1 /\ r = n + 1
        BY <3>3
      <3>4. CASE q = n + 1 /\ r \in 1..n
        BY <1>4, <2>4, <3>1, <3>4
      <3>5. CASE q \in 1..n /\ r = n + 1
        BY <1>4, <2>4, <3>1, <3>5
      <3> QED  BY <1>5, <3>2, <3>3, <3>4, <3>5
    <2> QED  BY <1>1, <2>1, <2>2, <2>3, <2>4 DEF Table
  <1>8. ASSUME NEW key \in Keys
        PROVE  hash_lookup(u, key) =
                 IF key = k THEN Append(hash_lookup(t, key), v) ELSE hash_lookup(t, key)
    <2> DEFINE M == Matching(t, key)
               W == Matching(u, key)
               S == Seq(Seq(Nat))
               tail == IF key = k THEN <<v>> ELSE <<>>
    <2>1. /\ M \in [0..n -> S] /\ M[0] = <<>>
          /\ \A q \in 1..n : M[q] = Part(t, key, q) \o M[t.elements[q].next]
      BY MatchingIs DEF n
    <2>2. /\ W \in [0..n + 1 -> S] /\ W[0] = <<>>
          /\ \A q \in 1..n + 1 : W[q] = Part(u, key, q) \o W[u.elements[q].next]
      <3>1. /\ W \in [0..Len(u.elements) -> S] /\ W[0] = <<>>
            /\ \A q \in 1..Len(u.elements) : W[q] = Part(u, key, q) \o W[u.elements[q].next]
        BY ONLY <1>7, MatchingIs
      <3> HIDE DEF W, S
      <3> QED  BY <1>1, <3>1
    <2>3. hash_lookup(t, key) = M[t.buckets[Hash[key]]] /\ hash_lookup(u, key) = W[u.buckets[Hash[key]]]
      BY DEF hash_lookup
    <2>4. tail \in S /\ Part(u, key, n + 1) = tail
      BY <1>1 DEF Part
    <2>5. \A q \in 1..n : Part(u, key, q) = Part(t, key, q) /\ Part(t, key, q) \in S
      BY <1>1, EltTyped DEF Part, n
    <2> HIDE DEF M, W, tail
    <2>6. \A s \in S : s \o <<>> = s
      BY ConcatEmptySeq
    <2>7. \A a, b, c \in S : (a \o b) \o c = a \o (b \o c)
      BY ConcatAssociative
    <2> HIDE DEF S
    <2>8. W[n + 1] = tail
      <3>1. n + 1 \in 1..n + 1
        BY <1>1
      <3>2. W[n + 1] = tail \o <<>>
        BY <1>4, <2>2, <2>4, <3>1
      <3> QED  BY <2>4, <2>6, <3>2
    <2> DEFINE T == {q \in 1..n : W[q] = IF Slot(t, q) = slot THEN M[q] \o tail ELSE M[q]}
    <2>9. \A q \in 1..n : (\A r \in q + 1..n : r \in T) => q \in T
      <3> SUFFICES ASSUME NEW q \in 1..n, \A r \in q + 1..n : r \in T
                   PROVE  W[q] = IF Slot(t, q) = slot THEN M[q] \o tail ELSE M[q]
        OBVIOUS
      <3> DEFINE x == t.elements[q].next
      <3>1. /\ M[q] = Part(t, key, q) \o M[x] /\ Part(t, key, q) \in S
            /\ W[q] = Part(t, key, q) \o W[u.elements[q].next]
        <4>1. q \in 1..n + 1
          BY <1>1
        <4> QED  BY <2>1, <2>2, <2>5, <4>1
      <3>2. x # 0 => x \in T /\ Slot(t, x) = Slot(t, q) /\ x \in 0..n
        <4>1. x # 0 => x \in q + 1..n /\ Slot(t, x) = Slot(t, q)
          BY <1>2
        <4>2. x # 0 => x \in T
          BY <4>1
        <4> QED  BY <1>1, <4>1, <4>2
      <3>3. x = 0 => x \in 0..n
        BY <1>1
      <3>4. M[x] \in S
        BY <2>1, <3>2, <3>3
      <3> HIDE DEF x
      <3>5. CASE here /\ q = last
        <4>1. x = 0 /\ u.elements[q].next = n + 1 /\ Slot(t, q) = slot
          BY <1>1, <3>5 DEF x
        <4>2. M[q] = Part(t, key, q)
          BY <2>1, <2>6, <3>1, <4>1
        <4> QED  BY <2>8, <3>1, <4>1, <4>2
      <3>6. CASE ~(here /\ q = last)
        <4>1. u.elements[q].next = x
          BY <1>1, <3>6 DEF x
        <4>2. CASE x = 0
          <5>1. Slot(t, q) # slot
            BY <1>1, <1>2, <1>6, <3>6, <4>2 DEF x
          <5> QED  BY <2>1, <2>2, <3>1, <4>1, <4>2, <5>1
        <4>3. CASE x # 0 /\ Slot(t, q) # slot
          <5>1. W[x] = M[x]
            BY <3>2, <4>3
          <5> QED  BY <3>1, <4>1, <4>3, <5>1
        <4>4. CASE x # 0 /\ Slot(t, q) = slot
          <5>1. W[x] = M[x] \o tail
            BY <3>2, <4>4
          <5>2. W[q] = Part(t, key, q) \o (M[x] \o tail)
            BY <3>1, <4>1, <5>1
          <5>3. (Part(t, key, q) \o M[x]) \o tail = Part(t, key, q) \o (M[x] \o tail)
            BY <2>4, <2>7, <3>1, <3>4
          <5> QED  BY <3>1, <4>4, <5>2, <5>3
        <4> QED  BY <4>2, <4>3, <4>4
      <3> QED  BY <3>5, <3>6
    <2> HIDE DEF T
    <2>10. \A q \in 1..n : q \in T
      BY <1>1, <2>9, Downwards
    <2> DEFINE b == t.buckets[Hash[key]]
    <2>11. Hash[key] \in Slots
      BY DEF CnfAssumption
    <2>12. b # 0 => b \in 1..n /\ Slot(t, b) = Hash[key]
      BY <1>2, <2>11
    <2>13. b = 0 => M[b] = <<>> /\ W[b] = <<>>
      BY <2>1, <2>2
    <2>14. b \in 0..n /\ M[b] \in S
      <3>1. b = 0 \/ b \in 1..n
        BY <2>12
      <3>2. b \in 0..n
        BY <1>1, <3>1
      <3> QED  BY <2>1, <3>2
    <2>15. W[u.buckets[Hash[key]]] = IF Hash[key] = slot THEN M[b] \o tail ELSE M[b]
      <3>1. CASE ~here /\ Hash[key] = slot
        <4>1. u.buckets[Hash[key]] = n + 1 /\ M[b] = <<>>
          BY <1>1, <2>11, <2>13, <3>1 DEF here
        <4>2. <<>> \o tail = tail
          BY <2>4, ConcatEmptySeq DEF S
        <4> QED  BY <2>8, <3>1, <4>1, <4>2
      <3>2. CASE ~(~here /\ Hash[key] = slot)
        <4>1. u.buckets[Hash[key]] = b
          BY <1>1, <2>11, <3>2
        <4>2. CASE b = 0
          BY <2>13, <3>2, <4>1, <4>2 DEF here
        <4>3. CASE b # 0
          BY <2>10, <2>12, <4>1, <4>3 DEF T
        <4> QED  BY <4>2, <4>3
      <3> QED  BY <3>1, <3>2
    <2>16. W[u.buckets[Hash[key]]] = M[b] \o tail
      <3>1. Hash[key] # slot => key # k
        BY DEF slot
      <3>2. key # k => M[b] \o tail = M[b]
        BY <2>6, <2>14 DEF tail
      <3> QED  BY <2>15, <3>1, <3>2
    <2>17. key = k => M[b] \o tail = Append(M[b], v)
      BY <2>14, AppendIsConcat DEF tail, S
    <2> QED  BY <2>3, <2>6, <2>14, <2>16, <2>17 DEF tail
  <1> QED  BY <1>7, <1>8

-----------------------------------------------------------------------------
(* Cnf: the command line *)

\* The state of the questions and of the environment.  What the last line given
\* set stays set, and the files are read for a variable that is not there.
EnvInv ==
    /\ env \in [EnvKeys -> Seq(Nat) \cup {Unset}]
    /\ program_name \in Progs
    /\ asked \in Vars \cup {NoVar} /\ (asked # NoVar <=> state = "reading")
    /\ state \in {"unread", "reading", "read"}
    /\ asked # NoVar => FromEnv(asked) = Unset
    /\ given \in Seq([line : Args, for : Progs]) /\ Len(given) <= MaxChanges
    /\ given # <<>> =>
         LET a == Last(given).line
         IN  /\ env[<<a.var, AllProgs>>] = a.value
             /\ env[<<a.var, IF a.prog = AllProgs THEN Last(given).for ELSE a.prog>>] = a.value

LEMMA ArgTyped ==
    ASSUME CnfAssumption, NEW a \in Args
    PROVE  /\ a.var \in Vars /\ a.prog \in Progs \cup {AllProgs}
           /\ a.value \in Seq(Nat) /\ a.value # Unset
  BY DEF CnfAssumption

LEMMA KeysApart ==
    /\ \A v \in Vars : <<v, AllProgs>> \in EnvKeys
    /\ \A v \in Vars, p \in Progs : <<v, p>> \in EnvKeys /\ <<v, ".", p>> \in EnvKeys
  BY DEF EnvKeys, Keys

LEMMA LastTyped ==
    ASSUME NEW S, NEW s \in Seq(S), s # <<>>
    PROVE  Last(s) \in S
  <1>1. Len(s) \in Nat \ {0}
    BY EmptySeq
  <1> QED  BY <1>1 DEF Last

LEMMA EnvStarts ==
    ASSUME CnfAssumption, Init
    PROVE  EnvInv
  <1>1. PICK w \in Worlds : files = w.files /\ env = w.env
    BY DEF Init
  <1>2. given = <<>> /\ asked = NoVar /\ state = "unread" /\ program_name \in Progs
    BY DEF Init
  <1>3. given \in Seq([line : Args, for : Progs]) /\ Len(given) <= MaxChanges
    BY <1>2 DEF CnfAssumption
  <1> QED  BY <1>1, <1>2, <1>3 DEF EnvInv, CnfAssumption

LEMMA CnfLineKeeps ==
    ASSUME CnfAssumption, EnvInv, NEW a \in Args, CnfLine(a)
    PROVE  EnvInv'
  <1> DEFINE p == IF a.prog = AllProgs THEN program_name ELSE a.prog
             g == [line |-> a, for |-> program_name]
  <1>1. /\ asked = NoVar /\ Len(given) < MaxChanges
        /\ env' = [env EXCEPT ![<<a.var, AllProgs>>] = a.value, ![<<a.var, p>>] = a.value]
        /\ given' = Append(given, g)
        /\ UNCHANGED <<state, program_name, asked>>
    BY DEF CnfLine
  <1>2. a.var \in Vars /\ a.prog \in Progs \cup {AllProgs} /\ a.value \in Seq(Nat) /\ a.value # Unset
    BY ArgTyped
  <1>3. /\ env \in [EnvKeys -> Seq(Nat) \cup {Unset}] /\ program_name \in Progs
        /\ given \in Seq([line : Args, for : Progs])
    BY DEF EnvInv
  <1>4. p \in Progs /\ <<a.var, AllProgs>> \in EnvKeys /\ <<a.var, p>> \in EnvKeys
    BY <1>2, <1>3, KeysApart
  <1>5. g \in [line : Args, for : Progs] /\ g.line = a /\ g.for = program_name
    BY <1>3
  <1> HIDE DEF g
  <1>6. /\ given' \in Seq([line : Args, for : Progs]) /\ Len(given') <= MaxChanges
        /\ Last(given') = g
    BY <1>1, <1>3, <1>5 DEF CnfAssumption, Last
  <1>7. /\ env' \in [EnvKeys -> Seq(Nat) \cup {Unset}]
        /\ env'[<<a.var, AllProgs>>] = a.value /\ env'[<<a.var, p>>] = a.value
    BY <1>1, <1>2, <1>3, <1>4
  <1>8. LET b == Last(given').line
        IN  /\ env'[<<b.var, AllProgs>>] = b.value
            /\ env'[<<b.var, IF b.prog = AllProgs THEN Last(given').for ELSE b.prog>>] = b.value
    BY <1>5, <1>6, <1>7
  <1> QED  BY <1>1, <1>6, <1>7, <1>8 DEF EnvInv

LEMMA EnvNext ==
    ASSUME CnfAssumption, EnvInv, [Next]_vars
    PROVE  EnvInv'
  <1>1. CASE UNCHANGED <<env, program_name, given, asked, state>>
    BY <1>1 DEF EnvInv, FromEnv
  <1>2. ASSUME NEW v \in Vars, Ask(v) PROVE EnvInv'
    <2>1. UNCHANGED <<env, program_name, given>> /\ asked = NoVar
      BY <1>2 DEF Ask
    <2>2. CASE UNCHANGED <<asked, state>>
      BY <1>1, <2>1, <2>2
    <2>3. CASE FromEnv(v) = Unset /\ asked' = v /\ state' = "reading"
      BY <2>1, <2>3 DEF EnvInv, FromEnv, CnfAssumption
    <2> QED  BY <1>2, <2>2, <2>3 DEF Ask
  <1>3. CASE ReadLine \/ NextFile
    BY <1>1, <1>3 DEF ReadLine, NextFile
  <1>4. CASE Done
    BY <1>4 DEF Done, EnvInv
  <1>5. ASSUME NEW a \in Args, CnfLine(a) PROVE EnvInv'
    BY <1>5, CnfLineKeeps
  <1>6. ASSUME NEW p \in Progs, ResetProgramName(p) PROVE EnvInv'
    BY <1>6 DEF ResetProgramName, EnvInv
  <1>7. CASE UNCHANGED vars
    BY <1>1, <1>7 DEF vars
  <1> QED  BY <1>2, <1>3, <1>4, <1>5, <1>6, <1>7 DEF Next

\* A question that is answered, and from where.
LEMMA Answered ==
    ASSUME EnvInv, [Next]_vars, answer' \notin {answer, NoAnswer}
    PROVE  /\ UNCHANGED <<env, program_name, given, files, reader>>
           /\ answer'.var \in Vars
           /\ IF FromEnv(answer'.var) # Unset THEN answer'.value = FromEnv(answer'.var)
              ELSE /\ answer'.value = CnfGet(cnf_hash, answer'.var)
                   /\ state = "read" \/ (state = "reading" /\ at[1] > Len(files))
  <1>1. ASSUME NEW v \in Vars, Ask(v)
        PROVE  /\ UNCHANGED <<env, program_name, given, files, reader>>
               /\ answer'.var = v
               /\ IF FromEnv(v) # Unset THEN answer'.value = FromEnv(v)
                  ELSE answer'.value = CnfGet(cnf_hash, v) /\ state = "read"
    BY <1>1 DEF Ask, Answer
  <1>2. CASE Done
    <2>1. /\ UNCHANGED <<env, program_name, given, files, reader>>
          /\ answer' = [var |-> asked, value |-> CnfGet(cnf_hash, asked)]
          /\ state = "reading" /\ at[1] > Len(files)
      BY <1>2 DEF Done, Answer
    <2>2. asked \in Vars /\ FromEnv(asked) = Unset
      BY <2>1 DEF EnvInv
    <2> QED  BY <2>1, <2>2
  <1>3. CASE ReadLine \/ NextFile \/ UNCHANGED vars
    BY <1>3 DEF ReadLine, NextFile, vars
  <1>4. ASSUME NEW a \in Args, CnfLine(a) PROVE FALSE
    BY <1>4 DEF CnfLine
  <1>5. ASSUME NEW p \in Progs, ResetProgramName(p) PROVE FALSE
    BY <1>5 DEF ResetProgramName
  <1> QED  BY <1>1, <1>2, <1>3, <1>4, <1>5 DEF Next

LEMMA EnvAlways ==
    ASSUME CnfAssumption
    PROVE  Spec => []EnvInv
  <1>1. EnvInv /\ [Next]_vars => EnvInv'
    BY EnvNext
  <1>2. Init => EnvInv
    BY EnvStarts
  <1> QED  BY <1>1, <1>2, PTL DEF Spec

\* A line given with --cnf-line to a program of this name is what the program is
\* told from then on, whatever the files and the environment say, until the next
\* such line; VAR.prog in the environment alone comes before it
\* (kpathsea_cnf_line_env_progname, cnf.c, and kpathsea_var_value, variable.c).
THEOREM LineWins ==
    ASSUME CnfAssumption
    PROVE  Spec => CommandLineWins
  <1> DEFINE Told == answer' \notin {answer, NoAnswer} /\ given # <<>> =>
                       LET a == Last(given).line
                       IN answer'.var = a.var /\ a.prog \in {AllProgs, program_name}
                             /\ Last(given).for = program_name
                             /\ env[<<a.var, ".", program_name>>] = Unset
                          => answer'.value = a.value
  <1>1. ASSUME EnvInv, [Next]_vars PROVE Told
    <2> DEFINE a == Last(given).line
    <2> SUFFICES ASSUME answer' \notin {answer, NoAnswer}, given # <<>>,
                        answer'.var = a.var, a.prog \in {AllProgs, program_name},
                        Last(given).for = program_name,
                        env[<<a.var, ".", program_name>>] = Unset
                 PROVE  answer'.value = a.value
      OBVIOUS
    <2>1. Last(given) \in [line : Args, for : Progs]
      BY <1>1, LastTyped DEF EnvInv
    <2>2. a \in Args
      BY <2>1
    <2>3. a.value # Unset
      BY <2>2, ArgTyped
    <2>4. env[<<a.var, program_name>>] = a.value
      BY <1>1 DEF EnvInv
    <2>5. FromEnv(a.var) = a.value
      BY <2>3, <2>4 DEF FromEnv
    <2> QED  BY <1>1, <2>3, <2>5, Answered
  <1>2. EnvInv /\ [Next]_vars => [Told]_vars
    BY <1>1
  <1> QED  BY <1>2, EnvAlways, PTL DEF Spec, CommandLineWins

-----------------------------------------------------------------------------
(* Cnf: the files *)

\* Where the lines that are being joined start, and what has been taken in.
LineBegin == at[2] - Len(line)
Reached(n, i) == n < at[1] \/ (n = at[1] /\ i < LineBegin)

\* The definitions of a key that have been entered: in which file, at which line.
Seen(key) ==
    {d \in Nat \X Nat : /\ d[1] \in DOMAIN files /\ d[2] \in Definitions(files[d[1]], key)
                        /\ Reached(d[1], d[2])}

Before(d, e) == d[1] < e[1] \/ (d[1] = e[1] /\ d[2] <= e[2])

\* The reader is at a line of a file, and what it has joined is what the file
\* says is to be joined.
AtLine ==
    at[1] <= Len(files) =>
      LET f == files[at[1]]
      IN  /\ at[2] \in 1..Len(f) + 1 /\ LineBegin \in 1..at[2]
          /\ line # <<>> => at[2] <= Len(f) /\ Head(line) = f[LineBegin]
          /\ LineBegin <= Len(f) => ~JoinedTo(f)[LineBegin]
          /\ \A i \in LineBegin + 1..at[2] : JoinedTo(f)[i]

\* The first value in the table comes from the first definition.
FirstSeen(key) ==
    LET l == hash_lookup(cnf_hash, key)
    IN  IF Seen(key) = {} THEN l = <<>>
        ELSE /\ l # <<>>
             /\ \E d \in Seen(key) : /\ \A e \in Seen(key) : Before(d, e)
                                     /\ Head(Head(l)) = files[d[1]][d[2]].id

CnfInv ==
    /\ files \in Seq(Seq(Lines)) /\ line \in Seq(Lines)
    /\ at \in Nat \X Nat /\ at[1] \in 1..Len(files) + 1
    /\ state = "read" => at[1] > Len(files)
    /\ AtLine
    /\ Table(cnf_hash)
    /\ \A key \in Keys : FirstSeen(key)

LEMMA JoinedIs ==
    ASSUME NEW f \in Seq(Lines)
    PROVE  /\ JoinedTo(f) \in [DOMAIN f -> BOOLEAN]
           /\ 1 \in DOMAIN f => ~JoinedTo(f)[1]
           /\ \A i \in 1..Len(f) - 1 :
                JoinedTo(f)[i + 1] <=> IF JoinedTo(f)[i] THEN f[i].end = "backslash" ELSE f[i].end # "newline"
  <1> DEFINE n == Len(f)
             G == [i \in 1..n |-> [b \in BOOLEAN |-> IF b THEN f[i].end = "backslash" ELSE f[i].end # "newline"]]
             j == CHOOSE j : j = [i \in 0..Len(f) |->
                    i > 0 /\ IF j[i - 1] THEN f[i].end = "backslash" ELSE f[i].end # "newline"]
  <1>1. JoinedTo(f) = [i \in DOMAIN f |-> j[i - 1]]
    BY DEF JoinedTo
  <1>2. n \in Nat /\ FALSE \in BOOLEAN /\ DOMAIN f = 1..n
    OBVIOUS
  <1>3. /\ G \in [1..n -> [BOOLEAN -> BOOLEAN]]
        /\ \A i \in 1..n, b \in BOOLEAN :
             G[i][b] <=> IF b THEN f[i].end = "backslash" ELSE f[i].end # "newline"
    OBVIOUS
  <1> HIDE DEF n, G
  <1>4. PICK g \in [0..n -> BOOLEAN] : Steps(g, n, FALSE, G)
    BY <1>2, <1>3, Recursion
  <1>5. ASSUME NEW i \in 0..n
        PROVE  g[i] = (i > 0 /\ IF g[i - 1] THEN f[i].end = "backslash" ELSE f[i].end # "newline")
    <2>1. g[i] = IF i = 0 THEN FALSE ELSE G[i][g[i - 1]]
      BY <1>4 DEF Steps
    <2>2. CASE i = 0
      <3>1. g[i] = FALSE /\ ~(i > 0)
        BY <2>1, <2>2
      <3> QED  BY <3>1
    <2>3. CASE i # 0
      <3>1. i \in 1..n /\ i - 1 \in 0..n /\ i > 0
        BY <1>2, <2>3
      <3>2. g[i] \in BOOLEAN /\ g[i - 1] \in BOOLEAN
        BY <3>1
      <3>3. g[i] <=> IF g[i - 1] THEN f[i].end = "backslash" ELSE f[i].end # "newline"
        BY <1>3, <2>1, <2>3, <3>1, <3>2
      <3> QED  BY <3>1, <3>2, <3>3
    <2> QED  BY <2>2, <2>3
  <1>6. g = [i \in 0..n |-> i > 0 /\ IF g[i - 1] THEN f[i].end = "backslash" ELSE f[i].end # "newline"]
    BY <1>5
  <1>7. j = [i \in 0..n |-> i > 0 /\ IF j[i - 1] THEN f[i].end = "backslash" ELSE f[i].end # "newline"]
    BY <1>6 DEF n
  <1> HIDE DEF j
  <1>8. \A i \in 0..n : j[i] = (i > 0 /\ IF j[i - 1] THEN f[i].end = "backslash" ELSE f[i].end # "newline")
    BY <1>7
  <1>9. \A i \in 0..n : j[i] \in BOOLEAN
    BY <1>8
  <1>10. \A i \in 1..n : i - 1 \in 0..n
    BY <1>2
  <1>11. JoinedTo(f) \in [DOMAIN f -> BOOLEAN]
    BY <1>1, <1>2, <1>9, <1>10
  <1>12. 1 \in DOMAIN f => ~JoinedTo(f)[1]
    <2>1. 0 \in 0..n /\ ~(0 > 0) /\ 1 - 1 = 0
      BY <1>2
    <2>2. ~j[0]
      BY <1>8, <2>1
    <2> QED  BY <1>1, <2>1, <2>2
  <1>13. ASSUME NEW i \in 1..n - 1
         PROVE  JoinedTo(f)[i + 1] <=>
                  IF JoinedTo(f)[i] THEN f[i].end = "backslash" ELSE f[i].end # "newline"
    <2>1. i \in 1..n /\ i + 1 \in 1..n /\ (i + 1) - 1 = i /\ i \in 0..n /\ i > 0
      BY <1>2
    <2>2. JoinedTo(f)[i] = j[i - 1] /\ JoinedTo(f)[i + 1] = j[i]
      BY <1>1, <1>2, <2>1
    <2> QED  BY <1>8, <2>1, <2>2
  <1> QED  BY <1>11, <1>12, <1>13 DEF n

\* The values of a key.
LEMMA LookupTyped ==
    ASSUME CnfAssumption, NEW t, Table(t), NEW key \in Keys
    PROVE  hash_lookup(t, key) \in Seq(Seq(Nat))
  <1> DEFINE b == t.buckets[Hash[key]]
  <1>1. b = 0 \/ b \in 1..Len(t.elements)
    BY DEF Table, CnfAssumption
  <1>2. b \in 0..Len(t.elements)
    <2>1. Len(t.elements) \in Nat
      BY DEF Table
    <2> QED  BY <1>1, <2>1
  <1> HIDE DEF b
  <1>3. Matching(t, key) \in [0..Len(t.elements) -> Seq(Seq(Nat))]
    BY MatchingIs
  <1> QED  BY <1>2, <1>3 DEF hash_lookup, b

LEMMA NewTable ==
    ASSUME CnfAssumption
    PROVE  Table(hash_create) /\ \A key \in Keys : hash_lookup(hash_create, key) = <<>>
  <1>1. /\ hash_create = [buckets |-> [n \in Slots |-> 0], elements |-> <<>>]
        /\ hash_create.elements = <<>> /\ hash_create.buckets = [n \in Slots |-> 0]
        /\ <<>> \in Seq(Elts) /\ Len(<<>>) = 0
    BY EmptySeq DEF hash_create
  <1>2. hash_create \in [buckets : [Slots -> Nat], elements : Seq(Elts)]
    BY <1>1
  <1>3. Table(hash_create)
    BY <1>1, <1>2 DEF Table
  <1>4. ASSUME NEW key \in Keys PROVE hash_lookup(hash_create, key) = <<>>
    <2>1. hash_create.buckets[Hash[key]] = 0
      BY <1>1 DEF CnfAssumption
    <2>2. Matching(hash_create, key)[0] = <<>>
      BY <1>3, MatchingIs
    <2> QED  BY <2>1, <2>2 DEF hash_lookup
  <1> QED  BY <1>3, <1>4

\* The state that a line is read in.
LEMMA LineRead ==
    ASSUME CnfInv, ReadLine
    PROVE  LET f == files[at[1]]
               x == f[at[2]]
           IN  /\ f \in Seq(Lines) /\ at[1] \in 1..Len(files) /\ at[2] \in 1..Len(f)
               /\ at[1] \in Nat /\ at[2] \in Nat /\ Len(f) \in Nat /\ Len(line) \in Nat
               /\ at' = <<at[1], at[2] + 1>> /\ UNCHANGED <<files, state>> /\ x \in Lines
               /\ LineBegin \in 1..at[2] /\ ~JoinedTo(f)[LineBegin]
               /\ \A i \in LineBegin + 1..at[2] : JoinedTo(f)[i]
               /\ Append(line, x) \in Seq(Lines) /\ Len(Append(line, x)) = Len(line) + 1
               /\ Append(line, x) # <<>> /\ Head(Append(line, x)) = f[LineBegin]
               /\ at[2] < Len(f) => (Joins(x) <=> JoinedTo(f)[at[2] + 1])
               /\ \/ Joins(x) /\ at[2] < Len(f) /\ line' = Append(line, x) /\ cnf_hash' = cnf_hash
                  \/ /\ ~(Joins(x) /\ at[2] < Len(f))
                     /\ line' = <<>> /\ cnf_hash' = Entered(Append(line, x))
  <1> DEFINE f == files[at[1]]
             x == f[at[2]]
             l == Append(line, x)
  <1>1. /\ state = "reading" /\ at[1] <= Len(files) /\ at[2] <= Len(f)
        /\ at' = <<at[1], at[2] + 1>> /\ UNCHANGED <<files, state>>
        /\ \/ Joins(x) /\ at[2] < Len(f) /\ line' = l /\ cnf_hash' = cnf_hash
           \/ ~(Joins(x) /\ at[2] < Len(f)) /\ line' = <<>> /\ cnf_hash' = Entered(l)
    BY DEF ReadLine
  <1>2. /\ files \in Seq(Seq(Lines)) /\ line \in Seq(Lines) /\ AtLine
        /\ at[1] \in Nat /\ at[2] \in Nat /\ at[1] \in 1..Len(files) + 1
    BY DEF CnfInv
  <1>3. f \in Seq(Lines) /\ at[1] \in 1..Len(files)
    BY <1>1, <1>2
  <1>4. /\ at[2] \in 1..Len(f) + 1 /\ LineBegin \in 1..at[2]
        /\ line # <<>> => at[2] <= Len(f) /\ Head(line) = f[LineBegin]
        /\ LineBegin <= Len(f) => ~JoinedTo(f)[LineBegin]
        /\ \A i \in LineBegin + 1..at[2] : JoinedTo(f)[i]
    BY <1>1, <1>2 DEF AtLine
  <1> HIDE DEF f
  <1>5. Len(f) \in Nat /\ Len(line) \in Nat /\ at[2] \in 1..Len(f)
    BY <1>1, <1>2, <1>3, <1>4
  <1>6. x \in Lines
    BY <1>3, <1>5
  <1>7. LineBegin <= Len(f) /\ ~JoinedTo(f)[LineBegin] /\ LineBegin \in Nat
    BY <1>2, <1>4, <1>5
  <1>8. line = <<>> <=> LineBegin = at[2]
    <2>1. line = <<>> <=> Len(line) = 0
      BY <1>2, EmptySeq
    <2> QED  BY <1>2, <1>5, <2>1 DEF LineBegin
  <1>9. /\ l \in Seq(Lines) /\ Len(l) = Len(line) + 1 /\ l # <<>>
        /\ Head(l) = IF line = <<>> THEN x ELSE Head(line)
    <2>1. l \in Seq(Lines) /\ Len(l) = Len(line) + 1 /\ l # <<>>
      BY <1>2, <1>6, AppendProperties
    <2>2. Head(l) = IF line = <<>> THEN x ELSE Head(line)
      BY <1>2, HeadTailAppend
    <2> QED  BY <2>1, <2>2
  <1>10. Head(l) = f[LineBegin]
    BY <1>4, <1>8, <1>9
  <1>11. line = <<>> <=> ~JoinedTo(f)[at[2]]
    <2>1. CASE LineBegin = at[2]
      BY <1>7, <1>8, <2>1
    <2>2. CASE LineBegin # at[2]
      <3>1. at[2] \in LineBegin + 1..at[2]
        BY <1>2, <1>4, <1>7, <2>2
      <3> QED  BY <1>4, <1>8, <2>2, <3>1
    <2> QED  BY <2>1, <2>2
  <1>12. at[2] < Len(f) => (Joins(x) <=> JoinedTo(f)[at[2] + 1])
    <2> SUFFICES ASSUME at[2] < Len(f) PROVE Joins(x) <=> JoinedTo(f)[at[2] + 1]
      OBVIOUS
    <2>1. at[2] \in 1..Len(f) - 1
      BY <1>5
    <2>2. JoinedTo(f)[at[2] + 1] <=>
            IF JoinedTo(f)[at[2]] THEN f[at[2]].end = "backslash" ELSE f[at[2]].end # "newline"
      BY <1>3, <2>1, JoinedIs
    <2> QED  BY <1>11, <2>2 DEF Joins
  <1> QED  BY <1>1, <1>2, <1>3, <1>4, <1>5, <1>6, <1>7, <1>9, <1>10, <1>12 DEF f

LEMMA SeenTyped ==
    \A key, d : d \in Seen(key) =>
      /\ d[1] \in Nat /\ d[2] \in Nat /\ d = <<d[1], d[2]>> /\ d[1] \in DOMAIN files
      /\ d[2] \in Definitions(files[d[1]], key) /\ Reached(d[1], d[2])
  BY DEF Seen

LEMMA FirstKept ==
    ASSUME NEW key, FirstSeen(key), files' = files, Seen(key)' = Seen(key),
           hash_lookup(cnf_hash, key)' = hash_lookup(cnf_hash, key)
    PROVE  FirstSeen(key)'
  BY DEF FirstSeen

\* A definition is entered: it comes after those that have been entered before.
LEMMA FirstEntered ==
    ASSUME CnfAssumption, CnfInv, NEW key \in Keys, files' = files,
           NEW d \in Nat \X Nat, NEW v \in Seq(Nat), v # <<>>,
           Seen(key)' = Seen(key) \cup {d}, \A e \in Seen(key) : Before(e, d), Before(d, d),
           Head(v) = files[d[1]][d[2]].id,
           hash_lookup(cnf_hash, key)' = Append(hash_lookup(cnf_hash, key), v)
    PROVE  FirstSeen(key)'
  <1> DEFINE l == hash_lookup(cnf_hash, key)
             T == Seen(key)
  <1>1. l \in Seq(Seq(Nat)) /\ FirstSeen(key)
    BY LookupTyped DEF CnfInv
  <1>2. PICK m : m = hash_lookup(cnf_hash, key)'
    OBVIOUS
  <1>3. PICK U : U = Seen(key)'
    OBVIOUS
  <1>4. m = Append(l, v) /\ U = T \cup {d} /\ d \in U
    BY <1>2, <1>3
  <1>5. /\ IF T = {} THEN l = <<>>
           ELSE /\ l # <<>>
                /\ \E e \in T : (\A c \in T : Before(e, c)) /\ Head(Head(l)) = files[e[1]][e[2]].id
    BY <1>1 DEF FirstSeen
  <1> HIDE DEF l, T
  <1>6. m # <<>> /\ Head(m) = IF l = <<>> THEN v ELSE Head(l)
    BY <1>1, <1>4, AppendProperties, HeadTailAppend
  <1>7. \E e \in U : (\A c \in U : Before(e, c)) /\ Head(Head(m)) = files[e[1]][e[2]].id
    <2>1. CASE T = {}
      <3>1. \A c \in U : Before(d, c)
        BY <1>4, <2>1
      <3>2. Head(Head(m)) = files[d[1]][d[2]].id
        BY <1>5, <1>6, <2>1
      <3> QED  BY <1>4, <3>1, <3>2
    <2>2. CASE T # {}
      <3>1. PICK e \in T : (\A c \in T : Before(e, c)) /\ Head(Head(l)) = files[e[1]][e[2]].id
        BY <1>5, <2>2
      <3>2. Before(e, d)
        BY DEF T
      <3>3. \A c \in U : Before(e, c)
        BY <1>4, <3>1, <3>2
      <3>4. Head(m) = Head(l)
        BY <1>5, <1>6, <2>2
      <3> QED  BY <1>4, <3>1, <3>3, <3>4
    <2> QED  BY <2>1, <2>2
  <1>8. U # {}
    BY <1>4
  <1> QED  BY <1>2, <1>3, <1>6, <1>7, <1>8 DEF FirstSeen, Before

LEMMA ReadLineKeeps ==
    ASSUME CnfAssumption, CnfInv, ReadLine
    PROVE  CnfInv'
  <1> DEFINE n == at[1]
             b == LineBegin
             f == files[n]
             x == f[at[2]]
             l == Append(line, x)
  <1>1. /\ f \in Seq(Lines) /\ n \in 1..Len(files) /\ at[2] \in 1..Len(f)
        /\ n \in Nat /\ at[2] \in Nat /\ Len(f) \in Nat /\ Len(line) \in Nat
        /\ at' = <<n, at[2] + 1>> /\ UNCHANGED <<files, state>> /\ x \in Lines
        /\ b \in 1..at[2] /\ ~JoinedTo(f)[b]
        /\ \A i \in b + 1..at[2] : JoinedTo(f)[i]
        /\ l \in Seq(Lines) /\ Len(l) = Len(line) + 1 /\ l # <<>> /\ Head(l) = f[b]
        /\ at[2] < Len(f) => (Joins(x) <=> JoinedTo(f)[at[2] + 1])
        /\ \/ Joins(x) /\ at[2] < Len(f) /\ line' = l /\ cnf_hash' = cnf_hash
           \/ ~(Joins(x) /\ at[2] < Len(f)) /\ line' = <<>> /\ cnf_hash' = Entered(l)
    BY LineRead
  <1>2. /\ files \in Seq(Seq(Lines)) /\ line \in Seq(Lines) /\ Table(cnf_hash)
        /\ \A key \in Keys : FirstSeen(key)
        /\ b = at[2] - Len(line) /\ state # "read"
    <2>1. n <= Len(files) /\ Len(files) \in Nat
      BY <1>1 DEF CnfInv
    <2> QED  BY <1>1, <2>1 DEF CnfInv, LineBegin
  <1>3. /\ at'[1] = n /\ at'[2] = at[2] + 1 /\ at' \in Nat \X Nat /\ at'[1] \in 1..Len(files) + 1
    BY <1>1, <1>2
  <1>4. \A key, i, m : Reached(m, i)' <=> m < n \/ (m = n /\ i < LineBegin')
    BY <1>3 DEF Reached
  <1>5. \A m, i : Reached(m, i) <=> m < n \/ (m = n /\ i < b)
    BY DEF Reached
  <1> HIDE DEF n, b, f, x, l
  <1>6. CASE Joins(x) /\ at[2] < Len(f) /\ line' = l /\ cnf_hash' = cnf_hash
    <2>1. LineBegin' = b
      <3>1. LineBegin' = at'[2] - Len(line')
        BY DEF LineBegin
      <3>2. Len(line') = Len(line) + 1 /\ at'[2] = at[2] + 1 /\ at[2] \in Nat /\ Len(line) \in Nat
        BY <1>1, <1>3, <1>6
      <3>3. \A p, q \in Nat : (p + 1) - (q + 1) = p - q
        OBVIOUS
      <3> QED  BY <1>2, <3>1, <3>2, <3>3, Zenon
    <2>2. \A i \in b + 1..at[2] + 1 : JoinedTo(f)[i]
      <3>1. \A i \in b + 1..at[2] + 1 : i \in b + 1..at[2] \/ i = at[2] + 1
        <4>1. \A p, q \in Nat : \A i \in p + 1..q + 1 : i \in p + 1..q \/ i = q + 1
          OBVIOUS
        <4>2. b \in Nat /\ at[2] \in Nat
          BY <1>1
        <4> QED  BY <4>1, <4>2
      <3> QED  BY <1>1, <1>6, <3>1
    <2>3. /\ at[2] + 1 \in 1..Len(f) + 1 /\ b \in 1..at[2] + 1 /\ at[2] + 1 <= Len(f)
      BY <1>1, <1>6
    <2>4. AtLine'
      BY <1>1, <1>3, <1>6, <2>1, <2>2, <2>3 DEF AtLine, f
    <2>5. \A key : Seen(key)' = Seen(key)
      BY <1>1, <1>4, <1>5, <2>1 DEF Seen
    <2>6. ASSUME NEW key \in Keys PROVE FirstSeen(key)'
      BY <1>1, <1>2, <1>6, <2>5, FirstKept
    <2> QED  BY <1>1, <1>2, <1>3, <1>6, <2>4, <2>6 DEF CnfInv
  <1>7. CASE ~(Joins(x) /\ at[2] < Len(f)) /\ line' = <<>> /\ cnf_hash' = Entered(l)
    <2>1. LineBegin' = at[2] + 1 /\ line' \in Seq(Lines)
      <3>1. Len(line') = 0
        BY <1>7
      <3> QED  BY <1>1, <1>3, <1>7, <3>1 DEF LineBegin
    <2>2. AtLine'
      <3>1. at[2] + 1 \in 1..Len(f) + 1 /\ at[2] + 1 \in 1..at[2] + 1
        BY <1>1
      <3>2. at[2] + 1 <= Len(f) => ~JoinedTo(f)[at[2] + 1]
        BY <1>1, <1>7
      <3>3. \A i \in (at[2] + 1) + 1..at[2] + 1 : FALSE
        BY <1>1
      <3> QED  BY <1>1, <1>3, <1>7, <2>1, <3>1, <3>2, <3>3 DEF AtLine, f
    <2> DEFINE d == <<n, b>>
               y == f[b]
               v == [i \in DOMAIN l |-> l[i].id]
    <2>3. d \in Nat \X Nat /\ d[1] = n /\ d[2] = b /\ b \in Nat /\ y \in Lines /\ b \in DOMAIN f
      BY <1>1
    <2>4. ASSUME NEW key
          PROVE  Seen(key)' = IF <<y.var, y.prog>> = key THEN Seen(key) \cup {d} ELSE Seen(key)
      <3>1. b \in Definitions(f, key) <=> <<y.var, y.prog>> = key
        BY <1>1, <2>3 DEF Definitions
      <3>2. ASSUME NEW m \in Nat, NEW i \in Nat, m \in DOMAIN files, i \in Definitions(files[m], key)
            PROVE  Reached(m, i)' <=> Reached(m, i) \/ (<<m, i>> = d /\ <<y.var, y.prog>> = key)
        <4>1. CASE m # n
          BY <1>4, <1>5, <4>1
        <4>2. CASE m = n
          <5>1. i \in Definitions(f, key)
            BY <3>2, <4>2 DEF f
          <5>2. ~JoinedTo(f)[i]
            BY <5>1 DEF Definitions
          <5>3. ~ (i \in b + 1..at[2])
            BY <1>1, <5>2
          <5>4. i < at[2] + 1 <=> i < b \/ i = b
            BY <1>1, <2>3, <5>3
          <5>5. i = b => <<y.var, y.prog>> = key
            BY <3>1, <5>1
          <5> QED  BY <1>1, <1>4, <1>5, <2>1, <2>3, <4>2, <5>4, <5>5
        <4> QED  BY <4>1, <4>2
      <3>3. <<y.var, y.prog>> = key => n \in DOMAIN files /\ b \in Definitions(files[n], key)
        BY <1>1, <1>2, <3>1 DEF f
      <3>4. ASSUME NEW e \in Nat \X Nat
            PROVE  e \in Seen(key)' <=> e \in Seen(key) \/ (e = d /\ <<y.var, y.prog>> = key)
        <4>1. e = <<e[1], e[2]>> /\ e[1] \in Nat /\ e[2] \in Nat
          OBVIOUS
        <4>2. CASE e[1] \in DOMAIN files /\ e[2] \in Definitions(files[e[1]], key)
          <5>1. Reached(e[1], e[2])' <=> Reached(e[1], e[2]) \/ (e = d /\ <<y.var, y.prog>> = key)
            BY <3>2, <4>1, <4>2
          <5> QED  BY <1>1, <4>2, <5>1 DEF Seen
        <4>3. CASE ~(e[1] \in DOMAIN files /\ e[2] \in Definitions(files[e[1]], key))
          BY <1>1, <2>3, <3>3, <4>3 DEF Seen
        <4> QED  BY <4>2, <4>3
      <3>5. Seen(key) \subseteq Nat \X Nat /\ Seen(key)' \subseteq Nat \X Nat
        BY DEF Seen
      <3> QED  BY <2>3, <3>4, <3>5
    <2>5. Head(l) = y /\ v \in Seq(Nat) /\ v # <<>> /\ Head(v) = y.id
      <3>1. /\ Len(l) \in Nat \ {0} /\ DOMAIN l = 1..Len(l) /\ l[1] = Head(l)
            /\ \A i \in 1..Len(l) : l[i].id \in Nat
        <4>1. Len(l) \in Nat \ {0} /\ DOMAIN l = 1..Len(l) /\ l[1] = Head(l)
          BY <1>1, EmptySeq
        <4>2. \A i \in 1..Len(l) : l[i] \in Lines
          BY <1>1
        <4> QED  BY <4>1, <4>2 DEF Lines
      <3>2. v \in Seq(Nat) /\ Len(v) = Len(l)
        BY <3>1
      <3>3. v[1] = l[1].id
        BY <3>1
      <3> HIDE DEF v
      <3> QED  BY <1>1, <3>1, <3>2, <3>3
    <2> DEFINE k == <<y.var, y.prog>>
    <2>6. ASSUME NEW key, NEW e \in Seen(key) PROVE Before(e, d)
      <3>1. e[1] \in Nat /\ e[2] \in Nat /\ Reached(e[1], e[2])
        BY SeenTyped
      <3> QED  BY <1>1, <1>5, <2>3, <3>1 DEF Before
    <2>7. Before(d, d) /\ Head(v) = files[d[1]][d[2]].id
      BY <1>1, <2>3, <2>5 DEF Before, f
    <2>8. CASE y.var = NoVar
      <3>1. cnf_hash' = cnf_hash
        BY <1>7, <2>5, <2>8 DEF Entered
      <3>2. ASSUME NEW key \in Keys PROVE FirstSeen(key)'
        <4>1. k # key
          BY <2>8 DEF Keys, CnfAssumption
        <4>2. Seen(key)' = Seen(key)
          BY <2>4, <4>1
        <4> QED  BY <1>1, <1>2, <3>1, <4>2, FirstKept
      <3> QED  BY <1>1, <1>2, <1>3, <2>1, <2>2, <3>1, <3>2 DEF CnfInv
    <2>9. CASE y.var # NoVar
      <3>1. cnf_hash' = hash_insert(cnf_hash, k, v)
        BY <1>7, <2>5, <2>9 DEF Entered
      <3>2. k \in Keys
        BY <2>3, <2>9 DEF Keys, Lines
      <3> HIDE DEF v, k, d
      <3>3. PICK u : u = cnf_hash'
        OBVIOUS
      <3>4. /\ Table(u)
            /\ \A key \in Keys : hash_lookup(u, key) =
                 IF key = k THEN Append(hash_lookup(cnf_hash, key), v) ELSE hash_lookup(cnf_hash, key)
        <4>1. Table(cnf_hash) /\ k \in Keys /\ v \in Seq(Nat) /\ u = hash_insert(cnf_hash, k, v)
          BY <1>2, <2>5, <3>1, <3>2, <3>3 DEF v
        <4> QED  BY <4>1, InsertAdds
      <3>5. ASSUME NEW key \in Keys PROVE FirstSeen(key)'
        <4>1. hash_lookup(cnf_hash, key)' = hash_lookup(u, key)
          BY <3>3
        <4>2. CASE key = k
          <5>1. /\ Seen(key)' = Seen(key) \cup {d} /\ \A e \in Seen(key) : Before(e, d)
                /\ hash_lookup(cnf_hash, key)' = Append(hash_lookup(cnf_hash, key), v)
            BY <2>4, <2>6, <3>4, <4>1, <4>2 DEF k
          <5> QED  BY <1>1, <2>3, <2>5, <2>7, <5>1, FirstEntered
        <4>3. CASE key # k
          <5>1. Seen(key)' = Seen(key) /\ hash_lookup(cnf_hash, key)' = hash_lookup(cnf_hash, key)
            BY <2>4, <3>4, <4>1, <4>3 DEF k
          <5> QED  BY <1>1, <1>2, <5>1, FirstKept
        <4> QED  BY <4>2, <4>3
      <3>6. Table(cnf_hash)'
        BY <3>3, <3>4
      <3> QED  BY <1>1, <1>2, <1>3, <2>1, <2>2, <3>5, <3>6 DEF CnfInv
    <2> QED  BY <2>8, <2>9
  <1> QED  BY <1>1, <1>6, <1>7

LEMMA NextFileKeeps ==
    ASSUME CnfAssumption, CnfInv, NextFile
    PROVE  CnfInv'
  <1>1. /\ state = "reading" /\ at[1] <= Len(files) /\ at[2] > Len(files[at[1]])
        /\ at' = <<at[1] + 1, 1>> /\ UNCHANGED <<files, line, cnf_hash, state>>
    BY DEF NextFile
  <1>2. /\ files \in Seq(Seq(Lines)) /\ line \in Seq(Lines) /\ AtLine
        /\ at[1] \in Nat /\ at[2] \in Nat /\ at[1] \in 1..Len(files) + 1
        /\ \A key \in Keys : FirstSeen(key)
    BY DEF CnfInv
  <1>3. PICK f \in Seq(Lines) : f = files[at[1]] /\ Len(f) \in Nat /\ at[1] \in 1..Len(files)
    BY <1>1, <1>2
  <1>4. at[2] = Len(f) + 1 /\ line = <<>>
    <2>1. at[2] \in 1..Len(f) + 1 /\ (line # <<>> => at[2] <= Len(f))
      BY <1>1, <1>2, <1>3 DEF AtLine
    <2>2. at[2] > Len(f)
      BY <1>1, <1>3
    <2> QED  BY <1>3, <2>1, <2>2
  <1>5. Len(line) = 0 /\ LineBegin = at[2]
    BY <1>2, <1>4 DEF LineBegin
  <1>6. at'[1] = at[1] + 1 /\ at'[2] = 1 /\ at' \in Nat \X Nat
    BY <1>1, <1>2
  <1>7. LineBegin' = 1
    BY <1>1, <1>5, <1>6 DEF LineBegin
  <1>8. at'[1] \in 1..Len(files) + 1 /\ Len(files) \in Nat
    BY <1>2, <1>3, <1>6
  <1>9. AtLine'
    <2> SUFFICES ASSUME at'[1] <= Len(files)
                 PROVE  LET g == files[at'[1]]
                        IN  /\ 1 \in 1..Len(g) + 1 /\ 1 \in 1..1
                            /\ line # <<>> => 1 <= Len(g) /\ Head(line) = g[1]
                            /\ 1 <= Len(g) => ~JoinedTo(g)[1]
                            /\ \A i \in 1 + 1..1 : JoinedTo(g)[i]
      BY <1>1, <1>6, <1>7 DEF AtLine
    <2>1. PICK g \in Seq(Lines) : g = files[at'[1]]
      BY <1>2, <1>8
    <2>2. Len(g) \in Nat /\ DOMAIN g = 1..Len(g)
      BY <2>1
    <2>3. 1 <= Len(g) => ~JoinedTo(g)[1]
      BY <2>2, JoinedIs
    <2> QED  BY <1>4, <2>1, <2>2, <2>3
  <1>10. ASSUME NEW key, NEW m \in Nat, NEW i \in Nat, m \in DOMAIN files, i \in Definitions(files[m], key)
         PROVE  Reached(m, i)' <=> Reached(m, i)
    <2>1. Reached(m, i)' <=> m < at[1] + 1 \/ (m = at[1] + 1 /\ i < 1)
      BY <1>6, <1>7 DEF Reached
    <2>2. Reached(m, i) <=> m < at[1] \/ (m = at[1] /\ i < Len(f) + 1)
      BY <1>4, <1>5 DEF Reached
    <2>3. i \in DOMAIN files[m]
      BY <1>10 DEF Definitions
    <2>4. m = at[1] => i \in 1..Len(f)
      BY <1>3, <2>3
    <2>5. m \in 1..Len(files)
      BY <1>2, <1>10
    <2>6. files[m] \in Seq(Lines)
      BY <1>2, <2>5
    <2>7. i >= 1
      BY <2>3, <2>6
    <2> QED  BY <1>2, <1>3, <2>1, <2>2, <2>4, <2>7
  <1>11. \A key : Seen(key)' = Seen(key)
    <2> SUFFICES ASSUME NEW key PROVE Seen(key)' = Seen(key)
      OBVIOUS
    <2>1. ASSUME NEW e \in Nat \X Nat PROVE e \in Seen(key)' <=> e \in Seen(key)
      <3>1. e[1] \in Nat /\ e[2] \in Nat
        OBVIOUS
      <3>2. CASE e[1] \in DOMAIN files /\ e[2] \in Definitions(files[e[1]], key)
        <4>1. Reached(e[1], e[2])' <=> Reached(e[1], e[2])
          BY <1>10, <3>1, <3>2
        <4> QED  BY <1>1, <3>2, <4>1 DEF Seen
      <3>3. CASE ~(e[1] \in DOMAIN files /\ e[2] \in Definitions(files[e[1]], key))
        BY <1>1, <3>3 DEF Seen
      <3> QED  BY <3>2, <3>3
    <2>2. Seen(key) \subseteq Nat \X Nat /\ Seen(key)' \subseteq Nat \X Nat
      BY DEF Seen
    <2> QED  BY <2>1, <2>2
  <1>12. ASSUME NEW key \in Keys PROVE FirstSeen(key)'
    BY <1>1, <1>2, <1>11, FirstKept
  <1>13. Table(cnf_hash)' /\ state' # "read"
    BY <1>1 DEF CnfInv
  <1> QED  BY <1>1, <1>2, <1>6, <1>8, <1>9, <1>12, <1>13 DEF CnfInv

LEMMA CnfStarts ==
    ASSUME CnfAssumption, Init
    PROVE  CnfInv
  <1>1. PICK w \in Worlds : files = w.files /\ env = w.env
    BY DEF Init
  <1>2. at = <<1, 1>> /\ line = <<>> /\ cnf_hash = hash_create /\ state = "unread"
    BY DEF Init
  <1>3. files \in Seq(Seq(Lines)) /\ Len(files) \in Nat
    BY <1>1 DEF CnfAssumption
  <1>4. at[1] = 1 /\ at[2] = 1 /\ LineBegin = 1 /\ at \in Nat \X Nat /\ line \in Seq(Lines)
    <2>1. Len(line) = 0 /\ line \in Seq(Lines)
      BY <1>2
    <2> QED  BY <1>2, <2>1 DEF LineBegin
  <1>5. AtLine
    <2> SUFFICES ASSUME 1 <= Len(files)
                 PROVE  LET g == files[1]
                        IN  /\ 1 \in 1..Len(g) + 1 /\ 1 \in 1..1
                            /\ line # <<>> => 1 <= Len(g) /\ Head(line) = g[1]
                            /\ 1 <= Len(g) => ~JoinedTo(g)[1]
                            /\ \A i \in 1 + 1..1 : JoinedTo(g)[i]
      BY <1>4 DEF AtLine
    <2>1. PICK g \in Seq(Lines) : g = files[1]
      BY <1>3
    <2>2. Len(g) \in Nat /\ DOMAIN g = 1..Len(g)
      BY <2>1
    <2>3. 1 <= Len(g) => ~JoinedTo(g)[1]
      BY <2>2, JoinedIs
    <2> QED  BY <1>2, <2>1, <2>2, <2>3
  <1>6. ASSUME NEW key \in Keys PROVE FirstSeen(key)
    <2>1. Seen(key) = {}
      <3> SUFFICES ASSUME NEW d \in Seen(key) PROVE FALSE
        OBVIOUS
      <3>1. /\ d[1] \in Nat /\ d[2] \in Nat /\ d[1] \in 1..Len(files)
            /\ d[2] \in DOMAIN files[d[1]] /\ Reached(d[1], d[2])
        BY <1>3, SeenTyped DEF Definitions
      <3>2. files[d[1]] \in Seq(Lines)
        BY <1>3, <3>1
      <3>3. d[2] >= 1 /\ d[1] >= 1
        BY <1>3, <3>1, <3>2
      <3> QED  BY <1>4, <3>1, <3>3 DEF Reached
    <2>2. hash_lookup(cnf_hash, key) = <<>>
      BY <1>2, NewTable
    <2> QED  BY <2>1, <2>2 DEF FirstSeen
  <1>7. Table(cnf_hash)
    BY <1>2, NewTable
  <1>8. at[1] \in 1..Len(files) + 1
    BY <1>3, <1>4
  <1> QED  BY <1>2, <1>3, <1>4, <1>5, <1>6, <1>7, <1>8 DEF CnfInv

LEMMA CnfNext ==
    ASSUME CnfAssumption, CnfInv, EnvInv, [Next]_vars
    PROVE  CnfInv'
  <1>1. ASSUME UNCHANGED <<files, at, line, cnf_hash>>, state' = "read" => at[1] > Len(files)
        PROVE  CnfInv'
    <2>1. LineBegin' = LineBegin
      BY <1>1 DEF LineBegin
    <2>2. AtLine'
      BY <1>1, <2>1 DEF CnfInv, AtLine
    <2>3. \A key : Seen(key)' = Seen(key)
      BY <1>1, <2>1 DEF Seen, Reached
    <2>4. ASSUME NEW key \in Keys PROVE FirstSeen(key)'
      BY <1>1, <2>3, FirstKept DEF CnfInv
    <2> QED  BY <1>1, <2>2, <2>4 DEF CnfInv
  <1>2. ASSUME NEW v \in Vars, Ask(v) PROVE CnfInv'
    <2>1. UNCHANGED <<files, at, line, cnf_hash>> /\ (state' = state \/ state' = "reading")
      BY <1>2 DEF Ask, reader
    <2> QED  BY <1>1, <2>1 DEF CnfInv
  <1>3. CASE Done
    <2>1. UNCHANGED <<files, at, line, cnf_hash>> /\ at[1] > Len(files)
      BY <1>3 DEF Done, reader
    <2> QED  BY <1>1, <2>1
  <1>4. ASSUME NEW a \in Args, CnfLine(a) PROVE CnfInv'
    <2>1. UNCHANGED <<files, at, line, cnf_hash, state>>
      BY <1>4 DEF CnfLine, reader
    <2> QED  BY <1>1, <2>1 DEF CnfInv
  <1>5. ASSUME NEW p \in Progs, ResetProgramName(p) PROVE CnfInv'
    <2>1. UNCHANGED <<files, at, line, cnf_hash, state>>
      BY <1>5 DEF ResetProgramName, reader
    <2> QED  BY <1>1, <2>1 DEF CnfInv
  <1>6. CASE UNCHANGED vars
    <2>1. UNCHANGED <<files, at, line, cnf_hash, state>>
      BY <1>6 DEF vars
    <2> QED  BY <1>1, <2>1 DEF CnfInv
  <1> QED  BY <1>2, <1>3, <1>4, <1>5, <1>6, ReadLineKeeps, NextFileKeeps DEF Next

LEMMA CnfAlways ==
    ASSUME CnfAssumption
    PROVE  Spec => [](CnfInv /\ EnvInv)
  <1>1. CnfInv /\ EnvInv /\ [Next]_vars => CnfInv'
    BY CnfNext
  <1>2. Init => CnfInv
    BY CnfStarts
  <1> QED  BY <1>1, <1>2, EnvAlways, PTL DEF Spec

\* What has been entered when the files have been read is what they define.
LEMMA AllSeen ==
    ASSUME CnfInv, at[1] > Len(files), NEW key
    PROVE  \A n \in Nat, i \in Nat :
             <<n, i>> \in Seen(key) <=> n \in DOMAIN files /\ i \in Definitions(files[n], key)
  <1>1. files \in Seq(Seq(Lines)) /\ at[1] \in Nat /\ Len(files) \in Nat
    BY DEF CnfInv
  <1>2. \A n \in DOMAIN files : n < at[1]
    BY <1>1
  <1> QED  BY <1>2 DEF Seen, Reached

\* The definitions of a key in a file, and the files with one.
LEMMA DefinitionsAre ==
    ASSUME CnfInv, NEW key
    PROVE  /\ Defined(key) \subseteq Nat
           /\ \A n \in DOMAIN files : n \in Nat /\ Definitions(files[n], key) \subseteq Nat
  <1>1. files \in Seq(Seq(Lines))
    BY DEF CnfInv
  <1>2. ASSUME NEW n \in DOMAIN files PROVE n \in Nat /\ Definitions(files[n], key) \subseteq Nat
    <2>1. files[n] \in Seq(Lines) /\ n \in Nat
      BY <1>1
    <2> QED  BY <2>1 DEF Definitions
  <1> QED  BY <1>2 DEF Defined

\* The value of a key that the table gives is the one that the files say.
LEMMA FirstIs ==
    ASSUME CnfInv, at[1] > Len(files), NEW key \in Keys
    PROVE  LET l == hash_lookup(cnf_hash, key)
           IN  /\ Defined(key) = {} <=> l = <<>>
               /\ l # <<>> => Head(Head(l)) = FirstLine(key)
  <1>1. FirstSeen(key)
    BY DEF CnfInv
  <1>2. \A n \in Nat, i \in Nat :
          <<n, i>> \in Seen(key) <=> n \in DOMAIN files /\ i \in Definitions(files[n], key)
    BY AllSeen
  <1>3. /\ Defined(key) \subseteq Nat
        /\ \A n \in DOMAIN files : n \in Nat /\ Definitions(files[n], key) \subseteq Nat
    BY DefinitionsAre
  <1>4. Defined(key) = {} <=> Seen(key) = {}
    <2>1. ASSUME NEW d \in Seen(key) PROVE Defined(key) # {}
      <3>1. d[1] \in DOMAIN files /\ d[2] \in Definitions(files[d[1]], key)
        BY SeenTyped
      <3> QED  BY <3>1 DEF Defined
    <2>2. ASSUME NEW n \in Defined(key) PROVE Seen(key) # {}
      <3>1. n \in DOMAIN files /\ Definitions(files[n], key) # {}
        BY DEF Defined
      <3>2. PICK i : i \in Definitions(files[n], key)
        BY <3>1
      <3>3. n \in Nat /\ i \in Nat
        BY <1>3, <3>1, <3>2
      <3>4. <<n, i>> \in Seen(key)
        BY <1>2, <3>1, <3>2, <3>3
      <3> QED  BY <3>4
    <2> QED  BY <2>1, <2>2
  <1>5. CASE Seen(key) = {}
    BY <1>1, <1>4, <1>5 DEF FirstSeen
  <1>6. CASE Seen(key) # {}
    <2>1. PICK d \in Seen(key) :
            /\ \A e \in Seen(key) : Before(d, e)
            /\ Head(Head(hash_lookup(cnf_hash, key))) = files[d[1]][d[2]].id
      BY <1>1, <1>6 DEF FirstSeen
    <2> DEFINE n == d[1]
               i == d[2]
               first == CHOOSE m \in Defined(key) : \A k \in Defined(key) : m <= k
               D == Definitions(files[first], key)
               least == CHOOSE j \in D : \A k \in D : j <= k
    <2>2. n \in Nat /\ i \in Nat /\ n \in DOMAIN files /\ i \in Definitions(files[n], key) /\ n \in Defined(key)
      BY SeenTyped DEF Defined
    <2>3. ASSUME NEW m \in Defined(key) PROVE n <= m
      <3>1. m \in DOMAIN files /\ Definitions(files[m], key) # {} /\ m \in Nat
        BY <1>3 DEF Defined
      <3>2. PICK j : j \in Definitions(files[m], key)
        BY <3>1
      <3>3. j \in Nat /\ <<m, j>> \in Seen(key)
        BY <1>2, <1>3, <3>1, <3>2
      <3>4. Before(d, <<m, j>>)
        BY <2>1, <3>3
      <3> QED  BY <2>2, <3>1, <3>4 DEF Before
    <2>4. first = n
      <3>1. first \in Defined(key) /\ \A k \in Defined(key) : first <= k
        BY <2>2, <2>3
      <3> HIDE DEF first, n
      <3>2. first \in Nat /\ n \in Nat /\ first <= n /\ n <= first
        BY <1>3, <2>2, <2>3, <3>1
      <3> QED  BY <3>2
    <2>5. ASSUME NEW j \in D PROVE i <= j
      <3>1. j \in Nat /\ <<n, j>> \in Seen(key)
        BY <1>2, <1>3, <2>2, <2>4
      <3>2. Before(d, <<n, j>>)
        BY <2>1, <3>1
      <3> QED  BY <2>2, <3>1, <3>2 DEF Before
    <2>6. least = i
      <3>1. i \in D /\ D \subseteq Nat
        BY <1>3, <2>2, <2>4
      <3> HIDE DEF D, i
      <3>2. least \in D /\ \A k \in D : least <= k
        BY <2>5, <3>1
      <3> HIDE DEF least
      <3>3. least \in Nat /\ i \in Nat /\ least <= i /\ i <= least
        BY <2>5, <3>1, <3>2
      <3> QED  BY <3>3
    <2>7. FirstLine(key) = files[first][least].id
      BY DEF FirstLine
    <2>8. hash_lookup(cnf_hash, key) # <<>>
      BY <1>1, <1>6 DEF FirstSeen
    <2> QED  BY <1>4, <1>6, <2>1, <2>4, <2>6, <2>7, <2>8
  <1> QED  BY <1>5, <1>6

\* The state keeps its types; an element of the table has a key that a line of a
\* file may define.
THEOREM CnfTypeCorrect ==
    ASSUME CnfAssumption
    PROVE  Spec => []TypeOK
  <1>1. ASSUME CnfInv, EnvInv PROVE TypeOK
    <2>1. at[1] \in 1..Len(files) + 1
      BY <1>1 DEF CnfInv
    <2>2. \A i \in DOMAIN line : line[i].end \in Ends
      <3>1. \A i \in DOMAIN line : line[i] \in Lines
        BY <1>1 DEF CnfInv
      <3> QED  BY <3>1 DEF Lines
    <2>3. Table(cnf_hash)
      BY <1>1 DEF CnfInv
    <2>4. Len(cnf_hash.elements) \in Nat /\ DOMAIN cnf_hash.elements = 1..Len(cnf_hash.elements)
          /\ cnf_hash.buckets \in [Slots -> Nat]
      BY <2>3 DEF Table
    <2>5. \A n \in Slots : cnf_hash.buckets[n] \in 0..Len(cnf_hash.elements)
      <3>1. \A n \in Slots : cnf_hash.buckets[n] = 0 \/ cnf_hash.buckets[n] \in 1..Len(cnf_hash.elements)
        BY <2>3 DEF Table
      <3> QED  BY <2>4, <3>1
    <2>6. \A e \in DOMAIN cnf_hash.elements : cnf_hash.elements[e].key \in Keys
      BY <2>3, <2>4, EltTyped
    <2> QED  BY <1>1, <2>1, <2>2, <2>5, <2>6 DEF TypeOK, EnvInv
  <1>2. CnfInv /\ EnvInv => TypeOK
    BY <1>1
  <1> QED  BY <1>2, CnfAlways, PTL

\* An answer that comes from the files is the first definition for the program's
\* present name, or the first for all programs if there is none, in path order,
\* however the files are split into joined lines and whatever keys collide
\* (kpathsea_cnf_get and read_all_cnf, cnf.c).
THEOREM FirstDefinitionWins ==
    ASSUME CnfAssumption
    PROVE  Spec => FirstDefinition
  <1> DEFINE First == answer' \notin {answer, NoAnswer} /\ FromEnv(answer'.var) = Unset =>
                        LET v == answer'.var
                            key == IF Defined(<<v, program_name>>) # {} THEN <<v, program_name>>
                                   ELSE <<v, AllProgs>>
                        IN IF Defined(key) = {} THEN answer'.value = Unset
                           ELSE answer'.value # Unset /\ Head(answer'.value) = FirstLine(key)
  <1>1. ASSUME CnfInv, EnvInv, [Next]_vars PROVE First
    <2> DEFINE v == answer'.var
               own == <<v, program_name>>
               all == <<v, AllProgs>>
               key == IF Defined(own) # {} THEN own ELSE all
    <2> SUFFICES ASSUME answer' \notin {answer, NoAnswer}, FromEnv(v) = Unset
                 PROVE  IF Defined(key) = {} THEN answer'.value = Unset
                        ELSE answer'.value # Unset /\ Head(answer'.value) = FirstLine(key)
      OBVIOUS
    <2>1. v \in Vars /\ answer'.value = CnfGet(cnf_hash, v) /\ at[1] > Len(files)
      <3>1. /\ v \in Vars /\ answer'.value = CnfGet(cnf_hash, v)
            /\ state = "read" \/ (state = "reading" /\ at[1] > Len(files))
        BY <1>1, Answered
      <3> QED  BY <1>1, <3>1 DEF CnfInv
    <2>2. own \in Keys /\ all \in Keys
      BY <1>1, <2>1 DEF EnvInv, Keys
    <2>3. ASSUME NEW k \in Keys
          PROVE  /\ Defined(k) = {} <=> hash_lookup(cnf_hash, k) = <<>>
                 /\ Defined(k) # {} => Head(Head(hash_lookup(cnf_hash, k))) = FirstLine(k)
                 /\ Defined(k) # {} => Head(hash_lookup(cnf_hash, k)) # Unset
      <3>1. /\ Defined(k) = {} <=> hash_lookup(cnf_hash, k) = <<>>
            /\ Defined(k) # {} => Head(Head(hash_lookup(cnf_hash, k))) = FirstLine(k)
        BY <1>1, <2>1, FirstIs
      <3>2. hash_lookup(cnf_hash, k) \in Seq(Seq(Nat))
        BY <1>1, LookupTyped DEF CnfInv
      <3>3. Unset \notin Seq(Nat)
        BY DEF CnfAssumption
      <3>4. hash_lookup(cnf_hash, k) # <<>> => Head(hash_lookup(cnf_hash, k)) \in Seq(Nat)
        BY <3>2, HeadTailProperties
      <3> QED  BY <3>1, <3>3, <3>4
    <2>4. answer'.value = IF Defined(key) = {} THEN Unset ELSE Head(hash_lookup(cnf_hash, key))
      <3>1. CASE Defined(own) # {}
        BY <2>1, <2>2, <2>3, <3>1 DEF CnfGet
      <3>2. CASE Defined(own) = {}
        BY <2>1, <2>2, <2>3, <3>2 DEF CnfGet
      <3> QED  BY <3>1, <3>2
    <2>5. key \in Keys
      BY <2>2
    <2> HIDE DEF key
    <2> QED  BY <2>3, <2>4, <2>5
  <1>2. CnfInv /\ EnvInv /\ [Next]_vars => [First]_vars
    BY <1>1
  <1> QED  BY <1>2, CnfAlways, PTL DEF Spec, FirstDefinition

LEMMA LastAppended ==
    ASSUME NEW S, NEW s \in Seq(S), NEW e \in S
    PROVE  Append(s, e) # <<>> /\ Last(Append(s, e)) = e
  BY AppendProperties DEF Last

\* The hash table keeps every definition: each step leaves the values of each
\* key, or adds one to the end of those of one key (hash_insert, hash.c).
THEOREM TableKeepsAll ==
    ASSUME CnfAssumption
    PROVE  Spec => KeepsAll
  <1>1. ASSUME Init PROVE Store!Init
    <2>1. \A key \in Keys : hash_lookup(cnf_hash, key) = <<>>
      BY <1>1, NewTable DEF Init
    <2> QED  BY <2>1 DEF Store!Init, held
  <1>2. ASSUME CnfInv, [Next]_vars PROVE [Store!Next]_held
    <2>1. CASE UNCHANGED cnf_hash
      BY <2>1 DEF held
    <2>2. CASE ReadLine /\ cnf_hash' # cnf_hash
      <3>1. PICK l \in Seq(Lines) : l # <<>> /\ cnf_hash' = Entered(l) /\ Head(l).var # NoVar
        BY <1>2, <2>2, LineRead DEF Entered
      <3> DEFINE k == <<Head(l).var, Head(l).prog>>
                 v == [i \in DOMAIN l |-> l[i].id]
      <3>2. Head(l) \in Lines /\ \A i \in 1..Len(l) : l[i] \in Lines
        BY <3>1, HeadTailProperties
      <3>3. k \in Keys
        BY <3>1, <3>2 DEF Keys, Lines
      <3>4. v \in Seq(Nat)
        <4>1. DOMAIN l = 1..Len(l) /\ Len(l) \in Nat /\ \A i \in 1..Len(l) : l[i].id \in Nat
          BY <3>2 DEF Lines
        <4> QED  BY <4>1
      <3>5. cnf_hash' = hash_insert(cnf_hash, k, v)
        BY <3>1 DEF Entered
      <3> HIDE DEF k, v
      <3>6. PICK u : u = cnf_hash'
        OBVIOUS
      <3>7. \A key \in Keys : hash_lookup(u, key) =
              IF key = k THEN Append(hash_lookup(cnf_hash, key), v) ELSE hash_lookup(cnf_hash, key)
        <4>1. Table(cnf_hash) /\ k \in Keys /\ v \in Seq(Nat) /\ u = hash_insert(cnf_hash, k, v)
          BY <1>2, <3>3, <3>4, <3>5, <3>6 DEF CnfInv
        <4> QED  BY <4>1, InsertAdds
      <3>8. PICK s : s = held
        OBVIOUS
      <3>9. PICK t : t = held'
        OBVIOUS
      <3>10. /\ \A key \in Keys : s[key] = hash_lookup(cnf_hash, key) /\ t[key] = hash_lookup(u, key)
             /\ s = [key \in Keys |-> s[key]] /\ t = [key \in Keys |-> t[key]]
        BY <3>6, <3>8, <3>9 DEF held
      <3>11. s[k] \in Seq(Seq(Nat))
        BY <1>2, <3>3, <3>10, LookupTyped DEF CnfInv
      <3>12. t[k] = Append(s[k], v) /\ \A key \in Keys : key # k => t[key] = s[key]
        BY <3>3, <3>7, <3>10
      <3>13. t[k] # <<>> /\ Last(t[k]) = v
        BY <3>4, <3>11, <3>12, LastAppended
      <3>14. t = [s EXCEPT ![k] = Append(@, v)]
        BY <3>3, <3>10, <3>12
      <3>15. Store!Insert(k)
        BY <3>4, <3>8, <3>9, <3>13, <3>14 DEF Store!Insert, Store!Last, Last
      <3> QED  BY <3>3, <3>15 DEF Store!Next
    <2>3. cnf_hash' # cnf_hash => ReadLine
      BY <1>2 DEF Next, Ask, NextFile, Done, CnfLine, ResetProgramName, reader, vars
    <2> QED  BY <2>1, <2>2, <2>3
  <1>3. Init => Store!Init
    BY <1>1
  <1>4. CnfInv /\ [Next]_vars => [Store!Next]_held
    BY <1>2
  <1> QED  BY <1>3, <1>4, CnfAlways, PTL DEF Spec, KeepsAll, Store!Spec

-----------------------------------------------------------------------------
(* KpseInit: the stack of calls *)

Entries == Searching \cup Getting

\* The elements that the loop over a path has still to come to.
LeftOf(rest) == IF rest = Null THEN {} ELSE ToSet(rest)

\* A cnf_get that reads, the path it searches, and a search that is under way,
\* or will be as soon as it is called.
Getter(e) == e.fn = "cnf_get" /\ e.pc # "enter"
Which(g)  == IF g.pc = "read_all_cnf" THEN CnfPath ELSE DbPath
Begun(e)  == e.fn = "search" /\ (e.pc # "start" \/ e.all)

\* Where the calls are in the stack.  Only a cnf_get that will return at once is
\* called from within a search.
Placed(i) ==
    LET e == stack[i]
    IN  /\ e = CnfGetCall => i = 1 /\ (Len(stack) > 1 => stack[2].fn = "search")
        /\ Getter(e) =>
             /\ hash
             /\ i = Len(stack) \/ (i + 1 = Len(stack) /\ stack[i + 1] = Search(UserPath, FALSE))
        /\ e.fn = "search" =>
             /\ e.all => i < Len(stack) /\ Getter(stack[i + 1]) /\ e.path = Which(stack[i + 1])
             /\ ~e.all => i = Len(stack) /\ e.path = UserPath
        /\ Begun(e) => hash /\ \A k \in 1..i - 1 : stack[k] = CnfGetCall

\* How far a search is.  The first one of all is done while followup_search is
\* not set, and so while nothing is logged.
Progress(e) ==
    /\ e.tried \subseteq ToSet(e.path)
    /\ e.found <=> e.tried \cap has # {}
    /\ e.pc = "start" => e.tried = {}
    /\ e.pc = "loop" => e.tried \cup LeftOf(iter) = ToSet(e.path) /\ (e.found => e.all)
    /\ e.pc \in {"end", "log", "done"} /\ (e.all \/ ~e.found) => e.tried = ToSet(e.path)
    /\ reading /\ e.all => ~followup \/ e.pc = "done"
    /\ e.pc = "log" => ~reading

Reads(e) == e.fn = "cnf_get" /\ e.pc = "read_all_cnf"
Read == reading <=> \E i \in DOMAIN stack : Reads(stack[i])

\* Once they are read the files stay read.
Settled ==
    hash /\ (reading => In("cnf_get", "read_all_cnf")) => (cnf <=> has \cap ToSet(CnfPath) # {})

Earned == cnf => has \cap ToSet(CnfPath) # {}

Unread == ~hash => /\ ~followup /\ ~opened /\ ~reading
                   /\ stack = <<>> => ~called
                   /\ stack # <<>> => stack[1] = CnfGetCall

Logged == opened => ~reading /\ (cnf /\ cnflog => logging)

AllPlaced == \A i \in DOMAIN stack : Placed(i)
AllProgress == \A i \in DOMAIN stack : stack[i].fn = "search" => Progress(stack[i])

InitInv == /\ LazyTypeOK /\ iter # <<>>
           /\ AllPlaced /\ AllProgress
           /\ Read /\ Settled /\ Earned /\ Unread /\ Logged

LEMMA PathsKnown ==
    ASSUME PathsAssumption, NEW p \in {UserPath, CnfPath, DbPath}
    PROVE  p \in Seq(Elements) /\ p # <<>> /\ ToSet(p) \subseteq Elements /\ p # Null
  BY DEF PathsAssumption, Elements

LEMMA Kinds ==
    /\ \A e \in Searching : e.fn = "search" /\ e # CnfGetCall
    /\ \A e \in Getting : e.fn = "cnf_get" /\ (e = CnfGetCall <=> e.pc = "enter")
    /\ CnfGetCall \in Getting /\ CnfGetCall.fn = "cnf_get" /\ CnfGetCall.pc = "enter"
    /\ \A p \in {UserPath, CnfPath, DbPath}, a \in BOOLEAN :
          LET s == Search(p, a)
          IN  /\ s \in Searching /\ s.pc = "start" /\ s.path = p /\ s.all = a
              /\ s.tried = {} /\ ~s.found /\ (Begun(s) <=> a) /\ s.fn = "search"
  BY DEF Searching, Getting, CnfGetCall, Search, Begun

LEMMA AdvanceRest ==
    ASSUME NEW E, Null \notin Seq(E), NEW r \in Seq(E), r # <<>>
    PROVE  /\ Advance(r) \in Seq(E) \cup {Null} /\ Advance(r) # <<>>
           /\ LeftOf(r) = {Head(r)} \cup LeftOf(Advance(r))
           /\ Head(r) \in LeftOf(r)
  <1>1. CASE Len(r) = 1
    <2>1. Advance(r) = Null /\ LeftOf(Null) = {} /\ r # Null
      BY <1>1 DEF Advance, LeftOf
    <2>2. DOMAIN r = {1} /\ Head(r) = r[1]
      BY <1>1
    <2>3. ToSet(r) = {r[1]}
      BY <2>2 DEF ToSet
    <2>4. Null # <<>>
      BY EmptySeq
    <2> QED  BY <2>1, <2>2, <2>3, <2>4 DEF LeftOf
  <1>2. CASE Len(r) # 1
    <2>1. r # Null /\ Advance(r) = Tail(r) /\ Tail(r) \in Seq(E) /\ Tail(r) # Null
      BY <1>2 DEF Advance
    <2>a. Len(r) \in Nat /\ Len(r) # 0
      BY EmptySeq
    <2>b. Len(r) > 1 /\ Len(Tail(r)) = Len(r) - 1
      <3>1. Len(r) > 1
        <4>1. \A n \in Nat : n # 0 /\ n # 1 => n > 1
          OBVIOUS
        <4> QED  BY <1>2, <2>a, <4>1, Zenon
      <3>2. Len(Tail(r)) = Len(r) - 1
        BY HeadTailProperties
      <3> QED  BY <3>1, <3>2
    <2>2. Len(r) > 1 /\ Len(Tail(r)) = Len(r) - 1 /\ Tail(r) # <<>>
      BY <2>1, <2>b
    <2>3. \A i \in 1..Len(Tail(r)) : Tail(r)[i] = r[i + 1] /\ i + 1 \in 1..Len(r)
      BY <2>2
    <2>4. \A i \in 1..Len(r) : i = 1 \/ (i - 1 \in 1..Len(Tail(r)) /\ Tail(r)[i - 1] = r[i])
      BY <2>2
    <2>5. DOMAIN r = 1..Len(r) /\ DOMAIN Tail(r) = 1..Len(Tail(r)) /\ Head(r) = r[1] /\ 1 \in 1..Len(r)
      BY <2>1, <2>2
    <2>6. ToSet(r) = {Head(r)} \cup ToSet(Tail(r))
      <3> DEFINE t == Tail(r)
      <3>1. ToSet(r) = {r[i] : i \in 1..Len(r)} /\ ToSet(t) = {t[i] : i \in 1..Len(t)}
        BY <2>5 DEF ToSet
      <3>2. \A i \in 1..Len(t) : t[i] = r[i + 1] /\ i + 1 \in 1..Len(r)
        BY <2>3
      <3>3. \A i \in 1..Len(r) : i = 1 \/ (i - 1 \in 1..Len(t) /\ t[i - 1] = r[i])
        BY <2>4
      <3> HIDE DEF t
      <3>4. ASSUME NEW x \in ToSet(r) PROVE x = r[1] \/ x \in ToSet(t)
        <4>1. PICK i \in 1..Len(r) : x = r[i]
          BY <3>1, <3>4
        <4> QED  BY <3>1, <3>3, <4>1
      <3>5. ASSUME NEW x \in ToSet(t) PROVE x \in ToSet(r)
        <4>1. PICK i \in 1..Len(t) : x = t[i]
          BY <3>1, <3>5
        <4> QED  BY <3>1, <3>2, <4>1
      <3>6. r[1] \in ToSet(r)
        BY <2>5, <3>1
      <3>7. Head(r) = r[1]
        BY <2>5
      <3>8. ToSet(r) = {Head(r)} \cup ToSet(t)
        BY <3>4, <3>5, <3>6, <3>7
      <3> QED  BY <3>8 DEF t
    <2> QED  BY <2>1, <2>2, <2>6 DEF LeftOf
  <1> QED  BY <1>1, <1>2

\* What becomes of the stack.
LEMMA Popped ==
    ASSUME stack \in Seq(Entries), stack # <<>>
    PROVE  /\ Become(<<>>) \in Seq(Entries) /\ Len(Become(<<>>)) = Len(stack) - 1
           /\ Become(<<>>) = Tail(stack)
           /\ \A i \in 1..Len(stack) - 1 : Become(<<>>)[i] = stack[i + 1]
  <1>1. Become(<<>>) = Tail(stack) /\ Tail(stack) \in Seq(Entries)
    BY DEF Become
  <1> QED  BY <1>1

LEMMA Replaced ==
    ASSUME stack \in Seq(Entries), stack # <<>>, NEW x \in Entries
    PROVE  /\ Become(<<x>>) \in Seq(Entries) /\ Len(Become(<<x>>)) = Len(stack)
           /\ Become(<<x>>)[1] = x
           /\ \A i \in 2..Len(stack) : Become(<<x>>)[i] = stack[i]
  <1>1. Tail(stack) \in Seq(Entries) /\ <<x>> \in Seq(Entries) /\ Len(<<x>>) = 1
        /\ Len(Tail(stack)) = Len(stack) - 1
    OBVIOUS
  <1> QED  BY <1>1 DEF Become

LEMMA Pushed ==
    ASSUME stack \in Seq(Entries), stack # <<>>, NEW x \in Entries, NEW y \in Entries
    PROVE  /\ Become(<<x, y>>) \in Seq(Entries) /\ Len(Become(<<x, y>>)) = Len(stack) + 1
           /\ Become(<<x, y>>)[1] = x /\ Become(<<x, y>>)[2] = y
           /\ \A i \in 2..Len(stack) : Become(<<x, y>>)[i + 1] = stack[i]
  <1>1. Tail(stack) \in Seq(Entries) /\ <<x, y>> \in Seq(Entries) /\ Len(<<x, y>>) = 2
        /\ Len(Tail(stack)) = Len(stack) - 1
    OBVIOUS
  <1> QED  BY <1>1 DEF Become

\* A search that is the innermost call is the only one that is under way.
LEMMA OthersIdle ==
    ASSUME AllPlaced, stack \in Seq(Entries), stack # <<>>, stack[1] # CnfGetCall
    PROVE  \A i \in 2..Len(stack) : ~Begun(stack[i]) /\ stack[i] # CnfGetCall
  <1>1. ASSUME NEW i \in 2..Len(stack) PROVE ~Begun(stack[i]) /\ stack[i] # CnfGetCall
    <2>1. i \in DOMAIN stack /\ 1 \in 1..i - 1 /\ i # 1
      OBVIOUS
    <2>2. Placed(i)
      BY <2>1 DEF AllPlaced
    <2> QED  BY <2>1, <2>2 DEF Placed
  <1> QED  BY <1>1

LEMMA IdleProgress ==
    ASSUME NEW e \in Searching, Progress(e), ~Begun(e), has' = has
    PROVE  Progress(e)'
  <1>1. e.pc = "start" /\ ~e.all /\ e.tried = {} /\ ~e.found
    BY DEF Begun, Progress, Searching
  <1> QED  BY <1>1 DEF Progress

\* The innermost call goes on with its search, or calls cnf_get from within it.
LEMMA SearchStep ==
    ASSUME InitInv, stack # <<>>, stack[1].fn = "search",
           NEW x \in Searching, x.path = stack[1].path, x.all = stack[1].all,
           stack' = Become(<<x>>) \/ stack' = Become(<<CnfGetCall, x>>),
           UNCHANGED <<has, hash, reading, cnf>>, Progress(x)'
    PROVE  /\ stack' \in Seq(Entries)
           /\ AllPlaced' /\ AllProgress' /\ Read' /\ Settled' /\ Unread'
  <1> DEFINE n == Len(stack)
  <1>1. stack \in Seq(Entries) /\ AllPlaced /\ AllProgress /\ n \in Nat /\ n # 0
    BY EmptySeq DEF InitInv, LazyTypeOK, Entries
  <1>2. stack[1] \in Searching /\ stack[1] # CnfGetCall
    <2>1. stack[1] \in Entries
      BY <1>1
    <2> QED  BY <2>1, Kinds DEF Entries
  <1>3. hash
    BY <1>2 DEF InitInv, Unread
  <1>4. \A i \in 2..n : ~Begun(stack[i]) /\ stack[i] # CnfGetCall /\ stack[i] \in Entries
    BY <1>1, <1>2, OthersIdle
  <1>5. x \in Entries /\ CnfGetCall \in Entries /\ x # CnfGetCall /\ x.fn = "search"
    BY Kinds DEF Entries
  <1>6. PICK d \in {0, 1} :
          /\ stack' \in Seq(Entries) /\ Len(stack') = n + d
          /\ d = 1 => stack'[1] = CnfGetCall
          /\ stack'[1 + d] = x
          /\ \A i \in 2..n : stack'[i + d] = stack[i]
    <2>1. CASE stack' = Become(<<x>>)
      BY <1>1, <1>5, <2>1, Replaced
    <2>2. CASE stack' = Become(<<CnfGetCall, x>>)
      BY <1>1, <1>5, <2>2, Pushed
    <2> QED  BY <2>1, <2>2
  <1>7. \A j \in DOMAIN stack' : \/ j = 1 /\ d = 1
                                 \/ j = 1 + d
                                 \/ \E i \in 2..n : j = i + d
    <2>1. DOMAIN stack' = 1..n + d
      BY <1>6
    <2>2. ASSUME NEW j \in 1..n + d, j # 1 + d, ~ (j = 1 /\ d = 1)
          PROVE  j - d \in 2..n /\ j = (j - d) + d
      BY <1>1, <2>2
    <2> QED  BY <2>1, <2>2
  <1> HIDE DEF n
  <1>8. AllPlaced'
    <2> SUFFICES ASSUME NEW j \in DOMAIN stack' PROVE Placed(j)'
      BY DEF AllPlaced
    <2>1. CASE j = 1 /\ d = 1
      <3>1. stack'[j] = CnfGetCall /\ stack'[2] = x
        BY <1>6, <2>1
      <3>2. CnfGetCall.fn = "cnf_get" /\ CnfGetCall.pc = "enter"
        BY Kinds
      <3> QED  BY <1>5, <2>1, <3>1, <3>2 DEF Placed, Getter, Begun
    <2>2. CASE j = 1 + d
      <3>1. Placed(1) /\ 1 \in DOMAIN stack
        BY <1>1 DEF AllPlaced, n
      <3>2. x.all => 1 < n /\ Getter(stack[2]) /\ x.path = Which(stack[2])
        BY <1>2, <3>1 DEF Placed, n
      <3>3. ~x.all => 1 = n /\ x.path = UserPath
        BY <1>2, <3>1 DEF Placed, n
      <3>4. x.all => j < Len(stack') /\ stack'[j + 1] = stack[2]
        <4>1. x.all => 2 \in 2..n /\ j + 1 = 2 + d /\ j < n + d
          BY <1>1, <2>2, <3>2
        <4> QED  BY <1>6, <4>1
      <3>5. ~x.all => j = Len(stack')
        BY <1>6, <2>2, <3>3
      <3>6. \A k \in 1..j - 1 : stack'[k] = CnfGetCall
        BY <1>6, <2>2
      <3> QED  BY <1>3, <1>5, <1>6, <2>2, <3>2, <3>3, <3>4, <3>5, <3>6 DEF Placed, Getter, Which
    <2>3. ASSUME NEW i \in 2..n, j = i + d PROVE Placed(j)'
      <3>1. Placed(i) /\ i \in DOMAIN stack /\ stack'[j] = stack[i]
        BY <1>1, <1>6, <2>3 DEF AllPlaced, n
      <3>2. (i = n <=> j = Len(stack')) /\ (i + 1 = n <=> j + 1 = Len(stack'))
            /\ (i < n <=> j < Len(stack'))
        BY <1>1, <1>6, <2>3
      <3>3. i < n => stack'[j + 1] = stack[i + 1]
        <4>1. i < n => i + 1 \in 2..n /\ j + 1 = (i + 1) + d
          BY <1>1, <2>3
        <4> QED  BY <1>6, <4>1
      <3>4. ~Begun(stack[i]) /\ stack[i] # CnfGetCall
        BY <1>4
      <3>5. ~Begun(stack'[j]) /\ stack'[j] # CnfGetCall
        BY <3>1, <3>4
      <3>6. Getter(stack[i]) =>
              i = n \/ (i + 1 = n /\ i < n /\ stack[i + 1] = Search(UserPath, FALSE))
        <4>1. i \in Nat /\ n \in Nat /\ Len(stack) = n
          BY <1>1 DEF n
        <4>2. Getter(stack[i]) =>
                i = Len(stack) \/ (i + 1 = Len(stack) /\ stack[i + 1] = Search(UserPath, FALSE))
          BY <3>1 DEF Placed
        <4>3. i + 1 = n => i < n
          BY <4>1
        <4> QED  BY <4>1, <4>2, <4>3, Zenon
      <3>7. stack[i].fn = "search" =>
              /\ stack[i].all => i < n /\ Getter(stack[i + 1]) /\ stack[i].path = Which(stack[i + 1])
              /\ ~stack[i].all => i = n /\ stack[i].path = UserPath
        BY <3>1 DEF Placed, n
      <3> QED  BY <1>3, <3>1, <3>2, <3>3, <3>5, <3>6, <3>7 DEF Placed, Getter, Which
    <2> QED  BY <1>7, <2>1, <2>2, <2>3
  <1>9. AllProgress'
    <2> SUFFICES ASSUME NEW j \in DOMAIN stack', NEW e, e = stack'[j], e.fn = "search"
                 PROVE  Progress(e)'
      BY DEF AllProgress, Progress
    <2>1. j # 1 \/ d # 1
      BY <1>6, Kinds
    <2>2. ASSUME NEW i \in 2..n, j = i + d PROVE Progress(e)'
      <3>1. e = stack[i] /\ i \in DOMAIN stack /\ ~Begun(e) /\ e \in Entries
        BY <1>1, <1>4, <1>6, <2>2 DEF n
      <3>2. Progress(e) /\ e \in Searching
        BY <1>1, <3>1, Kinds DEF AllProgress, Entries
      <3> QED  BY <3>1, <3>2, IdleProgress
    <2>3. CASE j = 1 + d
      BY <1>6, <2>3
    <2> QED  BY <1>7, <2>1, <2>2, <2>3
  <1>10. Read'
    <2>1. \A j \in DOMAIN stack' : Reads(stack'[j]) => \E i \in DOMAIN stack : Reads(stack[i])
      <3>1. ~Reads(CnfGetCall) /\ ~Reads(x)
        BY <1>5, Kinds DEF Reads
      <3>2. \A i \in 2..n : stack'[i + d] = stack[i] /\ i \in DOMAIN stack
        BY <1>1, <1>6 DEF n
      <3> QED  BY <1>6, <1>7, <3>1, <3>2
    <2>2. ASSUME NEW i \in DOMAIN stack, Reads(stack[i])
          PROVE  \E j \in DOMAIN stack' : Reads(stack'[j])
      <3>1. i \in 2..n
        BY <1>1, <1>2, <2>2 DEF Reads, n
      <3>2. i + d \in DOMAIN stack' /\ stack'[i + d] = stack[i]
        BY <1>1, <1>6, <3>1
      <3> QED  BY <2>2, <3>2
    <2> QED  BY <2>1, <2>2 DEF InitInv, Read, Reads
  <1>11. Settled'
    <2>1. ~ In("cnf_get", "read_all_cnf")'
      <3>1. Head(stack') = stack'[1] /\ (stack'[1] = CnfGetCall \/ stack'[1] = x)
        BY <1>1, <1>6
      <3> QED  BY <1>5, <3>1, Kinds DEF In
    <2> QED  BY <2>1 DEF Settled, InitInv
  <1> QED  BY <1>3, <1>6, <1>8, <1>9, <1>10, <1>11 DEF Unread

\* The innermost call returns.
LEMMA ReturnStep ==
    ASSUME InitInv, stack # <<>>, stack' = Become(<<>>), hash, ~Reads(stack[1]),
           UNCHANGED <<has, hash, iter, reading, followup>>
    PROVE  /\ stack' \in Seq(Entries)
           /\ Len(stack) > 1 => stack' # <<>> /\ Head(stack') = stack[2]
           /\ Len(stack) = 1 => stack' = <<>>
           /\ AllPlaced' /\ AllProgress' /\ Read' /\ Unread'
  <1> DEFINE n == Len(stack)
  <1>1. stack \in Seq(Entries) /\ AllPlaced /\ AllProgress /\ n \in Nat /\ n # 0
    BY EmptySeq DEF InitInv, LazyTypeOK, Entries
  <1>2. /\ stack' \in Seq(Entries) /\ Len(stack') = n - 1
        /\ \A i \in 1..n - 1 : stack'[i] = stack[i + 1]
    BY <1>1, Popped
  <1>3. DOMAIN stack' = 1..n - 1 /\ DOMAIN stack = 1..n
    BY <1>1, <1>2
  <1> HIDE DEF n
  <1>4. AllPlaced'
    <2> SUFFICES ASSUME NEW j \in 1..n - 1 PROVE Placed(j)'
      BY <1>3 DEF AllPlaced
    <2>1. Placed(j + 1) /\ stack'[j] = stack[j + 1] /\ j + 1 # 1 /\ Len(stack) = n
      BY <1>1, <1>2, <1>3 DEF AllPlaced, n
    <2>2. /\ j + 1 = n <=> j = n - 1
          /\ j + 1 + 1 = n <=> j + 1 = n - 1
          /\ j + 1 < n <=> j < n - 1
          /\ j + 1 < n => stack'[j + 1] = stack[j + 1 + 1]
          /\ j + 1 + 1 = n => j + 1 < n
      BY <1>1, <1>2
    <2>3. ASSUME Begun(stack[j + 1]) PROVE \A k \in 1..j - 1 : stack'[k] = CnfGetCall
      <3>1. \A k \in 1..j + 1 - 1 : stack[k] = CnfGetCall
        BY <2>1, <2>3 DEF Placed
      <3>2. \A k \in 1..j - 1 : k + 1 \in 1..j + 1 - 1 /\ k \in 1..n - 1
        BY <1>1
      <3> QED  BY <1>2, <3>1, <3>2
    <2>4. stack'[j] # CnfGetCall
      BY <2>1 DEF Placed
    <2>5. Getter(stack[j + 1]) =>
            j + 1 = n \/ (j + 1 + 1 = n /\ stack[j + 1 + 1] = Search(UserPath, FALSE))
      BY <2>1 DEF Placed
    <2>6. stack[j + 1].fn = "search" =>
            /\ stack[j + 1].all =>
                 j + 1 < n /\ Getter(stack[j + 1 + 1]) /\ stack[j + 1].path = Which(stack[j + 1 + 1])
            /\ ~stack[j + 1].all => j + 1 = n /\ stack[j + 1].path = UserPath
      BY <2>1 DEF Placed
    <2>7. Len(stack') = n - 1
      BY <1>2
    <2> QED  BY <2>1, <2>2, <2>3, <2>4, <2>5, <2>6, <2>7 DEF Placed, Getter, Begun, Which
  <1>5. AllProgress'
    <2> SUFFICES ASSUME NEW j \in 1..n - 1, NEW e, e = stack'[j], e.fn = "search"
                 PROVE  Progress(e)'
      BY <1>3 DEF AllProgress, Progress
    <2>1. e = stack[j + 1] /\ j + 1 \in DOMAIN stack
      BY <1>1, <1>2, <1>3
    <2>2. Progress(e)
      BY <1>1, <2>1 DEF AllProgress
    <2> QED  BY <2>2 DEF Progress, LeftOf
  <1>6. Read'
    <2>1. \A i \in DOMAIN stack : Reads(stack[i]) => i - 1 \in 1..n - 1 /\ stack'[i - 1] = stack[i]
      BY <1>1, <1>2, <1>3
    <2>2. \A j \in DOMAIN stack' : j + 1 \in DOMAIN stack /\ stack[j + 1] = stack'[j]
      BY <1>1, <1>2, <1>3
    <2>3. (\E i \in DOMAIN stack : Reads(stack[i])) <=> \E j \in DOMAIN stack' : Reads(stack'[j])
      BY <1>3, <2>1, <2>2, Zenon
    <2> QED  BY <2>3 DEF InitInv, Read, Reads
  <1>7. Len(stack) > 1 => stack' # <<>> /\ Head(stack') = stack[2]
    BY <1>1, <1>2 DEF n
  <1>8. Len(stack) = 1 => stack' = <<>>
    BY <1>2, EmptySeq DEF n
  <1> QED  BY <1>2, <1>4, <1>5, <1>6, <1>7, <1>8 DEF Unread

LEMMA Called ==
    ASSUME stack \in Seq(Entries), stack # <<>>, NEW s \in Entries, NEW g \in Entries, NEW u,
           Len(stack) = 1 \/ (Len(stack) = 2 /\ stack[2] = u), stack' = Become(<<s, g>>)
    PROVE  /\ stack' \in Seq(Entries) /\ DOMAIN stack' = 1..Len(stack')
           /\ stack'[1] = s /\ stack'[2] = g /\ 1 < Len(stack')
           /\ 2 = Len(stack') \/ (2 + 1 = Len(stack') /\ stack'[2 + 1] = u)
           /\ \A j \in DOMAIN stack' : \/ j = 1 /\ stack'[j] = s
                                       \/ j = 2 /\ stack'[j] = g
                                       \/ j = 3 /\ stack'[j] = u /\ Len(stack') = 3
  <1>1. /\ stack' \in Seq(Entries) /\ Len(stack') = Len(stack) + 1
        /\ stack'[1] = s /\ stack'[2] = g
        /\ \A i \in 2..Len(stack) : stack'[i + 1] = stack[i]
    BY Pushed
  <1>a. DOMAIN stack' = 1..Len(stack')
    BY <1>1
  <1>2. CASE Len(stack) = 1
    <2>1. Len(stack') = 2
      BY <1>1, <1>2
    <2>2. \A j \in 1..2 : j = 1 \/ j = 2
      OBVIOUS
    <2> QED  BY <1>1, <1>a, <2>1, <2>2
  <1>3. CASE Len(stack) = 2 /\ stack[2] = u
    <2>1. Len(stack') = 3
      BY <1>1, <1>3
    <2>2. stack'[2 + 1] = u /\ stack'[3] = u
      BY <1>1, <1>3
    <2>3. \A j \in 1..3 : j = 1 \/ j = 2 \/ j = 3
      OBVIOUS
    <2> QED  BY <1>1, <1>a, <2>1, <2>2, <2>3
  <1> QED  BY <1>2, <1>3

\* cnf_get searches the path of the configuration files, or of the databases.
LEMMA CallStep ==
    ASSUME PathsAssumption, InitInv, stack # <<>>, stack[1].fn = "cnf_get",
           Len(stack) = 1 \/ (Len(stack) = 2 /\ stack[2] = Search(UserPath, FALSE)),
           NEW g \in Getting, Getter(g),
           stack' = Become(<<Search(Which(g), TRUE), g>>),
           has' = has, hash', reading' => ~followup'
    PROVE  /\ stack' \in Seq(Entries)
           /\ stack' # <<>> /\ Head(stack').fn = "search"
           /\ AllPlaced' /\ AllProgress' /\ Unread'
           /\ (\E i \in DOMAIN stack' : Reads(stack'[i])) <=> g.pc = "read_all_cnf"
  <1> DEFINE s == Search(Which(g), TRUE)
             u == Search(UserPath, FALSE)
  <1>1. stack \in Seq(Entries)
    BY DEF InitInv, LazyTypeOK, Entries
  <1>2. Which(g) \in {UserPath, CnfPath, DbPath} /\ UserPath \in {UserPath, CnfPath, DbPath}
    BY DEF Which
  <1>3. /\ s \in Searching /\ s.pc = "start" /\ s.path = Which(g) /\ s.all /\ s.fn = "search"
        /\ s.tried = {} /\ ~s.found
    BY <1>2, Kinds
  <1>4. /\ u \in Searching /\ u.pc = "start" /\ u.path = UserPath /\ ~u.all /\ u.fn = "search"
        /\ u.tried = {} /\ ~u.found /\ ~Begun(u)
    BY <1>2, Kinds
  <1> HIDE DEF s, u
  <1>5. s \in Entries /\ g \in Entries /\ s # CnfGetCall /\ u # CnfGetCall /\ g # CnfGetCall
        /\ g.fn = "cnf_get"
    BY <1>3, <1>4, Kinds DEF Entries, Getter
  <1>a. stack' = Become(<<s, g>>)
    BY DEF s
  <1>b. Len(stack) = 1 \/ (Len(stack) = 2 /\ stack[2] = u)
    BY DEF u
  <1>6. /\ stack' \in Seq(Entries) /\ DOMAIN stack' = 1..Len(stack')
        /\ stack'[1] = s /\ stack'[2] = g /\ 1 < Len(stack')
        /\ 2 = Len(stack') \/ (2 + 1 = Len(stack') /\ stack'[2 + 1] = u)
    BY <1>1, <1>5, <1>a, <1>b, Called
  <1>7. \A j \in DOMAIN stack' : \/ j = 1 /\ stack'[j] = s
                                 \/ j = 2 /\ stack'[j] = g
                                 \/ j = 3 /\ stack'[j] = u /\ Len(stack') = 3
    BY <1>1, <1>5, <1>a, <1>b, Called
  <1>8. stack' # <<>> /\ Head(stack') = s
    BY <1>6
  <1>9. AllPlaced'
    <2> SUFFICES ASSUME NEW j \in DOMAIN stack' PROVE Placed(j)'
      BY DEF AllPlaced
    <2>1. CASE j = 1 /\ stack'[j] = s
      <3>1. ~ (\E k \in 1..1 - 1 : TRUE)
        OBVIOUS
      <3>2. stack'[1 + 1] = g
        BY <1>6
      <3> QED  BY <1>3, <1>5, <1>6, <2>1, <3>1, <3>2 DEF Placed, Getter, Begun, Which
    <2>2. CASE j = 2 /\ stack'[j] = g
      BY <1>5, <1>6, <2>2 DEF Placed, Getter, Begun, u
    <2>3. CASE j = 3 /\ stack'[j] = u /\ Len(stack') = 3
      BY <1>4, <1>5, <2>3 DEF Placed, Getter
    <2> QED  BY <1>7, <2>1, <2>2, <2>3
  <1>10. AllProgress'
    <2> SUFFICES ASSUME NEW j \in DOMAIN stack', NEW e, e = stack'[j], e.fn = "search"
                 PROVE  Progress(e)'
      BY DEF AllProgress, Progress
    <2>1. e = s \/ e = u
      BY <1>5, <1>7
    <2> QED  BY <1>3, <1>4, <2>1 DEF Progress
  <1>11. (\E i \in DOMAIN stack' : Reads(stack'[i])) <=> g.pc = "read_all_cnf"
    <2>1. 2 \in DOMAIN stack'
      BY <1>6
    <2>2. \A i \in DOMAIN stack' : stack'[i] = s \/ stack'[i] = g \/ stack'[i] = u
      BY <1>7
    <2> QED  BY <1>3, <1>4, <1>5, <1>6, <2>1, <2>2 DEF Reads
  <1> QED  BY <1>3, <1>6, <1>8, <1>9, <1>10, <1>11 DEF Unread

-----------------------------------------------------------------------------
(* KpseInit: every step keeps the invariant *)

LEMMA Innermost ==
    ASSUME InitInv, stack # <<>>
    PROVE  /\ Head(stack) = stack[1] /\ Placed(1)
           /\ stack[1].fn = "search" => stack[1] \in Searching /\ Progress(stack[1]) /\ hash
           /\ stack[1].fn = "cnf_get" => stack[1] \in Getting
  <1>1. stack \in Seq(Entries) /\ 1 \in DOMAIN stack /\ Head(stack) = stack[1]
    BY EmptySeq DEF InitInv, LazyTypeOK, Entries
  <1>2. stack[1] \in Entries
    BY <1>1
  <1>3. stack[1].fn = "search" => stack[1] \in Searching /\ stack[1] # CnfGetCall
    BY <1>2, Kinds DEF Entries
  <1>4. stack[1].fn = "cnf_get" => stack[1] \in Getting
    BY <1>2, Kinds DEF Entries
  <1>5. Placed(1) /\ (stack[1].fn = "search" => Progress(stack[1]))
    BY <1>1 DEF InitInv, AllPlaced, AllProgress
  <1>6. stack[1].fn = "search" => hash
    BY <1>3 DEF InitInv, Unread
  <1> QED  BY <1>1, <1>3, <1>4, <1>5, <1>6

LEMMA SomeFacts ==
    ASSUME InitInv
    PROVE  /\ {cnflog, hash, reading, cnf, db, followup, opened, logging, called} \subseteq BOOLEAN
           /\ stack \in Seq(Entries) /\ has \subseteq Elements
           /\ iter \in Seq(Elements) \cup {Null} /\ iter # <<>>
           /\ AllPlaced /\ AllProgress /\ Read /\ Settled /\ Earned /\ Unread /\ Logged
  BY DEF InitInv, LazyTypeOK, Entries

\* The rest of the loop has at least one element, or there is none.
LEMMA RestKept ==
    ASSUME PathsAssumption, NEW r \in Seq(Elements) \cup {Null}, r # <<>>
    PROVE  Advance(r) \in Seq(Elements) \cup {Null} /\ Advance(r) # <<>>
  <1>1. Null \notin Seq(Elements) /\ Null # <<>>
    BY EmptySeq DEF PathsAssumption
  <1>2. CASE r = Null
    BY <1>1, <1>2 DEF Advance
  <1>3. CASE r # Null
    BY <1>1, <1>3, AdvanceRest
  <1> QED  BY <1>2, <1>3

LEMMA BeginKeeps ==
    ASSUME PathsAssumption, InitInv, Begin
    PROVE  InitInv'
  <1>0. PICK x : x = [Head(stack) EXCEPT !.pc = "loop"]
    OBVIOUS
  <1>1. stack # <<>> /\ Head(stack).fn = "search" /\ Head(stack).pc = "start"
        /\ iter' = Head(stack).path /\ stack' = Become(<<x>>)
        /\ UNCHANGED <<has, environ, cnflog, hash, reading, cnf, db, followup, opened, logging, called>>
    BY <1>0 DEF Begin, In, world
  <1>2. Head(stack) = stack[1] /\ stack[1] \in Searching /\ Progress(stack[1])
    BY <1>1, Innermost
  <1>3. /\ x \in Searching /\ x.path = stack[1].path /\ x.all = stack[1].all /\ x.pc = "loop"
        /\ x.tried = stack[1].tried /\ x.found = stack[1].found
    BY <1>0, <1>2 DEF Searching
  <1>4. iter' \in Seq(Elements) /\ iter' # <<>> /\ iter' # Null /\ iter' = x.path
    <2>1. x.path \in {UserPath, CnfPath, DbPath}
      BY <1>3 DEF Searching
    <2> QED  BY <1>1, <1>2, <1>3, <2>1, PathsKnown
  <1>5. Progress(x)'
    <2>1. x.tried = {} /\ ~x.found /\ x.found \in BOOLEAN
      BY <1>1, <1>2, <1>3 DEF Progress, Searching
    <2> QED  BY <1>1, <1>2, <1>3, <1>4, <2>1 DEF Progress, LeftOf
  <1>6. stack' \in Seq(Entries) /\ AllPlaced' /\ AllProgress' /\ Read' /\ Settled' /\ Unread'
    BY <1>1, <1>2, <1>3, <1>5, SearchStep
  <1> QED  BY <1>1, <1>4, <1>6 DEF InitInv, LazyTypeOK, Entries, Earned, Logged

LEMMA ElementKeeps ==
    ASSUME PathsAssumption, InitInv, Element
    PROVE  InitInv'
  <1>0. PICK e, t, f, g :
          /\ e = Head(iter)
          /\ t = [Head(stack) EXCEPT !.tried = @ \cup {e}]
          /\ f = [t EXCEPT !.found = TRUE]
          /\ g = [t EXCEPT !.found = TRUE, !.pc = "end"]
    OBVIOUS
  <1>1. stack # <<>> /\ Head(stack).fn = "search" /\ Head(stack).pc = "loop" /\ iter # Null
        /\ UNCHANGED <<has, environ, cnflog, hash, reading, cnf, db, followup, opened, logging, called>>
    BY DEF Element, In, world
  <1>2. Head(stack) = stack[1] /\ stack[1] \in Searching /\ Progress(stack[1])
    BY <1>1, Innermost
  <1>3. iter \in Seq(Elements) /\ iter # <<>> /\ Null \notin Seq(Elements)
    BY <1>1, SomeFacts DEF PathsAssumption
  <1>4. LeftOf(iter) = {e} \cup LeftOf(Advance(iter)) /\ e \in Elements
    <2>1. Head(iter) \in Elements
      BY <1>3
    <2> QED  BY <1>0, <1>3, <2>1, AdvanceRest
  <1>5. \/ e \in has /\ t.all /\ stack' = Become(<<f>>) /\ iter' = Advance(iter)
        \/ e \in has /\ ~t.all /\ stack' = Become(<<g>>)
           /\ iter' = Advance(Advance(iter))
        \/ e \notin has /\ (stack' = Become(<<t>>) \/ stack' = Become(<<CnfGetCall, t>>))
           /\ iter' = Advance(iter)
    BY <1>0 DEF Element
  <1>6. /\ t \in Searching /\ t.path = stack[1].path /\ t.all = stack[1].all
        /\ t.tried = stack[1].tried \cup {e} /\ t.found = stack[1].found /\ t.pc = "loop"
    BY <1>0, <1>1, <1>2, <1>4 DEF Searching
  <1>7. /\ f \in Searching /\ f.path = t.path /\ f.all = t.all
        /\ f.tried = t.tried /\ f.found = TRUE /\ f.pc = "loop"
    BY <1>0, <1>6 DEF Searching
  <1>8. /\ g \in Searching /\ g.path = t.path /\ g.all = t.all
        /\ g.tried = t.tried /\ g.found = TRUE /\ g.pc = "end"
    BY <1>0, <1>6 DEF Searching
  <1>9. iter' \in Seq(Elements) \cup {Null} /\ iter' # <<>>
    <2>1. Advance(iter) \in Seq(Elements) \cup {Null} /\ Advance(iter) # <<>>
      BY <1>3, RestKept
    <2>2. Advance(Advance(iter)) \in Seq(Elements) \cup {Null}
          /\ Advance(Advance(iter)) # <<>>
      BY <2>1, RestKept
    <2> QED  BY <1>5, <2>1, <2>2
  <1>p. /\ stack[1].tried \subseteq ToSet(stack[1].path)
        /\ stack[1].found <=> stack[1].tried \cap has # {}
        /\ stack[1].tried \cup LeftOf(iter) = ToSet(stack[1].path)
        /\ stack[1].found => stack[1].all
        /\ reading /\ stack[1].all => ~followup
    BY <1>1, <1>2 DEF Progress
  <1>q. e \in ToSet(t.path) /\ t.tried \subseteq ToSet(t.path)
    BY <1>4, <1>6, <1>p
  <1>10. CASE e \in has /\ t.all /\ stack' = Become(<<f>>) /\ iter' = Advance(iter)
    <2>1. Progress(f)'
      BY <1>1, <1>4, <1>6, <1>7, <1>10, <1>p, <1>q DEF Progress
    <2>2. stack' \in Seq(Entries) /\ AllPlaced' /\ AllProgress' /\ Read' /\ Settled' /\ Unread'
      BY <1>1, <1>2, <1>6, <1>7, <1>10, <2>1, SearchStep
    <2> QED  BY <1>1, <1>9, <2>2 DEF InitInv, LazyTypeOK, Entries, Earned, Logged
  <1>11. CASE e \in has /\ ~t.all /\ stack' = Become(<<g>>)
    <2>1. Progress(g)'
      BY <1>1, <1>6, <1>8, <1>11, <1>p, <1>q DEF Progress
    <2>2. stack' \in Seq(Entries) /\ AllPlaced' /\ AllProgress' /\ Read' /\ Settled' /\ Unread'
      BY <1>1, <1>2, <1>6, <1>8, <1>11, <2>1, SearchStep
    <2> QED  BY <1>1, <1>9, <2>2 DEF InitInv, LazyTypeOK, Entries, Earned, Logged
  <1>12. CASE e \notin has /\ (stack' = Become(<<t>>) \/ stack' = Become(<<CnfGetCall, t>>))
              /\ iter' = Advance(iter)
    <2>1. Progress(t)'
      BY <1>1, <1>4, <1>6, <1>12, <1>p, <1>q DEF Progress
    <2>2. stack' \in Seq(Entries) /\ AllPlaced' /\ AllProgress' /\ Read' /\ Settled' /\ Unread'
      BY <1>1, <1>2, <1>6, <1>12, <2>1, SearchStep
    <2> QED  BY <1>1, <1>9, <2>2 DEF InitInv, LazyTypeOK, Entries, Earned, Logged
  <1> QED  BY <1>5, <1>10, <1>11, <1>12

LEMMA LoopEndKeeps ==
    ASSUME InitInv, LoopEnd
    PROVE  InitInv'
  <1>0. PICK x : x = [Head(stack) EXCEPT !.pc = "end"]
    OBVIOUS
  <1>1. stack # <<>> /\ Head(stack).fn = "search" /\ Head(stack).pc = "loop" /\ iter = Null
        /\ stack' = Become(<<x>>)
        /\ UNCHANGED <<has, environ, cnflog, iter, hash, reading, cnf, db, followup, opened,
                      logging, called>>
    BY <1>0 DEF LoopEnd, In, world
  <1>2. Head(stack) = stack[1] /\ stack[1] \in Searching /\ Progress(stack[1])
    BY <1>1, Innermost
  <1>3. /\ x \in Searching /\ x.path = stack[1].path /\ x.all = stack[1].all /\ x.pc = "end"
        /\ x.tried = stack[1].tried /\ x.found = stack[1].found
    BY <1>0, <1>2 DEF Searching
  <1>4. Progress(x)'
    <2>1. LeftOf(iter) = {}
      BY <1>1 DEF LeftOf
    <2>2. stack[1].tried = ToSet(stack[1].path)
      BY <1>1, <1>2, <2>1 DEF Progress
    <2> QED  BY <1>1, <1>2, <1>3, <2>2 DEF Progress
  <1>5. stack' \in Seq(Entries) /\ AllPlaced' /\ AllProgress' /\ Read' /\ Settled' /\ Unread'
    BY <1>1, <1>2, <1>3, <1>4, SearchStep
  <1> QED  BY <1>1, <1>5 DEF InitInv, LazyTypeOK, Entries, Earned, Logged

\* While the configuration is being read only its own search is under way.
LEMMA ReadingSearch ==
    ASSUME InitInv, stack # <<>>, stack[1].fn = "search", reading
    PROVE  stack[1].all
  <1>1. PICK i \in DOMAIN stack : Reads(stack[i])
    BY DEF InitInv, Read
  <1>2. i # 1
    BY <1>1 DEF Reads
  <1>3. stack \in Seq(Entries)
    BY SomeFacts
  <1>4. Len(stack) # 1
    BY <1>1, <1>2, <1>3
  <1>5. Placed(1)
    BY Innermost
  <1> QED  BY <1>4, <1>5 DEF Placed

LEMMA EndKeeps ==
    ASSUME InitInv, SearchEnd
    PROVE  InitInv'
  <1>0. PICK x : /\ x \in {[Head(stack) EXCEPT !.pc = "done"], [Head(stack) EXCEPT !.pc = "log"]}
                 /\ stack' = Become(<<x>>) \/ stack' = Become(<<CnfGetCall, x>>)
                 /\ ~followup \/ opened => x = [Head(stack) EXCEPT !.pc = "done"]
    BY DEF SearchEnd
  <1>1. stack # <<>> /\ Head(stack).fn = "search" /\ Head(stack).pc = "end" /\ followup' = TRUE
        /\ UNCHANGED <<has, environ, cnflog, iter, hash, reading, cnf, db, opened, logging, called>>
    BY DEF SearchEnd, In, world
  <1>2. Head(stack) = stack[1] /\ stack[1] \in Searching /\ Progress(stack[1])
    BY <1>1, Innermost
  <1>3. /\ x \in Searching /\ x.path = stack[1].path /\ x.all = stack[1].all
        /\ x.pc \in {"done", "log"} /\ (~followup \/ opened => x.pc = "done")
        /\ x.tried = stack[1].tried /\ x.found = stack[1].found
    <2>1. CASE x = [stack[1] EXCEPT !.pc = "done"]
      BY <1>2, <2>1 DEF Searching
    <2>2. CASE x = [stack[1] EXCEPT !.pc = "log"]
      <3>1. x.pc = "log" /\ [stack[1] EXCEPT !.pc = "done"].pc = "done"
        BY <1>2, <2>2 DEF Searching
      <3> QED  BY <1>0, <1>2, <2>2, <3>1 DEF Searching
    <2> QED  BY <1>0, <1>2, <2>1, <2>2
  <1>4. reading => x.pc = "done"
    <2>1. reading => stack[1].all
      BY <1>1, <1>2, ReadingSearch
    <2>2. reading => ~followup
      BY <1>1, <1>2, <2>1 DEF Progress
    <2> QED  BY <1>3, <2>2
  <1>5. Progress(x)'
    BY <1>1, <1>2, <1>3, <1>4 DEF Progress
  <1>6. stack' \in Seq(Entries) /\ AllPlaced' /\ AllProgress' /\ Read' /\ Settled' /\ Unread'
    BY <1>0, <1>1, <1>2, <1>3, <1>5, SearchStep
  <1> QED  BY <1>1, <1>6 DEF InitInv, LazyTypeOK, Entries, Earned, Logged

LEMMA OpenLogKeeps ==
    ASSUME InitInv, OpenLog
    PROVE  InitInv'
  <1>0. PICK x : x = [Head(stack) EXCEPT !.pc = "done"]
    OBVIOUS
  <1>1. stack # <<>> /\ Head(stack).fn = "search" /\ Head(stack).pc = "log"
        /\ stack' = Become(<<x>>) /\ opened' = TRUE
        /\ logging' = (logging \/ "log" \in environ \/ (~reading /\ cnf /\ cnflog))
        /\ UNCHANGED <<has, environ, cnflog, iter, hash, reading, cnf, db, followup, called>>
    BY <1>0 DEF OpenLog, In, world
  <1>2. Head(stack) = stack[1] /\ stack[1] \in Searching /\ Progress(stack[1])
    BY <1>1, Innermost
  <1>3. /\ x \in Searching /\ x.path = stack[1].path /\ x.all = stack[1].all /\ x.pc = "done"
        /\ x.tried = stack[1].tried /\ x.found = stack[1].found
    BY <1>0, <1>2 DEF Searching
  <1>4. Progress(x)'
    BY <1>1, <1>2, <1>3 DEF Progress
  <1>5. stack' \in Seq(Entries) /\ AllPlaced' /\ AllProgress' /\ Read' /\ Settled' /\ Unread'
    BY <1>1, <1>2, <1>3, <1>4, SearchStep
  <1>6. ~reading
    BY <1>1, <1>2 DEF Progress
  <1>7. Logged' /\ logging' \in BOOLEAN
    BY <1>1, <1>6 DEF Logged
  <1> QED  BY <1>1, <1>5, <1>7 DEF InitInv, LazyTypeOK, Entries, Earned

LEMMA DoneKeeps ==
    ASSUME InitInv, SearchDone
    PROVE  InitInv'
  <1>1. stack # <<>> /\ Head(stack).fn = "search" /\ Head(stack).pc = "done"
        /\ stack' = Become(<<>>)
        /\ cnf' = (cnf \/ (Head(stack).path = CnfPath /\ Head(stack).found))
        /\ UNCHANGED <<has, environ, cnflog, iter, hash, reading, db, followup, opened, logging, called>>
    BY DEF SearchDone, In, world
  <1>2. Head(stack) = stack[1] /\ stack[1] \in Searching /\ Progress(stack[1]) /\ hash
        /\ Placed(1)
    BY <1>1, Innermost
  <1>3. ~Reads(stack[1])
    BY <1>1, <1>2 DEF Reads
  <1>4. /\ stack' \in Seq(Entries)
        /\ Len(stack) > 1 => stack' # <<>> /\ Head(stack') = stack[2]
        /\ AllPlaced' /\ AllProgress' /\ Read' /\ Unread'
    BY <1>1, <1>2, <1>3, ReturnStep
  <1>5. Earned'
    <2>1. stack[1].found => stack[1].tried \cap has # {} /\ stack[1].tried \subseteq ToSet(stack[1].path)
      BY <1>2 DEF Progress
    <2>2. Earned
      BY SomeFacts
    <2> QED  BY <1>1, <1>2, <2>1, <2>2 DEF Earned
  <1>6. cnf' \in BOOLEAN /\ cnf \in BOOLEAN /\ reading \in BOOLEAN /\ opened \in BOOLEAN
    <2>1. cnf \in BOOLEAN /\ stack[1].found \in BOOLEAN /\ reading \in BOOLEAN /\ opened \in BOOLEAN
      BY <1>2, SomeFacts DEF Searching
    <2> QED  BY <1>1, <2>1
  <1>7. ~reading => (cnf' <=> cnf)
    <2>1. ~reading => (cnf <=> has \cap ToSet(CnfPath) # {})
      BY <1>2, SomeFacts DEF Settled
    <2> QED  BY <1>1, <1>5, <2>1 DEF Earned
  <1>8. Settled'
    <2> SUFFICES ASSUME reading, In("cnf_get", "read_all_cnf")'
                 PROVE  has \cap ToSet(CnfPath) # {} => cnf'
      <3>1. ~reading => Settled'
        BY <1>1, <1>2, <1>6, <1>7, SomeFacts DEF Settled
      <3> QED  BY <1>1, <1>5, <3>1 DEF Settled, Earned
    <2>1. stack[1].all
      BY <1>1, <1>2, ReadingSearch
    <2>2. 1 < Len(stack) /\ stack[1].path = Which(stack[2])
      BY <1>1, <1>2, <2>1 DEF Placed
    <2>3. Len(stack) > 1
      <3>1. Len(stack) \in Nat
        BY SomeFacts
      <3> QED  BY <2>2, <3>1
    <2>4. stack[2].pc = "read_all_cnf"
      BY <1>4, <2>3 DEF In
    <2>5. stack[1].path = CnfPath
      BY <2>2, <2>4 DEF Which
    <2>6. stack[1].tried = ToSet(CnfPath) /\ (stack[1].found <=> stack[1].tried \cap has # {})
      BY <1>1, <1>2, <2>1, <2>5 DEF Progress
    <2> QED  BY <1>1, <1>2, <2>5, <2>6
  <1>9. Logged'
    BY <1>1, <1>6, <1>7, SomeFacts DEF Logged
  <1> QED  BY <1>1, <1>4, <1>5, <1>6, <1>8, <1>9 DEF InitInv, LazyTypeOK, Entries

\* A search that has not begun is the one the program has called for.
LEMMA StillWaiting ==
    ASSUME NEW e \in Searching, ~Begun(e), Progress(e), e.path = UserPath
    PROVE  e = Search(UserPath, FALSE)
  <1>1. e.pc = "start" /\ e.all = FALSE /\ e.tried = {} /\ e.found = FALSE /\ e.fn = "search"
    BY DEF Begun, Progress, Searching
  <1> QED  BY <1>1 DEF Search, Searching

LEMMA BeforeReading ==
    ASSUME InitInv, stack # <<>>, ~hash
    PROVE  /\ stack[1] = CnfGetCall
           /\ Len(stack) = 1 \/ (Len(stack) = 2 /\ stack[2] = Search(UserPath, FALSE))
  <1>1. stack[1] = CnfGetCall /\ Placed(1) /\ stack \in Seq(Entries) /\ AllPlaced /\ AllProgress
    BY Innermost, SomeFacts DEF Unread
  <1>2. Len(stack) \in Nat /\ Len(stack) # 0 /\ DOMAIN stack = 1..Len(stack)
    BY <1>1, EmptySeq
  <1>3. CASE Len(stack) > 1
    <2>1. 2 \in DOMAIN stack /\ stack[2].fn = "search"
      BY <1>1, <1>2, <1>3 DEF Placed
    <2>2. stack[2] \in Entries /\ Placed(2) /\ Progress(stack[2])
      BY <1>1, <2>1 DEF AllPlaced, AllProgress
    <2>3. stack[2] \in Searching
      BY <2>1, <2>2, Kinds DEF Entries
    <2>4. ~Begun(stack[2])
      BY <2>2 DEF Placed
    <2>5. ~stack[2].all
      BY <2>1, <2>4 DEF Begun
    <2>6. 2 = Len(stack) /\ stack[2].path = UserPath
      BY <2>1, <2>2, <2>5 DEF Placed
    <2> QED  BY <1>1, <2>2, <2>3, <2>4, <2>6, StillWaiting
  <1>4. Len(stack) = 1 \/ Len(stack) > 1
    BY <1>2, Small, Zenon
  <1> QED  BY <1>1, <1>3, <1>4

LEMMA EnterKeeps ==
    ASSUME PathsAssumption, InitInv, Enter
    PROVE  InitInv'
  <1>1. stack # <<>> /\ Head(stack).fn = "cnf_get" /\ Head(stack).pc = "enter"
        /\ UNCHANGED <<has, environ, cnflog, iter, cnf, db, followup, opened, logging, called>>
    BY DEF Enter, In, world
  <1>2. Head(stack) = stack[1] /\ stack[1] \in Getting /\ Placed(1)
    BY <1>1, Innermost
  <1>3. stack[1] = CnfGetCall /\ ~Reads(stack[1])
    BY <1>1, <1>2, Kinds DEF Reads
  <1>4. CASE reading \/ hash
    <2>1. stack' = Become(<<>>) /\ UNCHANGED <<hash, reading>>
      BY <1>4 DEF Enter
    <2>2. hash
      BY <1>4, SomeFacts DEF Unread
    <2>3. /\ stack' \in Seq(Entries)
          /\ Len(stack) > 1 => stack' # <<>> /\ Head(stack') = stack[2]
          /\ Len(stack) = 1 => stack' = <<>>
          /\ AllPlaced' /\ AllProgress' /\ Read' /\ Unread'
      BY <1>1, <1>3, <2>1, <2>2, ReturnStep
    <2>4. ~ In("cnf_get", "read_all_cnf")'
      <3> SUFFICES ASSUME stack' # <<>> PROVE Head(stack').fn # "cnf_get"
        BY DEF In
      <3>1. Len(stack) \in Nat /\ Len(stack) # 0 /\ Len(stack) # 1
        BY <1>1, <2>3, SomeFacts, EmptySeq
      <3>2. Len(stack) > 1
        BY <3>1, Small, Zenon
      <3>3. stack[2].fn = "search"
        BY <1>2, <1>3, <3>2 DEF Placed
      <3> QED  BY <2>3, <3>2, <3>3
    <2>5. Settled'
      BY <1>1, <2>1, <2>4, SomeFacts DEF Settled
    <2> QED  BY <1>1, <2>1, <2>3, <2>5 DEF InitInv, LazyTypeOK, Entries, Earned, Logged
  <1>5. CASE ~ (reading \/ hash)
    <2>0. PICK g : g = [Head(stack) EXCEPT !.pc = "read_all_cnf"]
      OBVIOUS
    <2>1. hash' = TRUE /\ reading' = TRUE /\ stack' = Become(<<Search(CnfPath, TRUE), g>>)
      BY <1>5, <2>0 DEF Enter
    <2>2. g \in Getting /\ g.pc = "read_all_cnf" /\ g.fn = "cnf_get"
      BY <1>2, <2>0 DEF Getting
    <2>3. Getter(g) /\ Which(g) = CnfPath
      BY <2>2 DEF Getter, Which
    <2>4. Len(stack) = 1 \/ (Len(stack) = 2 /\ stack[2] = Search(UserPath, FALSE))
      BY <1>1, <1>5, BeforeReading
    <2>5. ~followup /\ ~opened
      BY <1>5, SomeFacts DEF Unread
    <2>6. /\ stack' \in Seq(Entries)
          /\ stack' # <<>> /\ Head(stack').fn = "search"
          /\ AllPlaced' /\ AllProgress' /\ Unread'
          /\ (\E i \in DOMAIN stack' : Reads(stack'[i])) <=> g.pc = "read_all_cnf"
      BY <1>1, <1>2, <2>1, <2>2, <2>3, <2>4, <2>5, CallStep
    <2>7. Read'
      BY <2>1, <2>2, <2>6 DEF Read, Reads
    <2>8. Settled'
      BY <2>1, <2>6 DEF Settled, In
    <2> QED  BY <1>1, <2>1, <2>5, <2>6, <2>7, <2>8 DEF InitInv, LazyTypeOK, Entries, Earned, Logged
  <1> QED  BY <1>4, <1>5

\* A cnf_get that reads is at the bottom, or over what waits for it.
LEMMA GetterOnTop ==
    ASSUME InitInv, stack # <<>>, stack[1].fn = "cnf_get", stack[1].pc # "enter"
    PROVE  /\ Len(stack) = 1 \/ (Len(stack) = 2 /\ stack[2] = Search(UserPath, FALSE))
           /\ hash
           /\ stack[1].pc # "read_all_cnf" => ~reading
           /\ stack[1].pc = "read_all_cnf" => reading
  <1>1. Placed(1) /\ stack \in Seq(Entries) /\ Getter(stack[1]) /\ Read /\ reading \in BOOLEAN
    BY Innermost, SomeFacts DEF Getter
  <1>2. Len(stack) \in Nat /\ Len(stack) # 0 /\ DOMAIN stack = 1..Len(stack)
    BY <1>1, EmptySeq
  <1>3. 1 = Len(stack) \/ (1 + 1 = Len(stack) /\ stack[1 + 1] = Search(UserPath, FALSE))
    BY <1>1 DEF Placed
  <1>4. ~Reads(Search(UserPath, FALSE))
    BY Kinds DEF Reads
  <1>5. \A i \in DOMAIN stack : i = 1 \/ ~Reads(stack[i])
    <2>1. CASE 1 = Len(stack)
      BY <1>2, <2>1, Small, Zenon
    <2>2. CASE 1 + 1 = Len(stack) /\ stack[1 + 1] = Search(UserPath, FALSE)
      <3>1. \A i \in DOMAIN stack : i = 1 \/ i = 1 + 1
        BY <1>2, <2>2, Small, Zenon
      <3> QED  BY <1>4, <2>2, <3>1
    <2> QED  BY <1>3, <2>1, <2>2
  <1>6. reading <=> Reads(stack[1])
    BY <1>1, <1>2, <1>5 DEF Read
  <1>7. hash
    BY <1>1 DEF Placed
  <1>8. Len(stack) = 1 \/ (Len(stack) = 2 /\ stack[2] = Search(UserPath, FALSE))
    <2>1. 1 + 1 = 2
      OBVIOUS
    <2> QED  BY <1>3, <2>1, Zenon
  <1>9. Reads(stack[1]) <=> stack[1].pc = "read_all_cnf"
    BY DEF Reads
  <1> QED  BY <1>1, <1>6, <1>7, <1>8, <1>9

LEMMA DbKeeps ==
    ASSUME PathsAssumption, InitInv, InitDb \/ DbBuild
    PROVE  InitInv'
  <1>0. PICK g : /\ g \in {[Head(stack) EXCEPT !.pc = "init_db"], [Head(stack) EXCEPT !.pc = "aliases"]}
                 /\ stack' = Become(<<Search(DbPath, TRUE), g>>)
    BY DEF InitDb, DbBuild
  <1>1. /\ stack # <<>> /\ Head(stack).fn = "cnf_get" /\ Head(stack).pc \in {"read_all_cnf", "init_db"}
        /\ UNCHANGED <<has, environ, cnflog, iter, hash, cnf, followup, opened, logging, called>>
        /\ db' \in {db, TRUE}
        /\ reading' = FALSE \/ (reading' = reading /\ Head(stack).pc = "init_db")
        /\ Head(stack).pc = "init_db" => reading' = reading
    BY DEF InitDb, DbBuild, In, world
  <1>2. Head(stack) = stack[1] /\ stack[1] \in Getting
    BY <1>1, Innermost
  <1>3. g \in Getting /\ g.pc \in {"init_db", "aliases"} /\ g.fn = "cnf_get"
    <2>1. CASE g = [stack[1] EXCEPT !.pc = "init_db"]
      BY <1>2, <2>1 DEF Getting
    <2>2. CASE g = [stack[1] EXCEPT !.pc = "aliases"]
      BY <1>2, <2>2 DEF Getting
    <2> QED  BY <1>0, <1>2, <2>1, <2>2
  <1>4. Getter(g) /\ Which(g) = DbPath
    BY <1>3 DEF Getter, Which
  <1>5. /\ Len(stack) = 1 \/ (Len(stack) = 2 /\ stack[2] = Search(UserPath, FALSE))
        /\ hash
        /\ stack[1].pc = "init_db" => ~reading
        /\ stack[1].pc = "read_all_cnf" => reading
    BY <1>1, <1>2, GetterOnTop
  <1>6. ~reading' /\ reading' \in BOOLEAN
    <2>1. reading \in BOOLEAN
      BY SomeFacts
    <2>2. CASE reading' = FALSE
      BY <2>2
    <2>3. CASE reading' = reading /\ Head(stack).pc = "init_db"
      <3>1. ~reading
        BY <1>2, <1>5, <2>3
      <3> QED  BY <2>1, <2>3, <3>1
    <2> QED  BY <1>1, <2>2, <2>3
  <1>7. /\ stack' \in Seq(Entries)
        /\ stack' # <<>> /\ Head(stack').fn = "search"
        /\ AllPlaced' /\ AllProgress' /\ Unread'
        /\ (\E i \in DOMAIN stack' : Reads(stack'[i])) <=> g.pc = "read_all_cnf"
    BY <1>0, <1>1, <1>2, <1>3, <1>4, <1>5, <1>6, CallStep
  <1>8. Read'
    BY <1>3, <1>6, <1>7 DEF Read, Reads
  <1>9. Settled'
    <2>1. reading => In("cnf_get", "read_all_cnf")
      BY <1>1, <1>2, <1>5 DEF In
    <2> QED  BY <1>1, <1>5, <2>1, SomeFacts DEF Settled
  <1>10. Logged' /\ Earned' /\ db' \in BOOLEAN
    BY <1>1, <1>6, SomeFacts DEF Logged, Earned
  <1> QED  BY <1>1, <1>6, <1>7, <1>8, <1>9, <1>10 DEF InitInv, LazyTypeOK, Entries

LEMMA AliasBuildKeeps ==
    ASSUME InitInv, AliasBuild
    PROVE  InitInv'
  <1>1. /\ stack # <<>> /\ Head(stack).fn = "cnf_get" /\ Head(stack).pc = "aliases"
        /\ stack' = Become(<<>>)
        /\ UNCHANGED <<has, environ, cnflog, iter, hash, reading, cnf, db, followup, opened,
                      logging, called>>
    BY DEF AliasBuild, In, world
  <1>2. Head(stack) = stack[1] /\ stack[1] \in Getting
    BY <1>1, Innermost
  <1>3. hash /\ ~reading /\ ~Reads(stack[1])
    BY <1>1, <1>2, GetterOnTop DEF Reads
  <1>4. /\ stack' \in Seq(Entries)
        /\ AllPlaced' /\ AllProgress' /\ Read' /\ Unread'
    BY <1>1, <1>3, ReturnStep
  <1>5. Settled'
    BY <1>1, <1>3, SomeFacts DEF Settled
  <1> QED  BY <1>1, <1>4, <1>5 DEF InitInv, LazyTypeOK, Entries, Earned, Logged

\* The program's first call is not a search of its own.
LEMMA CallKeeps ==
    ASSUME PathsAssumption, "path_search" \notin FirstCalls, InitInv,
           NEW fn \in Calls, Call(fn)
    PROVE  InitInv'
  <1> DEFINE u == Search(UserPath, FALSE)
  <1>1. /\ stack = <<>> /\ called' = TRUE
        /\ fn = "path_search" => called /\ stack' = <<u>>
        /\ fn = "find_file" => stack' = <<CnfGetCall, u>>
        /\ fn = "var_value" => stack' = <<CnfGetCall>>
        /\ fn \in {"path_search", "find_file", "var_value"}
        /\ UNCHANGED <<has, environ, cnflog, iter, hash, reading, cnf, db, followup, opened, logging>>
    BY DEF Call, Calls, world
  <1>2. fn = "path_search" => hash
    BY <1>1, SomeFacts DEF Unread
  <1>3. /\ u \in Searching /\ u.pc = "start" /\ u.path = UserPath /\ ~u.all /\ u.fn = "search"
        /\ u.tried = {} /\ ~u.found /\ ~Begun(u) /\ ~Reads(u) /\ ~Getter(u) /\ u # CnfGetCall
    BY Kinds DEF Reads, Getter
  <1>4. CnfGetCall \in Getting /\ CnfGetCall.fn = "cnf_get" /\ ~Getter(CnfGetCall) /\ ~Reads(CnfGetCall)
        /\ CnfGetCall.pc = "enter" /\ ~Begun(CnfGetCall)
    BY Kinds DEF Reads, Getter, Begun
  <1> HIDE DEF u
  <1>5. ~reading
    <2>1. ~ \E i \in DOMAIN stack : TRUE
      BY <1>1
    <2> QED  BY <2>1, SomeFacts DEF Read
  <1>6. /\ stack' \in Seq(Entries) /\ stack' # <<>> /\ Len(stack') \in {1, 2}
        /\ DOMAIN stack' = 1..Len(stack')
        /\ \A j \in DOMAIN stack' : \/ j = 1 /\ stack'[j] = CnfGetCall
                                    \/ j = Len(stack') /\ stack'[j] = u
        /\ Len(stack') = 2 => stack'[1] = CnfGetCall /\ stack'[2] = u
        /\ ~hash => stack'[1] = CnfGetCall
        /\ Head(stack') = stack'[1]
    <2>1. CASE fn = "path_search"
      <3>1. stack' = <<u>> /\ hash /\ u \in Entries
        BY <1>1, <1>2, <1>3, <2>1 DEF Entries
      <3> QED  BY <3>1
    <2>2. CASE fn = "find_file"
      <3>1. stack' = <<CnfGetCall, u>> /\ u \in Entries /\ CnfGetCall \in Entries
        BY <1>1, <1>3, <1>4, <2>2 DEF Entries
      <3>2. /\ Len(stack') = 2 /\ stack'[1] = CnfGetCall /\ stack'[2] = u
            /\ stack' \in Seq(Entries) /\ DOMAIN stack' = 1..2 /\ stack' # <<>>
        BY <3>1
      <3>3. \A j \in 1..2 : j = 1 \/ j = 2
        OBVIOUS
      <3>4. Head(stack') = stack'[1]
        BY <3>2
      <3> QED  BY <3>2, <3>3, <3>4
    <2>3. CASE fn = "var_value"
      <3>1. stack' = <<CnfGetCall>> /\ CnfGetCall \in Entries
        BY <1>1, <1>4, <2>3 DEF Entries
      <3>2. Len(stack') = 1 /\ stack'[1] = CnfGetCall /\ stack' \in Seq(Entries)
        BY <3>1
      <3> QED  BY <3>1, <3>2
    <2> QED  BY <1>1, <2>1, <2>2, <2>3
  <1>7. AllPlaced'
    <2> SUFFICES ASSUME NEW j \in DOMAIN stack' PROVE Placed(j)'
      BY DEF AllPlaced
    <2>1. CASE j = 1 /\ stack'[j] = CnfGetCall
      <3>1. Len(stack') > 1 => stack'[2].fn = "search"
        BY <1>3, <1>6
      <3> QED  BY <1>4, <2>1, <3>1 DEF Placed, Getter, Begun
    <2>2. CASE j = Len(stack') /\ stack'[j] = u
      BY <1>3, <2>2 DEF Placed, Getter, Begun
    <2> QED  BY <1>6, <2>1, <2>2
  <1>8. AllProgress'
    <2> SUFFICES ASSUME NEW j \in DOMAIN stack', NEW e, e = stack'[j], e.fn = "search"
                 PROVE  Progress(e)'
      BY DEF AllProgress, Progress
    <2>1. e = u
      BY <1>4, <1>6
    <2> QED  BY <1>1, <1>3, <1>5, <2>1 DEF Progress
  <1>9. Read'
    BY <1>1, <1>3, <1>4, <1>5, <1>6 DEF Read, Reads
  <1>10. Settled' /\ Unread'
    BY <1>1, <1>5, <1>6, SomeFacts DEF Settled, Unread
  <1> QED  BY <1>1, <1>6, <1>7, <1>8, <1>9, <1>10 DEF InitInv, LazyTypeOK, Entries, Earned, Logged

LEMMA InitStarts ==
    ASSUME PathsAssumption, LazyInit
    PROVE  InitInv
  <1>1. /\ has \in SUBSET Elements /\ environ \in SUBSET {"fold", "log"} /\ cnflog \in BOOLEAN
        /\ iter = Null /\ stack = <<>>
        /\ hash = FALSE /\ reading = FALSE /\ cnf = FALSE /\ db = FALSE
        /\ followup = FALSE /\ opened = FALSE /\ logging = FALSE /\ called = FALSE
    BY DEF LazyInit
  <1>2. DOMAIN stack = {} /\ stack \in Seq(Entries)
    BY <1>1
  <1>3. AllPlaced /\ AllProgress /\ Read
    BY <1>1, <1>2 DEF AllPlaced, AllProgress, Read
  <1>4. Settled /\ Earned /\ Unread /\ Logged
    BY <1>1 DEF Settled, Earned, Unread, Logged
  <1>5. iter # <<>>
    BY <1>1, EmptySeq DEF PathsAssumption
  <1> QED  BY <1>1, <1>2, <1>3, <1>4, <1>5 DEF InitInv, LazyTypeOK, Entries

LEMMA InitNext ==
    ASSUME PathsAssumption, "path_search" \notin FirstCalls, InitInv, [LazyNext]_(lazyVars)
    PROVE  InitInv'
  <1>1. CASE UNCHANGED lazyVars
    BY <1>1 DEF lazyVars, world, InitInv, LazyTypeOK, AllPlaced, AllProgress, Placed, Progress,
           LeftOf, Read, Settled, In, Earned, Unread, Logged
  <1>2. CASE LazyStep
    BY <1>2, BeginKeeps, ElementKeeps, LoopEndKeeps, EndKeeps, OpenLogKeeps, DoneKeeps,
       EnterKeeps, DbKeeps, AliasBuildKeeps DEF LazyStep
  <1>3. ASSUME NEW fn \in Calls, Call(fn) PROVE InitInv'
    BY <1>3, CallKeeps
  <1> QED  BY <1>1, <1>2, <1>3 DEF LazyNext

LEMMA InitAlways ==
    ASSUME PathsAssumption, "path_search" \notin FirstCalls
    PROVE  LazySpec => []InitInv
  <1>1. InitInv /\ [LazyNext]_(lazyVars) => InitInv'
    BY InitNext
  <1>2. LazyInit => InitInv
    BY InitStarts
  <1> QED  BY <1>1, <1>2, PTL DEF LazySpec

\* The state of the initialisation keeps its types.
THEOREM InitTypeCorrect ==
    ASSUME PathsAssumption, "path_search" \notin FirstCalls
    PROVE  LazySpec => []LazyTypeOK
  <1>1. InitInv => LazyTypeOK
    BY DEF InitInv
  <1> QED  BY <1>1, InitAlways, PTL

\* A search that finds nothing, or that collects everything, has looked in every
\* element of its path, though all loops share kpse->path (path-elt.c), unless
\* the program's first call is a search over a path of its own.
THEOREM WholePathTried ==
    ASSUME PathsAssumption, "path_search" \notin FirstCalls
    PROVE  LazySpec => []EveryElementTried
  <1>1. ASSUME InitInv PROVE EveryElementTried
    <2> SUFFICES ASSUME In("search", "done"), Head(stack).all \/ ~Head(stack).found
                 PROVE  Head(stack).tried = ToSet(Head(stack).path)
      BY DEF EveryElementTried
    <2>1. stack # <<>> /\ Head(stack).fn = "search" /\ Head(stack).pc = "done"
      BY DEF In
    <2>2. Head(stack) = stack[1] /\ Progress(stack[1])
      BY <1>1, <2>1, Innermost
    <2> QED  BY <2>1, <2>2 DEF Progress
  <1>2. InitInv => EveryElementTried
    BY <1>1
  <1> QED  BY <1>2, InitAlways, PTL

\* A TEXMFLOG in texmf.cnf is honoured: the log is not opened, for good, before
\* texmf.cnf has been read (log_search, pathsearch.c), with the same proviso.
THEOREM LogIsHonoured ==
    ASSUME PathsAssumption, "path_search" \notin FirstCalls
    PROVE  LazySpec => []LogHonoured
  <1>1. InitInv => LogHonoured
    BY DEF InitInv, Logged, LogHonoured
  <1> QED  BY <1>1, InitAlways, PTL

-----------------------------------------------------------------------------
(* VarExpand: the expansions in progress *)

Frames == [var : Variables \cup {<<>>}, rest : Strings]

\* A call that expands a variable has that variable marked, has a part of its
\* value still to come, and was made for a reference to it in the value that the
\* next outer call expands.  The outermost call expands the path element.
Framed(i) ==
    /\ i < Len(calls) =>
         /\ calls[i].var \in marks /\ value[calls[i].var] # Undefined
         /\ ToSet(calls[i].rest) \subseteq ToSet(value[calls[i].var])
         /\ \A j \in 1..i - 1 : calls[j].var # calls[i].var
    /\ i + 1 < Len(calls) => RefersTo(calls[i + 1].var, calls[i].var)

AllFramed == \A i \in 1..Len(calls) : Framed(i)

Marked == \A v \in marks : \E i \in 1..Len(calls) - 1 : calls[i].var = v

\* What is put out will not be expanded, however often it is looked at.
Final(t) == t # Text => value[t.var] = Undefined \/ t.var \in Recursive

ExpandInv ==
    /\ ExpansionTypeOK
    /\ AllFramed /\ Marked
    /\ \A i \in DOMAIN out : Final(out[i])
    /\ pc = "idle" => calls = <<>>

LEMMA Tokens ==
    ASSUME NEW r \in Strings, r # <<>>
    PROVE  /\ Tail(r) \in Strings /\ ToSet(Tail(r)) \subseteq ToSet(r)
           /\ Head(r) \in ToSet(r)
           /\ Head(r) \in References \cup {Text}
           /\ Head(r) # Text => Head(r).var \in Variables
  <1> DEFINE S == References \cup {Text}
  <1>1. r \in Seq(S)
    BY DEF Strings
  <1> HIDE DEF S
  <1>2. /\ Tail(r) \in Seq(S) /\ Len(Tail(r)) = Len(r) - 1
        /\ \A i \in 1..Len(r) - 1 : Tail(r)[i] = r[i + 1]
    BY <1>1, FirstDropped
  <1>3. Head(r) = r[1] /\ 1 \in DOMAIN r /\ r[1] \in S
    BY <1>1
  <1>4. ASSUME NEW x \in ToSet(Tail(r)) PROVE x \in ToSet(r)
    <2>1. PICK i \in DOMAIN Tail(r) : x = Tail(r)[i]
      BY <1>4 DEF ToSet
    <2>2. i \in 1..Len(r) - 1 /\ Len(r) \in Nat /\ DOMAIN r = 1..Len(r)
      BY <1>1, <1>2
    <2>3. i + 1 \in DOMAIN r /\ x = r[i + 1]
      BY <1>2, <2>1, <2>2
    <2> QED  BY <2>3 DEF ToSet
  <1>5. Head(r) \in ToSet(r)
    BY <1>3 DEF ToSet
  <1>6. Head(r) \in S
    BY <1>3
  <1> QED  BY <1>2, <1>4, <1>5, <1>6 DEF S, Strings, References

LEMMA ValueTyped ==
    ASSUME ValuesAssumption, ExpansionTypeOK, NEW v \in Variables, value[v] # Undefined
    PROVE  value[v] \in Strings
  BY DEF ValuesAssumption, ExpansionTypeOK

\* A variable whose value is being expanded and that is referred to again, by the
\* innermost of those values, refers to itself.
LEMMA MarkedRecursive ==
    ASSUME ExpansionTypeOK, AllFramed, Marked, NEW v \in marks, Ready, Token # Text, Token.var = v
    PROVE  v \in Recursive
  <1>1. calls \in Seq(Frames) /\ Len(calls) \in Nat /\ marks \subseteq Variables
    BY DEF ExpansionTypeOK, Frames
  <1>2. PICK k \in 1..Len(calls) - 1 : calls[k].var = v
    BY DEF Marked
  <1>3. \A i \in 1..Len(calls) - 1 :
          /\ i \in 1..Len(calls) /\ i < Len(calls)
          /\ calls[i].var \in Variables /\ value[calls[i].var] # Undefined
    BY <1>1 DEF AllFramed, Framed
  <1>4. 1 \in 1..Len(calls) - 1 /\ Head(calls) = calls[1]
    BY <1>1, <1>2
  <1>5. RefersTo(calls[1].var, v)
    <2>1. calls[1].rest \in Strings /\ calls[1].rest # <<>> /\ Token = Head(calls[1].rest)
      <3>1. calls[1] \in Frames /\ Head(calls).rest # <<>> /\ Token = Head(Head(calls).rest)
        BY <1>1, <1>4 DEF Ready, Token
      <3> QED  BY <1>4, <3>1 DEF Frames
    <2>2. Token \in ToSet(calls[1].rest)
      BY <2>1, Tokens
    <2>3. Token \in ToSet(value[calls[1].var])
      BY <1>3, <1>4, <2>2 DEF AllFramed, Framed
    <2> QED  BY <1>3, <1>4, <2>3 DEF RefersTo
  <1> SUFFICES ASSUME NEW S \in SUBSET Variables,
                      \A u \in S \cup {v} : \A w \in Variables : RefersTo(u, w) => w \in S
               PROVE  v \in S
    BY <1>1 DEF Recursive
  <1> DEFINE T == {n \in Nat : n < k => calls[k - n].var \in S \cup {v}}
             m == k - 1
  <1>6. 0 \in T
    BY <1>2
  <1>7. ASSUME NEW n \in 0..m, n \in T, n < m PROVE n + 1 \in T
    <2>1. k \in Nat /\ n \in Nat /\ n < k /\ k - n \in 1..Len(calls) - 1
          /\ k - (n + 1) \in 1..Len(calls) - 1 /\ (k - (n + 1)) + 1 = k - n
          /\ (k - (n + 1)) + 1 < Len(calls) /\ k - (n + 1) \in 1..Len(calls)
      BY <1>1, <1>2, <1>7
    <2>2. calls[k - n].var \in S \cup {v}
      BY <1>7, <2>1
    <2>3. RefersTo(calls[k - n].var, calls[k - (n + 1)].var)
      BY <2>1 DEF AllFramed, Framed
    <2>4. calls[k - (n + 1)].var \in Variables
      BY <1>3, <2>1
    <2>5. calls[k - (n + 1)].var \in S
      BY <2>2, <2>3, <2>4
    <2> QED  BY <2>1, <2>5
  <1>8. m \in Nat /\ m \in 0..m /\ m < k /\ k - m = 1
    BY <1>2
  <1> HIDE DEF T, m
  <1>9. \A n \in 0..m : n \in T
    BY <1>6, <1>7, <1>8, Upwards
  <1>10. calls[1].var \in S \cup {v}
    BY <1>8, <1>9 DEF T
  <1> QED  BY <1>1, <1>5, <1>10

\* The next token of the innermost call.
LEMMA NextToken ==
    ASSUME ExpandInv, Ready
    PROVE  /\ calls \in Seq(Frames) /\ calls # <<>> /\ Len(calls) \in Nat \ {0}
           /\ Head(calls) = calls[1] /\ calls[1] \in Frames
           /\ Token \in ToSet(calls[1].rest) /\ Token \in References \cup {Text}
           /\ Token # Text => Token.var \in Variables
           /\ ToSet(Tail(calls[1].rest)) \subseteq ToSet(calls[1].rest)
           /\ [calls[1] EXCEPT !.rest = Tail(@)] \in Frames
           /\ [calls[1] EXCEPT !.rest = Tail(@)].var = calls[1].var
           /\ [calls[1] EXCEPT !.rest = Tail(@)].rest = Tail(calls[1].rest)
  <1>1. calls \in Seq(Frames) /\ calls # <<>> /\ Head(calls).rest # <<>> /\ Token = Head(Head(calls).rest)
    BY DEF ExpandInv, ExpansionTypeOK, Ready, Token, Frames
  <1>2. Head(calls) = calls[1] /\ calls[1] \in Frames /\ Len(calls) \in Nat \ {0}
    BY <1>1, EmptySeq
  <1>3. calls[1].rest \in Strings /\ calls[1].rest # <<>> /\ Token = Head(calls[1].rest)
    BY <1>1, <1>2 DEF Frames
  <1>4. /\ Tail(calls[1].rest) \in Strings
        /\ ToSet(Tail(calls[1].rest)) \subseteq ToSet(calls[1].rest)
        /\ Token \in ToSet(calls[1].rest)
        /\ Token \in References \cup {Text}
        /\ Token # Text => Token.var \in Variables
    BY <1>3, Tokens
  <1> QED  BY <1>1, <1>2, <1>4 DEF Frames

\* The calls with the token consumed.
LEMMA ConsumedCalls ==
    ASSUME ExpandInv, Ready
    PROVE  /\ Consumed \in Seq(Frames) /\ Len(Consumed) = Len(calls)
           /\ \A i \in 1..Len(calls) : Consumed[i].var = calls[i].var
           /\ \A i \in 1..Len(calls) : ToSet(Consumed[i].rest) \subseteq ToSet(calls[i].rest)
  <1> DEFINE x == [calls[1] EXCEPT !.rest = Tail(@)]
  <1>1. /\ calls \in Seq(Frames) /\ calls # <<>> /\ Head(calls) = calls[1] /\ Len(calls) \in Nat \ {0}
        /\ x \in Frames /\ x.var = calls[1].var /\ x.rest = Tail(calls[1].rest)
        /\ ToSet(Tail(calls[1].rest)) \subseteq ToSet(calls[1].rest)
    BY NextToken
  <1>2. Consumed = <<x>> \o Tail(calls)
    BY <1>1 DEF Consumed
  <1> HIDE DEF x
  <1>3. /\ Consumed \in Seq(Frames) /\ Len(Consumed) = Len(calls) /\ Consumed[1] = x
        /\ \A i \in 2..Len(calls) : Consumed[i] = calls[i]
    BY <1>1, <1>2, FirstReplaced
  <1>4. \A i \in 1..Len(calls) : i = 1 \/ i \in 2..Len(calls)
    OBVIOUS
  <1> QED  BY <1>1, <1>3, <1>4

\* Consuming a token leaves the calls in order.
LEMMA ConsumeKeeps ==
    ASSUME ExpandInv, Ready, calls' = Consumed, UNCHANGED <<value, marks>>
    PROVE  AllFramed' /\ Marked'
  <1>1. /\ Len(calls') = Len(calls) /\ Len(calls) \in Nat
        /\ \A i \in 1..Len(calls) : calls'[i].var = calls[i].var
        /\ \A i \in 1..Len(calls) : ToSet(calls'[i].rest) \subseteq ToSet(calls[i].rest)
    BY ConsumedCalls, NextToken
  <1>2. AllFramed /\ Marked
    BY DEF ExpandInv
  <1>3. ASSUME NEW i \in 1..Len(calls) PROVE Framed(i)'
    <2>1. Framed(i)
      BY <1>2 DEF AllFramed
    <2>a. \A j \in 1..i - 1 : j \in 1..Len(calls)
      BY <1>1
    <2>2. calls'[i].var = calls[i].var /\ ToSet(calls'[i].rest) \subseteq ToSet(calls[i].rest)
          /\ \A j \in 1..i - 1 : calls'[j].var = calls[j].var
      BY <1>1, <2>a, Zenon
    <2>3. i + 1 < Len(calls) => calls'[i + 1].var = calls[i + 1].var
      BY <1>1
    <2>4. /\ i < Len(calls) =>
               /\ calls'[i].var \in marks /\ value[calls'[i].var] # Undefined
               /\ ToSet(calls'[i].rest) \subseteq ToSet(value[calls'[i].var])
               /\ \A j \in 1..i - 1 : calls'[j].var # calls'[i].var
          /\ i + 1 < Len(calls) => RefersTo(calls'[i + 1].var, calls'[i].var)
      BY <2>1, <2>2, <2>3 DEF Framed
    <2> QED  BY <1>1, <2>4 DEF Framed, RefersTo
  <1>4. Marked'
    BY <1>1, <1>2 DEF Marked
  <1> QED  BY <1>1, <1>3, <1>4 DEF AllFramed

LEMMA FinalKept ==
    ASSUME value' = value, NEW t, Final(t)
    PROVE  Final(t)'
  BY DEF Final, Recursive, RefersTo

\* One token more is put out, or none.
LEMMA OutKept ==
    ASSUME ExpandInv, value' = value,
           out' = out \/ \E t \in References \cup {Text} : Final(t) /\ out' = Append(out, t)
    PROVE  (\A i \in DOMAIN out : Final(out[i]))' /\ out' \in Strings
  <1>1. out \in Strings /\ \A i \in DOMAIN out : Final(out[i])
    BY DEF ExpandInv, ExpansionTypeOK
  <1>2. \A i \in DOMAIN out' : Final(out'[i])
    <2>1. CASE out' = out
      BY <1>1, <2>1
    <2>2. ASSUME NEW t \in References \cup {Text}, Final(t), out' = Append(out, t)
          PROVE  \A i \in DOMAIN out' : Final(out'[i])
      <3>1. \A i \in DOMAIN out' : (i \in DOMAIN out /\ out'[i] = out[i]) \/ out'[i] = t
        BY <1>1, <2>2 DEF Strings
      <3> QED  BY <1>1, <2>2, <3>1
    <2> QED  BY <2>1, <2>2
  <1>3. ASSUME NEW i \in DOMAIN out', NEW t, t = out'[i] PROVE Final(t)'
    BY <1>2, <1>3, FinalKept
  <1>4. (\A i \in DOMAIN out : Final(out[i]))'
    BY <1>3 DEF Final
  <1>5. out' \in Strings
    BY <1>1 DEF Strings
  <1> QED  BY <1>4, <1>5

LEMMA CopyKeeps ==
    ASSUME ExpandInv, Copy
    PROVE  ExpandInv'
  <1>1. /\ Ready /\ out' = Append(out, Text) /\ calls' = Consumed
        /\ UNCHANGED <<value, elt, marks, round, pc>> /\ Token = Text
    BY DEF Copy
  <1>2. AllFramed' /\ Marked'
    BY <1>1, ConsumeKeeps
  <1>3. Text \in References \cup {Text} /\ Final(Text)
    BY DEF Final
  <1>4. (\A i \in DOMAIN out : Final(out[i]))' /\ out' \in Strings
    <2>1. \E t \in References \cup {Text} : Final(t) /\ out' = Append(out, t)
      BY <1>1, <1>3
    <2> QED  BY <1>1, <2>1, OutKept
  <1>5. calls' \in Seq(Frames) /\ calls # <<>>
    BY <1>1, ConsumedCalls, NextToken
  <1> QED  BY <1>1, <1>2, <1>4, <1>5 DEF ExpandInv, ExpansionTypeOK, Frames

\* A reference that stays, or goes, without having been expanded.
LEMMA KeepKeeps ==
    ASSUME ExpandInv, Keep
    PROVE  ExpandInv'
  <1>1. /\ Ready /\ Token # Text /\ ~Expandable(Token.var) /\ calls' = Consumed
        /\ out' = out \/ out' = Append(out, Token)
        /\ UNCHANGED <<value, elt, marks, round, pc>>
    BY DEF Keep
  <1>2. AllFramed' /\ Marked'
    BY <1>1, ConsumeKeeps
  <1>3. Final(Token)
    <2>1. CASE value[Token.var] = Undefined
      BY <2>1 DEF Final
    <2>2. CASE Token.var \in marks
      <3>1. Token.var \in Recursive
        BY <1>1, <2>2, MarkedRecursive DEF ExpandInv
      <3> QED  BY <3>1 DEF Final
    <2> QED  BY <1>1, <2>1, <2>2 DEF Expandable
  <1>4. calls' \in Seq(Frames) /\ calls # <<>> /\ Token \in References \cup {Text}
    BY <1>1, ConsumedCalls, NextToken
  <1>5. (\A i \in DOMAIN out : Final(out[i]))' /\ out' \in Strings
    <2>1. out' = out \/ \E t \in References \cup {Text} : Final(t) /\ out' = Append(out, t)
      BY <1>1, <1>3, <1>4
    <2> QED  BY <1>1, <2>1, OutKept
  <1> QED  BY <1>1, <1>2, <1>4, <1>5 DEF ExpandInv, ExpansionTypeOK, Frames

\* A call more, for a variable that no other call expands.
LEMMA ExpandKeeps ==
    ASSUME ValuesAssumption, ExpandInv, Expand
    PROVE  ExpandInv'
  <1> DEFINE v == Token.var
             c == Consumed
             x == [var |-> v, rest |-> value[v]]
  <1>1. /\ Ready /\ Token # Text /\ v \notin marks /\ value[v] # Undefined
        /\ marks' = marks \cup {v} /\ calls' = <<x>> \o c
        /\ UNCHANGED <<value, elt, out, round, pc>>
    BY DEF Expand, Expandable
  <1>2. /\ c \in Seq(Frames) /\ Len(c) = Len(calls) /\ Len(calls) \in Nat \ {0}
        /\ \A i \in 1..Len(calls) : c[i].var = calls[i].var
        /\ \A i \in 1..Len(calls) : ToSet(c[i].rest) \subseteq ToSet(calls[i].rest)
        /\ v \in Variables /\ Token \in ToSet(calls[1].rest) /\ calls # <<>>
    BY <1>1, ConsumedCalls, NextToken
  <1>3. x \in Frames /\ x.var = v /\ x.rest = value[v]
    BY <1>1, <1>2, ValueTyped DEF ExpandInv, Frames
  <1>4. AllFramed /\ Marked /\ ExpansionTypeOK
    BY DEF ExpandInv
  <1> HIDE DEF x, c, v
  <1>5. /\ calls' \in Seq(Frames) /\ Len(calls') = Len(calls) + 1 /\ calls'[1] = x
        /\ \A i \in 1..Len(calls) : calls'[i + 1] = c[i]
    BY <1>1, <1>2, <1>3, FirstPushed
  <1>6. \A i \in 1..Len(calls) - 1 : i \in 1..Len(calls) /\ calls[i].var \in marks
    <2>1. \A i \in 1..Len(calls) - 1 : i \in 1..Len(calls) /\ i < Len(calls)
      BY <1>2
    <2> QED  BY <1>4, <2>1 DEF AllFramed, Framed
  <1>7. Framed(1)'
    <2>1. calls'[1].var \in marks' /\ value'[calls'[1].var] # Undefined
          /\ ToSet(calls'[1].rest) \subseteq ToSet(value'[calls'[1].var])
      BY <1>1, <1>3, <1>5
    <2>2. \A j \in 1..1 - 1 : FALSE
      OBVIOUS
    <2>3. ASSUME 1 + 1 < Len(calls') PROVE RefersTo(calls'[1 + 1].var, calls'[1].var)
      <3>1. 1 < Len(calls) /\ 1 \in 1..Len(calls) - 1 /\ 1 \in 1..Len(calls)
        BY <1>2, <1>5, <2>3
      <3>2. calls'[1 + 1].var = calls[1].var
        BY <1>2, <1>5, <3>1
      <3>3. /\ value[calls[1].var] # Undefined
            /\ ToSet(calls[1].rest) \subseteq ToSet(value[calls[1].var])
        BY <1>4, <3>1 DEF AllFramed, Framed
      <3>4. RefersTo(calls[1].var, v)
        BY <1>1, <1>2, <3>3 DEF RefersTo, v
      <3> QED  BY <1>3, <1>5, <3>2, <3>4
    <2> QED  BY <1>1, <2>1, <2>2, <2>3 DEF Framed, RefersTo
  <1>8. ASSUME NEW i \in 1..Len(calls) PROVE Framed(i + 1)'
    <2>1. Framed(i) /\ i \in Nat
      BY <1>4 DEF AllFramed
    <2>2. calls'[i + 1].var = calls[i].var /\ ToSet(calls'[i + 1].rest) \subseteq ToSet(calls[i].rest)
      BY <1>2, <1>5
    <2>3. ASSUME i + 1 < Len(calls')
          PROVE  /\ calls'[i + 1].var \in marks' /\ value[calls'[i + 1].var] # Undefined
                 /\ ToSet(calls'[i + 1].rest) \subseteq ToSet(value[calls'[i + 1].var])
                 /\ \A j \in 1..(i + 1) - 1 : calls'[j].var # calls'[i + 1].var
      <3>1. i < Len(calls) /\ i \in 1..Len(calls) - 1
        BY <1>2, <1>5, <2>3
      <3>2. /\ calls[i].var \in marks /\ value[calls[i].var] # Undefined
            /\ ToSet(calls[i].rest) \subseteq ToSet(value[calls[i].var])
            /\ \A j \in 1..i - 1 : calls[j].var # calls[i].var
        BY <2>1, <3>1 DEF Framed
      <3>3. ASSUME NEW j \in 1..(i + 1) - 1 PROVE calls'[j].var # calls[i].var
        <4>1. CASE j = 1
          BY <1>1, <1>3, <1>5, <3>2, <4>1
        <4>2. CASE j # 1
          <5>1. j - 1 \in 1..i - 1 /\ j - 1 \in 1..Len(calls) /\ (j - 1) + 1 = j
            BY <1>2, <4>2
          <5>2. calls'[(j - 1) + 1].var = calls[j - 1].var
            BY <1>2, <1>5, <5>1
          <5> QED  BY <3>2, <5>1, <5>2
        <4> QED  BY <4>1, <4>2
      <3> QED  BY <1>1, <2>2, <3>2, <3>3
    <2>4. ASSUME (i + 1) + 1 < Len(calls')
          PROVE  RefersTo(calls'[(i + 1) + 1].var, calls'[i + 1].var)
      <3>1. i + 1 < Len(calls) /\ i + 1 \in 1..Len(calls)
        BY <1>2, <1>5, <2>4
      <3>2. calls'[(i + 1) + 1].var = calls[i + 1].var
        BY <1>2, <1>5, <3>1
      <3> QED  BY <2>1, <2>2, <3>1, <3>2 DEF Framed
    <2> QED  BY <1>1, <2>3, <2>4 DEF Framed, RefersTo
  <1>9. AllFramed'
    <2>1. \A k \in 1..Len(calls') : k = 1 \/ (k - 1 \in 1..Len(calls) /\ (k - 1) + 1 = k)
      BY <1>2, <1>5
    <2> SUFFICES ASSUME NEW k \in 1..Len(calls') PROVE Framed(k)'
      BY DEF AllFramed
    <2>2. CASE k = 1
      BY <1>7, <2>2
    <2>3. CASE k - 1 \in 1..Len(calls) /\ (k - 1) + 1 = k
      <3>1. Framed((k - 1) + 1)'
        BY <1>8, <2>3
      <3> QED  BY <2>3, <3>1
    <2> QED  BY <2>1, <2>2, <2>3
  <1>10. Marked'
    <2> SUFFICES ASSUME NEW w \in marks' PROVE \E i \in 1..Len(calls') - 1 : calls'[i].var = w
      BY DEF Marked
    <2>1. CASE w = v
      <3>1. 1 \in 1..Len(calls') - 1
        BY <1>2, <1>5
      <3> QED  BY <1>3, <1>5, <2>1, <3>1
    <2>2. CASE w \in marks
      <3>1. PICK i \in 1..Len(calls) - 1 : calls[i].var = w
        BY <1>4, <2>2 DEF Marked
      <3>2. i + 1 \in 1..Len(calls') - 1 /\ i \in 1..Len(calls)
        BY <1>2, <1>5
      <3>3. calls'[i + 1].var = w
        BY <1>2, <1>5, <3>1, <3>2
      <3> QED  BY <3>2, <3>3
    <2> QED  BY <1>1, <2>1, <2>2
  <1>11. (\A i \in DOMAIN out : Final(out[i]))'
    BY <1>1, OutKept
  <1>12. marks' \subseteq Variables /\ (pc' = "idle" => calls' = <<>>)
    BY <1>1, <1>2 DEF ExpandInv, ExpansionTypeOK
  <1> QED  BY <1>1, <1>4, <1>5, <1>9, <1>10, <1>11, <1>12 DEF ExpandInv, ExpansionTypeOK, Frames

\* The innermost call returns, and its variable, which no other one expands, is
\* free again.
LEMMA LeaveKeeps ==
    ASSUME ExpandInv, Leave
    PROVE  ExpandInv'
  <1>1. /\ Len(calls) > 1 /\ marks' = marks \ {Head(calls).var} /\ calls' = Tail(calls)
        /\ UNCHANGED <<value, elt, out, round, pc>>
    BY DEF Leave
  <1>2. calls \in Seq(Frames) /\ calls # <<>> /\ Len(calls) \in Nat /\ Head(calls) = calls[1]
    <2>1. calls \in Seq(Frames)
      BY DEF ExpandInv, ExpansionTypeOK, Frames
    <2> QED  BY <1>1, <2>1
  <1>3. /\ calls' \in Seq(Frames) /\ Len(calls') = Len(calls) - 1
        /\ \A i \in 1..Len(calls) - 1 : calls'[i] = calls[i + 1]
    BY <1>1, <1>2, FirstDropped
  <1>4. AllFramed /\ Marked
    BY DEF ExpandInv
  <1>5. ASSUME NEW i \in 1..Len(calls') PROVE Framed(i)'
    <2>1. i \in Nat /\ i \in 1..Len(calls) - 1 /\ i + 1 \in 1..Len(calls) /\ calls'[i] = calls[i + 1]
      BY <1>2, <1>3
    <2>2. Framed(i + 1)
      BY <1>4, <2>1 DEF AllFramed
    <2>3. ASSUME i < Len(calls')
          PROVE  /\ calls'[i].var \in marks' /\ value[calls'[i].var] # Undefined
                 /\ ToSet(calls'[i].rest) \subseteq ToSet(value[calls'[i].var])
                 /\ \A j \in 1..i - 1 : calls'[j].var # calls'[i].var
      <3>1. i + 1 < Len(calls)
        BY <1>2, <1>3, <2>1, <2>3
      <3>2. /\ calls[i + 1].var \in marks /\ value[calls[i + 1].var] # Undefined
            /\ ToSet(calls[i + 1].rest) \subseteq ToSet(value[calls[i + 1].var])
            /\ \A j \in 1..(i + 1) - 1 : calls[j].var # calls[i + 1].var
        BY <2>2, <3>1 DEF Framed
      <3>3. calls[1].var # calls[i + 1].var
        <4>1. 1 \in 1..(i + 1) - 1
          BY <2>1
        <4> QED  BY <3>2, <4>1
      <3>4. ASSUME NEW j \in 1..i - 1 PROVE calls'[j].var # calls[i + 1].var
        <4>1. j + 1 \in 1..(i + 1) - 1 /\ j \in 1..Len(calls) - 1
          BY <1>2, <2>1
        <4>2. calls'[j] = calls[j + 1]
          BY <1>3, <4>1
        <4> QED  BY <3>2, <4>1, <4>2
      <3> QED  BY <1>1, <1>2, <2>1, <3>2, <3>3, <3>4
    <2>4. ASSUME i + 1 < Len(calls') PROVE RefersTo(calls'[i + 1].var, calls'[i].var)
      <3>1. (i + 1) + 1 < Len(calls) /\ i + 1 \in 1..Len(calls) - 1
        BY <1>2, <1>3, <2>1, <2>4
      <3>2. calls'[i + 1] = calls[(i + 1) + 1]
        BY <1>3, <3>1
      <3> QED  BY <2>1, <2>2, <3>1, <3>2 DEF Framed
    <2> QED  BY <1>1, <2>3, <2>4 DEF Framed, RefersTo
  <1>6. ASSUME NEW w \in marks' PROVE \E i \in 1..Len(calls') - 1 : calls'[i].var = w
    <2>1. PICK i \in 1..Len(calls) - 1 : calls[i].var = w
      BY <1>1, <1>4 DEF Marked
    <2>2. i # 1
      BY <1>1, <1>2, <2>1
    <2>3. i - 1 \in 1..Len(calls') - 1 /\ i - 1 \in 1..Len(calls) - 1 /\ (i - 1) + 1 = i
      BY <1>2, <1>3, <2>2
    <2>4. calls'[i - 1] = calls[i]
      BY <1>3, <2>3
    <2> QED  BY <2>1, <2>3, <2>4
  <1>7. AllFramed' /\ Marked'
    BY <1>5, <1>6 DEF AllFramed, Marked
  <1>8. (\A i \in DOMAIN out : Final(out[i]))'
    BY <1>1, OutKept
  <1>9. marks' \subseteq Variables /\ (pc' = "idle" => calls' = <<>>)
    BY <1>1, <1>2 DEF ExpandInv, ExpansionTypeOK
  <1> QED  BY <1>1, <1>3, <1>7, <1>8, <1>9 DEF ExpandInv, ExpansionTypeOK, Frames

\* No variable is marked when only the path element is being expanded.
LEMMA NoneMarked ==
    ASSUME ExpandInv, calls = <<>> \/ Len(calls) = 1
    PROVE  marks = {}
  <1>1. \A i \in 1..Len(calls) - 1 : FALSE
    <2>1. CASE calls = <<>>
      <3>1. Len(calls) = 0
        BY <2>1
      <3> QED  BY <3>1
    <2>2. CASE Len(calls) = 1
      BY <2>2
    <2> QED  BY <2>1, <2>2
  <1> QED  BY <1>1 DEF ExpandInv, Marked

LEMMA ExpandingKeeps ==
    ASSUME ExpandInv, calls = <<>> \/ Len(calls) = 1, NEW s \in Strings, Expanding(s),
           UNCHANGED <<value, marks>>, round' \in 0..MaxRounds, pc' = "expand"
    PROVE  ExpandInv'
  <1>1. /\ calls' = <<[var |-> <<>>, rest |-> s]>> /\ elt' = s /\ out' = <<>>
    BY DEF Expanding
  <1>2. [var |-> <<>>, rest |-> s] \in Frames
    BY DEF Frames
  <1>3. calls' \in Seq(Frames) /\ Len(calls') = 1
    BY <1>1, <1>2
  <1>4. marks' = {} /\ marks' \subseteq Variables
    BY NoneMarked
  <1>5. Marked'
    BY <1>4 DEF Marked
  <1>6. \A i \in 1..1 : i = 1
    OBVIOUS
  <1>7. AllFramed'
    BY <1>3, <1>6 DEF AllFramed, Framed
  <1>8. DOMAIN out' = {} /\ out' \in Strings
    BY <1>1 DEF Strings
  <1>9. (\A i \in DOMAIN out : Final(out[i]))'
    BY <1>8
  <1>10. value' \in [Variables -> Values \cup {Undefined}]
    BY DEF ExpandInv, ExpansionTypeOK
  <1> QED  BY <1>1, <1>3, <1>4, <1>5, <1>7, <1>8, <1>9, <1>10 DEF ExpandInv, ExpansionTypeOK, Frames

LEMMA StartKeeps ==
    ASSUME ValuesAssumption, ExpandInv, NEW s \in PathElements, Start(s)
    PROVE  ExpandInv'
  <1>1. Expanding(s) /\ round' = 1 /\ pc' = "expand" /\ UNCHANGED <<value, marks>> /\ pc = "idle"
    BY DEF Start
  <1>2. s \in Strings /\ 1 \in 0..MaxRounds
    BY DEF ValuesAssumption
  <1>3. calls = <<>>
    BY <1>1 DEF ExpandInv
  <1> QED  BY <1>1, <1>2, <1>3, ExpandingKeeps

LEMMA AgainKeeps ==
    ASSUME ValuesAssumption, ExpandInv, Again
    PROVE  ExpandInv'
  <1>1. /\ Expanding(out) /\ round' = round + 1 /\ UNCHANGED <<value, marks, pc>>
        /\ round < MaxRounds /\ Len(calls) = 1
    BY DEF Again, Expanded
  <1>2. out \in Strings /\ round \in 0..MaxRounds /\ pc \in {"idle", "expand"}
    BY DEF ExpandInv, ExpansionTypeOK
  <1>3. round' \in 0..MaxRounds
    BY <1>1, <1>2 DEF ValuesAssumption
  <1>4. pc' = "expand"
    <2>1. pc # "idle"
      <3>1. calls # <<>>
        BY <1>1
      <3> QED  BY <3>1 DEF ExpandInv
    <2> QED  BY <1>1, <1>2, <2>1
  <1> QED  BY <1>1, <1>2, <1>3, <1>4, ExpandingKeeps

LEMMA ReturnKeeps ==
    ASSUME ValuesAssumption, ExpandInv, Return
    PROVE  ExpandInv'
  <1>1. /\ calls' = <<>> /\ pc' = "idle" /\ round' = 0 /\ elt' = <<>> /\ out' = <<>>
        /\ UNCHANGED <<value, marks>> /\ Len(calls) = 1
    BY DEF Return, Expanded
  <1>2. marks' = {} /\ marks' \subseteq Variables
    BY <1>1, NoneMarked
  <1>3. Marked'
    BY <1>2 DEF Marked
  <1>4. Len(calls') = 0 /\ calls' \in Seq(Frames) /\ DOMAIN out' = {} /\ out' \in Strings
        /\ elt' \in Strings
    BY <1>1 DEF Strings
  <1>5. AllFramed'
    BY <1>4 DEF AllFramed
  <1>6. (\A i \in DOMAIN out : Final(out[i]))'
    BY <1>4
  <1>7. value' \in [Variables -> Values \cup {Undefined}] /\ 0 \in 0..MaxRounds
    BY <1>1 DEF ExpandInv, ExpansionTypeOK, ValuesAssumption
  <1> QED  BY <1>1, <1>2, <1>3, <1>4, <1>5, <1>6, <1>7 DEF ExpandInv, ExpansionTypeOK, Frames

LEMMA ExpandStarts ==
    ASSUME ValuesAssumption, ExpansionInit
    PROVE  ExpandInv
  <1>1. /\ value \in [Variables -> Values \cup {Undefined}]
        /\ elt = <<>> /\ calls = <<>> /\ marks = {} /\ out = <<>> /\ round = 0 /\ pc = "idle"
    BY DEF ExpansionInit
  <1>2. Len(calls) = 0 /\ calls \in Seq(Frames) /\ DOMAIN out = {} /\ out \in Strings
        /\ elt \in Strings /\ 0 \in 0..MaxRounds
    BY <1>1 DEF Strings, ValuesAssumption
  <1>3. AllFramed /\ Marked
    BY <1>1, <1>2 DEF AllFramed, Marked
  <1> QED  BY <1>1, <1>2, <1>3 DEF ExpandInv, ExpansionTypeOK, Frames

LEMMA ExpandNext ==
    ASSUME ValuesAssumption, ExpandInv, [ExpansionNext]_(expansionVars)
    PROVE  ExpandInv'
  <1>1. CASE UNCHANGED expansionVars
    <2>1. UNCHANGED <<value, elt, calls, marks, out, round, pc>>
      BY <1>1 DEF expansionVars
    <2>2. AllFramed' /\ Marked'
      <3>1. AllFramed'
        <4>1. \A v, w : RefersTo(v, w)' <=> RefersTo(v, w)
          BY <2>1 DEF RefersTo
        <4>2. AllFramed
          BY DEF ExpandInv
        <4> SUFFICES ASSUME NEW i \in 1..Len(calls) PROVE Framed(i)'
          BY <2>1 DEF AllFramed
        <4>3. Framed(i)
          BY <4>2 DEF AllFramed
        <4> QED  BY <2>1, <4>1, <4>3 DEF Framed
      <3>2. Marked'
        BY <2>1 DEF ExpandInv, Marked
      <3> QED  BY <3>1, <3>2
    <2>3. (\A i \in DOMAIN out : Final(out[i]))'
      BY <2>1, OutKept
    <2> QED  BY <2>1, <2>2, <2>3 DEF ExpandInv, ExpansionTypeOK
  <1>2. CASE ExpansionStep
    BY <1>2, CopyKeeps, ExpandKeeps, KeepKeeps, LeaveKeeps, AgainKeeps, ReturnKeeps DEF ExpansionStep
  <1>3. ASSUME NEW s \in PathElements, Start(s) PROVE ExpandInv'
    BY <1>3, StartKeeps
  <1> QED  BY <1>1, <1>2, <1>3 DEF ExpansionNext

LEMMA ExpandAlways ==
    ASSUME ValuesAssumption
    PROVE  ExpansionSpec => []ExpandInv
  <1>1. ExpandInv /\ [ExpansionNext]_(expansionVars) => ExpandInv'
    BY ExpandNext
  <1>2. ExpansionInit => ExpandInv
    BY ExpandStarts
  <1> QED  BY <1>1, <1>2, PTL DEF ExpansionSpec

\* The state of the expansion keeps its types.
THEOREM ExpandTypeCorrect ==
    ASSUME ValuesAssumption
    PROVE  ExpansionSpec => []ExpansionTypeOK
  <1>1. ExpandInv => ExpansionTypeOK
    BY DEF ExpandInv
  <1> QED  BY <1>1, ExpandAlways, PTL

\* What an expansion leaves of references is undefined or recursive: the marks
\* that end the expansion of a variable that refers to itself stop no other
\* (expanding_p, variable.c).
THEOREM OnlyRecursiveLeft ==
    ASSUME ValuesAssumption
    PROVE  ExpansionSpec => []FullyExpanded
  <1>1. ASSUME ExpandInv PROVE FullyExpanded
    <2> SUFFICES ASSUME NEW t \in ToSet(out), t # Text
                 PROVE  value[t.var] = Undefined \/ t.var \in Recursive
      BY DEF FullyExpanded
    <2>1. PICK i \in DOMAIN out : t = out[i]
      BY DEF ToSet
    <2>2. Final(out[i])
      BY <1>1 DEF ExpandInv
    <2> QED  BY <2>1, <2>2 DEF Final
  <1>2. ExpandInv => FullyExpanded
    BY <1>1
  <1> QED  BY <1>2, ExpandAlways, PTL

=============================================================================
