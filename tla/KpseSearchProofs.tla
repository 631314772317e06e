--------------------------- MODULE KpseSearchProofs ---------------------------
(***************************************************************************)
(* Proofs about KpseSearch, for any path, names, databases and queries, and *)
(* whatever other programs do meanwhile: what is returned is real, the      *)
(* first element of the path wins, nothing that is there is made again, and *)
(* a search for all files misses none.                                      *)
(***************************************************************************)
EXTENDS KpseSearch, SequenceTheorems, WellFoundedInduction, TLAPS

-----------------------------------------------------------------------------
(* Recursion and lists of lists *)

\* The order of the natural numbers, as a set of pairs.
Less == {x \in Nat \X Nat : x[1] < x[2]}

\* A set of natural numbers that is not empty has a least element.
LEMMA Least ==
    ASSUME NEW T \in SUBSET Nat, T # {}
    PROVE  \E x \in T : \A y \in T : x <= y
  <1>1. Less \cap (Nat \X Nat) \subseteq OpToRel(<, Nat)
    BY DEF Less, OpToRel
  <1>2. IsWellFoundedOn(Less, Nat)
    BY <1>1, NatLessThanWellFounded, IsWellFoundedOnSubrelation
  <1>3. PICK x \in T : \A y \in T : ~ (<<y, x>> \in Less)
    BY <1>2, WFMin
  <1>4. ASSUME NEW y \in T PROVE x <= y
    <2>1. x \in Nat /\ y \in Nat /\ ~ (<<y, x>> \in Less)
      BY <1>3
    <2> QED  BY <2>1 DEF Less
  <1> QED  BY <1>4

\* A set of numbers that has 0, and with each number the next one, has them all.
LEMMA Upwards ==
    ASSUME NEW n \in Nat, NEW T, 0 \in T, \A i \in 0..n : i \in T /\ i < n => i + 1 \in T
    PROVE  \A i \in 0..n : i \in T
  <1> DEFINE B == {i \in 0..n : i \notin T}
  <1> SUFFICES ASSUME B # {} PROVE FALSE
    OBVIOUS
  <1>1. PICK m \in B : \A k \in B : m <= k
    <2>1. B \in SUBSET Nat
      OBVIOUS
    <2> HIDE DEF B
    <2> QED  BY <2>1, Least
  <1>2. m # 0 /\ m \in 1..n
    BY <1>1
  <1>3. m - 1 \in 0..n /\ m - 1 < n /\ ~ (m <= m - 1)
    BY <1>2
  <1>4. m - 1 \in T
    BY <1>1, <1>3
  <1>5. m - 1 + 1 = m
    BY <1>2
  <1> QED  BY <1>1, <1>3, <1>4, <1>5

\* The function f starts with a and takes the steps of G.
Steps(f, n, a, G) == \A i \in 0..n : f[i] = IF i = 0 THEN a ELSE G[i][f[i - 1]]

\* There is one for every start and all steps.
LEMMA Recursion ==
    ASSUME NEW n \in Nat, NEW S, NEW a \in S, NEW G \in [1..n -> [S -> S]]
    PROVE  \E f \in [0..n -> S] : Steps(f, n, a, G)
  <1> DEFINE T == {m \in 0..n : \E f \in [0..m -> S] :
                      \A i \in 0..m : f[i] = IF i = 0 THEN a ELSE G[i][f[i - 1]]}
  <1>1. 0 \in T
    <2> DEFINE f == [i \in 0..0 |-> a]
    <2>1. f \in [0..0 -> S] /\ \A i \in 0..0 : f[i] = IF i = 0 THEN a ELSE G[i][f[i - 1]]
      <3>1. \A i \in 0..0 : i = 0 /\ f[i] = a
        OBVIOUS
      <3>2. f \in [0..0 -> S]
        OBVIOUS
      <3> HIDE DEF f
      <3> QED  BY <3>1, <3>2
    <2> HIDE DEF f
    <2>2. 0 \in 0..n
      OBVIOUS
    <2> QED  BY <2>1, <2>2
  <1>2. ASSUME NEW m \in 0..n, m \in T, m < n PROVE m + 1 \in T
    <2>1. PICK f \in [0..m -> S] : \A i \in 0..m : f[i] = IF i = 0 THEN a ELSE G[i][f[i - 1]]
      BY <1>2
    <2> DEFINE g == [i \in 0..m + 1 |-> IF i = m + 1 THEN G[i][f[m]] ELSE f[i]]
    <2>2. m + 1 \in 1..n /\ m \in 0..m /\ f[m] \in S
      BY <1>2
    <2>3. G[m + 1][f[m]] \in S
      BY <2>2
    <2>4. g \in [0..m + 1 -> S]
      BY <2>3
    <2>5. ASSUME NEW i \in 0..m + 1 PROVE g[i] = IF i = 0 THEN a ELSE G[i][g[i - 1]]
      <3>1. CASE i = m + 1
        <4>1. i - 1 = m /\ i # 0 /\ m # m + 1 /\ m \in 0..m + 1
          BY <2>2, <3>1
        <4> QED  BY <3>1, <4>1
      <3>2. CASE i # m + 1
        <4>1. i \in 0..m /\ (i # 0 => i - 1 \in 0..m /\ i - 1 # m + 1 /\ i - 1 \in 0..m + 1)
          BY <2>2, <3>2
        <4> QED  BY <2>1, <3>2, <4>1
      <3> QED  BY <3>1, <3>2
    <2> HIDE DEF g
    <2> QED  BY <2>2, <2>4, <2>5
  <1> HIDE DEF T
  <1>3. \A i \in 0..n : i \in T /\ i < n => i + 1 \in T
    BY <1>2
  <1>4. \A i \in 0..n : i \in T
    BY <1>1, <1>3, Upwards
  <1>5. n \in T
    BY <1>4
  <1> QED  BY <1>5 DEF T, Steps

\* What is in two lists, one after the other.
LEMMA ConcatIsUnion ==
    \A S : \A s, t \in Seq(S) : ToSet(s \o t) = ToSet(s) \cup ToSet(t)
  <1> SUFFICES ASSUME NEW S, NEW s \in Seq(S), NEW t \in Seq(S)
               PROVE  ToSet(s \o t) = ToSet(s) \cup ToSet(t)
    OBVIOUS
  <1>1. /\ Len(s \o t) = Len(s) + Len(t) /\ Len(s) \in Nat /\ Len(t) \in Nat
        /\ DOMAIN (s \o t) = 1..Len(s) + Len(t) /\ DOMAIN s = 1..Len(s) /\ DOMAIN t = 1..Len(t)
        /\ \A i \in 1..Len(s) + Len(t) : (s \o t)[i] = IF i <= Len(s) THEN s[i] ELSE t[i - Len(s)]
    OBVIOUS
  <1>2. ASSUME NEW x \in ToSet(s \o t) PROVE x \in ToSet(s) \cup ToSet(t)
    <2>1. PICK i \in 1..Len(s) + Len(t) : x = (s \o t)[i]
      BY <1>1 DEF ToSet
    <2>2. IF i <= Len(s) THEN i \in 1..Len(s) ELSE i - Len(s) \in 1..Len(t)
      BY <1>1
    <2> QED  BY <1>1, <2>1, <2>2 DEF ToSet
  <1>3. ASSUME NEW x \in ToSet(s) PROVE x \in ToSet(s \o t)
    <2>1. PICK i \in 1..Len(s) : x = s[i]
      BY DEF ToSet
    <2>2. i \in 1..Len(s) + Len(t) /\ i <= Len(s)
      BY <1>1
    <2> QED  BY <1>1, <2>1, <2>2 DEF ToSet
  <1>4. ASSUME NEW x \in ToSet(t) PROVE x \in ToSet(s \o t)
    <2>1. PICK i \in 1..Len(t) : x = t[i]
      BY DEF ToSet
    <2>2. Len(s) + i \in 1..Len(s) + Len(t) /\ ~ (Len(s) + i <= Len(s)) /\ Len(s) + i - Len(s) = i
      BY <1>1
    <2> QED  BY <1>1, <2>1, <2>2 DEF ToSet
  <1> QED  BY <1>2, <1>3, <1>4

\* What is in some lists put together.
LEMMA Flattened ==
    ASSUME NEW S, NEW ss \in Seq(Seq(S))
    PROVE  /\ FlattenSeq(ss) \in Seq(S)
           /\ ToSet(FlattenSeq(ss)) = UNION {ToSet(ss[k]) : k \in DOMAIN ss}
  <1> DEFINE n == Len(ss)
  <1>1. n \in Nat /\ DOMAIN ss = 1..n /\ \A k \in 1..n : ss[k] \in Seq(S)
    OBVIOUS
  <1>2. CASE n = 0
    <2>1. FlattenSeq(ss) = ss /\ ss = <<>>
      BY <1>2, EmptySeq DEF FlattenSeq
    <2> QED  BY <2>1 DEF ToSet
  <1>3. CASE n # 0
    <2> DEFINE flat == CHOOSE g : g = [i \in 1..n |-> IF i = 1 THEN ss[i] ELSE g[i - 1] \o ss[i]]
    <2>1. FlattenSeq(ss) = flat[n]
      BY <1>3 DEF FlattenSeq
    <2> HIDE DEF n
    <2>2. PICK h \in [0..n - 1 -> Seq(S)] :
             \A i \in 0..n - 1 : h[i] = IF i = 0 THEN ss[1] ELSE h[i - 1] \o ss[i + 1]
      <3> DEFINE G == [i \in 1..n - 1 |-> [s \in Seq(S) |-> s \o ss[i + 1]]]
      <3>1. n - 1 \in Nat /\ ss[1] \in Seq(S)
        BY <1>1, <1>3
      <3>2. G \in [1..n - 1 -> [Seq(S) -> Seq(S)]]
        <4>1. \A i \in 1..n - 1 : i + 1 \in 1..n
          BY <1>1
        <4>2. \A s, t \in Seq(S) : s \o t \in Seq(S)
          OBVIOUS
        <4> QED  BY <1>1, <4>1, <4>2
      <3>3. \A i \in 1..n - 1, s \in Seq(S) : G[i][s] = s \o ss[i + 1]
        OBVIOUS
      <3> HIDE DEF G
      <3>4. PICK h \in [0..n - 1 -> Seq(S)] :
               \A i \in 0..n - 1 : h[i] = IF i = 0 THEN ss[1] ELSE G[i][h[i - 1]]
        <4>1. \E h \in [0..n - 1 -> Seq(S)] : Steps(h, n - 1, ss[1], G)
          BY <3>1, <3>2, Recursion
        <4> QED  BY <4>1 DEF Steps
      <3>5. \A i \in 0..n - 1 : i # 0 => i \in 1..n - 1 /\ i - 1 \in 0..n - 1
        BY <3>1
      <3>6. ASSUME NEW i \in 0..n - 1 PROVE h[i] = IF i = 0 THEN ss[1] ELSE h[i - 1] \o ss[i + 1]
        <4>1. CASE i = 0
          BY <3>4, <4>1
        <4>2. CASE i # 0
          <5>1. h[i - 1] \in Seq(S) /\ i \in 1..n - 1
            BY <3>5, <4>2
          <5> QED  BY <3>3, <3>4, <4>2, <5>1
        <4> QED  BY <4>1, <4>2
      <3> QED  BY <3>6
    <2> DEFINE g == [i \in 1..n |-> h[i - 1]]
    <2>3. \A i \in 1..n : i - 1 \in 0..n - 1 /\ (i # 1 => i - 1 \in 1..n /\ i - 1 # 0)
      BY <1>1
    <2>4. \A i \in 1..n : g[i] = IF i = 1 THEN ss[i] ELSE g[i - 1] \o ss[i]
      <3> SUFFICES ASSUME NEW i \in 1..n PROVE g[i] = IF i = 1 THEN ss[i] ELSE g[i - 1] \o ss[i]
        OBVIOUS
      <3>1. h[i - 1] = IF i - 1 = 0 THEN ss[1] ELSE h[i - 1 - 1] \o ss[i - 1 + 1]
        BY <2>2, <2>3
      <3>2. i - 1 + 1 = i /\ (i - 1 = 0 <=> i = 1)
        BY <1>1
      <3> QED  BY <2>3, <3>1, <3>2
    <2>5. g = [i \in 1..n |-> IF i = 1 THEN ss[i] ELSE g[i - 1] \o ss[i]]
      BY <2>4
    <2> HIDE DEF g
    <2>6. flat = [i \in 1..n |-> IF i = 1 THEN ss[i] ELSE flat[i - 1] \o ss[i]]
      BY <2>5
    <2> HIDE DEF flat
    <2> DEFINE Is(i) == /\ flat[i] \in Seq(S)
                        /\ ToSet(flat[i]) = UNION {ToSet(ss[k]) : k \in 1..i}
               T == {i \in 0..n - 1 : Is(i + 1)}
    <2>7. 0 \in T
      <3>1. 1 \in 1..n /\ 0 \in 0..n - 1 /\ 1..1 = {1}
        BY <1>1, <1>3
      <3>2. flat[1] = ss[1]
        BY <2>6, <3>1
      <3> QED  BY <1>1, <3>1, <3>2
    <2>8. ASSUME NEW i \in 0..n - 1, i \in T, i < n - 1 PROVE i + 1 \in T
      <3>1. /\ i + 1 \in 0..n - 1 /\ i + 1 + 1 \in 1..n /\ i + 1 + 1 # 1 /\ i + 1 + 1 - 1 = i + 1
            /\ 1..(i + 1 + 1) = 1..(i + 1) \cup {i + 1 + 1}
        BY <1>1, <2>8
      <3>2. flat[i + 1 + 1] = flat[i + 1] \o ss[i + 1 + 1]
        <4>1. \A j \in 1..n : flat[j] = IF j = 1 THEN ss[j] ELSE flat[j - 1] \o ss[j]
          BY <2>6
        <4>2. PICK j \in 1..n : j = i + 1 + 1
          BY <3>1
        <4>3. j # 1 /\ j - 1 = i + 1
          BY <3>1, <4>2
        <4>4. flat[j] = flat[j - 1] \o ss[j]
          BY <4>1, <4>3
        <4> QED  BY ONLY <4>2, <4>3, <4>4
      <3>3. Is(i + 1) /\ ss[i + 1 + 1] \in Seq(S)
        BY <1>1, <2>8, <3>1
      <3>4. \A s, t \in Seq(S) : ToSet(s \o t) = ToSet(s) \cup ToSet(t)
        BY ConcatIsUnion
      <3>5. /\ flat[i + 1 + 1] \in Seq(S)
            /\ ToSet(flat[i + 1 + 1]) = ToSet(flat[i + 1]) \cup ToSet(ss[i + 1 + 1])
        BY <3>2, <3>3, <3>4
      <3>6. Is(i + 1 + 1)
        BY <3>1, <3>3, <3>5
      <3> QED  BY <3>1, <3>6
    <2> HIDE DEF T
    <2>9. n - 1 \in T
      <3>1. n - 1 \in Nat /\ n - 1 \in 0..n - 1
        BY <1>1, <1>3
      <3> QED  BY <2>7, <2>8, <3>1, Upwards
    <2>10. Is(n)
      <3>1. Is(n - 1 + 1)
        BY <2>9 DEF T
      <3>2. n - 1 + 1 = n
        BY <1>1
      <3> QED  BY <3>1, <3>2
    <2> QED  BY <1>1, <2>1, <2>10
  <1> QED  BY <1>2, <1>3

\* The same, for the values of a function.
LEMMA FlatMap ==
    ASSUME NEW S, NEW n \in Nat, NEW f, DOMAIN f = 1..n, f = [k \in 1..n |-> f[k]],
           \A k \in 1..n : f[k] \in Seq(S)
    PROVE  /\ FlattenSeq(f) \in Seq(S)
           /\ \A z : z \in ToSet(FlattenSeq(f)) <=> \E k \in 1..n : z \in ToSet(f[k])
  <1>1. f \in Seq(Seq(S))
    OBVIOUS
  <1>2. /\ FlattenSeq(f) \in Seq(S)
        /\ ToSet(FlattenSeq(f)) = UNION {ToSet(f[k]) : k \in DOMAIN f}
    BY <1>1, Flattened
  <1> QED  BY <1>2

\* A list of nothing is empty, and no other.
LEMMA EmptyList == \A S : \A s \in Seq(S) : s = <<>> <=> ToSet(s) = {}
  <1> SUFFICES ASSUME NEW S, NEW s \in Seq(S) PROVE s = <<>> <=> ToSet(s) = {}
    OBVIOUS
  <1>1. CASE s = <<>>
    BY <1>1 DEF ToSet
  <1>2. CASE s # <<>>
    <2>1. 1 \in DOMAIN s
      BY <1>2
    <2> QED  BY <1>2, <2>1 DEF ToSet
  <1> QED  BY <1>1, <1>2

\* The first of a list.
LEMMA TheFirst ==
    ASSUME NEW S, NEW s \in Seq(S)
    PROVE  /\ FirstOnly(s) \in Seq(S) /\ ToSet(FirstOnly(s)) \subseteq ToSet(s)
           /\ FirstOnly(s) = <<>> <=> s = <<>>
           /\ s # <<>> => FirstOnly(s) = <<s[1]>> /\ s[1] \in ToSet(s) /\ s[1] \in S
  <1>1. CASE s = <<>>
    BY <1>1 DEF FirstOnly, ToSet
  <1>2. CASE s # <<>>
    <2>1. 1 \in DOMAIN s /\ s[1] \in S
      BY <1>2
    <2>2. FirstOnly(s) = <<s[1]>>
      BY <1>2 DEF FirstOnly
    <2>3. s[1] \in ToSet(s)
      BY <2>1 DEF ToSet
    <2>4. ToSet(<<s[1]>>) = {s[1]} /\ <<s[1]>> # <<>> /\ <<s[1]>> \in Seq(S)
      BY <2>1 DEF ToSet
    <2> QED  BY <1>2, <2>1, <2>2, <2>3, <2>4
  <1> QED  BY <1>1, <1>2

-----------------------------------------------------------------------------
(* Looking at the disk *)

\* One look at some names in a directory.
LEMMA OneLook ==
    ASSUME NEW d \in Dirs, NEW tries \in Seq(Names)
    PROVE  /\ FirstReadable(d, tries) \in Results
           /\ \A f \in ToSet(FirstReadable(d, tries)) :
                f \in disk /\ f[1] = d /\ f[2] \in ToSet(tries)
           /\ FirstReadable(d, tries) = <<>> => \A n \in ToSet(tries) : <<d, n>> \notin disk
           /\ tries # <<>> /\ <<d, tries[1]>> \in disk
                => <<d, tries[1]>> \in ToSet(FirstReadable(d, tries))
  <1> DEFINE I == {i \in 1..Len(tries) : <<d, tries[i]>> \in disk}
             k == IF I # {} THEN Min(I) ELSE 0
  <1>1. FirstReadable(d, tries) = IF k = 0 THEN <<>> ELSE <<<<d, tries[k]>>>>
    BY DEF FirstReadable, SelectInSeq
  <1>2. DOMAIN tries = 1..Len(tries) /\ Len(tries) \in Nat /\ \A i \in 1..Len(tries) : tries[i] \in Names
    OBVIOUS
  <1>3. I \subseteq 1..Len(tries) /\ \A i \in I : <<d, tries[i]>> \in disk
    OBVIOUS
  <1>4. ASSUME NEW i \in 1..Len(tries), <<d, tries[i]>> \in disk PROVE i \in I
    BY <1>4
  <1> HIDE DEF I
  <1>5. CASE I = {}
    <2>1. FirstReadable(d, tries) = <<>>
      BY <1>1, <1>5
    <2>2. ToSet(<<>>) = {} /\ <<>> \in Results
      BY DEF ToSet, Results
    <2>3. \A n \in ToSet(tries) : <<d, n>> \notin disk
      BY <1>2, <1>4, <1>5 DEF ToSet
    <2>4. tries # <<>> => 1 \in 1..Len(tries)
      BY <1>2
    <2> QED  BY <1>4, <1>5, <2>1, <2>2, <2>3, <2>4
  <1>6. CASE I # {}
    <2>1. I \in SUBSET Nat
      BY <1>2, <1>3
    <2>2. \E x \in I : \A y \in I : x <= y
      BY <1>6, <2>1, Least
    <2>3. Min(I) \in I /\ \A y \in I : Min(I) <= y
      BY <2>2 DEF Min
    <2>5. k = Min(I)
      BY <1>6
    <2> HIDE DEF k
    <2>4. k \in I /\ k \in 1..Len(tries) /\ k # 0
      <3>1. k \in I
        BY <2>3, <2>5
      <3>2. k \in 1..Len(tries)
        BY <1>3, <3>1
      <3> QED  BY <1>2, <3>1, <3>2
    <2>6. FirstReadable(d, tries) = <<<<d, tries[k]>>>> /\ tries[k] \in ToSet(tries) /\ tries[k] \in Names
      BY <1>1, <1>2, <2>4 DEF ToSet
    <2>7. ToSet(<<<<d, tries[k]>>>>) = {<<d, tries[k]>>}
      BY DEF ToSet
    <2>8. <<<<d, tries[k]>>>> \in Results /\ <<<<d, tries[k]>>>> # <<>>
      BY <2>6 DEF Results
    <2>9. ASSUME tries # <<>>, <<d, tries[1]>> \in disk PROVE k = 1
      <3>1. 1 \in I
        BY <1>2, <1>4, <2>9
      <3> QED  BY <1>2, <2>3, <2>4, <2>5, <3>1
    <2>10. \A f \in ToSet(FirstReadable(d, tries)) :
              f \in disk /\ f[1] = d /\ f[2] \in ToSet(tries)
      BY <1>3, <2>4, <2>6, <2>7
    <2>11. tries # <<>> /\ <<d, tries[1]>> \in disk
              => <<d, tries[1]>> \in ToSet(FirstReadable(d, tries))
      BY <2>6, <2>7, <2>9
    <2> QED  BY <2>6, <2>8, <2>10, <2>11
  <1> QED  BY <1>5, <1>6

-----------------------------------------------------------------------------
(* The invariant *)

\* The program is on its way along the path; with the elements passed so far.
Searching == pc \in {"db", "disk", "fold"}
PassedBy  == IF Searching THEN 1..(e - 1) ELSE DOMAIN Path

\* No file that was there throughout is listed for a name or an alias under
\* element x.
Unlisted(x) ==
  \A n \in ToSet(names), d \in Dirs : \A m \in {n} \cup ToSet(Aliases[n]) : ~Listed(x, <<d, m>>)

\* The disk must be searched under element x, whatever the database says.
Visited(x) == ~Path[x].bang /\ (~Relevant(x) \/ must_exist)

\* None is in its directories.
NotOnDisk(x) == \A n \in ToSet(names), d \in Dirs : ~OnElementDisk(x, <<d, n>>)

\* Element x has been passed and had nothing.
Empty(x) == Unlisted(x) /\ (Visited(x) => cache[x] # Null /\ NotOnDisk(x))

\* Element x has been passed, and what it had is in the result.
Kept(x) ==
  /\ ~Path[x].bang /\ ~Relevant(x) => cache[x] # Null
  /\ \A n \in ToSet(names), d \in Dirs :
       /\ \A m \in {n} \cup ToSet(Aliases[n]) : Listed(x, <<d, m>>) => <<d, m>> \in ToSet(ret)
       /\ ~Relevant(x) /\ OnElementDisk(x, <<d, n>>) => <<d, n>> \in ToSet(ret)

\* What a file in the result may come from.
Sourced(f) ==
  \E n \in ToSet(q.names), x \in DOMAIN Path :
    /\ Stands(f, n) /\ f[1] \in ToSet(Path[x].dirs)
    /\ Path[x].bang => Relevant(x) /\ \E m \in Names : f[1] \in ToSet(db[m])

\* The parts of the invariant.
Types ==
  /\ TypeOK
  /\ pc # "idle" => q \in Queries
  /\ \A x \in DOMAIN Path : cache[x] # Null => ToSet(cache[x]) \subseteq ToSet(Path[x].dirs)
  /\ pc \in {"disk", "fold"} => e \in DOMAIN Path

\* What a script made and nobody touched is there and in the database, and
\* was not made by this call.
Remembered ==
  /\ made \subseteq disk
  /\ db # Null => \A f \in made : f[1] \in ToSet(db[f[2]])
  /\ pc \notin {"made", "return"} => made \cap fresh = {}

\* What the searches of a call come to, step by step.
Stages ==
  /\ ph = 2 => q.api = "find"
  /\ Searching /\ ~q.all => ret = <<>>
  /\ pc = "make" => ph = 2 /\ ret = <<>> /\ q.make \in Names
  /\ pc = "made" => ph = 2 /\ Len(ret) = 1 /\ ret[1] \in fresh

\* The elements passed.
Passing ==
  /\ Searching /\ ret = <<>> /\ (q.all => q.api = "find")
     => \A x \in 1..(e - 1) : Empty(x)
  /\ pc \in {"make", "made"} => \A x \in DOMAIN Path : Empty(x)
  /\ pc \in {"db", "disk", "fold", "make"} /\ ph = 2
     => \A x \in DOMAIN Path, n \in ToSet(q.names), d \in Dirs : ~Listed(x, <<d, n>>)
  /\ pc # "idle" /\ pc \notin {"make", "made"} /\ q.api = "find" /\ q.all
     => \A x \in PassedBy : Kept(x)

\* The element at hand.
AtHand ==
  /\ pc \in {"disk", "fold"} => Visited(e) /\ ((q.all => q.api = "find") => Unlisted(e))
  /\ pc = "fold" => cache[e] # Null /\ NotOnDisk(e)

\* The result.
Returned ==
  /\ pc # "idle" => \A f \in ToSet(ret) : f \in disk \cup fresh /\ (f \in fresh \/ Sourced(f))
  /\ pc = "return" /\ ~q.all /\ ret # <<>> /\ ret[1] \notin fresh =>
       \E x \in DOMAIN Path :
         /\ ret[1][1] \in ToSet(Path[x].dirs)
         /\ \A y \in 1..(x - 1) : Empty(y)

IInv == Types /\ Remembered /\ Stages /\ Passing /\ AtHand /\ Returned

-----------------------------------------------------------------------------
(* What a search is given and where it looks *)

\* The names a search is given are names, and those of a second search are
\* among those of the first.
LEMMA NamesGiven ==
    ASSUME TypeOK, q \in Queries
    PROVE  /\ names \in Seq(Names) /\ ToSet(names) \subseteq ToSet(q.names)
           /\ q.names \in Seq(Names) /\ q.again \in Seq(Names)
           /\ ToSet(q.again) \subseteq ToSet(q.names)
           /\ ph = 1 => names = q.names
           /\ ph = 2 => names = q.again
           /\ q.api = "one" => Len(q.names) = 1
           /\ q.api \in {"one", "find"} /\ q.all \in BOOLEAN /\ q.must \in BOOLEAN
           /\ q.make \in Names \cup {Null}
  <1>1. /\ q.names \in Seq(Names) /\ q.again \in Seq(Names)
        /\ ToSet(q.again) \subseteq ToSet(q.names)
        /\ q.api = "one" => Len(q.names) = 1
        /\ q.api \in {"one", "find"} /\ q.all \in BOOLEAN /\ q.must \in BOOLEAN
        /\ q.make \in Names \cup {Null}
    <2>1. Queries \subseteq [api : {"one", "find"}, names : Seq(Names), again : Seq(Names),
                            must : BOOLEAN, all : BOOLEAN, make : Names \cup {Null}]
      BY ConstantsAssumption DEF QueriesAssumption
    <2>2. \A x \in Queries : /\ ToSet(x.again) \subseteq ToSet(x.names)
                             /\ x.api = "one" => Len(x.names) = 1
      BY ConstantsAssumption DEF QueriesAssumption
    <2>3. q \in [api : {"one", "find"}, names : Seq(Names), again : Seq(Names),
                must : BOOLEAN, all : BOOLEAN, make : Names \cup {Null}]
      BY <2>1
    <2>4. /\ q.names \in Seq(Names) /\ q.again \in Seq(Names)
          /\ q.api \in {"one", "find"} /\ q.all \in BOOLEAN /\ q.must \in BOOLEAN
          /\ q.make \in Names \cup {Null}
      <3>1. PICK S : S = Seq(Names)
        OBVIOUS
      <3>2. PICK M : M = Names \cup {Null}
        OBVIOUS
      <3>3. q \in [api : {"one", "find"}, names : S, again : S, must : BOOLEAN, all : BOOLEAN, make : M]
        BY <2>3, <3>1, <3>2
      <3>4. /\ q.names \in S /\ q.again \in S /\ q.api \in {"one", "find"}
            /\ q.all \in BOOLEAN /\ q.must \in BOOLEAN /\ q.make \in M
        BY ONLY <3>3
      <3> QED  BY <3>1, <3>2, <3>4
    <2>5. ToSet(q.again) \subseteq ToSet(q.names) /\ (q.api = "one" => Len(q.names) = 1)
      BY <2>2
    <2> QED  BY ONLY <2>4, <2>5
  <1>2. ph \in {1, 2}
    BY DEF TypeOK
  <1> QED  BY <1>1, <1>2 DEF names

\* An element of the path.
LEMMA ElementOf ==
    ASSUME NEW x \in DOMAIN Path
    PROVE  /\ Path[x].dirs \in Seq(Dirs) /\ Path[x].bang \in BOOLEAN /\ Path[x].indb \in BOOLEAN
           /\ DOMAIN Path = 1..Len(Path) /\ Len(Path) \in Nat
           /\ ToSet(Path[x].dirs) \subseteq Dirs
  <1>1. Path \in Seq(Elements)
    BY ConstantsAssumption
  <1>2. Path[x] \in Elements /\ DOMAIN Path = 1..Len(Path) /\ Len(Path) \in Nat
    BY <1>1
  <1>3. Path[x].dirs \in Seq(Dirs) /\ Path[x].bang \in BOOLEAN /\ Path[x].indb \in BOOLEAN
    BY <1>2 DEF Elements
  <1>4. ToSet(Path[x].dirs) \subseteq Dirs
    BY <1>3 DEF ToSet
  <1> QED  BY <1>2, <1>3, <1>4

\* The directories an element is searched in.
LEMMA DirsOf ==
    ASSUME Types, NEW x \in DOMAIN Path
    PROVE  /\ ElementDirs(x) \in Seq(Dirs)
           /\ ToSet(ElementDirs(x)) \subseteq ToSet(Path[x].dirs)
           /\ ElementDirs(x) # Null
           /\ cache[x] # Null => ElementDirs(x) = cache[x]
  <1>1. cache[x] \in Seq(Dirs) \cup {Null} /\ (cache[x] # Null => ToSet(cache[x]) \subseteq ToSet(Path[x].dirs))
    BY DEF Types, TypeOK
  <1>2. Null \notin Seq(Dirs)
    BY ConstantsAssumption
  <1>3. CASE cache[x] # Null
    BY <1>1, <1>2, <1>3 DEF ElementDirs
  <1>4. CASE cache[x] = Null
    <2> DEFINE dirs == Path[x].dirs
               f == [k \in DOMAIN dirs |-> IF dirs[k] \in there THEN <<dirs[k]>> ELSE <<>>]
    <2>1. ElementDirs(x) = FlattenSeq(f)
      BY <1>4 DEF ElementDirs
    <2>2. dirs \in Seq(Dirs)
      BY ElementOf
    <2>3. DOMAIN dirs = 1..Len(dirs) /\ Len(dirs) \in Nat
      BY <2>2
    <2>4. \A k \in DOMAIN dirs : dirs[k] \in Dirs /\ dirs[k] \in ToSet(dirs)
      BY <2>2 DEF ToSet
    <2> HIDE DEF dirs
    <2>5. ASSUME NEW k \in DOMAIN dirs
          PROVE  f[k] \in Seq(Dirs) /\ ToSet(f[k]) \subseteq ToSet(dirs)
      <3>1. f[k] = <<dirs[k]>> \/ f[k] = <<>>
        OBVIOUS
      <3>2. ToSet(<<dirs[k]>>) = {dirs[k]} /\ ToSet(<<>>) = {}
        BY DEF ToSet
      <3>3. <<dirs[k]>> \in Seq(Dirs) /\ <<>> \in Seq(Dirs)
        BY <2>4
      <3> QED  BY <2>4, <3>1, <3>2, <3>3
    <2>6. f = [k \in 1..Len(dirs) |-> f[k]] /\ DOMAIN f = 1..Len(dirs)
      BY <2>3
    <2> HIDE DEF f
    <2>7. /\ FlattenSeq(f) \in Seq(Dirs)
          /\ \A z : z \in ToSet(FlattenSeq(f)) <=> \E k \in 1..Len(dirs) : z \in ToSet(f[k])
      BY <2>3, <2>5, <2>6, FlatMap
    <2>8. ToSet(FlattenSeq(f)) \subseteq ToSet(dirs)
      BY <2>3, <2>5, <2>7
    <2> QED  BY <1>2, <1>4, <2>1, <2>7, <2>8 DEF dirs
  <1> QED  BY <1>3, <1>4

\* A pass over the names in one directory.
LEMMA OneDirectory ==
    ASSUME NEW d \in Dirs, NEW ns \in Seq(Names), NEW fold \in BOOLEAN
    PROVE  /\ HitsIn(d, ns, fold) \in Results
           /\ \A f \in ToSet(HitsIn(d, ns, fold)) :
                /\ f \in disk /\ f[1] = d
                /\ \E n \in ToSet(ns) : f[2] \in {n} \cup ToSet(Variants[n])
           /\ ~fold => \A n \in ToSet(ns) :
                         <<d, n>> \in disk => <<d, n>> \in ToSet(HitsIn(d, ns, fold))
  <1> DEFINE f == [k \in DOMAIN ns |-> Readable(d, ns[k], fold)]
             m == Len(ns)
  <1>1. DOMAIN ns = 1..m /\ m \in Nat
    OBVIOUS
  <1>2. HitsIn(d, ns, fold) = FlattenSeq(f) /\ f = [k \in 1..m |-> f[k]] /\ DOMAIN f = 1..m
    BY <1>1 DEF HitsIn
  <1>3. \A k \in 1..m : f[k] = FirstReadable(d, IF fold THEN Variants[ns[k]] ELSE <<ns[k]>>)
    BY <1>1 DEF Readable
  <1>4. \A k \in 1..m : ns[k] \in Names /\ ns[k] \in ToSet(ns) /\ Variants[ns[k]] \in Seq(Names)
    BY ConstantsAssumption DEF ToSet
  <1>5. \A n \in ToSet(ns) : \E k \in 1..m : n = ns[k]
    BY <1>1 DEF ToSet
  <1> HIDE DEF f, m
  <1>6. ASSUME NEW k \in 1..m
        PROVE  /\ f[k] \in Results
               /\ \A z \in ToSet(f[k]) : /\ z \in disk /\ z[1] = d
                                         /\ z[2] \in {ns[k]} \cup ToSet(Variants[ns[k]])
               /\ ~fold => (<<d, ns[k]>> \in disk => <<d, ns[k]>> \in ToSet(f[k]))
    <2>1. CASE fold
      <3> DEFINE t == Variants[ns[k]]
      <3>1. t \in Seq(Names)
        BY <1>4
      <3>2. f[k] = FirstReadable(d, t)
        BY <1>3, <2>1
      <3>3. ToSet(t) = ToSet(Variants[ns[k]])
        OBVIOUS
      <3> HIDE DEF t
      <3>4. /\ FirstReadable(d, t) \in Results
            /\ \A z \in ToSet(FirstReadable(d, t)) : z \in disk /\ z[1] = d /\ z[2] \in ToSet(t)
        BY <3>1, OneLook
      <3> QED  BY ONLY <2>1, <3>2, <3>3, <3>4
    <2>2. CASE ~fold
      <3> DEFINE t == <<ns[k]>>
      <3>1. t \in Seq(Names) /\ t # <<>> /\ t[1] = ns[k] /\ ToSet(t) = {ns[k]}
        BY <1>4 DEF ToSet
      <3>2. f[k] = FirstReadable(d, t)
        BY <1>3, <2>2
      <3> HIDE DEF t
      <3> QED  BY <3>1, <3>2, OneLook
    <2> QED  BY <2>1, <2>2
  <1>7. /\ FlattenSeq(f) \in Results
        /\ \A z : z \in ToSet(FlattenSeq(f)) <=> \E k \in 1..m : z \in ToSet(f[k])
    BY <1>1, <1>2, <1>6, FlatMap DEF Results
  <1> QED  BY <1>2, <1>4, <1>5, <1>6, <1>7

\* A pass over directories.
LEMMA OnePass ==
    ASSUME NEW ds \in Seq(Dirs), NEW ns \in Seq(Names), NEW all \in BOOLEAN, NEW fold \in BOOLEAN
    PROVE  /\ DirSearch(ds, ns, all, fold) \in Results
           /\ \A f \in ToSet(DirSearch(ds, ns, all, fold)) :
                /\ f \in disk /\ f[1] \in ToSet(ds)
                /\ \E n \in ToSet(ns) : f[2] \in {n} \cup ToSet(Variants[n])
           /\ ~fold /\ (all \/ DirSearch(ds, ns, all, fold) = <<>>)
                => \A d \in ToSet(ds), n \in ToSet(ns) :
                     <<d, n>> \in disk => <<d, n>> \in ToSet(DirSearch(ds, ns, all, fold))
  <1> DEFINE f == [k \in DOMAIN ds |-> HitsIn(ds[k], ns, fold)]
             m == Len(ds)
             hits == FlattenSeq(f)
  <1>1. DOMAIN ds = 1..m /\ m \in Nat
    OBVIOUS
  <1>2. DirSearch(ds, ns, all, fold) = IF all THEN hits ELSE FirstOnly(hits)
    BY DEF DirSearch
  <1>3. f = [k \in 1..m |-> f[k]] /\ DOMAIN f = 1..m /\ \A k \in 1..m : f[k] = HitsIn(ds[k], ns, fold)
    BY <1>1
  <1>4. \A k \in 1..m : ds[k] \in Dirs /\ ds[k] \in ToSet(ds)
    BY DEF ToSet
  <1>5. \A d \in ToSet(ds) : \E k \in 1..m : d = ds[k]
    BY <1>1 DEF ToSet
  <1> HIDE DEF f, m
  <1>6. \A k \in 1..m :
           /\ f[k] \in Results
           /\ \A z \in ToSet(f[k]) : /\ z \in disk /\ z[1] = ds[k]
                                     /\ \E n \in ToSet(ns) : z[2] \in {n} \cup ToSet(Variants[n])
           /\ ~fold => \A n \in ToSet(ns) : <<ds[k], n>> \in disk => <<ds[k], n>> \in ToSet(f[k])
    BY <1>3, <1>4, OneDirectory
  <1>7. /\ hits \in Results
        /\ \A z : z \in ToSet(hits) <=> \E k \in 1..m : z \in ToSet(f[k])
    BY <1>1, <1>3, <1>6, FlatMap DEF Results
  <1>8. \A z \in ToSet(hits) :
          /\ z \in disk /\ z[1] \in ToSet(ds)
          /\ \E n \in ToSet(ns) : z[2] \in {n} \cup ToSet(Variants[n])
    BY <1>4, <1>6, <1>7
  <1>9. ~fold => \A d \in ToSet(ds), n \in ToSet(ns) : <<d, n>> \in disk => <<d, n>> \in ToSet(hits)
    BY <1>5, <1>6, <1>7
  <1> HIDE DEF hits
  <1>10. /\ FirstOnly(hits) \in Results /\ ToSet(FirstOnly(hits)) \subseteq ToSet(hits)
         /\ FirstOnly(hits) = <<>> => ToSet(hits) = {}
    BY <1>7, TheFirst, EmptyList DEF Results
  <1> QED  BY <1>2, <1>7, <1>8, <1>9, <1>10

-----------------------------------------------------------------------------
(* What the database yields *)

\* The files listed under one name.
LEMMA OneListing ==
    ASSUME Types, db # Null, NEW x \in DOMAIN Path, NEW c \in Names, NEW alts \in Seq(Names)
    PROVE  /\ TryHits(x, c, alts) \in Results
           /\ \A f \in ToSet(TryHits(x, c, alts)) :
                /\ f \in disk /\ f[1] \in ToSet(Path[x].dirs) /\ f[1] \in ToSet(db[c])
                /\ f[2] \in {c} \cup ToSet(alts)
           /\ \A d \in ToSet(Path[x].dirs) \cap ToSet(db[c]) :
                <<d, c>> \in disk => <<d, c>> \in ToSet(TryHits(x, c, alts))
  <1> DEFINE ds == db[c]
             m  == Len(ds)
             f  == [k \in DOMAIN ds |-> IF ds[k] \in ToSet(Path[x].dirs) THEN Probe(ds[k], c, alts)
                                        ELSE <<>>]
             t  == <<c>> \o alts
  <1>1. ds \in Seq(Dirs)
    BY DEF Types, TypeOK
  <1>2. DOMAIN ds = 1..m /\ m \in Nat
    BY <1>1
  <1>3. TryHits(x, c, alts) = FlattenSeq(f) /\ f = [k \in 1..m |-> f[k]] /\ DOMAIN f = 1..m
    BY <1>2 DEF TryHits
  <1>4. \A k \in 1..m : f[k] = IF ds[k] \in ToSet(Path[x].dirs) THEN FirstReadable(ds[k], t) ELSE <<>>
    BY <1>2 DEF Probe
  <1>5. t \in Seq(Names) /\ t # <<>> /\ t[1] = c /\ ToSet(t) = {c} \cup ToSet(alts)
    <2>1. <<c>> \in Seq(Names) /\ ToSet(<<c>>) = {c}
      BY DEF ToSet
    <2>2. ToSet(t) = ToSet(<<c>>) \cup ToSet(alts)
      <3>1. \A u, v \in Seq(Names) : ToSet(u \o v) = ToSet(u) \cup ToSet(v)
        BY ConcatIsUnion
      <3> QED  BY <2>1, <3>1
    <2> QED  BY <2>1, <2>2
  <1>6. \A k \in 1..m : ds[k] \in Dirs /\ ds[k] \in ToSet(db[c])
    BY <1>1, <1>2 DEF ToSet
  <1>7. \A d \in ToSet(db[c]) : \E k \in 1..m : d = ds[k]
    BY <1>2 DEF ToSet
  <1> HIDE DEF f, t, ds, m
  <1>8. ASSUME NEW k \in 1..m
        PROVE  /\ f[k] \in Results
               /\ \A z \in ToSet(f[k]) : /\ z \in disk /\ z[1] = ds[k] /\ z[2] \in {c} \cup ToSet(alts)
                                         /\ ds[k] \in ToSet(Path[x].dirs)
               /\ ds[k] \in ToSet(Path[x].dirs) => (<<ds[k], c>> \in disk => <<ds[k], c>> \in ToSet(f[k]))
    <2>1. CASE ds[k] \in ToSet(Path[x].dirs)
      <3>1. f[k] = FirstReadable(ds[k], t)
        BY <1>4, <2>1
      <3>2. /\ FirstReadable(ds[k], t) \in Results
            /\ \A z \in ToSet(FirstReadable(ds[k], t)) :
                 z \in disk /\ z[1] = ds[k] /\ z[2] \in ToSet(t)
            /\ <<ds[k], c>> \in disk => <<ds[k], c>> \in ToSet(FirstReadable(ds[k], t))
        BY <1>5, <1>6, OneLook
      <3> QED  BY ONLY <1>5, <2>1, <3>1, <3>2
    <2>2. CASE ds[k] \notin ToSet(Path[x].dirs)
      <3>1. f[k] = <<>>
        BY <1>4, <2>2
      <3>2. ToSet(<<>>) = {} /\ <<>> \in Results
        BY DEF ToSet, Results
      <3> QED  BY <2>2, <3>1, <3>2
    <2> QED  BY <2>1, <2>2
  <1>9. /\ FlattenSeq(f) \in Results
        /\ \A z : z \in ToSet(FlattenSeq(f)) <=> \E k \in 1..m : z \in ToSet(f[k])
    BY <1>2, <1>3, <1>8, FlatMap DEF Results
  <1>10. \A z \in ToSet(FlattenSeq(f)) :
           /\ z \in disk /\ z[1] \in ToSet(Path[x].dirs) /\ z[1] \in ToSet(db[c])
           /\ z[2] \in {c} \cup ToSet(alts)
    <2> SUFFICES ASSUME NEW z \in ToSet(FlattenSeq(f))
                 PROVE  /\ z \in disk /\ z[1] \in ToSet(Path[x].dirs) /\ z[1] \in ToSet(db[c])
                        /\ z[2] \in {c} \cup ToSet(alts)
      OBVIOUS
    <2>1. PICK k \in 1..m : z \in ToSet(f[k])
      BY <1>9
    <2>2. /\ z \in disk /\ z[1] = ds[k] /\ z[2] \in {c} \cup ToSet(alts)
          /\ ds[k] \in ToSet(Path[x].dirs)
      BY <1>8, <2>1
    <2> QED  BY <1>6, <2>2
  <1>11. \A d \in ToSet(Path[x].dirs) \cap ToSet(db[c]) :
           <<d, c>> \in disk => <<d, c>> \in ToSet(FlattenSeq(f))
    BY <1>7, <1>8, <1>9
  <1> QED  BY <1>3, <1>9, <1>10, <1>11

\* A file that the database may yield for a name under element x.
Yielded(f, x, name) ==
  /\ f \in disk /\ f[1] \in ToSet(Path[x].dirs)
  /\ f[2] \in {name} \cup ToSet(Aliases[name])
  /\ \E m \in Names : f[1] \in ToSet(db[m])

\* The result s has every file that is listed under a name or its aliases.
HasListed(s, x, name) ==
  \A m \in {name} \cup ToSet(Aliases[name]) : \A d \in ToSet(Path[x].dirs) \cap ToSet(db[m]) :
    <<d, m>> \in disk => <<d, m>> \in ToSet(s)

\* The files listed under a name and its aliases.
LEMMA OneName ==
    ASSUME Types, db # Null, NEW x \in DOMAIN Path, NEW name \in Names
    PROVE  /\ FlattenSeq(HitsByTry(x, name)) \in Results
           /\ \A f \in ToSet(FlattenSeq(HitsByTry(x, name))) : Yielded(f, x, name)
           /\ HasListed(FlattenSeq(HitsByTry(x, name)), x, name)
           /\ Last(HitsByTry(x, name)) \in Results
           /\ ToSet(Last(HitsByTry(x, name))) \subseteq ToSet(FlattenSeq(HitsByTry(x, name)))
  <1> DEFINE alts == Aliases[name]
             t == <<name>> \o alts
             m == Len(t)
             f == HitsByTry(x, name)
  <1>1. alts \in Seq(Names)
    BY ConstantsAssumption
  <1>2. t \in Seq(Names) /\ m \in Nat /\ m # 0 /\ DOMAIN t = 1..m /\ ToSet(t) = {name} \cup ToSet(alts)
    <2>1. <<name>> \in Seq(Names) /\ ToSet(<<name>>) = {name} /\ Len(<<name>>) = 1
      BY DEF ToSet
    <2>2. ToSet(t) = ToSet(<<name>>) \cup ToSet(alts)
      <3>1. \A u, v \in Seq(Names) : ToSet(u \o v) = ToSet(u) \cup ToSet(v)
        BY ConcatIsUnion
      <3> QED  BY <1>1, <2>1, <3>1
    <2>3. t \in Seq(Names) /\ m = 1 + Len(alts) /\ Len(alts) \in Nat
      BY <1>1, <2>1
    <2> QED  BY <2>1, <2>2, <2>3
  <1>3. f = [k \in 1..m |-> f[k]] /\ DOMAIN f = 1..m /\ \A k \in 1..m : f[k] = TryHits(x, t[k], alts)
    BY <1>2 DEF HitsByTry
  <1>4. \A k \in 1..m : t[k] \in Names /\ t[k] \in ToSet(t)
    BY <1>2 DEF ToSet
  <1>5. \A n \in ToSet(t) : \E k \in 1..m : n = t[k]
    BY <1>2 DEF ToSet
  <1> HIDE DEF f, t, m, alts
  <1>6. \A k \in 1..m :
          /\ f[k] \in Results
          /\ \A z \in ToSet(f[k]) :
               /\ z \in disk /\ z[1] \in ToSet(Path[x].dirs) /\ z[1] \in ToSet(db[t[k]])
               /\ z[2] \in {t[k]} \cup ToSet(alts)
          /\ \A d \in ToSet(Path[x].dirs) \cap ToSet(db[t[k]]) :
               <<d, t[k]>> \in disk => <<d, t[k]>> \in ToSet(f[k])
    BY <1>1, <1>3, <1>4, OneListing
  <1>7. /\ FlattenSeq(f) \in Results
        /\ \A z : z \in ToSet(FlattenSeq(f)) <=> \E k \in 1..m : z \in ToSet(f[k])
    BY <1>2, <1>3, <1>6, FlatMap DEF Results
  <1>8. \A z \in ToSet(FlattenSeq(f)) : Yielded(z, x, name)
    <2> SUFFICES ASSUME NEW z \in ToSet(FlattenSeq(f)) PROVE Yielded(z, x, name)
      OBVIOUS
    <2>1. PICK k \in 1..m : z \in ToSet(f[k])
      BY <1>7
    <2>2. /\ z \in disk /\ z[1] \in ToSet(Path[x].dirs) /\ z[1] \in ToSet(db[t[k]])
          /\ z[2] \in {t[k]} \cup ToSet(alts)
      BY <1>6, <2>1
    <2>3. t[k] \in Names /\ t[k] \in {name} \cup ToSet(alts)
      BY <1>2, <1>4
    <2> QED  BY <2>2, <2>3 DEF Yielded, alts
  <1>9. HasListed(FlattenSeq(f), x, name)
    <2> SUFFICES ASSUME NEW n \in {name} \cup ToSet(Aliases[name]),
                        NEW d \in ToSet(Path[x].dirs) \cap ToSet(db[n]), <<d, n>> \in disk
                 PROVE  <<d, n>> \in ToSet(FlattenSeq(f))
      BY DEF HasListed
    <2>1. PICK k \in 1..m : n = t[k]
      BY <1>2, <1>5 DEF alts
    <2>2. <<d, n>> \in ToSet(f[k])
      BY <1>6, <2>1
    <2> QED  BY <1>7, <2>2
  <1>10. Last(f) \in Results /\ ToSet(Last(f)) \subseteq ToSet(FlattenSeq(f))
    <2>1. f \in Seq(Results)
      BY <1>2, <1>3, <1>6
    <2>2. Len(f) = m /\ m \in 1..m
      BY <1>2, <1>3, <2>1
    <2>3. Last(f) = f[m]
      BY <2>2 DEF Last
    <2> QED  BY <1>6, <1>7, <2>2, <2>3
  <1> QED  BY <1>7, <1>8, <1>9, <1>10 DEF f

\* What the database yields for the query in hand.
DbFound(x) ==
  IF ~Relevant(x) THEN <<>>
  ELSE IF q.api = "one" THEN DbSearch(x, names[1], q.all)
  ELSE DbSearchList(x, names, q.all)

\* The files listed under some names.
LEMMA Listing ==
    ASSUME Types, db # Null, NEW x \in DOMAIN Path, NEW ns \in Seq(Names), NEW all \in BOOLEAN
    PROVE  /\ DbSearchList(x, ns, all) \in Results
           /\ \A f \in ToSet(DbSearchList(x, ns, all)) : \E n \in ToSet(ns) : Yielded(f, x, n)
           /\ all \/ DbSearchList(x, ns, all) = <<>>
                => \A n \in ToSet(ns) : HasListed(DbSearchList(x, ns, all), x, n)
  <1> DEFINE f == [k \in DOMAIN ns |-> FlattenSeq(HitsByTry(x, ns[k]))]
             m == Len(ns)
             hits == FlattenSeq(f)
  <1>1. DOMAIN ns = 1..m /\ m \in Nat
    OBVIOUS
  <1>2. DbSearchList(x, ns, all) = IF all THEN hits ELSE FirstOnly(hits)
    BY DEF DbSearchList
  <1>3. /\ f = [k \in 1..m |-> f[k]] /\ DOMAIN f = 1..m
        /\ \A k \in 1..m : f[k] = FlattenSeq(HitsByTry(x, ns[k]))
    BY <1>1
  <1>4. \A k \in 1..m : ns[k] \in Names /\ ns[k] \in ToSet(ns)
    BY DEF ToSet
  <1>5. \A n \in ToSet(ns) : \E k \in 1..m : n = ns[k]
    BY <1>1 DEF ToSet
  <1> HIDE DEF f, m
  <1>6. \A k \in 1..m : /\ f[k] \in Results
                        /\ \A z \in ToSet(f[k]) : Yielded(z, x, ns[k])
                        /\ HasListed(f[k], x, ns[k])
    BY <1>3, <1>4, OneName
  <1>7. /\ hits \in Results
        /\ \A z : z \in ToSet(hits) <=> \E k \in 1..m : z \in ToSet(f[k])
    BY <1>1, <1>3, <1>6, FlatMap DEF Results
  <1>8. \A z \in ToSet(hits) : \E n \in ToSet(ns) : Yielded(z, x, n)
    BY <1>4, <1>6, <1>7
  <1>9. ASSUME NEW n \in ToSet(ns) PROVE HasListed(hits, x, n)
    <2>1. PICK k \in 1..m : n = ns[k]
      BY <1>5
    <2>2. HasListed(f[k], x, n) /\ \A z \in ToSet(f[k]) : z \in ToSet(hits)
      BY <1>6, <1>7, <2>1
    <2> QED  BY <2>2 DEF HasListed
  <1> HIDE DEF hits
  <1>10. /\ FirstOnly(hits) \in Results /\ ToSet(FirstOnly(hits)) \subseteq ToSet(hits)
         /\ FirstOnly(hits) = <<>> => hits = <<>>
    BY <1>7, TheFirst DEF Results
  <1> QED  BY <1>2, <1>7, <1>8, <1>9, <1>10

\* The files that kpathsea_db_search finds.
LEMMA OneSearch ==
    ASSUME Types, db # Null, NEW x \in DOMAIN Path, NEW n \in Names, NEW all \in BOOLEAN
    PROVE  /\ DbSearch(x, n, all) \in Results
           /\ \A f \in ToSet(DbSearch(x, n, all)) : Yielded(f, x, n)
           /\ ~all /\ DbSearch(x, n, all) = <<>> => HasListed(DbSearch(x, n, all), x, n)
  <1> DEFINE f == HitsByTry(x, n)
             hits == FlattenSeq(f)
  <1>1. DbSearch(x, n, all) = IF all THEN Last(f) ELSE FirstOnly(hits)
    BY DEF DbSearch
  <1>2. /\ hits \in Results /\ HasListed(hits, x, n)
        /\ \A z \in ToSet(hits) : Yielded(z, x, n)
        /\ Last(f) \in Results /\ ToSet(Last(f)) \subseteq ToSet(hits)
    BY OneName
  <1> HIDE DEF hits, f
  <1>3. /\ FirstOnly(hits) \in Results /\ ToSet(FirstOnly(hits)) \subseteq ToSet(hits)
        /\ FirstOnly(hits) = <<>> => hits = <<>>
    BY <1>2, TheFirst DEF Results
  <1> QED  BY <1>1, <1>2, <1>3

\* What the database yields for a query is real, and if the query does not
\* take all files with a single name, it is all that is listed.
LEMMA DbYields ==
    ASSUME Types, Stages, pc # "idle", NEW x \in DOMAIN Path
    PROVE  /\ DbFound(x) \in Results
           /\ \A f \in ToSet(DbFound(x)) : f \in disk /\ f[1] \in ToSet(Path[x].dirs) /\ Sourced(f)
           /\ DbFound(x) = <<>> /\ (q.all => q.api = "find") => Unlisted(x)
           /\ q.all /\ q.api = "find" =>
                \A n \in ToSet(names), d \in Dirs : \A m \in {n} \cup ToSet(Aliases[n]) :
                  Listed(x, <<d, m>>) => <<d, m>> \in ToSet(DbFound(x))
  <1>1. q \in Queries /\ TypeOK
    BY DEF Types
  <1>2. /\ names \in Seq(Names) /\ ToSet(names) \subseteq ToSet(q.names) /\ q.names \in Seq(Names)
        /\ q.api \in {"one", "find"} /\ q.all \in BOOLEAN
        /\ q.api = "one" => names = q.names /\ Len(q.names) = 1
    BY <1>1, NamesGiven DEF Stages, TypeOK
  <1>3. CASE ~Relevant(x)
    <2>1. DbFound(x) = <<>> /\ ToSet(<<>>) = {} /\ <<>> \in Results
      BY <1>3 DEF DbFound, ToSet, Results
    <2>2. \A f : ~Listed(x, f)
      BY <1>3 DEF Listed
    <2> QED  BY <2>1, <2>2 DEF Unlisted
  <1>4. CASE Relevant(x)
    <2>1. db # Null
      BY <1>4 DEF Relevant
    <2>2. /\ DbFound(x) \in Results
          /\ \A f \in ToSet(DbFound(x)) : \E n \in ToSet(names) : Yielded(f, x, n)
          /\ (DbFound(x) = <<>> /\ (q.all => q.api = "find")) \/ (q.all /\ q.api = "find")
               => \A n \in ToSet(names) : HasListed(DbFound(x), x, n)
      <3>1. CASE q.api = "one"
        <4>1. names[1] \in Names /\ ToSet(names) = {names[1]}
          BY <1>2, <3>1 DEF ToSet
        <4>2. DbFound(x) = DbSearch(x, names[1], q.all)
          BY <1>4, <3>1 DEF DbFound
        <4>3. /\ DbSearch(x, names[1], q.all) \in Results
              /\ \A f \in ToSet(DbSearch(x, names[1], q.all)) : Yielded(f, x, names[1])
              /\ ~q.all /\ DbSearch(x, names[1], q.all) = <<>>
                   => HasListed(DbSearch(x, names[1], q.all), x, names[1])
          BY <1>2, <2>1, <4>1, OneSearch
        <4> QED  BY <3>1, <4>1, <4>2, <4>3
      <3>2. CASE q.api = "find"
        <4>1. DbFound(x) = DbSearchList(x, names, q.all)
          BY <1>4, <3>2 DEF DbFound
        <4>2. /\ DbSearchList(x, names, q.all) \in Results
              /\ \A f \in ToSet(DbSearchList(x, names, q.all)) : \E n \in ToSet(names) : Yielded(f, x, n)
              /\ q.all \/ DbSearchList(x, names, q.all) = <<>>
                   => \A n \in ToSet(names) : HasListed(DbSearchList(x, names, q.all), x, n)
          BY <1>2, <2>1, Listing
        <4> QED  BY <4>1, <4>2
      <3> QED  BY <1>2, <3>1, <3>2
    <2>3. ASSUME NEW f \in ToSet(DbFound(x))
          PROVE  f \in disk /\ f[1] \in ToSet(Path[x].dirs) /\ Sourced(f)
      <3>1. PICK n \in ToSet(names) : Yielded(f, x, n)
        BY <2>2
      <3>2. n \in ToSet(q.names) /\ f[1] \in ToSet(Path[x].dirs) /\ f \in disk
        BY <1>2, <3>1 DEF Yielded
      <3>3. Stands(f, n)
        BY <3>1 DEF Yielded, Stands
      <3>4. \E m \in Names : f[1] \in ToSet(db[m])
        BY <3>1 DEF Yielded
      <3> QED  BY <1>4, <3>2, <3>3, <3>4 DEF Sourced
    <2>4. ASSUME NEW n \in ToSet(names), HasListed(DbFound(x), x, n),
                 NEW d \in Dirs, NEW m \in {n} \cup ToSet(Aliases[n]), Listed(x, <<d, m>>)
          PROVE  <<d, m>> \in ToSet(DbFound(x))
      <3>1. <<d, m>> \in disk /\ d \in ToSet(Path[x].dirs) \cap ToSet(db[m])
        BY <2>4 DEF Listed
      <3> QED  BY <2>4, <3>1 DEF HasListed
    <2>5. ASSUME DbFound(x) = <<>>, q.all => q.api = "find" PROVE Unlisted(x)
      <3>1. ToSet(DbFound(x)) = {}
        BY <2>5 DEF ToSet
      <3> QED  BY <2>2, <2>4, <2>5, <3>1 DEF Unlisted
    <2> QED  BY <2>2, <2>3, <2>4, <2>5
  <1> QED  BY <1>3, <1>4

-----------------------------------------------------------------------------
(* What the disk yields, and how the directories float *)

\* What a pass over the directories of an element yields is real, and a pass
\* that does not ignore case sees what is there.
LEMMA DiskYields ==
    ASSUME Types, Stages, pc # "idle", NEW x \in DOMAIN Path, Visited(x), NEW fold \in BOOLEAN,
           NEW found, found = DirSearch(ElementDirs(x), names, q.all, fold)
    PROVE  /\ found \in Results
           /\ \A f \in ToSet(found) :
                /\ f \in disk /\ f[1] \in ToSet(ElementDirs(x)) /\ f[1] \in ToSet(Path[x].dirs)
                /\ Sourced(f)
           /\ ~fold /\ found = <<>> => NotOnDisk(x)
           /\ ~fold /\ q.all =>
                \A n \in ToSet(names), d \in Dirs :
                  OnElementDisk(x, <<d, n>>) => <<d, n>> \in ToSet(found)
  <1>1. q \in Queries /\ TypeOK
    BY DEF Types
  <1>2. names \in Seq(Names) /\ ToSet(names) \subseteq ToSet(q.names) /\ q.all \in BOOLEAN
    BY <1>1, NamesGiven
  <1> DEFINE ds == ElementDirs(x)
  <1>3. ds \in Seq(Dirs) /\ ToSet(ds) \subseteq ToSet(Path[x].dirs)
    BY DirsOf
  <1>4. found = DirSearch(ds, names, q.all, fold)
    OBVIOUS
  <1>5. \A f : OnElementDisk(x, f) => f \in disk /\ f[1] \in ToSet(ds)
    BY DEF OnElementDisk
  <1>6. ds = ElementDirs(x) /\ ~Path[x].bang
    BY DEF Visited
  <1> HIDE DEF ds
  <1>7. /\ found \in Results
        /\ \A f \in ToSet(found) :
             /\ f \in disk /\ f[1] \in ToSet(ds)
             /\ \E n \in ToSet(names) : f[2] \in {n} \cup ToSet(Variants[n])
        /\ ~fold /\ (q.all \/ found = <<>>)
             => \A d \in ToSet(ds), n \in ToSet(names) : <<d, n>> \in disk => <<d, n>> \in ToSet(found)
    BY <1>2, <1>3, <1>4, OnePass
  <1>8. ASSUME NEW f \in ToSet(found)
        PROVE  f \in disk /\ f[1] \in ToSet(ds) /\ f[1] \in ToSet(Path[x].dirs) /\ Sourced(f)
    <2>1. f \in disk /\ f[1] \in ToSet(ds) /\ f[1] \in ToSet(Path[x].dirs)
      BY <1>3, <1>7
    <2>2. PICK n \in ToSet(names) : f[2] \in {n} \cup ToSet(Variants[n])
      BY <1>7
    <2>3. n \in ToSet(q.names) /\ Stands(f, n)
      BY <1>2, <2>2 DEF Stands
    <2> QED  BY <1>6, <2>1, <2>3 DEF Sourced
  <1>9. ASSUME ~fold, q.all \/ found = <<>>, NEW n \in ToSet(names), NEW d \in Dirs,
               OnElementDisk(x, <<d, n>>)
        PROVE  <<d, n>> \in ToSet(found)
    <2>1. <<d, n>> \in disk /\ d \in ToSet(ds)
      BY <1>5, <1>9
    <2> QED  BY <1>7, <1>9, <2>1
  <1>10. ASSUME ~fold, found = <<>> PROVE NotOnDisk(x)
    <2>1. ToSet(found) = {}
      BY <1>10 DEF ToSet
    <2> QED  BY <1>9, <1>10, <2>1 DEF NotOnDisk
  <1> QED  BY <1>6, <1>7, <1>8, <1>9, <1>10

\* Floating moves the elements of a list about, and loses none.
LEMMA FloatKeeps ==
    ASSUME NEW s \in Seq(Dirs), NEW mv, NEW m \in ToSet(s)
    PROVE  Float(s, mv, m) \in Seq(Dirs) /\ ToSet(Float(s, mv, m)) = ToSet(s)
  <1>1. CASE m \in mv
    BY <1>1 DEF Float
  <1>2. CASE m \notin mv
    <2> DEFINE n == Len(s)
               a == At(s, m)
               u == FirstUnmoved(s, mv)
               t == [p \in 1..n |-> IF p < u \/ a < p THEN s[p] ELSE IF p = u THEN m ELSE s[p - 1]]
    <2>1. n \in Nat /\ DOMAIN s = 1..n /\ \A p \in 1..n : s[p] \in Dirs
      OBVIOUS
    <2>2. a \in 1..n /\ s[a] = m
      BY <2>1 DEF At, ToSet
    <2>3. u \in 1..n /\ s[u] \notin mv /\ \A r \in 1..(u - 1) : s[r] \in mv
      <3> DEFINE U == {p \in 1..n : s[p] \notin mv}
      <3>1. U \in SUBSET Nat /\ U # {}
        BY <1>2, <2>1, <2>2
      <3>2. PICK p \in U : \A r \in U : p <= r
        <4> HIDE DEF U
        <4> QED  BY <3>1, Least
      <3>3. p \in 1..n /\ s[p] \notin mv
        BY <3>2
      <3>4. ASSUME NEW r \in 1..(p - 1) PROVE s[r] \in mv
        <4>1. r \in 1..n /\ ~ (p <= r)
          BY <2>1, <3>3
        <4>2. r \notin U
          BY <3>2, <4>1
        <4> QED  BY <4>1, <4>2
      <3> QED  BY <2>1, <3>3, <3>4 DEF FirstUnmoved
    <2>4. u <= a
      <3>1. SUFFICES ASSUME ~ (u <= a) PROVE FALSE
        OBVIOUS
      <3>2. a \in 1..(u - 1)
        BY <2>1, <2>2, <2>3, <3>1
      <3> QED  BY <1>2, <2>2, <2>3, <3>2
    <2>5. Float(s, mv, m) = t
      BY <1>2 DEF Float
    <2> HIDE DEF a, u, n
    <2>6. t = [p \in 1..n |-> t[p]] /\ DOMAIN t = 1..n
      OBVIOUS
    <2>7. \A p \in 1..n : t[p] = IF p < u \/ a < p THEN s[p] ELSE IF p = u THEN m ELSE s[p - 1]
      OBVIOUS
    <2> HIDE DEF t
    <2>8. ASSUME NEW p \in 1..n PROVE \E r \in 1..n : t[p] = s[r]
      <3>1. CASE p < u \/ a < p
        BY <2>7, <3>1
      <3>2. CASE ~(p < u \/ a < p) /\ p = u
        BY <2>2, <2>7, <3>2
      <3>3. CASE ~(p < u \/ a < p) /\ p # u
        <4>1. p - 1 \in 1..n
          BY <2>1, <2>3, <3>3
        <4> QED  BY <2>7, <3>3, <4>1
      <3> QED  BY <3>1, <3>2, <3>3
    <2>9. ASSUME NEW r \in 1..n PROVE \E p \in 1..n : t[p] = s[r]
      <3>1. CASE r < u \/ a < r
        BY <2>7, <3>1
      <3>2. CASE r = a
        <4>1. t[u] = m
          BY <2>1, <2>2, <2>3, <2>4, <2>7
        <4> QED  BY <2>2, <2>3, <3>2, <4>1
      <3>3. CASE ~(r < u \/ a < r) /\ r # a
        <4>1. r + 1 \in 1..n /\ ~(r + 1 < u) /\ ~(a < r + 1) /\ r + 1 # u /\ r + 1 - 1 = r
          BY <2>1, <2>2, <2>3, <3>3
        <4>2. t[r + 1] = s[r + 1 - 1]
          BY <2>7, <4>1
        <4> QED  BY <4>1, <4>2
      <3> QED  BY <3>1, <3>2, <3>3
    <2>10. t \in Seq(Dirs)
      <3>1. \A p \in 1..n : t[p] \in Dirs
        BY <2>1, <2>8
      <3> QED  BY <2>1, <2>6, <3>1
    <2>11. ToSet(t) = ToSet(s)
      <3>1. /\ \A z : z \in ToSet(t) <=> \E p \in 1..n : z = t[p]
            /\ \A z : z \in ToSet(s) <=> \E r \in 1..n : z = s[r]
        BY <2>1, <2>6 DEF ToSet
      <3>2. ToSet(t) \subseteq ToSet(s)
        BY <2>8, <3>1
      <3>3. ToSet(s) \subseteq ToSet(t)
        BY <2>9, <3>1
      <3> QED  BY <3>2, <3>3
    <2> QED  BY <2>5, <2>10, <2>11
  <1> QED  BY <1>1, <1>2

\* The directories of the hits float, and none is lost.
LEMMA FloatedKeeps ==
    ASSUME NEW dirs \in Seq(Dirs), NEW mv \in SUBSET Dirs, NEW hits \in Results,
           \A f \in ToSet(hits) : f[1] \in ToSet(dirs)
    PROVE  /\ Floated(dirs, mv, hits).dirs \in Seq(Dirs)
           /\ ToSet(Floated(dirs, mv, hits).dirs) = ToSet(dirs)
           /\ Floated(dirs, mv, hits).mv \in SUBSET Dirs
  <1> DEFINE n == Len(hits)
             sets == [k \in 1..n |-> mv \cup {hits[j][1] : j \in 1..(k - 1)}]
             list == CHOOSE list : list = [k \in 0..n |-> IF k = 0 THEN dirs
                       ELSE Float(list[k - 1], mv \cup {hits[j][1] : j \in 1..(k - 1)}, hits[k][1])]
             S == {s \in Seq(Dirs) : ToSet(s) = ToSet(dirs)}
             G == [k \in 1..n |-> [s \in S |-> Float(s, sets[k], hits[k][1])]]
  <1>1. Floated(dirs, mv, hits) = [dirs |-> list[n], mv |-> mv \cup {f[1] : f \in ToSet(hits)}]
    BY DEF Floated
  <1>2. n \in Nat /\ DOMAIN hits = 1..n /\ \A k \in 1..n : hits[k] \in Dirs \X Names
    BY DEF Results
  <1>3. \A k \in 1..n : hits[k][1] \in ToSet(dirs)
    BY <1>2 DEF ToSet
  <1>4. \A f \in ToSet(hits) : f[1] \in Dirs
    BY <1>2 DEF ToSet
  <1>5. dirs \in S
    OBVIOUS
  <1>6. ASSUME NEW k \in 1..n, NEW s \in S
        PROVE  Float(s, sets[k], hits[k][1]) \in S
    <2>1. s \in Seq(Dirs) /\ hits[k][1] \in ToSet(s) /\ ToSet(s) = ToSet(dirs)
      BY <1>3
    <2> QED  BY <2>1, FloatKeeps
  <1>7. G \in [1..n -> [S -> S]] /\ \A k \in 1..n, s \in S : G[k][s] = Float(s, sets[k], hits[k][1])
    BY <1>6
  <1>8. \A k \in 1..n : sets[k] = mv \cup {hits[j][1] : j \in 1..(k - 1)}
    OBVIOUS
  <1>9. \A s \in S : s \in Seq(Dirs) /\ ToSet(s) = ToSet(dirs)
    OBVIOUS
  <1> HIDE DEF n, S, G, sets
  <1>10. PICK g \in [0..n -> S] : Steps(g, n, dirs, G)
    BY <1>2, <1>5, <1>7, Recursion
  <1>11. \A k \in 0..n : g[k] = IF k = 0 THEN dirs ELSE G[k][g[k - 1]]
    BY <1>10 DEF Steps
  <1>12. g = [k \in 0..n |-> IF k = 0 THEN dirs
                ELSE Float(g[k - 1], mv \cup {hits[j][1] : j \in 1..(k - 1)}, hits[k][1])]
    <2>1. ASSUME NEW k \in 0..n
          PROVE  g[k] = IF k = 0 THEN dirs
                  ELSE Float(g[k - 1], mv \cup {hits[j][1] : j \in 1..(k - 1)}, hits[k][1])
      <3>1. CASE k = 0
        BY <1>11, <3>1
      <3>2. CASE k # 0
        <4>1. k \in 1..n /\ k - 1 \in 0..n
          BY <1>2, <3>2
        <4>2. g[k] = G[k][g[k - 1]] /\ g[k - 1] \in S
          BY <1>11, <3>2, <4>1
        <4>3. g[k] = Float(g[k - 1], sets[k], hits[k][1])
          BY <1>7, <4>1, <4>2
        <4> QED  BY <1>8, <3>2, <4>1, <4>3
      <3> QED  BY <3>1, <3>2
    <2> QED  BY <2>1
  <1>13. list = [k \in 0..n |-> IF k = 0 THEN dirs
                ELSE Float(list[k - 1], mv \cup {hits[j][1] : j \in 1..(k - 1)}, hits[k][1])]
    BY <1>12
  <1> HIDE DEF list
  <1>14. \A k \in 0..n : list[k] = IF k = 0 THEN dirs
                ELSE Float(list[k - 1], mv \cup {hits[j][1] : j \in 1..(k - 1)}, hits[k][1])
    BY <1>13
  <1>15. list[n] \in S
    <2> DEFINE T == {k \in 0..n : list[k] \in S}
    <2>1. 0 \in T
      <3>1. 0 \in 0..n
        BY <1>2
      <3>2. list[0] = dirs
        BY <1>14, <3>1
      <3> QED  BY <1>5, <3>1, <3>2
    <2>2. ASSUME NEW k \in 0..n, k \in T, k < n PROVE k + 1 \in T
      <3>1. k + 1 \in 1..n /\ k + 1 \in 0..n /\ k + 1 # 0 /\ k + 1 - 1 = k /\ list[k] \in S
        BY <1>2, <2>2
      <3>2. PICK i \in 1..n : i = k + 1
        BY <3>1
      <3>3. list[i] = Float(list[i - 1], mv \cup {hits[j][1] : j \in 1..(i - 1)}, hits[i][1])
        BY <1>14, <3>1, <3>2
      <3>4. list[i - 1] \in S
        BY <3>1, <3>2
      <3>5. list[i] = Float(list[i - 1], sets[i], hits[i][1])
        BY <1>8, <3>3
      <3>6. list[i] \in S
        BY <1>6, <3>4, <3>5
      <3> QED  BY <3>1, <3>2, <3>6
    <2> HIDE DEF T
    <2>3. \A k \in 0..n : k \in T /\ k < n => k + 1 \in T
      BY <2>2
    <2>4. \A k \in 0..n : k \in T
      BY <1>2, <2>1, <2>3, Upwards
    <2>5. n \in T
      BY <1>2, <2>4
    <2> QED  BY <2>5 DEF T
  <1> QED  BY <1>1, <1>4, <1>9, <1>15

\* Taking out repeated strings loses none.
LEMMA UniqifyKeeps ==
    ASSUME NEW s \in Results
    PROVE  /\ Uniqify(s) \in Results /\ ToSet(Uniqify(s)) = ToSet(s)
           /\ s = <<>> => Uniqify(s) = <<>>
  <1> DEFINE n == Len(s)
             f == [k \in DOMAIN s |-> IF \E j \in 1..(k - 1) : s[j] = s[k] THEN <<>> ELSE <<s[k]>>]
  <1>1. n \in Nat /\ DOMAIN s = 1..n /\ \A k \in 1..n : s[k] \in Dirs \X Names
    BY DEF Results
  <1>2. Uniqify(s) = FlattenSeq(f) /\ f = [k \in 1..n |-> f[k]] /\ DOMAIN f = 1..n
    BY <1>1 DEF Uniqify
  <1>3. \A k \in 1..n : f[k] = IF \E j \in 1..(k - 1) : s[j] = s[k] THEN <<>> ELSE <<s[k]>>
    BY <1>1
  <1> HIDE DEF f, n
  <1>4. \A k \in 1..n : f[k] = <<>> \/ f[k] = <<s[k]>>
    BY <1>3
  <1>5. ToSet(<<>>) = {} /\ \A z : ToSet(<<z>>) = {z}
    BY DEF ToSet
  <1>6. <<>> \in Results /\ \A z \in Dirs \X Names : <<z>> \in Results
    BY DEF Results
  <1>7. \A k \in 1..n : f[k] \in Results
    BY <1>1, <1>4, <1>6
  <1>8. /\ FlattenSeq(f) \in Results
        /\ \A z : z \in ToSet(FlattenSeq(f)) <=> \E k \in 1..n : z \in ToSet(f[k])
    BY <1>1, <1>2, <1>7, FlatMap DEF Results
  <1>9. \A z : z \in ToSet(s) <=> \E k \in 1..n : z = s[k]
    BY <1>1 DEF ToSet
  <1>10. ASSUME NEW z \in ToSet(FlattenSeq(f)) PROVE z \in ToSet(s)
    <2>1. PICK k \in 1..n : z \in ToSet(f[k])
      BY <1>8
    <2>2. z = s[k]
      BY <1>4, <1>5, <2>1
    <2> QED  BY <1>9, <2>2
  <1>11. ASSUME NEW z \in ToSet(s) PROVE z \in ToSet(FlattenSeq(f))
    <2> DEFINE T == {k \in 1..n : z = s[k]}
    <2>1. T \in SUBSET Nat /\ T # {}
      BY <1>1, <1>9
    <2>2. PICK k \in T : \A i \in T : k <= i
      <3> HIDE DEF T
      <3> QED  BY <2>1, Least
    <2>3. k \in 1..n /\ z = s[k]
      BY <2>2
    <2>4. ~ \E j \in 1..(k - 1) : s[j] = s[k]
      <3> SUFFICES ASSUME NEW j \in 1..(k - 1), s[j] = s[k] PROVE FALSE
        OBVIOUS
      <3>1. j \in 1..n /\ ~ (k <= j)
        BY <1>1, <2>3
      <3>2. j \in T
        BY <2>3, <3>1
      <3> QED  BY <2>2, <3>1, <3>2
    <2>5. f[k] = <<z>>
      BY <1>3, <2>3, <2>4
    <2> QED  BY <1>5, <1>8, <2>3, <2>5
  <1>12. ToSet(FlattenSeq(f)) = ToSet(s)
    BY <1>10, <1>11
  <1>13. s = <<>> => FlattenSeq(f) = <<>>
    <2>1. s \in Seq(Dirs \X Names) /\ FlattenSeq(f) \in Seq(Dirs \X Names)
      BY <1>8 DEF Results
    <2> QED  BY <1>12, <2>1, EmptyList
  <1> QED  BY <1>2, <1>8, <1>12, <1>13

-----------------------------------------------------------------------------
(* What is seen only becomes less *)

\* Nothing comes into the sight of the search: where an element has been
\* expanded, and in the database.
Recedes ==
  \A x \in DOMAIN Path :
    /\ Relevant(x)' <=> Relevant(x)
    /\ cache[x] # Null => cache'[x] # Null
    /\ \A f : Listed(x, f)' => Listed(x, f)
    /\ cache[x] # Null => \A f : OnElementDisk(x, f)' => OnElementDisk(x, f)

\* The query goes on.
GoesOn == q' = q /\ ph' = ph

\* Elements that had nothing still have nothing.
LEMMA EmptyStays ==
    ASSUME Recedes, GoesOn, NEW x \in DOMAIN Path
    PROVE  /\ names' = names /\ (Visited(x)' <=> Visited(x))
           /\ Unlisted(x) => Unlisted(x)'
           /\ cache[x] # Null /\ NotOnDisk(x) => cache'[x] # Null /\ NotOnDisk(x)'
           /\ Empty(x) => Empty(x)'
  <1>1. names' = names /\ must_exist' = must_exist
    BY DEF GoesOn, names, must_exist
  <1>2. /\ Relevant(x)' <=> Relevant(x)
        /\ cache[x] # Null => cache'[x] # Null
        /\ \A f : Listed(x, f)' => Listed(x, f)
        /\ cache[x] # Null => \A f : OnElementDisk(x, f)' => OnElementDisk(x, f)
    BY DEF Recedes
  <1>3. Visited(x)' <=> Visited(x)
    BY <1>1, <1>2 DEF Visited
  <1>4. Unlisted(x) => Unlisted(x)'
    BY <1>1, <1>2 DEF Unlisted
  <1>5. cache[x] # Null /\ NotOnDisk(x) => cache'[x] # Null /\ NotOnDisk(x)'
    BY <1>1, <1>2 DEF NotOnDisk
  <1> QED  BY <1>1, <1>3, <1>4, <1>5 DEF Empty

\* What elements had stays in the result.
LEMMA KeptStays ==
    ASSUME Recedes, GoesOn, NEW x \in DOMAIN Path, ToSet(ret) \subseteq ToSet(ret'), Kept(x)
    PROVE  Kept(x)'
  <1>1. names' = names
    BY DEF GoesOn, names
  <1>2. /\ Relevant(x)' <=> Relevant(x)
        /\ cache[x] # Null => cache'[x] # Null
        /\ \A f : Listed(x, f)' => Listed(x, f)
        /\ cache[x] # Null => \A f : OnElementDisk(x, f)' => OnElementDisk(x, f)
    BY DEF Recedes
  <1>3. \A f : OnElementDisk(x, f)' => ~Path[x].bang
    BY DEF OnElementDisk
  <1>4. (~Path[x].bang /\ ~Relevant(x) => cache[x] # Null)'
    BY <1>2 DEF Kept
  <1>5. ASSUME NEW n \in ToSet(names'), NEW d \in Dirs, NEW m \in {n} \cup ToSet(Aliases[n]),
               Listed(x, <<d, m>>)'
        PROVE  <<d, m>> \in ToSet(ret')
    BY <1>1, <1>2, <1>5 DEF Kept
  <1>6. ASSUME NEW n \in ToSet(names'), NEW d \in Dirs,
               ~Relevant(x)', OnElementDisk(x, <<d, n>>)'
        PROVE  <<d, n>> \in ToSet(ret')
    BY <1>1, <1>2, <1>3, <1>6 DEF Kept
  <1> QED  BY <1>4, <1>5, <1>6 DEF Kept

\* Elements that had nothing have all they had in the result.
LEMMA EmptyKept == ASSUME NEW x, Empty(x) PROVE Kept(x)
  <1>1. ~Path[x].bang /\ ~Relevant(x) => Visited(x)
    BY DEF Visited
  <1>2. \A f : OnElementDisk(x, f) => ~Path[x].bang
    BY DEF OnElementDisk
  <1> QED  BY <1>1, <1>2 DEF Empty, Kept, Unlisted, NotOnDisk

\* Where nothing that is looked at changes, nothing comes into sight.
LEMMA Still ==
    ASSUME UNCHANGED <<there, disk, db, cache, fresh>> PROVE Recedes
  <1>1. ASSUME NEW x \in DOMAIN Path PROVE (Relevant(x)' <=> Relevant(x)) /\ cache'[x] = cache[x]
    BY DEF Relevant
  <1>2. ASSUME NEW x \in DOMAIN Path, NEW f, Listed(x, f)' PROVE Listed(x, f)
    BY <1>1, <1>2 DEF Listed
  <1>3. ASSUME NEW x \in DOMAIN Path, NEW f, OnElementDisk(x, f)' PROVE OnElementDisk(x, f)
    <2>1. ElementDirs(x)' = ElementDirs(x)
      BY DEF ElementDirs
    <2> QED  BY <1>3, <2>1 DEF OnElementDisk
  <1> QED  BY <1>1, <1>2, <1>3 DEF Recedes

-----------------------------------------------------------------------------
(* Each step keeps the invariant *)

\* The invariant holds at first.
LEMMA InitIInv == Init => IInv
  <1> SUFFICES ASSUME Init PROVE IInv
    OBVIOUS
  <1>1. TypeOK
    <2>1. there \subseteq Dirs /\ disk \subseteq Dirs \X Names
      BY ConstantsAssumption DEF Init
    <2>2. db \in [Names -> Seq(Dirs)] \cup {Null}
      BY ConstantsAssumption DEF Init
    <2>3. e \in 1..(Len(Path) + 1)
      <3>1. Len(Path) \in Nat
        BY ConstantsAssumption
      <3> QED  BY <3>1 DEF Init
    <2>4. ret \in Results /\ answer \in [Compared -> Results \cup {Never}]
      BY DEF Init, Results
    <2>5. cache \in [DOMAIN Path -> Seq(Dirs) \cup {Null}] /\ moved \in [DOMAIN Path -> SUBSET Dirs]
      BY DEF Init
    <2> QED  BY <2>1, <2>2, <2>3, <2>4, <2>5 DEF Init, TypeOK
  <1>2. Types
    BY <1>1 DEF Init, Types
  <1>3. Remembered /\ Stages /\ AtHand /\ Returned
    BY DEF Init, Remembered, Stages, AtHand, Returned, Searching
  <1>4. Passing
    BY DEF Init, Passing, Searching
  <1> QED  BY <1>2, <1>3, <1>4 DEF IInv

\* A call begins.
LEMMA CallKeeps ==
    ASSUME IInv, NEW x \in Queries, Call(x) PROVE IInv'
  <1>1. /\ pc' = "db" /\ q' = x /\ ph' = 1 /\ e' = 1 /\ ret' = <<>> /\ fresh' = {}
        /\ UNCHANGED <<there, disk, db, cache, moved, answer, touched, made>>
    BY DEF Call, memory
  <1>2. TypeOK'
    <2>1. 1 \in 1..(Len(Path) + 1) /\ <<>> \in Results
      <3>1. Len(Path) \in Nat
        BY ConstantsAssumption
      <3> QED  BY <3>1 DEF Results
    <2> QED  BY <1>1, <2>1 DEF IInv, Types, TypeOK
  <1>3. Types'
    BY <1>1, <1>2 DEF IInv, Types
  <1>4. Remembered'
    BY <1>1 DEF IInv, Remembered
  <1>5. Stages' /\ AtHand' /\ Returned'
    BY <1>1 DEF Stages, AtHand, Returned, Searching, ToSet
  <1>6. Passing'
    BY <1>1 DEF Passing, Searching, PassedBy
  <1> QED  BY <1>3, <1>4, <1>5, <1>6 DEF IInv

\* The call returns.
LEMMA ReturnKeeps ==
    ASSUME IInv, Return PROVE IInv'
  <1>1. /\ pc = "return" /\ pc' = "idle" /\ q' = Null /\ ph' = 1 /\ e' = 1 /\ ret' = <<>> /\ fresh' = {}
        /\ answer' = [x \in Compared |-> IF x = q THEN ret ELSE answer[x]]
        /\ touched' = [x \in Compared |-> IF x = q THEN fresh ELSE touched[x]]
        /\ UNCHANGED <<there, disk, db, cache, moved, made>>
    BY DEF Return, memory
  <1>2. TypeOK'
    <2>1. 1 \in 1..(Len(Path) + 1) /\ <<>> \in Results
      <3>1. Len(Path) \in Nat
        BY ConstantsAssumption
      <3> QED  BY <3>1 DEF Results
    <2>2. answer' \in [Compared -> Results \cup {Never}]
      BY <1>1 DEF IInv, Types, TypeOK
    <2>3. touched' \in [Compared -> SUBSET (Dirs \X Names)]
      BY <1>1 DEF IInv, Types, TypeOK
    <2> QED  BY <1>1, <2>1, <2>2, <2>3 DEF IInv, Types, TypeOK
  <1>3. Types'
    BY <1>1, <1>2 DEF IInv, Types
  <1>4. Remembered'
    BY <1>1 DEF IInv, Remembered
  <1>5. Stages' /\ AtHand' /\ Returned'
    BY <1>1 DEF Stages, AtHand, Returned, Searching
  <1>6. Passing'
    BY <1>1 DEF Passing, Searching, PassedBy
  <1> QED  BY <1>3, <1>4, <1>5, <1>6 DEF IInv

\* A file that the result may come from is one still, while the query is the
\* same and the database names no fewer directories.
LEMMA SourceStays ==
    ASSUME NEW f, Sourced(f), q' = q, Recedes,
           db # Null => \A m \in Names : ToSet(db[m]) \subseteq ToSet(db'[m])
    PROVE  Sourced(f)'
  <1>1. PICK n \in ToSet(q.names), x \in DOMAIN Path :
          /\ Stands(f, n) /\ f[1] \in ToSet(Path[x].dirs)
          /\ Path[x].bang => Relevant(x) /\ \E m \in Names : f[1] \in ToSet(db[m])
    BY DEF Sourced
  <1>2. Path[x].bang => Relevant(x)' /\ \E m \in Names : f[1] \in ToSet(db'[m])
    <2> SUFFICES ASSUME Path[x].bang PROVE Relevant(x)' /\ \E m \in Names : f[1] \in ToSet(db'[m])
      OBVIOUS
    <2>1. Relevant(x) /\ db # Null
      BY <1>1 DEF Relevant
    <2>2. Relevant(x)'
      BY <2>1 DEF Recedes
    <2>3. PICK m \in Names : f[1] \in ToSet(db[m])
      BY <1>1
    <2> QED  BY <2>1, <2>2, <2>3
  <1>3. Stands(f, n)' <=> Stands(f, n)
    BY DEF Stands
  <1> QED  BY <1>1, <1>2, <1>3 DEF Sourced

\* The directories of an element that has been expanded stay, whatever
\* directories come to exist.
LEMMA Expanded ==
    ASSUME cache' = cache, NEW x, cache[x] # Null PROVE ElementDirs(x)' = ElementDirs(x)
  BY DEF ElementDirs

\* What holds of the passed elements and of the one in hand, and of what has
\* been found, when nothing comes into sight.
LEMMA PassingStays ==
    ASSUME IInv, Recedes, GoesOn, e' = e, ret' = ret, pc' = pc, fresh \subseteq fresh'
    PROVE  Passing' /\ AtHand' /\ Stages'
  <1>1. Searching' = Searching /\ PassedBy' = PassedBy
    BY DEF Searching, PassedBy
  <1>2. PassedBy \subseteq DOMAIN Path /\ (Searching => 1..(e - 1) \subseteq DOMAIN Path)
    <2>1. e \in 1..(Len(Path) + 1) /\ Len(Path) \in Nat /\ DOMAIN Path = 1..Len(Path)
      BY ConstantsAssumption DEF IInv, Types, TypeOK
    <2> QED  BY <2>1 DEF PassedBy
  <1>3. \A x \in DOMAIN Path : Empty(x) => Empty(x)'
    BY EmptyStays
  <1>4. \A x \in DOMAIN Path : Kept(x) => Kept(x)'
    BY KeptStays
  <1>5. \A f : \A x \in DOMAIN Path : Listed(x, f)' => Listed(x, f)
    BY DEF Recedes
  <1>6. q' = q /\ ph' = ph
    BY DEF GoesOn
  <1>7. Passing'
    <2>1. Searching' /\ ret' = <<>> /\ (q'.all => q'.api = "find") => \A x \in 1..(e' - 1) : Empty(x)'
      BY <1>1, <1>2, <1>3, <1>6 DEF IInv, Passing
    <2>2. pc' \in {"make", "made"} => \A x \in DOMAIN Path : Empty(x)'
      BY <1>3 DEF IInv, Passing
    <2>3. pc' \in {"db", "disk", "fold", "make"} /\ ph' = 2
            => \A x \in DOMAIN Path, n \in ToSet(q'.names), d \in Dirs : ~Listed(x, <<d, n>>)'
      BY <1>5, <1>6 DEF IInv, Passing
    <2>4. pc' # "idle" /\ pc' \notin {"make", "made"} /\ q'.api = "find" /\ q'.all
            => \A x \in PassedBy' : Kept(x)'
      BY <1>1, <1>2, <1>4, <1>6 DEF IInv, Passing
    <2> QED  BY <2>1, <2>2, <2>3, <2>4 DEF Passing
  <1>8. AtHand'
    <2> SUFFICES ASSUME pc \in {"disk", "fold"} PROVE AtHand'
      BY DEF AtHand
    <2>1. e \in DOMAIN Path
      BY DEF IInv, Types
    <2>2. /\ Visited(e)' <=> Visited(e)
          /\ Unlisted(e) => Unlisted(e)'
          /\ cache[e] # Null /\ NotOnDisk(e) => cache'[e] # Null /\ NotOnDisk(e)'
      <3>1. \A x \in DOMAIN Path :
              /\ Visited(x)' <=> Visited(x)
              /\ Unlisted(x) => Unlisted(x)'
              /\ cache[x] # Null /\ NotOnDisk(x) => cache'[x] # Null /\ NotOnDisk(x)'
        BY EmptyStays
      <3>2. PICK x \in DOMAIN Path : x = e
        BY <2>1
      <3>3. /\ Visited(x)' <=> Visited(x)
            /\ Unlisted(x) => Unlisted(x)'
            /\ cache[x] # Null /\ NotOnDisk(x) => cache'[x] # Null /\ NotOnDisk(x)'
        BY <3>1
      <3> QED  BY <3>2, <3>3 DEF Visited, Unlisted, NotOnDisk
    <2> QED  BY <1>6, <2>2 DEF IInv, AtHand
  <1>9. Stages'
    <2>1. Stages
      BY DEF IInv
    <2>2. ret' = ret /\ pc' = pc /\ q' = q /\ ph' = ph /\ fresh \subseteq fresh'
      BY <1>6
    <2> QED  BY ONLY <2>1, <2>2 DEF Stages, Searching
  <1> QED  BY <1>7, <1>8, <1>9

\* Another program creates or deletes a file.
LEMMA ChangeKeeps ==
    ASSUME IInv, NEW f \in Files, Change(f) PROVE IInv'
  <1>1. /\ f[1] \in there
        /\ disk' = IF f \in disk THEN disk \ {f} ELSE disk \cup {f}
        /\ made' = made \ {f}
        /\ touched' = [x \in Compared |-> IF answer[x] = Never THEN {} ELSE touched[x] \cup {f}]
        /\ fresh' = IF pc = "idle" THEN fresh ELSE fresh \cup {f}
        /\ UNCHANGED <<there, db, cache, moved, pc, q, ph, e, ret, answer>>
    BY DEF Change, memory, call
  <1>2. f \in Dirs \X Names
    BY ConstantsAssumption
  <1>3. TypeOK'
    <2>1. touched' \in [Compared -> SUBSET (Dirs \X Names)]
      BY <1>1, <1>2 DEF IInv, Types, TypeOK
    <2> QED  BY <1>1, <1>2, <2>1 DEF IInv, Types, TypeOK
  <1>4. Types'
    BY <1>1, <1>3 DEF IInv, Types
  <1>5. Remembered'
    <2>1. made' \subseteq disk' /\ made' \subseteq made
      BY <1>1 DEF IInv, Remembered
    <2>2. pc' \notin {"made", "return"} => made' \cap fresh' = {}
      BY <1>1 DEF IInv, Remembered
    <2> QED  BY <1>1, <2>1, <2>2 DEF IInv, Remembered
  <1>6. CASE pc = "idle"
    BY <1>1, <1>4, <1>5, <1>6 DEF IInv, Stages, AtHand, Returned, Passing, Searching
  <1>7. CASE pc # "idle"
    <2>1. disk' \ fresh' \subseteq disk \ fresh /\ fresh \subseteq fresh' /\ disk \cup fresh \subseteq disk' \cup fresh'
      BY <1>1, <1>7
    <2>2. Recedes
      <3>1. ASSUME NEW x \in DOMAIN Path PROVE (Relevant(x)' <=> Relevant(x)) /\ cache'[x] = cache[x]
        BY <1>1 DEF Relevant
      <3>2. ASSUME NEW x \in DOMAIN Path, NEW g, Listed(x, g)' PROVE Listed(x, g)
        BY <1>1, <2>1, <3>1, <3>2 DEF Listed
      <3>3. ASSUME NEW x \in DOMAIN Path, NEW g, OnElementDisk(x, g)' PROVE OnElementDisk(x, g)
        <4>1. ElementDirs(x)' = ElementDirs(x)
          BY <1>1 DEF ElementDirs
        <4> QED  BY <2>1, <3>3, <4>1 DEF OnElementDisk
      <3> QED  BY <3>1, <3>2, <3>3 DEF Recedes
    <2>3. GoesOn
      BY <1>1 DEF GoesOn
    <2>4. Passing' /\ AtHand' /\ Stages'
      BY <1>1, <2>1, <2>2, <2>3, PassingStays
    <2>5. Returned'
      <3>1. \A g : Sourced(g) => Sourced(g)'
        BY <1>1, <2>2, SourceStays
      <3>2. \A x \in DOMAIN Path : Empty(x) => Empty(x)'
        BY <2>2, <2>3, EmptyStays
      <3>3. \A g \in ToSet(ret') : g \in disk' \cup fresh' /\ (g \in fresh' \/ Sourced(g)')
        BY <1>1, <1>7, <2>1, <3>1 DEF IInv, Returned
      <3>4. ASSUME pc = "return", ~q.all, ret # <<>>, ret[1] \notin fresh'
            PROVE  \E x \in DOMAIN Path : /\ ret[1][1] \in ToSet(Path[x].dirs)
                                          /\ \A y \in 1..(x - 1) : Empty(y)'
        <4>1. PICK x \in DOMAIN Path : /\ ret[1][1] \in ToSet(Path[x].dirs)
                                       /\ \A y \in 1..(x - 1) : Empty(y)
          BY <2>1, <3>4 DEF IInv, Returned
        <4>2. 1..(x - 1) \subseteq DOMAIN Path
          <5>1. DOMAIN Path = 1..Len(Path) /\ Len(Path) \in Nat
            BY ConstantsAssumption
          <5> QED  BY <5>1
        <4> QED  BY <3>2, <4>1, <4>2
      <3> QED  BY <1>1, <3>3, <3>4 DEF Returned
    <2> QED  BY <1>4, <1>5, <2>4, <2>5 DEF IInv
  <1> QED  BY <1>6, <1>7

\* Another program makes a directory.
LEMMA MakeDirectoryKeeps ==
    ASSUME IInv, NEW d \in Dirs, MakeDirectory(d) PROVE IInv'
  <1>1. /\ there' = there \cup {d}
        /\ UNCHANGED <<disk, db, cache, moved, pc, q, ph, e, ret, answer, touched, fresh, made>>
    BY DEF MakeDirectory, memory, call, history
  <1>2. Types'
    BY <1>1 DEF IInv, Types, TypeOK
  <1>3. Remembered'
    BY <1>1 DEF IInv, Remembered
  <1>4. Recedes
    <2>1. ASSUME NEW x \in DOMAIN Path PROVE (Relevant(x)' <=> Relevant(x)) /\ cache'[x] = cache[x]
      BY <1>1 DEF Relevant
    <2>2. ASSUME NEW x \in DOMAIN Path, NEW g, Listed(x, g)' PROVE Listed(x, g)
      BY <1>1, <2>1, <2>2 DEF Listed
    <2>3. ASSUME NEW x \in DOMAIN Path, cache[x] # Null, NEW g, OnElementDisk(x, g)'
          PROVE  OnElementDisk(x, g)
      <3>1. ElementDirs(x)' = ElementDirs(x)
        BY <1>1, <2>3, Expanded
      <3> QED  BY <1>1, <2>3, <3>1 DEF OnElementDisk
    <2> QED  BY <2>1, <2>2, <2>3 DEF Recedes
  <1>5. GoesOn
    BY <1>1 DEF GoesOn
  <1>6. Passing' /\ AtHand' /\ Stages'
    BY <1>1, <1>4, <1>5, PassingStays
  <1>7. Returned'
    <2>1. \A g : Sourced(g) => Sourced(g)'
      BY <1>1, <1>4, SourceStays
    <2>2. \A x \in DOMAIN Path : Empty(x) => Empty(x)'
      BY <1>4, <1>5, EmptyStays
    <2>3. \A x \in DOMAIN Path : 1..(x - 1) \subseteq DOMAIN Path
      <3>1. DOMAIN Path = 1..Len(Path) /\ Len(Path) \in Nat
        BY ConstantsAssumption
      <3> QED  BY <3>1
    <2>4. pc' # "idle" => \A g \in ToSet(ret') : g \in disk' \cup fresh' /\ (g \in fresh' \/ Sourced(g)')
      BY <1>1, <2>1 DEF IInv, Returned
    <2>5. pc' = "return" /\ ~q'.all /\ ret' # <<>> /\ ret'[1] \notin fresh' =>
            \E x \in DOMAIN Path :
              /\ ret'[1][1] \in ToSet(Path[x].dirs)
              /\ \A y \in 1..(x - 1) : Empty(y)'
      BY <1>1, <2>2, <2>3 DEF IInv, Returned
    <2> QED  BY <2>4, <2>5 DEF Returned
  <1> QED  BY <1>2, <1>3, <1>6, <1>7 DEF IInv

\* The elements before one of the path are elements of the path.
LEMMA Before == \A x \in DOMAIN Path : 1..(x - 1) \subseteq DOMAIN Path
  <1>1. DOMAIN Path = 1..Len(Path) /\ Len(Path) \in Nat
    BY ConstantsAssumption
  <1> QED  BY <1>1

\* The script prints the name of a file that is there, or of one it makes.
LEMMA ScriptPrintsKeeps ==
    ASSUME IInv, ScriptPrints PROVE IInv'
  <1>1. PICK f \in {g \in disk : g[2] = q.make} \cup {<<MakeDir, q.make>>} :
          /\ there' = there \cup {f[1]}
          /\ disk' = disk \cup {f}
          /\ ret' = <<f>>
          /\ fresh' = fresh \cup {f}
          /\ touched' = [x \in Compared |-> IF answer[x] = Never THEN {} ELSE touched[x] \cup {f}]
    BY DEF ScriptPrints
  <1>2. pc = "make" /\ pc' = "made" /\ UNCHANGED <<db, cache, moved, q, ph, e, answer, made>>
    BY DEF ScriptPrints, memory
  <1>3. f \in Dirs \X Names
    <2>1. q.make \in Names /\ disk \subseteq Dirs \X Names /\ MakeDir \in Dirs
      BY <1>2, ConstantsAssumption DEF IInv, Stages, Types, TypeOK
    <2> QED  BY <2>1
  <1>4. ret' \in Results /\ Len(ret') = 1 /\ ret'[1] = f /\ ToSet(ret') = {f}
    BY <1>1, <1>3 DEF Results, ToSet
  <1>5. Types'
    <2>1. touched' \in [Compared -> SUBSET (Dirs \X Names)]
      BY <1>1, <1>3 DEF IInv, Types, TypeOK
    <2>2. f[1] \in Dirs
      BY <1>3
    <2>3. TypeOK'
      BY <1>1, <1>2, <1>3, <1>4, <2>1, <2>2 DEF IInv, Types, TypeOK
    <2> QED  BY <1>2, <2>3 DEF IInv, Types
  <1>6. Remembered'
    BY <1>1, <1>2 DEF IInv, Remembered
  <1>7. Recedes
    <2>1. ASSUME NEW x \in DOMAIN Path PROVE (Relevant(x)' <=> Relevant(x)) /\ cache'[x] = cache[x]
      BY <1>2 DEF Relevant
    <2>2. ASSUME NEW g, g \in disk' \ fresh' PROVE g \in disk \ fresh
      BY <1>1, <2>2
    <2>3. ASSUME NEW x \in DOMAIN Path, NEW g, Listed(x, g)' PROVE Listed(x, g)
      BY <1>2, <2>1, <2>2, <2>3 DEF Listed
    <2>4. ASSUME NEW x \in DOMAIN Path, cache[x] # Null, NEW g, OnElementDisk(x, g)'
          PROVE  OnElementDisk(x, g)
      <3>1. ElementDirs(x)' = ElementDirs(x)
        BY <1>2, <2>4, Expanded
      <3> QED  BY <2>2, <2>4, <3>1 DEF OnElementDisk
    <2> QED  BY <2>1, <2>3, <2>4 DEF Recedes
  <1>8. GoesOn
    BY <1>2 DEF GoesOn
  <1>9. Stages' /\ AtHand'
    BY <1>1, <1>2, <1>4 DEF IInv, Stages, AtHand, Searching
  <1>10. Passing'
    <2>1. \A x \in DOMAIN Path : Empty(x)'
      BY <1>2, <1>7, <1>8, EmptyStays DEF IInv, Passing
    <2> QED  BY <1>2, <2>1 DEF Passing, Searching
  <1>11. Returned'
    BY <1>1, <1>2, <1>4 DEF Returned
  <1> QED  BY <1>5, <1>6, <1>9, <1>10, <1>11 DEF IInv

\* The script makes nothing.
LEMMA ScriptFailsKeeps ==
    ASSUME IInv, ScriptFails PROVE IInv'
  <1>1. /\ pc = "make" /\ pc' = "return"
        /\ UNCHANGED <<there, disk, db, cache, moved, q, ph, e, ret, answer, touched, fresh, made>>
    BY DEF ScriptFails, memory, call, history
  <1>2. Types' /\ Remembered'
    BY <1>1 DEF IInv, Types, TypeOK, Remembered
  <1>3. Stages' /\ AtHand'
    BY <1>1 DEF IInv, Stages, AtHand, Searching
  <1>4. Recedes /\ GoesOn
    BY <1>1, Still DEF GoesOn
  <1>5. Passing'
    <2>1. \A x \in DOMAIN Path : Empty(x)
      BY <1>1 DEF IInv, Passing
    <2>2. \A x \in DOMAIN Path : Kept(x)
      BY <2>1, EmptyKept
    <2>3. \A x \in DOMAIN Path : Kept(x)'
      BY <1>1, <1>4, <2>2, KeptStays
    <2> QED  BY <1>1, <2>3 DEF Passing, Searching, PassedBy
  <1>6. Returned'
    <2>1. ret' = <<>> /\ ToSet(<<>>) = {}
      BY <1>1 DEF IInv, Stages, ToSet
    <2> QED  BY <2>1 DEF Returned
  <1> QED  BY <1>2, <1>3, <1>5, <1>6 DEF IInv

\* What the script printed is looked at, and enters the database.
LEMMA MakeTexKeeps ==
    ASSUME IInv, MakeTex PROVE IInv'
  <1>1. /\ pc = "made" /\ pc' = "return"
        /\ UNCHANGED <<there, disk, cache, moved, q, ph, e, answer, touched, fresh>>
    BY DEF MakeTex
  <1>2. /\ ret[1] \in disk =>
             /\ made' = made \cup {ret[1]} /\ ret' = ret
             /\ db' = IF db = Null THEN Null ELSE [db EXCEPT ![ret[1][2]] = Append(@, ret[1][1])]
        /\ ret[1] \notin disk => ret' = <<>> /\ db' = db /\ made' = made
    BY DEF MakeTex
  <1>3. /\ TypeOK /\ db \in [Names -> Seq(Dirs)] \cup {Null} /\ disk \subseteq Dirs \X Names
        /\ ret \in Results /\ Len(ret) = 1 /\ ret[1] \in fresh /\ Null \notin [Names -> Seq(Dirs)]
    BY <1>1, ConstantsAssumption DEF IInv, Types, TypeOK, Stages
  <1>4. ToSet(ret) = {ret[1]} /\ ret[1] \in Dirs \X Names
    BY <1>3 DEF Results, ToSet
  <1>5. /\ db' \in [Names -> Seq(Dirs)] \cup {Null} /\ (db' = Null <=> db = Null)
        /\ db # Null => \A m \in Names : ToSet(db[m]) \subseteq ToSet(db'[m])
        /\ db # Null => \A m \in Names : \A d \in ToSet(db'[m]) : d \in ToSet(db[m]) \/ <<d, m>> = ret[1]
        /\ db # Null /\ ret[1] \in disk => ret[1][1] \in ToSet(db'[ret[1][2]])
    <2>1. CASE ret[1] \notin disk \/ db = Null
      BY <1>2, <1>3, <2>1
    <2>2. CASE ret[1] \in disk /\ db # Null
      <3>1. PICK d \in Dirs, n \in Names : ret[1] = <<d, n>>
        BY <1>4
      <3>2. db' = [db EXCEPT ![n] = Append(db[n], d)] /\ db \in [Names -> Seq(Dirs)]
        BY <1>2, <1>3, <2>2, <3>1
      <3>3. db[n] \in Seq(Dirs) /\ Append(db[n], d) = db[n] \o <<d>> /\ Append(db[n], d) \in Seq(Dirs)
        BY <3>2
      <3>4. ToSet(Append(db[n], d)) = ToSet(db[n]) \cup {d}
        <4>1. \A s, t \in Seq(Dirs) : ToSet(s \o t) = ToSet(s) \cup ToSet(t)
          BY ConcatIsUnion
        <4>2. <<d>> \in Seq(Dirs) /\ ToSet(<<d>>) = {d}
          BY DEF ToSet
        <4> QED  BY <3>3, <4>1, <4>2
      <3>5. db' \in [Names -> Seq(Dirs)] /\ \A m \in Names : db'[m] = IF m = n THEN Append(db[n], d) ELSE db[m]
        BY <3>2, <3>3
      <3>6. db' # Null
        BY <1>3, <3>5
      <3>7. \A m \in Names : ToSet(db'[m]) = IF m = n THEN ToSet(db[n]) \cup {d} ELSE ToSet(db[m])
        BY <3>4, <3>5
      <3> QED  BY <2>2, <3>1, <3>5, <3>6, <3>7
    <2> QED  BY <2>1, <2>2
  <1>6. Types'
    <2>1. ret' \in Results /\ made' \subseteq Dirs \X Names
      <3>1. <<>> \in Results /\ made \subseteq Dirs \X Names
        BY <1>3 DEF Results, TypeOK
      <3>2. made' \subseteq Dirs \X Names
        BY <1>2, <1>4, <3>1
      <3>3. ret' \in Results
        BY <1>2, <1>3, <3>1
      <3> QED  BY <3>2, <3>3
    <2>2. TypeOK'
      BY <1>1, <1>3, <1>5, <2>1 DEF TypeOK
    <2> QED  BY <1>1, <2>2 DEF IInv, Types
  <1>7. Remembered'
    <2>1. made' \subseteq disk'
      BY <1>1, <1>2 DEF IInv, Remembered
    <2>2. ASSUME db' # Null, NEW f \in made' PROVE f[1] \in ToSet(db'[f[2]])
      <3>1. CASE f \in made
        <4>1. f[2] \in Names /\ f[1] \in ToSet(db[f[2]]) /\ db # Null
          BY <1>3, <1>5, <2>2, <3>1 DEF IInv, Remembered
        <4> QED  BY <1>5, <4>1
      <3>2. CASE f \notin made
        BY <1>2, <1>5, <2>2, <3>2
      <3> QED  BY <3>1, <3>2
    <2> QED  BY <1>1, <2>1, <2>2 DEF Remembered
  <1>8. Recedes /\ GoesOn
    <2>1. ASSUME NEW x \in DOMAIN Path PROVE (Relevant(x)' <=> Relevant(x)) /\ cache'[x] = cache[x]
      BY <1>1, <1>5 DEF Relevant
    <2>2. ASSUME NEW x \in DOMAIN Path, NEW f, Listed(x, f)' PROVE Listed(x, f)
      <3>1. f \in disk \ fresh /\ f[1] \in ToSet(Path[x].dirs) /\ f[1] \in ToSet(db'[f[2]]) /\ Relevant(x)
        BY <1>1, <2>1, <2>2 DEF Listed
      <3>2. f = <<f[1], f[2]>> /\ f[2] \in Names /\ f # ret[1] /\ db # Null
        BY <1>3, <3>1 DEF Relevant
      <3>3. f[1] \in ToSet(db[f[2]])
        BY <1>5, <3>1, <3>2
      <3> QED  BY <3>1, <3>3 DEF Listed
    <2>3. ASSUME NEW x \in DOMAIN Path, NEW f, OnElementDisk(x, f)' PROVE OnElementDisk(x, f)
      <3>1. ElementDirs(x)' = ElementDirs(x)
        BY <1>1 DEF ElementDirs
      <3> QED  BY <1>1, <2>3, <3>1 DEF OnElementDisk
    <2> QED  BY <1>1, <2>1, <2>2, <2>3 DEF Recedes, GoesOn
  <1>9. Stages' /\ AtHand'
    BY <1>1 DEF IInv, Stages, AtHand, Searching
  <1>10. Passing'
    <2>1. \A x \in DOMAIN Path : Empty(x)'
      BY <1>1, <1>8, EmptyStays DEF IInv, Passing
    <2>2. \A x \in DOMAIN Path : Kept(x)'
      <3>1. \A x : ~Path[x].bang /\ ~Relevant(x)' => Visited(x)'
        BY DEF Visited
      <3>2. \A x, f : OnElementDisk(x, f)' => ~Path[x].bang
        BY DEF OnElementDisk
      <3> QED  BY <2>1, <3>1, <3>2 DEF Empty, Kept, Unlisted, NotOnDisk
    <2> QED  BY <1>1, <2>2 DEF Passing, Searching, PassedBy
  <1>11. Returned'
    <2>1. CASE ret' = <<>>
      <3>1. ToSet(<<>>) = {}
        BY DEF ToSet
      <3> QED  BY <2>1, <3>1 DEF Returned
    <2>2. CASE ret' = ret
      BY <1>1, <1>3, <1>4, <2>2 DEF Returned
    <2> QED  BY <1>2, <2>1, <2>2
  <1> QED  BY <1>6, <1>7, <1>9, <1>10, <1>11 DEF IInv

\* What an element yields joins the result, and the search goes on or returns.
LEMMA TakeKeeps ==
    ASSUME IInv, Recedes, GoesOn, Searching, NEW x \in DOMAIN Path, x = e,
           NEW found \in Results, Take(found), UNCHANGED <<disk, db, fresh>>,
           \A f \in ToSet(found) : f \in disk /\ f[1] \in ToSet(Path[x].dirs) /\ Sourced(f),
           found = <<>> /\ (q.all => q.api = "find") => Empty(x)',
           q.all /\ q.api = "find" /\ ToSet(found) \subseteq ToSet(ret') => Kept(x)'
    PROVE  /\ ret' \in Results /\ e' \in 1..(Len(Path) + 1) /\ pc' \in {"db", "return"}
           /\ Stages' /\ Passing' /\ AtHand' /\ Returned'
  <1>1. q' = q /\ ph' = ph
    BY DEF GoesOn
  <1>2. pc \in {"db", "disk", "fold"} /\ (~q.all => ret = <<>>) /\ (ph = 2 => q.api = "find")
    BY DEF IInv, Stages, Searching
  <1>3. x \in 1..Len(Path) /\ Len(Path) \in Nat /\ DOMAIN Path = 1..Len(Path)
    BY ConstantsAssumption
  <1>4. \A f : Sourced(f) => Sourced(f)'
    <2>1. db # Null => \A m \in Names : ToSet(db[m]) \subseteq ToSet(db'[m])
      OBVIOUS
    <2> QED  BY <1>1, <2>1, SourceStays
  <1>5. ret = <<>> /\ (q.all => q.api = "find") => \A y \in 1..(x - 1) : Empty(y)'
    <2>1. ret = <<>> /\ (q.all => q.api = "find") => \A y \in 1..(x - 1) : Empty(y)
      BY DEF IInv, Passing
    <2>2. \A y \in DOMAIN Path : Empty(y) => Empty(y)'
      BY EmptyStays
    <2> QED  BY <2>1, <2>2, Before
  <1>6. ret \in Results /\ \A f \in ToSet(ret) : f \in disk \cup fresh /\ (f \in fresh \/ Sourced(f))
    BY <1>2 DEF IInv, Types, TypeOK, Returned
  <1>7. CASE found # <<>> /\ ~q.all
    <2>1. ret' = FirstOnly(found) /\ e' = e /\ pc' = "return"
      BY <1>7 DEF Take
    <2>2. ret' \in Results /\ ret' = <<found[1]>> /\ ToSet(ret') \subseteq ToSet(found) /\ found[1] \in ToSet(found)
      BY <1>7, <2>1, TheFirst DEF Results
    <2>3. Stages' /\ AtHand' /\ Passing'
      BY <1>1, <1>2, <1>7, <2>1 DEF Stages, AtHand, Passing, Searching
    <2>4. Returned'
      <3>1. \A f \in ToSet(ret') : f \in disk' \cup fresh' /\ (f \in fresh' \/ Sourced(f)')
        BY <1>4, <2>2
      <3>2. ret'[1] = found[1] /\ ret'[1][1] \in ToSet(Path[x].dirs)
        BY <2>2
      <3>3. \A y \in 1..(x - 1) : Empty(y)'
        BY <1>2, <1>5, <1>7
      <3> QED  BY <3>1, <3>2, <3>3 DEF Returned
    <2>5. e' \in 1..(Len(Path) + 1)
      BY <1>3, <2>1
    <2> QED  BY <2>1, <2>2, <2>3, <2>4, <2>5
  <1>8. CASE ~(found # <<>> /\ ~q.all)
    <2>1. ret' = ret \o found /\ e' = e + 1 /\ pc' = "db"
      BY <1>8 DEF Take
    <2>2. ret' \in Results /\ ToSet(ret') = ToSet(ret) \cup ToSet(found)
      <3>1. \A s, t \in Seq(Dirs \X Names) : ToSet(s \o t) = ToSet(s) \cup ToSet(t)
        BY ConcatIsUnion
      <3>2. ret \in Seq(Dirs \X Names) /\ found \in Seq(Dirs \X Names)
        BY <1>6 DEF Results
      <3>3. ret \o found \in Seq(Dirs \X Names)
        BY <3>2
      <3> QED  BY <2>1, <3>1, <3>2, <3>3 DEF Results
    <2>3. ret' = <<>> <=> ret = <<>> /\ found = <<>>
      <3>1. \A s \in Seq(Dirs \X Names) : s = <<>> <=> ToSet(s) = {}
        BY EmptyList
      <3> QED  BY <1>6, <2>2, <3>1 DEF Results
    <2>4. e' \in 1..(Len(Path) + 1) /\ 1..(e' - 1) = 1..(x - 1) \cup {x}
      BY <1>3, <2>1
    <2>5. Stages'
      BY <1>1, <1>2, <1>8, <2>1, <2>3 DEF Stages, Searching
    <2>6. AtHand'
      BY <2>1 DEF AtHand
    <2>7. Passing'
      <3>1. Searching' /\ ret' = <<>> /\ (q'.all => q'.api = "find") => \A y \in 1..(e' - 1) : Empty(y)'
        BY <1>1, <1>5, <2>3, <2>4
      <3>2. pc' \in {"db", "disk", "fold", "make"} /\ ph' = 2
              => \A y \in DOMAIN Path, n \in ToSet(q'.names), d \in Dirs : ~Listed(y, <<d, n>>)'
        <4>1. ph = 2 => \A y \in DOMAIN Path, n \in ToSet(q.names), d \in Dirs : ~Listed(y, <<d, n>>)
          BY <1>2 DEF IInv, Passing
        <4>2. \A f : \A y \in DOMAIN Path : Listed(y, f)' => Listed(y, f)
          BY DEF Recedes
        <4> QED  BY <1>1, <4>1, <4>2
      <3>3. q'.api = "find" /\ q'.all => \A y \in PassedBy' : Kept(y)'
        <4> SUFFICES ASSUME q.api = "find", q.all, NEW y \in PassedBy' PROVE Kept(y)'
          BY <1>1
        <4>1. y \in 1..(x - 1) \cup {x}
          BY <2>1, <2>4 DEF PassedBy, Searching
        <4>2. CASE y = x
          BY <2>2, <4>2
        <4>3. CASE y \in 1..(x - 1)
          <5>1. Kept(y) /\ y \in DOMAIN Path
            BY <1>2, <4>3, Before DEF IInv, Passing, PassedBy
          <5> QED  BY <2>2, <5>1, KeptStays
        <4> QED  BY <4>1, <4>2, <4>3
      <3> QED  BY <2>1, <3>1, <3>2, <3>3 DEF Passing
    <2>8. Returned'
      BY <1>4, <1>6, <2>1, <2>2 DEF Returned
    <2> QED  BY <2>1, <2>2, <2>4, <2>5, <2>6, <2>7, <2>8
  <1> QED  BY <1>7, <1>8

\* The database is consulted for an element.
LEMMA ConsultDbKeeps ==
    ASSUME IInv, ConsultDb PROVE IInv'
  <1>1. /\ pc = "db" /\ e <= Len(Path)
        /\ IF OnDisk(e, DbFound(e)) THEN pc' = "disk" /\ UNCHANGED <<e, ret>> ELSE Take(DbFound(e))
        /\ UNCHANGED <<there, disk, db, cache, moved, q, ph, answer, touched, fresh, made>>
    BY DEF ConsultDb, DbFound, memory, history
  <1>2. PICK x \in DOMAIN Path : x = e
    <2>1. e \in 1..(Len(Path) + 1) /\ Len(Path) \in Nat /\ DOMAIN Path = 1..Len(Path)
      BY ConstantsAssumption DEF IInv, Types, TypeOK
    <2> QED  BY <1>1, <2>1
  <1> DEFINE found == DbFound(x)
  <1>3. Recedes /\ GoesOn
    BY <1>1, Still DEF GoesOn
  <1>4. /\ found \in Results
        /\ \A f \in ToSet(found) : f \in disk /\ f[1] \in ToSet(Path[x].dirs) /\ Sourced(f)
        /\ found = <<>> /\ (q.all => q.api = "find") => Unlisted(x)
        /\ q.all /\ q.api = "find" =>
             \A n \in ToSet(names), d \in Dirs : \A m \in {n} \cup ToSet(Aliases[n]) :
               Listed(x, <<d, m>>) => <<d, m>> \in ToSet(found)
    BY <1>1, DbYields DEF IInv
  <1>5. ~Relevant(x) => found = <<>>
    BY DEF DbFound
  <1>6. \/ OnDisk(x, found) /\ pc' = "disk" /\ e' = e /\ ret' = ret
        \/ ~OnDisk(x, found) /\ Take(found)
    BY <1>1, <1>2
  <1> HIDE DEF found
  <1>7. /\ TypeOK /\ Types /\ Remembered /\ Stages /\ Passing /\ Returned
    BY DEF IInv, Types
  <1>8. made' = made /\ disk' = disk /\ db' = db /\ fresh' = fresh /\ (pc = "db" => made \cap fresh = {})
    BY <1>1, <1>7 DEF Remembered
  <1>9. names' = names /\ (Relevant(x)' <=> Relevant(x))
    BY <1>1 DEF names, Relevant
  <1>10. CASE OnDisk(x, found) /\ pc' = "disk" /\ e' = e /\ ret' = ret
    <2>1. Types'
      <3>1. TypeOK'
        BY <1>1, <1>7, <1>10 DEF TypeOK
      <3> QED  BY <1>1, <1>2, <1>7, <1>10, <3>1 DEF Types
    <2>2. Remembered'
      BY <1>1, <1>7, <1>8, <1>10 DEF Remembered
    <2>3. Stages'
      BY <1>1, <1>7, <1>10 DEF Stages, Searching
    <2>4. Passing'
      <3>1. Searching /\ Searching' /\ PassedBy' = PassedBy /\ q' = q /\ ph' = ph
        BY <1>1, <1>10 DEF Searching, PassedBy
      <3>2. \A y \in DOMAIN Path : Empty(y) => Empty(y)'
        BY <1>3, EmptyStays
      <3>3. \A y \in DOMAIN Path : Kept(y) => Kept(y)'
        BY <1>3, <1>10, KeptStays
      <3>4. \A f : \A y \in DOMAIN Path : Listed(y, f)' => Listed(y, f)
        BY <1>3 DEF Recedes
      <3>5. 1..(e - 1) \subseteq DOMAIN Path /\ PassedBy = 1..(e - 1)
        BY <1>2, <3>1, Before DEF PassedBy
      <3>6. ret' = <<>> /\ (q'.all => q'.api = "find") => \A y \in 1..(e' - 1) : Empty(y)'
        BY <1>7, <1>10, <3>1, <3>2, <3>5 DEF Passing
      <3>7. ph' = 2 => \A y \in DOMAIN Path, n \in ToSet(q'.names), d \in Dirs : ~Listed(y, <<d, n>>)'
        BY <1>1, <1>7, <3>1, <3>4 DEF Passing
      <3>8. q'.api = "find" /\ q'.all => \A y \in PassedBy' : Kept(y)'
        BY <1>1, <1>7, <3>1, <3>3, <3>5 DEF Passing
      <3> QED  BY <1>10, <3>1, <3>6, <3>7, <3>8 DEF Passing
    <2>5. AtHand'
      <3>1. Visited(x)
        BY <1>10 DEF OnDisk, Visited
      <3>2. (q.all => q.api = "find") => Unlisted(x)
        <4>1. CASE ~Relevant(x)
          BY <4>1 DEF Unlisted, Listed
        <4>2. CASE Relevant(x)
          BY <1>4, <1>10, <4>2 DEF OnDisk
        <4> QED  BY <4>1, <4>2
      <3>3. Visited(x)' /\ ((q.all => q.api = "find") => Unlisted(x)')
        BY <1>3, <3>1, <3>2, EmptyStays
      <3> QED  BY <1>1, <1>2, <1>10, <3>3 DEF AtHand, Visited, Unlisted
    <2>6. Returned'
      <3>1. \A f : Sourced(f) => Sourced(f)'
        <4>1. db # Null => \A m \in Names : ToSet(db[m]) \subseteq ToSet(db'[m])
          BY <1>8
        <4> QED  BY <1>1, <1>3, <4>1, SourceStays
      <3> QED  BY <1>1, <1>7, <1>8, <1>10, <3>1 DEF Returned
    <2> QED  BY <2>1, <2>2, <2>3, <2>4, <2>5, <2>6 DEF IInv
  <1>11. CASE ~OnDisk(x, found) /\ Take(found)
    <2>1. found = <<>> /\ (q.all => q.api = "find") => Empty(x)'
      <3> SUFFICES ASSUME found = <<>>, q.all => q.api = "find" PROVE Empty(x)'
        OBVIOUS
      <3>1. Unlisted(x) /\ ~Visited(x)
        BY <1>4, <1>11 DEF OnDisk, Visited
      <3>2. Empty(x)
        BY <3>1 DEF Empty
      <3> QED  BY <1>3, <3>2, EmptyStays
    <2>2. q.all /\ q.api = "find" /\ ToSet(found) \subseteq ToSet(ret') => Kept(x)'
      <3> SUFFICES ASSUME q.all, q.api = "find", ToSet(found) \subseteq ToSet(ret') PROVE Kept(x)'
        OBVIOUS
      <3>1. Path[x].bang \/ Relevant(x)
        BY <1>11 DEF OnDisk
      <3>2. \A f : OnElementDisk(x, f)' => ~Path[x].bang
        BY DEF OnElementDisk
      <3>3. \A f : Listed(x, f)' => Listed(x, f)
        BY <1>3 DEF Recedes
      <3>4. \A n \in ToSet(names'), d \in Dirs : \A m \in {n} \cup ToSet(Aliases[n]) :
              Listed(x, <<d, m>>)' => <<d, m>> \in ToSet(ret')
        BY <1>4, <1>9, <3>3
      <3> QED  BY <1>9, <3>1, <3>2, <3>4 DEF Kept
    <2>3. /\ ret' \in Results /\ e' \in 1..(Len(Path) + 1) /\ pc' \in {"db", "return"}
          /\ Stages' /\ Passing' /\ AtHand' /\ Returned'
      <3>1. Searching
        BY <1>1 DEF Searching
      <3> QED  BY <1>2, <1>3, <1>4, <1>8, <1>11, <2>1, <2>2, <3>1, TakeKeeps
    <2>4. Types'
      <3>1. TypeOK'
        BY <1>1, <1>7, <2>3 DEF TypeOK
      <3> QED  BY <1>1, <1>7, <2>3, <3>1 DEF Types
    <2>5. Remembered'
      BY <1>1, <1>7, <1>8, <2>3 DEF Remembered
    <2> QED  BY <2>3, <2>4, <2>5 DEF IInv
  <1> QED  BY <1>6, <1>10, <1>11

\* A pass over the directories of an element.
LEMMA PassKeeps ==
    ASSUME IInv, NEW fold \in BOOLEAN, pc = (IF fold THEN "fold" ELSE "disk"), Pass(fold)
    PROVE  IInv'
  <1>1. PICK x \in DOMAIN Path : x = e
    BY DEF IInv, Types
  <1> DEFINE dirs == ElementDirs(x)
             found == DirSearch(dirs, names, q.all, fold)
             floated == Floated(dirs, moved[x], found)
             again == ~fold /\ found = <<>> /\ dirs # <<>>
                        /\ \E n \in ToSet(names) : Variants[n] # <<>>
  <1>2. /\ cache' = [cache EXCEPT ![x] = floated.dirs]
        /\ moved' = [moved EXCEPT ![x] = floated.mv]
        /\ \/ again /\ pc' = "fold" /\ e' = e /\ ret' = ret
           \/ ~again /\ Take(found)
        /\ UNCHANGED <<there, disk, db, q, ph, answer, touched, fresh, made>>
    BY <1>1 DEF Pass, history
  <1>3. again => ~fold /\ found = <<>>
    OBVIOUS
  <1>4. /\ pc \in {"disk", "fold"} /\ Searching
        /\ Types /\ TypeOK /\ Remembered /\ Stages /\ Passing /\ AtHand /\ Returned
    BY DEF IInv, Types, Searching
  <1>5. Visited(x) /\ ((q.all => q.api = "find") => Unlisted(x)) /\ (fold => cache[x] # Null /\ NotOnDisk(x))
    BY <1>1, <1>4 DEF AtHand, Visited, Unlisted, NotOnDisk
  <1>6. /\ dirs \in Seq(Dirs) /\ ToSet(dirs) \subseteq ToSet(Path[x].dirs)
        /\ dirs = ElementDirs(x)
    BY <1>4, DirsOf
  <1>7. /\ found \in Results
        /\ \A f \in ToSet(found) :
             /\ f \in disk /\ f[1] \in ToSet(dirs) /\ f[1] \in ToSet(Path[x].dirs)
             /\ Sourced(f)
        /\ ~fold /\ found = <<>> => NotOnDisk(x)
        /\ ~fold /\ q.all =>
             \A n \in ToSet(names), d \in Dirs :
               OnElementDisk(x, <<d, n>>) => <<d, n>> \in ToSet(found)
    BY <1>4, <1>5, DiskYields
  <1> HIDE DEF again, found, dirs
  <1>8. floated.dirs \in Seq(Dirs) /\ ToSet(floated.dirs) = ToSet(dirs) /\ floated.mv \in SUBSET Dirs
    <2>1. moved[x] \in SUBSET Dirs
      BY <1>4 DEF TypeOK
    <2> QED  BY <1>6, <1>7, <2>1, FloatedKeeps
  <1> HIDE DEF floated
  <1>9. /\ cache'[x] = floated.dirs /\ \A y \in DOMAIN Path : y # x => cache'[y] = cache[y]
        /\ cache'[x] # Null
        /\ cache' \in [DOMAIN Path -> Seq(Dirs) \cup {Null}] /\ moved' \in [DOMAIN Path -> SUBSET Dirs]
    BY <1>2, <1>4, <1>8, ConstantsAssumption DEF TypeOK
  <1>10. \A y \in DOMAIN Path : ToSet(ElementDirs(y)') = ToSet(ElementDirs(y))
    <2> SUFFICES ASSUME NEW y \in DOMAIN Path PROVE ToSet(ElementDirs(y)') = ToSet(ElementDirs(y))
      OBVIOUS
    <2>1. CASE y = x
      <3>1. ElementDirs(y)' = floated.dirs
        BY <1>9, <2>1 DEF ElementDirs
      <3> QED  BY <1>6, <1>8, <2>1, <3>1
    <2>2. CASE y # x
      <3>1. ElementDirs(y)' = ElementDirs(y)
        BY <1>2, <1>9, <2>2 DEF ElementDirs
      <3> QED  BY <3>1
    <2> QED  BY <2>1, <2>2
  <1>11. \A f : \A y \in DOMAIN Path : OnElementDisk(y, f)' <=> OnElementDisk(y, f)
    <2> SUFFICES ASSUME NEW y \in DOMAIN Path, NEW f PROVE OnElementDisk(y, f)' <=> OnElementDisk(y, f)
      OBVIOUS
    <2>1. ToSet(ElementDirs(y)') = ToSet(ElementDirs(y))
      BY <1>10
    <2>2. OnElementDisk(y, f)' <=> ~Path[y].bang /\ f \in disk' \ fresh' /\ f[1] \in ToSet(ElementDirs(y)')
      BY DEF OnElementDisk
    <2> QED  BY <1>2, <2>1, <2>2 DEF OnElementDisk
  <1>12. Recedes /\ GoesOn
    <2>1. \A y \in DOMAIN Path : (Relevant(y)' <=> Relevant(y)) /\ (cache[y] # Null => cache'[y] # Null)
      BY <1>2, <1>9 DEF Relevant
    <2>2. \A f : \A y \in DOMAIN Path : Listed(y, f)' => Listed(y, f)
      BY <1>2, <2>1 DEF Listed
    <2> QED  BY <1>2, <1>11, <2>1, <2>2 DEF Recedes, GoesOn
  <1>13. \A y \in DOMAIN Path : cache'[y] # Null => ToSet(cache'[y]) \subseteq ToSet(Path[y].dirs)
    BY <1>4, <1>6, <1>8, <1>9 DEF Types
  <1>14. names' = names /\ (Relevant(x)' <=> Relevant(x)) /\ (Visited(x)' <=> Visited(x))
    BY <1>12, EmptyStays DEF Recedes
  <1>15. found = <<>> /\ (q.all => q.api = "find") => Empty(x)' /\ NotOnDisk(x)'
    <2> SUFFICES ASSUME found = <<>>, q.all => q.api = "find" PROVE Empty(x)' /\ NotOnDisk(x)'
      OBVIOUS
    <2>1. Unlisted(x)'
      BY <1>5, <1>12, EmptyStays
    <2>2. NotOnDisk(x)'
      BY <1>5, <1>7, <1>11, <1>14 DEF NotOnDisk
    <2> QED  BY <1>9, <2>1, <2>2 DEF Empty
  <1>16. CASE again /\ pc' = "fold" /\ e' = e /\ ret' = ret
    <2>1. Types'
      <3>1. TypeOK'
        BY <1>2, <1>4, <1>9, <1>16 DEF TypeOK
      <3> QED  BY <1>1, <1>2, <1>4, <1>13, <1>16, <3>1 DEF Types
    <2>2. Remembered'
      BY <1>2, <1>4, <1>16 DEF Remembered
    <2>3. Stages'
      BY <1>2, <1>4, <1>16 DEF Stages, Searching
    <2>4. Passing'
      <3>1. Searching /\ Searching' /\ PassedBy' = PassedBy /\ q' = q /\ ph' = ph
        BY <1>2, <1>4, <1>16 DEF Searching, PassedBy
      <3>2. \A y \in DOMAIN Path : Empty(y) => Empty(y)'
        BY <1>12, EmptyStays
      <3>3. \A y \in DOMAIN Path : Kept(y) => Kept(y)'
        BY <1>12, <1>16, KeptStays
      <3>4. \A f : \A y \in DOMAIN Path : Listed(y, f)' => Listed(y, f)
        BY <1>12 DEF Recedes
      <3>5. 1..(e - 1) \subseteq DOMAIN Path /\ PassedBy = 1..(e - 1)
        BY <1>1, <3>1, Before DEF PassedBy
      <3>6. ret' = <<>> /\ (q'.all => q'.api = "find") => \A y \in 1..(e' - 1) : Empty(y)'
        BY <1>4, <1>16, <3>1, <3>2, <3>5 DEF Passing
      <3>7. ph' = 2 => \A y \in DOMAIN Path, n \in ToSet(q'.names), d \in Dirs : ~Listed(y, <<d, n>>)'
        BY <1>4, <3>1, <3>4 DEF Passing
      <3>8. q'.api = "find" /\ q'.all => \A y \in PassedBy' : Kept(y)'
        BY <1>4, <3>1, <3>3, <3>5 DEF Passing
      <3> QED  BY <1>16, <3>1, <3>6, <3>7, <3>8 DEF Passing
    <2>5. AtHand'
      <3>1. Visited(x)' /\ ((q.all => q.api = "find") => Unlisted(x)')
        BY <1>5, <1>12, EmptyStays
      <3>2. NotOnDisk(x)'
        BY <1>3, <1>7, <1>11, <1>14, <1>16 DEF NotOnDisk
      <3> QED  BY <1>1, <1>2, <1>9, <1>16, <3>1, <3>2 DEF AtHand, Visited, Unlisted, NotOnDisk
    <2>6. Returned'
      <3>1. \A f : Sourced(f) => Sourced(f)'
        <4>1. db # Null => \A m \in Names : ToSet(db[m]) \subseteq ToSet(db'[m])
          BY <1>2
        <4> QED  BY <1>2, <1>12, <4>1, SourceStays
      <3> QED  BY <1>2, <1>4, <1>16, <3>1 DEF Returned
    <2> QED  BY <2>1, <2>2, <2>3, <2>4, <2>5, <2>6 DEF IInv
  <1>17. CASE ~again /\ Take(found)
    <2>1. q.all /\ q.api = "find" /\ ToSet(found) \subseteq ToSet(ret') => Kept(x)'
      <3> SUFFICES ASSUME q.all, q.api = "find", ToSet(found) \subseteq ToSet(ret') PROVE Kept(x)'
        OBVIOUS
      <3>1. \A n \in ToSet(names'), d \in Dirs : \A m \in {n} \cup ToSet(Aliases[n]) : ~Listed(x, <<d, m>>)'
        BY <1>5, <1>12, EmptyStays DEF Unlisted
      <3>2. \A n \in ToSet(names'), d \in Dirs : OnElementDisk(x, <<d, n>>)' => <<d, n>> \in ToSet(ret')
        BY <1>5, <1>7, <1>11, <1>14 DEF NotOnDisk
      <3> QED  BY <1>9, <3>1, <3>2 DEF Kept
    <2>2. /\ ret' \in Results /\ e' \in 1..(Len(Path) + 1) /\ pc' \in {"db", "return"}
          /\ Stages' /\ Passing' /\ AtHand' /\ Returned'
      <3>1. /\ IInv /\ Recedes /\ GoesOn /\ Searching /\ x \in DOMAIN Path /\ x = e
            /\ found \in Results /\ Take(found) /\ UNCHANGED <<disk, db, fresh>>
        BY <1>1, <1>2, <1>4, <1>7, <1>12, <1>17
      <3>2. \A f \in ToSet(found) : f \in disk /\ f[1] \in ToSet(Path[x].dirs) /\ Sourced(f)
        BY <1>7
      <3>3. found = <<>> /\ (q.all => q.api = "find") => Empty(x)'
        BY <1>15
      <3> QED  BY ONLY <2>1, <3>1, <3>2, <3>3, TakeKeeps
    <2>3. Types'
      <3>1. TypeOK'
        BY <1>2, <1>4, <1>9, <2>2 DEF TypeOK
      <3> QED  BY <1>2, <1>4, <1>13, <2>2, <3>1 DEF Types
    <2>4. Remembered'
      BY <1>2, <1>4, <2>2 DEF Remembered
    <2> QED  BY <2>2, <2>3, <2>4 DEF IInv
  <1> QED  BY <1>2, <1>16, <1>17

\* The path is exhausted.
LEMMA EndOfPathKeeps ==
    ASSUME IInv, EndOfPath PROVE IInv'
  <1>1. /\ pc = "db" /\ e > Len(Path)
        /\ ret' = (IF q.api = "find" THEN Uniqify(ret) ELSE ret)
        /\ \/ /\ ret = <<>> /\ q.api = "find" /\ q.must
              /\ \/ ph = 1 /\ pc' = "db" /\ ph' = 2 /\ e' = 1
                 \/ ph # 1 /\ q.make # Null /\ pc' = "make" /\ ph' = ph /\ e' = e
                 \/ ph # 1 /\ q.make = Null /\ pc' = "return" /\ ph' = ph /\ e' = e
           \/ ~(ret = <<>> /\ q.api = "find" /\ q.must) /\ pc' = "return" /\ ph' = ph /\ e' = e
        /\ UNCHANGED <<there, disk, db, cache, moved, q, answer, touched, fresh, made>>
    BY DEF EndOfPath, memory, history
  <1>2. /\ Types /\ TypeOK /\ Remembered /\ Stages /\ Passing /\ Returned
        /\ q \in Queries /\ Searching
    BY <1>1 DEF IInv, Types, Searching
  <1>3. 1..(e - 1) = DOMAIN Path /\ PassedBy = DOMAIN Path /\ 1 \in 1..(Len(Path) + 1)
    <2>1. e \in 1..(Len(Path) + 1) /\ Len(Path) \in Nat /\ DOMAIN Path = 1..Len(Path)
      BY <1>2, ConstantsAssumption DEF TypeOK
    <2> QED  BY <1>1, <1>2, <2>1 DEF PassedBy
  <1>4. ret' \in Results /\ ToSet(ret') = ToSet(ret) /\ (ret = <<>> => ret' = <<>>)
    BY <1>1, <1>2, UniqifyKeeps DEF TypeOK
  <1>5. Types'
    <2>1. TypeOK'
      BY <1>1, <1>2, <1>3, <1>4 DEF TypeOK
    <2> QED  BY <1>1, <1>2, <2>1 DEF Types
  <1>6. Remembered'
    BY <1>1, <1>2 DEF Remembered
  <1>7. Recedes
    BY <1>1, Still
  <1>8. \A f : \A x \in DOMAIN Path : Listed(x, f)' => Listed(x, f)
    BY <1>7 DEF Recedes
  <1>9. ret = <<>> /\ q.api = "find" => \A x \in DOMAIN Path : Empty(x)
    BY <1>2, <1>3 DEF Passing
  <1>10. q.make \in Names \cup {Null}
    BY <1>2, NamesGiven
  <1>11. ph \in {1, 2} /\ (ph = 1 => names = q.names)
    BY <1>2, NamesGiven DEF TypeOK
  <1>12. ToSet(<<>>) = {}
    BY DEF ToSet
  <1>13. CASE ret = <<>> /\ q.api = "find" /\ ph = 1 /\ pc' = "db" /\ ph' = 2 /\ e' = 1
    <2>1. Stages' /\ AtHand' /\ Returned'
      BY <1>1, <1>4, <1>12, <1>13 DEF Stages, AtHand, Returned, Searching
    <2>2. \A x \in DOMAIN Path, n \in ToSet(q.names), d \in Dirs : ~Listed(x, <<d, n>>)
      BY <1>9, <1>11, <1>13 DEF Empty, Unlisted
    <2>3. Passing'
      BY <1>1, <1>8, <1>13, <2>2 DEF Passing, Searching, PassedBy
    <2> QED  BY <1>5, <1>6, <2>1, <2>3 DEF IInv
  <1>14. CASE ret = <<>> /\ q.api = "find" /\ ph # 1 /\ q.make # Null /\ pc' = "make" /\ ph' = ph /\ e' = e
    <2>1. Stages' /\ AtHand' /\ Returned'
      BY <1>1, <1>2, <1>4, <1>10, <1>11, <1>12, <1>14 DEF Stages, AtHand, Returned, Searching
    <2>2. \A x \in DOMAIN Path : Empty(x)'
      BY <1>1, <1>7, <1>9, <1>14, EmptyStays DEF GoesOn
    <2>3. \A x \in DOMAIN Path, n \in ToSet(q.names), d \in Dirs : ~Listed(x, <<d, n>>)
      BY <1>1, <1>2, <1>11, <1>14 DEF Passing
    <2>4. Passing'
      BY <1>1, <1>8, <1>14, <2>2, <2>3 DEF Passing, Searching
    <2> QED  BY <1>5, <1>6, <2>1, <2>4 DEF IInv
  <1>15. CASE pc' = "return" /\ ph' = ph /\ e' = e
    <2>1. GoesOn
      BY <1>1, <1>15 DEF GoesOn
    <2>2. Stages' /\ AtHand'
      BY <1>1, <1>2, <1>15 DEF Stages, AtHand, Searching
    <2>3. Passing'
      <3>1. q.api = "find" /\ q.all => \A x \in DOMAIN Path : Kept(x)
        BY <1>1, <1>2, <1>3 DEF Passing
      <3>2. q.api = "find" /\ q.all => \A x \in DOMAIN Path : Kept(x)'
        BY <1>4, <1>7, <2>1, <3>1, KeptStays
      <3> QED  BY <1>1, <1>15, <3>2 DEF Passing, Searching, PassedBy
    <2>4. Returned'
      <3>1. \A f : Sourced(f) => Sourced(f)'
        <4>1. db # Null => \A m \in Names : ToSet(db[m]) \subseteq ToSet(db'[m])
          BY <1>1
        <4> QED  BY <1>1, <1>7, <4>1, SourceStays
      <3>2. ~q.all => ret' = <<>>
        BY <1>2, <1>4 DEF Stages
      <3> QED  BY <1>1, <1>2, <1>4, <1>15, <3>1, <3>2 DEF Returned
    <2> QED  BY <1>5, <1>6, <2>2, <2>3, <2>4 DEF IInv
  <1> QED  BY <1>1, <1>13, <1>14, <1>15

\* Every step keeps the invariant.
LEMMA Step == IInv /\ [Next]_vars => IInv'
  <1> SUFFICES ASSUME IInv, [Next]_vars PROVE IInv'
    OBVIOUS
  <1>1. ASSUME NEW x \in Queries, Call(x) PROVE IInv'
    BY <1>1, CallKeeps
  <1>2. CASE ConsultDb
    BY <1>2, ConsultDbKeeps
  <1>3. CASE SearchDisk
    <2>1. pc = (IF FALSE THEN "fold" ELSE "disk") /\ Pass(FALSE)
      BY <1>3 DEF SearchDisk
    <2> QED  BY <2>1, PassKeeps
  <1>4. CASE SearchFolded
    <2>1. pc = (IF TRUE THEN "fold" ELSE "disk") /\ Pass(TRUE)
      BY <1>4 DEF SearchFolded
    <2> QED  BY <2>1, PassKeeps
  <1>5. CASE EndOfPath
    BY <1>5, EndOfPathKeeps
  <1>6. CASE ScriptPrints
    BY <1>6, ScriptPrintsKeeps
  <1>7. CASE ScriptFails
    BY <1>7, ScriptFailsKeeps
  <1>8. CASE MakeTex
    BY <1>8, MakeTexKeeps
  <1>9. CASE Return
    BY <1>9, ReturnKeeps
  <1>10. ASSUME NEW f \in Files, Change(f) PROVE IInv'
    BY <1>10, ChangeKeeps
  <1>11. ASSUME NEW d \in Dirs, MakeDirectory(d) PROVE IInv'
    BY <1>11, MakeDirectoryKeeps
  <1>12. CASE UNCHANGED vars
    <2>1. UNCHANGED <<there, disk, db, cache, moved, pc, q, ph, e, ret, answer, touched, fresh, made>>
      BY <1>12 DEF vars, memory, call, history
    <2>2. Types' /\ Remembered'
      BY <2>1 DEF IInv, Types, TypeOK, Remembered
    <2>3. Recedes /\ GoesOn
      BY <2>1, Still DEF GoesOn
    <2>4. Passing' /\ AtHand' /\ Stages'
      BY <2>1, <2>3, PassingStays
    <2>5. Returned'
      <3>1. \A f : Sourced(f) => Sourced(f)'
        BY <2>1, <2>3, SourceStays
      <3>2. \A x \in DOMAIN Path : Empty(x) => Empty(x)'
        BY <2>3, EmptyStays
      <3>3. pc' # "idle" => \A g \in ToSet(ret') : g \in disk' \cup fresh' /\ (g \in fresh' \/ Sourced(g)')
        BY <2>1, <3>1 DEF IInv, Returned
      <3>4. pc' = "return" /\ ~q'.all /\ ret' # <<>> /\ ret'[1] \notin fresh' =>
              \E x \in DOMAIN Path :
                /\ ret'[1][1] \in ToSet(Path[x].dirs)
                /\ \A y \in 1..(x - 1) : Empty(y)'
        BY <2>1, <3>2, Before DEF IInv, Returned
      <3> QED  BY <3>3, <3>4 DEF Returned
    <2> QED  BY <2>2, <2>4, <2>5 DEF IInv
  <1> QED  BY <1>1, <1>2, <1>3, <1>4, <1>5, <1>6, <1>7, <1>8, <1>9, <1>10, <1>11, <1>12 DEF Next

-----------------------------------------------------------------------------
(* The theorems *)

\* The invariant holds throughout.
LEMMA Invariant == Spec => []IInv
  BY InitIInv, Step, PTL DEF Spec

\* The state has its type: the lists of directories and results are of
\* directories and files, whatever floats, and a call is where its query puts it.
THEOREM SearchTypeCorrect == Spec => []TypeOK
  <1>1. IInv => TypeOK
    BY DEF IInv, Types
  <1> QED  BY <1>1, Invariant, PTL

\* A search returns nothing that was not a readable file at some moment of the
\* search (kpathsea_readable_file after every look at ls-R), under a name that
\* stands for one it was given.
THEOREM FilesFoundAreReal == Spec => []FoundIsReal
  <1>1. IInv => FoundIsReal
    BY DEF IInv, Returned, FoundIsReal, Sourced
  <1> QED  BY <1>1, Invariant, PTL

\* The result of a search for one file comes from the first element of the path
\* that has one, though directories float and files come and go.
THEOREM FirstElementWins == Spec => []FirstOnPath
  <1>1. IInv => FirstOnPath
    <2> SUFFICES ASSUME IInv, pc = "return", ~q.all, ret # <<>>, ret[1] \notin fresh
                 PROVE  \E x \in DOMAIN Path :
                          /\ ret[1][1] \in ToSet(Path[x].dirs)
                          /\ \A y \in 1..(x - 1), n \in ToSet(names), d \in Dirs :
                               /\ ~Listed(y, <<d, n>>)
                               /\ ~Relevant(y) \/ must_exist => ~OnElementDisk(y, <<d, n>>)
      BY DEF FirstOnPath
    <2>1. PICK x \in DOMAIN Path : /\ ret[1][1] \in ToSet(Path[x].dirs)
                                   /\ \A y \in 1..(x - 1) : Empty(y)
      BY DEF IInv, Returned
    <2>2. ASSUME NEW y, Empty(y), NEW n \in ToSet(names), NEW d \in Dirs
          PROVE  /\ ~Listed(y, <<d, n>>)
                 /\ ~Relevant(y) \/ must_exist => ~OnElementDisk(y, <<d, n>>)
      <3>1. ~Listed(y, <<d, n>>)
        BY <2>2 DEF Empty, Unlisted
      <3>2. OnElementDisk(y, <<d, n>>) => ~Path[y].bang
        BY DEF OnElementDisk
      <3> QED  BY <2>2, <3>1, <3>2 DEF Empty, Visited, NotOnDisk
    <2> QED  BY <2>1, <2>2
  <1> QED  BY <1>1, Invariant, PTL

\* A script is run only for a file that is nowhere the search could have seen
\* it, and never again for what it made in this run.
THEOREM NothingMadeAgain == Spec => []MadeOnlyIfMissing
  <1>1. IInv => MadeOnlyIfMissing
    <2> SUFFICES ASSUME IInv, pc = "make", NEW x \in DOMAIN Path, NEW d \in Dirs
                 PROVE  /\ \A n \in ToSet(q.names) : ~Listed(x, <<d, n>>)
                        /\ \A n \in ToSet(q.again) : ~OnElementDisk(x, <<d, n>>)
                        /\ \A f \in made : f[2] \in ToSet(q.names) /\ Relevant(x)
                                             => f[1] \notin ToSet(Path[x].dirs)
      BY DEF MadeOnlyIfMissing
    <2>1. ph = 2 /\ q.api = "find" /\ names = q.again /\ must_exist
      BY DEF IInv, Stages, names, must_exist
    <2>2. \A g \in Dirs, n \in ToSet(q.names) : ~Listed(x, <<g, n>>)
      BY <2>1 DEF IInv, Passing
    <2>3. \A n \in ToSet(q.again) : ~OnElementDisk(x, <<d, n>>)
      <3>1. Empty(x)
        BY DEF IInv, Passing
      <3>2. \A f : OnElementDisk(x, f) => ~Path[x].bang
        BY DEF OnElementDisk
      <3> QED  BY <2>1, <3>1, <3>2 DEF Empty, Visited, NotOnDisk
    <2>4. ASSUME NEW f \in made, f[2] \in ToSet(q.names), Relevant(x), f[1] \in ToSet(Path[x].dirs)
          PROVE  FALSE
      <3>1. f \in disk /\ f \notin fresh /\ f \in Dirs \X Names
        BY DEF IInv, Remembered, Types, TypeOK
      <3>2. f = <<f[1], f[2]>> /\ f[1] \in Dirs
        BY <3>1
      <3>3. f[1] \in ToSet(db[f[2]])
        BY <2>4 DEF IInv, Remembered, Relevant
      <3>4. Listed(x, f)
        BY <2>4, <3>1, <3>3 DEF Listed
      <3> QED  BY <2>2, <2>4, <3>2, <3>4
    <2> QED  BY <2>2, <2>3, <2>4
  <1> QED  BY <1>1, Invariant, PTL

\* A search for all files returns every file that the database lists under an
\* element of the path, and every file of the elements that only the disk knows.
THEOREM AllFilesFound == Spec => []AllFound
  <1>1. IInv => AllFound
    <2> SUFFICES ASSUME IInv, pc = "return", q.api = "find", q.all, NEW x \in DOMAIN Path,
                        NEW n \in ToSet(names), NEW d \in Dirs
                 PROVE  /\ \A m \in {n} \cup ToSet(Aliases[n]) :
                             Listed(x, <<d, m>>) => <<d, m>> \in ToSet(ret)
                        /\ ~Relevant(x) /\ OnElementDisk(x, <<d, n>>) => <<d, n>> \in ToSet(ret)
      BY DEF AllFound
    <2>1. Kept(x)
      BY DEF IInv, Passing, PassedBy, Searching
    <2> QED  BY <2>1 DEF Kept
  <1> QED  BY <1>1, Invariant, PTL
=============================================================================
