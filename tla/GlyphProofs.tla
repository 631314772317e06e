----------------------------- MODULE GlyphProofs -----------------------------
(***************************************************************************)
(* Proofs about Glyph, for any names, resolutions, files, font maps and    *)
(* lists of fallback sizes, and for words of any width: a font comes from  *)
(* the first source that has it, a stand-in has the size that is closest,  *)
(* nothing that is there is missed, and the walk over a list without       *)
(* repetitions stays in it.                                                *)
(***************************************************************************)
EXTENDS Glyph, WellFoundedInduction, SequenceTheorems, TLAPS

-----------------------------------------------------------------------------
(* The invariant *)

\* That f is the font near the resolution, and that there is such a file.
Fits(f, format, name, dpi) == f.name = name /\ f.dpi \in Near(dpi) /\ f.format \in Tried(format)
Has(fs, format, name, dpi) == \E f \in fs : Fits(f, format, name, dpi)
Here(name, dpi) == Has(files, call.format, name, dpi)

\* The parts before the fallback font.
Early == {"name", "alias", "make", "fallback", "walk"}
Aliases == ToSet(map[call.name])

Active ==
  /\ pc # "idle" => call # NoCall
  /\ call # NoCall => call.name \in Names /\ call.dpi \in Dpis

\* What is looked for, and where the name of it is kept.
Named ==
  /\ pc \in Early => /\ env.name \in {call.name} \cup Aliases
                     /\ fontname \in {call.name} \cup Aliases
                     /\ map[call.name] = <<>> => env.name = call.name
  /\ pc = "name" => env.name = call.name
  /\ pc \in {"name", "alias"} => fontname = call.name
  /\ pc = "alias" => ToSet(todo) \subseteq Aliases
  /\ pc \in {"last", "lastwalk"} => last # Null
  /\ pc = "lastwalk" => env.name = last

\* What a part that is over has not found is not there.
Absent ==
  /\ pc \notin {"idle", "name"} => ~Here(call.name, call.dpi)
  /\ pc = "alias" => \A a \in Aliases : a \in ToSet(todo) \/ ~Here(a, call.dpi)
  /\ pc \notin {"idle", "name", "alias"} => \A a \in Aliases : ~Here(a, call.dpi)
  /\ pc = "lastwalk" => ~Here(last, call.dpi)

Walked(name, i) == sizes[i] = call.dpi \/ ~Here(name, sizes[i])

\* The walk is in the list and has been at all places between the two ends;
\* the place it is at is closer than all those beyond them.
Reached(name) ==
  /\ loc \in DOMAIN sizes /\ lower_loc \in 0..(loc - 1) /\ upper_loc \in (loc + 1)..(Len(sizes) + 1)
  /\ \A i \in DOMAIN sizes : lower_loc < i /\ i < upper_loc /\ i # loc => Walked(name, i)
  /\ \A i \in DOMAIN sizes : i <= lower_loc => sizes[i] < call.dpi
  /\ \A i \in DOMAIN sizes : upper_loc <= i => call.dpi < sizes[i]
  /\ \A i \in DOMAIN sizes : i <= lower_loc \/ upper_loc <= i =>
       Distance(sizes[loc], call.dpi) <= Distance(sizes[i], call.dpi)

Onwards == pc \in {"walk", "lastwalk"} /\ Strict => Reached(env.name)

\* The walk for the font itself is over.
PassedBy ==
  pc \in {"last", "lastwalk"} /\ Strict /\ map[call.name] = <<>> =>
    \A s \in ToSet(sizes) : ~Here(call.name, s)

IInv ==
  /\ TypeOK /\ Active /\ Named /\ Absent /\ Onwards /\ PassedBy
  /\ BestSource /\ ClosestFound /\ NothingMissed

-----------------------------------------------------------------------------
(* Recursion, and least elements *)

\* The order of the natural numbers, as a set of pairs.
Less == {x \in Nat \X Nat : x[1] < x[2]}

\* A set of natural numbers that is not empty has a least element.
LEMMA Least ==
    ASSUME NEW T \in SUBSET Nat, T # {}
    PROVE  \E x \in T : \A y \in T : x <= y
  <1>1. Less \cap (Nat \X Nat) \subseteq OpToRel(<, Nat)
    BY DEF Less, OpToRel
  <1>2. IsWellFoundedOn(Less, Nat)
    BY <1>1, NatLessThanWellFounded, IsWellFoundedOnSubrelation
  <1>3. PICK x \in T : \A y \in T : ~ (<<y, x>> \in Less)
    BY <1>2, WFMin
  <1>4. ASSUME NEW y \in T PROVE x <= y
    <2>1. x \in Nat /\ y \in Nat /\ ~ (<<y, x>> \in Less)
      BY <1>3
    <2> QED  BY <2>1 DEF Less
  <1> QED  BY <1>4

\* A set of numbers that has 0, and with each number the next one, has them all.
LEMMA Upwards ==
    ASSUME NEW n \in Nat, NEW T, 0 \in T, \A i \in 0..n : i \in T /\ i < n => i + 1 \in T
    PROVE  \A i \in 0..n : i \in T
  <1> DEFINE B == {i \in 0..n : i \notin T}
  <1> SUFFICES ASSUME B # {} PROVE FALSE
    OBVIOUS
  <1>1. PICK m \in B : \A k \in B : m <= k
    <2>1. B \in SUBSET Nat
      OBVIOUS
    <2> HIDE DEF B
    <2> QED  BY <2>1, Least
  <1>2. m # 0 /\ m \in 1..n
    BY <1>1
  <1>3. m - 1 \in 0..n /\ m - 1 < n /\ ~ (m <= m - 1)
    BY <1>2
  <1>4. m - 1 \in T
    BY <1>1, <1>3
  <1>5. m - 1 + 1 = m
    BY <1>2
  <1> QED  BY <1>1, <1>3, <1>4, <1>5

\* The function f starts with a and takes the steps of G.
Steps(f, n, a, G) == \A i \in 0..n : f[i] = IF i = 0 THEN a ELSE G[i][f[i - 1]]

\* There is one for every start and all steps.
LEMMA Recursion ==
    ASSUME NEW n \in Nat, NEW S, NEW a \in S, NEW G \in [1..n -> [S -> S]]
    PROVE  \E f \in [0..n -> S] : Steps(f, n, a, G)
  <1> DEFINE T == {m \in 0..n : \E f \in [0..m -> S] :
                      \A i \in 0..m : f[i] = IF i = 0 THEN a ELSE G[i][f[i - 1]]}
  <1>1. 0 \in T
    <2> DEFINE f == [i \in 0..0 |-> a]
    <2>1. f \in [0..0 -> S] /\ \A i \in 0..0 : f[i] = IF i = 0 THEN a ELSE G[i][f[i - 1]]
      <3>1. \A i \in 0..0 : i = 0 /\ f[i] = a
        OBVIOUS
      <3>2. f \in [0..0 -> S]
        OBVIOUS
      <3> HIDE DEF f
      <3> QED  BY <3>1, <3>2
    <2> HIDE DEF f
    <2>2. 0 \in 0..n
      OBVIOUS
    <2> QED  BY <2>1, <2>2
  <1>2. ASSUME NEW m \in 0..n, m \in T, m < n PROVE m + 1 \in T
    <2>1. PICK f \in [0..m -> S] : \A i \in 0..m : f[i] = IF i = 0 THEN a ELSE G[i][f[i - 1]]
      BY <1>2
    <2> DEFINE g == [i \in 0..m + 1 |-> IF i = m + 1 THEN G[i][f[m]] ELSE f[i]]
    <2>2. m + 1 \in 1..n /\ m \in 0..m /\ f[m] \in S
      BY <1>2
    <2>3. G[m + 1][f[m]] \in S
      BY <2>2
    <2>4. g \in [0..m + 1 -> S]
      BY <2>3
    <2>5. ASSUME NEW i \in 0..m + 1 PROVE g[i] = IF i = 0 THEN a ELSE G[i][g[i - 1]]
      <3>1. CASE i = m + 1
        <4>1. i - 1 = m /\ i # 0 /\ m # m + 1 /\ m \in 0..m + 1
          BY <2>2, <3>1
        <4> QED  BY <3>1, <4>1
      <3>2. CASE i # m + 1
        <4>1. i \in 0..m /\ (i # 0 => i - 1 \in 0..m /\ i - 1 # m + 1 /\ i - 1 \in 0..m + 1)
          BY <2>2, <3>2
        <4> QED  BY <2>1, <3>2, <4>1
      <3> QED  BY <3>1, <3>2
    <2> HIDE DEF g
    <2> QED  BY <2>2, <2>4, <2>5
  <1> HIDE DEF T
  <1>3. \A i \in 0..n : i \in T /\ i < n => i + 1 \in T
    BY <1>2
  <1>4. \A i \in 0..n : i \in T
    BY <1>1, <1>3, Upwards
  <1>5. n \in T
    BY <1>4
  <1> QED  BY <1>5 DEF T, Steps

-----------------------------------------------------------------------------
(* The operators *)

\* Unsigned differences are what they seem between numbers in order.
LEMMA Differences ==
    ASSUME NEW a \in 0..(Word - 1), NEW b \in 0..a
    PROVE  Minus(a, b) = a - b
  <1>1. Word \in Nat /\ a - b \in 0..(Word - 1)
    BY GlyphAssumption
  <1>2. \A x \in 0..(Word - 1) : x % Word = x
    BY <1>1
  <1> QED  BY <1>1, <1>2 DEF Minus

\* Numbers stay within a word.
LEMMA Sums ==
    ASSUME NEW a \in 0..(Word - 1)
    PROVE  Plus(a, KPSE_BITMAP_TOLERANCE(a)) \in 0..(Word - 1)
  <1>1. Word \in Nat /\ Word # 0 /\ a + KPSE_BITMAP_TOLERANCE(a) \in Int
    BY GlyphAssumption DEF KPSE_BITMAP_TOLERANCE
  <1>2. \A x \in Int : x % Word \in 0..(Word - 1)
    BY <1>1
  <1> QED  BY <1>1, <1>2 DEF Plus

\* What `try_resolution' says: a file that fits, or that there is none.
LEMMA Resolved ==
    ASSUME files \subseteq File, NEW name, NEW dpi \in 0..(Word - 1)
    PROVE  LET found == try_resolution(name, dpi)
           IN /\ found.tried \in 0..(Word - 1)
              /\ found.file = Null => ~Here(name, dpi)
              /\ found.file # Null =>
                   found.file \in files /\ Fits(found.file, call.format, name, dpi)
  <1> DEFINE close == Close(name, dpi)
             rank(f) == Rank(f, dpi) + 4
             T == {rank(f) : f \in close}
             best(f) == \A g \in close : Rank(f, dpi) <= Rank(g, dpi)
  <1>1. \A f : f \in close <=> f \in files /\ Fits(f, call.format, name, dpi)
    BY DEF Close, Fits
  <1>2. CASE close = {}
    <2>1. try_resolution(name, dpi)
            = [file |-> Null, tried |-> Plus(dpi, KPSE_BITMAP_TOLERANCE(dpi))]
      BY <1>2 DEF try_resolution
    <2>2. ~Here(name, dpi)
      BY <1>1, <1>2 DEF Here, Has
    <2> QED  BY <2>1, <2>2, Sums
  <1>3. CASE close # {}
    <2>1. \A f \in close : f \in File /\ f.dpi \in 0..(Word - 1) /\ Rank(f, dpi) \in Int
                           /\ rank(f) \in Nat
      <3>1. \A f \in File : f.dpi \in 0..(Word - 1)
        BY DEF File
      <3>2. ASSUME NEW f \in close PROVE rank(f) \in Nat /\ Rank(f, dpi) \in Int
        <4>1. f.dpi \in 0..(Word - 1)
          BY <1>1, <3>1
        <4>2. f.dpi \in Nat
          BY <4>1, GlyphAssumption
        <4> QED  BY <4>2 DEF Rank
      <3> QED  BY <1>1, <3>1, <3>2
    <2>2. \E f \in close : best(f)
      <3>1. T \in SUBSET Nat /\ T # {}
        BY <1>3, <2>1
      <3>2. PICK m \in T : \A k \in T : m <= k
        <4> HIDE DEF T
        <4> QED  BY <3>1, Least
      <3>3. PICK f \in close : m = rank(f)
        BY <3>2
      <3>4. ASSUME NEW g \in close PROVE Rank(f, dpi) <= Rank(g, dpi)
        <4>1. rank(f) <= rank(g)
          BY <3>2, <3>3
        <4> HIDE DEF close
        <4> QED  BY <2>1, <3>3, <4>1
      <3> QED  BY <3>4
    <2> DEFINE f == CHOOSE f \in close : best(f)
    <2>3. f \in close
      <3> HIDE DEF close, best
      <3> QED  BY <2>2
    <2>4. try_resolution(name, dpi) = [file |-> f, tried |-> f.dpi]
      BY <1>3 DEF try_resolution
    <2>5. f \in File /\ f.dpi \in 0..(Word - 1) /\ f # Null
      BY <2>1, <2>3, GlyphAssumption
    <2> HIDE DEF f
    <2> QED  BY <1>1, <2>3, <2>4, <2>5
  <1> QED  BY <1>2, <1>3

\* The sizes are numbers that fit into a word.
LEMMA SizesTyped ==
    ASSUME sizes \in Seq(1..(Word - 1))
    PROVE  /\ Len(sizes) \in Nat /\ DOMAIN sizes = 1..Len(sizes)
           /\ \A i \in DOMAIN sizes : /\ sizes[i] \in Nat /\ sizes[i] >= 1
                                     /\ sizes[i] \in 0..(Word - 1)
  <1> DEFINE W == 1..(Word - 1)
  <1>1. sizes \in Seq(W)
    OBVIOUS
  <1>2. \A n \in W : n \in Nat /\ n >= 1 /\ n \in 0..(Word - 1)
    BY GlyphAssumption
  <1> HIDE DEF W
  <1> QED  BY <1>1, <1>2

\* The size that is closest is chosen when there is a list.
LEMMA ClosestOne ==
    ASSUME sizes \in Seq(1..(Word - 1)), sizes # <<>>, NEW dpi \in 0..(Word - 1)
    PROVE  /\ Closest(dpi) \in DOMAIN sizes
           /\ \A j \in DOMAIN sizes :
                /\ Distance(sizes[Closest(dpi)], dpi) <= Distance(sizes[j], dpi)
                /\ j < Closest(dpi) =>
                     Distance(sizes[Closest(dpi)], dpi) < Distance(sizes[j], dpi)
  <1> DEFINE d(i) == Distance(sizes[i], dpi)
             T == {d(i) : i \in DOMAIN sizes}
             U == {i \in DOMAIN sizes : \A j \in DOMAIN sizes : d(i) <= d(j)}
             good(i) == \A j \in DOMAIN sizes : d(i) <= d(j) /\ (j < i => d(i) < d(j))
  <1>1. Word \in Nat /\ dpi \in Nat /\ DOMAIN sizes # {} /\ DOMAIN sizes \in SUBSET Nat
        /\ \A i \in DOMAIN sizes : sizes[i] \in Nat
    <2>1. Len(sizes) # 0
      OBVIOUS
    <2>2. 1 \in DOMAIN sizes
      BY <2>1, SizesTyped
    <2> QED  BY <2>2, SizesTyped, GlyphAssumption
  <1>2. \A i \in DOMAIN sizes : d(i) \in Nat
    BY <1>1 DEF Distance
  <1> HIDE DEF d
  <1>3. U # {} /\ U \in SUBSET Nat
    <2>1. T \in SUBSET Nat /\ T # {}
      BY <1>1, <1>2
    <2>2. PICK m \in T : \A k \in T : m <= k
      <3> HIDE DEF T
      <3> QED  BY <2>1, Least
    <2>3. PICK i \in DOMAIN sizes : m = d(i)
      BY <2>2
    <2>4. i \in U
      BY <2>2, <2>3
    <2> QED  BY <1>1, <2>4
  <1>4. PICK i \in U : \A j \in U : i <= j
    <2> HIDE DEF U
    <2> QED  BY <1>3, Least
  <1>5. ASSUME NEW j \in DOMAIN sizes PROVE d(i) <= d(j) /\ (j < i => d(i) < d(j))
    <2>1. d(i) <= d(j)
      BY <1>4
    <2>2. ASSUME j < i PROVE d(i) < d(j)
      <3>1. ~ (i <= j)
        BY <1>1, <1>4, <2>2
      <3>2. j \notin U
        BY <1>4, <3>1
      <3>3. PICK k \in DOMAIN sizes : ~ (d(j) <= d(k))
        BY <3>2
      <3>4. d(i) <= d(k)
        BY <1>4
      <3>5. d(i) \in Nat /\ d(j) \in Nat /\ d(k) \in Nat
        BY <1>2, <1>4
      <3> QED  BY <3>3, <3>4, <3>5
    <2> QED  BY <2>1, <2>2
  <1>6. \E i_1 \in DOMAIN sizes : good(i_1)
    BY <1>4, <1>5
  <1>7. Closest(dpi) = CHOOSE i_1 \in DOMAIN sizes : good(i_1)
    BY DEF Closest, d
  <1> DEFINE c == Closest(dpi)
  <1>8. c \in DOMAIN sizes /\ good(c)
    <2> HIDE DEF good
    <2> QED  BY <1>6, <1>7
  <1> QED  BY <1>8 DEF d

\* A list of fallback sizes holds what the setting does, and no zeros.
LEMMA ListedTyped ==
    ASSUME NEW setting \in Seq(0..(Word - 1))
    PROVE  Listed(setting) \in Seq(1..(Word - 1))
  <1> DEFINE V == 0..(Word - 1)
             n == Len(setting)
             S == Seq(V)
             Taking(i, l) == IF l # <<>> /\ setting[i] < Last(l) THEN l ELSE Append(l, setting[i])
             G == [i \in 1..n |-> [l \in S |-> Taking(i, l)]]
             list == CHOOSE list : list = [i \in 0..n |->
                        IF i = 0 THEN <<>>
                        ELSE IF list[i - 1] # <<>> /\ setting[i] < Last(list[i - 1]) THEN list[i - 1]
                        ELSE Append(list[i - 1], setting[i])]
  <1>1. Ascending(setting) = list[n]
    BY DEF Ascending
  <1>2. n \in Nat /\ <<>> \in S
    OBVIOUS
  <1>3. ASSUME NEW i \in 1..n, NEW l \in S PROVE Taking(i, l) \in S
    <2>1. setting \in Seq(V)
      OBVIOUS
    <2> HIDE DEF V
    <2>2. setting[i] \in V
      BY <2>1
    <2>3. Append(l, setting[i]) \in Seq(V)
      BY <2>2
    <2> QED  BY <2>3
  <1>4. G \in [1..n -> [S -> S]] /\ \A i \in 1..n, l \in S : G[i][l] = Taking(i, l)
    BY <1>3
  <1> HIDE DEF n, S, G
  <1>5. PICK g \in [0..n -> S] : Steps(g, n, <<>>, G)
    BY <1>2, <1>4, Recursion
  <1>6. g = [i \in 0..n |->
               IF i = 0 THEN <<>>
               ELSE IF g[i - 1] # <<>> /\ setting[i] < Last(g[i - 1]) THEN g[i - 1]
               ELSE Append(g[i - 1], setting[i])]
    <2>1. ASSUME NEW i \in 0..n
          PROVE  g[i] = IF i = 0 THEN <<>> ELSE Taking(i, g[i - 1])
      <3>1. g[i] = IF i = 0 THEN <<>> ELSE G[i][g[i - 1]]
        BY <1>5 DEF Steps
      <3>2. CASE i # 0
        <4>1. i \in 1..n /\ i - 1 \in 0..n
          BY <1>2, <3>2
        <4> QED  BY <1>4, <1>5, <3>1, <3>2, <4>1
      <3> QED  BY <3>1, <3>2
    <2> QED  BY <2>1
  <1>7. list = [i \in 0..n |->
               IF i = 0 THEN <<>>
               ELSE IF list[i - 1] # <<>> /\ setting[i] < Last(list[i - 1]) THEN list[i - 1]
               ELSE Append(list[i - 1], setting[i])]
    BY <1>6
  <1> HIDE DEF list
  <1>8. \A i \in 0..n : list[i] = IF i = 0 THEN <<>> ELSE Taking(i, list[i - 1])
    BY <1>7
  <1> DEFINE T == {i \in 0..n : list[i] \in S}
  <1>9. 0 \in T
    BY <1>2, <1>8
  <1>10. ASSUME NEW i \in 0..n, i \in T, i < n PROVE i + 1 \in T
    <2>1. PICK j : j = i + 1
      OBVIOUS
    <2>2. j \in 1..n /\ j \in 0..n /\ j # 0 /\ j - 1 = i
      BY <1>2, <1>10, <2>1
    <2>3. list[j] = Taking(j, list[i])
      BY <1>8, <2>2
    <2>4. list[j] \in S
      BY <1>3, <1>10, <2>2, <2>3
    <2> QED  BY <2>1, <2>2, <2>4
  <1> HIDE DEF T
  <1>11. \A i \in 0..n : i \in T
    BY <1>2, <1>9, <1>10, Upwards
  <1>12. Ascending(setting) \in Seq(0..(Word - 1))
    BY <1>1, <1>2, <1>11 DEF T, S
  <1>13. CASE 0 \in ToSet(Ascending(setting))
    BY <1>13 DEF Listed
  <1>14. CASE 0 \notin ToSet(Ascending(setting))
    <2> DEFINE a == Ascending(setting)
    <2>1. \A i \in 1..Len(a) : a[i] \in 0..(Word - 1) /\ a[i] # 0
      <3>1. a \in Seq(V) /\ 0 \notin {a[i] : i \in DOMAIN a}
        BY <1>12, <1>14 DEF ToSet
      <3> HIDE DEF V, a
      <3>2. \A i \in 1..Len(a) : a[i] \in V /\ a[i] # 0
        BY <3>1
      <3> QED  BY <3>2 DEF V
    <2>2. \A i \in 1..Len(a) : a[i] \in 1..(Word - 1)
      BY <2>1, GlyphAssumption
    <2>3. a \in Seq(1..(Word - 1))
      <3>1. a \in Seq(V)
        BY <1>12
      <3> DEFINE W == 1..(Word - 1)
      <3>2. \A i \in 1..Len(a) : a[i] \in W
        BY <2>2
      <3> HIDE DEF a, V, W
      <3>3. Len(a) \in Nat /\ a = [i \in 1..Len(a) |-> a[i]]
        BY <3>1
      <3>4. a \in Seq(W)
        BY <3>2, <3>3
      <3> QED  BY <3>4 DEF W
    <2> QED  BY <1>14, <2>3 DEF Listed
  <1> QED  BY <1>13, <1>14

-----------------------------------------------------------------------------
(* The steps.  IInv is kept by each of them. *)

Sources == {Unset, "normal", "alias", "maketex", "fallback_res", "fallback"}

\* What is known of a call.
LEMMA Calling ==
    ASSUME TypeOK, Active, call # NoCall
    PROVE  /\ call.name \in Names /\ call.dpi \in 0..(Word - 1) /\ call.dpi >= 1
           /\ map \in [Names -> Seq(Names)] /\ map[call.name] \in Seq(Names)
           /\ Aliases \subseteq Names /\ Null \notin Names /\ call.format \in {"pk", "gf", "any"}
           /\ map[call.name] # <<>> => Head(map[call.name]) \in Aliases
  <1>1. call.name \in Names /\ call.dpi \in Dpis
    BY DEF Active
  <1>2. call.dpi \in 0..(Word - 1) /\ call.dpi >= 1
    <2>1. \A d \in 1..(Word - 1) : d \in 0..(Word - 1) /\ d >= 1
      BY GlyphAssumption
    <2>2. Dpis \subseteq 1..(Word - 1)
      BY GlyphAssumption
    <2> QED  BY <1>1, <2>1, <2>2
  <1>3. map \in [Names -> Seq(Names)] /\ map[call.name] \in Seq(Names)
    BY <1>1, GlyphAssumption DEF TypeOK
  <1>4. Aliases \subseteq Names
    <2> DEFINE q == map[call.name]
    <2> HIDE DEF q
    <2>1. q \in Seq(Names) => {q[i] : i \in DOMAIN q} \subseteq Names
      OBVIOUS
    <2> QED  BY <1>3, <2>1 DEF q, Aliases, ToSet
  <1>5. map[call.name] # <<>> => Head(map[call.name]) \in Aliases
    <2> DEFINE q == map[call.name]
    <2> HIDE DEF q
    <2>1. q \in Seq(Names) /\ q # <<>> => Head(q) \in {q[i] : i \in DOMAIN q}
      <3> SUFFICES ASSUME q \in Seq(Names), q # <<>> PROVE Head(q) \in {q[i] : i \in DOMAIN q}
        OBVIOUS
      <3>1. Head(q) = q[1] /\ 1 \in DOMAIN q
        OBVIOUS
      <3> QED  BY <3>1
    <2> QED  BY <1>3, <2>1 DEF q, Aliases, ToSet
  <1>6. call.format \in {"pk", "gf", "any"} /\ Null \notin Names
    BY GlyphAssumption DEF TypeOK
  <1> QED  BY <1>1, <1>2, <1>3, <1>4, <1>5, <1>6

\* While a call runs nothing is said of its result.
LEMMA Running ==
    ASSUME pc' # "idle"
    PROVE  BestSource' /\ ClosestFound' /\ NothingMissed'
  BY DEF BestSource, ClosestFound, NothingMissed, Returned

\* A call that returns leaves only its result.
LEMMA Ending ==
    ASSUME IInv, call # NoCall, NEW file \in {Null} \cup File, NEW told, told.source \in Sources,
           Return(file, told), UNCHANGED <<world, call>>, files' \subseteq File,
           env' \in [name : Names \cup {Null}, dpi : 0..(Word - 1)]
    PROVE  TypeOK' /\ Active' /\ Named' /\ Absent' /\ Onwards' /\ PassedBy'
  <1>1. TypeOK'
    BY DEF IInv, TypeOK, Return, world, Sources
  <1>2. Active'
    BY DEF IInv, Active, Return, NoCall
  <1>3. Named' /\ Absent' /\ Onwards' /\ PassedBy'
    BY DEF Named, Absent, Onwards, PassedBy, Return, Early
  <1> QED  BY <1>1, <1>2, <1>3

\* A call starts.
LEMMA find_glyphKeeps ==
    ASSUME IInv, NEW name \in Names, NEW dpi \in Dpis, NEW format \in Requested,
           kpathsea_find_glyph(name, dpi, format)
    PROVE  IInv'
  <1> USE DEF kpathsea_find_glyph, world, walk
  <1>1. call' = [name |-> name, dpi |-> dpi, format |-> format] /\ pc' = "name" /\ fontname' = name
        /\ env' = [env EXCEPT !.name = name] /\ env \in [name : Names \cup {Null}, dpi : 0..(Word - 1)]
    BY DEF IInv, TypeOK
  <1>2. call'.name = name /\ call'.dpi = dpi /\ call' # NoCall /\ env'.name = name
    BY <1>1, GlyphAssumption DEF NoCall
  <1>3. TypeOK'
    <2>1. env' \in [name : Names \cup {Null}, dpi : 0..(Word - 1)]
      BY <1>1
    <2>2. call' \in [name : Names \cup {Null}, dpi : Dpis \cup {0}, format : {"pk", "gf", "any"}]
      BY <1>1, GlyphAssumption
    <2> QED  BY <1>1, <2>1, <2>2 DEF IInv, TypeOK, NothingTold
  <1>4. Active'
    BY <1>2 DEF Active
  <1>5. Named' /\ Absent' /\ Onwards' /\ PassedBy'
    BY <1>1, <1>2 DEF Named, Absent, Onwards, PassedBy, Early
  <1>6. BestSource' /\ ClosestFound' /\ NothingMissed'
    BY <1>1, Running
  <1> QED  BY <1>3, <1>4, <1>5, <1>6 DEF IInv

\* The name itself.
LEMMA TryNameKeeps ==
    ASSUME IInv, TryName
    PROVE  IInv'
  <1> DEFINE found == try_resolution(env.name, call.dpi)
  <1>1. /\ pc = "name" /\ env' = [env EXCEPT !.dpi = found.tried]
        /\ UNCHANGED <<files, map, sizes, last, call>>
    BY DEF TryName, world
  <1>2. TypeOK /\ Active /\ call # NoCall /\ files \subseteq File
        /\ env \in [name : Names \cup {Null}, dpi : 0..(Word - 1)]
    BY <1>1 DEF IInv, Active, TypeOK
  <1>3. call.name \in Names /\ call.dpi \in 0..(Word - 1) /\ map[call.name] \in Seq(Names)
    BY <1>2, Calling
  <1>4. env.name = call.name /\ fontname = call.name
    BY <1>1 DEF IInv, Named
  <1>5. /\ found.tried \in 0..(Word - 1)
        /\ found.file = Null => ~Here(env.name, call.dpi)
        /\ found.file # Null =>
             found.file \in files /\ Fits(found.file, call.format, env.name, call.dpi)
    BY <1>2, <1>3, Resolved
  <1>6. env' \in [name : Names \cup {Null}, dpi : 0..(Word - 1)] /\ env'.name = env.name
    BY <1>1, <1>2, <1>5
  <1>7. CASE found.file # Null
    <2>1. Return(found.file, Told(fontname, found.file, "normal"))
      BY <1>7 DEF TryName
    <2>2. TypeOK' /\ Active' /\ Named' /\ Absent' /\ Onwards' /\ PassedBy'
      <3>1. Told(fontname, found.file, "normal").source \in Sources /\ found.file \in File
        BY <1>2, <1>5, <1>7 DEF Told, Sources
      <3> HIDE DEF found
      <3> QED  BY <1>1, <1>2, <1>6, <2>1, <3>1, Ending DEF world
    <2>3. glyph_file'.source = "normal" /\ ret' = found.file
      BY <2>1 DEF Return, Told
    <2>4. BestSource'
      BY <1>1, <1>4, <1>5, <1>7, <2>3 DEF BestSource, Close, Fits
    <2>5. ClosestFound' /\ NothingMissed'
      BY <1>7, <2>3 DEF ClosestFound, NothingMissed
    <2> QED  BY <2>2, <2>4, <2>5 DEF IInv
  <1>8. CASE found.file = Null
    <2>1. /\ pc' = "alias" /\ todo' = map[call.name]
          /\ UNCHANGED <<ret, glyph_file, fontname, loc, lower_loc, upper_loc>>
      BY <1>4, <1>8 DEF TryName, Continue, kpathsea_fontmap_lookup, walk
    <2>2. TypeOK'
      BY <1>1, <1>3, <1>6, <2>1 DEF IInv, TypeOK
    <2>3. Active'
      BY <1>1, <1>2 DEF Active, NoCall
    <2>4. Named'
      BY <1>1, <1>4, <1>6, <2>1 DEF IInv, Named, Early, Aliases
    <2>5. Absent'
      BY <1>1, <1>4, <1>5, <1>8, <2>1 DEF Absent, Aliases, Here
    <2>6. Onwards' /\ PassedBy' /\ BestSource' /\ ClosestFound' /\ NothingMissed'
      BY <2>1, Running DEF Onwards, PassedBy
    <2> QED  BY <2>2, <2>3, <2>4, <2>5, <2>6 DEF IInv
  <1> QED  BY <1>7, <1>8

\* An alias.
LEMMA TryAliasKeeps ==
    ASSUME IInv, TryAlias
    PROVE  IInv'
  <1> DEFINE alias == Head(todo)
             found == try_resolution(alias, call.dpi)
             told == [Told(alias, found.file, "alias") EXCEPT !.dpi = call.dpi]
  <1>1. /\ pc = "alias" /\ todo # <<>> /\ env' = [name |-> alias, dpi |-> found.tried]
        /\ UNCHANGED <<files, map, sizes, last, call>>
    BY DEF TryAlias, world
  <1>2. TypeOK /\ Active /\ call # NoCall /\ files \subseteq File /\ todo \in Seq(Names)
    BY <1>1 DEF IInv, Active, TypeOK
  <1>3. call.name \in Names /\ call.dpi \in 0..(Word - 1) /\ map[call.name] \in Seq(Names)
    BY <1>2, Calling
  <1>4. alias \in Names /\ alias \in ToSet(todo) /\ Tail(todo) \in Seq(Names)
        /\ ToSet(todo) = {alias} \cup ToSet(Tail(todo))
    <2> DEFINE q == todo
    <2>1. q \in Seq(Names) /\ q # <<>>
      BY <1>1, <1>2
    <2>2. ToSet(q) = {q[i] : i \in DOMAIN q} /\ ToSet(Tail(q)) = {Tail(q)[i] : i \in DOMAIN Tail(q)}
      BY DEF ToSet
    <2> HIDE DEF q
    <2>3. Head(q) = q[1] /\ 1 \in DOMAIN q /\ Head(q) \in Names /\ Tail(q) \in Seq(Names)
      BY <2>1
    <2>4. Len(q) \in Nat /\ DOMAIN q = 1..Len(q) /\ DOMAIN Tail(q) = 1..(Len(q) - 1)
          /\ \A i \in 1..(Len(q) - 1) : Tail(q)[i] = q[i + 1]
      BY <2>1
    <2>5. ASSUME NEW i \in DOMAIN q PROVE q[i] \in {Head(q)} \cup {Tail(q)[k] : k \in DOMAIN Tail(q)}
      <3>1. CASE i = 1
        BY <2>3, <3>1
      <3>2. CASE i # 1
        <4>1. PICK k \in 1..(Len(q) - 1) : i = k + 1
          BY <2>4, <3>2
        <4> QED  BY <2>4, <4>1
      <3> QED  BY <3>1, <3>2
    <2>6. ASSUME NEW k \in DOMAIN Tail(q) PROVE Tail(q)[k] \in {q[i] : i \in DOMAIN q}
      <3>1. k + 1 \in DOMAIN q /\ Tail(q)[k] = q[k + 1]
        BY <2>4
      <3> QED  BY <3>1
    <2>7. Head(q) \in {q[i] : i \in DOMAIN q}
      BY <2>3
    <2> QED  BY <2>2, <2>3, <2>5, <2>6, <2>7 DEF q
  <1>5. alias \in Aliases /\ ToSet(Tail(todo)) \subseteq Aliases /\ map[call.name] # <<>>
    <2>1. ToSet(todo) \subseteq Aliases
      BY <1>1 DEF IInv, Named
    <2>2. ToSet(<<>>) = {}
      BY DEF ToSet
    <2> QED  BY <1>4, <2>1, <2>2 DEF Aliases
  <1>6. /\ found.tried \in 0..(Word - 1)
        /\ found.file = Null => ~Here(alias, call.dpi)
        /\ found.file # Null =>
             found.file \in files /\ Fits(found.file, call.format, alias, call.dpi)
    BY <1>2, <1>3, Resolved
  <1>7. env' \in [name : Names \cup {Null}, dpi : 0..(Word - 1)] /\ env'.name = alias
    BY <1>1, <1>4, <1>6
  <1>8. ~Here(call.name, call.dpi) /\ fontname = call.name
    BY <1>1 DEF IInv, Absent, Named
  <1>9. CASE found.file # Null
    <2>1. Return(found.file, told)
      BY <1>9 DEF TryAlias
    <2>2. TypeOK' /\ Active' /\ Named' /\ Absent' /\ Onwards' /\ PassedBy'
      <3>1. told.source \in Sources /\ found.file \in File
        BY <1>2, <1>6, <1>9 DEF Told, Sources
      <3> HIDE DEF found, told
      <3> QED  BY <1>1, <1>2, <1>7, <2>1, <3>1, Ending DEF world
    <2>3. glyph_file'.source = "alias" /\ ret' = found.file
      BY <2>1 DEF Return, Told
    <2>4. BestSource'
      <3> HIDE DEF found, alias
      <3>1. ~ \E f \in files : Fits(f, call.format, call.name, call.dpi)
        BY <1>8 DEF Here, Has
      <3> QED  BY <1>1, <1>5, <1>6, <1>9, <2>3, <3>1 DEF BestSource, Close, Fits, There, Aliases
    <2>5. ClosestFound' /\ NothingMissed'
      BY <1>9, <2>3 DEF ClosestFound, NothingMissed
    <2> QED  BY <2>2, <2>4, <2>5 DEF IInv
  <1>10. CASE found.file = Null
    <2>1. /\ pc' = "alias" /\ todo' = Tail(todo)
          /\ UNCHANGED <<ret, glyph_file, fontname, loc, lower_loc, upper_loc>>
      BY <1>1, <1>10 DEF TryAlias, Continue, walk
    <2>2. TypeOK'
      BY <1>1, <1>4, <1>7, <2>1 DEF IInv, TypeOK
    <2>3. Active'
      BY <1>1, <1>2 DEF Active, NoCall
    <2>4. Named'
      BY <1>1, <1>5, <1>7, <1>8, <2>1 DEF Named, Early, Aliases
    <2>5. Absent'
      <3>1. \A a \in Aliases : a \in ToSet(Tail(todo)) \/ ~Here(a, call.dpi)
        BY <1>1, <1>4, <1>6, <1>10 DEF IInv, Absent
      <3> QED  BY <1>1, <1>8, <2>1, <3>1 DEF Absent, Aliases, Here
    <2>6. Onwards' /\ PassedBy' /\ BestSource' /\ ClosestFound' /\ NothingMissed'
      BY <2>1, Running DEF Onwards, PassedBy
    <2> QED  BY <2>2, <2>3, <2>4, <2>5, <2>6 DEF IInv
  <1> QED  BY <1>9, <1>10

\* No alias is left.
LEMMA NoAliasKeeps ==
    ASSUME IInv, NoAlias
    PROVE  IInv'
  <1>1. /\ pc = "alias" /\ todo = <<>> /\ pc' = "make"
        /\ UNCHANGED <<files, map, sizes, last, env, call, todo, loc, lower_loc, upper_loc,
                       ret, glyph_file>>
    BY DEF NoAlias, Continue, world, walk
  <1>2. TypeOK /\ Active /\ call # NoCall
    BY <1>1 DEF IInv, Active
  <1>3. call.name \in Names /\ Aliases \subseteq Names
        /\ (map[call.name] # <<>> => Head(map[call.name]) \in Aliases)
    BY <1>2, Calling
  <1>4. fontname = call.name /\ env.name \in {call.name} \cup Aliases
        /\ (map[call.name] = <<>> => env.name = call.name)
    BY <1>1 DEF IInv, Named, Early
  <1>5. fontname' \in {call.name} \cup Aliases /\ fontname' \in Names
    BY <1>3, <1>4 DEF NoAlias, kpathsea_fontmap_lookup
  <1>6. TypeOK'
    BY <1>1, <1>5 DEF IInv, TypeOK
  <1>7. Active'
    BY <1>1, <1>2 DEF Active, NoCall
  <1>8. Named'
    BY <1>1, <1>4, <1>5 DEF Named, Early, Aliases
  <1>9. Absent'
    <2>1. ToSet(<<>>) = {}
      BY DEF ToSet
    <2>2. ~Here(call.name, call.dpi) /\ \A a \in Aliases : ~Here(a, call.dpi)
      BY <1>1, <2>1 DEF IInv, Absent
    <2> QED  BY <1>1, <2>2 DEF Absent, Aliases, Here
  <1>10. Onwards' /\ PassedBy' /\ BestSource' /\ ClosestFound' /\ NothingMissed'
    BY <1>1, Running DEF Onwards, PassedBy
  <1> QED  BY <1>6, <1>7, <1>8, <1>9, <1>10 DEF IInv

\* mktexpk has made the font.
LEMMA MakeKeeps ==
    ASSUME IInv, Make
    PROVE  IInv'
  <1> DEFINE made == [name |-> fontname, dpi |-> env'.dpi, format |-> "pk"]
             told == [NothingTold EXCEPT !.name = fontname, !.dpi = call.dpi, !.source = "maketex"]
  <1>1. /\ pc = "make" /\ env' = [env EXCEPT !.dpi = call.dpi] /\ files' = files \cup {made}
        /\ Return(made, told) /\ UNCHANGED <<map, sizes, last, call>>
    BY DEF Make, world
  <1>2. TypeOK /\ Active /\ call # NoCall /\ files \subseteq File
        /\ env \in [name : Names \cup {Null}, dpi : 0..(Word - 1)]
    BY <1>1 DEF IInv, Active, TypeOK
  <1>3. call.name \in Names /\ call.dpi \in 0..(Word - 1) /\ Aliases \subseteq Names
    BY <1>2, Calling
  <1>4. fontname \in {call.name} \cup Aliases
    BY <1>1 DEF IInv, Named, Early
  <1>5. env' \in [name : Names \cup {Null}, dpi : 0..(Word - 1)] /\ env'.dpi = call.dpi
    BY <1>1, <1>2, <1>3
  <1>6. made \in File /\ made # Null /\ told.source = "maketex"
    BY <1>3, <1>4, <1>5, GlyphAssumption DEF File, NothingTold
  <1>7. ~Here(call.name, call.dpi) /\ \A a \in Aliases : ~Here(a, call.dpi)
    BY <1>1 DEF IInv, Absent
  <1>8. ret' = made /\ glyph_file'.source = "maketex"
    BY <1>1, <1>6 DEF Return
  <1>9. TypeOK' /\ Active' /\ Named' /\ Absent' /\ Onwards' /\ PassedBy'
    <2> HIDE DEF made, told
    <2>1. files' \subseteq File /\ told.source \in Sources /\ made \in {Null} \cup File
      BY <1>1, <1>2, <1>6 DEF Sources
    <2> QED  BY <1>1, <1>2, <1>5, <2>1, Ending DEF world
  <1>10. BestSource'
    <2>1. made.name = fontname /\ made.dpi = call.dpi
      BY <1>5
    <2> HIDE DEF made, told
    <2>2. \A f \in files : \A a \in {call.name} \cup Aliases : ~Fits(f, call.format, a, call.dpi)
      BY <1>7 DEF Here, Has
    <2>3. \A a \in {call.name} \cup Aliases :
            {f \in files' : Fits(f, call.format, a, call.dpi)} \subseteq {made}
      BY <1>1, <2>2
    <2> QED  BY <1>1, <1>4, <1>8, <2>1, <2>3 DEF BestSource, Close, Fits, Aliases
  <1>11. ClosestFound' /\ NothingMissed'
    BY <1>6, <1>8 DEF ClosestFound, NothingMissed
  <1> QED  BY <1>9, <1>10, <1>11 DEF IInv

\* It has not.
LEMMA MakeFailsKeeps ==
    ASSUME IInv, MakeFails
    PROVE  IInv'
  <1>1. /\ pc = "make" /\ pc' = "fallback"
        /\ UNCHANGED <<files, map, sizes, last, call, fontname, todo, loc, lower_loc, upper_loc,
                       ret, glyph_file>>
    BY DEF MakeFails, Continue, world, walk
  <1>2. TypeOK /\ Active /\ call # NoCall
    BY <1>1 DEF IInv, Active
  <1>3. env' \in [name : Names \cup {Null}, dpi : 0..(Word - 1)] /\ env'.name = env.name
    <2>1. env' = env \/ env' = [env EXCEPT !.dpi = call.dpi]
      BY DEF MakeFails
    <2>2. env \in [name : Names \cup {Null}, dpi : 0..(Word - 1)] /\ call.dpi \in 0..(Word - 1)
      BY <1>2, Calling DEF TypeOK
    <2> QED  BY <2>1, <2>2
  <1>4. TypeOK'
    BY <1>1, <1>3 DEF IInv, TypeOK
  <1>5. Active'
    BY <1>1, <1>2 DEF Active, NoCall
  <1>6. Named'
    BY <1>1, <1>3 DEF IInv, Named, Early, Aliases
  <1>7. Absent'
    BY <1>1 DEF IInv, Absent, Aliases, Here
  <1>8. Onwards' /\ PassedBy' /\ BestSource' /\ ClosestFound' /\ NothingMissed'
    BY <1>1, Running DEF Onwards, PassedBy
  <1> QED  BY <1>4, <1>5, <1>6, <1>7, <1>8 DEF IInv

\* A part has found nothing: the fallback font is next, or the call returns.
LEMMA NextPartKeeps ==
    ASSUME IInv, NEW part \in {"fallback", "walk", "last", "lastwalk"}, pc = part, Next_part(part),
           UNCHANGED <<files, world, call>>,
           env' \in [name : Names \cup {Null}, dpi : 0..(Word - 1)],
           Strict => IF part \in {"fallback", "walk"}
                     THEN map[call.name] = <<>> => \A s \in ToSet(sizes) : ~Here(call.name, s)
                     ELSE ~Here(last, call.dpi) /\ \A s \in ToSet(sizes) : ~Here(last, s)
    PROVE  IInv'
  <1>1. UNCHANGED <<files, map, sizes, last, call>>
    BY DEF world
  <1>2. TypeOK /\ Active /\ call # NoCall /\ files \subseteq File
    BY DEF IInv, Active, TypeOK
  <1>3. ~Here(call.name, call.dpi) /\ \A a \in Aliases : ~Here(a, call.dpi)
    BY DEF IInv, Absent
  <1>4. CASE part \in {"fallback", "walk"} /\ last # Null
    <2>1. pc' = "last" /\ UNCHANGED <<ret, glyph_file, fontname, todo, loc, lower_loc, upper_loc>>
      BY <1>4 DEF Next_part, Continue, walk
    <2>2. TypeOK'
      BY <1>1, <2>1 DEF IInv, TypeOK
    <2>3. Active'
      BY <1>1, <1>2 DEF Active, NoCall
    <2>4. Named'
      BY <1>1, <1>4, <2>1 DEF Named, Early
    <2>5. Absent'
      BY <1>1, <1>3, <2>1 DEF Absent, Aliases, Here
    <2>6. PassedBy'
      BY <1>1, <1>4 DEF PassedBy, Strict, Here
    <2>7. Onwards' /\ BestSource' /\ ClosestFound' /\ NothingMissed'
      BY <2>1, Running DEF Onwards
    <2> QED  BY <2>2, <2>3, <2>4, <2>5, <2>6, <2>7 DEF IInv
  <1>5. CASE ~ (part \in {"fallback", "walk"} /\ last # Null)
    <2>1. Return(Null, NothingTold)
      BY <1>5 DEF Next_part
    <2>2. TypeOK' /\ Active' /\ Named' /\ Absent' /\ Onwards' /\ PassedBy'
      <3>1. NothingTold.source \in Sources
        BY DEF NothingTold, Sources
      <3> QED  BY <1>2, <2>1, <3>1, Ending
    <2>3. BestSource' /\ ClosestFound'
      BY <2>1 DEF BestSource, ClosestFound, Return
    <2>4. NothingMissed'
      <3> SUFFICES ASSUME Strict PROVE NothingMissed'
        BY <1>1 DEF NothingMissed, Strict
      <3> DEFINE H(a, s) == \E f \in files : f.name = a /\ f.dpi \in Near(s) /\ f.format \in Tried(call.format)
      <3>1. \A a, s : Here(a, s) <=> H(a, s)
        BY DEF Here, Has, Fits
      <3>2. \A a \in {call.name} \cup Aliases : ~H(a, call.dpi)
        BY <1>3, <3>1
      <3>3. map[call.name] = <<>> => \A s \in {call.dpi} \cup ToSet(sizes) : ~H(call.name, s)
        <4>1. CASE part \in {"fallback", "walk"}
          BY <3>1, <3>2, <4>1
        <4>2. CASE part \notin {"fallback", "walk"}
          BY <3>1, <3>2, <4>2 DEF IInv, PassedBy
        <4> QED  BY <4>1, <4>2
      <3>4. last # Null => \A s \in {call.dpi} \cup ToSet(sizes) : ~H(last, s)
        BY <1>5, <3>1
      <3> QED  BY <1>1, <3>2, <3>3, <3>4 DEF NothingMissed, There, Close, Aliases
    <2> QED  BY <2>2, <2>3, <2>4 DEF IInv
  <1> QED  BY <1>4, <1>5

\* A walk starts at the closest size, unless there are none.
LEMMA StartWalkKeeps ==
    ASSUME IInv, NEW from, NEW to, StartWalk(from, to),
           \/ from = "fallback" /\ to = "walk" /\ env' = env
           \/ from = "last" /\ to = "lastwalk" /\ env'.name = last /\ ~Here(last, call.dpi),
           UNCHANGED <<files, world, call>>,
           env' \in [name : Names \cup {Null}, dpi : 0..(Word - 1)]
    PROVE  IInv'
  <1>1. UNCHANGED <<files, map, sizes, last, call>> /\ pc = from
    BY DEF world, StartWalk
  <1>2. TypeOK /\ Active /\ call # NoCall /\ sizes \in Seq(1..(Word - 1))
    BY <1>1 DEF IInv, Active, TypeOK
  <1>3. call.dpi \in 0..(Word - 1)
    BY <1>2, Calling
  <1>4. CASE sizes = <<>>
    <2>1. Next_part(from)
      BY <1>4 DEF StartWalk
    <2>2. ToSet(sizes) = {}
      BY <1>4 DEF ToSet
    <2> QED  BY <1>1, <2>1, <2>2, NextPartKeeps
  <1>5. CASE sizes # <<>>
    <2>1. /\ pc' = to /\ loc' = Closest(call.dpi) /\ lower_loc' = loc' - 1 /\ upper_loc' = loc' + 1
          /\ UNCHANGED <<ret, glyph_file, fontname, todo>>
      BY <1>5 DEF StartWalk, Continue
    <2> DEFINE c == Closest(call.dpi)
    <2>2. /\ c \in DOMAIN sizes
          /\ \A j \in DOMAIN sizes : Distance(sizes[c], call.dpi) <= Distance(sizes[j], call.dpi)
      BY <1>2, <1>3, <1>5, ClosestOne
    <2> HIDE DEF c
    <2>3. /\ Len(sizes) \in Nat /\ DOMAIN sizes = 1..Len(sizes) /\ call.dpi \in Nat
          /\ \A i \in DOMAIN sizes : sizes[i] \in Nat
      BY <1>2, <1>3, SizesTyped, GlyphAssumption
    <2>4. c \in 1..Len(sizes) /\ c \in Nat /\ c - 1 \in 0..(c - 1) /\ c + 1 \in (c + 1)..(Len(sizes) + 1)
      BY <2>2, <2>3
    <2>5. TypeOK'
      BY <1>1, <2>1, <2>4 DEF IInv, TypeOK, c
    <2>6. Active'
      BY <1>1, <1>2 DEF Active, NoCall
    <2>7. Named'
      BY <1>1, <2>1 DEF IInv, Named, Early, Aliases
    <2>8. Absent'
      BY <1>1, <2>1 DEF IInv, Absent, Aliases, Here
    <2>9. Onwards'
      <3> SUFFICES ASSUME Strict PROVE Reached(env.name)'
        BY <1>1 DEF Onwards, Strict
      <3>1. \A i, j \in DOMAIN sizes : i < j => sizes[i] < sizes[j]
        BY DEF Strict
      <3>2. ASSUME NEW i \in DOMAIN sizes, i <= c - 1 PROVE sizes[i] < call.dpi
        <4>1. sizes[i] < sizes[c]
          BY <2>2, <2>3, <2>4, <3>1, <3>2
        <4>2. Distance(sizes[c], call.dpi) <= Distance(sizes[i], call.dpi)
          BY <2>2
        <4>3. sizes[i] \in Nat /\ sizes[c] \in Nat /\ call.dpi \in Nat
          BY <2>2, <2>3
        <4> QED  BY <4>1, <4>2, <4>3 DEF Distance
      <3>3. ASSUME NEW i \in DOMAIN sizes, c + 1 <= i PROVE call.dpi < sizes[i]
        <4>1. sizes[c] < sizes[i]
          BY <2>2, <2>3, <2>4, <3>1, <3>3
        <4>2. Distance(sizes[c], call.dpi) <= Distance(sizes[i], call.dpi)
          BY <2>2
        <4>3. sizes[i] \in Nat /\ sizes[c] \in Nat /\ call.dpi \in Nat
          BY <2>2, <2>3
        <4> QED  BY <4>1, <4>2, <4>3 DEF Distance
      <3>4. \A i \in DOMAIN sizes : ~ (c - 1 < i /\ i < c + 1 /\ i # c)
        BY <2>3, <2>4
      <3>5. loc' = c /\ lower_loc' = c - 1 /\ upper_loc' = c + 1
        BY <2>1 DEF c
      <3> QED  BY <1>1, <2>2, <2>4, <3>2, <3>3, <3>4, <3>5 DEF Reached
    <2>10. PassedBy'
      BY <1>1, <2>1 DEF IInv, PassedBy, Strict, Here
    <2>11. BestSource' /\ ClosestFound' /\ NothingMissed'
      BY <2>1, Running
    <2> QED  BY <2>5, <2>6, <2>7, <2>8, <2>9, <2>10, <2>11 DEF IInv
  <1> QED  BY <1>4, <1>5

\* The walk over the sizes of the font itself.
LEMMA FallbackKeeps ==
    ASSUME IInv, Fallback
    PROVE  IInv'
  <1>1. StartWalk("fallback", "walk") /\ UNCHANGED <<files, world, env, call>>
    BY DEF Fallback
  <1>2. env' \in [name : Names \cup {Null}, dpi : 0..(Word - 1)]
    BY <1>1 DEF IInv, TypeOK
  <1> QED  BY <1>1, <1>2, StartWalkKeeps

\* The fallback font.
LEMMA LastFontKeeps ==
    ASSUME IInv, LastFont
    PROVE  IInv'
  <1> DEFINE found == try_resolution(last, call.dpi)
  <1>1. /\ pc = "last" /\ env' = [name |-> last, dpi |-> found.tried]
        /\ UNCHANGED <<files, world, call>> /\ UNCHANGED <<map, sizes, last>>
    BY DEF LastFont, world
  <1>2. TypeOK /\ Active /\ call # NoCall /\ files \subseteq File
    BY <1>1 DEF IInv, Active, TypeOK
  <1>3. call.dpi \in 0..(Word - 1) /\ last \in Names
    <2>1. last \in Names \cup {Null} /\ last # Null
      BY <1>1, GlyphAssumption DEF IInv, TypeOK, Named
    <2> QED  BY <1>2, <2>1, Calling
  <1>4. /\ found.tried \in 0..(Word - 1)
        /\ found.file = Null => ~Here(last, call.dpi)
        /\ found.file # Null =>
             found.file \in files /\ Fits(found.file, call.format, last, call.dpi)
    BY <1>2, <1>3, Resolved
  <1>5. env' \in [name : Names \cup {Null}, dpi : 0..(Word - 1)] /\ env'.name = last
    BY <1>1, <1>3, <1>4
  <1>6. CASE found.file # Null
    <2>1. Return(found.file, Told(last, found.file, "fallback"))
      BY <1>6 DEF LastFont
    <2>2. TypeOK' /\ Active' /\ Named' /\ Absent' /\ Onwards' /\ PassedBy'
      <3>1. Told(last, found.file, "fallback").source \in Sources /\ found.file \in File
        BY <1>2, <1>4, <1>6 DEF Told, Sources
      <3> HIDE DEF found
      <3> QED  BY <1>1, <1>2, <1>5, <2>1, <3>1, Ending
    <2>3. glyph_file'.source = "fallback" /\ ret' = found.file
      BY <2>1 DEF Return, Told
    <2>4. BestSource'
      <3>1. ~Here(call.name, call.dpi) /\ \A a \in Aliases : ~Here(a, call.dpi)
        BY <1>1 DEF IInv, Absent
      <3> HIDE DEF found
      <3>2. ~ \E f \in files : Fits(f, call.format, call.name, call.dpi)
        BY <3>1 DEF Here, Has
      <3>3. \A a \in Aliases : ~ \E f \in files : Fits(f, call.format, a, call.dpi)
        BY <3>1 DEF Here, Has
      <3> QED  BY <1>1, <1>4, <1>6, <2>3, <3>2, <3>3 DEF BestSource, Close, Fits, There, Aliases
    <2>5. ClosestFound'
      <3> HIDE DEF found
      <3> QED  BY <1>1, <1>4, <1>6, <2>3 DEF ClosestFound, There, Close, Fits
    <2>6. NothingMissed'
      BY <1>6, <2>3 DEF NothingMissed
    <2> QED  BY <2>2, <2>4, <2>5, <2>6 DEF IInv
  <1>7. CASE found.file = Null
    <2>1. StartWalk("last", "lastwalk")
      BY <1>7 DEF LastFont
    <2> QED  BY <1>1, <1>4, <1>5, <1>7, <2>1, StartWalkKeeps
  <1> QED  BY <1>6, <1>7

\* Within the list a difference is less than INT_MAX: that marks its ends.
LEMMA EndsMarked ==
    ASSUME TypeOK, Active, call # NoCall, Strict, Reached(env.name)
    PROVE  /\ IntMax \in Nat
           /\ lower_loc >= 1 =>
                /\ lower_loc \in DOMAIN sizes
                /\ Minus(call.dpi, sizes[lower_loc]) = Distance(sizes[lower_loc], call.dpi)
                /\ Distance(sizes[lower_loc], call.dpi) < IntMax
           /\ upper_loc <= Len(sizes) =>
                /\ upper_loc \in DOMAIN sizes
                /\ Minus(sizes[upper_loc], call.dpi) = Distance(sizes[upper_loc], call.dpi)
                /\ Distance(sizes[upper_loc], call.dpi) < IntMax
  <1>1. /\ Len(sizes) \in Nat /\ DOMAIN sizes = 1..Len(sizes)
        /\ \A i \in DOMAIN sizes : sizes[i] \in Nat /\ sizes[i] >= 1 /\ sizes[i] \in 0..(Word - 1)
    BY SizesTyped DEF TypeOK
  <1>2. call.dpi \in 0..(Word - 1) /\ call.dpi >= 1 /\ call.dpi \in Nat
    <2>1. \A d \in 0..(Word - 1) : d \in Nat
      BY GlyphAssumption
    <2> QED  BY <2>1, Calling
  <1>3. IntMax \in Nat
    BY GlyphAssumption DEF IntMax
  <1>4. call.dpi <= IntMax /\ \A i \in DOMAIN sizes : sizes[i] <= IntMax
    BY DEF Strict
  <1>5. loc \in 1..Len(sizes) /\ lower_loc \in 0..(loc - 1) /\ upper_loc \in (loc + 1)..(Len(sizes) + 1)
    BY <1>1 DEF Reached
  <1>6. ASSUME lower_loc >= 1
        PROVE  /\ lower_loc \in DOMAIN sizes
               /\ Minus(call.dpi, sizes[lower_loc]) = Distance(sizes[lower_loc], call.dpi)
               /\ Distance(sizes[lower_loc], call.dpi) < IntMax
    <2>1. lower_loc \in DOMAIN sizes /\ lower_loc <= lower_loc
      BY <1>1, <1>5, <1>6
    <2> DEFINE s == sizes[lower_loc]
    <2>2. s < call.dpi /\ s \in Nat /\ s >= 1
      BY <1>1, <2>1 DEF Reached
    <2> HIDE DEF s
    <2>3. s \in 0..call.dpi
      BY <1>2, <2>2
    <2>4. Minus(call.dpi, s) = call.dpi - s
      BY <1>2, <2>3, Differences
    <2>5. Distance(s, call.dpi) = call.dpi - s
      BY <1>2, <2>2 DEF Distance
    <2>6. call.dpi - s < IntMax
      BY <1>2, <1>3, <1>4, <2>2
    <2> QED  BY <2>1, <2>4, <2>5, <2>6 DEF s
  <1>7. ASSUME upper_loc <= Len(sizes)
        PROVE  /\ upper_loc \in DOMAIN sizes
               /\ Minus(sizes[upper_loc], call.dpi) = Distance(sizes[upper_loc], call.dpi)
               /\ Distance(sizes[upper_loc], call.dpi) < IntMax
    <2>1. upper_loc \in DOMAIN sizes /\ upper_loc <= upper_loc
      BY <1>1, <1>5, <1>7
    <2> DEFINE s == sizes[upper_loc]
    <2>2. call.dpi < s /\ s \in Nat /\ s \in 0..(Word - 1) /\ s <= IntMax
      BY <1>1, <1>4, <2>1 DEF Reached
    <2> HIDE DEF s
    <2>3. call.dpi \in 0..s
      BY <1>2, <2>2
    <2>4. Minus(s, call.dpi) = s - call.dpi
      BY <2>2, <2>3, Differences
    <2>5. Distance(s, call.dpi) = s - call.dpi
      BY <1>2, <2>2 DEF Distance
    <2>6. s - call.dpi < IntMax
      BY <1>2, <1>3, <2>2
    <2> QED  BY <2>1, <2>4, <2>5, <2>6 DEF s
  <1> QED  BY <1>3, <1>6, <1>7

\* Where the walk goes next; `down' tells which way.
LEMMA Moved ==
    ASSUME IInv, call # NoCall, Strict, Reached(env.name), Walked(env.name, loc), NEW down \in BOOLEAN,
           IF down THEN /\ lower_loc >= 1
                        /\ upper_loc <= Len(sizes) =>
                             Distance(sizes[lower_loc], call.dpi) <= Distance(sizes[upper_loc], call.dpi)
                   ELSE /\ upper_loc <= Len(sizes)
                        /\ lower_loc >= 1 =>
                             Distance(sizes[upper_loc], call.dpi) <= Distance(sizes[lower_loc], call.dpi),
           loc' = IF down THEN lower_loc ELSE upper_loc,
           lower_loc' = IF down THEN lower_loc - 1 ELSE lower_loc,
           upper_loc' = IF down THEN upper_loc ELSE upper_loc + 1,
           UNCHANGED <<files, sizes, call>>, env'.name = env.name
    PROVE  Reached(env.name)'
  <1>1. /\ Len(sizes) \in Nat /\ DOMAIN sizes = 1..Len(sizes)
        /\ \A i \in DOMAIN sizes : sizes[i] \in Nat
    BY SizesTyped DEF IInv, TypeOK
  <1>2. call.dpi \in Nat
    <2>1. \A d \in 0..(Word - 1) : d \in Nat
      BY GlyphAssumption
    <2> QED  BY <2>1, Calling DEF IInv
  <1>3. /\ loc \in 1..Len(sizes) /\ lower_loc \in 0..(loc - 1)
        /\ upper_loc \in (loc + 1)..(Len(sizes) + 1)
    BY <1>1 DEF Reached
  <1>4. loc' \in DOMAIN sizes /\ lower_loc' \in 0..(loc' - 1)
        /\ upper_loc' \in (loc' + 1)..(Len(sizes) + 1)
    BY <1>1, <1>3
  <1>5. ASSUME NEW i \in DOMAIN sizes, lower_loc' < i, i < upper_loc', i # loc'
        PROVE  Walked(env.name, i)
    <2>1. i = loc \/ (lower_loc < i /\ i < upper_loc /\ i # loc)
      BY <1>1, <1>3, <1>5
    <2> QED  BY <2>1 DEF Reached
  <1>6. \A i, j \in DOMAIN sizes : i < j => sizes[i] < sizes[j]
    BY DEF Strict
  <1>7. ASSUME NEW i \in DOMAIN sizes, i <= lower_loc'
        PROVE  /\ sizes[i] < call.dpi
               /\ Distance(sizes[loc'], call.dpi) <= Distance(sizes[i], call.dpi)
    <2>1. i <= lower_loc /\ lower_loc \in DOMAIN sizes /\ i \in Nat
      BY <1>1, <1>3, <1>7
    <2>2. sizes[i] < call.dpi /\ sizes[lower_loc] < call.dpi /\ (i < lower_loc \/ i = lower_loc)
      BY <1>1, <1>3, <2>1 DEF Reached
    <2>3. sizes[i] <= sizes[lower_loc] /\ sizes[i] \in Nat /\ sizes[lower_loc] \in Nat
      BY <1>1, <1>6, <2>1, <2>2
    <2>4. Distance(sizes[lower_loc], call.dpi) <= Distance(sizes[i], call.dpi)
      BY <1>2, <2>2, <2>3 DEF Distance
    <2>5. CASE down
      BY <2>2, <2>4, <2>5
    <2>6. CASE ~down
      <3>1. Distance(sizes[upper_loc], call.dpi) <= Distance(sizes[lower_loc], call.dpi)
            /\ upper_loc \in DOMAIN sizes
        BY <1>1, <1>3, <2>1, <2>6
      <3>2. sizes[upper_loc] \in Nat
        BY <1>1, <3>1
      <3>3. \A k \in {i, lower_loc, upper_loc} : Distance(sizes[k], call.dpi) \in Int
        BY <1>2, <2>3, <3>2 DEF Distance
      <3>4. Distance(sizes[upper_loc], call.dpi) <= Distance(sizes[i], call.dpi)
        BY <2>4, <3>1, <3>3
      <3> QED  BY <2>2, <2>6, <3>4
    <2> QED  BY <2>5, <2>6
  <1>8. ASSUME NEW i \in DOMAIN sizes, upper_loc' <= i
        PROVE  /\ call.dpi < sizes[i]
               /\ Distance(sizes[loc'], call.dpi) <= Distance(sizes[i], call.dpi)
    <2>1. upper_loc <= i /\ upper_loc \in DOMAIN sizes /\ i \in Nat
      BY <1>1, <1>3, <1>8
    <2>2. call.dpi < sizes[i] /\ call.dpi < sizes[upper_loc] /\ (upper_loc < i \/ i = upper_loc)
      BY <1>1, <1>3, <2>1 DEF Reached
    <2>3. sizes[upper_loc] <= sizes[i] /\ sizes[i] \in Nat /\ sizes[upper_loc] \in Nat
      BY <1>1, <1>6, <2>1, <2>2
    <2>4. Distance(sizes[upper_loc], call.dpi) <= Distance(sizes[i], call.dpi)
      BY <1>2, <2>2, <2>3 DEF Distance
    <2>5. CASE ~down
      BY <2>2, <2>4, <2>5
    <2>6. CASE down
      <3>1. Distance(sizes[lower_loc], call.dpi) <= Distance(sizes[upper_loc], call.dpi)
            /\ lower_loc \in DOMAIN sizes
        BY <1>1, <1>3, <2>1, <2>6
      <3>2. sizes[lower_loc] \in Nat
        BY <1>1, <3>1
      <3>3. \A k \in {i, lower_loc, upper_loc} : Distance(sizes[k], call.dpi) \in Int
        BY <1>2, <2>3, <3>2 DEF Distance
      <3>4. Distance(sizes[lower_loc], call.dpi) <= Distance(sizes[i], call.dpi)
        BY <2>4, <3>1, <3>3
      <3> QED  BY <2>2, <2>6, <3>4
    <2> QED  BY <2>5, <2>6
  <1> HIDE DEF IInv
  <1>9. \A i \in DOMAIN sizes' : lower_loc' < i /\ i < upper_loc' /\ i # loc' => Walked(env.name, i)'
    BY <1>5 DEF Walked, Here
  <1> QED  BY <1>4, <1>7, <1>8, <1>9 DEF Reached

\* Nothing at this place of the walk.
LEMMA OnwardKeeps ==
    ASSUME IInv, NEW part \in {"walk", "lastwalk"}, pc = part, Onward(part),
           UNCHANGED <<files, world, call>>, env'.name = env.name,
           env' \in [name : Names \cup {Null}, dpi : 0..(Word - 1)],
           Strict => Walked(env.name, loc)
    PROVE  IInv'
  <1> DEFINE lower_diff == IF lower_loc >= 1 THEN Minus(call.dpi, sizes[lower_loc]) ELSE IntMax
             upper_diff == IF upper_loc <= Len(sizes) THEN Minus(sizes[upper_loc], call.dpi)
                           ELSE IntMax
             over == lower_diff = IntMax /\ upper_diff = IntMax
  <1>1. UNCHANGED <<map, sizes, last>>
    BY DEF world
  <1>2. TypeOK /\ Active /\ call # NoCall
    BY DEF IInv, Active
  <1>3. Strict => Reached(env.name)
    BY DEF IInv, Onwards
  <1>4. Strict => /\ IntMax \in Nat
                  /\ lower_loc >= 1 => lower_diff = Distance(sizes[lower_loc], call.dpi)
                                       /\ lower_diff < IntMax
                  /\ upper_loc <= Len(sizes) => upper_diff = Distance(sizes[upper_loc], call.dpi)
                                                /\ upper_diff < IntMax
    BY <1>2, <1>3, EndsMarked
  <1>5. CASE over
    <2>1. Next_part(part)
      BY <1>5 DEF Onward
    <2>2. ASSUME Strict PROVE \A s \in ToSet(sizes) : s = call.dpi \/ ~Here(env.name, s)
      <3>1. ~ (lower_loc >= 1) /\ ~ (upper_loc <= Len(sizes))
        BY <1>4, <1>5, <2>2
      <3>2. /\ Len(sizes) \in Nat /\ DOMAIN sizes = 1..Len(sizes)
        BY <1>2, SizesTyped DEF TypeOK
      <3>3. lower_loc \in Int /\ upper_loc \in Int
        BY <1>2 DEF TypeOK
      <3>4. \A i \in DOMAIN sizes : lower_loc < i /\ i < upper_loc
        BY <3>1, <3>2, <3>3
      <3>5. \A i \in DOMAIN sizes : Walked(env.name, i)
        BY <1>3, <2>2, <3>4 DEF Reached
      <3> QED  BY <3>5 DEF Walked, ToSet
    <2>3. ASSUME Strict
          PROVE  IF part \in {"fallback", "walk"}
                 THEN map[call.name] = <<>> => \A s \in ToSet(sizes) : ~Here(call.name, s)
                 ELSE ~Here(last, call.dpi) /\ \A s \in ToSet(sizes) : ~Here(last, s)
      <3>1. CASE part = "walk"
        <4>1. map[call.name] = <<>> => env.name = call.name
          BY <3>1 DEF IInv, Named, Early
        <4>2. ~Here(call.name, call.dpi)
          BY <3>1 DEF IInv, Absent
        <4> QED  BY <2>2, <2>3, <3>1, <4>1, <4>2
      <3>2. CASE part = "lastwalk"
        <4>1. env.name = last /\ ~Here(last, call.dpi)
          BY <3>2 DEF IInv, Named, Absent
        <4> QED  BY <2>2, <2>3, <3>2, <4>1
      <3> QED  BY <3>1, <3>2
    <2> QED  BY <2>1, <2>3, NextPartKeeps
  <1>6. CASE ~over
    <2> DEFINE down == lower_diff < upper_diff
    <2>1. /\ pc' = part /\ UNCHANGED <<ret, glyph_file, fontname, todo>>
          /\ loc' = IF down THEN lower_loc ELSE upper_loc
          /\ lower_loc' = IF down THEN lower_loc - 1 ELSE lower_loc
          /\ upper_loc' = IF down THEN upper_loc ELSE upper_loc + 1
      <3>1. /\ Continue(part) /\ UNCHANGED <<fontname, todo>>
            /\ IF down
               THEN loc' = lower_loc /\ lower_loc' = lower_loc - 1 /\ UNCHANGED upper_loc
               ELSE loc' = upper_loc /\ upper_loc' = upper_loc + 1 /\ UNCHANGED lower_loc
        BY <1>6 DEF Onward
      <3> HIDE DEF down
      <3> QED  BY <3>1 DEF Continue
    <2>2. TypeOK'
      <3> HIDE DEF down
      <3>1. loc' \in Int /\ lower_loc' \in Int /\ upper_loc' \in Int
        BY <1>2, <2>1 DEF TypeOK
      <3> QED  BY <1>1, <2>1, <3>1 DEF IInv, TypeOK
    <2>3. Active'
      BY <1>2, <2>1 DEF Active, NoCall
    <2>4. Named'
      BY <1>1, <2>1 DEF IInv, Named, Early, Aliases
    <2>5. Absent'
      BY <1>1, <2>1 DEF IInv, Absent, Aliases, Here
    <2>6. Onwards'
      <3> SUFFICES ASSUME Strict PROVE Reached(env.name)'
        BY <1>1 DEF Onwards, Strict
      <3>1. Reached(env.name) /\ Walked(env.name, loc)
        BY <1>3
      <3>2. lower_loc \in Int /\ upper_loc \in Int /\ Len(sizes) \in Nat
        BY <1>2, SizesTyped DEF TypeOK
      <3>3. lower_diff \in Int /\ upper_diff \in Int /\ lower_diff <= IntMax /\ upper_diff <= IntMax
        <4>1. \A i \in DOMAIN sizes : Distance(sizes[i], call.dpi) \in Int
          <5>1. \A d \in 0..(Word - 1) : d \in Nat
            BY GlyphAssumption
          <5> QED  BY <1>2, <5>1, SizesTyped, Calling DEF TypeOK, Distance
        <4>2. lower_loc >= 1 => lower_loc \in DOMAIN sizes
          BY <1>2, <3>1, EndsMarked
        <4>3. upper_loc <= Len(sizes) => upper_loc \in DOMAIN sizes
          BY <1>2, <3>1, EndsMarked
        <4>4. lower_diff \in Int /\ lower_diff <= IntMax
          BY <1>4, <4>1, <4>2
        <4>5. upper_diff \in Int /\ upper_diff <= IntMax
          BY <1>4, <4>1, <4>3
        <4> QED  BY <4>4, <4>5
      <3>4. IF down THEN /\ lower_loc >= 1
                         /\ upper_loc <= Len(sizes) =>
                              Distance(sizes[lower_loc], call.dpi) <= Distance(sizes[upper_loc], call.dpi)
                    ELSE /\ upper_loc <= Len(sizes)
                         /\ lower_loc >= 1 =>
                              Distance(sizes[upper_loc], call.dpi) <= Distance(sizes[lower_loc], call.dpi)
        <4>1. ~ (lower_loc >= 1) => lower_diff = IntMax
          OBVIOUS
        <4>2. ~ (upper_loc <= Len(sizes)) => upper_diff = IntMax
          OBVIOUS
        <4> HIDE DEF lower_diff, upper_diff
        <4> QED  BY <1>4, <1>6, <3>3, <4>1, <4>2
      <3> HIDE DEF lower_diff, upper_diff, over
      <3>5. down \in BOOLEAN
        OBVIOUS
      <3> HIDE DEF down
      <3> QED  BY <1>1, <1>2, <2>1, <3>1, <3>4, <3>5, Moved
    <2>7. PassedBy'
      BY <1>1, <2>1 DEF IInv, PassedBy, Strict, Here
    <2>8. BestSource' /\ ClosestFound' /\ NothingMissed'
      BY <2>1, Running
    <2> QED  BY <2>2, <2>3, <2>4, <2>5, <2>6, <2>7, <2>8 DEF IInv
  <1> QED  BY <1>5, <1>6

\* One place of the walk.
LEMMA TrySizeKeeps ==
    ASSUME IInv, NEW part \in {"walk", "lastwalk"}, NEW size \in 0..(Word - 1),
           Strict => size = sizes[loc], TrySize(part, size)
    PROVE  IInv'
  <1> DEFINE name == IF part = "walk" THEN fontname ELSE last
             source == IF part = "walk" THEN "fallback_res" ELSE "fallback"
             found == try_resolution(env.name, size)
  <1>1. pc = part /\ UNCHANGED <<files, world, call>> /\ UNCHANGED <<map, sizes, last>>
    BY DEF TrySize, world
  <1>2. TypeOK /\ Active /\ call # NoCall /\ files \subseteq File
        /\ env \in [name : Names \cup {Null}, dpi : 0..(Word - 1)]
    BY <1>1 DEF IInv, Active, TypeOK
  <1>3. Strict => Reached(env.name)
    BY <1>1 DEF IInv, Onwards
  <1>4. /\ found.tried \in 0..(Word - 1)
        /\ found.file = Null => ~Here(env.name, size)
        /\ found.file # Null =>
             found.file \in files /\ Fits(found.file, call.format, env.name, size)
    BY <1>2, Resolved
  <1>5. CASE size = call.dpi
    <2>1. Onward(part) /\ env' = env
      BY <1>5 DEF TrySize
    <2>2. Strict => Walked(env.name, loc)
      BY <1>5 DEF Walked
    <2> QED  BY <1>1, <1>2, <2>1, <2>2, OnwardKeeps
  <1>6. CASE size # call.dpi
    <2>1. env' = [env EXCEPT !.dpi = found.tried]
      BY <1>6 DEF TrySize
    <2>2. env' \in [name : Names \cup {Null}, dpi : 0..(Word - 1)] /\ env'.name = env.name
      BY <1>2, <1>4, <2>1
    <2>3. CASE found.file = Null
      <3>1. Onward(part)
        BY <1>6, <2>3 DEF TrySize
      <3>2. Strict => Walked(env.name, loc)
        BY <1>4, <2>3 DEF Walked
      <3> QED  BY <1>1, <2>2, <3>1, <3>2, OnwardKeeps
    <2>4. CASE found.file # Null
      <3>1. Return(found.file, Told(name, found.file, source))
        BY <1>6, <2>4 DEF TrySize
      <3>2. TypeOK' /\ Active' /\ Named' /\ Absent' /\ Onwards' /\ PassedBy'
        <4>1. Told(name, found.file, source).source \in Sources /\ found.file \in File
          BY <1>2, <1>4, <2>4 DEF Told, Sources
        <4> HIDE DEF found, name, source
        <4> QED  BY <1>1, <1>2, <2>2, <3>1, <4>1, Ending
      <3>3. glyph_file'.source = source /\ ret' = found.file
        BY <3>1 DEF Return, Told
      <3>4. ret'.name = env.name /\ ret' # Null /\ ret' \in files /\ Fits(ret', call.format, env.name, size)
        BY <1>4, <2>4, <3>3 DEF Fits
      <3> HIDE DEF found, name
      <3>5. BestSource'
        <4>1. ~Here(call.name, call.dpi) /\ \A a \in Aliases : ~Here(a, call.dpi)
          BY <1>1 DEF IInv, Absent
        <4>2. ~ \E f \in files : Fits(f, call.format, call.name, call.dpi)
          BY <4>1 DEF Here, Has
        <4>3. \A a \in Aliases : ~ \E f \in files : Fits(f, call.format, a, call.dpi)
          BY <4>1 DEF Here, Has
        <4>4. CASE part = "walk"
          <5>1. ret'.name \in {call.name} \cup Aliases /\ glyph_file'.source = "fallback_res"
            BY <1>1, <3>3, <3>4, <4>4 DEF IInv, Named, Early
          <5> QED  BY <1>1, <4>2, <4>3, <5>1 DEF BestSource, Close, Fits, There, Aliases
        <4>5. CASE part = "lastwalk"
          <5>1. ret'.name = last /\ glyph_file'.source = "fallback"
            BY <1>1, <3>3, <3>4, <4>5 DEF IInv, Named
          <5> QED  BY <1>1, <4>2, <4>3, <5>1 DEF BestSource, Close, Fits, There, Aliases
        <4> QED  BY <4>4, <4>5
      <3>6. ClosestFound'
        <4> SUFFICES ASSUME Strict PROVE ClosestFound'
          BY <1>1 DEF ClosestFound, Strict
        <4> DEFINE H(s) == \E f \in files : /\ f.name = env.name /\ f.dpi \in Near(s)
                                            /\ f.format \in Tried(call.format)
        <4>1. \A s : Here(env.name, s) <=> H(s)
          BY DEF Here, Has, Fits
        <4>2. size = sizes[loc] /\ loc \in DOMAIN sizes /\ size \in ToSet(sizes)
          BY <1>3 DEF Reached, ToSet
        <4>3. /\ Len(sizes) \in Nat /\ DOMAIN sizes = 1..Len(sizes) /\ call.dpi \in Nat
              /\ \A i \in DOMAIN sizes : sizes[i] \in Nat
          <5>1. \A d \in 0..(Word - 1) : d \in Nat
            BY GlyphAssumption
          <5> QED  BY <1>2, <5>1, SizesTyped, Calling DEF TypeOK
        <4>4. ASSUME NEW i \in DOMAIN sizes, sizes[i] # call.dpi,
                     Distance(sizes[i], call.dpi) < Distance(size, call.dpi)
              PROVE  ~H(sizes[i])
          <5>1. i # loc
            BY <4>2, <4>3, <4>4 DEF Distance
          <5>2. ~ (Distance(sizes[loc], call.dpi) <= Distance(sizes[i], call.dpi))
            BY <4>2, <4>3, <4>4 DEF Distance
          <5>3. ~ (i <= lower_loc) /\ ~ (upper_loc <= i)
            BY <1>3, <5>2 DEF Reached
          <5>4. lower_loc < i /\ i < upper_loc
            BY <1>2, <4>3, <5>3 DEF TypeOK
          <5>5. Walked(env.name, i)
            BY <1>3, <5>1, <5>4 DEF Reached
          <5> QED  BY <4>1, <4>4, <5>5 DEF Walked
        <4>5. \A t \in ToSet(sizes) \ {call.dpi} :
                Distance(t, call.dpi) < Distance(size, call.dpi) => ~H(t)
          BY <4>4 DEF ToSet
        <4> QED  BY <1>1, <3>4, <4>2, <4>5 DEF ClosestFound, There, Close, Fits
      <3>7. NothingMissed'
        BY <3>4 DEF NothingMissed
      <3> QED  BY <3>2, <3>5, <3>6, <3>7 DEF IInv
    <2> QED  BY <2>3, <2>4
  <1> QED  BY <1>5, <1>6

\* The program ends at a word that it may not read.
LEMMA CrashKeeps ==
    ASSUME IInv, Crash
    PROVE  IInv'
  <1>1. call' = NoCall /\ env' = [name |-> Null, dpi |-> 0] /\ Return(Null, NothingTold)
        /\ UNCHANGED <<files, map, sizes, last>>
    BY DEF Crash, world
  <1>2. TypeOK'
    <2>1. 0 \in 0..(Word - 1)
      BY GlyphAssumption
    <2>2. call' \in [name : Names \cup {Null}, dpi : Dpis \cup {0}, format : {"pk", "gf", "any"}]
      BY <1>1 DEF NoCall
    <2>3. env' \in [name : Names \cup {Null}, dpi : 0..(Word - 1)]
      BY <1>1, <2>1
    <2> QED  BY <1>1, <2>2, <2>3 DEF IInv, TypeOK, Return, NothingTold
  <1>3. Active' /\ Named' /\ Absent' /\ Onwards' /\ PassedBy'
    BY <1>1 DEF Active, Named, Absent, Onwards, PassedBy, Early, Return
  <1>4. BestSource' /\ ClosestFound' /\ NothingMissed'
    <2>1. call' = NoCall
      BY <1>1
    <2>2. ~Returned'
      BY <2>1 DEF Returned, NoCall
    <2> QED  BY <2>2 DEF BestSource, ClosestFound, NothingMissed
  <1> QED  BY <1>2, <1>3, <1>4 DEF IInv

-----------------------------------------------------------------------------
(* The theorems *)

\* IInv holds at the start.
LEMMA InitHolds == Init => IInv
  <1> SUFFICES ASSUME Init PROVE IInv
    OBVIOUS
  <1>1. sizes \in Seq(1..(Word - 1))
    <2>1. PICK s \in Settings : sizes = Listed(s)
      BY DEF Init
    <2>2. s \in Seq(0..(Word - 1))
      BY GlyphAssumption
    <2> QED  BY <2>1, <2>2, ListedTyped
  <1>2. files \subseteq File /\ 0 \in 0..(Word - 1)
    BY GlyphAssumption DEF Init
  <1>3. TypeOK
    <2>1. call \in [name : Names \cup {Null}, dpi : Dpis \cup {0}, format : {"pk", "gf", "any"}]
      BY DEF Init, NoCall
    <2>2. env \in [name : Names \cup {Null}, dpi : 0..(Word - 1)]
      BY <1>2 DEF Init
    <2> QED  BY <1>1, <1>2, <2>1, <2>2 DEF Init, TypeOK, NothingTold
  <1>4. Active /\ Named /\ Absent /\ Onwards /\ PassedBy
    BY DEF Init, Active, Named, Absent, Onwards, PassedBy, Early
  <1>5. BestSource /\ ClosestFound /\ NothingMissed
    <2>1. ~Returned
      BY DEF Init, Returned
    <2> QED  BY <2>1 DEF BestSource, ClosestFound, NothingMissed
  <1> QED  BY <1>3, <1>4, <1>5 DEF IInv

\* Every step keeps it.
LEMMA NextKeeps == IInv /\ [Next]_vars => IInv'
  <1> SUFFICES ASSUME IInv, [Next]_vars PROVE IInv'
    OBVIOUS
  <1>1. CASE TryName
    BY <1>1, TryNameKeeps
  <1>2. CASE TryAlias
    BY <1>2, TryAliasKeeps
  <1>3. CASE NoAlias
    BY <1>3, NoAliasKeeps
  <1>4. CASE Make
    BY <1>4, MakeKeeps
  <1>5. CASE MakeFails
    BY <1>5, MakeFailsKeeps
  <1>6. CASE Fallback
    BY <1>6, FallbackKeeps
  <1>7. CASE LastFont
    BY <1>7, LastFontKeeps
  <1>8. CASE Crash
    BY <1>8, CrashKeeps
  <1>9. ASSUME NEW part \in {"walk", "lastwalk"}, Walk(part)
        PROVE  IInv'
    <2>1. loc \in DOMAIN sizes /\ TrySize(part, sizes[loc])
      BY <1>9 DEF Walk
    <2>2. sizes[loc] \in 0..(Word - 1)
      BY <2>1, SizesTyped DEF IInv, TypeOK
    <2> QED  BY <2>1, <2>2, TrySizeKeeps
  <1>10. ASSUME NEW part \in {"walk", "lastwalk"}, NEW junk \in Junk, Stray(part, junk)
         PROVE  IInv'
    <2>1. loc \notin DOMAIN sizes /\ TrySize(part, junk)
      BY <1>10 DEF Stray
    <2>2. pc = part
      BY <2>1 DEF TrySize
    <2>3. ~Strict
      BY <2>1, <2>2 DEF IInv, Onwards, Reached
    <2>4. junk \in 0..(Word - 1)
      BY GlyphAssumption
    <2> QED  BY <2>1, <2>3, <2>4, TrySizeKeeps
  <1>11. ASSUME NEW name \in Names, NEW dpi \in Dpis, NEW format \in Requested,
                kpathsea_find_glyph(name, dpi, format)
         PROVE  IInv'
    BY <1>11, find_glyphKeeps
  <1>12. CASE UNCHANGED vars
    <2>1. UNCHANGED <<files, map, sizes, last, env, call, fontname, pc, todo,
                      loc, lower_loc, upper_loc, ret, glyph_file>>
      BY <1>12 DEF vars
    <2>2. TypeOK'
      BY <2>1 DEF IInv, TypeOK
    <2>3. Active' /\ Named'
      BY <2>1 DEF IInv, Active, Named, NoCall, Aliases, Early
    <2>4. Absent' /\ PassedBy'
      BY <2>1 DEF IInv, Absent, PassedBy, Strict, Aliases, Here
    <2>5. Onwards'
      BY <2>1 DEF IInv, Onwards, Strict, Reached, Walked, Here
    <2>6. BestSource'
      BY <2>1 DEF IInv, BestSource, Returned, NoCall, There, Close
    <2>7. ClosestFound' /\ NothingMissed'
      BY <2>1 DEF IInv, ClosestFound, NothingMissed, Returned, NoCall, There, Close, Strict
    <2> QED  BY <2>2, <2>3, <2>4, <2>5, <2>6, <2>7 DEF IInv
  <1> QED  BY <1>1, <1>2, <1>3, <1>4, <1>5, <1>6, <1>7, <1>8, <1>9, <1>10, <1>11, <1>12
           DEF Next, Step

\* IInv is an invariant.
LEMMA Inductive == Spec => []IInv
  BY InitHolds, NextKeeps, PTL DEF Spec

\* The places of the walk, the resolution left in the environment and the
\* result are what they are declared as, whatever the sizes and the words
\* around them hold.
THEOREM GlyphTypeCorrect == Spec => []TypeOK
  BY Inductive, PTL DEF IInv

\* What is told of where a font comes from is true, and no better source has
\* it: none is made or replaced that is there.
THEOREM BestSourceWins == Spec => []BestSource
  BY Inductive, PTL DEF IInv

\* A stand-in has, of the listed sizes there are files for, the closest.
THEOREM ClosestSizeFound == Spec => []ClosestFound
  BY Inductive, PTL DEF IInv

\* A search that fails has looked at everything that could stand in.
THEOREM NothingIsMissed == Spec => []NothingMissed
  BY Inductive, PTL DEF IInv

\* Only with a size listed twice, or one that is too large for an int, can
\* the walk leave the list.
THEOREM WalkStaysInList == Spec => [](Strict => InList)
  <1>1. IInv => (Strict => InList)
    BY DEF IInv, Onwards, Reached, InList
  <1> QED  BY <1>1, Inductive, PTL
=============================================================================
