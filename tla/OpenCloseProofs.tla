--------------------------- MODULE OpenCloseProofs ---------------------------
(***************************************************************************)
(* Proofs about OpenClose, for any handles, names, commands, streams, size *)
(* of the table of pipes and number of openings: TeX and the C library     *)
(* agree on what is open, no handle is closed twice or with the wrong      *)
(* call, commands are waited for while the table has room, and what was    *)
(* written under a name is what is read back under it.                     *)
(***************************************************************************)
EXTENDS OpenClose, FiniteSetTheorems, SequenceTheorems, WellFoundedInduction, TLAPS

-----------------------------------------------------------------------------
(* The invariant: of a state s of the C library and of the tables *)

\* pipes[] has pipes that are open, and none twice.
Table(s) ==
  \A i \in 1 .. NumPipes : s.pipes[i] # NULL =>
    /\ Piped(s.files[s.pipes[i]])
    /\ \A j \in 1 .. NumPipes : s.pipes[j] = s.pipes[i] => j = i

\* A pipe that pipes[] lacks was opened when there was no room; there are
\* none with shell escapes off.
Recorded(s) ==
  \A h \in Handles : Piped(s.files[h]) =>
    /\ setup.shell
    /\ s.files[h].crowd >= NumPipes \/ \E i \in 1 .. NumPipes : s.pipes[i] = h

Waited(s) == \A c \in s.unawaited : c >= NumPipes

\* A file is in a place.
Placed(s) ==
  \A h \in Handles : s.files[h].kind \in {"in", "out"} =>
    s.files[h].where \in Places /\ s.files[h].name \in Names

\* What was written last and closed is still there.
Kept(s) ==
  \A n \in Names : s.written[n][2] # 0 => s.disk[s.written[n][1]][n] = s.written[n][2]

\* ReadBack, of one opening.
Back(f) == f.kind = "in" /\ f.want[2] # 0 /\ f.want[1] = Asked /\ Reread(f.asked)
           => f.got = f.want[2]

Sound(s) ==
  /\ s \in Library /\ s.faults = {}
  /\ Table(s) /\ Recorded(s) /\ Waited(s) /\ Placed(s) /\ Kept(s)
  /\ \A h \in Handles : Back(s.files[h])

(* and of who has which handle *)

\* The streams and levels that have h.
Own(wo, wf, rf, st, h) ==
  {<<"out", j>> : j \in {j \in Writes : wo[j] /\ wf[j] = h}}
    \cup {<<"in", k>> : k \in {k \in Reads : rf[k] = h}}
    \cup {<<"level", l>> : l \in {l \in 1 .. Len(st) : st[l] = h}}

Owning(wo, wf, rf, st) == [h \in Handles |-> Own(wo, wf, rf, st, h)]

\* What is open has one owner, and what is closed has none.
Matched(files, own) ==
  \A h \in Handles : IF files[h].kind = "closed" THEN own[h] = {} ELSE \E o : own[h] = {o}

Agreed ==
  /\ \A j \in Writes : wopen[j] => wfile[j] \in Handles
  /\ phase # "dead" => Matched(io.files, Owning(wopen, wfile, rfile, stack))
  /\ phase = "dead" => \A j \in Writes : wopen[j] => ~IsOpen(wfile[j])

IInv == TypeOK /\ Sound(io) /\ Agreed

-----------------------------------------------------------------------------
(* Recursion, and least elements *)

\* The order of the natural numbers, as a set of pairs.
Less == {x \in Nat \X Nat : x[1] < x[2]}

\* A set of natural numbers that is not empty has a least element.
LEMMA Least ==
    ASSUME NEW T \in SUBSET Nat, T # {}
    PROVE  \E x \in T : \A y \in T : x <= y
  <1>1. Less \cap (Nat \X Nat) \subseteq OpToRel(<, Nat)
    BY DEF Less, OpToRel
  <1>2. IsWellFoundedOn(Less, Nat)
    BY <1>1, NatLessThanWellFounded, IsWellFoundedOnSubrelation
  <1>3. PICK x \in T : \A y \in T : ~ (<<y, x>> \in Less)
    BY <1>2, WFMin
  <1>4. ASSUME NEW y \in T PROVE x <= y
    <2>1. x \in Nat /\ y \in Nat /\ ~ (<<y, x>> \in Less)
      BY <1>3
    <2> QED  BY <2>1 DEF Less
  <1> QED  BY <1>4

\* A set of numbers that has 0, and with each number the next one, has them all.
LEMMA Upwards ==
    ASSUME NEW n \in Nat, NEW T, 0 \in T, \A i \in 0..n : i \in T /\ i < n => i + 1 \in T
    PROVE  \A i \in 0..n : i \in T
  <1> DEFINE B == {i \in 0..n : i \notin T}
  <1> SUFFICES ASSUME B # {} PROVE FALSE
    OBVIOUS
  <1>1. PICK m \in B : \A k \in B : m <= k
    <2>1. B \in SUBSET Nat
      OBVIOUS
    <2> HIDE DEF B
    <2> QED  BY <2>1, Least
  <1>2. m # 0 /\ m \in 1..n
    BY <1>1
  <1>3. m - 1 \in 0..n /\ m - 1 < n /\ ~ (m <= m - 1)
    BY <1>2
  <1>4. m - 1 \in T
    BY <1>1, <1>3
  <1>5. m - 1 + 1 = m
    BY <1>2
  <1> QED  BY <1>1, <1>3, <1>4, <1>5

\* The function f starts with a and takes the steps of G.
Steps(f, n, a, G) == \A i \in 0..n : f[i] = IF i = 0 THEN a ELSE G[i][f[i - 1]]

\* There is one for every start and all steps.
LEMMA Recursion ==
    ASSUME NEW n \in Nat, NEW S, NEW a \in S, NEW G \in [1..n -> [S -> S]]
    PROVE  \E f \in [0..n -> S] : Steps(f, n, a, G)
  <1> DEFINE T == {m \in 0..n : \E f \in [0..m -> S] :
                      \A i \in 0..m : f[i] = IF i = 0 THEN a ELSE G[i][f[i - 1]]}
  <1>1. 0 \in T
    <2> DEFINE f == [i \in 0..0 |-> a]
    <2>1. f \in [0..0 -> S] /\ \A i \in 0..0 : f[i] = IF i = 0 THEN a ELSE G[i][f[i - 1]]
      <3>1. \A i \in 0..0 : i = 0 /\ f[i] = a
        OBVIOUS
      <3>2. f \in [0..0 -> S]
        OBVIOUS
      <3> HIDE DEF f
      <3> QED  BY <3>1, <3>2
    <2> HIDE DEF f
    <2>2. 0 \in 0..n
      OBVIOUS
    <2> QED  BY <2>1, <2>2
  <1>2. ASSUME NEW m \in 0..n, m \in T, m < n PROVE m + 1 \in T
    <2>1. PICK f \in [0..m -> S] : \A i \in 0..m : f[i] = IF i = 0 THEN a ELSE G[i][f[i - 1]]
      BY <1>2
    <2> DEFINE g == [i \in 0..m + 1 |-> IF i = m + 1 THEN G[i][f[m]] ELSE f[i]]
    <2>2. m + 1 \in 1..n /\ m \in 0..m /\ f[m] \in S
      BY <1>2
    <2>3. G[m + 1][f[m]] \in S
      BY <2>2
    <2>4. g \in [0..m + 1 -> S]
      BY <2>3
    <2>5. ASSUME NEW i \in 0..m + 1 PROVE g[i] = IF i = 0 THEN a ELSE G[i][g[i - 1]]
      <3>1. CASE i = m + 1
        <4>1. i - 1 = m /\ i # 0 /\ m # m + 1 /\ m \in 0..m + 1
          BY <2>2, <3>1
        <4> QED  BY <3>1, <4>1
      <3>2. CASE i # m + 1
        <4>1. i \in 0..m /\ (i # 0 => i - 1 \in 0..m /\ i - 1 # m + 1 /\ i - 1 \in 0..m + 1)
          BY <2>2, <3>2
        <4> QED  BY <2>1, <3>2, <4>1
      <3> QED  BY <3>1, <3>2
    <2> HIDE DEF g
    <2> QED  BY <2>2, <2>4, <2>5
  <1> HIDE DEF T
  <1>3. \A i \in 0..n : i \in T /\ i < n => i + 1 \in T
    BY <1>2
  <1>4. \A i \in 0..n : i \in T
    BY <1>1, <1>3, Upwards
  <1>5. n \in T
    BY <1>4
  <1> QED  BY <1>5 DEF T, Steps


\* The one that is chosen in the table.
LEMMA FirstOf ==
    ASSUME NEW T \in SUBSET Nat, T # {}
    PROVE  (CHOOSE i \in T : \A j \in T : i <= j) \in T
  BY Least

\* Two sequences that are not empty, one after the other.
LEMMA Joined ==
    ASSUME NEW S, NEW u \in Seq(S), NEW v \in Seq(S), v # <<>>
    PROVE  /\ u \o v \in Seq(S) /\ Len(u \o v) \in Nat /\ 1 \in 1 .. Len(u \o v)
           /\ (u \o v)[1] = IF u = <<>> THEN v[1] ELSE u[1]
           /\ \A i \in 1 .. Len(u \o v) : (u \o v)[i] \in S
  <1>1. /\ u \o v \in Seq(S) /\ Len(u \o v) = Len(u) + Len(v)
        /\ \A i \in 1 .. Len(u) + Len(v) :
             (u \o v)[i] = IF i <= Len(u) THEN u[i] ELSE v[i - Len(u)]
    OBVIOUS
  <1>2. Len(u) \in Nat /\ Len(v) \in Nat /\ Len(v) # 0 /\ (u = <<>> <=> Len(u) = 0)
    OBVIOUS
  <1>3. (u \o v)[1] = IF u = <<>> THEN v[1] ELSE u[1]
    <2>1. 1 \in 1 .. Len(u) + Len(v) /\ 1 - 0 = 1 /\ (1 <= Len(u) <=> Len(u) # 0)
      BY <1>2
    <2>2. (u \o v)[1] = IF 1 <= Len(u) THEN u[1] ELSE v[1 - Len(u)]
      BY <1>1, <2>1
    <2> QED  BY <1>2, <2>1, <2>2
  <1>4. \A r \in Seq(S) : \A i \in 1 .. Len(r) : r[i] \in S
    OBVIOUS
  <1> QED  BY <1>1, <1>2, <1>3, <1>4

\* The names that are tried for a name, and the one it is written under.
LEMMA TargetsTyped ==
    ASSUME NEW n \in Names
    PROVE  /\ Targets(n) \in Seq(Names) /\ Targets(n) # <<>> /\ WrittenAs(n) \in Names
           /\ Reread(n) => IF setup.outdir THEN WrittenAs(n) = n
                           ELSE Targets(n)[1] = WrittenAs(n)
  <1>1. n \in DOMAIN Tex => Tex[n] \in Names
    BY OpenCloseAssumption
  <1>2. n \in Bare => n \in DOMAIN Tex
    BY OpenCloseAssumption
  <1>3. CASE n \notin DOMAIN Tex
    <2>1. Targets(n) = <<n>> /\ WrittenAs(n) = n
      BY <1>2, <1>3 DEF Targets, WrittenAs
    <2> QED  BY <2>1
  <1>4. CASE n \in DOMAIN Tex /\ (n \in Bare \/ setup.stdfirst)
    <2>1. Targets(n) = <<Tex[n], n>> /\ Tex[n] \in Names
      BY <1>1, <1>4 DEF Targets
    <2>2. WrittenAs(n) = IF n \in Bare THEN Tex[n] ELSE n
      BY DEF WrittenAs
    <2>3. Reread(n) => IF setup.outdir THEN n \notin Bare ELSE n \in Bare
      BY <1>4 DEF Reread
    <2> QED  BY <2>1, <2>2, <2>3
  <1>5. CASE n \in DOMAIN Tex /\ ~ (n \in Bare \/ setup.stdfirst)
    <2>1. Targets(n) = <<n, Tex[n]>> /\ Tex[n] \in Names /\ WrittenAs(n) = n
      BY <1>1, <1>5 DEF Targets, WrittenAs
    <2> QED  BY <2>1
  <1> QED  BY <1>3, <1>4, <1>5

\* What is looked at for a name.  What the name is written as comes first,
\* where output is asked to go.
LEMMA LookTyped ==
    ASSUME NEW n \in Names
    PROVE  LET look == InOutput(n) \o OnPath(n)
           IN  /\ look \in Seq(Places \X Names) /\ Len(look) \in Nat /\ 1 \in 1 .. Len(look)
               /\ Reread(n) => look[1] = <<Asked, WrittenAs(n)>>
               /\ \A i \in 1 .. Len(look) : look[i] \in Places \X Names
  <1> DEFINE t == Targets(n)
             u == [i \in 1 .. Len(t) |-> <<"here", t[i]>>]
             v == [i \in 1 .. Len(t) |-> <<"tree", t[i]>>]
             look == InOutput(n) \o OnPath(n)
  <1>1. t \in Seq(Names) /\ t # <<>> /\ Len(t) \in Nat /\ Len(t) # 0
    BY TargetsTyped
  <1>2. \A i \in 1 .. Len(t) : t[i] \in Names
    BY <1>1
  <1> HIDE DEF t
  <1>3. /\ u \in Seq(Places \X Names) /\ u # <<>> /\ u[1] = <<"here", t[1]>>
        /\ v \in Seq(Places \X Names) /\ v # <<>>
    <2>1. \A i \in 1 .. Len(t) : <<"here", t[i]>> \in Places \X Names /\ <<"tree", t[i]>> \in Places \X Names
      BY <1>2 DEF Places
    <2>2. u \in [1 .. Len(t) -> Places \X Names] /\ v \in [1 .. Len(t) -> Places \X Names]
      BY <2>1
    <2>3. u \in Seq(Places \X Names) /\ v \in Seq(Places \X Names) /\ Len(u) = Len(t) /\ Len(v) = Len(t)
      BY <1>1, <2>2
    <2>4. 1 \in 1 .. Len(t)
      BY <1>1
    <2>5. u # <<>> /\ v # <<>>
      <3> HIDE DEF u, v
      <3> QED  BY <1>1, <2>3
    <2> QED  BY <2>3, <2>4, <2>5
  <1>4. OnPath(n) = u \o v
    BY DEF OnPath, t
  <1> HIDE DEF u, v
  <1>5. /\ OnPath(n) \in Seq(Places \X Names) /\ OnPath(n) # <<>>
        /\ OnPath(n)[1] = <<"here", t[1]>>
    <2> DEFINE S == Places \X Names
    <2>1. u \in Seq(S) /\ v \in Seq(S) /\ v # <<>> /\ u # <<>>
      BY <1>3
    <2>2. u \o v \in Seq(S) /\ 1 \in 1 .. Len(u \o v) /\ (u \o v)[1] = u[1]
      <3> HIDE DEF S
      <3> QED  BY <2>1, Joined
    <2>3. u \o v # <<>>
      <3> HIDE DEF S
      <3>1. Len(u \o v) # 0
        BY <2>2
      <3> QED  BY <2>2, <3>1
    <2> QED  BY <1>3, <1>4, <2>2, <2>3
  <1>6. InOutput(n) \in Seq(Places \X Names)
    <2> DEFINE S == Places \X Names
               e == <<"out", n>>
    <2>1. e \in S
      BY DEF Places
    <2>2. InOutput(n) = IF setup.outdir THEN <<e>> ELSE <<>>
      BY DEF InOutput
    <2> HIDE DEF S, e
    <2>3. <<e>> \in Seq(S) /\ <<>> \in Seq(S)
      BY <2>1
    <2>4. InOutput(n) \in Seq(S)
      BY <2>2, <2>3
    <2> QED  BY <2>4 DEF S
  <1>7. /\ look \in Seq(Places \X Names) /\ Len(look) \in Nat /\ 1 \in 1 .. Len(look)
        /\ look[1] = IF InOutput(n) = <<>> THEN OnPath(n)[1] ELSE InOutput(n)[1]
        /\ \A i \in 1 .. Len(look) : look[i] \in Places \X Names
    <2> DEFINE S == Places \X Names
               x == InOutput(n)
               y == OnPath(n)
    <2>1. x \in Seq(S) /\ y \in Seq(S) /\ y # <<>>
      BY <1>5, <1>6
    <2> HIDE DEF S, x, y
    <2>2. /\ x \o y \in Seq(S) /\ Len(x \o y) \in Nat /\ 1 \in 1 .. Len(x \o y)
          /\ (x \o y)[1] = IF x = <<>> THEN y[1] ELSE x[1]
          /\ \A i \in 1 .. Len(x \o y) : (x \o y)[i] \in S
      BY <2>1, Joined
    <2> QED  BY <2>2 DEF S, x, y
  <1> HIDE DEF look
  <1>8. ASSUME Reread(n) PROVE look[1] = <<Asked, WrittenAs(n)>>
    <2>1. CASE setup.outdir
      <3>1. InOutput(n) = <<<<"out", n>>>> /\ Asked = "out" /\ WrittenAs(n) = n
        BY <1>8, <2>1, TargetsTyped DEF InOutput, Asked
      <3>2. InOutput(n) # <<>> /\ InOutput(n)[1] = <<"out", n>>
        BY <3>1
      <3> QED  BY <1>7, <3>1, <3>2
    <2>2. CASE ~ setup.outdir
      <3>1. InOutput(n) = <<>> /\ Asked = "here" /\ t[1] = WrittenAs(n)
        BY <1>8, <2>2, TargetsTyped DEF InOutput, Asked, t
      <3> QED  BY <1>5, <1>7, <3>1
    <2> QED  BY <2>1, <2>2
  <1> QED  BY <1>7, <1>8 DEF look

\* Where a name is found: what it was written as, where output was asked to
\* go, is looked at first.
LEMMA FoundFirst ==
    ASSUME NEW s \in Library, NEW n \in Names
    PROVE  /\ Found(s, n) # NULL => Found(s, n) \in Places \X Names
           /\ Reread(n) /\ s.disk[Asked][WrittenAs(n)] # 0
                => Found(s, n) = <<Asked, WrittenAs(n)>>
  <1> DEFINE look == InOutput(n) \o OnPath(n)
             I == {i \in 1 .. Len(look) : There(s, look[i])}
             first == SelectInSeq(look, LAMBDA p : There(s, p))
  <1>1. /\ look \in Seq(Places \X Names) /\ Len(look) \in Nat /\ 1 \in 1 .. Len(look)
        /\ Reread(n) => look[1] = <<Asked, WrittenAs(n)>>
        /\ \A i \in 1 .. Len(look) : look[i] \in Places \X Names
    BY LookTyped
  <1>2. first = IF I # {} THEN Min(I) ELSE 0
    BY DEF SelectInSeq
  <1>3. Found(s, n) = IF first = 0 THEN NULL ELSE look[first]
    BY DEF Found, FirstThere
  <1> HIDE DEF look, first
  <1>4. ASSUME Reread(n), s.disk[Asked][WrittenAs(n)] # 0 PROVE 1 \in I
    <2>1. There(s, <<Asked, WrittenAs(n)>>)
      BY <1>4 DEF There
    <2> QED  BY <1>1, <1>4, <2>1
  <1>5. CASE I = {}
    <2>1. Found(s, n) = NULL
      BY <1>2, <1>3, <1>5
    <2> QED  BY <1>4, <1>5, <2>1
  <1>6. CASE I # {}
    <2>1. I \in SUBSET Nat
      BY <1>1
    <2>2. Min(I) \in I /\ \A y \in I : Min(I) <= y
      <3> HIDE DEF I
      <3>1. \E x \in I : \A y \in I : x <= y
        BY <1>6, <2>1, Least
      <3> QED  BY <3>1 DEF Min
    <2>3. first \in 1 .. Len(look) /\ first \in I /\ \A y \in I : first <= y
      BY <1>2, <1>6, <2>2
    <2>4. first # 0 /\ Found(s, n) = look[first]
      BY <1>1, <1>3, <2>3
    <2>5. 1 \in I => first = 1
      BY <1>1, <2>3
    <2> HIDE DEF I
    <2> QED  BY <1>1, <1>4, <2>3, <2>4, <2>5
  <1> QED  BY <1>5, <1>6

-----------------------------------------------------------------------------
(* Opening *)

\* A state after one more file or pipe is there: its record is new, and so
\* are the fields that pipes, disk and written are.
LEMMA FopenTyped ==
    ASSUME NEW s \in Library, s.count < MaxOpens, NEW h \in Handles, NEW f \in Opened
    PROVE  /\ Fopen(s, h, f) \in Library
           /\ Fopen(s, h, f).files = [s.files EXCEPT ![h] = f]
           /\ Fopen(s, h, f).count = s.count + 1
           /\ Fopen(s, h, f).pipes = s.pipes
           /\ Fopen(s, h, f).disk = s.disk
           /\ Fopen(s, h, f).written = s.written
           /\ Fopen(s, h, f).unawaited = s.unawaited
           /\ Fopen(s, h, f).faults = s.faults
  <1>1. s.count + 1 \in 0 .. MaxOpens
    BY OpenCloseAssumption DEF Library
  <1>2. [s.files EXCEPT ![h] = f] \in [Handles -> Opened \cup {NoFile}]
    BY DEF Library
  <1>3. Fopen(s, h, f) = [s EXCEPT !.count = s.count + 1, !.files = [s.files EXCEPT ![h] = f]]
    BY DEF Fopen, Library
  <1> QED  BY <1>1, <1>2, <1>3 DEF Library

\* The first free slot takes the pipe.
LEMMA EnlistTyped ==
    ASSUME NEW s \in Library, NEW h \in Handles
    PROVE  \/ (\A i \in 1 .. NumPipes : s.pipes[i] # NULL) /\ Enlist(s, h) = s
           \/ \E i \in 1 .. NumPipes :
                s.pipes[i] = NULL /\ Enlist(s, h) = [s EXCEPT !.pipes = [s.pipes EXCEPT ![i] = h]]
  <1> DEFINE free == {i \in 1 .. NumPipes : s.pipes[i] = NULL}
  <1>1. free \in SUBSET Nat
    BY OpenCloseAssumption
  <1>2. CASE free = {}
    BY <1>2 DEF Enlist
  <1>3. CASE free # {}
    <2>1. PICK i \in free : i = CHOOSE k \in free : \A j \in free : k <= j
      BY <1>1, <1>3, FirstOf
    <2>2. Enlist(s, h) = [s EXCEPT !.pipes = [s.pipes EXCEPT ![i] = h]]
      BY <1>3, <2>1 DEF Enlist, Library
    <2> QED  BY <2>1, <2>2
  <1> QED  BY <1>2, <1>3

\* A full table has as many pipes as it has slots.
LEMMA FullTable ==
    ASSUME NEW s \in Library, Table(s), \A i \in 1 .. NumPipes : s.pipes[i] # NULL
    PROVE  Cardinality(OpenPipes(s)) >= NumPipes
  <1>1. IsFiniteSet(OpenPipes(s))
    BY FS_Subset, OpenCloseAssumption DEF OpenPipes
  <1>2. s.pipes \in Injection(1 .. NumPipes, OpenPipes(s))
    <2>1. \A i \in 1 .. NumPipes : s.pipes[i] \in OpenPipes(s)
      BY DEF Table, OpenPipes, Library
    <2>2. s.pipes \in [1 .. NumPipes -> OpenPipes(s)]
      BY <2>1 DEF Library
    <2>3. \A i, j \in 1 .. NumPipes : s.pipes[i] = s.pipes[j] => i = j
      BY DEF Table
    <2> QED  BY <2>2, <2>3 DEF Injection, IsInjective
  <1>3. Cardinality(1 .. NumPipes) = NumPipes
    BY FS_Interval, OpenCloseAssumption
  <1>4. Cardinality(1 .. NumPipes) <= Cardinality(OpenPipes(s))
    BY <1>1, <1>2, FS_Injection
  <1>5. Cardinality(OpenPipes(s)) \in Nat /\ NumPipes \in Nat
    BY <1>1, FS_CardinalityType, OpenCloseAssumption
  <1> QED  BY <1>3, <1>4, <1>5

\* What opening h does to TeX's books: only h is not as it was, and it is open.
Gained(s, t, h) == Sound(t) /\ \E f \in Opened : t.files = [s.files EXCEPT ![h] = f]

\* A new pipe.  If it is not in the table, the table was full.
LEMMA PipeOpened ==
    ASSUME NEW s, Sound(s), s.count < MaxOpens, setup.shell,
           NEW h \in Handles, s.files[h].kind = "closed",
           NEW f \in Opened, f.kind = "pipe", f.crowd = Cardinality(OpenPipes(s))
    PROVE  Gained(s, Enlist(Fopen(s, h, f), h), h)
  <1> DEFINE o == Fopen(s, h, f)
             t == Enlist(o, h)
             free == {i \in 1 .. NumPipes : s.pipes[i] = NULL}
  <1>1. s \in Library
    BY DEF Sound
  <1>2. /\ o \in Library /\ o.files = [s.files EXCEPT ![h] = f] /\ o.pipes = s.pipes
        /\ o.disk = s.disk /\ o.written = s.written /\ o.unawaited = s.unawaited
        /\ o.faults = s.faults
    BY <1>1, FopenTyped
  <1>3. /\ free = {i \in 1 .. NumPipes : o.pipes[i] = NULL}
        /\ \A i \in 1 .. NumPipes : i \in free <=> s.pipes[i] = NULL
        /\ \A i \in free : i \in 1 .. NumPipes
    BY <1>2
  <1> HIDE DEF o
  <1>4. \/ free = {} /\ t = o
        \/ \E i \in free : t = [o EXCEPT !.pipes = [o.pipes EXCEPT ![i] = h]]
    <2>1. \/ (\A i \in 1 .. NumPipes : o.pipes[i] # NULL) /\ t = o
          \/ \E i \in 1 .. NumPipes :
                o.pipes[i] = NULL /\ t = [o EXCEPT !.pipes = [o.pipes EXCEPT ![i] = h]]
      BY <1>2, EnlistTyped
    <2> HIDE DEF t
    <2> QED  BY <1>3, <2>1
  <1> HIDE DEF free
  <1>5. /\ t \in Library /\ t.files = [s.files EXCEPT ![h] = f]
        /\ t.disk = s.disk /\ t.written = s.written /\ t.unawaited = s.unawaited
        /\ t.faults = s.faults
        /\ \/ free = {} /\ t.pipes = s.pipes
           \/ \E i \in free : t.pipes = [s.pipes EXCEPT ![i] = h]
    <2>1. CASE free = {} /\ t = o
      BY <1>2, <2>1
    <2>2. ASSUME NEW i \in free, t = [o EXCEPT !.pipes = [o.pipes EXCEPT ![i] = h]]
          PROVE  /\ t \in Library /\ t.files = o.files /\ t.pipes = [o.pipes EXCEPT ![i] = h]
                 /\ t.disk = o.disk /\ t.written = o.written /\ t.unawaited = o.unawaited
                 /\ t.faults = o.faults
      <3>1. [o.pipes EXCEPT ![i] = h] \in [1 .. NumPipes -> Handles \cup {NULL}]
        BY <1>2 DEF Library
      <3> HIDE DEF t
      <3> QED  BY <1>2, <2>2, <3>1 DEF Library
    <2> HIDE DEF t
    <2> QED  BY <1>2, <1>4, <2>1, <2>2
  <1>6. s.files \in [Handles -> Opened \cup {NoFile}] /\ s.pipes \in [1 .. NumPipes -> Handles \cup {NULL}]
    BY <1>1 DEF Library
  <1>7. t.files[h] = f /\ \A g \in Handles : g # h => t.files[g] = s.files[g]
    BY <1>5, <1>6
  <1> HIDE DEF t
  <1>8. Table(s) /\ Recorded(s) /\ \A i \in 1 .. NumPipes : s.pipes[i] # h
    <2>1. Table(s) /\ Recorded(s)
      BY DEF Sound
    <2>2. \A i \in 1 .. NumPipes : s.pipes[i] # h
      BY <2>1, OpenCloseAssumption DEF Table, Piped
    <2> QED  BY <2>1, <2>2
  <1>9. Table(t)
    <2>1. CASE t.pipes = s.pipes
      <3> SUFFICES ASSUME NEW k \in 1 .. NumPipes, t.pipes[k] # NULL
                   PROVE  /\ Piped(t.files[t.pipes[k]])
                          /\ \A j \in 1 .. NumPipes : t.pipes[j] = t.pipes[k] => j = k
        BY DEF Table
      <3>1. s.pipes[k] \in Handles /\ s.pipes[k] # h /\ t.pipes[k] = s.pipes[k]
        BY <1>6, <1>8, <2>1
      <3>2. /\ Piped(s.files[s.pipes[k]])
            /\ \A j \in 1 .. NumPipes : s.pipes[j] = s.pipes[k] => j = k
        BY <1>8, <2>1 DEF Table
      <3>3. t.files[s.pipes[k]] = s.files[s.pipes[k]]
        BY <1>7, <3>1
      <3> QED  BY <2>1, <3>1, <3>2, <3>3
    <2>2. ASSUME NEW i \in free, t.pipes = [s.pipes EXCEPT ![i] = h]
          PROVE  Table(t)
      <3>0. i \in 1 .. NumPipes /\ s.pipes[i] = NULL
        BY <1>3, <2>2
      <3>1. t.pipes[i] = h /\ \A j \in 1 .. NumPipes : j # i => t.pipes[j] = s.pipes[j]
        BY <1>6, <2>2, <3>0
      <3>2. Piped(t.files[h])
        BY <1>7 DEF Piped
      <3> SUFFICES ASSUME NEW k \in 1 .. NumPipes, t.pipes[k] # NULL
                   PROVE  /\ Piped(t.files[t.pipes[k]])
                          /\ \A j \in 1 .. NumPipes : t.pipes[j] = t.pipes[k] => j = k
        BY DEF Table
      <3>3. CASE k = i
        BY <1>8, <3>1, <3>2, <3>3
      <3>4. CASE k # i
        <4>1. /\ s.pipes[k] # NULL /\ s.pipes[k] \in Handles /\ s.pipes[k] # h
              /\ t.pipes[k] = s.pipes[k]
          BY <1>6, <1>8, <3>1, <3>4
        <4>2. /\ Piped(s.files[s.pipes[k]])
              /\ \A j \in 1 .. NumPipes : s.pipes[j] = s.pipes[k] => j = k
          BY <1>8, <4>1 DEF Table
        <4>3. t.files[s.pipes[k]] = s.files[s.pipes[k]]
          BY <1>7, <4>1
        <4> QED  BY <3>1, <4>1, <4>2, <4>3
      <3> QED  BY <3>3, <3>4
    <2> QED  BY <1>5, <2>1, <2>2
  <1>10. Recorded(t)
    <2> SUFFICES ASSUME NEW g \in Handles, Piped(t.files[g])
                 PROVE  /\ setup.shell
                        /\ t.files[g].crowd >= NumPipes \/ \E i \in 1 .. NumPipes : t.pipes[i] = g
      BY DEF Recorded
    <2>1. CASE g = h
      <3>1. CASE free = {}
        <4>1. f.crowd >= NumPipes
          BY <1>1, <1>8, <1>3, <3>1, FullTable
        <4> QED  BY <1>7, <2>1, <4>1
      <3>2. CASE free # {}
        <4>1. PICK i \in free : t.pipes = [s.pipes EXCEPT ![i] = h]
          BY <1>5, <3>2
        <4>2. i \in 1 .. NumPipes /\ t.pipes[i] = h
          BY <1>6, <1>3, <4>1
        <4> QED  BY <2>1, <4>2
      <3> QED  BY <3>1, <3>2
    <2>2. CASE g # h
      <3>1. s.files[g].crowd >= NumPipes \/ \E i \in 1 .. NumPipes : s.pipes[i] = g
        BY <1>7, <1>8, <2>2 DEF Recorded
      <3>2. (\E i \in 1 .. NumPipes : s.pipes[i] = g) => \E i \in 1 .. NumPipes : t.pipes[i] = g
        <4> SUFFICES ASSUME NEW i \in 1 .. NumPipes, s.pipes[i] = g PROVE t.pipes[i] = g
          OBVIOUS
        <4>1. \A k \in free : k # i
          BY <1>3, OpenCloseAssumption
        <4> QED  BY <1>5, <1>6, <4>1
      <3> QED  BY <1>7, <2>2, <3>1, <3>2
    <2> QED  BY <2>1, <2>2
  <1>11. Waited(t) /\ Kept(t) /\ t.faults = {}
    <2>1. Waited(s) /\ Kept(s) /\ s.faults = {}
      BY DEF Sound
    <2> QED  BY <1>5, <2>1 DEF Waited, Kept
  <1>12. Placed(t) /\ \A g \in Handles : Back(t.files[g])
    <2>1. Placed(s) /\ \A g \in Handles : Back(s.files[g])
      BY DEF Sound
    <2> QED  BY <1>7, <2>1 DEF Placed, Back
  <1>13. Sound(t)
    BY <1>5, <1>9, <1>10, <1>11, <1>12 DEF Sound
  <1> QED  BY <1>5, <1>13 DEF Gained, t, o
\* A file that is read: what was written last and closed is what is read,
\* if it is where output was asked to go.
LEMMA InputOpened ==
    ASSUME TypeOK, NEW s, Sound(s), s.count < MaxOpens, NEW n \in Names,
           NEW h \in Handles, s.files[h].kind = "closed"
    PROVE  LET r == OpenInput(s, n, h)
           IN  r = <<s, NULL>> \/ (r[2] = h /\ Gained(s, r[1], h))
  <1> DEFINE p == Found(s, n)
             w == WrittenAs(n)
             f == [kind |-> "in", id |-> s.count + 1, asked |-> n, name |-> p[2], where |-> p[1],
                   dir |-> "INPUT", want |-> s.written[w], got |-> s.disk[p[1]][p[2]],
                   crowd |-> 0, told |-> Entry("INPUT", p[1], p[2])]
             t == Fopen(s, h, f)
  <1> SUFFICES ASSUME p # NULL PROVE Gained(s, t, h)
    BY DEF OpenInput
  <1>1. s \in Library
    BY DEF Sound
  <1>2. /\ p[1] \in Places /\ p[2] \in Names /\ w \in Names
        /\ Reread(n) /\ s.disk[Asked][w] # 0 => p[1] = Asked /\ p[2] = w
    <2>1. p \in Places \X Names /\ (Reread(n) /\ s.disk[Asked][w] # 0 => p = <<Asked, w>>)
      BY <1>1, FoundFirst
    <2>2. w \in Names
      BY TargetsTyped
    <2> HIDE DEF p, w
    <2> QED  BY <2>1, <2>2
  <1> HIDE DEF p, w
  <1>3. f \in Opened /\ f.kind = "in" /\ f.name = p[2] /\ f.where = p[1] /\ f.asked = n
        /\ f.want = s.written[w] /\ f.got = s.disk[p[1]][p[2]]
    <2>1. s.count + 1 \in 1 .. MaxOpens
      BY <1>1, OpenCloseAssumption DEF Library
    <2>2. s.written[w] \in Places \X Versions /\ s.disk[p[1]][p[2]] \in Versions
      BY <1>1, <1>2 DEF Library
    <2>3. Entry("INPUT", p[1], p[2]) \in {"INPUT", "OUTPUT"} \X (Places \cup {"pipe", "garbled"})
                                           \X (Names \cup Commands \cup {NULL})
      BY <1>2 DEF Entry
    <2> QED  BY <1>2, <2>1, <2>2, <2>3 DEF Opened
  <1> HIDE DEF f
  <1>4. /\ t \in Library /\ t.files = [s.files EXCEPT ![h] = f] /\ t.pipes = s.pipes
        /\ t.disk = s.disk /\ t.written = s.written /\ t.unawaited = s.unawaited
        /\ t.faults = s.faults
    BY <1>1, <1>3, FopenTyped
  <1> HIDE DEF t
  <1>5. Back(f)
    <2> SUFFICES ASSUME s.written[w][2] # 0, s.written[w][1] = Asked, Reread(n)
                 PROVE  s.disk[p[1]][p[2]] = s.written[w][2]
      BY <1>3 DEF Back
    <2>1. s.disk[Asked][w] = s.written[w][2]
      BY <1>2 DEF Sound, Kept
    <2> QED  BY <1>2, <2>1
  <1>6. \A g \in Handles : t.files[g] = IF g = h THEN f ELSE s.files[g]
    BY <1>1, <1>4 DEF Library
  <1>7. Table(t) /\ Recorded(t)
    <2>1. Table(s) /\ Recorded(s)
      BY DEF Sound
    <2>2. \A g \in Handles : Piped(t.files[g]) => g # h /\ t.files[g] = s.files[g]
      BY <1>3, <1>6 DEF Piped
    <2>3. \A i \in 1 .. NumPipes : s.pipes[i] # NULL => s.pipes[i] \in Handles /\ s.pipes[i] # h
      BY <1>1, <2>1 DEF Table, Piped, Library
    <2>4. Table(t)
      BY <1>4, <1>6, <2>1, <2>3 DEF Table
    <2>5. Recorded(t)
      BY <1>4, <2>1, <2>2 DEF Recorded
    <2> QED  BY <2>4, <2>5
  <1>8. Waited(t) /\ Kept(t) /\ t.faults = {}
    BY <1>4 DEF Sound, Waited, Kept
  <1>9. Placed(t) /\ \A g \in Handles : Back(t.files[g])
    <2>1. Placed(s) /\ \A g \in Handles : Back(s.files[g])
      BY DEF Sound
    <2> QED  BY <1>2, <1>3, <1>5, <1>6, <2>1 DEF Placed
  <1> QED  BY <1>3, <1>4, <1>7, <1>8, <1>9 DEF Gained, Sound

\* A file that is written: it is empty now, so what was written before is no
\* longer expected under its name.
LEMMA OutputMade ==
    ASSUME NEW s, Sound(s), s.count < MaxOpens, NEW n \in Names, NEW p \in Places,
           NEW h \in Handles, s.files[h].kind = "closed"
    PROVE  Gained(s, OutputAt(s, p, n, h), h)
  <1> DEFINE f == [kind |-> "out", id |-> s.count + 1, asked |-> n, name |-> n, where |-> p,
                   dir |-> "OUTPUT", want |-> <<"here", 0>>, got |-> 0, crowd |-> 0,
                   told |-> Entry("OUTPUT", p, n)]
             o == Fopen(s, h, f)
             t == [o EXCEPT !.disk[p][n] = s.count + 2, !.written[n] = <<"here", 0>>]
  <1> SUFFICES Gained(s, t, h)
    BY DEF OutputAt
  <1>1. s \in Library
    BY DEF Sound
  <1>2. p \in Places
    OBVIOUS
  <1>3. f \in Opened /\ f.kind = "out" /\ f.name = n /\ f.where = p
    <2>1. s.count + 1 \in 1 .. MaxOpens
      BY <1>1, OpenCloseAssumption DEF Library
    <2>2. <<"here", 0>> \in Places \X Versions /\ 0 \in Versions
      BY OpenCloseAssumption DEF Places, Versions
    <2>3. Entry("OUTPUT", p, n) \in {"INPUT", "OUTPUT"} \X (Places \cup {"pipe", "garbled"})
                                     \X (Names \cup Commands \cup {NULL})
      BY <1>2 DEF Entry
    <2> QED  BY <1>2, <2>1, <2>2, <2>3 DEF Opened
  <1> HIDE DEF f
  <1>4. /\ o \in Library /\ o.files = [s.files EXCEPT ![h] = f] /\ o.pipes = s.pipes
        /\ o.disk = s.disk /\ o.written = s.written /\ o.unawaited = s.unawaited
        /\ o.faults = s.faults
    BY <1>1, <1>3, FopenTyped
  <1> HIDE DEF o
  <1>5. /\ t \in Library /\ t.files = [s.files EXCEPT ![h] = f] /\ t.pipes = s.pipes
        /\ t.unawaited = s.unawaited /\ t.faults = s.faults
        /\ t.disk = [s.disk EXCEPT ![p] = [s.disk[p] EXCEPT ![n] = s.count + 2]]
        /\ t.written = [s.written EXCEPT ![n] = <<"here", 0>>]
    <2> DEFINE d == [o.disk EXCEPT ![p] = [o.disk[p] EXCEPT ![n] = s.count + 2]]
               w == [o.written EXCEPT ![n] = <<"here", 0>>]
    <2>1. t = [o EXCEPT !.disk = d, !.written = w]
      BY <1>4 DEF Library
    <2>2. s.count + 2 \in Versions /\ <<"here", 0>> \in Places \X Versions
      BY <1>1, OpenCloseAssumption DEF Library, Versions, Places
    <2>3. d \in [Places -> [Names -> Versions]]
      BY <1>2, <1>4, <2>2 DEF Library
    <2>4. w \in [Names -> Places \X Versions]
      BY <1>4, <2>2 DEF Library
    <2>5. d = [s.disk EXCEPT ![p] = [s.disk[p] EXCEPT ![n] = s.count + 2]]
          /\ w = [s.written EXCEPT ![n] = <<"here", 0>>]
      BY <1>4
    <2> HIDE DEF d, w, t
    <2>6. /\ t \in Library /\ t.files = o.files /\ t.pipes = o.pipes
          /\ t.unawaited = o.unawaited /\ t.faults = o.faults /\ t.disk = d /\ t.written = w
      BY <1>4, <2>1, <2>3, <2>4 DEF Library
    <2> QED  BY <1>4, <2>5, <2>6
  <1> HIDE DEF t
  <1>6. \A g \in Handles : t.files[g] = IF g = h THEN f ELSE s.files[g]
    BY <1>1, <1>5 DEF Library
  <1>7. Table(t) /\ Recorded(t)
    <2>1. Table(s) /\ Recorded(s)
      BY DEF Sound
    <2>2. \A g \in Handles : Piped(t.files[g]) => g # h /\ t.files[g] = s.files[g]
      BY <1>3, <1>6 DEF Piped
    <2>3. \A i \in 1 .. NumPipes : s.pipes[i] # NULL => s.pipes[i] \in Handles /\ s.pipes[i] # h
      BY <1>1, <2>1 DEF Table, Piped, Library
    <2>4. Table(t)
      BY <1>5, <1>6, <2>1, <2>3 DEF Table
    <2>5. Recorded(t)
      BY <1>5, <2>1, <2>2 DEF Recorded
    <2> QED  BY <2>4, <2>5
  <1>8. Waited(t) /\ t.faults = {}
    BY <1>5 DEF Sound, Waited
  <1>9. Kept(t)
    <2> SUFFICES ASSUME NEW m \in Names, t.written[m][2] # 0
                 PROVE  t.disk[t.written[m][1]][m] = t.written[m][2]
      BY DEF Kept
    <2>1. /\ s.written \in [Names -> Places \X Versions]
          /\ s.disk \in [Places -> [Names -> Versions]]
      BY <1>1 DEF Library
    <2>2. m # n
      BY <1>5, <2>1
    <2>3. t.written[m] = s.written[m] /\ t.written[m][1] \in Places
      BY <1>5, <2>1, <2>2
    <2>4. t.disk[t.written[m][1]][m] = s.disk[t.written[m][1]][m]
      BY <1>5, <2>1, <2>2, <2>3
    <2> QED  BY <2>3, <2>4 DEF Sound, Kept
  <1>10. Placed(t) /\ \A g \in Handles : Back(t.files[g])
    <2>1. Placed(s) /\ \A g \in Handles : Back(s.files[g])
      BY DEF Sound
    <2>2. Back(f)
      BY <1>3 DEF Back
    <2> QED  BY <1>2, <1>3, <1>6, <2>1, <2>2 DEF Placed
  <1> QED  BY <1>3, <1>5, <1>7, <1>8, <1>9, <1>10 DEF Gained, Sound

\* \openout's file: not made, or made under the name it is given.
LEMMA OutputOpened ==
    ASSUME TypeOK, NEW s, Sound(s), s.count < MaxOpens, NEW n \in Names,
           NEW h \in Handles, s.files[h].kind = "closed"
    PROVE  LET r == OpenOutput(s, n, h)
           IN  r = <<s, NULL>> \/ (r[2] = h /\ Gained(s, r[1], h))
  <1>1. Granted # NULL => Granted \in Places
    BY DEF Granted, Asked, Places
  <1>2. WrittenAs(n) \in Names
    BY TargetsTyped
  <1>3. Granted # NULL => Gained(s, OutputAt(s, Granted, WrittenAs(n), h), h)
    BY <1>1, <1>2, OutputMade
  <1> QED  BY <1>3 DEF OpenOutput

\* A command: refused, or a pipe.
LEMMA CommandOpened ==
    ASSUME TypeOK, NEW s, Sound(s), s.count < MaxOpens, setup.shell,
           NEW c \in Commands, NEW dir \in {"INPUT", "OUTPUT"},
           NEW h \in Handles, s.files[h].kind = "closed",
           NEW starts \in BOOLEAN, NEW undotted \in BOOLEAN
    PROVE  LET r == OpenPipe(s, c, dir, h, starts, undotted)
           IN  r = <<s, NULL>> \/ (r[2] = h /\ Gained(s, r[1], h))
  <1> DEFINE f == [kind |-> "pipe", id |-> s.count + 1, asked |-> c, name |-> c, where |-> "pipe", dir |-> dir,
                   want |-> <<"here", 0>>, got |-> 0, crowd |-> Cardinality(OpenPipes(s)),
                   told |-> IF dir = "OUTPUT" /\ c \in Words /\ undotted
                            THEN Garbled(dir) ELSE Entry(dir, "pipe", c)]
  <1>1. s \in Library
    BY DEF Sound
  <1>2. f \in Opened /\ f.kind = "pipe" /\ f.crowd = Cardinality(OpenPipes(s))
    <2>1. s.count + 1 \in 1 .. MaxOpens
      BY <1>1, OpenCloseAssumption DEF Library
    <2>2. <<"here", 0>> \in Places \X Versions /\ 0 \in Versions
      BY OpenCloseAssumption DEF Places, Versions
    <2>3. f.told \in {"INPUT", "OUTPUT"} \X (Places \cup {"pipe", "garbled"})
                       \X (Names \cup Commands \cup {NULL})
      BY DEF Entry, Garbled
    <2>4. Cardinality(OpenPipes(s)) \in Nat
      BY FS_Subset, FS_CardinalityType, OpenCloseAssumption DEF OpenPipes
    <2> QED  BY <2>1, <2>2, <2>3, <2>4 DEF Opened
  <1>3. Gained(s, Enlist(Fopen(s, h, f), h), h)
    <2> HIDE DEF f
    <2> QED  BY <1>2, PipeOpened
  <1> QED  BY <1>3 DEF OpenPipe

\* What is usable as a name, opened to be read or to be written.
LEMMA EitherOpened ==
    ASSUME TypeOK, NEW s, Sound(s), s.count < MaxOpens, NEW n \in Usable,
           NEW h \in Handles, s.files[h].kind = "closed",
           NEW starts \in BOOLEAN, NEW undotted \in BOOLEAN
    PROVE  /\ LET r == InOrPipe(s, n, h, starts)
              IN  r = <<s, NULL>> \/ (r[2] = h /\ Gained(s, r[1], h))
           /\ LET r == OutOrPipe(s, n, h, starts, undotted)
              IN  r = <<s, NULL>> \/ (r[2] = h /\ Gained(s, r[1], h))
  <1>1. CASE n \in Names
    BY <1>1, InputOpened, OutputOpened DEF InOrPipe, OutOrPipe
  <1>2. CASE n \notin Names
    <2>1. n \in Commands /\ setup.shell
      BY <1>2 DEF Usable
    <2>2. /\ InOrPipe(s, n, h, starts) = OpenPipe(s, n, "INPUT", h, starts, FALSE)
          /\ OutOrPipe(s, n, h, starts, undotted) = OpenPipe(s, n, "OUTPUT", h, starts, undotted)
      BY <1>2 DEF InOrPipe, OutOrPipe
    <2>3. ASSUME NEW dir \in {"INPUT", "OUTPUT"}, NEW u \in BOOLEAN
          PROVE  LET r == OpenPipe(s, n, dir, h, starts, u)
                 IN  r = <<s, NULL>> \/ (r[2] = h /\ Gained(s, r[1], h))
      BY <2>1, CommandOpened
    <2>4. LET r == OpenPipe(s, n, "INPUT", h, starts, FALSE)
          IN  r = <<s, NULL>> \/ (r[2] = h /\ Gained(s, r[1], h))
      BY <2>3
    <2>5. LET r == OpenPipe(s, n, "OUTPUT", h, starts, undotted)
          IN  r = <<s, NULL>> \/ (r[2] = h /\ Gained(s, r[1], h))
      BY <2>3
    <2> QED  BY <2>2, <2>4, <2>5
  <1> QED  BY <1>1, <1>2
-----------------------------------------------------------------------------
(* Closing *)

\* fclose and pclose: the handle is free, and nothing else is changed but
\* what says how it went.
LetGo(s, h, waits, t) ==
  /\ t \in Library /\ t.pipes = s.pipes /\ t.disk = s.disk /\ t.count = s.count
  /\ t.files = [s.files EXCEPT ![h] = NoFile]
  /\ s.files[h].kind # "closed" /\ (waits => Piped(s.files[h])) => t.faults = s.faults
  /\ t.unawaited = s.unawaited \cup (IF Piped(s.files[h]) /\ ~ waits
                                     THEN {s.files[h].crowd} ELSE {})
  /\ \A n \in Names : t.written[n] = s.written[n] \/ t.written[n][2] = 0
                      \/ s.disk[t.written[n][1]][n] = t.written[n][2]

\* So it is with either.
LEMMA ReleaseDoes ==
    ASSUME NEW s \in Library, Placed(s), NEW h \in Handles, NEW waits \in BOOLEAN
    PROVE  LetGo(s, h, waits, Release(s, h, waits))
  <1> DEFINE t == Release(s, h, waits)
  <1> SUFFICES /\ t \in Library /\ t.pipes = s.pipes /\ t.disk = s.disk /\ t.count = s.count
               /\ t.files = [s.files EXCEPT ![h] = NoFile]
               /\ s.files[h].kind # "closed" /\ (waits => Piped(s.files[h])) => t.faults = s.faults
               /\ t.unawaited = s.unawaited \cup (IF Piped(s.files[h]) /\ ~ waits
                                                  THEN {s.files[h].crowd} ELSE {})
               /\ \A n \in Names : t.written[n] = s.written[n] \/ t.written[n][2] = 0
                                   \/ s.disk[t.written[n][1]][n] = t.written[n][2]
    BY DEF LetGo
  <1> DEFINE f == s.files[h]
             none == [s.files EXCEPT ![h] = NoFile]
             freed == [s EXCEPT !.files = none]
  <1>1. /\ s.files \in [Handles -> Opened \cup {NoFile}] /\ s.unawaited \in SUBSET Nat
        /\ s.faults \in SUBSET {"twice", "astray"}
        /\ s.disk \in [Places -> [Names -> Versions]] /\ s.written \in [Names -> Places \X Versions]
    BY DEF Library
  <1>2. /\ none \in [Handles -> Opened \cup {NoFile}]
        /\ freed = [s EXCEPT !.files[h] = NoFile]
    BY <1>1 DEF Library
  <1>3. /\ freed \in Library /\ freed.files = none /\ freed.pipes = s.pipes /\ freed.disk = s.disk
        /\ freed.count = s.count /\ freed.faults = s.faults /\ freed.unawaited = s.unawaited
        /\ freed.written = s.written
    <2> HIDE DEF none
    <2> QED  BY <1>2 DEF Library
  <1>4. f \in Opened \/ f = NoFile
    BY <1>1
  <1>5. CASE f.kind = "closed"
    <2>1. t = [s EXCEPT !.faults = s.faults \cup {"twice"}]
      BY <1>5 DEF Release, Library
    <2> HIDE DEF t
    <2>2. f = NoFile
      BY <1>4, <1>5 DEF Opened
    <2>3. none = s.files
      BY <1>1, <2>2
    <2>4. s.faults \cup {"twice"} \in SUBSET {"twice", "astray"}
      BY <1>1
    <2> HIDE DEF none, f
    <2>5. t \in Library /\ t.pipes = s.pipes /\ t.disk = s.disk /\ t.count = s.count
          /\ t.files = s.files /\ t.unawaited = s.unawaited /\ t.written = s.written
      BY <2>1, <2>4 DEF Library
    <2> QED  BY <1>5, <2>3, <2>5 DEF Piped, none, f
  <1>6. CASE f.kind = "pipe" /\ waits
    <2>1. t = freed
      BY <1>2, <1>6 DEF Release
    <2> HIDE DEF freed, t
    <2> QED  BY <1>3, <1>6, <2>1
  <1>7. CASE f.kind = "pipe" /\ ~ waits
    <2> DEFINE u == s.unawaited \cup {f.crowd}
    <2>1. t = [freed EXCEPT !.unawaited = u]
      BY <1>2, <1>3, <1>7 DEF Release, Library
    <2>2. u \in SUBSET Nat
      BY <1>1, <1>4, <1>7 DEF Opened, NoFile
    <2> HIDE DEF freed, u, t
    <2>3. /\ t \in Library /\ t.files = freed.files /\ t.pipes = freed.pipes /\ t.disk = freed.disk
          /\ t.count = freed.count /\ t.faults = freed.faults /\ t.unawaited = u
          /\ t.written = freed.written
      BY <1>3, <2>1, <2>2 DEF Library
    <2> QED  BY <1>3, <1>7, <2>3 DEF u, Piped
  <1>8. CASE f.kind \in {"in", "out"} /\ waits
    <2> DEFINE u == s.faults \cup {"astray"}
    <2>1. t = [freed EXCEPT !.faults = u]
      BY <1>2, <1>3, <1>8 DEF Release, Library
    <2>2. u \in SUBSET {"twice", "astray"}
      BY <1>1
    <2> HIDE DEF freed, u, t
    <2>3. /\ t \in Library /\ t.files = freed.files /\ t.pipes = freed.pipes /\ t.disk = freed.disk
          /\ t.count = freed.count /\ t.unawaited = freed.unawaited
          /\ t.written = freed.written
      BY <1>3, <2>1, <2>2 DEF Library
    <2> QED  BY <1>3, <1>8, <2>3 DEF Piped
  <1>9. CASE f.kind = "in" /\ ~ waits
    <2>1. t = freed
      BY <1>2, <1>9 DEF Release
    <2> HIDE DEF freed, t
    <2> QED  BY <1>3, <1>9, <2>1 DEF Piped
  <1>10. CASE f.kind = "out" /\ ~ waits
    <2> DEFINE v == IF s.disk[f.where][f.name] = f.id + 1 THEN <<f.where, f.id + 1>> ELSE <<"here", 0>>
               w == [s.written EXCEPT ![f.name] = v]
    <2>1. t = [freed EXCEPT !.written = w]
      BY <1>2, <1>3, <1>10 DEF Release, Library
    <2>2. f \in Opened /\ f.where \in Places /\ f.name \in Names
      BY <1>4, <1>10 DEF Placed, NoFile
    <2>3. f.id + 1 \in Versions
      BY <2>2, OpenCloseAssumption DEF Opened, Versions
    <2>4. v \in Places \X Versions /\ w \in [Names -> Places \X Versions]
      BY <1>1, <2>2, <2>3, OpenCloseAssumption DEF Versions, Places
    <2>5. \A n \in Names : w[n] = s.written[n] \/ w[n][2] = 0 \/ s.disk[w[n][1]][n] = w[n][2]
      <3> SUFFICES ASSUME NEW n \in Names, n = f.name, s.disk[f.where][f.name] = f.id + 1
                   PROVE  s.disk[w[n][1]][n] = w[n][2]
        BY <1>1
      <3>1. w[n] = <<f.where, f.id + 1>>
        BY <1>1
      <3> QED  BY <3>1
    <2> HIDE DEF freed, w, t
    <2>6. /\ t \in Library /\ t.files = freed.files /\ t.pipes = freed.pipes /\ t.disk = freed.disk
          /\ t.count = freed.count /\ t.unawaited = freed.unawaited /\ t.faults = freed.faults
          /\ t.written = w
      BY <1>3, <2>1, <2>4 DEF Library
    <2> QED  BY <1>3, <1>10, <2>5, <2>6 DEF Piped
  <1>11. f.kind \in {"closed", "in", "out", "pipe"}
    BY <1>4 DEF Opened, NoFile
  <1> QED  BY <1>5, <1>6, <1>7, <1>8, <1>9, <1>10, <1>11
\* pclose, and fclose.
LEMMA Released ==
    ASSUME NEW s \in Library, Placed(s), NEW h \in Handles
    PROVE  /\ LetGo(s, h, TRUE, Release(s, h, TRUE))
           /\ LetGo(s, h, FALSE, Release(s, h, FALSE))
  <1>1. LetGo(s, h, TRUE, Release(s, h, TRUE))
    BY ReleaseDoes, Zenon
  <1>2. LetGo(s, h, FALSE, Release(s, h, FALSE))
    BY ReleaseDoes, Zenon
  <1> QED  BY <1>1, <1>2

\* The slot of the table that is given back.
LEMMA CloseDoes ==
    ASSUME NEW s \in Library, Placed(s), NEW h \in Handles
    PROVE  LET at == {i \in 1 .. NumPipes : s.pipes[i] = h} IN
           \/ /\ setup.shell /\ at # {}
              /\ \E i \in at : /\ Close(s, h).pipes = [s.pipes EXCEPT ![i] = NULL]
                               /\ Close(s, h) = [Release(s, h, TRUE) EXCEPT
                                                   !.pipes = [s.pipes EXCEPT ![i] = NULL]]
           \/ ~ (setup.shell /\ at # {}) /\ Close(s, h) = Release(s, h, FALSE)
  <1> DEFINE at == {i \in 1 .. NumPipes : s.pipes[i] = h}
  <1>1. CASE setup.shell /\ at # {}
    <2>1. at \in SUBSET Nat
      BY OpenCloseAssumption
    <2>2. PICK i \in at : i = CHOOSE k \in at : \A j \in at : k <= j
      BY <1>1, <2>1, FirstOf
    <2>3. Release(s, h, TRUE) \in Library /\ Release(s, h, TRUE).pipes = s.pipes
      BY Released DEF LetGo
    <2>4. Close(s, h) = [Release(s, h, TRUE) EXCEPT !.pipes = [s.pipes EXCEPT ![i] = NULL]]
      BY <1>1, <2>2, <2>3 DEF Close, Library
    <2>5. Close(s, h).pipes = [s.pipes EXCEPT ![i] = NULL]
      BY <2>3, <2>4 DEF Library
    <2> QED  BY <1>1, <2>4, <2>5
  <1>2. CASE ~ (setup.shell /\ at # {})
    BY <1>2 DEF Close
  <1> QED  BY <1>1, <1>2

\* Closing keeps a state of the library one, whatever it is called with.
LEMMA CloseTyped ==
    ASSUME NEW s \in Library, Placed(s), NEW h \in Handles,
           NEW t, t = Close(s, h)
    PROVE  /\ t \in Library /\ t.disk = s.disk /\ t.count = s.count
           /\ t.files = [s.files EXCEPT ![h] = NoFile]
           /\ Placed(t)
  <1> DEFINE at == {i \in 1 .. NumPipes : s.pipes[i] = h}
  <1>1. /\ t \in Library /\ t.disk = s.disk /\ t.count = s.count
        /\ t.files = [s.files EXCEPT ![h] = NoFile]
    <2>1. CASE Close(s, h) = Release(s, h, FALSE)
      <3>1. LetGo(s, h, FALSE, t)
        BY <2>1, Released
      <3> QED  BY <3>1 DEF LetGo
    <2>2. ASSUME NEW i \in at, NEW q, q = [s.pipes EXCEPT ![i] = NULL],
                 NEW r, r = Release(s, h, TRUE), t = [r EXCEPT !.pipes = q]
          PROVE  /\ t \in Library /\ t.disk = s.disk /\ t.count = s.count
                 /\ t.files = [s.files EXCEPT ![h] = NoFile]
      <3>1. /\ r \in Library /\ r.disk = s.disk /\ r.count = s.count
            /\ r.files = [s.files EXCEPT ![h] = NoFile]
        BY <2>2, Released DEF LetGo
      <3>2. q \in [1 .. NumPipes -> Handles \cup {NULL}]
        BY <2>2 DEF Library
      <3> QED  BY <2>2, <3>1, <3>2 DEF Library
    <2>3. \/ Close(s, h) = Release(s, h, FALSE)
          \/ \E i \in at : t = [Release(s, h, TRUE) EXCEPT !.pipes = [s.pipes EXCEPT ![i] = NULL]]
      BY CloseDoes
    <2> HIDE DEF at
    <2> QED  BY <2>1, <2>2, <2>3
  <1>2. \A g \in Handles : t.files[g] = IF g = h THEN NoFile ELSE s.files[g]
    BY <1>1 DEF Library
  <1>3. Placed(t)
    BY <1>2 DEF Placed, NoFile
  <1> QED  BY <1>1, <1>3

\* What is open is closed the right way: by pclose if it is in the table,
\* which has pipes only, and a pipe that is not there was not to be had room.
LEMMA CloseSound ==
    ASSUME NEW s, Sound(s), NEW h \in Handles, s.files[h].kind # "closed",
           NEW t, t = Close(s, h)
    PROVE  Sound(t) /\ t.count = s.count /\ t.files = [s.files EXCEPT ![h] = NoFile]
  <1> DEFINE at == {i \in 1 .. NumPipes : s.pipes[i] = h}
  <1>1. s \in Library /\ Placed(s) /\ Table(s) /\ Recorded(s) /\ Kept(s) /\ Waited(s) /\ s.faults = {}
    BY DEF Sound
  <1>2. /\ t \in Library /\ t.disk = s.disk /\ t.count = s.count
        /\ t.files = [s.files EXCEPT ![h] = NoFile] /\ Placed(t)
    BY <1>1, CloseTyped
  <1>3. /\ \A g \in Handles : t.files[g] = IF g = h THEN NoFile ELSE s.files[g]
        /\ ~ Piped(NoFile)
    BY <1>1, <1>2 DEF Library, Piped, NoFile
  <1>4. /\ s.pipes \in [1 .. NumPipes -> Handles \cup {NULL}]
        /\ s.files \in [Handles -> Opened \cup {NoFile}]
    BY <1>1 DEF Library
  <1>5. /\ \A i \in 1 .. NumPipes : IF s.pipes[i] = h THEN t.pipes[i] = NULL
                                    ELSE t.pipes[i] = s.pipes[i]
        /\ t.faults = s.faults
        /\ \A c \in t.unawaited : c \in s.unawaited \/ c >= NumPipes
        /\ \A n \in Names : t.written[n] = s.written[n] \/ t.written[n][2] = 0
                            \/ s.disk[t.written[n][1]][n] = t.written[n][2]
    <2>1. ASSUME setup.shell /\ at # {}, NEW i \in at,
                 NEW r, r = Release(s, h, TRUE),
                 NEW q, q = [s.pipes EXCEPT ![i] = NULL], t = [r EXCEPT !.pipes = q]
          PROVE  <1>5!1 /\ <1>5!2 /\ <1>5!3 /\ <1>5!4
      <3>1. Piped(s.files[h]) /\ \A j \in 1 .. NumPipes : s.pipes[j] = h => j = i
        BY <1>1, <2>1, OpenCloseAssumption DEF Table
      <3>2. /\ r \in Library /\ r.faults = s.faults
            /\ r.unawaited = s.unawaited \cup (IF Piped(s.files[h]) /\ ~ TRUE
                                               THEN {s.files[h].crowd} ELSE {})
            /\ \A n \in Names : r.written[n] = s.written[n] \/ r.written[n][2] = 0
                                \/ s.disk[r.written[n][1]][n] = r.written[n][2]
        <4>1. LetGo(s, h, TRUE, r)
          BY <1>1, <2>1, Released
        <4> QED  BY <3>1, <4>1 DEF LetGo
      <3>3. /\ t.pipes = q /\ t.faults = r.faults /\ t.unawaited = r.unawaited
            /\ t.written = r.written
        BY <2>1, <3>2 DEF Library
      <3>4. \A k \in 1 .. NumPipes : q[k] = IF k = i THEN NULL ELSE s.pipes[k]
        BY <1>4, <2>1
      <3>5. \A k \in 1 .. NumPipes : s.pipes[k] = h <=> k = i
        BY <2>1, <3>1
      <3> QED  BY <3>2, <3>3, <3>4, <3>5
    <2>2. ASSUME ~ (setup.shell /\ at # {}), t = Release(s, h, FALSE)
          PROVE  <1>5!1 /\ <1>5!2 /\ <1>5!3 /\ <1>5!4
      <3>1. \A i \in 1 .. NumPipes : s.pipes[i] # h
        <4> SUFFICES ASSUME NEW i \in 1 .. NumPipes, s.pipes[i] = h PROVE FALSE
          OBVIOUS
        <4>1. Piped(s.files[h])
          BY <1>1, OpenCloseAssumption DEF Table
        <4>2. setup.shell
          BY <1>1, <4>1 DEF Recorded
        <4>3. i \in at
          OBVIOUS
        <4> QED  BY <2>2, <4>2, <4>3
      <3>2. Piped(s.files[h]) => setup.shell /\ s.files[h].crowd >= NumPipes
        BY <1>1, <3>1 DEF Recorded
      <3>3. LetGo(s, h, FALSE, t)
        BY <1>1, <2>2, Released
      <3>4. /\ t.pipes = s.pipes
            /\ t.unawaited = s.unawaited \cup (IF Piped(s.files[h]) THEN {s.files[h].crowd} ELSE {})
            /\ \A n \in Names : t.written[n] = s.written[n] \/ t.written[n][2] = 0
                                \/ s.disk[t.written[n][1]][n] = t.written[n][2]
        BY <3>3 DEF LetGo
      <3>5. t.faults = s.faults
        BY <3>3 DEF LetGo
      <3> QED  BY <3>1, <3>2, <3>4, <3>5
    <2>3. \/ /\ setup.shell /\ at # {}
             /\ \E i \in at : t = [Release(s, h, TRUE) EXCEPT !.pipes = [s.pipes EXCEPT ![i] = NULL]]
          \/ ~ (setup.shell /\ at # {}) /\ t = Release(s, h, FALSE)
      BY <1>1, CloseDoes
    <2> HIDE DEF at
    <2> QED  BY <2>1, <2>2, <2>3
  <1>6. Table(t)
    <2> SUFFICES ASSUME NEW k \in 1 .. NumPipes, t.pipes[k] # NULL
                 PROVE  /\ Piped(t.files[t.pipes[k]])
                        /\ \A j \in 1 .. NumPipes : t.pipes[j] = t.pipes[k] => j = k
      BY DEF Table
    <2>1. t.pipes[k] = s.pipes[k] /\ s.pipes[k] # h /\ s.pipes[k] \in Handles
      BY <1>4, <1>5
    <2>2. /\ Piped(s.files[s.pipes[k]])
          /\ \A j \in 1 .. NumPipes : s.pipes[j] = s.pipes[k] => j = k
      BY <1>1, <2>1 DEF Table
    <2>3. \A j \in 1 .. NumPipes : t.pipes[j] = t.pipes[k] => s.pipes[j] = s.pipes[k]
      BY <1>5, <2>1
    <2> QED  BY <1>3, <2>1, <2>2, <2>3
  <1>7. Recorded(t)
    <2> SUFFICES ASSUME NEW g \in Handles, Piped(t.files[g])
                 PROVE  /\ setup.shell
                        /\ t.files[g].crowd >= NumPipes \/ \E i \in 1 .. NumPipes : t.pipes[i] = g
      BY DEF Recorded
    <2>1. g # h /\ t.files[g] = s.files[g]
      BY <1>3
    <2>2. /\ setup.shell
          /\ s.files[g].crowd >= NumPipes \/ \E i \in 1 .. NumPipes : s.pipes[i] = g
      BY <1>1, <2>1 DEF Recorded
    <2> QED  BY <1>5, <2>1, <2>2
  <1>8. Waited(t) /\ t.faults = {}
    BY <1>1, <1>5 DEF Waited
  <1>9. Kept(t)
    BY <1>1, <1>2, <1>5 DEF Kept
  <1>10. \A g \in Handles : Back(t.files[g])
    BY <1>3 DEF Sound, Back, NoFile
  <1> QED  BY <1>2, <1>6, <1>7, <1>8, <1>9, <1>10 DEF Sound
\* Closing several, no one twice: those are free afterwards, and no other.
LEMMA CloseAllSound ==
    ASSUME NEW s, Sound(s), NEW hs \in Seq(Handles \cup {NULL}),
           \A i \in 1 .. Len(hs) : hs[i] # NULL =>
             /\ s.files[hs[i]].kind # "closed"
             /\ \A j \in 1 .. Len(hs) : hs[j] = hs[i] => j = i
    PROVE  /\ Sound(CloseAll(s, hs))
           /\ \A h \in Handles :
                CloseAll(s, hs).files[h] = IF \E i \in 1 .. Len(hs) : hs[i] = h THEN NoFile
                                           ELSE s.files[h]
  <1> DEFINE n == Len(hs)
             Closing(i, u) == IF hs[i] = NULL THEN u ELSE Close(u, hs[i])
             closed == CHOOSE closed : closed = [i \in 0 .. n |->
                         IF i = 0 THEN s ELSE IF hs[i] = NULL THEN closed[i - 1]
                                              ELSE Close(closed[i - 1], hs[i])]
             S == {u \in Library : Placed(u)}
             G == [i \in 1 .. n |-> [u \in S |-> Closing(i, u)]]
  <1>1. CloseAll(s, hs) = closed[n]
    BY DEF CloseAll
  <1>2. n \in Nat /\ \A i \in 1 .. n : hs[i] \in Handles \cup {NULL}
    OBVIOUS
  <1>3. s \in S
    BY DEF Sound
  <1>4. ASSUME NEW i \in 1 .. n, NEW u \in S PROVE Closing(i, u) \in S
    <2>1. CASE hs[i] = NULL
      BY <2>1
    <2>2. CASE hs[i] # NULL
      <3>1. hs[i] \in Handles /\ u \in Library /\ Placed(u)
        BY <1>2, <2>2
      <3>2. Close(u, hs[i]) \in Library /\ Placed(Close(u, hs[i]))
        BY <3>1, CloseTyped
      <3> QED  BY <2>2, <3>2
    <2> QED  BY <2>1, <2>2
  <1>5. G \in [1 .. n -> [S -> S]] /\ \A i \in 1 .. n, u \in S : G[i][u] = Closing(i, u)
    BY <1>4
  <1> HIDE DEF n, S, G
  <1>6. PICK g \in [0 .. n -> S] : Steps(g, n, s, G)
    BY <1>2, <1>3, <1>5, Recursion
  <1>7. g = [i \in 0 .. n |-> IF i = 0 THEN s ELSE IF hs[i] = NULL THEN g[i - 1]
                                                   ELSE Close(g[i - 1], hs[i])]
    <2>1. ASSUME NEW i \in 0 .. n
          PROVE  g[i] = IF i = 0 THEN s ELSE Closing(i, g[i - 1])
      <3>1. g[i] = IF i = 0 THEN s ELSE G[i][g[i - 1]]
        BY <1>6 DEF Steps
      <3>2. CASE i # 0
        <4>1. i \in 1 .. n /\ i - 1 \in 0 .. n
          BY <1>2, <3>2
        <4> QED  BY <1>5, <3>1, <3>2, <4>1
      <3> QED  BY <3>1, <3>2
    <2> QED  BY <2>1
  <1>8. closed = [i \in 0 .. n |-> IF i = 0 THEN s ELSE IF hs[i] = NULL THEN closed[i - 1]
                                                        ELSE Close(closed[i - 1], hs[i])]
    BY <1>7
  <1> HIDE DEF closed
  <1>9. \A i \in 0 .. n : closed[i] = IF i = 0 THEN s ELSE Closing(i, closed[i - 1])
    BY <1>8
  <1> DEFINE Good(i) == /\ Sound(closed[i])
                        /\ \A h \in Handles :
                             closed[i].files[h] = IF \E k \in 1 .. i : hs[k] = h THEN NoFile
                                                  ELSE s.files[h]
             T == {i \in 0 .. n : Good(i)}
  <1>10. 0 \in T
    <2>1. 0 \in 0 .. n /\ closed[0] = s /\ 1 .. 0 = {}
      BY <1>2, <1>9
    <2> QED  BY <2>1
  <1>11. ASSUME NEW i \in 0 .. n, i \in T, i < n PROVE i + 1 \in T
    <2>1. PICK j : j = i + 1
      OBVIOUS
    <2>2. j \in 1 .. n /\ j \in 0 .. n /\ j # 0 /\ j - 1 = i /\ Good(i)
      BY <1>2, <1>11, <2>1
    <2>3. closed[j] = Closing(j, closed[i])
      BY <1>9, <2>2
    <2>4. \A k : k \in 1 .. j <=> (k \in 1 .. i \/ k = j)
      BY <1>2, <2>1
    <2>5. CASE hs[j] = NULL
      <3>1. \A h \in Handles : hs[j] # h
        BY <2>5, OpenCloseAssumption
      <3>2. closed[j] = closed[i]
        BY <2>3, <2>5
      <3>3. \A h \in Handles : (\E k \in 1 .. j : hs[k] = h) <=> (\E k \in 1 .. i : hs[k] = h)
        BY <2>4, <3>1
      <3>4. Good(j)
        BY <2>2, <3>2, <3>3
      <3> QED  BY <2>1, <2>2, <3>4
    <2>6. CASE hs[j] # NULL
      <3>1. hs[j] \in Handles /\ closed[j] = Close(closed[i], hs[j])
        BY <1>2, <2>2, <2>3, <2>6
      <3>2. \A k \in 1 .. i : k \in 1 .. n /\ k # j
        BY <1>2, <2>1, <2>2
      <3>3. ~ \E k \in 1 .. i : hs[k] = hs[j]
        BY <2>2, <2>6, <3>2 DEF n
      <3>4. closed[i].files[hs[j]] = s.files[hs[j]]
        BY <2>2, <3>1, <3>3
      <3>5. closed[i].files[hs[j]].kind # "closed"
        BY <2>2, <2>6, <3>4 DEF n
      <3>6. Sound(closed[j]) /\ closed[j].files = [closed[i].files EXCEPT ![hs[j]] = NoFile]
        <4>1. PICK h \in Handles : h = hs[j]
          BY <3>1
        <4>2. Sound(closed[i])
          BY <2>2
        <4> QED  BY <3>1, <3>5, <4>1, <4>2, CloseSound
      <3>7. closed[i].files \in [Handles -> Opened \cup {NoFile}]
        BY <2>2 DEF Sound, Library
      <3>8. \A h \in Handles : closed[j].files[h] = IF h = hs[j] THEN NoFile ELSE closed[i].files[h]
        BY <3>6, <3>7
      <3>9. ASSUME NEW h \in Handles
            PROVE  closed[j].files[h] = IF \E k \in 1 .. j : hs[k] = h THEN NoFile ELSE s.files[h]
        <4>1. CASE h = hs[j]
          BY <2>4, <3>8, <4>1
        <4>2. CASE h # hs[j]
          <5>1. (\E k \in 1 .. j : hs[k] = h) <=> (\E k \in 1 .. i : hs[k] = h)
            BY <2>4, <4>2
          <5> QED  BY <2>2, <3>8, <4>2, <5>1
        <4> QED  BY <4>1, <4>2
      <3>10. Good(j)
        BY <3>6, <3>9
      <3> QED  BY <2>1, <2>2, <3>10
    <2> QED  BY <2>5, <2>6
  <1> HIDE DEF Good
  <1>12. n \in T
    <2> HIDE DEF T
    <2>1. \A i \in 0 .. n : i \in T /\ i < n => i + 1 \in T
      BY <1>11
    <2>2. n \in 0 .. n
      BY <1>2
    <2> QED  BY <1>2, <1>10, <2>1, <2>2, Upwards
  <1> QED  BY <1>1, <1>12 DEF Good, n
-----------------------------------------------------------------------------
(* Owners *)

Gains(A, B, h, o) == \A g \in Handles : B[g] = IF g = h THEN A[g] \cup {o} ELSE A[g]
Loses(A, B, h, o) == \A g \in Handles : B[g] = IF g = h THEN A[g] \ {o} ELSE A[g]

\* A free handle that is opened for one, and one that its owner closes.
LEMMA MatchedOpen ==
    ASSUME NEW files \in [Handles -> Opened \cup {NoFile}], NEW A, NEW B, NEW o,
           Matched(files, A), NEW h \in Handles, files[h].kind = "closed", Gains(A, B, h, o),
           NEW f \in Opened, NEW after, after = [files EXCEPT ![h] = f]
    PROVE  Matched(after, B)
  <1>1. f.kind # "closed"
    BY DEF Opened
  <1>2. A[h] = {} /\ B[h] = {o}
    BY DEF Matched, Gains
  <1>3. \A g \in Handles : g # h => B[g] = A[g] /\ after[g] = files[g]
    BY DEF Gains
  <1>4. after[h] = f
    OBVIOUS
  <1> QED  BY <1>1, <1>2, <1>3, <1>4 DEF Matched

LEMMA MatchedClose ==
    ASSUME NEW files \in [Handles -> Opened \cup {NoFile}], NEW A, NEW B, NEW o,
           Matched(files, A), NEW h \in Handles, o \in A[h], Loses(A, B, h, o),
           NEW after, after = [files EXCEPT ![h] = NoFile]
    PROVE  Matched(after, B)
  <1>1. NoFile.kind = "closed"
    BY DEF NoFile
  <1>2. A[h] = {o} /\ B[h] = {}
    <2>1. A[h] # {}
      OBVIOUS
    <2>2. PICK x : A[h] = {x}
      BY <2>1 DEF Matched
    <2>3. A[h] = {o}
      BY <2>2
    <2> QED  BY <2>3 DEF Loses
  <1>3. \A g \in Handles : g # h => B[g] = A[g] /\ after[g] = files[g]
    BY DEF Loses
  <1>4. after[h] = NoFile
    OBVIOUS
  <1> QED  BY <1>1, <1>2, <1>3, <1>4 DEF Matched

\* What an owner has is open, and no other has it.
LEMMA OwnedIsOpen ==
    ASSUME NEW files, NEW A, Matched(files, A), NEW h \in Handles, NEW o \in A[h]
    PROVE  files[h].kind # "closed" /\ A[h] = {o}
  BY DEF Matched

\* Who has h, one by one.
LEMMA OwnersAre ==
    ASSUME NEW wo, NEW wf, NEW rf, NEW st, NEW h \in Handles, NEW o
    PROVE  o \in Owning(wo, wf, rf, st)[h] <=>
             \/ \E j \in Writes : wo[j] /\ wf[j] = h /\ o = <<"out", j>>
             \/ \E k \in Reads : rf[k] = h /\ o = <<"in", k>>
             \/ \E l \in 1 .. Len(st) : st[l] = h /\ o = <<"level", l>>
  BY DEF Owning, Own

\* An \openout stream is closed, and one that is closed is opened.
LEMMA OutOwner ==
    ASSUME NEW wo \in [Writes -> BOOLEAN], NEW wf \in [Writes -> Handles \cup {NULL}],
           NEW rf, NEW st, NEW j \in Writes, NEW h \in Handles
    PROVE  /\ wo[j] /\ wf[j] = h =>
                Loses(Owning(wo, wf, rf, st), Owning([wo EXCEPT ![j] = FALSE], wf, rf, st),
                      h, <<"out", j>>)
           /\ ~ wo[j] =>
                Gains(Owning(wo, wf, rf, st),
                      Owning([wo EXCEPT ![j] = TRUE], [wf EXCEPT ![j] = h], rf, st),
                      h, <<"out", j>>)
  <1>1. ASSUME wo[j], wf[j] = h, NEW g \in Handles
        PROVE  LET A == Owning(wo, wf, rf, st)[g]
                   B == Owning([wo EXCEPT ![j] = FALSE], wf, rf, st)[g]
               IN  B = IF g = h THEN A \ {<<"out", j>>} ELSE A
    <2> DEFINE A == Owning(wo, wf, rf, st)[g]
               v == [wo EXCEPT ![j] = FALSE]
               B == Owning(v, wf, rf, st)[g]
    <2>1. \A i \in Writes : v[i] <=> (i # j /\ wo[i])
      OBVIOUS
    <2> HIDE DEF v
    <2>2. ASSUME NEW o PROVE o \in B <=> (o \in A /\ ~ (g = h /\ o = <<"out", j>>))
      <3>1. o \in A <=> \/ \E i \in Writes : wo[i] /\ wf[i] = g /\ o = <<"out", i>>
                        \/ \E k \in Reads : rf[k] = g /\ o = <<"in", k>>
                        \/ \E l \in 1 .. Len(st) : st[l] = g /\ o = <<"level", l>>
        BY OwnersAre
      <3>2. o \in B <=> \/ \E i \in Writes : v[i] /\ wf[i] = g /\ o = <<"out", i>>
                        \/ \E k \in Reads : rf[k] = g /\ o = <<"in", k>>
                        \/ \E l \in 1 .. Len(st) : st[l] = g /\ o = <<"level", l>>
        BY OwnersAre
      <3> HIDE DEF A, B
      <3> QED  BY <1>1, <2>1, <3>1, <3>2
    <2> HIDE DEF A, B
    <2>3. B = IF g = h THEN A \ {<<"out", j>>} ELSE A
      BY <2>2
    <2> QED  BY <2>3 DEF A, B, v
  <1>2. ASSUME ~ wo[j], NEW g \in Handles
        PROVE  LET A == Owning(wo, wf, rf, st)[g]
                   B == Owning([wo EXCEPT ![j] = TRUE], [wf EXCEPT ![j] = h], rf, st)[g]
               IN  B = IF g = h THEN A \cup {<<"out", j>>} ELSE A
    <2> DEFINE A == Owning(wo, wf, rf, st)[g]
               v == [wo EXCEPT ![j] = TRUE]
               w == [wf EXCEPT ![j] = h]
               B == Owning(v, w, rf, st)[g]
    <2>1. \A i \in Writes : (v[i] <=> (i = j \/ wo[i])) /\ w[i] = IF i = j THEN h ELSE wf[i]
      OBVIOUS
    <2> HIDE DEF v, w
    <2>2. ASSUME NEW o PROVE o \in B <=> (o \in A \/ (g = h /\ o = <<"out", j>>))
      <3>1. o \in A <=> \/ \E i \in Writes : wo[i] /\ wf[i] = g /\ o = <<"out", i>>
                        \/ \E k \in Reads : rf[k] = g /\ o = <<"in", k>>
                        \/ \E l \in 1 .. Len(st) : st[l] = g /\ o = <<"level", l>>
        BY OwnersAre
      <3>2. o \in B <=> \/ \E i \in Writes : v[i] /\ w[i] = g /\ o = <<"out", i>>
                        \/ \E k \in Reads : rf[k] = g /\ o = <<"in", k>>
                        \/ \E l \in 1 .. Len(st) : st[l] = g /\ o = <<"level", l>>
        BY OwnersAre
      <3> HIDE DEF A, B
      <3> QED  BY <1>2, <2>1, <3>1, <3>2
    <2> HIDE DEF A, B
    <2>3. B = IF g = h THEN A \cup {<<"out", j>>} ELSE A
      BY <2>2
    <2> QED  BY <2>3 DEF A, B, v, w
  <1> QED  BY <1>1, <1>2 DEF Loses, Gains

\* What write_file has for a stream that is closed makes no difference.
LEMMA ClosedOut ==
    ASSUME NEW wo, NEW wf, NEW rf, NEW st, NEW w, \A i \in Writes : wo[i] => w[i] = wf[i]
    PROVE  Owning(wo, w, rf, st) = Owning(wo, wf, rf, st)
  <1>1. \A g : {i \in Writes : wo[i] /\ w[i] = g} = {i \in Writes : wo[i] /\ wf[i] = g}
    OBVIOUS
  <1>2. \A g : Own(wo, w, rf, st, g) = Own(wo, wf, rf, st, g)
    BY <1>1 DEF Own
  <1> QED  BY <1>2 DEF Owning

\* The same for the \openin streams.
LEMMA InOwner ==
    ASSUME NEW wo, NEW wf, NEW rf \in [Reads -> Handles \cup {NULL}], NEW st,
           NEW k \in Reads, NEW h \in Handles
    PROVE  /\ rf[k] = h =>
                Loses(Owning(wo, wf, rf, st), Owning(wo, wf, [rf EXCEPT ![k] = NULL], st),
                      h, <<"in", k>>)
           /\ rf[k] = NULL =>
                Gains(Owning(wo, wf, rf, st), Owning(wo, wf, [rf EXCEPT ![k] = h], st),
                      h, <<"in", k>>)
  <1>1. ASSUME NEW q \in [Reads -> Handles \cup {NULL}], NEW g \in Handles, NEW o
        PROVE  o \in Owning(wo, wf, q, st)[g] <=>
                 \/ \E j \in Writes : wo[j] /\ wf[j] = g /\ o = <<"out", j>>
                 \/ \E i \in Reads : q[i] = g /\ o = <<"in", i>>
                 \/ \E l \in 1 .. Len(st) : st[l] = g /\ o = <<"level", l>>
    BY OwnersAre
  <1>2. ASSUME rf[k] = h, NEW g \in Handles
        PROVE  LET A == Owning(wo, wf, rf, st)[g]
                   B == Owning(wo, wf, [rf EXCEPT ![k] = NULL], st)[g]
               IN  B = IF g = h THEN A \ {<<"in", k>>} ELSE A
    <2> DEFINE A == Owning(wo, wf, rf, st)[g]
               q == [rf EXCEPT ![k] = NULL]
               B == Owning(wo, wf, q, st)[g]
    <2>1. /\ q \in [Reads -> Handles \cup {NULL}]
          /\ \A i \in Reads : q[i] = IF i = k THEN NULL ELSE rf[i]
      OBVIOUS
    <2> HIDE DEF q
    <2>2. ASSUME NEW o PROVE o \in B <=> (o \in A /\ ~ (g = h /\ o = <<"in", k>>))
      BY <1>1, <1>2, <2>1, OpenCloseAssumption
    <2> HIDE DEF A, B
    <2>3. B = IF g = h THEN A \ {<<"in", k>>} ELSE A
      BY <2>2
    <2> QED  BY <2>3 DEF A, B, q
  <1>3. ASSUME rf[k] = NULL, NEW g \in Handles
        PROVE  LET A == Owning(wo, wf, rf, st)[g]
                   B == Owning(wo, wf, [rf EXCEPT ![k] = h], st)[g]
               IN  B = IF g = h THEN A \cup {<<"in", k>>} ELSE A
    <2> DEFINE A == Owning(wo, wf, rf, st)[g]
               q == [rf EXCEPT ![k] = h]
               B == Owning(wo, wf, q, st)[g]
    <2>1. /\ q \in [Reads -> Handles \cup {NULL}]
          /\ \A i \in Reads : q[i] = IF i = k THEN h ELSE rf[i]
      OBVIOUS
    <2> HIDE DEF q
    <2>2. ASSUME NEW o PROVE o \in B <=> (o \in A \/ (g = h /\ o = <<"in", k>>))
      BY <1>1, <1>3, <2>1, OpenCloseAssumption
    <2> HIDE DEF A, B
    <2>3. B = IF g = h THEN A \cup {<<"in", k>>} ELSE A
      BY <2>2
    <2> QED  BY <2>3 DEF A, B, q
  <1> QED  BY <1>2, <1>3 DEF Loses, Gains
\* And for the \input levels.
LEMMA LevelOwner ==
    ASSUME NEW wo, NEW wf, NEW rf, NEW st \in Seq(Handles), NEW h \in Handles
    PROVE  /\ Gains(Owning(wo, wf, rf, st), Owning(wo, wf, rf, Append(st, h)),
                    h, <<"level", Len(st) + 1>>)
           /\ st # <<>> /\ Last(st) = h =>
                Loses(Owning(wo, wf, rf, st), Owning(wo, wf, rf, Front(st)),
                      h, <<"level", Len(st)>>)
  <1>1. ASSUME NEW q, NEW g \in Handles, NEW o
        PROVE  o \in Owning(wo, wf, rf, q)[g] <=>
                 \/ \E j \in Writes : wo[j] /\ wf[j] = g /\ o = <<"out", j>>
                 \/ \E i \in Reads : rf[i] = g /\ o = <<"in", i>>
                 \/ \E l \in 1 .. Len(q) : q[l] = g /\ o = <<"level", l>>
    BY OwnersAre
  <1>2. ASSUME NEW g \in Handles
        PROVE  LET A == Owning(wo, wf, rf, st)[g]
                   B == Owning(wo, wf, rf, Append(st, h))[g]
               IN  B = IF g = h THEN A \cup {<<"level", Len(st) + 1>>} ELSE A
    <2> DEFINE A == Owning(wo, wf, rf, st)[g]
               q == Append(st, h)
               m == Len(st) + 1
               B == Owning(wo, wf, rf, q)[g]
    <2>1. /\ \A l : l \in 1 .. Len(q) <=> (l \in 1 .. Len(st) \/ l = m)
          /\ \A l \in 1 .. Len(st) : q[l] = st[l] /\ l # m
          /\ q[m] = h
      OBVIOUS
    <2> HIDE DEF q, m
    <2>2. ASSUME NEW o PROVE o \in B <=> (o \in A \/ (g = h /\ o = <<"level", m>>))
      BY <1>1, <2>1
    <2> HIDE DEF A, B
    <2>3. B = IF g = h THEN A \cup {<<"level", m>>} ELSE A
      BY <2>2
    <2> QED  BY <2>3 DEF A, B, q, m
  <1>3. ASSUME st # <<>>, Last(st) = h, NEW g \in Handles
        PROVE  LET A == Owning(wo, wf, rf, st)[g]
                   B == Owning(wo, wf, rf, Front(st))[g]
               IN  B = IF g = h THEN A \ {<<"level", Len(st)>>} ELSE A
    <2> DEFINE A == Owning(wo, wf, rf, st)[g]
               q == Front(st)
               m == Len(st)
               B == Owning(wo, wf, rf, q)[g]
    <2>1. /\ \A l : l \in 1 .. m <=> (l \in 1 .. Len(q) \/ l = m)
          /\ \A l \in 1 .. Len(q) : q[l] = st[l] /\ l # m
          /\ st[m] = h
      BY <1>3 DEF Front, Last
    <2> HIDE DEF q, m
    <2>2. ASSUME NEW o PROVE o \in B <=> (o \in A /\ ~ (g = h /\ o = <<"level", m>>))
      <3>1. o \in A <=> \/ \E j \in Writes : wo[j] /\ wf[j] = g /\ o = <<"out", j>>
                        \/ \E i \in Reads : rf[i] = g /\ o = <<"in", i>>
                        \/ \E l \in 1 .. m : st[l] = g /\ o = <<"level", l>>
        BY <1>1 DEF m
      <3>2. o \in B <=> \/ \E j \in Writes : wo[j] /\ wf[j] = g /\ o = <<"out", j>>
                        \/ \E i \in Reads : rf[i] = g /\ o = <<"in", i>>
                        \/ \E l \in 1 .. Len(q) : q[l] = g /\ o = <<"level", l>>
        BY <1>1
      <3>3. (\E l \in 1 .. Len(q) : q[l] = g /\ o = <<"level", l>>)
              <=> (\E l \in 1 .. m : st[l] = g /\ o = <<"level", l>> /\ l # m)
        BY <2>1
      <3> HIDE DEF A, B
      <3>4. CASE o = <<"level", m>>
        <4>1. (\E l \in 1 .. m : st[l] = g /\ o = <<"level", l>>) <=> g = h
          BY <2>1, <3>4
        <4>2. ~ \E l \in 1 .. m : st[l] = g /\ o = <<"level", l>> /\ l # m
          BY <3>4
        <4> QED  BY <3>1, <3>2, <3>3, <3>4, <4>1, <4>2
      <3>5. CASE o # <<"level", m>>
        <4>1. (\E l \in 1 .. m : st[l] = g /\ o = <<"level", l>>)
                <=> \E l \in 1 .. m : st[l] = g /\ o = <<"level", l>> /\ l # m
          BY <3>5
        <4> QED  BY <3>1, <3>2, <3>3, <3>5, <4>1
      <3> QED  BY <3>4, <3>5
    <2> HIDE DEF A, B
    <2>3. B = IF g = h THEN A \ {<<"level", m>>} ELSE A
      BY <2>2
    <2> QED  BY <2>3 DEF A, B, q, m
  <1> QED  BY <1>2, <1>3 DEF Loses, Gains

\* All levels are closed: their handles, which no other owner has, are free.
LEMMA LevelsClosed ==
    ASSUME NEW files \in [Handles -> Opened \cup {NoFile}], NEW wo, NEW wf, NEW rf,
           NEW st \in Seq(Handles), Matched(files, Owning(wo, wf, rf, st)),
           NEW after,
           \A h \in Handles : after[h] = IF \E l \in 1 .. Len(st) : st[l] = h THEN NoFile
                                         ELSE files[h]
    PROVE  Matched(after, Owning(wo, wf, rf, <<>>))
  <1> DEFINE A == Owning(wo, wf, rf, st)
             B == Owning(wo, wf, rf, <<>>)
  <1>1. ASSUME NEW g \in Handles, NEW o
        PROVE  /\ o \in A[g] <=>
                    o \in B[g] \/ \E l \in 1 .. Len(st) : st[l] = g /\ o = <<"level", l>>
               /\ \A l : o = <<"level", l>> => o \notin B[g]
    <2>1. o \in A[g] <=> \/ \E j \in Writes : wo[j] /\ wf[j] = g /\ o = <<"out", j>>
                         \/ \E k \in Reads : rf[k] = g /\ o = <<"in", k>>
                         \/ \E l \in 1 .. Len(st) : st[l] = g /\ o = <<"level", l>>
      BY OwnersAre
    <2>2. o \in B[g] <=> \/ \E j \in Writes : wo[j] /\ wf[j] = g /\ o = <<"out", j>>
                         \/ \E k \in Reads : rf[k] = g /\ o = <<"in", k>>
                         \/ \E l \in 1 .. Len(<<>>) : <<>>[l] = g /\ o = <<"level", l>>
      BY OwnersAre
    <2>3. Len(<<>>) = 0 /\ 1 .. 0 = {}
      OBVIOUS
    <2> HIDE DEF A, B
    <2> QED  BY <2>1, <2>2, <2>3
  <1> HIDE DEF A, B
  <1>2. ASSUME NEW h \in Handles
        PROVE  IF after[h].kind = "closed" THEN B[h] = {} ELSE \E o : B[h] = {o}
    <2>1. CASE \E l \in 1 .. Len(st) : st[l] = h
      <3>1. PICK l \in 1 .. Len(st) : st[l] = h
        BY <2>1
      <3>2. <<"level", l>> \in A[h] /\ <<"level", l>> \notin B[h]
        BY <1>1, <3>1
      <3>3. A[h] = {<<"level", l>>}
        BY <3>2, OwnedIsOpen DEF A
      <3>4. B[h] = {}
        BY <1>1, <3>2, <3>3
      <3>5. after[h].kind = "closed"
        BY <2>1 DEF NoFile
      <3> QED  BY <3>4, <3>5
    <2>2. CASE ~ \E l \in 1 .. Len(st) : st[l] = h
      <3>1. \A o : o \in A[h] <=> o \in B[h]
        BY <1>1, <2>2
      <3>2. IF files[h].kind = "closed" THEN A[h] = {} ELSE \E o : A[h] = {o}
        BY DEF Matched, A
      <3>3. A[h] = B[h]
        BY <3>1
      <3> QED  BY <2>2, <3>2, <3>3
    <2> QED  BY <2>1, <2>2
  <1> QED  BY <1>2 DEF Matched, B
-----------------------------------------------------------------------------
(* The steps *)

\* What an open stream or level has is closed as it should be: the handle
\* is free afterwards, and its owner has none.
LEMMA OwnersClose ==
    ASSUME IInv, phase # "dead", NEW h \in Handles, NEW o,
           o \in Owning(wopen, wfile, rfile, stack)[h]
    PROVE  /\ io.files[h].kind # "closed"
           /\ Sound(Close(io, h)) /\ Close(io, h).count = io.count
           /\ \A B : Loses(Owning(wopen, wfile, rfile, stack), B, h, o)
                       => Matched(Close(io, h).files, B)
  <1> DEFINE A == Owning(wopen, wfile, rfile, stack)
  <1>1. Matched(io.files, A) /\ Sound(io)
    BY DEF IInv, Agreed
  <1>2. io.files \in [Handles -> Opened \cup {NoFile}]
    BY <1>1 DEF Sound, Library
  <1> HIDE DEF A
  <1>3. io.files[h].kind # "closed"
    BY <1>1, OwnedIsOpen DEF A
  <1>4. /\ Sound(Close(io, h)) /\ Close(io, h).count = io.count
        /\ Close(io, h).files = [io.files EXCEPT ![h] = NoFile]
    BY <1>1, <1>3, CloseSound
  <1>5. ASSUME NEW B, Loses(A, B, h, o) PROVE Matched(Close(io, h).files, B)
    BY <1>1, <1>2, <1>4, <1>5, MatchedClose DEF A
  <1> QED  BY <1>3, <1>4, <1>5 DEF A

\* What a step leaves, put together.
LEMMA Together ==
    ASSUME TypeOK', setup' = setup, Sound(io'),
           \A j \in Writes : wopen'[j] => wfile'[j] \in Handles,
           phase' # "dead" => Matched(io'.files, Owning(wopen', wfile', rfile', stack')),
           phase' = "dead" => \A j \in Writes : wopen'[j] => io'.files[wfile'[j]].kind = "closed"
    PROVE  IInv'
  <1>1. Sound(io)'
    BY DEF Sound, Recorded, Back, Asked, Reread
  <1>2. Agreed'
    BY DEF Agreed, IsOpen
  <1> QED  BY <1>1, <1>2 DEF IInv

\* \closeout
LEMMA CloseOutStep ==
    ASSUME IInv, NEW j \in Writes, CloseOut(j)
    PROVE  IInv'
  <1>1. TypeOK /\ phase = "run" /\ wopen[j] /\ wfile[j] \in Handles /\ phase # "dead"
    BY DEF IInv, Agreed, CloseOut
  <1>2. /\ io' = Close(io, wfile[j]) /\ wopen' = [wopen EXCEPT ![j] = FALSE]
        /\ UNCHANGED <<setup, wfile, rfile, stack, phase>>
    BY DEF CloseOut
  <1>3. <<"out", j>> \in Owning(wopen, wfile, rfile, stack)[wfile[j]]
    BY <1>1, OwnersAre
  <1>4. Loses(Owning(wopen, wfile, rfile, stack), Owning(wopen', wfile, rfile, stack),
              wfile[j], <<"out", j>>)
    BY <1>1, <1>2, OutOwner DEF TypeOK
  <1>5. Sound(io') /\ Matched(io'.files, Owning(wopen', wfile, rfile, stack))
    BY <1>1, <1>2, <1>3, <1>4, OwnersClose
  <1>6. TypeOK'
    BY <1>1, <1>2, <1>5 DEF TypeOK, Sound
  <1>7. \A i \in Writes : wopen'[i] => wfile'[i] \in Handles
    BY <1>1, <1>2 DEF IInv, Agreed, TypeOK
  <1> QED  BY <1>1, <1>2, <1>5, <1>6, <1>7, Together

\* \closein
LEMMA CloseInStep ==
    ASSUME IInv, NEW k \in Reads, CloseIn(k)
    PROVE  IInv'
  <1>1. TypeOK /\ phase = "run" /\ rfile[k] \in Handles /\ phase # "dead"
    BY DEF IInv, CloseIn, TypeOK
  <1>2. /\ io' = Close(io, rfile[k]) /\ rfile' = [rfile EXCEPT ![k] = NULL]
        /\ UNCHANGED <<setup, wopen, wfile, stack, phase>>
    BY DEF CloseIn
  <1>3. <<"in", k>> \in Owning(wopen, wfile, rfile, stack)[rfile[k]]
    BY <1>1, OwnersAre
  <1>4. Loses(Owning(wopen, wfile, rfile, stack), Owning(wopen, wfile, rfile', stack),
              rfile[k], <<"in", k>>)
    BY <1>1, <1>2, InOwner DEF TypeOK
  <1>5. Sound(io') /\ Matched(io'.files, Owning(wopen, wfile, rfile', stack))
    BY <1>1, <1>2, <1>3, <1>4, OwnersClose
  <1>6. TypeOK'
    BY <1>1, <1>2, <1>5 DEF TypeOK, Sound
  <1>7. \A i \in Writes : wopen'[i] => wfile'[i] \in Handles
    BY <1>1, <1>2 DEF IInv, Agreed
  <1> QED  BY <1>1, <1>2, <1>5, <1>6, <1>7, Together

\* The end of a level.
LEMMA EndInputStep ==
    ASSUME IInv, EndInput
    PROVE  IInv'
  <1> DEFINE h == Last(stack)
  <1>1. TypeOK /\ phase = "run" /\ stack # <<>> /\ stack \in Seq(Handles) /\ phase # "dead"
        /\ Len(stack) <= MaxInput
    BY DEF IInv, EndInput, TypeOK
  <1>2. /\ io' = Close(io, h) /\ stack' = Front(stack)
        /\ UNCHANGED <<setup, wopen, wfile, rfile, phase>>
    BY DEF EndInput
  <1>3. /\ h \in Handles /\ Len(stack) \in 1 .. Len(stack) /\ stack[Len(stack)] = h
        /\ Front(stack) \in Seq(Handles) /\ Len(Front(stack)) = Len(stack) - 1
    <2>1. Len(stack) \in Nat /\ Len(stack) \in 1 .. Len(stack)
      BY <1>1
    <2>2. h = stack[Len(stack)] /\ h \in Handles
      BY <1>1, <2>1 DEF Last
    <2>3. Front(stack) = SubSeq(stack, 1, Len(stack) - 1)
      BY DEF Front
    <2>4. SubSeq(stack, 1, Len(stack) - 1) \in Seq(Handles)
          /\ Len(SubSeq(stack, 1, Len(stack) - 1)) = Len(stack) - 1
      <3>1. \A i \in 1 .. Len(stack) - 1 : stack[i] \in Handles
        BY <1>1
      <3>2. /\ SubSeq(stack, 1, Len(stack) - 1) \in Seq(Handles)
            /\ Len(SubSeq(stack, 1, Len(stack) - 1))
                 = IF 1 <= Len(stack) - 1 THEN Len(stack) - 1 - 1 + 1 ELSE 0
        <4>1. PICK m \in Int : m = Len(stack) - 1
          BY <2>1
        <4>2. \A i \in 1 .. m : stack[i] \in Handles
          BY <3>1, <4>1
        <4> QED  BY <4>1, <4>2, SubSeqProperties
      <3>3. (IF 1 <= Len(stack) - 1 THEN Len(stack) - 1 - 1 + 1 ELSE 0) = Len(stack) - 1
        <4>1. \A l \in Nat : l >= 1 => (IF 1 <= l - 1 THEN l - 1 - 1 + 1 ELSE 0) = l - 1
          OBVIOUS
        <4>2. Len(stack) \in Nat /\ Len(stack) >= 1
          BY <2>1
        <4> QED  BY <4>1, <4>2
      <3> QED  BY <3>2, <3>3
    <2> QED  BY <2>1, <2>2, <2>3, <2>4
  <1> HIDE DEF h
  <1>4. <<"level", Len(stack)>> \in Owning(wopen, wfile, rfile, stack)[h]
    BY <1>3, OwnersAre
  <1>5. Loses(Owning(wopen, wfile, rfile, stack), Owning(wopen, wfile, rfile, stack'),
              h, <<"level", Len(stack)>>)
    BY <1>1, <1>2, <1>3, LevelOwner DEF h
  <1>6. Sound(io') /\ Matched(io'.files, Owning(wopen, wfile, rfile, stack'))
    BY <1>1, <1>2, <1>3, <1>4, <1>5, OwnersClose
  <1>7. TypeOK'
    <2>1. Len(stack') <= MaxInput
      BY <1>1, <1>2, <1>3, OpenCloseAssumption
    <2> QED  BY <1>1, <1>2, <1>3, <1>6, <2>1 DEF TypeOK, Sound
  <1>8. \A i \in Writes : wopen'[i] => wfile'[i] \in Handles
    BY <1>1, <1>2 DEF IInv, Agreed
  <1> QED  BY <1>1, <1>2, <1>6, <1>7, <1>8, Together
\* What a stream's old file being closed leaves, if there was one.
LEMMA OutClosedFirst ==
    ASSUME IInv, phase # "dead", NEW j \in Writes,
           NEW s, s = IF wopen[j] THEN Close(io, wfile[j]) ELSE io
    PROVE  /\ Sound(s) /\ s.count = io.count
           /\ Matched(s.files, Owning([wopen EXCEPT ![j] = FALSE], wfile, rfile, stack))
  <1>1. TypeOK /\ Agreed /\ Sound(io)
    BY DEF IInv
  <1>2. CASE wopen[j]
    <2>1. wfile[j] \in Handles
      BY <1>1, <1>2 DEF Agreed
    <2>2. <<"out", j>> \in Owning(wopen, wfile, rfile, stack)[wfile[j]]
      BY <1>2, <2>1, OwnersAre
    <2>3. Loses(Owning(wopen, wfile, rfile, stack),
                Owning([wopen EXCEPT ![j] = FALSE], wfile, rfile, stack),
                wfile[j], <<"out", j>>)
      BY <1>1, <1>2, <2>1, OutOwner DEF TypeOK
    <2> QED  BY <1>2, <2>1, <2>2, <2>3, OwnersClose
  <1>3. CASE ~ wopen[j]
    <2>1. [wopen EXCEPT ![j] = FALSE] = wopen
      BY <1>1, <1>3 DEF TypeOK
    <2> QED  BY <1>1, <1>3, <2>1 DEF Agreed
  <1> QED  BY <1>2, <1>3

LEMMA InClosedFirst ==
    ASSUME IInv, phase # "dead", NEW k \in Reads,
           NEW s, s = IF rfile[k] # NULL THEN Close(io, rfile[k]) ELSE io
    PROVE  /\ Sound(s) /\ s.count = io.count
           /\ Matched(s.files, Owning(wopen, wfile, [rfile EXCEPT ![k] = NULL], stack))
  <1>1. TypeOK /\ Agreed /\ Sound(io)
    BY DEF IInv
  <1>2. CASE rfile[k] # NULL
    <2>1. rfile[k] \in Handles
      BY <1>1, <1>2 DEF TypeOK
    <2>2. <<"in", k>> \in Owning(wopen, wfile, rfile, stack)[rfile[k]]
      BY <2>1, OwnersAre
    <2>3. Loses(Owning(wopen, wfile, rfile, stack),
                Owning(wopen, wfile, [rfile EXCEPT ![k] = NULL], stack),
                rfile[k], <<"in", k>>)
      BY <1>1, <2>1, InOwner DEF TypeOK
    <2> QED  BY <1>2, <2>1, <2>2, <2>3, OwnersClose
  <1>3. CASE rfile[k] = NULL
    <2>1. [rfile EXCEPT ![k] = NULL] = rfile
      BY <1>1, <1>3 DEF TypeOK
    <2> QED  BY <1>1, <1>3, <2>1 DEF Agreed
  <1> QED  BY <1>2, <1>3

\* What a try to open for reading comes to: nothing, or a file or pipe.
LEMMA TriedIn ==
    ASSUME TypeOK, NEW s, Sound(s), s.count < MaxOpens, NEW n \in Usable, NEW r \in TryIn(s, n)
    PROVE  /\ \/ r[1] = s /\ r[2] = NULL
              \/ \E h \in Handles : s.files[h].kind = "closed" /\ r[2] = h /\ Gained(s, r[1], h)
           /\ r[3] \in {"run", "aborted"}
  <1>1. CASE \E h \in Free(s), starts \in BOOLEAN :
               LET q == InOrPipe(s, n, h, starts) IN r = <<q[1], q[2], "run">>
    <2>1. PICK h \in Free(s), starts \in BOOLEAN :
            LET q == InOrPipe(s, n, h, starts) IN r = <<q[1], q[2], "run">>
      BY <1>1
    <2>2. h \in Handles /\ s.files[h].kind = "closed" /\ FALSE \in BOOLEAN
      BY DEF Free
    <2> DEFINE q == InOrPipe(s, n, h, starts)
    <2>3. q = <<s, NULL>> \/ (q[2] = h /\ Gained(s, q[1], h))
      BY <2>2, EitherOpened
    <2>4. r = <<q[1], q[2], "run">>
      BY <2>1
    <2> HIDE DEF q
    <2> QED  BY <2>2, <2>3, <2>4
  <1>2. CASE r = <<s, NULL, "run">> \/ r = <<s, NULL, "aborted">>
    BY <1>2
  <1> QED  BY <1>1, <1>2 DEF TryIn

\* \openin
LEMMA OpenInStep ==
    ASSUME IInv, NEW k \in Reads, NEW n \in Names \cup Commands, OpenIn(k, n)
    PROVE  IInv'
  <1> DEFINE s == IF rfile[k] # NULL THEN Close(io, rfile[k]) ELSE io
             q == [rfile EXCEPT ![k] = NULL]
  <1>1. TypeOK /\ phase = "run" /\ phase # "dead" /\ io.count < MaxOpens /\ n \in Usable
    BY DEF IInv, OpenIn, Running
  <1>2. PICK r \in TryIn(s, n) :
          io' = r[1] /\ rfile' = [rfile EXCEPT ![k] = r[2]] /\ phase' = r[3]
    BY DEF OpenIn
  <1>3. UNCHANGED <<setup, wopen, wfile, stack>>
    BY DEF OpenIn
  <1>4. Sound(s) /\ s.count = io.count /\ Matched(s.files, Owning(wopen, wfile, q, stack))
    BY <1>1, InClosedFirst
  <1> HIDE DEF s
  <1>5. /\ \/ r[1] = s /\ r[2] = NULL
           \/ \E h \in Handles : s.files[h].kind = "closed" /\ r[2] = h /\ Gained(s, r[1], h)
        /\ r[3] \in {"run", "aborted"}
    <2>1. s.count < MaxOpens
      BY <1>1, <1>4
    <2> QED  BY <1>1, <1>2, <1>4, <2>1, TriedIn
  <1>6. /\ q \in [Reads -> Handles \cup {NULL}] /\ q[k] = NULL
        /\ \A x : [rfile EXCEPT ![k] = x] = [q EXCEPT ![k] = x]
    BY <1>1 DEF TypeOK
  <1>7. [q EXCEPT ![k] = NULL] = q
    BY <1>6
  <1> HIDE DEF q
  <1>8. rfile' \in [Reads -> Handles \cup {NULL}] /\ Sound(io')
        /\ Matched(io'.files, Owning(wopen, wfile, rfile', stack))
    <2>1. CASE r[1] = s /\ r[2] = NULL
      <3>1. io' = s /\ rfile' = q
        BY <1>2, <1>6, <1>7, <2>1
      <3> QED  BY <1>4, <1>6, <3>1
    <2>2. ASSUME NEW h \in Handles, s.files[h].kind = "closed", r[2] = h, Gained(s, r[1], h)
          PROVE  /\ rfile' \in [Reads -> Handles \cup {NULL}] /\ Sound(io')
                 /\ Matched(io'.files, Owning(wopen, wfile, rfile', stack))
      <3>1. Gained(s, io', h) /\ rfile' = [q EXCEPT ![k] = h]
        BY <1>2, <1>6, <2>2
      <3>2. PICK f \in Opened : Sound(io') /\ io'.files = [s.files EXCEPT ![h] = f]
        BY <3>1 DEF Gained
      <3>3. Gains(Owning(wopen, wfile, q, stack), Owning(wopen, wfile, rfile', stack),
                  h, <<"in", k>>)
        BY <1>6, <2>2, <3>1, InOwner
      <3>4. s.files \in [Handles -> Opened \cup {NoFile}]
        BY <1>4 DEF Sound, Library
      <3>5. Matched(io'.files, Owning(wopen, wfile, rfile', stack))
        BY <1>4, <2>2, <3>2, <3>3, <3>4, MatchedOpen
      <3> QED  BY <1>6, <3>1, <3>2, <3>5
    <2> QED  BY <1>5, <2>1, <2>2
  <1>9. TypeOK'
    BY <1>1, <1>2, <1>3, <1>5, <1>8 DEF TypeOK, Sound
  <1>10. \A i \in Writes : wopen'[i] => wfile'[i] \in Handles
    BY <1>3 DEF IInv, Agreed
  <1>11. phase' # "dead"
    BY <1>2, <1>5
  <1> QED  BY <1>1, <1>3, <1>8, <1>9, <1>10, <1>11, Together

\* \input
LEMMA InputStep ==
    ASSUME IInv, NEW n \in Names \cup Commands, Input(n)
    PROVE  IInv'
  <1>1. /\ TypeOK /\ phase = "run" /\ phase # "dead" /\ io.count < MaxOpens /\ n \in Usable
        /\ Len(stack) < MaxInput /\ Sound(io) /\ stack \in Seq(Handles)
        /\ Matched(io.files, Owning(wopen, wfile, rfile, stack))
    BY DEF IInv, Input, Running, TypeOK, Agreed
  <1>2. PICK r \in TryIn(io, n) :
          /\ io' = r[1]
          /\ stack' = IF r[2] = NULL THEN stack ELSE Append(stack, r[2])
          /\ IF r[3] = "aborted" THEN phase' = "aborted" ELSE After(r[2] # NULL)
    BY DEF Input
  <1>3. UNCHANGED <<setup, wopen, wfile, rfile>> /\ phase' \in {"run", "dying", "aborted"}
    BY <1>2 DEF Input, After
  <1>4. phase' # "dead"
    BY <1>3
  <1>5. \/ r[1] = io /\ r[2] = NULL
        \/ \E h \in Handles : io.files[h].kind = "closed" /\ r[2] = h /\ Gained(io, r[1], h)
    BY <1>1, <1>2, TriedIn
  <1>6. stack' \in Seq(Handles) /\ Len(stack') <= MaxInput /\ Sound(io')
        /\ Matched(io'.files, Owning(wopen, wfile, rfile, stack'))
    <2>1. CASE r[1] = io /\ r[2] = NULL
      <3>1. io' = io /\ stack' = stack
        BY <1>2, <2>1
      <3> QED  BY <1>1, <3>1, OpenCloseAssumption
    <2>2. ASSUME NEW h \in Handles, io.files[h].kind = "closed", r[2] = h, Gained(io, r[1], h)
          PROVE  /\ stack' \in Seq(Handles) /\ Len(stack') <= MaxInput /\ Sound(io')
                 /\ Matched(io'.files, Owning(wopen, wfile, rfile, stack'))
      <3>1. Gained(io, io', h) /\ stack' = Append(stack, h)
        BY <1>2, <2>2, OpenCloseAssumption
      <3>2. PICK f \in Opened : Sound(io') /\ io'.files = [io.files EXCEPT ![h] = f]
        BY <3>1 DEF Gained
      <3>3. Gains(Owning(wopen, wfile, rfile, stack), Owning(wopen, wfile, rfile, stack'),
                  h, <<"level", Len(stack) + 1>>)
        BY <1>1, <2>2, <3>1, LevelOwner
      <3>4. io.files \in [Handles -> Opened \cup {NoFile}]
        BY <1>1 DEF Sound, Library
      <3>5. Matched(io'.files, Owning(wopen, wfile, rfile, stack'))
        BY <1>1, <2>2, <3>2, <3>3, <3>4, MatchedOpen
      <3>6. stack' \in Seq(Handles) /\ Len(stack') = Len(stack) + 1 /\ Len(stack) \in Nat
        BY <1>1, <3>1
      <3> QED  BY <1>1, <3>2, <3>5, <3>6, OpenCloseAssumption
    <2> QED  BY <1>5, <2>1, <2>2
  <1>7. TypeOK'
    BY <1>1, <1>3, <1>6 DEF TypeOK, Sound
  <1>8. \A i \in Writes : wopen'[i] => wfile'[i] \in Handles
    BY <1>3 DEF IInv, Agreed
  <1> QED  BY <1>1, <1>3, <1>4, <1>6, <1>7, <1>8, Together

\* \openout
LEMMA OpenOutStep ==
    ASSUME IInv, NEW j \in Writes, NEW n \in Names \cup Commands, OpenOut(j, n)
    PROVE  IInv'
  <1> DEFINE s == IF wopen[j] THEN Close(io, wfile[j]) ELSE io
             v == [wopen EXCEPT ![j] = FALSE]
  <1>1. TypeOK /\ phase = "run" /\ phase # "dead" /\ io.count < MaxOpens /\ n \in Usable
    BY DEF IInv, OpenOut, Running
  <1>2. PICK r \in TryOut(s, n, wfile[j]) :
          /\ io' = r[1] /\ wfile' = [wfile EXCEPT ![j] = r[2]]
          /\ wopen' = [wopen EXCEPT ![j] = r[3]] /\ After(r[3])
    BY DEF OpenOut
  <1>3. UNCHANGED <<setup, rfile, stack>> /\ phase' \in {"run", "dying"}
    BY <1>2 DEF OpenOut, After
  <1>4. Sound(s) /\ s.count = io.count /\ Matched(s.files, Owning(v, wfile, rfile, stack))
    BY <1>1, OutClosedFirst
  <1> HIDE DEF s
  <1>5. /\ v \in [Writes -> BOOLEAN] /\ v[j] = FALSE
        /\ wfile \in [Writes -> Handles \cup {NULL}]
        /\ \A x : [wopen EXCEPT ![j] = x] = [v EXCEPT ![j] = x]
        /\ [v EXCEPT ![j] = FALSE] = v
        /\ \A i \in Writes : v[i] => wfile[i] \in Handles /\ i # j
    BY <1>1 DEF TypeOK, IInv, Agreed
  <1> HIDE DEF v
  <1>6. \/ r = <<s, wfile[j], FALSE>>
        \/ r = <<s, NULL, FALSE>>
        \/ \E h \in Handles : s.files[h].kind = "closed" /\ r[2] = h /\ r[3] = TRUE
                              /\ Gained(s, r[1], h)
    <2>1. CASE r = <<s, wfile[j], FALSE>>
      BY <2>1
    <2>2. ASSUME NEW h \in Free(s), NEW starts \in BOOLEAN, NEW undotted \in BOOLEAN,
                 NEW c, c = OutOrPipe(s, n, h, starts, undotted),
                 r = <<c[1], c[2], c[2] # NULL>>
          PROVE  r = <<s, NULL, FALSE>>
                 \/ (h \in Handles /\ s.files[h].kind = "closed" /\ r[2] = h /\ r[3] = TRUE
                       /\ Gained(s, r[1], h))
      <3>1. h \in Handles /\ s.files[h].kind = "closed" /\ h # NULL /\ s.count < MaxOpens
        BY <1>1, <1>4, OpenCloseAssumption DEF Free
      <3>2. c = <<s, NULL>> \/ (c[2] = h /\ Gained(s, c[1], h))
        BY <1>1, <1>4, <2>2, <3>1, EitherOpened
      <3>3. CASE c = <<s, NULL>>
        <4>1. (c[2] # NULL) = FALSE
          BY <3>3
        <4>2. r = <<c[1], c[2], FALSE>>
          BY <2>2, <4>1
        <4> QED  BY <3>3, <4>2
      <3>4. CASE c[2] = h /\ Gained(s, c[1], h)
        <4>1. (c[2] # NULL) = TRUE
          BY <3>1, <3>4
        <4>2. r = <<c[1], c[2], TRUE>>
          BY <2>2, <4>1
        <4> QED  BY <3>1, <3>4, <4>2
      <3> QED  BY <3>2, <3>3, <3>4
    <2>3. \/ r = <<s, wfile[j], FALSE>>
          \/ \E h \in Free(s), starts \in BOOLEAN, undotted \in BOOLEAN :
               \E c : c = OutOrPipe(s, n, h, starts, undotted)
                      /\ r = <<c[1], c[2], c[2] # NULL>>
      <3>1. CASE r = <<s, wfile[j], FALSE>>
        BY <3>1
      <3>2. CASE r # <<s, wfile[j], FALSE>>
        <4>1. PICK c : c \in Tried(s, n) /\ r = <<c[1], c[2], c[2] # NULL>>
          BY <1>2, <3>2, Zenon DEF TryOut
        <4>2. PICK h \in Free(s), starts \in BOOLEAN, undotted \in BOOLEAN :
                c = OutOrPipe(s, n, h, starts, undotted)
          BY <4>1 DEF Tried
        <4> QED  BY <4>1, <4>2, Zenon
      <3> QED  BY <3>1, <3>2
    <2> QED  BY <2>1, <2>2, <2>3
  <1>7. /\ Sound(io') /\ Matched(io'.files, Owning(wopen', wfile', rfile, stack))
        /\ wopen' \in [Writes -> BOOLEAN] /\ wfile' \in [Writes -> Handles \cup {NULL}]
        /\ \A i \in Writes : wopen'[i] => wfile'[i] \in Handles
    <2>1. ASSUME NEW x \in Handles \cup {NULL}, r = <<s, x, FALSE>>
          PROVE  <1>7
      <3>1. io' = s /\ wfile' = [wfile EXCEPT ![j] = x] /\ wopen' = v
        BY <1>2, <1>5, <2>1
      <3>2. Owning(wopen', wfile', rfile, stack) = Owning(v, wfile, rfile, stack)
        <4>1. \A i \in Writes : v[i] => wfile'[i] = wfile[i]
          BY <1>5, <3>1
        <4> QED  BY <3>1, <4>1, ClosedOut
      <3> QED  BY <1>4, <1>5, <2>1, <3>1, <3>2
    <2>2. ASSUME NEW h \in Handles, s.files[h].kind = "closed", r[2] = h, r[3] = TRUE,
                 Gained(s, r[1], h)
          PROVE  <1>7
      <3>1. io' = r[1] /\ wfile' = [wfile EXCEPT ![j] = h] /\ wopen' = [v EXCEPT ![j] = TRUE]
        BY <1>2, <1>5, <2>2
      <3>2. PICK f \in Opened : Sound(io') /\ io'.files = [s.files EXCEPT ![h] = f]
        BY <2>2, <3>1 DEF Gained
      <3>3. Gains(Owning(v, wfile, rfile, stack), Owning(wopen', wfile', rfile, stack),
                  h, <<"out", j>>)
        BY <1>5, <2>2, <3>1, OutOwner
      <3>4. s.files \in [Handles -> Opened \cup {NoFile}]
        BY <1>4 DEF Sound, Library
      <3>5. Matched(io'.files, Owning(wopen', wfile', rfile, stack))
        BY <1>4, <2>2, <3>2, <3>3, <3>4, MatchedOpen
      <3> QED  BY <1>5, <3>1, <3>2, <3>5
    <2>3. wfile[j] \in Handles \cup {NULL} /\ NULL \in Handles \cup {NULL}
      BY <1>5
    <2> QED  BY <1>6, <2>1, <2>2, <2>3
  <1>8. TypeOK'
    BY <1>1, <1>3, <1>7 DEF TypeOK, Sound
  <1> QED  BY <1>3, <1>7, <1>8, Together
\* The levels are closed, innermost first; each has a handle of its own.
LEMMA FinalCleanupStep ==
    ASSUME IInv, FinalCleanup
    PROVE  IInv'
  <1> DEFINE hs == Reverse(stack)
             n == Len(stack)
  <1>1. /\ TypeOK /\ phase = "run" /\ phase # "dead" /\ Sound(io) /\ stack \in Seq(Handles)
        /\ Matched(io.files, Owning(wopen, wfile, rfile, stack))
    BY DEF IInv, FinalCleanup, TypeOK, Agreed
  <1>2. /\ io' = CloseAll(io, hs) /\ stack' = <<>> /\ phase' = "dying"
        /\ UNCHANGED <<setup, wopen, wfile, rfile>>
    BY DEF FinalCleanup
  <1>3. n \in Nat /\ \A l \in 1 .. n : stack[l] \in Handles
    BY <1>1
  <1>4. hs = [i \in 1 .. n |-> stack[(n - i) + 1]]
    BY DEF Reverse
  <1>5. \A i \in 1 .. n : (n - i) + 1 \in 1 .. n
    BY <1>3
  <1> HIDE DEF hs, n
  <1>6. /\ hs \in Seq(Handles \cup {NULL}) /\ Len(hs) = n
        /\ \A i \in 1 .. n : hs[i] = stack[(n - i) + 1]
    <2>1. \A i \in 1 .. n : stack[(n - i) + 1] \in Handles \cup {NULL}
      BY <1>3, <1>5
    <2> QED  BY <1>3, <1>4, <2>1
  <1>7. ASSUME NEW l \in 1 .. n
        PROVE  /\ io.files[stack[l]].kind # "closed"
               /\ \A k \in 1 .. n : stack[k] = stack[l] => k = l
    <2>1. stack[l] \in Handles /\ \A k \in 1 .. n : k \in 1 .. Len(stack)
      BY <1>3 DEF n
    <2>2. \A k \in 1 .. n : stack[k] = stack[l] =>
            <<"level", k>> \in Owning(wopen, wfile, rfile, stack)[stack[l]]
      BY <2>1, OwnersAre
    <2>3. <<"level", l>> \in Owning(wopen, wfile, rfile, stack)[stack[l]]
      BY <2>2
    <2>4. /\ io.files[stack[l]].kind # "closed"
          /\ Owning(wopen, wfile, rfile, stack)[stack[l]] = {<<"level", l>>}
      BY <1>1, <2>1, <2>3, OwnedIsOpen
    <2>5. \A k \in 1 .. n : stack[k] = stack[l] => <<"level", k>> = <<"level", l>>
      BY <2>2, <2>4
    <2> QED  BY <2>4, <2>5
  <1>8. \A i \in 1 .. Len(hs) : hs[i] # NULL =>
          /\ io.files[hs[i]].kind # "closed"
          /\ \A j \in 1 .. Len(hs) : hs[j] = hs[i] => j = i
    <2> SUFFICES ASSUME NEW i \in 1 .. n
                 PROVE  /\ io.files[hs[i]].kind # "closed"
                        /\ \A j \in 1 .. n : hs[j] = hs[i] => j = i
      BY <1>6
    <2>1. \A j \in 1 .. n : hs[j] = stack[(n - j) + 1] /\ (n - j) + 1 \in 1 .. n
      BY <1>5, <1>6
    <2>2. \A j \in 1 .. n : (n - j) + 1 = (n - i) + 1 => j = i
      BY <1>3
    <2>3. \A j \in 1 .. n : hs[j] = hs[i] => (n - j) + 1 = (n - i) + 1
      BY <1>7, <2>1
    <2> QED  BY <1>7, <2>1, <2>2, <2>3
  <1>9. /\ Sound(io')
        /\ \A h \in Handles : io'.files[h] = IF \E i \in 1 .. Len(hs) : hs[i] = h THEN NoFile
                                             ELSE io.files[h]
    BY <1>1, <1>2, <1>6, <1>8, CloseAllSound
  <1>10. \A h \in Handles : io'.files[h] = IF \E l \in 1 .. Len(stack) : stack[l] = h THEN NoFile
                                           ELSE io.files[h]
    <2> SUFFICES ASSUME NEW h \in Handles
                 PROVE  (\E i \in 1 .. n : hs[i] = h) <=> (\E l \in 1 .. n : stack[l] = h)
      BY <1>6, <1>9 DEF n
    <2>1. ASSUME NEW l \in 1 .. n PROVE (n - l) + 1 \in 1 .. n /\ hs[(n - l) + 1] = stack[l]
      <3>1. PICK i \in 1 .. n : i = (n - l) + 1
        BY <1>5
      <3>2. (n - i) + 1 = l
        BY <1>3, <3>1
      <3> QED  BY <1>6, <3>1, <3>2
    <2>2. ASSUME NEW i \in 1 .. n, hs[i] = h PROVE \E l \in 1 .. n : stack[l] = h
      BY <1>5, <1>6, <2>2
    <2>3. ASSUME NEW l \in 1 .. n, stack[l] = h PROVE \E i \in 1 .. n : hs[i] = h
      BY <2>1, <2>3
    <2> QED  BY <2>2, <2>3
  <1>11. Matched(io'.files, Owning(wopen, wfile, rfile, <<>>))
    <2>1. io.files \in [Handles -> Opened \cup {NoFile}]
      BY <1>1 DEF Sound, Library
    <2> QED  BY <1>1, <1>10, <2>1, LevelsClosed
  <1>12. TypeOK'
    <2>1. <<>> \in Seq(Handles) /\ Len(<<>>) <= MaxInput
      BY OpenCloseAssumption
    <2> QED  BY <1>1, <1>2, <1>9, <2>1 DEF TypeOK, Sound
  <1>13. \A i \in Writes : wopen'[i] => wfile'[i] \in Handles
    BY <1>2 DEF IInv, Agreed
  <1> QED  BY <1>2, <1>9, <1>11, <1>12, <1>13, Together

\* The \openout files that are open are closed; each stream has one of its
\* own.
LEMMA TerminateStep ==
    ASSUME IInv, CloseFilesAndTerminate
    PROVE  IInv'
  <1> DEFINE n == NumWrites
             hs == [i \in 1 .. n |-> IF wopen[i - 1] THEN wfile[i - 1] ELSE NULL]
  <1>1. /\ TypeOK /\ phase # "dead" /\ Sound(io)
        /\ Matched(io.files, Owning(wopen, wfile, rfile, stack))
        /\ \A j \in Writes : wopen[j] => wfile[j] \in Handles
    BY DEF IInv, CloseFilesAndTerminate, Agreed
  <1>2. /\ io' = CloseAll(io, hs) /\ phase' = "dead"
        /\ UNCHANGED <<setup, wopen, wfile, rfile, stack>>
    BY DEF CloseFilesAndTerminate
  <1>3. n \in Nat /\ \A i \in 1 .. n : i - 1 \in Writes
    BY OpenCloseAssumption DEF Writes
  <1>4. /\ hs \in Seq(Handles \cup {NULL}) /\ Len(hs) = n
        /\ \A i \in 1 .. n : hs[i] = IF wopen[i - 1] THEN wfile[i - 1] ELSE NULL
    <2>1. \A i \in 1 .. n : (IF wopen[i - 1] THEN wfile[i - 1] ELSE NULL) \in Handles \cup {NULL}
      BY <1>1, <1>3
    <2> HIDE DEF n
    <2> QED  BY <1>3, <2>1
  <1> HIDE DEF hs, n
  <1>5. ASSUME NEW i \in 1 .. n, hs[i] # NULL
        PROVE  /\ io.files[hs[i]].kind # "closed"
               /\ \A k \in 1 .. n : hs[k] = hs[i] => k = i
    <2>1. hs[i] \in Handles
      BY <1>1, <1>3, <1>4, <1>5
    <2>2. ASSUME NEW k \in 1 .. n, hs[k] = hs[i]
          PROVE  <<"out", k - 1>> \in Owning(wopen, wfile, rfile, stack)[hs[i]]
      <3>1. wopen[k - 1] /\ wfile[k - 1] = hs[i] /\ k - 1 \in Writes
        BY <1>3, <1>4, <1>5, <2>2
      <3> QED  BY <2>1, <3>1, OwnersAre
    <2>3. <<"out", i - 1>> \in Owning(wopen, wfile, rfile, stack)[hs[i]]
      BY <2>2
    <2>4. /\ io.files[hs[i]].kind # "closed"
          /\ Owning(wopen, wfile, rfile, stack)[hs[i]] = {<<"out", i - 1>>}
      BY <1>1, <2>1, <2>3, OwnedIsOpen
    <2>5. \A k \in 1 .. n : hs[k] = hs[i] => k - 1 = i - 1
      BY <2>2, <2>4
    <2>6. \A k \in 1 .. n : k - 1 = i - 1 => k = i
      BY <1>3
    <2> QED  BY <2>4, <2>5, <2>6
  <1>6. /\ Sound(io')
        /\ \A h \in Handles : io'.files[h] = IF \E i \in 1 .. Len(hs) : hs[i] = h THEN NoFile
                                             ELSE io.files[h]
    BY <1>1, <1>2, <1>4, <1>5, CloseAllSound
  <1>7. ASSUME NEW j \in Writes, wopen'[j]
        PROVE  io'.files[wfile'[j]].kind = "closed" /\ wfile'[j] \in Handles
    <2>1. j + 1 \in 1 .. n /\ j \in Int
      BY OpenCloseAssumption DEF Writes, n
    <2>2. PICK i \in 1 .. n : i = j + 1
      BY <2>1
    <2>3. hs[i] = wfile[j] /\ wfile[j] \in Handles
      <3>1. i - 1 = j
        BY <2>1, <2>2
      <3> QED  BY <1>1, <1>2, <1>4, <1>7, <3>1
    <2>4. io'.files[wfile[j]] = NoFile
      BY <1>4, <1>6, <2>3
    <2> QED  BY <1>2, <2>3, <2>4 DEF NoFile
  <1>8. TypeOK'
    BY <1>1, <1>2, <1>6 DEF TypeOK, Sound
  <1> QED  BY <1>2, <1>6, <1>7, <1>8, Together

\* The start: nothing is open.
LEMMA StartIsSound == Init => IInv
  <1> SUFFICES ASSUME Init PROVE IInv
    OBVIOUS
  <1>1. PICK stale \in {{}, {"tree"}, {"here", "out", "tree"}} :
          io = [files |-> [h \in Handles |-> NoFile], count |-> 0,
                pipes |-> [i \in 1 .. NumPipes |-> NULL],
                disk |-> [p \in Places |-> [n \in Names |-> IF p \in stale THEN 1 ELSE 0]],
                written |-> [n \in Names |-> <<"here", 0>>],
                unawaited |-> {}, faults |-> {}]
    BY DEF Init
  <1>2. /\ wopen = [j \in Writes |-> FALSE] /\ wfile = [j \in Writes |-> NULL]
        /\ rfile = [k \in Reads |-> NULL] /\ stack = <<>> /\ phase = "run"
        /\ setup \in Setups
    BY DEF Init
  <1>3. 0 \in Versions /\ 1 \in Versions /\ "here" \in Places /\ 0 \in 0 .. MaxOpens
    BY OpenCloseAssumption DEF Versions, Places
  <1>4. /\ io.files = [h \in Handles |-> NoFile] /\ io.count = 0
        /\ io.pipes = [i \in 1 .. NumPipes |-> NULL]
        /\ io.written = [n \in Names |-> <<"here", 0>>]
        /\ io.unawaited = {} /\ io.faults = {}
    BY <1>1
  <1>5. io \in Library
    <2> DEFINE d == [p \in Places |-> [n \in Names |-> IF p \in stale THEN 1 ELSE 0]]
               w == [n \in Names |-> <<"here", 0>>]
    <2>1. d \in [Places -> [Names -> Versions]]
      BY <1>3
    <2>2. w \in [Names -> Places \X Versions]
      BY <1>3
    <2> HIDE DEF d, w
    <2>3. io = [files |-> [h \in Handles |-> NoFile], count |-> 0,
                pipes |-> [i \in 1 .. NumPipes |-> NULL], disk |-> d, written |-> w,
                unawaited |-> {}, faults |-> {}]
      BY <1>1 DEF d, w
    <2> QED  BY <1>3, <2>1, <2>2, <2>3 DEF Library
  <1>6. \A h \in Handles : io.files[h].kind = "closed"
    BY <1>4 DEF NoFile
  <1>7. Sound(io)
    <2>1. Table(io) /\ Recorded(io) /\ Placed(io) /\ \A h \in Handles : Back(io.files[h])
      BY <1>4, <1>6 DEF Table, Recorded, Placed, Back, Piped
    <2>2. Waited(io) /\ Kept(io)
      BY <1>4 DEF Waited, Kept
    <2> QED  BY <1>4, <1>5, <2>1, <2>2 DEF Sound
  <1>8. TypeOK
    <2>1. <<>> \in Seq(Handles) /\ Len(<<>>) <= MaxInput
      BY OpenCloseAssumption
    <2> QED  BY <1>2, <1>5, <2>1 DEF TypeOK
  <1>9. Agreed
    <2>1. ASSUME NEW h \in Handles, NEW o
          PROVE  o \notin Owning(wopen, wfile, rfile, stack)[h]
      <3>1. Len(stack) = 0 /\ 1 .. 0 = {}
        BY <1>2
      <3>2. /\ \A j \in Writes : ~ wopen[j]
            /\ \A k \in Reads : rfile[k] # h
        BY <1>2, OpenCloseAssumption
      <3> QED  BY <3>1, <3>2, OwnersAre
    <2>2. \A h \in Handles : Owning(wopen, wfile, rfile, stack)[h] = {}
      BY <2>1
    <2>3. Matched(io.files, Owning(wopen, wfile, rfile, stack))
      BY <1>6, <2>2 DEF Matched
    <2> QED  BY <1>2, <2>3 DEF Agreed
  <1> QED  BY <1>7, <1>8, <1>9 DEF IInv

\* No step breaks it.
LEMMA StepIsSound == IInv /\ [Next]_vars => IInv'
  <1> SUFFICES ASSUME IInv, [Next]_vars PROVE IInv'
    OBVIOUS
  <1>1. ASSUME NEW j \in Writes, CloseOut(j) PROVE IInv'
    BY <1>1, CloseOutStep
  <1>2. ASSUME NEW j \in Writes, NEW n \in Names \cup Commands, OpenOut(j, n) PROVE IInv'
    BY <1>2, OpenOutStep
  <1>3. ASSUME NEW k \in Reads, CloseIn(k) PROVE IInv'
    BY <1>3, CloseInStep
  <1>4. ASSUME NEW k \in Reads, NEW n \in Names \cup Commands, OpenIn(k, n) PROVE IInv'
    BY <1>4, OpenInStep
  <1>5. ASSUME NEW n \in Names \cup Commands, Input(n) PROVE IInv'
    BY <1>5, InputStep
  <1>6. CASE EndInput
    BY <1>6, EndInputStep
  <1>7. CASE FinalCleanup
    BY <1>7, FinalCleanupStep
  <1>8. CASE CloseFilesAndTerminate
    BY <1>8, TerminateStep
  <1>9. CASE UNCHANGED vars
    <2>1. TypeOK' /\ Sound(io)' /\ Agreed'
      <3>1. UNCHANGED <<setup, io, wopen, wfile, rfile, stack, phase>>
        BY <1>9 DEF vars
      <3>2. TypeOK'
        BY <3>1 DEF IInv, TypeOK
      <3>3. Sound(io)'
        BY <3>1 DEF IInv, Sound, Recorded, Back, Asked, Reread
      <3>4. Agreed'
        BY <3>1 DEF IInv, Agreed, IsOpen
      <3> QED  BY <3>2, <3>3, <3>4
    <2> QED  BY <2>1 DEF IInv
  <1> QED  BY <1>1, <1>2, <1>3, <1>4, <1>5, <1>6, <1>7, <1>8, <1>9 DEF Next

-----------------------------------------------------------------------------
(* The theorems *)

LEMMA AlwaysSound == Spec => []IInv
  BY StartIsSound, StepIsSound, PTL DEF Spec

\* The state of the library and of TeX's streams and levels is always what
\* openclose.c, texmfmp.c and tex.web declare it to be.
THEOREM OpenCloseTypeCorrect == Spec => []TypeOK
  <1>1. IInv => TypeOK
    BY DEF IInv
  <1> QED  BY <1>1, AlwaysSound, PTL

\* TeX and the C library agree on what is open, for \openout, \openin and
\* \input together, and at the end no \openout file is left open.
THEOREM StreamsOwnTheirFiles == Spec => []Owned
  <1>1. IInv => Owned
    <2> SUFFICES ASSUME IInv PROVE Owned
      OBVIOUS
    <2>1. Agreed /\ TypeOK
      BY DEF IInv
    <2>2. ASSUME NEW h \in Handles PROVE Owners(h) = Owning(wopen, wfile, rfile, stack)[h]
      <3>1. DOMAIN stack = 1 .. Len(stack)
        BY <2>1 DEF TypeOK
      <3>2. DOMAIN Held = {j \in Writes : wopen[j]}
            /\ \A j \in DOMAIN Held : Held[j] = wfile[j]
        BY DEF Held
      <3>3. {j \in DOMAIN Held : Held[j] = h} = {j \in Writes : wopen[j] /\ wfile[j] = h}
        BY <3>2
      <3> QED  BY <3>1, <3>3 DEF Owners, Owning, Own
    <2>3. ASSUME phase # "dead", NEW h \in Handles
          PROVE  Cardinality(Owners(h)) = IF IsOpen(h) THEN 1 ELSE 0
      <3>1. IF io.files[h].kind = "closed" THEN Owners(h) = {} ELSE \E o : Owners(h) = {o}
        BY <2>1, <2>2, <2>3 DEF Agreed, Matched
      <3>2. Cardinality({}) = 0 /\ \A o : Cardinality({o}) = 1
        BY FS_EmptySet, FS_Singleton
      <3> QED  BY <3>1, <3>2 DEF IsOpen
    <2>4. phase = "dead" => \A j \in DOMAIN Held : ~ IsOpen(Held[j])
      BY <2>1 DEF Held, Agreed
    <2> QED  BY <2>3, <2>4 DEF Owned
  <1> QED  BY <1>1, AlwaysSound, PTL

\* close_file_or_pipe is never called with a FILE * that is closed already,
\* and takes no plain file for a pipe.
THEOREM NothingClosedTwice == Spec => []ClosedOnce
  <1>1. IInv => ClosedOnce
    BY DEF IInv, Sound, ClosedOnce
  <1> QED  BY <1>1, AlwaysSound, PTL

\* The table of pipes has no hole: a command that is not waited for was
\* started when NumPipes were running.
THEOREM CommandsAwaited == Spec => []PipesAwaited
  <1>1. IInv => PipesAwaited
    BY DEF IInv, Sound, Waited, PipesAwaited
  <1> QED  BY <1>1, AlwaysSound, PTL

\* What the run wrote and closed under a name is what it reads back under it,
\* past files of the same name, and of the name with .tex, elsewhere on the
\* path: for the names and places that ReadBack speaks of.
THEOREM OutputReadBack == Spec => []ReadBack
  <1>1. IInv => ReadBack
    BY DEF IInv, Sound, Back, ReadBack
  <1> QED  BY <1>1, AlwaysSound, PTL
=============================================================================
