---------------------------- MODULE DirListProofs ----------------------------
(***************************************************************************)
(* Proofs about DirList, for every set of directories, names and queries   *)
(* and lists of any length: the list keeps its nodes, those that floated   *)
(* in front, one-file searches are repeatable and searches for all files   *)
(* complete.  The lists s below are lists of nodes; several may hold the   *)
(* same directory.                                                         *)
(*                                                                         *)
(* The argument for repeatability: floating never changes which elements   *)
(* precede a directory that has already moved (FloatKeepsOrder), so an     *)
(* answer, once given, stays the answer the list determines (Answer)       *)
(* except for the files that changed since.                                *)
(***************************************************************************)
EXTENDS DirList, TLAPS

-----------------------------------------------------------------------------
(* The inductive invariant. *)

\* a precedes b in the list s.
Before(s, a, b) == \E p, r \in DOMAIN s : p < r /\ s[p] = a /\ s[r] = b

\* The file n is absent from the directory of e, or it changed, which excuses it.
Out(e, n, excused) == Dir(e) \notin disk[n] \/ <<Dir(e), n>> \in excused

\* r is what a one-file search for x yields over the list as it is now, but
\* for the excused files.
Answer(x, r, excused) ==
  \/ /\ r = Null
     /\ \A d \in ToSet(list), n \in ToSet(x) : Out(d, n, excused)
  \/ \E d \in moved, k \in DOMAIN x :
       /\ r = <<Dir(d), x[k]>>
       /\ Dir(d) \in disk[x[k]] \/ <<Dir(d), x[k]>> \in excused
       /\ \A e \in Elts, n \in ToSet(x) : Before(list, e, d) => Out(e, n, excused)
       /\ \A j \in DOMAIN x : j < k => Out(d, x[j], excused)

\* Every remembered answer is still one.
Remembered ==
  \A x \in Queries : found[x] # Never => Answer(x, found[x], touched[x])

\* A one-file search in progress has found nothing where it has looked.
Scan ==
  pc = "search" /\ ~all =>
    /\ ret = <<>>
    /\ elt # Null =>
         /\ elt \in ToSet(list)
         /\ nxt = Next_elt(list, elt)
         /\ \A e \in Elts, n \in ToSet(q) : Before(list, e, elt) => Out(e, n, fresh)
         /\ \A j \in DOMAIN q : j < i => Out(elt, q[j], fresh)
    /\ elt = Null => \A d \in ToSet(list), n \in ToSet(q) : Out(d, n, fresh)

\* The elements under the loop's pointers are elements of the list.
Pointers == /\ elt \in ToSet(list) \cup {Null}
            /\ nxt \in ToSet(list) \cup {Null}

Running ==
  /\ pc \in {"search", "done"} =>
       /\ q \in Queries
       /\ found[q] # Never => fresh \subseteq touched[q]
  /\ pc \notin {"search", "done"} => fresh = {} /\ elt = Null /\ nxt = Null
  /\ pc = "build" => /\ moved = {}
                     /\ \A x \in Queries : found[x] = Never
                     /\ \A p \in DOMAIN list : list[p][2] = p
  /\ pc = "done" /\ ~all => Answer(q, Result, fresh)

IInv == TypeOK /\ MovedFirst /\ Pointers /\ Running /\ Remembered /\ Scan

-----------------------------------------------------------------------------
(* Lists. *)

\* The position of an element of an injective list is the one At chooses.
LEMMA AtPosition ==
  ASSUME NEW s \in Seq(Elts), IsInjective(s), NEW p \in DOMAIN s
  PROVE  At(s, s[p]) = p
  BY DEF At, IsInjective

LEMMA NextPosition ==
  ASSUME NEW s \in Seq(Elts), IsInjective(s), NEW d \in ToSet(s)
  PROVE  /\ Next_elt(s, d) \in ToSet(s) \cup {Null}
         /\ Next_elt(s, d) # Null =>
              \A e \in Elts : Before(s, e, Next_elt(s, d)) => e = d \/ Before(s, e, d)
         /\ Next_elt(s, d) = Null =>
              \A e \in ToSet(s) : e = d \/ Before(s, e, d)
<1>1. PICK p \in DOMAIN s : s[p] = d
  BY DEF ToSet
<1>2. At(s, d) = p /\ p \in 1..Len(s)
  BY <1>1, AtPosition
<1>3. CASE p = Len(s)
  <2>1. Next_elt(s, d) = Null
    BY <1>2, <1>3 DEF Next_elt
  <2>2. ASSUME NEW e \in ToSet(s), e # d
        PROVE  Before(s, e, d)
    <3>1. PICK r \in DOMAIN s : s[r] = e
      BY DEF ToSet
    <3> QED
      BY <3>1, <2>2, <1>1, <1>2, <1>3 DEF Before
  <2> QED
    BY <2>1, <2>2
<1>4. CASE p # Len(s)
  <2>1. /\ p + 1 \in DOMAIN s
        /\ Next_elt(s, d) = s[p + 1]
        /\ s[p + 1] \in Elts
    BY <1>2, <1>4 DEF Next_elt
  <2>2. s[p + 1] \in ToSet(s) /\ s[p + 1] # Null
    BY <2>1, SentinelAssumption DEF ToSet
  <2>3. ASSUME NEW e \in Elts, Before(s, e, s[p + 1]), e # d
        PROVE  Before(s, e, d)
    <3>1. PICK a, b \in DOMAIN s : a < b /\ s[a] = e /\ s[b] = s[p + 1]
      BY <2>3 DEF Before
    <3>2. b = p + 1
      BY <3>1, <2>1 DEF IsInjective
    <3>3. a < p
      BY <3>1, <3>2, <1>1, <1>2, <2>3
    <3> QED
      BY <3>1, <3>3, <1>1 DEF Before
  <2> QED
    BY <2>1, <2>2, <2>3
<1> QED
  BY <1>3, <1>4

\* Floating keeps the elements, puts the mover behind the moved ones, and
\* puts nothing new in front of an element that has moved.
LEMMA FloatKeepsOrder ==
  ASSUME NEW s \in Seq(Elts), IsInjective(s),
         NEW mv, mv \subseteq ToSet(s),
         MovedPrefix(s, mv),
         NEW m \in ToSet(s)
  PROVE  LET t == Float(s, mv, m)
         IN  /\ t \in Seq(Elts)
             /\ IsInjective(t)
             /\ ToSet(t) = ToSet(s)
             /\ MovedPrefix(t, mv \cup {m})
             /\ \A d \in mv \cup {m} : \A e : Before(t, e, d) => Before(s, e, d)
<1> DEFINE t == Float(s, mv, m)
<1>1. CASE m \in mv
  <2>1. t = s /\ mv \cup {m} = mv
    BY <1>1 DEF Float
  <2> QED
    BY <2>1
<1>2. CASE m \notin mv
  <2>1. PICK c \in 1..Len(s) : s[c] = m
    BY DEF ToSet
  <2>2. At(s, m) = c
    BY <2>1, AtPosition
  <2> DEFINE u == FirstUnmoved(s, mv)
             First(p) == s[p] \notin mv /\ \A r \in 1..(p - 1) : s[r] \in mv
  <2>3. \E p \in DOMAIN s : First(p)
    <3>1. PICK k \in 0..Len(s) : \A p \in DOMAIN s : s[p] \in mv <=> p <= k
      BY DEF MovedPrefix
    <3>2. k + 1 \in 1..Len(s) /\ First(k + 1)
      BY <3>1, <2>1, <1>2
    <3> QED
      BY <3>2
  <2>4. /\ u \in 1..Len(s)
        /\ s[u] \notin mv
        /\ \A r \in 1..(u - 1) : s[r] \in mv
    BY <2>3 DEF FirstUnmoved
  <2>5. u <= c
    BY <2>4, <2>1, <1>2
  <2>6. \A r \in u..Len(s) : s[r] \notin mv
    BY <2>4 DEF MovedPrefix
  <2>7. t = [p \in 1..Len(s) |-> IF p < u \/ c < p THEN s[p]
                                 ELSE IF p = u THEN m ELSE s[p - 1]]
    BY <1>2, <2>2 DEF Float
  <2> DEFINE src(p) == IF p < u \/ c < p THEN p ELSE IF p = u THEN c ELSE p - 1
             dst(p) == IF p < u \/ c < p THEN p ELSE IF p = c THEN u ELSE p + 1
  <2>8. \A p \in 1..Len(s) : /\ src(p) \in 1..Len(s)
                             /\ dst(p) \in 1..Len(s)
                             /\ dst(src(p)) = p
                             /\ src(dst(p)) = p
    BY <2>4, <2>5
  <2>9. /\ DOMAIN t = 1..Len(s)
        /\ \A p \in 1..Len(s) : t[p] = s[src(p)]
    BY <2>1, <2>7
  <2> HIDE DEF t, u
  <2>10. t \in Seq(Elts) /\ DOMAIN t = DOMAIN s
    <3>1. t \in [1..Len(s) -> Elts]
      BY <2>7, <2>8, <2>9
    <3> QED
      BY <3>1
  <2>11. IsInjective(t)
    BY <2>8, <2>9 DEF IsInjective
  <2>12. ToSet(t) = ToSet(s)
    <3>1. \A p \in 1..Len(s) : s[p] = t[dst(p)]
      BY <2>8, <2>9
    <3>2. ToSet(t) \subseteq ToSet(s)
      BY <2>8, <2>9 DEF ToSet
    <3>3. ToSet(s) \subseteq ToSet(t)
      <4> SUFFICES ASSUME NEW p \in 1..Len(s)
                   PROVE  s[p] \in ToSet(t)
        BY DEF ToSet
      <4>1. dst(p) \in DOMAIN t
        BY <2>8, <2>9
      <4> QED
        BY <3>1, <4>1 DEF ToSet
    <3> QED
      BY <3>2, <3>3
  <2>13. \A p \in 1..Len(s) : t[p] \in mv \cup {m} <=> p <= u
    <3> SUFFICES ASSUME NEW p \in 1..Len(s)
                 PROVE  t[p] \in mv \cup {m} <=> p <= u
      OBVIOUS
    <3>1. CASE p < u
      <4>1. t[p] = s[p]
        BY <3>1, <2>9
      <4>2. s[p] \in mv
        BY <3>1, <2>4
      <4> QED
        BY <3>1, <4>1, <4>2, <2>4
    <3>2. CASE p = u
      <4>1. t[p] = m
        BY <3>2, <2>5, <2>4, <2>9, <2>1
      <4> QED
        BY <3>2, <4>1, <2>4
    <3>3. CASE p > u
      <4>1. src(p) \in u..Len(s) /\ src(p) # c
        BY <3>3, <2>4, <2>5, <2>8
      <4>2. s[src(p)] # m
        BY <4>1, <2>8, <2>1 DEF IsInjective
      <4> QED
        BY <4>1, <4>2, <2>6, <2>9, <3>3, <2>4
    <3> QED
      BY <3>1, <3>2, <3>3, <2>4
  <2>14. MovedPrefix(t, mv \cup {m})
    <3>1. Len(t) = Len(s) /\ u \in 0..Len(t)
      BY <2>4, <2>9, <2>10
    <3> QED
      BY <3>1, <2>9, <2>13 DEF MovedPrefix
  <2>15. \A d \in mv \cup {m} : \A e : Before(t, e, d) => Before(s, e, d)
    <3> SUFFICES ASSUME NEW d \in mv \cup {m}, NEW e, Before(t, e, d)
                 PROVE  Before(s, e, d)
      OBVIOUS
    <3>1. PICK p, r \in DOMAIN t : p < r /\ t[p] = e /\ t[r] = d
      BY DEF Before
    <3>2. p < r /\ r <= u /\ p \in 1..Len(s) /\ r \in 1..Len(s)
      BY <3>1, <2>9, <2>13
    <3>3. s[p] = e
      BY <3>1, <3>2, <2>9, <2>4
    <3>4. s[src(r)] = d /\ src(r) \in 1..Len(s) /\ p < src(r)
      BY <3>1, <3>2, <2>9, <2>4, <2>5, <2>8
    <3> QED
      BY <3>2, <3>3, <3>4 DEF Before
  <2> QED
    BY <2>10, <2>11, <2>12, <2>14, <2>15 DEF t
<1> QED
  BY <1>1, <1>2
-----------------------------------------------------------------------------
(* Answers. *)

\* Of two answers for the same query that differ, one names an excused file.
LEMMA AnswersAgree ==
  ASSUME NEW x \in Seq(Names), IsInjective(list), list \in Seq(Elts),
         moved \subseteq ToSet(list),
         NEW ex, NEW r1, NEW r2, Answer(x, r1, ex), Answer(x, r2, ex), r1 # r2
  PROVE  {r1, r2} \cap ex # {}
<1> DEFINE Found(r, d, k) ==
      /\ r = <<Dir(d), x[k]>>
      /\ Dir(d) \in disk[x[k]] \/ <<Dir(d), x[k]>> \in ex
      /\ \A e \in Elts, n \in ToSet(x) : Before(list, e, d) => Out(e, n, ex)
      /\ \A j \in DOMAIN x : j < k => Out(d, x[j], ex)
<1>1. ASSUME NEW r, NEW d \in moved, NEW k \in DOMAIN x, Found(r, d, k),
             \A e \in ToSet(list), n \in ToSet(x) : Out(e, n, ex)
      PROVE  r \in ex
  BY <1>1 DEF Out, ToSet
<1>2. ASSUME NEW a, NEW b, NEW d \in moved, NEW e \in moved,
             NEW k \in DOMAIN x, NEW j \in DOMAIN x,
             Found(a, d, k), Found(b, e, j), Before(list, d, e)
      PROVE  a \in ex
  <2>1. d \in Elts /\ x[k] \in ToSet(x)
    BY DEF ToSet
  <2> QED
    BY <1>2, <2>1 DEF Out
<1>3. ASSUME NEW a, NEW b, NEW d \in moved, NEW k \in DOMAIN x, NEW j \in DOMAIN x,
             Found(a, d, k), Found(b, d, j), k < j
      PROVE  a \in ex
  BY <1>3 DEF Out
<1>4. ASSUME NEW d \in moved, NEW e \in moved, d # e
      PROVE  Before(list, d, e) \/ Before(list, e, d)
  <2>1. PICK p, r \in DOMAIN list : list[p] = d /\ list[r] = e
    BY DEF ToSet
  <2> QED
    BY <2>1, <1>4 DEF Before
<1>5. CASE \E d \in moved, k \in DOMAIN x, e \in moved, j \in DOMAIN x :
             Found(r1, d, k) /\ Found(r2, e, j)
  <2>1. PICK d \in moved, k \in DOMAIN x, e \in moved, j \in DOMAIN x :
          Found(r1, d, k) /\ Found(r2, e, j)
    BY <1>5
  <2>2. CASE d = e
    <3>1. k # j
      BY <2>1, <2>2
    <3>2. k < j \/ j < k
      BY <3>1
    <3> HIDE DEF Found
    <3> QED
      BY <3>2, <2>1, <2>2, <1>3
  <2>3. CASE d # e
    <3> HIDE DEF Found
    <3> QED
      BY <2>1, <2>3, <1>2, <1>4
  <2> QED
    BY <2>2, <2>3
<1>6. ASSUME NEW a, NEW b, a # b, a = Null, Answer(x, a, ex), Answer(x, b, ex)
      PROVE  b \in ex
  <2>1. \A d \in moved, k \in DOMAIN x : a # <<Dir(d), x[k]>>
    <3> SUFFICES ASSUME NEW d \in moved, NEW k \in DOMAIN x
                 PROVE  a # <<Dir(d), x[k]>>
      OBVIOUS
    <3>1. d \in Elts /\ x[k] \in Names
      BY DEF ToSet
    <3>2. Dir(d) \in Dirs
      BY <3>1 DEF Elts, Dir
    <3> QED
      BY <3>1, <3>2, <1>6, SentinelAssumption
  <2>2. \A e \in ToSet(list), n \in ToSet(x) : Out(e, n, ex)
    BY <1>6, <2>1 DEF Answer
  <2>3. \E d \in moved, k \in DOMAIN x : Found(b, d, k)
    BY <1>6 DEF Answer
  <2> HIDE DEF Found
  <2> QED
    BY <2>2, <2>3, <1>1
<1>7. CASE r1 = Null \/ r2 = Null
  BY <1>6, <1>7
<1> QED
  BY <1>5, <1>7 DEF Answer

\* An answer stays one when the list floats, and when more files are excused.
LEMMA AnswerFloats ==
  ASSUME NEW x, NEW r, NEW ex, Answer(x, r, ex),
         NEW m, moved' = moved \cup {m}, disk' = disk,
         ToSet(list') = ToSet(list),
         \A d \in moved \cup {m} : \A e : Before(list', e, d) => Before(list, e, d)
  PROVE  Answer(x, r, ex)'
<1>1. \A d, n : Out(d, n, ex)' <=> Out(d, n, ex)
  BY DEF Out
<1>2. CASE r = Null /\ \A d \in ToSet(list), n \in ToSet(x) : Out(d, n, ex)
  BY <1>1, <1>2 DEF Answer
<1>3. CASE \E d \in moved, k \in DOMAIN x :
             /\ r = <<Dir(d), x[k]>>
             /\ Dir(d) \in disk[x[k]] \/ <<Dir(d), x[k]>> \in ex
             /\ \A e \in Elts, n \in ToSet(x) : Before(list, e, d) => Out(e, n, ex)
             /\ \A j \in DOMAIN x : j < k => Out(d, x[j], ex)
  <2>1. PICK d \in moved, k \in DOMAIN x :
          /\ r = <<Dir(d), x[k]>>
          /\ Dir(d) \in disk[x[k]] \/ <<Dir(d), x[k]>> \in ex
          /\ \A e \in Elts, n \in ToSet(x) : Before(list, e, d) => Out(e, n, ex)
          /\ \A j \in DOMAIN x : j < k => Out(d, x[j], ex)
    BY <1>3
  <2>2. /\ d \in moved'
        /\ Dir(d) \in disk'[x[k]] \/ <<Dir(d), x[k]>> \in ex
        /\ \A e \in Elts, n \in ToSet(x) : Before(list', e, d) => Out(e, n, ex)'
        /\ \A j \in DOMAIN x : j < k => Out(d, x[j], ex)'
    BY <2>1, <1>1
  <2> QED
    BY <2>1, <2>2 DEF Answer
<1> QED
  BY <1>2, <1>3 DEF Answer

-----------------------------------------------------------------------------
(* The invariant holds initially and is kept by every action. *)

LEMMA InitIInv == Init => IInv
<1> SUFFICES ASSUME Init PROVE IInv
  OBVIOUS
<1>1. TypeOK
  <2>1. found \in [Queries -> Results \cup {Never}]
    BY DEF Init
  <2>2. touched \in [Queries -> SUBSET (Dirs \X Names)]
    BY DEF Init
  <2>3. list \in Seq(Elts) /\ ret \in Seq(Elts \X Names)
    BY DEF Init
  <2>4. i \in Nat \ {0} /\ moved \subseteq Elts /\ fresh \subseteq Dirs \X Names
    BY DEF Init
  <2>5. /\ disk \in [Names -> SUBSET Dirs] /\ pc \in {"build", "idle", "search", "done"}
        /\ q \in Queries \cup {<<>>} /\ all \in BOOLEAN
        /\ elt \in Elts \cup {Null} /\ nxt \in Elts \cup {Null}
    BY DEF Init
  <2> QED
    BY <2>1, <2>2, <2>3, <2>4, <2>5 DEF TypeOK
<1>2. MovedFirst
  BY DEF Init, MovedFirst, MovedPrefix, ToSet, IsInjective
<1>3. Pointers /\ Running /\ Remembered /\ Scan
  BY DEF Init, Pointers, Running, Remembered, Scan
<1> QED
  BY <1>1, <1>2, <1>3 DEF IInv

\* What an action that leaves the list and the disk alone need not reprove.
LEMMA AnswerFrame ==
  ASSUME NEW x, NEW r, NEW ex, Answer(x, r, ex), UNCHANGED <<list, moved, disk>>
  PROVE  Answer(x, r, ex)'
  BY DEF Answer, Out

LEMMA AnswerExcuses ==
  ASSUME NEW x, NEW r, NEW ex, NEW more, ex \subseteq more, Answer(x, r, ex)
  PROVE  Answer(x, r, more)
<1>1. \A d, n : Out(d, n, ex) => Out(d, n, more)
  BY DEF Out
<1> QED
  BY <1>1 DEF Answer

LEMMA AddIInv == ASSUME IInv, NEW d \in Dirs, Add(d) PROVE IInv'
<1> USE DEF IInv, Add, search, history
<1>0. list \in Seq(Elts) /\ <<d, Len(list) + 1>> \in Elts
  BY DEF TypeOK, Elts
<1>1. TypeOK'
  BY <1>0 DEF TypeOK
<1>2. MovedFirst'
  <2>1. /\ list \in Seq(Elts) /\ list' \in Seq(Elts) /\ moved = {}
        /\ \A p \in DOMAIN list' : list'[p][2] = p
    BY <1>0 DEF TypeOK, Running
  <2>2. IsInjective(list')
    BY <2>1 DEF IsInjective
  <2>3. MovedPrefix(list', moved')
    <3>1. moved' = {} /\ 0 \in 0..Len(list') /\ \A p \in DOMAIN list' : ~(p <= 0)
      BY <2>1
    <3> QED
      BY <3>1 DEF MovedPrefix
  <2> QED
    BY <2>1, <2>2, <2>3 DEF MovedFirst
<1>3. (Pointers /\ Running /\ Remembered /\ Scan)'
  BY DEF Pointers, Running, Remembered, Scan
<1> QED
  BY <1>1, <1>2, <1>3

LEMMA CachedIInv == ASSUME IInv, Cached PROVE IInv'
<1> USE DEF IInv, Cached, search, history
<1>1. (TypeOK /\ MovedFirst /\ Pointers)'
  BY DEF TypeOK, MovedFirst, Pointers
<1>2. (Running /\ Remembered /\ Scan)'
  BY DEF Running, Remembered, Scan
<1> QED
  BY <1>1, <1>2

LEMMA StartIInv ==
  ASSUME IInv, NEW names \in Queries, NEW search_all \in BOOLEAN,
         Start(names, search_all)
  PROVE  IInv'
<1> USE DEF IInv, Start, Visit
<1>0. list \in Seq(Elts) /\ IsInjective(list) /\ names \in Seq(Names)
  BY QueriesAssumption DEF TypeOK, MovedFirst
<1>1. \/ list = <<>> /\ Head_elt(list) = Null
      \/ /\ 1 \in DOMAIN list
         /\ Head_elt(list) = list[1] /\ Head_elt(list) \in ToSet(list)
         /\ Head_elt(list) # Null /\ Head_elt(list) \in Elts
         /\ \A e : ~Before(list, e, Head_elt(list))
  <2>1. CASE list = <<>>
    BY <2>1 DEF Head_elt
  <2>2. CASE list # <<>>
    <3>1. 1 \in DOMAIN list /\ Head_elt(list) = list[1] /\ list[1] \in Elts
      BY <1>0, <2>2 DEF Head_elt
    <3>2. list[1] \in ToSet(list) /\ list[1] # Null
      BY <3>1, SentinelAssumption DEF ToSet
    <3>3. \A e : ~Before(list, e, list[1])
      BY <1>0, <3>1 DEF Before, IsInjective
    <3> QED
      BY <3>1, <3>2, <3>3
  <2> QED
    BY <2>1, <2>2
<1>2. nxt' \in ToSet(list) \cup {Null}
  BY <1>0, <1>1, NextPosition
<1>3. ToSet(list) \subseteq Elts
  BY <1>0 DEF ToSet
<1>4. TypeOK'
  BY <1>1, <1>2, <1>3 DEF TypeOK
<1>5. MovedFirst' /\ Pointers'
  BY <1>1, <1>2 DEF MovedFirst, Pointers
<1>6. Running'
  BY DEF Running
<1>7. Remembered'
  BY AnswerFrame DEF Remembered
<1>8. Scan'
  <2>1. CASE list = <<>> /\ Head_elt(list) = Null
    BY <2>1 DEF Scan, ToSet
  <2>2. CASE Head_elt(list) # Null
    <3>1. \A e : ~Before(list', e, elt')
      BY <1>1, <2>2
    <3>2. \A j \in DOMAIN q' : ~(j < i')
      BY <1>0
    <3> QED
      BY <1>1, <2>2, <3>1, <3>2 DEF Scan
  <2> QED
    BY <1>1, <2>1, <2>2
<1> QED
  BY <1>4, <1>5, <1>6, <1>7, <1>8

LEMMA HitIInv == ASSUME IInv, Hit PROVE IInv'
<1> USE DEF IInv, Hit, history
<1>0. /\ list \in Seq(Elts) /\ IsInjective(list) /\ moved \subseteq ToSet(list)
      /\ MovedPrefix(list, moved) /\ elt \in ToSet(list)
      /\ q \in Queries /\ q \in Seq(Names) /\ i \in DOMAIN q
  <2>1. q \in Queries /\ q \in Seq(Names)
    BY QueriesAssumption DEF Running
  <2>2. i \in DOMAIN q
    <3>1. i \in Nat \ {0}
      BY DEF TypeOK
    <3> QED
      BY <2>1, <3>1
  <2> QED
    BY <2>1, <2>2 DEF TypeOK, MovedFirst, Pointers
<1>1. /\ list' \in Seq(Elts) /\ IsInjective(list') /\ ToSet(list') = ToSet(list)
      /\ MovedPrefix(list', moved')
      /\ \A d \in moved \cup {elt} : \A e : Before(list', e, d) => Before(list, e, d)
  BY <1>0, FloatKeepsOrder
<1>2. elt \in Elts /\ q[i] \in Names
  BY <1>0 DEF ToSet
<1>3. TypeOK'
  <2>1. ret' \in Seq(Elts \X Names) /\ moved' \subseteq Elts /\ i' \in Nat \ {0}
    BY <1>2 DEF TypeOK
  <2> QED
    BY <1>1, <2>1 DEF TypeOK
<1>4. MovedFirst' /\ Pointers'
  BY <1>0, <1>1 DEF MovedFirst, Pointers
<1>5. \A x, r, ex : Answer(x, r, ex) => Answer(x, r, ex)'
  BY <1>1, AnswerFloats
<1>6. Remembered'
  BY <1>5 DEF Remembered
<1>7. ASSUME ~all PROVE Answer(q, Result, fresh)'
  <2>1. /\ ret = <<>>
        /\ \A e \in Elts, n \in ToSet(q) : Before(list, e, elt) => Out(e, n, fresh)
        /\ \A j \in DOMAIN q : j < i => Out(elt, q[j], fresh)
    BY <1>7 DEF Scan
  <2>2. Result' = <<Dir(elt), q[i]>>
    BY <2>1 DEF Result
  <2>3. \A d, n : Out(d, n, fresh)' <=> Out(d, n, fresh)
    BY DEF Out
  <2>4. /\ elt \in moved' /\ Dir(elt) \in disk'[q[i]]
        /\ \A e \in Elts, n \in ToSet(q) :
              Before(list', e, elt) => Out(e, n, fresh)'
        /\ \A j \in DOMAIN q : j < i => Out(elt, q[j], fresh)'
    BY <1>1, <2>1, <2>3
  <2> QED
    BY <1>0, <2>2, <2>4 DEF Answer
<1>8. Running'
  BY <1>7 DEF Running
<1>9. Scan'
  BY DEF Scan
<1> QED
  BY <1>3, <1>4, <1>6, <1>8, <1>9

LEMMA MissIInv == ASSUME IInv, Miss PROVE IInv'
<1> USE DEF IInv, Miss, history
<1>1. TypeOK' /\ MovedFirst' /\ Pointers' /\ Running'
  BY DEF TypeOK, MovedFirst, Pointers, Running
<1>2. Remembered'
  BY AnswerFrame DEF Remembered
<1>3. Scan'
  <2>1. SUFFICES ASSUME ~all PROVE Scan'
    BY DEF Scan
  <2>2. \A d, n : Out(d, n, fresh)' <=> Out(d, n, fresh)
    BY DEF Out
  <2>3. q \in Seq(Names) /\ i \in Nat
    BY QueriesAssumption DEF Running, TypeOK
  <2>4. \A j \in DOMAIN q : j < i' => Out(elt, q[j], fresh)
    <3>1. Out(elt, q[i], fresh)
      BY DEF Out
    <3>2. \A j \in DOMAIN q : j < i + 1 => j < i \/ j = i
      BY <2>3
    <3> QED
      BY <3>1, <3>2, <2>1 DEF Scan
  <2> QED
    BY <2>1, <2>2, <2>4 DEF Scan
<1> QED
  BY <1>1, <1>2, <1>3

LEMMA NextDirIInv == ASSUME IInv, NextDir PROVE IInv'
<1> USE DEF IInv, NextDir, Visit, history
<1>0. /\ list \in Seq(Elts) /\ IsInjective(list) /\ elt \in ToSet(list)
      /\ nxt \in ToSet(list) \cup {Null} /\ q \in Seq(Names) /\ i \in Nat
  BY QueriesAssumption DEF TypeOK, MovedFirst, Pointers, Running
<1>1. nxt' \in ToSet(list) \cup {Null} /\ ToSet(list) \subseteq Elts
  BY <1>0, NextPosition DEF ToSet
<1>2. TypeOK' /\ MovedFirst' /\ Pointers' /\ Running'
  BY <1>0, <1>1 DEF TypeOK, MovedFirst, Pointers, Running
<1>3. Remembered'
  BY AnswerFrame DEF Remembered
<1>4. Scan'
  <2>1. SUFFICES ASSUME ~all PROVE Scan'
    BY DEF Scan
  <2>2. \A d, n : Out(d, n, fresh)' <=> Out(d, n, fresh)
    BY DEF Out
  <2>3. /\ ret = <<>> /\ nxt = Next_elt(list, elt)
        /\ \A e \in Elts, n \in ToSet(q) : Before(list, e, elt) => Out(e, n, fresh)
        /\ \A n \in ToSet(q) : Out(elt, n, fresh)
    <3>1. \A j \in DOMAIN q : j < i
      BY <1>0
    <3> QED
      BY <2>1, <3>1 DEF Scan, ToSet
  <2>4. CASE nxt = Null
    BY <2>1, <2>2, <2>3, <2>4, <1>0, <1>1, NextPosition DEF Scan
  <2>5. CASE nxt # Null
    <3>1. \A e \in Elts, n \in ToSet(q) : Before(list, e, nxt) => Out(e, n, fresh)
      BY <2>3, <2>5, <1>0, NextPosition
    <3>2. \A j \in DOMAIN q : ~(j < 1)
      BY <1>0
    <3> QED
      BY <2>1, <2>2, <2>3, <2>5, <3>1, <3>2, <1>0 DEF Scan
  <2> QED
    BY <2>4, <2>5
<1> QED
  BY <1>2, <1>3, <1>4

LEMMA EndOfListIInv == ASSUME IInv, EndOfList PROVE IInv'
<1> USE DEF IInv, EndOfList, search, history
<1>1. TypeOK' /\ MovedFirst' /\ Pointers' /\ Scan'
  BY DEF TypeOK, MovedFirst, Pointers, Scan
<1>2. Remembered'
  BY AnswerFrame DEF Remembered
<1>3. ASSUME ~all PROVE Answer(q, Result, fresh)'
  <2>1. Result = Null /\ \A d \in ToSet(list), n \in ToSet(q) : Out(d, n, fresh)
    BY <1>3 DEF Scan, Result
  <2>2. Answer(q, Result, fresh)
    BY <2>1 DEF Answer
  <2>3. Result' = Result
    BY DEF Result
  <2> QED
    BY <2>2, <2>3 DEF Answer, Out
<1>4. Running'
  BY <1>3 DEF Running
<1> QED
  BY <1>1, <1>2, <1>4

LEMMA ReturnIInv == ASSUME IInv, Return PROVE IInv'
<1> USE DEF IInv, Return
<1>0. q \in Queries /\ found \in [Queries -> Results \cup {Never}]
      /\ touched \in [Queries -> SUBSET (Dirs \X Names)] /\ fresh \subseteq Dirs \X Names
  BY DEF Running, TypeOK
<1>1. Result \in Results
  <2>1. CASE ret = <<>>
    BY <2>1 DEF Result, Results
  <2>2. CASE ret # <<>>
    <3>1. ret[1] \in Elts \X Names
      BY <2>2 DEF TypeOK
    <3>2. <<Dir(ret[1][1]), ret[1][2]>> \in Dirs \X Names
      BY <3>1 DEF Elts, Dir
    <3> QED
      BY <2>2, <3>2 DEF Result, Results
  <2> QED
    BY <2>1, <2>2
<1>2. TypeOK'
  <2>1. found' \in [Queries -> Results \cup {Never}]
    BY <1>0, <1>1
  <2>2. touched' \in [Queries -> SUBSET (Dirs \X Names)]
    BY <1>0
  <2>3. ret' \in Seq(Elts \X Names) /\ i' \in Nat \ {0} /\ fresh' \subseteq Dirs \X Names
    OBVIOUS
  <2> QED
    BY <2>1, <2>2, <2>3 DEF TypeOK
<1>3. MovedFirst' /\ Pointers' /\ Running' /\ Scan'
  BY DEF MovedFirst, Pointers, Running, Scan
<1>4. Remembered'
  <2> SUFFICES ASSUME NEW x \in Queries, found'[x] # Never
               PROVE  Answer(x, found[x], touched[x])'
    BY DEF Remembered
  <2>1. CASE all \/ x # q
    <3>1. found'[x] = found[x] /\ touched'[x] = touched[x]
      BY <2>1, <1>0
    <3>2. Answer(x, found[x], touched[x])
      BY <3>1 DEF Remembered
    <3> QED
      BY <3>1, <3>2 DEF Answer, Out
  <2>2. CASE ~all /\ x = q
    <3>1. found'[x] = Result /\ touched'[x] = fresh
      BY <2>2, <1>0
    <3>2. Answer(x, Result, fresh)
      BY <2>2 DEF Running
    <3> QED
      BY <3>1, <3>2 DEF Answer, Out
  <2> QED
    BY <2>1, <2>2
<1> QED
  BY <1>2, <1>3, <1>4

\* An answer survives a change of the disk, if the changed file is excused.
LEMMA AnswerChange ==
  ASSUME NEW x, NEW r, NEW ex, NEW ex2, Answer(x, r, ex),
         UNCHANGED <<list, moved>>, ex \subseteq ex2,
         \A d, n : <<d, n>> \notin ex2 => (d \in disk[n] <=> d \in disk'[n])
  PROVE  Answer(x, r, ex2)'
<1>1. \A d, n : Out(d, n, ex) => Out(d, n, ex2)'
  BY DEF Out
<1>2. \A d, n : d \in disk[n] \/ <<d, n>> \in ex => d \in disk'[n] \/ <<d, n>> \in ex2
  OBVIOUS
<1> QED
  BY <1>1, <1>2 DEF Answer

LEMMA ChangeIInv ==
  ASSUME IInv, NEW d \in Dirs, NEW n \in Names, Change(d, n) PROVE IInv'
<1> USE DEF IInv, Change, search
<1>0. /\ disk \in [Names -> SUBSET Dirs]
      /\ touched \in [Queries -> SUBSET (Dirs \X Names)]
      /\ fresh \subseteq Dirs \X Names
  BY DEF TypeOK
<1>1. TypeOK'
  <2>1. disk' \in [Names -> SUBSET Dirs]
    BY <1>0
  <2>2. touched' \in [Queries -> SUBSET (Dirs \X Names)]
    BY <1>0
  <2>3. fresh' \subseteq Dirs \X Names
    BY <1>0
  <2> QED
    BY <2>1, <2>2, <2>3 DEF TypeOK
<1>2. MovedFirst' /\ Pointers'
  BY DEF MovedFirst, Pointers
<1>3. ASSUME NEW m
      PROVE  \A e : <<e, m>> # <<d, n>> => (e \in disk[m] <=> e \in disk'[m])
  BY <1>0
<1>8. \A x, r, ex, ex2 :
        Answer(x, r, ex) /\ ex \subseteq ex2 /\ <<d, n>> \in ex2 => Answer(x, r, ex2)'
  <2> SUFFICES ASSUME NEW x, NEW r, NEW ex, NEW ex2, Answer(x, r, ex),
                      ex \subseteq ex2, <<d, n>> \in ex2
               PROVE  Answer(x, r, ex2)'
    OBVIOUS
  <2> QED
    BY <1>3, AnswerChange
<1>4. Remembered'
  <2> SUFFICES ASSUME NEW x \in Queries, found'[x] # Never
               PROVE  Answer(x, found[x], touched[x])'
    BY DEF Remembered
  <2>1. found'[x] = found[x] /\ touched'[x] = touched[x] \cup {<<d, n>>}
    OBVIOUS
  <2>2. Answer(x, found[x], touched[x])
    BY <2>1 DEF Remembered
  <2> QED
    BY <2>1, <2>2, <1>8
<1>5. pc # "idle" => /\ fresh \subseteq fresh' /\ <<d, n>> \in fresh'
  OBVIOUS
<1>6. Running'
  <2>1. ASSUME pc = "done", ~all PROVE Answer(q, Result, fresh)'
    <3>1. Answer(q, Result, fresh)
      BY <2>1 DEF Running
    <3>2. Result' = Result /\ q' = q
      BY DEF Result
    <3>3. fresh \subseteq fresh' /\ <<d, n>> \in fresh'
      BY <2>1, <1>5
    <3> QED
      BY <3>1, <3>2, <3>3, <1>8
  <2>2. ASSUME pc \in {"search", "done"}, found'[q] # Never
        PROVE  q \in Queries /\ fresh' \subseteq touched'[q]
    BY <2>2 DEF Running
  <2>3. pc' \notin {"search", "done"} => fresh' = {} /\ elt' = Null /\ nxt' = Null
    BY DEF TypeOK, Running
  <2>4. pc' # "build" /\ pc' = pc /\ q' = q /\ all' = all
    OBVIOUS
  <2>5. pc \in {"search", "done"} => q \in Queries
    BY DEF Running
  <2> QED
    BY <2>1, <2>2, <2>3, <2>4, <2>5 DEF Running
<1>7. Scan'
  <2> SUFFICES ASSUME pc = "search", ~all PROVE Scan'
    BY DEF Scan
  <2>1. \A e, m : Out(e, m, fresh) => Out(e, m, fresh)'
    BY <1>3, <1>5 DEF Out
  <2> QED
    BY <2>1 DEF Scan
<1> QED
  BY <1>1, <1>2, <1>4, <1>6, <1>7

-----------------------------------------------------------------------------
(* A search for all files. *)

\* The directories that have been visited: those before `next_elt', whether or
\* not `elt' has floated.
Passed(d) == d \in ToSet(list) /\ (nxt = Null \/ Before(list, d, nxt))

\* The file is in the result if and only if it is there, unless it changed.
Right(e, n) == <<Dir(e), n>> \notin fresh => (Dir(e) \in disk[n] <=> <<e, n>> \in ToSet(ret))

Visiting ==
  /\ elt \in ToSet(list) /\ Passed(elt)
  /\ elt \notin moved => nxt = Next_elt(list, elt)
  /\ \A d \in Elts, n \in Names : <<d, n>> \in ToSet(ret) =>
       Passed(d) /\ (d = elt => \E j \in DOMAIN q : j < i /\ n = q[j])
  /\ \A d \in Elts, n \in ToSet(q) : Passed(d) /\ d # elt => Right(d, n)
  /\ \A j \in DOMAIN q : j < i => Right(elt, q[j])

Collected ==
  pc \in {"search", "done"} /\ all =>
    /\ IsInjective(q) => IsInjective(ret)
    /\ pc = "search" /\ elt # Null => Visiting
    /\ pc = "done" \/ elt = Null => \A d \in ToSet(list), n \in ToSet(q) : Right(d, n)

\* What precedes an element, and the element, precede its successor.
LEMMA BeforeNext ==
  ASSUME NEW s \in Seq(Elts), IsInjective(s), NEW d \in ToSet(s), Next_elt(s, d) # Null
  PROVE  /\ Before(s, d, Next_elt(s, d)) /\ ~Before(s, Next_elt(s, d), Next_elt(s, d))
         /\ \A e : Before(s, e, d) => Before(s, e, Next_elt(s, d))
<1>1. PICK p \in DOMAIN s : s[p] = d
  BY DEF ToSet
<1>2. At(s, d) = p /\ p \in 1..Len(s) /\ p # Len(s)
  BY <1>1, AtPosition DEF Next_elt
<1>3. p + 1 \in DOMAIN s /\ Next_elt(s, d) = s[p + 1] /\ p < p + 1
  BY <1>2 DEF Next_elt
<1>4. Before(s, d, s[p + 1])
  BY <1>1, <1>3 DEF Before
<1>5. ~Before(s, s[p + 1], s[p + 1])
  BY <1>3 DEF Before, IsInjective
<1>6. ASSUME NEW e, Before(s, e, d) PROVE Before(s, e, s[p + 1])
  <2>1. PICK a, b \in DOMAIN s : a < b /\ s[a] = e /\ s[b] = d
    BY <1>6 DEF Before
  <2>2. b = p
    BY <2>1, <1>1 DEF IsInjective
  <2>3. a < p + 1
    BY <2>1, <2>2
  <2> QED
    BY <2>1, <2>3, <1>3 DEF Before
<1> QED
  BY <1>3, <1>4, <1>5, <1>6

\* An element that floats stays before its successor, and so does what was.
LEMMA FloatKeepsNext ==
  ASSUME NEW s \in Seq(Elts), IsInjective(s),
         NEW mv, mv \subseteq ToSet(s), MovedPrefix(s, mv),
         NEW m \in ToSet(s), m \notin mv, Next_elt(s, m) # Null
  PROVE  \A e : Before(Float(s, mv, m), e, Next_elt(s, m)) <=> Before(s, e, Next_elt(s, m))
<1> DEFINE t == Float(s, mv, m)
<1>1. PICK c \in DOMAIN s : s[c] = m
  BY DEF ToSet
<1>2. At(s, m) = c /\ c \in 1..Len(s) /\ c # Len(s)
  BY <1>1, AtPosition DEF Next_elt
<1>3. c + 1 \in 1..Len(s) /\ Next_elt(s, m) = s[c + 1]
  BY <1>2 DEF Next_elt
<1> DEFINE u == FirstUnmoved(s, mv)
           First(p) == s[p] \notin mv /\ \A r \in 1..(p - 1) : s[r] \in mv
<1>4. \E p \in DOMAIN s : First(p)
  <2>1. PICK k \in 0..Len(s) : \A p \in DOMAIN s : s[p] \in mv <=> p <= k
    BY DEF MovedPrefix
  <2>2. k + 1 \in 1..Len(s) /\ First(k + 1)
    BY <2>1, <1>1
  <2> QED
    BY <2>2
<1>5. u \in 1..Len(s) /\ \A r \in 1..(u - 1) : s[r] \in mv
  BY <1>4 DEF FirstUnmoved
<1>6. u <= c
  BY <1>5, <1>1
<1>7. t = [p \in 1..Len(s) |-> IF p < u \/ c < p THEN s[p]
                               ELSE IF p = u THEN m ELSE s[p - 1]]
  BY <1>2 DEF Float
<1> HIDE DEF t, u
<1> DEFINE src(p) == IF p < u \/ c < p THEN p ELSE IF p = u THEN c ELSE p - 1
           dst(p) == IF p < u \/ c < p THEN p ELSE IF p = c THEN u ELSE p + 1
<1>8. \A p \in 1..c : src(p) \in 1..c /\ dst(p) \in 1..c /\ src(dst(p)) = p
  BY <1>2, <1>5, <1>6
<1>9. DOMAIN t = 1..Len(s) /\ \A p \in 1..Len(s) : t[p] = s[src(p)]
  BY <1>1, <1>7
<1>10. t[c + 1] = s[c + 1] /\ \A p \in 1..Len(s) : t[p] = s[c + 1] => p = c + 1
  <2>1. t[c + 1] = s[c + 1]
    BY <1>3, <1>7, <1>2
  <2>2. ASSUME NEW p \in 1..Len(s), p # c + 1, t[p] = s[c + 1] PROVE FALSE
    <3>1. src(p) \in 1..Len(s) /\ src(p) # c + 1
      BY <1>2, <1>5, <1>6, <2>2
    <3>2. s[src(p)] = s[c + 1]
      BY <1>9, <2>2
    <3> QED
      BY <3>1, <3>2, <1>3 DEF IsInjective
  <2> QED
    BY <2>1, <2>2
<1>11. \A p \in 1..Len(s) : s[p] = s[c + 1] => p = c + 1
  BY <1>3 DEF IsInjective
<1> HIDE DEF src, dst
<1>12. ASSUME NEW e, Before(t, e, s[c + 1]) PROVE Before(s, e, s[c + 1])
  <2>1. PICK a, b \in 1..Len(s) : a < b /\ t[a] = e /\ t[b] = s[c + 1]
    BY <1>9, <1>12 DEF Before
  <2>2. b = c + 1 /\ a \in 1..c
    BY <2>1, <1>2, <1>10
  <2>3. src(a) \in 1..c /\ s[src(a)] = e
    BY <2>1, <2>2, <1>8, <1>9
  <2>4. src(a) < c + 1 /\ src(a) \in DOMAIN s /\ c + 1 \in DOMAIN s
    BY <2>3, <1>2, <1>3
  <2> QED
    BY <2>3, <2>4 DEF Before
<1>13. ASSUME NEW e, Before(s, e, s[c + 1]) PROVE Before(t, e, s[c + 1])
  <2>1. PICK a, b \in 1..Len(s) : a < b /\ s[a] = e /\ s[b] = s[c + 1]
    BY <1>13 DEF Before
  <2>2. b = c + 1 /\ a \in 1..c
    BY <2>1, <1>2, <1>11
  <2>3. dst(a) \in 1..c /\ t[dst(a)] = e
    <3>1. dst(a) \in 1..c /\ src(dst(a)) = a
      BY <2>2, <1>8
    <3>2. dst(a) \in 1..Len(s)
      BY <3>1, <1>2
    <3>3. t[dst(a)] = s[src(dst(a))]
      BY <3>2, <1>9
    <3> QED
      BY <2>1, <3>1, <3>3
  <2>4. dst(a) < c + 1 /\ dst(a) \in DOMAIN t /\ c + 1 \in DOMAIN t
    BY <2>3, <1>2, <1>3, <1>9
  <2> QED
    BY <2>3, <2>4, <1>10 DEF Before
<1> QED
  BY <1>3, <1>12, <1>13 DEF t

\* What a step that touches none of it need not reprove.
LEMMA CollectedFrame ==
  ASSUME Collected, UNCHANGED <<list, moved, disk, pc, q, all, elt, nxt, i, ret, fresh>>
  PROVE  Collected'
BY DEF Collected, Visiting, Passed, Right

\* The search for all files begins.
LEMMA StartCollects ==
  ASSUME IInv, NEW names \in Queries, NEW search_all \in BOOLEAN, Start(names, search_all)
  PROVE  Collected'
<1>0. list \in Seq(Elts) /\ IsInjective(list) /\ names \in Seq(Names)
  BY QueriesAssumption DEF IInv, TypeOK, MovedFirst
<1>1. ret' = <<>> /\ ToSet(ret') = {} /\ IsInjective(ret')
  BY DEF Start, ToSet, IsInjective
<1>2. q' = names /\ list' = list /\ i' = 1 /\ pc' = "search" /\ elt' = Head_elt(list)
      /\ nxt' = (IF elt' = Null THEN Null ELSE Next_elt(list, elt')) /\ moved' = moved
  BY DEF Start, Visit
<1>3. CASE list = <<>>
  <2>1. elt' = Null /\ ToSet(list') = {}
    BY <1>2, <1>3 DEF Head_elt, ToSet
  <2> QED
    BY <1>1, <1>2, <2>1 DEF Collected
<1>4. CASE list # <<>>
  <2>1. 1 \in DOMAIN list /\ elt' = list[1] /\ list[1] \in Elts
    BY <1>0, <1>2, <1>4 DEF Head_elt
  <2>2. elt' \in ToSet(list) /\ elt' # Null
    BY <2>1, SentinelAssumption DEF ToSet
  <2>3. \A e : ~Before(list, e, elt')
    BY <1>0, <2>1 DEF Before, IsInjective
  <2>4. nxt' = Next_elt(list, elt')
    BY <1>2, <2>2
  <2>5. \A e \in Elts : Passed(e)' => e = elt'
    <3> SUFFICES ASSUME NEW e \in Elts, Passed(e)' PROVE e = elt'
      OBVIOUS
    <3>1. e \in ToSet(list) /\ (nxt' = Null \/ Before(list, e, nxt'))
      BY <1>2 DEF Passed
    <3>2. e = elt' \/ Before(list, e, elt')
      BY <1>0, <2>2, <2>4, <3>1, NextPosition
    <3> QED
      BY <2>3, <3>2
  <2>6. Passed(elt)'
    <3>1. nxt' = Null \/ Before(list, elt', nxt')
      BY <1>0, <2>2, <2>4, BeforeNext
    <3> QED
      BY <1>2, <2>2, <3>1 DEF Passed
  <2>7. \A j \in DOMAIN q' : ~ (j < i')
    BY <1>0, <1>2
  <2>8. Visiting'
    BY <1>1, <1>2, <2>2, <2>4, <2>5, <2>6, <2>7 DEF Visiting
  <2> QED
    BY <1>1, <1>2, <2>2, <2>8 DEF Collected
<1> QED
  BY <1>3, <1>4

\* A hit joins the result, and floating loses no place.
LEMMA HitCollects ==
  ASSUME IInv, Collected, Hit PROVE Collected'
<1> SUFFICES ASSUME all PROVE Collected'
  BY DEF Hit, Collected
<1>0. /\ list \in Seq(Elts) /\ IsInjective(list) /\ moved \subseteq ToSet(list)
      /\ MovedPrefix(list, moved) /\ elt \in ToSet(list)
      /\ q \in Seq(Names) /\ i \in DOMAIN q /\ i \in Nat /\ ret \in Seq(Elts \X Names)
  <2>1. q \in Seq(Names)
    BY QueriesAssumption DEF IInv, Running, Hit
  <2>2. i \in DOMAIN q /\ i \in Nat
    BY <2>1 DEF IInv, TypeOK, Hit
  <2> QED
    BY <2>1, <2>2 DEF IInv, TypeOK, MovedFirst, Pointers, Hit
<1>1. Visiting
  BY DEF Collected, Hit
<1>2. /\ ret' = Append(ret, <<elt, q[i]>>) /\ list' = Float(list, moved, elt)
      /\ moved' = moved \cup {elt} /\ pc' = "search" /\ i' = i + 1
      /\ UNCHANGED <<disk, q, all, elt, nxt, fresh>> /\ elt # Null /\ Dir(elt) \in disk[q[i]]
  BY DEF Hit, history
<1>3. elt \in Elts /\ q[i] \in Names /\ q[i] \in ToSet(q)
  BY <1>0 DEF ToSet
<1>4. ToSet(list') = ToSet(list)
  BY <1>0, <1>2, FloatKeepsOrder
<1>5. \A d : Passed(d)' <=> Passed(d)
  <2>1. CASE elt \in moved
    <3>1. list' = list
      BY <1>2, <2>1 DEF Float
    <3> QED
      BY <1>2, <3>1 DEF Passed
  <2>2. CASE elt \notin moved /\ nxt # Null
    <3>1. nxt = Next_elt(list, elt)
      BY <1>1, <2>2 DEF Visiting
    <3>2. \A d : Before(list', d, nxt) <=> Before(list, d, nxt)
      BY <1>0, <1>2, <2>2, <3>1, FloatKeepsNext
    <3> QED
      BY <1>2, <1>4, <3>2 DEF Passed
  <2>3. CASE nxt = Null
    BY <1>2, <1>4, <2>3 DEF Passed
  <2> QED
    BY <2>1, <2>2, <2>3
<1>6. ToSet(ret') = ToSet(ret) \cup {<<elt, q[i]>>}
  <2>1. /\ Len(ret) \in Nat /\ Len(ret') = Len(ret) + 1 /\ ret'[Len(ret) + 1] = <<elt, q[i]>>
        /\ \A k \in 1..Len(ret) : ret'[k] = ret[k]
        /\ DOMAIN ret' = 1..Len(ret) + 1 /\ DOMAIN ret = 1..Len(ret)
    BY <1>0, <1>2, <1>3
  <2>2. \A k \in 1..Len(ret) + 1 : k \in 1..Len(ret) \/ k = Len(ret) + 1
    BY <2>1
  <2>3. \A k \in 1..Len(ret) : k \in 1..Len(ret) + 1
    BY <2>1
  <2>4. Len(ret) + 1 \in 1..Len(ret) + 1
    BY <2>1
  <2>5. ToSet(ret') \subseteq ToSet(ret) \cup {<<elt, q[i]>>}
    BY <2>1, <2>2 DEF ToSet
  <2>6. ToSet(ret) \subseteq ToSet(ret')
    BY <2>1, <2>3 DEF ToSet
  <2>7. <<elt, q[i]>> \in ToSet(ret')
    BY <2>1, <2>4 DEF ToSet
  <2> QED
    BY <2>5, <2>6, <2>7
<1>7. IsInjective(q) => IsInjective(ret')
  <2> SUFFICES ASSUME IsInjective(q) PROVE IsInjective(ret')
    OBVIOUS
  <2>1. IsInjective(ret)
    BY DEF Collected, Hit
  <2>2. <<elt, q[i]>> \notin ToSet(ret)
    <3> SUFFICES ASSUME <<elt, q[i]>> \in ToSet(ret) PROVE FALSE
      OBVIOUS
    <3>1. PICK j \in DOMAIN q : j < i /\ q[i] = q[j]
      BY <1>1, <1>3 DEF Visiting
    <3>2. j = i
      BY <1>0, <3>1 DEF IsInjective
    <3> QED
      BY <1>0, <3>1, <3>2
  <2>3. /\ Len(ret) \in Nat /\ Len(ret') = Len(ret) + 1 /\ ret'[Len(ret) + 1] = <<elt, q[i]>>
        /\ \A k \in 1..Len(ret) : ret'[k] = ret[k]
        /\ DOMAIN ret' = 1..Len(ret) + 1 /\ DOMAIN ret = 1..Len(ret)
    BY <1>0, <1>2, <1>3
  <2>4. \A k \in 1..Len(ret) : ret[k] \in ToSet(ret)
    BY <2>3 DEF ToSet
  <2>5. ASSUME NEW a \in DOMAIN ret', NEW b \in DOMAIN ret', ret'[a] = ret'[b] PROVE a = b
    <3>1. CASE a \in 1..Len(ret) /\ b \in 1..Len(ret)
      BY <2>1, <2>3, <2>5, <3>1 DEF IsInjective
    <3>2. CASE a = Len(ret) + 1 \/ b = Len(ret) + 1
      BY <2>2, <2>3, <2>4, <2>5, <3>2
    <3> QED
      BY <2>3, <3>1, <3>2
  <2> QED
    BY <2>5 DEF IsInjective
<1>8. \A d \in Elts, n \in Names : <<d, n>> \in ToSet(ret') =>
        Passed(d)' /\ (d = elt' => \E j \in DOMAIN q' : j < i' /\ n = q'[j])
  <2> SUFFICES ASSUME NEW d \in Elts, NEW n \in Names, <<d, n>> \in ToSet(ret')
               PROVE  Passed(d) /\ (d = elt => \E j \in DOMAIN q : j < i + 1 /\ n = q[j])
    BY <1>2, <1>5
  <2>1. CASE <<d, n>> \in ToSet(ret)
    <3>1. Passed(d) /\ (d = elt => \E j \in DOMAIN q : j < i /\ n = q[j])
      BY <1>1, <2>1 DEF Visiting
    <3>2. \A j \in DOMAIN q : j < i => j < i + 1
      BY <1>0
    <3> QED
      BY <3>1, <3>2
  <2>2. CASE <<d, n>> = <<elt, q[i]>>
    <3>1. Passed(elt) /\ i < i + 1
      BY <1>0, <1>1 DEF Visiting
    <3> QED
      BY <1>0, <2>2, <3>1
  <2> QED
    BY <1>6, <2>1, <2>2
<1>9. \A d \in Elts, n \in ToSet(q) : Passed(d) /\ d # elt => Right(d, n)'
  <2> SUFFICES ASSUME NEW d \in Elts, NEW n \in ToSet(q), Passed(d), d # elt
               PROVE  Right(d, n)'
    OBVIOUS
  <2>1. Right(d, n)
    BY <1>1 DEF Visiting
  <2>2. <<d, n>> \in ToSet(ret') <=> <<d, n>> \in ToSet(ret)
    BY <1>6
  <2> QED
    BY <1>2, <2>1, <2>2 DEF Right
<1>10. \A j \in DOMAIN q : j < i + 1 => Right(elt, q[j])'
  <2> SUFFICES ASSUME NEW j \in DOMAIN q, j < i + 1 PROVE Right(elt, q[j])'
    OBVIOUS
  <2>1. CASE q[j] = q[i]
    <3>1. <<elt, q[j]>> \in ToSet(ret')
      BY <1>6, <2>1
    <3> QED
      BY <1>2, <2>1, <3>1 DEF Right
  <2>2. CASE q[j] # q[i]
    <3>1. j < i
      BY <1>0, <2>2
    <3>2. Right(elt, q[j])
      BY <1>1, <3>1 DEF Visiting
    <3>3. <<elt, q[j]>> \in ToSet(ret') <=> <<elt, q[j]>> \in ToSet(ret)
      BY <1>6, <2>2
    <3> QED
      BY <1>2, <3>2, <3>3 DEF Right
  <2> QED
    BY <2>1, <2>2
<1>11. Visiting'
  <2>1. elt' \in ToSet(list') /\ Passed(elt)' /\ elt' \in moved'
    BY <1>0, <1>1, <1>2, <1>4, <1>5 DEF Visiting
  <2>2. \A d \in Elts, n \in ToSet(q') : Passed(d)' /\ d # elt' => Right(d, n)'
    BY <1>2, <1>5, <1>9
  <2>3. \A j \in DOMAIN q' : j < i' => Right(elt, q[j])'
    BY <1>2, <1>10
  <2> QED
    BY <2>1, <2>2, <2>3, <1>8 DEF Visiting
<1> QED
  BY <1>2, <1>7, <1>11 DEF Collected

\* A name that is not there is not in the result.
LEMMA MissCollects ==
  ASSUME IInv, Collected, Miss PROVE Collected'
<1> SUFFICES ASSUME all PROVE Collected'
  BY DEF Miss, Collected
<1>0. q \in Seq(Names) /\ i \in DOMAIN q /\ i \in Nat /\ elt \in Elts
  <2>1. q \in Seq(Names)
    BY QueriesAssumption DEF IInv, Running, Miss
  <2> QED
    BY <2>1 DEF IInv, TypeOK, Miss
<1>1. Visiting /\ (IsInjective(q) => IsInjective(ret))
  BY DEF Collected, Miss
<1>2. /\ i' = i + 1 /\ pc' = "search" /\ elt # Null /\ Dir(elt) \notin disk[q[i]]
      /\ UNCHANGED <<list, moved, disk, q, all, elt, nxt, ret, fresh>>
  BY DEF Miss, history
<1>3. \A d, n : (Passed(d)' <=> Passed(d)) /\ (Right(d, n)' <=> Right(d, n))
  BY <1>2 DEF Passed, Right
<1>4. ASSUME NEW j \in DOMAIN q, j < i + 1 PROVE Right(elt, q[j])
  <2>1. CASE j < i
    BY <1>1, <2>1 DEF Visiting
  <2>2. CASE ~ (j < i)
    <3>1. j = i
      BY <1>0, <1>4, <2>2
    <3>2. CASE <<elt, q[i]>> \in ToSet(ret)
      <4>1. q[i] \in Names
        BY <1>0
      <4>2. PICK k \in DOMAIN q : k < i /\ q[i] = q[k]
        BY <1>0, <1>1, <3>2, <4>1 DEF Visiting
      <4> QED
        BY <1>1, <3>1, <4>2 DEF Visiting
    <3>3. CASE <<elt, q[i]>> \notin ToSet(ret)
      BY <1>2, <3>1, <3>3 DEF Right
    <3> QED
      BY <3>2, <3>3
  <2> QED
    BY <2>1, <2>2
<1>5. \A d \in Elts, n \in Names : <<d, n>> \in ToSet(ret) =>
        Passed(d) /\ (d = elt => \E j \in DOMAIN q : j < i + 1 /\ n = q[j])
  <2>1. \A j \in DOMAIN q : j < i => j < i + 1
    BY <1>0
  <2> QED
    BY <1>1, <2>1 DEF Visiting
<1>6. Visiting'
  BY <1>1, <1>2, <1>3, <1>4, <1>5 DEF Visiting
<1> QED
  BY <1>1, <1>2, <1>6 DEF Collected

\* The next directory is one that was not visited, and it is the only one that
\* becomes visited.
LEMMA NextDirCollects ==
  ASSUME IInv, Collected, NextDir PROVE Collected'
<1> SUFFICES ASSUME all PROVE Collected'
  BY DEF NextDir, Collected
<1>0. /\ list \in Seq(Elts) /\ IsInjective(list) /\ q \in Seq(Names) /\ i \in Nat
      /\ nxt \in ToSet(list) \cup {Null} /\ i > Len(q) /\ elt \in Elts
  BY QueriesAssumption DEF IInv, TypeOK, MovedFirst, Pointers, Running, NextDir
<1>1. Visiting /\ (IsInjective(q) => IsInjective(ret))
  BY DEF Collected, NextDir
<1>2. /\ elt' = nxt /\ nxt' = (IF nxt = Null THEN Null ELSE Next_elt(list, nxt)) /\ i' = 1
      /\ pc' = "search" /\ UNCHANGED <<list, moved, disk, q, all, ret, fresh>>
  BY DEF NextDir, Visit, history
<1>3. \A d, n : Right(d, n)' <=> Right(d, n)
  BY <1>2 DEF Right
<1>4. \A d \in Elts, n \in ToSet(q) : Passed(d) => Right(d, n)
  <2>1. \A j \in DOMAIN q : j < i
    BY <1>0
  <2> QED
    BY <1>1, <2>1 DEF Visiting, ToSet
<1>5. CASE nxt = Null
  <2>1. \A d \in ToSet(list) : d \in Elts /\ Passed(d)
    BY <1>0, <1>5 DEF Passed, ToSet
  <2> QED
    BY <1>1, <1>2, <1>3, <1>4, <1>5, <2>1 DEF Collected
<1>6. CASE nxt # Null
  <2>1. nxt \in ToSet(list) /\ nxt' = Next_elt(list, nxt) /\ nxt \in Elts
    BY <1>0, <1>2, <1>6 DEF ToSet
  <2>2. \A d \in Elts : Passed(d)' => d = nxt \/ Passed(d)
    <3> SUFFICES ASSUME NEW d \in Elts, Passed(d)' PROVE d = nxt \/ Passed(d)
      OBVIOUS
    <3>1. d \in ToSet(list) /\ (nxt' = Null \/ Before(list, d, nxt'))
      BY <1>2 DEF Passed
    <3>2. d = nxt \/ Before(list, d, nxt)
      BY <1>0, <2>1, <3>1, NextPosition
    <3> QED
      BY <3>1, <3>2 DEF Passed
  <2>3. \A d : Passed(d) => Passed(d)'
    <3> SUFFICES ASSUME NEW d, Passed(d) PROVE Passed(d)'
      OBVIOUS
    <3>1. d \in ToSet(list) /\ Before(list, d, nxt)
      BY <1>6 DEF Passed
    <3>2. nxt' = Null \/ Before(list, d, nxt')
      BY <1>0, <2>1, <3>1, BeforeNext
    <3> QED
      BY <1>2, <3>1, <3>2 DEF Passed
  <2>4. Passed(elt)'
    <3>1. nxt' = Null \/ Before(list, nxt, nxt')
      BY <1>0, <2>1, BeforeNext
    <3> QED
      BY <1>2, <2>1, <3>1 DEF Passed
  <2>5. ~Passed(nxt)
    <3>1. ~Before(list, nxt, nxt)
      BY <1>0 DEF Before, IsInjective
    <3> QED
      BY <1>6, <3>1 DEF Passed
  <2>6. \A d \in Elts, n \in Names : <<d, n>> \in ToSet(ret) => Passed(d)' /\ d # nxt
    BY <1>1, <2>3, <2>5 DEF Visiting
  <2>7. \A j \in DOMAIN q : ~ (j < 1)
    BY <1>0
  <2>8. Visiting'
    BY <1>2, <1>3, <1>4, <2>1, <2>2, <2>4, <2>6, <2>7 DEF Visiting
  <2> QED
    BY <1>1, <1>2, <1>6, <2>8 DEF Collected
<1> QED
  BY <1>5, <1>6

\* Other programs' changes excuse what is different.
LEMMA ChangeCollects ==
  ASSUME IInv, Collected, NEW d \in Dirs, NEW n \in Names, Change(d, n) PROVE Collected'
<1>1. UNCHANGED <<list, moved, pc, q, all, elt, nxt, i, ret>>
  BY DEF Change, search
<1> SUFFICES ASSUME pc \in {"search", "done"} PROVE Collected'
  BY <1>1 DEF Collected
<1>2. fresh' = fresh \cup {<<d, n>>} /\ \A e, m : <<e, m>> # <<d, n>> => (e \in disk[m] <=> e \in disk'[m])
  BY DEF Change, IInv, TypeOK
<1>3. \A e, m : Right(e, m) => Right(e, m)'
  BY <1>1, <1>2 DEF Right
<1>4. \A e : Passed(e)' <=> Passed(e)
  BY <1>1 DEF Passed
<1>5. Visiting => Visiting'
  BY <1>1, <1>3, <1>4 DEF Visiting
<1> QED
  BY <1>1, <1>3, <1>5 DEF Collected

\* Every step keeps what has been collected right.
LEMMA NextCollects == IInv /\ Collected /\ [Next]_vars => Collected'
<1> SUFFICES ASSUME IInv, Collected, [Next]_vars PROVE Collected'
  OBVIOUS
<1>1. CASE UNCHANGED vars
  BY <1>1, CollectedFrame DEF vars, search, history
<1>2. CASE \E d \in Dirs : Add(d)
  BY <1>2 DEF Add, Collected
<1>3. CASE Cached \/ Return
  BY <1>3 DEF Cached, Return, Collected
<1>4. CASE EndOfList
  <2>1. UNCHANGED <<list, disk, q, all, elt, ret, fresh>> /\ pc' = "done" /\ elt = Null /\ pc = "search"
    BY <1>4 DEF EndOfList, search, history
  <2>2. \A d, n : Right(d, n)' <=> Right(d, n)
    BY <2>1 DEF Right
  <2> QED
    BY <2>1, <2>2 DEF Collected
<1> QED
  BY <1>1, <1>2, <1>3, <1>4, StartCollects, HitCollects, MissCollects, NextDirCollects,
     ChangeCollects DEF Next, Step

-----------------------------------------------------------------------------
(* The theorems. *)

LEMMA NextIInv == IInv /\ [Next]_vars => IInv'
<1> SUFFICES ASSUME IInv, [Next]_vars PROVE IInv'
  OBVIOUS
<1>1. CASE UNCHANGED vars
  BY <1>1 DEF vars, search, history, IInv, TypeOK, MovedFirst, Pointers, Running,
              Remembered, Scan, Answer, Out, Result
<1>2. CASE Next
  BY <1>2, AddIInv, CachedIInv, StartIInv, HitIInv, MissIInv, NextDirIInv,
     EndOfListIInv, ReturnIInv, ChangeIInv DEF Next, Step
<1> QED
  BY <1>1, <1>2

THEOREM InductiveInvariant == Spec => []IInv
  BY InitIInv, NextIInv, PTL DEF Spec

\* The variables keep their types.
THEOREM TypeCorrect == Spec => []TypeOK
<1>1. IInv => TypeOK
  BY DEF IInv
<1> QED
  BY InductiveInvariant, <1>1, PTL

\* str_llist_float neither loses nor doubles a node, and the nodes with a hit
\* stand in front.
THEOREM ListStaysFloated == Spec => []MovedFirst
<1>1. IInv => MovedFirst
  BY DEF IInv
<1> QED
  BY InductiveInvariant, <1>1, PTL

\* A one-file search repeated gives the same file, unless that file or the
\* new one was created or deleted in between.
THEOREM SearchesRepeat == Spec => []Repeatable
<1>1. IInv => Repeatable
  <2> SUFFICES ASSUME IInv, pc = "done", ~all, found[q] # Never, found[q] # Result
               PROVE  {found[q], Result} \cap touched[q] # {}
    BY DEF Repeatable
  <2>1. /\ q \in Queries /\ q \in Seq(Names) /\ IsInjective(list)
        /\ list \in Seq(Elts) /\ moved \subseteq ToSet(list)
    BY QueriesAssumption DEF IInv, Running, MovedFirst, TypeOK
  <2>2. Answer(q, found[q], touched[q])
    BY <2>1 DEF IInv, Remembered
  <2>3. Answer(q, Result, touched[q])
    BY <2>1, AnswerExcuses DEF IInv, Running
  <2> QED
    BY <2>1, <2>2, <2>3, AnswersAgree
<1> QED
  BY InductiveInvariant, <1>1, PTL

\* A search for all files returns, for every node of the list, what was in its
\* directory throughout, nothing that was not, and nothing twice, although the
\* list is reordered under its loop and may hold one directory several times.
THEOREM SearchesForAllComplete == Spec => []AllOnce
<1>1. Init => Collected
  BY DEF Init, Collected
<1>2. Spec => []Collected
  BY <1>1, InductiveInvariant, NextCollects, PTL DEF Spec
<1>3. Collected => AllOnce
  BY DEF Collected, AllOnce, Right
<1> QED
  BY <1>2, <1>3, PTL
=============================================================================
