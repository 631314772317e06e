--------------------------- MODULE FmtutilProofs ---------------------------
(***************************************************************************)
(* Proofs about fmtutil: its dumps land where they belong, mktexfmt does   *)
(* not call itself without end, formats named as their engine are built    *)
(* first, and a format that is enabled or disabled stays so, for any       *)
(* formats, dependencies and files.                                        *)
(***************************************************************************)
EXTENDS Fmtutil, SequenceTheorems, WellFoundedInduction, TLAPS

\* The last of a sequence, and the others.
LEMMA InnermostOnly ==
    ASSUME NEW S, NEW q \in Seq(S), q # <<>>
    PROVE  /\ Last(q) \in S /\ Last(q) = q[Len(q)] /\ Len(q) \in Nat \ {0}
           /\ Front(q) \in Seq(S) /\ Len(Front(q)) = Len(q) - 1
           /\ \A i \in 1..Len(q) - 1 : Front(q)[i] = q[i]
  <1>1. Len(q) \in Nat \ {0} /\ Last(q) = q[Len(q)] /\ Last(q) \in S
    BY EmptySeq DEF Last
  <1> DEFINE l == Len(q) - 1
  <1>2. l \in Nat
    BY <1>1
  <1>3. \A i \in 1..l : q[i] \in S
    BY <1>1
  <1> HIDE DEF l
  <1>4. /\ SubSeq(q, 1, l) \in Seq(S) /\ Len(SubSeq(q, 1, l)) = IF 1 <= l THEN l - 1 + 1 ELSE 0
        /\ \A i \in 1 .. l - 1 + 1 : SubSeq(q, 1, l)[i] = q[1 + i - 1]
    BY <1>2, <1>3, SubSeqProperties
  <1>5. l = (IF 1 <= l THEN l - 1 + 1 ELSE 0) /\ \A i \in 1..l : 1 + i - 1 = i
    BY <1>2
  <1>6. \A i \in 1..l : SubSeq(q, 1, l)[i] = q[i]
    BY <1>2, <1>4, <1>5
  <1> QED  BY <1>1, <1>4, <1>5, <1>6 DEF l, Front

-----------------------------------------------------------------------------
(* The programs that run *)

\* What a program knows of the format it is at work on.
AtWork(p) ==
    /\ p.cur # None <=> p.at \notin {"choose", "dead"}
    /\ p.mk /\ p.cur # None => p.cur \in p.loop

\* Each program inherits the loop of the one that it serves, and what a
\* mktexfmt is at work on is not in it.
Below(p, q) ==
    /\ q.mk /\ p.loop \subseteq q.loop
    /\ q.cur # None => q.cur \notin p.loop

Stacked(s) ==
    /\ s \in Seq(Frames)
    /\ \A i \in 1..Len(s) : AtWork(s[i]) /\ (i < Len(s) => s[i].at = "asking")
    /\ \A i, j \in 1..Len(s) : i < j => Below(s[i], s[j])

\* What a program starts with has its type.
LEMMA StartedType ==
    EmptyDir \in [Names -> Entries \cup {None}] /\ Defined(conf) \in SUBSET Entries
  BY DEF EmptyDir, Defined

\* A dump has one of the names, and a place of its format and engine.
LEMMA DumpHasAName ==
    ASSUME NEW p \in Entries
    PROVE  /\ Name(p) \in Names /\ \A f \in Formats : <<f, Ext[p[2]]>> \in Names
           /\ \A flat \in BOOLEAN : Destination(flat, p) \in PlacesOf(p)
           /\ PlacesOf(p) \subseteq Places
  <1>1. p[1] \in Formats /\ p[2] \in Engines
    BY DEF Formats, Engines
  <1>2. \A f \in Formats : <<f, Ext[p[2]]>> \in Names
    BY <1>1 DEF Names
  <1>3. Name(p) \in Names
    BY <1>1, <1>2 DEF Name
  <1>4. \A flat \in BOOLEAN : Destination(flat, p) \in PlacesOf(p)
    BY DEF Destination, PlacesOf
  <1>5. PlacesOf(p) \subseteq Places
    BY DEF Places
  <1> QED  BY <1>2, <1>3, <1>4, <1>5

\* The innermost program goes on, and keeps or extends its own loop.
LEMMA ReplaceStacked ==
    ASSUME NEW s, Stacked(s), s # <<>>, NEW m \in Frames, AtWork(m),
           m.mk = Last(s).mk, Last(s).loop \subseteq m.loop,
           m.mk /\ m.cur # None => m.cur = Last(s).cur \/ m.cur \notin Last(s).loop,
           NEW r, r = Append(Front(s), m)
    PROVE  Stacked(r) /\ r # <<>> /\ Len(r) = Len(s) /\ Last(r) = m
  <1>1. /\ Len(s) \in Nat \ {0} /\ Last(s) = s[Len(s)]
    BY InnermostOnly DEF Stacked
  <1>2. /\ r \in Seq(Frames) /\ Len(r) = Len(s) /\ r[Len(s)] = m
        /\ \A i \in 1..Len(s) - 1 : r[i] = s[i]
    <2>1. /\ Front(s) \in Seq(Frames) /\ Len(Front(s)) = Len(s) - 1
          /\ \A i \in 1..Len(s) - 1 : Front(s)[i] = s[i]
      BY InnermostOnly DEF Stacked
    <2>2. /\ r \in Seq(Frames) /\ Len(r) = Len(Front(s)) + 1
          /\ \A i \in 1 .. Len(Front(s)) : r[i] = Front(s)[i]
          /\ r[Len(Front(s)) + 1] = m
      BY <2>1, AppendProperties
    <2> QED  BY <1>1, <2>1, <2>2
  <1>3. r # <<>> /\ Last(r) = m
    BY <1>1, <1>2, EmptySeq DEF Last
  <1>4. ASSUME NEW i \in 1..Len(r)
        PROVE  AtWork(r[i]) /\ (i < Len(r) => r[i].at = "asking")
    <2>1. CASE i = Len(s)
      BY <1>1, <1>2, <2>1
    <2>2. CASE i # Len(s)
      <3>1. i \in 1..Len(s) - 1 /\ i \in 1..Len(s) /\ i < Len(s)
        BY <1>1, <1>2, <2>2
      <3> QED  BY <1>2, <3>1 DEF Stacked
    <2> QED  BY <2>1, <2>2
  <1>5. ASSUME NEW i \in 1..Len(r), NEW j \in 1..Len(r), i < j
        PROVE  Below(r[i], r[j])
    <2>1. i \in 1..Len(s) - 1 /\ i \in 1..Len(s) /\ r[i] = s[i]
      BY <1>1, <1>2, <1>5
    <2>2. CASE j = Len(s)
      <3>1. Below(s[i], Last(s))
        BY <1>1, <1>5, <2>1, <2>2 DEF Stacked
      <3>2. Below(s[i], m)
        BY <3>1 DEF Below
      <3> QED  BY <1>2, <2>1, <2>2, <3>2
    <2>3. CASE j # Len(s)
      <3>1. j \in 1..Len(s) - 1 /\ j \in 1..Len(s) /\ r[j] = s[j]
        BY <1>1, <1>2, <2>3
      <3> QED  BY <1>5, <2>1, <3>1 DEF Stacked
    <2> QED  BY <2>2, <2>3
  <1> QED  BY <1>2, <1>3, <1>4, <1>5 DEF Stacked

\* An engine that asks has kpathsea start a mktexfmt, with its loop.
LEMMA PushStacked ==
    ASSUME NEW s, Stacked(s), s # <<>>, Last(s).at = "asking",
           NEW p \in Frames, AtWork(p), p.mk, p.loop = Last(s).loop, p.cur = None,
           NEW r, r = Append(s, p)
    PROVE  Stacked(r) /\ r # <<>> /\ Len(r) = Len(s) + 1 /\ Last(r) = p
  <1>1. Len(s) \in Nat \ {0} /\ Last(s) = s[Len(s)]
    BY InnermostOnly DEF Stacked
  <1>2. /\ r \in Seq(Frames) /\ Len(r) = Len(s) + 1 /\ r[Len(s) + 1] = p /\ r # <<>>
        /\ \A i \in 1..Len(s) : r[i] = s[i]
    BY AppendProperties DEF Stacked
  <1>3. Last(r) = p
    BY <1>2 DEF Last
  <1>4. ASSUME NEW i \in 1..Len(r)
        PROVE  AtWork(r[i]) /\ (i < Len(r) => r[i].at = "asking")
    <2>1. CASE i = Len(s) + 1
      BY <1>1, <1>2, <2>1
    <2>2. CASE i = Len(s)
      BY <1>1, <1>2, <2>2 DEF Stacked
    <2>3. CASE i # Len(s) + 1 /\ i # Len(s)
      <3>1. i \in 1..Len(s) /\ i < Len(s)
        BY <1>1, <1>2, <2>3
      <3> QED  BY <1>2, <3>1 DEF Stacked
    <2> QED  BY <2>1, <2>2, <2>3
  <1>5. ASSUME NEW i \in 1..Len(r), NEW j \in 1..Len(r), i < j
        PROVE  Below(r[i], r[j])
    <2>1. i \in 1..Len(s) /\ r[i] = s[i]
      BY <1>1, <1>2, <1>5
    <2>2. CASE j = Len(s) + 1
      <3>1. s[i].loop \subseteq Last(s).loop
        <4>1. CASE i = Len(s)
          BY <1>1, <4>1
        <4>2. CASE i # Len(s)
          <5>1. i < Len(s) /\ Len(s) \in 1..Len(s)
            BY <1>1, <2>1, <4>2
          <5> QED  BY <1>1, <2>1, <5>1 DEF Stacked, Below
        <4> QED  BY <4>1, <4>2
      <3> QED  BY <1>2, <2>1, <2>2, <3>1 DEF Below
    <2>3. CASE j # Len(s) + 1
      <3>1. j \in 1..Len(s) /\ r[j] = s[j]
        BY <1>1, <1>2, <2>3
      <3> QED  BY <1>5, <2>1, <3>1 DEF Stacked
    <2> QED  BY <2>2, <2>3
  <1> QED  BY <1>2, <1>3, <1>4, <1>5 DEF Stacked

\* The innermost program ends, and the one that it served is waiting.
LEMMA PopStacked ==
    ASSUME NEW s, Stacked(s), s # <<>>, Len(s) # 1, NEW r, r = Front(s)
    PROVE  Stacked(r) /\ r # <<>> /\ Last(r).at = "asking"
  <1>1. /\ Len(s) \in Nat \ {0} /\ r \in Seq(Frames) /\ Len(r) = Len(s) - 1
        /\ \A i \in 1..Len(s) - 1 : r[i] = s[i]
    BY InnermostOnly DEF Stacked
  <1>2. Len(r) \in 1..Len(s) /\ Len(r) < Len(s) /\ Len(r) \in 1..Len(s) - 1
    BY <1>1
  <1>3. r # <<>> /\ Last(r) = s[Len(r)]
    BY <1>1, <1>2, EmptySeq DEF Last
  <1>4. \A i \in 1..Len(r) : i \in 1..Len(s) /\ i < Len(s) /\ r[i] = s[i]
    BY <1>1
  <1>5. \A i \in 1..Len(r) : AtWork(r[i]) /\ r[i].at = "asking"
    BY <1>4 DEF Stacked
  <1>6. \A i, j \in 1..Len(r) : i < j => Below(r[i], r[j])
    BY <1>4 DEF Stacked
  <1> QED  BY <1>1, <1>2, <1>3, <1>4, <1>5, <1>6 DEF Stacked

-----------------------------------------------------------------------------
(* The inductive invariant *)

Files ==
    /\ ConfOK(conf) /\ needs \in Needing
    /\ dest \in [Places -> Entries \cup {None}] /\ leftover \subseteq Places
    /\ edits \in 0..MaxEdits /\ builds \in 0..MaxBuilds

\* Only the innermost program runs; the others wait for it.
Programs ==
    /\ Stacked(procs)
    /\ procs # <<>> => Last(procs).at # "asking"

IInv == Files /\ Programs /\ InstalledRight

\* Nothing runs at first, and what is installed is right.
LEMMA InitIInv == Init => IInv
  <1> SUFFICES ASSUME Init PROVE IInv
    OBVIOUS
  <1>1. Files
    <2>1. ConfOK(conf)
      BY FmtCnfAssumption DEF Init
    <2>2. dest \in [Places -> Entries \cup {None}]
      BY FmtutilAssumption DEF Init
    <2>3. needs \in Needing /\ leftover \subseteq Places
      BY DEF Init
    <2>4. edits \in 0..MaxEdits /\ builds \in 0..MaxBuilds
      <3>1. MaxEdits \in Nat /\ MaxBuilds \in Nat
        BY FmtutilAssumption
      <3>2. edits = 0 /\ builds = 0
        BY DEF Init
      <3> QED  BY <3>1, <3>2
    <2> QED  BY <2>1, <2>2, <2>3, <2>4 DEF Files
  <1>2. Programs
    BY DEF Init, Programs, Stacked
  <1>3. InstalledRight
    BY FmtutilAssumption DEF Init, InstalledRight
  <1> QED  BY <1>1, <1>2, <1>3 DEF IInv

\* The innermost program has its type and knows its work.
LEMMA Innermost ==
    ASSUME IInv, procs # <<>>
    PROVE  /\ Me \in Frames /\ Me = Last(procs) /\ AtWork(Me) /\ Me.at # "asking"
           /\ Me.at \notin {"choose", "dead"} => Me.cur \in Entries
           /\ Me.at \in {"choose", "dead"} => Me.cur = None
  <1>1. Stacked(procs) /\ Last(procs).at # "asking"
    BY DEF IInv, Programs
  <1>2. /\ Last(procs) \in Frames /\ Last(procs) = procs[Len(procs)] /\ Len(procs) \in 1..Len(procs)
    BY <1>1, InnermostOnly DEF Stacked
  <1>3. AtWork(Me)
    BY <1>1, <1>2 DEF Stacked, Me
  <1> QED  BY <1>1, <1>2, <1>3 DEF Me, Frames, AtWork

\* It goes on to another state.
LEMMA GoesOn ==
    ASSUME IInv, procs # <<>>, NEW m \in Frames, AtWork(m), m.at # "asking",
           m.mk = Me.mk, Me.loop \subseteq m.loop,
           m.mk /\ m.cur # None => m.cur = Me.cur \/ m.cur \notin Me.loop,
           Becomes(m)
    PROVE  Programs'
  <1>1. Stacked(procs) /\ Me = Last(procs)
    BY DEF IInv, Programs, Me
  <1>2. Stacked(procs') /\ procs' # <<>> /\ Last(procs') = m
    BY <1>1, ReplaceStacked DEF Becomes
  <1> QED  BY <1>2 DEF Programs, Stacked, Below, AtWork

\* Files that stay as they are.
LEMMA Unchanging ==
    ASSUME IInv, Programs', Quiet, UNCHANGED <<dest, leftover>> PROVE IInv'
  BY DEF IInv, Files, InstalledRight, ConfOK, Quiet

\* How the work on a format goes on or ends, the program is one of these.
Outcomes(me) == {Fails(me), [me EXCEPT !.at = "install"], [me EXCEPT !.at = "dump"]}

\* Each of them has its type and the same loop, and goes on with that format or
\* with none.
LEMMA OutcomesType ==
    ASSUME NEW me \in Frames, me.cur \in Entries, AtWork(me)
    PROVE  \A m \in Outcomes(me) :
             m \in Frames /\ AtWork(m) /\ m.at # "asking" /\ m.mk = me.mk /\ m.loop = me.loop
             /\ m.cur \in {None, me.cur}
  <1>1. me.cur # None
    BY FmtutilAssumption
  <1> DEFINE m == Fails(me)
             n == [me EXCEPT !.at = "install"]
             d == [me EXCEPT !.at = "dump"]
             failed == me.failed \cup {me.cur}
  <1>2. m = [me EXCEPT !.at = "choose", !.cur = None, !.failed = failed]
    BY DEF Fails
  <1> failed \in SUBSET Entries
    BY DEF Frames
  <1> HIDE DEF failed
  <1>3. /\ m \in Frames /\ m.at = "choose" /\ m.cur = None
        /\ m.mk = me.mk /\ m.loop = me.loop
    BY <1>2 DEF Frames
  <1>4. /\ n \in Frames /\ n.at = "install" /\ n.cur = me.cur
        /\ n.mk = me.mk /\ n.loop = me.loop
    BY DEF Frames
  <1>5. /\ d \in Frames /\ d.at = "dump" /\ d.cur = me.cur
        /\ d.mk = me.mk /\ d.loop = me.loop
    BY DEF Frames
  <1>6. Outcomes(me) = {m, n, d}
    BY DEF Outcomes
  <1> HIDE DEF m, n, d
  <1>7. AtWork(m)
    BY <1>3 DEF AtWork
  <1>8. AtWork(n)
    BY <1>1, <1>4 DEF AtWork
  <1>9. AtWork(d)
    BY <1>1, <1>5 DEF AtWork
  <1>10. \A k \in {m, n, d} :
          /\ k \in Frames /\ AtWork(k) /\ k.at # "asking"
          /\ k.mk = me.mk /\ k.loop = me.loop /\ k.cur \in {None, me.cur}
    BY <1>3, <1>4, <1>5, <1>7, <1>8, <1>9
  <1> QED  BY <1>6, <1>10

\* The innermost program has come to one of them.
LEMMA ComesTo ==
    ASSUME IInv, procs # <<>>, NEW me \in Frames, me.cur \in Entries, AtWork(me),
           me.mk = Me.mk, me.loop = Me.loop, me.cur = Me.cur,
           NEW m \in Outcomes(me), Becomes(m)
    PROVE  Programs'
  <1>1. m \in Frames /\ AtWork(m) /\ m.at # "asking" /\ m.mk = Me.mk /\ m.loop = Me.loop
        /\ m.cur \in {None, Me.cur}
    BY OutcomesType
  <1> QED  BY <1>1, GoesOn

\* A program takes the next format, or gives it up.
LEMMA ChooseKeeps ==
    ASSUME IInv, Choose PROVE IInv'
  <1>1. procs # <<>> /\ Me.at = "choose" /\ Quiet /\ UNCHANGED <<dest, leftover>>
    BY DEF Choose, Am
  <1>2. /\ Me \in Frames /\ AtWork(Me) /\ Me.cur = None
    BY <1>1, Innermost
  <1>3. PICK p \in Eligible :
         LET me    == [Me EXCEPT !.todo = @ \ {p}]
             begun == [me EXCEPT !.loop = IF me.mk THEN @ \cup {p} ELSE @]
         IN IF ~Selected(p) THEN Becomes(me)
            ELSE \/ Becomes([me EXCEPT !.failed = @ \cup {p}])
                 \/ Loop(p) /\ Becomes([me EXCEPT !.at = "dead"])
                 \/ ~Loop(p) /\ Becomes([begun EXCEPT !.failed = @ \cup {p}])
                 \/ ~Loop(p) /\ Becomes([begun EXCEPT !.cur = p, !.at = "engine"])
    BY DEF Choose
  <1>4. p \in Entries
    BY <1>2 DEF Eligible, Frames
  <1> DEFINE me    == [Me EXCEPT !.todo = @ \ {p}]
             begun == [me EXCEPT !.loop = IF me.mk THEN @ \cup {p} ELSE @]
  <1>5. /\ me \in Frames /\ me.cur = None /\ me.at = "choose" /\ me.mk = Me.mk /\ me.loop = Me.loop
    BY <1>1, <1>2 DEF Frames
  <1> HIDE DEF me
  <1>6. /\ begun \in Frames /\ begun.cur = None /\ begun.at = "choose" /\ begun.mk = Me.mk
        /\ begun.loop = IF Me.mk THEN Me.loop \cup {p} ELSE Me.loop
    BY <1>4, <1>5 DEF Frames
  <1> HIDE DEF begun
  <1>7. \/ Becomes(me)
        \/ Becomes([me EXCEPT !.failed = @ \cup {p}])
        \/ Becomes([me EXCEPT !.at = "dead"])
        \/ Becomes([begun EXCEPT !.failed = @ \cup {p}])
        \/ ~Loop(p) /\ Becomes([begun EXCEPT !.cur = p, !.at = "engine"])
    BY <1>3 DEF me, begun
  <1>8. CASE Becomes(me)
    BY <1>1, <1>5, <1>8, GoesOn, Unchanging DEF AtWork
  <1>9. CASE Becomes([me EXCEPT !.failed = @ \cup {p}])
    <2> DEFINE m == [me EXCEPT !.failed = @ \cup {p}]
    <2>1. /\ m \in Frames /\ m.cur = None /\ m.at = "choose" /\ m.mk = Me.mk /\ m.loop = Me.loop
      BY <1>4, <1>5 DEF Frames
    <2> HIDE DEF m
    <2> QED  BY <1>1, <1>9, <2>1, GoesOn, Unchanging DEF AtWork, m
  <1>10. CASE Becomes([me EXCEPT !.at = "dead"])
    <2> DEFINE m == [me EXCEPT !.at = "dead"]
    <2>1. /\ m \in Frames /\ m.cur = None /\ m.at = "dead" /\ m.mk = Me.mk /\ m.loop = Me.loop
      BY <1>5 DEF Frames
    <2> HIDE DEF m
    <2> QED  BY <1>1, <1>10, <2>1, GoesOn, Unchanging DEF AtWork, m
  <1>11. CASE Becomes([begun EXCEPT !.failed = @ \cup {p}])
    <2> DEFINE m == [begun EXCEPT !.failed = @ \cup {p}]
    <2>1. /\ m \in Frames /\ m.cur = None /\ m.at = "choose" /\ m.mk = Me.mk /\ Me.loop \subseteq m.loop
      BY <1>4, <1>6 DEF Frames
    <2> HIDE DEF m
    <2> QED  BY <1>1, <1>11, <2>1, GoesOn, Unchanging DEF AtWork, m
  <1>12. CASE ~Loop(p) /\ Becomes([begun EXCEPT !.cur = p, !.at = "engine"])
    <2> DEFINE m == [begun EXCEPT !.cur = p, !.at = "engine"]
    <2>1. /\ m \in Frames /\ m.cur = p /\ m.at = "engine" /\ m.mk = Me.mk
          /\ m.loop = IF Me.mk THEN Me.loop \cup {p} ELSE Me.loop
      BY <1>4, <1>6 DEF Frames
    <2>2. m.mk => m.cur \notin Me.loop
      BY <1>12, <2>1 DEF Loop
    <2>3. p # None
      BY <1>4, FmtutilAssumption
    <2> HIDE DEF m
    <2>4. AtWork(m)
      BY <2>1, <2>3 DEF AtWork
    <2>5. Me.loop \subseteq m.loop /\ Becomes(m)
      BY <1>12, <2>1 DEF m
    <2> QED  BY <1>1, <2>1, <2>2, <2>4, <2>5, GoesOn, Unchanging
  <1> QED  BY <1>7, <1>8, <1>9, <1>10, <1>11, <1>12

\* The engine loads its format, or fails, or asks for it.
LEMMA EngineKeeps ==
    ASSUME IInv, Engine PROVE IInv'
  <1>1. procs # <<>> /\ Me.at = "engine" /\ Quiet /\ UNCHANGED <<dest, leftover>>
    BY DEF Engine, Am
  <1>2. Me \in Frames /\ AtWork(Me) /\ Me.cur \in Entries /\ Stacked(procs) /\ Me = Last(procs)
    BY <1>1, Innermost DEF IInv, Programs
  <1> DEFINE f == needs[Me.cur]  n == <<f, Ext[Me.cur[2]]>>
             asking == [Me EXCEPT !.at = "asking"]
  <1>3. f \in Formats \cup {""}
    BY <1>2, FmtutilAssumption DEF IInv, Files
  <1>4. \/ Becomes([Me EXCEPT !.at = "dump"])
        \/ Becomes(Loads(Me, FoundFormat(n)))
        \/ procs' = Append(Append(Front(procs), asking), Started(TRUE, Mktexfmt(f), Me.loop))
    BY DEF Engine
  <1>5. CASE Becomes([Me EXCEPT !.at = "dump"])
    BY <1>1, <1>2, <1>5, ComesTo, Unchanging DEF Outcomes
  <1>6. CASE Becomes(Loads(Me, FoundFormat(n)))
    <2>1. Loads(Me, FoundFormat(n)) \in Outcomes(Me)
      BY DEF Loads, EngineFails, Outcomes
    <2> QED  BY <1>1, <1>2, <1>6, <2>1, ComesTo, Unchanging
  <1>7. CASE procs' = Append(Append(Front(procs), asking), Started(TRUE, Mktexfmt(f), Me.loop))
    <2> DEFINE q == Append(Front(procs), asking)
               p == Started(TRUE, Mktexfmt(f), Me.loop)
    <2>1. /\ asking \in Frames /\ asking.at = "asking" /\ asking.cur = Me.cur
          /\ asking.mk = Me.mk /\ asking.loop = Me.loop
      BY <1>2 DEF Frames
    <2>2. Me.loop \in SUBSET Entries
      BY <1>2 DEF Frames
    <2>3. p \in Frames /\ p.mk /\ p.loop = Me.loop /\ p.at = "choose" /\ p.cur = None /\ AtWork(p)
      <3>1. "byfmt" \in Selections /\ TRUE \in BOOLEAN /\ f \in Formats \cup Engines \cup {""}
        BY <1>3 DEF Selections
      <3> HIDE DEF f
      <3> QED  BY <2>2, <3>1, StartedType DEF Started, Mktexfmt, Frames, AtWork
    <2> HIDE DEF asking, p
    <2>4. AtWork(asking)
      BY <1>1, <1>2, <2>1 DEF AtWork
    <2>5. Stacked(q) /\ q # <<>> /\ Last(q) = asking
      BY <1>1, <1>2, <2>1, <2>4, ReplaceStacked
    <2> HIDE DEF q
    <2>6. procs' = Append(q, p)
      BY <1>7 DEF q, p
    <2>7. Stacked(procs') /\ Last(procs') = p
      BY <2>1, <2>3, <2>5, <2>6, PushStacked
    <2>8. Programs'
      BY <2>3, <2>7 DEF Programs, Stacked, Below, AtWork
    <2> QED  BY <1>1, <2>8, Unchanging
  <1> QED  BY <1>4, <1>5, <1>6, <1>7

\* The engine ends, and may have left a dump.
LEMMA DumpKeeps ==
    ASSUME IInv, Dump PROVE IInv'
  <1>1. procs # <<>> /\ Me.at = "dump" /\ Quiet /\ UNCHANGED <<dest, leftover>>
    BY DEF Dump, Am
  <1>2. Me \in Frames /\ AtWork(Me) /\ Me.cur \in Entries
    BY <1>1, Innermost
  <1>3. PICK wrote \in BOOLEAN, error \in BOOLEAN :
          LET me == [Me EXCEPT !.tmp[Name(Me.cur)] = IF wrote THEN Me.cur ELSE @]
          IN Becomes(IF error THEN EngineFails(me) ELSE [me EXCEPT !.at = "install"])
    BY DEF Dump
  <1> DEFINE tmp == [Me.tmp EXCEPT ![Name(Me.cur)] = IF wrote THEN Me.cur ELSE @]
             me  == [Me EXCEPT !.tmp = tmp]
  <1>4. Me.tmp \in [Names -> Entries \cup {None}] /\ Name(Me.cur) \in Names
    BY <1>2, DumpHasAName DEF Frames
  <1>5. tmp \in [Names -> Entries \cup {None}]
    BY <1>2, <1>4
  <1>6. me = [Me EXCEPT !.tmp[Name(Me.cur)] = IF wrote THEN Me.cur ELSE @]
    OBVIOUS
  <1> HIDE DEF tmp
  <1>7. /\ me \in Frames /\ me.at = "dump" /\ me.cur = Me.cur
        /\ me.mk = Me.mk /\ me.loop = Me.loop
    BY <1>1, <1>2, <1>5 DEF Frames
  <1>8. Becomes(IF error THEN EngineFails(me) ELSE [me EXCEPT !.at = "install"])
    BY <1>3, <1>6
  <1> HIDE DEF me
  <1>9. AtWork(me)
    BY <1>1, <1>2, <1>7 DEF AtWork
  <1>10. (IF error THEN EngineFails(me) ELSE [me EXCEPT !.at = "install"]) \in Outcomes(me)
    BY DEF EngineFails, Outcomes
  <1> QED  BY <1>1, <1>2, <1>7, <1>8, <1>9, <1>10, ComesTo, Unchanging

\* The dump is copied to its own place, or nothing is there.
LEMMA InstallKeeps ==
    ASSUME IInv, Install PROVE IInv'
  <1> DEFINE p == Me.cur  made == Me.tmp[Name(p)]  w == Destination(Me.flat, p)
             printed == IF Me.mk /\ Me.printed = None THEN p ELSE Me.printed
             done == [Me EXCEPT !.at = "choose", !.cur = None, !.printed = printed]
  <1>1. procs # <<>> /\ Me.at = "install" /\ Quiet
    BY DEF Install, Am
  <1>2. Me \in Frames /\ AtWork(Me) /\ p \in Entries
    BY <1>1, Innermost
  <1>3. /\ made \in Entries \cup {None}
        /\ w \in PlacesOf(p) /\ w \in Places
    <2>1. Me.tmp \in [Names -> Entries \cup {None}] /\ Me.flat \in BOOLEAN
      BY <1>2 DEF Frames
    <2> QED  BY <1>2, <2>1, DumpHasAName
  <1>4. \/ Becomes(Fails(Me)) /\ UNCHANGED <<dest, leftover>>
        \/ /\ made # None /\ Becomes(done)
           /\ dest' = [v \in Places |-> IF v = w THEN made ELSE dest[v]]
           /\ leftover' = IF made # p THEN leftover \cup {w} ELSE leftover \ {w}
        \/ /\ Becomes(Fails(Me))
           /\ dest' = [v \in Places |-> IF v = w THEN None ELSE dest[v]]
           /\ leftover' = leftover \ {w}
    BY DEF Install
  <1>5. Becomes(Fails(Me)) => Programs'
    BY <1>1, <1>2, ComesTo DEF Outcomes
  <1>6. Becomes(done) => Programs'
    <2>1. printed \in Entries \cup {None}
      BY <1>2 DEF Frames
    <2> HIDE DEF printed
    <2>2. /\ done \in Frames /\ done.at = "choose" /\ done.cur = None
          /\ done.mk = Me.mk /\ done.loop = Me.loop
      BY <1>2, <2>1 DEF Frames
    <2> HIDE DEF done
    <2> QED  BY <1>1, <2>2, GoesOn DEF AtWork
  <1> HIDE DEF done, made, p, w
  <1>7. Files /\ InstalledRight
    BY DEF IInv
  <1>8. /\ dest \in [Places -> Entries \cup {None}] /\ leftover \subseteq Places
        /\ \A v \in Places \ leftover : dest[v] = None \/ v \in PlacesOf(dest[v])
    BY <1>7 DEF Files, InstalledRight, Belongs
  <1>9. /\ Programs' /\ dest' \in [Places -> Entries \cup {None}] /\ leftover' \subseteq Places
        /\ \A v \in Places \ leftover' : dest'[v] = None \/ v \in PlacesOf(dest'[v])
    <2>1. CASE Becomes(Fails(Me)) /\ UNCHANGED <<dest, leftover>>
      BY <1>5, <1>8, <2>1
    <2>2. CASE /\ made # None /\ Becomes(done)
               /\ dest' = [v \in Places |-> IF v = w THEN made ELSE dest[v]]
               /\ leftover' = IF made # p THEN leftover \cup {w} ELSE leftover \ {w}
      <3>1. \A v \in Places : dest'[v] = IF v = w THEN made ELSE dest[v]
        BY <2>2
      <3>2. dest' \in [Places -> Entries \cup {None}] /\ leftover' \subseteq Places
        BY <1>2, <1>3, <1>8, <2>2
      <3>3. ASSUME NEW v \in Places \ leftover' PROVE dest'[v] = None \/ v \in PlacesOf(dest'[v])
        <4>1. CASE v = w
          <5>1. made = p
            BY <1>3, <2>2, <3>3, <4>1
          <5> QED  BY <1>3, <3>1, <4>1, <5>1
        <4>2. CASE v # w
          <5>1. v \in Places \ leftover
            BY <2>2, <3>3, <4>2
          <5> QED  BY <1>8, <3>1, <4>2, <5>1
        <4> QED  BY <4>1, <4>2
      <3> QED  BY <1>6, <2>2, <3>2, <3>3
    <2>3. CASE /\ Becomes(Fails(Me))
               /\ dest' = [v \in Places |-> IF v = w THEN None ELSE dest[v]]
               /\ leftover' = leftover \ {w}
      <3>1. \A v \in Places : dest'[v] = IF v = w THEN None ELSE dest[v]
        BY <2>3
      <3>2. dest' \in [Places -> Entries \cup {None}] /\ leftover' \subseteq Places
        BY <1>8, <2>3
      <3> QED  BY <1>5, <1>8, <2>3, <3>1, <3>2
    <2> QED  BY <1>4, <2>1, <2>2, <2>3
  <1> QED  BY <1>1, <1>7, <1>9 DEF IInv, Files, InstalledRight, Belongs, ConfOK, Quiet

\* The innermost program ends; the engine that waited for it goes on.
LEMMA EndKeeps ==
    ASSUME IInv, End PROVE IInv'
  <1>1. procs # <<>> /\ Quiet /\ UNCHANGED <<dest, leftover>> /\ Stacked(procs)
    BY DEF End, Am, IInv, Programs
  <1> DEFINE up  == Front(procs)
             got == IF Me.printed = None THEN None
                    ELSE Installed(Destination(Me.flat, Me.printed))
             m   == Loads(Last(up), got)
  <1>2. IF Len(procs) = 1 THEN procs' = <<>> ELSE procs' = Append(Front(up), m)
    BY DEF End
  <1>3. CASE Len(procs) = 1
    <2>1. Programs'
      BY <1>2, <1>3 DEF Programs, Stacked
    <2> QED  BY <1>1, <2>1, Unchanging
  <1>4. CASE Len(procs) # 1
    <2>1. Stacked(up) /\ up # <<>> /\ Last(up).at = "asking"
      BY <1>1, <1>4, PopStacked
    <2> HIDE DEF up
    <2>2. /\ Last(up) \in Frames /\ Last(up) = up[Len(up)] /\ Len(up) \in 1..Len(up)
      BY <2>1, InnermostOnly DEF Stacked
    <2>3. AtWork(Last(up)) /\ Last(up).cur \in Entries
      BY <2>1, <2>2 DEF Stacked, AtWork, Frames
    <2>4. m \in Outcomes(Last(up))
      BY DEF Loads, EngineFails, Outcomes
    <2>5. /\ m \in Frames /\ AtWork(m) /\ m.at # "asking" /\ m.mk = Last(up).mk
          /\ m.loop = Last(up).loop /\ m.cur \in {None, Last(up).cur}
      BY <2>2, <2>3, <2>4, OutcomesType
    <2> HIDE DEF m
    <2>6. Stacked(procs') /\ Last(procs') = m
      BY <1>2, <1>4, <2>1, <2>5, ReplaceStacked
    <2>7. Programs'
      BY <2>5, <2>6 DEF Programs, Stacked, Below, AtWork
    <2> QED  BY <1>1, <2>7, Unchanging
  <1> QED  BY <1>3, <1>4

\* A command starts with the first program.
LEMMA BuildKeeps ==
    ASSUME IInv, Build PROVE IInv'
  <1>1. builds < MaxBuilds /\ builds' = builds + 1
        /\ UNCHANGED <<conf, needs, edit, dest, leftover, edits>>
    BY DEF Build
  <1>2. PICK c \in Commands : procs' = <<Started(FALSE, c, {})>>
    BY DEF Build
  <1> DEFINE p == Started(FALSE, c, {})
  <1>3. c.what \in Selections /\ c.arg \in Formats \cup Engines \cup {""} /\ c.strict \in BOOLEAN
        /\ c.flat \in BOOLEAN
    BY FmtutilAssumption
  <1>4. p \in Frames /\ p.at = "choose" /\ AtWork(p)
    BY <1>3, StartedType DEF Started, Frames, AtWork
  <1> HIDE DEF p
  <1>5. procs' = <<p>> /\ Len(procs') = 1 /\ procs'[1] = p /\ Last(procs') = p
    BY <1>2 DEF p, Last
  <1>6. procs' \in Seq(Frames)
    BY <1>4, <1>5
  <1>7. Stacked(procs')
    BY <1>4, <1>5, <1>6 DEF Stacked
  <1>8. Programs'
    BY <1>4, <1>5, <1>7 DEF Programs, Stacked, AtWork, Below
  <1>9. builds' \in 0..MaxBuilds
    <2>1. builds \in 0..MaxBuilds /\ MaxBuilds \in Nat
      BY FmtutilAssumption DEF IInv, Files
    <2> QED  BY <1>1, <2>1
  <1> QED  BY <1>1, <1>8, <1>9 DEF IInv, Files, InstalledRight, ConfOK

\* A file that is rewritten has lines of the right kind.
LEMMA SavedType ==
    ASSUME NEW c, ConfOK(c), NEW p \in Entries, NEW on \in BOOLEAN
    PROVE  ConfOK(Saved(c, p, on))
  <1> DEFINE File  == [there : BOOLEAN, found : BOOLEAN, lines : Seq(Lines)]
             tc    == ChangesConfig(c)
             read  == IF c[tc].found THEN c[tc].lines ELSE <<>>
             line  == [of |-> p, on |-> on]
             lines == IF Origin(c, p) = tc THEN [read EXCEPT ![Mention(read, p)] = line]
                      ELSE Append(read, line)
             file  == [there |-> TRUE, found |-> c[tc].found \/ read = <<>>, lines |-> lines]
  <1>1. c \in [Range(Paths) -> File]
    BY DEF ConfOK
  <1>2. Saved(c, p, on) = [c EXCEPT ![tc] = file]
    BY DEF Saved
  <1>3. tc \in Range(Paths) => file \in File
    <2> SUFFICES ASSUME tc \in Range(Paths) PROVE file \in File
      OBVIOUS
    <2>1. c[tc] \in File
      BY <1>1
    <2>2. read \in Seq(Lines) /\ c[tc].found \in BOOLEAN
      BY <2>1
    <2>3. line \in Lines
      BY DEF Lines
    <2> HIDE DEF read, line, tc
    <2>4. lines \in Seq(Lines)
      <3>1. [read EXCEPT ![Mention(read, p)] = line] \in Seq(Lines)
        <4>1. PICK n \in Nat : read \in [1..n -> Lines]
          BY <2>2, SeqDef
        <4>2. [read EXCEPT ![Mention(read, p)] = line] \in [1..n -> Lines]
          BY <2>3, <4>1
        <4> QED  BY <4>2, SeqDef
      <3>2. Append(read, line) \in Seq(Lines)
        BY <2>2, <2>3, AppendProperties
      <3> QED  BY <3>1, <3>2
    <2> HIDE DEF lines
    <2>5. (c[tc].found \/ read = <<>>) \in BOOLEAN
      OBVIOUS
    <2> QED  BY <2>4, <2>5
  <1>4. file.there
    OBVIOUS
  <1> HIDE DEF tc, file
  <1>5. \A f \in Range(Paths) : Saved(c, p, on)[f] = IF f = tc THEN file ELSE c[f]
    BY <1>1, <1>2
  <1>6. \A f \in Range(Paths) : c[f].there \/ c[f].lines = <<>>
    BY DEF ConfOK
  <1>7. \A f \in Range(Paths) : Saved(c, p, on)[f].there \/ Saved(c, p, on)[f].lines = <<>>
    BY <1>4, <1>5, <1>6
  <1> HIDE DEF File
  <1>8. Saved(c, p, on) \in [Range(Paths) -> File]
    BY <1>1, <1>2, <1>3
  <1> QED  BY <1>7, <1>8 DEF ConfOK, File

\* A format is enabled or disabled when nothing runs.
LEMMA EditKeeps ==
    ASSUME IInv, Edit PROVE IInv'
  <1>1. /\ procs = <<>> /\ edits < MaxEdits /\ edits' = edits + 1
        /\ UNCHANGED <<needs, dest, procs, leftover, builds>>
    BY DEF Edit
  <1>2. PICK p \in Defined(conf), on \in BOOLEAN : conf' = Saved(conf, p, on)
    BY DEF Edit
  <1>3. ConfOK(conf) /\ p \in Entries
    BY DEF IInv, Files, Defined
  <1>4. ConfOK(conf)'
    <2>1. ConfOK(Saved(conf, p, on))
      BY <1>3, SavedType
    <2> QED  BY <1>2, <1>3, <2>1 DEF ConfOK
  <1>5. Programs'
    BY <1>1 DEF Programs, Stacked
  <1>6. edits' \in 0..MaxEdits
    <2>1. edits \in 0..MaxEdits /\ MaxEdits \in Nat
      BY FmtutilAssumption DEF IInv, Files
    <2> QED  BY <1>1, <2>1
  <1> QED  BY <1>1, <1>4, <1>5, <1>6 DEF IInv, Files, InstalledRight

-----------------------------------------------------------------------------
(* Formats named as their engine come first *)

\* What a program that builds all formats has done so far, with configuration c
\* and dependencies n: each enabled format is still to come, at hand, failed, or
\* in the temporary directory; while another format is at hand no format named
\* as its engine is to come; and what an engine asks for is not in the directory.
OwnFirst(c, n, m) ==
    m.what = "all" =>
        /\ ~m.mk
        /\ \A x \in Defined(c) : Enabled(c, x) =>
              x \in m.todo \/ x \in m.failed \/ x = m.cur \/ m.tmp[Name(x)] # None
        /\ m.cur # None /\ m.cur[1] # m.cur[2] => \A x \in m.todo : x[1] # x[2]
        /\ m.at = "asking" => n[m.cur] \in Formats /\ m.tmp[<<n[m.cur], Ext[m.cur[2]]>>] = None

Order == \A i \in 1..Len(procs) : OwnFirst(conf, needs, procs[i])

\* A program whose work on a format goes on or ends has kept the order.
LEMMA OutcomesOrder ==
    ASSUME NEW c, NEW n, NEW me \in Frames, me.cur \in Entries, OwnFirst(c, n, me)
    PROVE  \A m \in Outcomes(me) : OwnFirst(c, n, m)
  <1>1. me.cur # None
    BY FmtutilAssumption
  <1> DEFINE m == Fails(me)
             k == [me EXCEPT !.at = "install"]
             d == [me EXCEPT !.at = "dump"]
  <1>2. m = [me EXCEPT !.at = "choose", !.cur = None, !.failed = @ \cup {me.cur}]
    BY DEF Fails
  <1>3. /\ m.what = me.what /\ m.mk = me.mk /\ m.todo = me.todo /\ m.tmp = me.tmp
        /\ m.at = "choose" /\ m.cur = None /\ m.failed = me.failed \cup {me.cur}
    BY <1>2 DEF Frames
  <1>4. /\ k.what = me.what /\ k.mk = me.mk /\ k.todo = me.todo /\ k.tmp = me.tmp
        /\ k.at = "install" /\ k.cur = me.cur /\ k.failed = me.failed
    BY DEF Frames
  <1>5. /\ d.what = me.what /\ d.mk = me.mk /\ d.todo = me.todo /\ d.tmp = me.tmp
        /\ d.at = "dump" /\ d.cur = me.cur /\ d.failed = me.failed
    BY DEF Frames
  <1>6. Outcomes(me) = {m, k, d}
    BY DEF Outcomes
  <1> HIDE DEF m, k, d
  <1>7. OwnFirst(c, n, m)
    BY <1>3 DEF OwnFirst
  <1>8. OwnFirst(c, n, k)
    BY <1>4 DEF OwnFirst
  <1>9. OwnFirst(c, n, d)
    BY <1>5 DEF OwnFirst
  <1> QED  BY <1>6, <1>7, <1>8, <1>9

\* The innermost program of a stack has kept the order, and another takes its
\* place.
LEMMA ReplaceOrder ==
    ASSUME NEW c, NEW n, NEW s \in Seq(Frames), s # <<>>, NEW m \in Frames,
           \A i \in 1..Len(s) : OwnFirst(c, n, s[i]), OwnFirst(c, n, m),
           NEW r, r = Append(Front(s), m)
    PROVE  \A i \in 1..Len(r) : OwnFirst(c, n, r[i])
  <1>1. /\ Len(s) \in Nat \ {0} /\ Front(s) \in Seq(Frames) /\ Len(Front(s)) = Len(s) - 1
        /\ \A i \in 1..Len(s) - 1 : Front(s)[i] = s[i]
    BY InnermostOnly
  <1>2. /\ Len(r) = Len(Front(s)) + 1 /\ r[Len(Front(s)) + 1] = m
        /\ \A i \in 1 .. Len(Front(s)) : r[i] = Front(s)[i]
    BY <1>1, AppendProperties
  <1>3. ASSUME NEW i \in 1..Len(r) PROVE OwnFirst(c, n, r[i])
    <2>1. CASE i = Len(s)
      BY <1>1, <1>2, <2>1
    <2>2. CASE i # Len(s)
      <3>1. i \in 1..Len(s) - 1 /\ i \in 1..Len(s)
        BY <1>1, <1>2, <2>2
      <3>2. r[i] = s[i]
        BY <1>1, <1>2, <3>1
      <3> QED  BY <3>1, <3>2
    <2> QED  BY <2>1, <2>2
  <1> QED  BY <1>3

\* The innermost program goes on in order.
LEMMA GoesOnInOrder ==
    ASSUME IInv, Order, procs # <<>>, NEW m \in Frames, OwnFirst(conf, needs, m),
           Becomes(m), UNCHANGED <<conf, needs>>
    PROVE  Order'
  <1>1. procs \in Seq(Frames)
    BY DEF IInv, Programs, Stacked
  <1>2. \A i \in 1..Len(procs') : OwnFirst(conf, needs, procs'[i])
    BY <1>1, ReplaceOrder DEF Becomes, Order
  <1> QED  BY <1>2 DEF Order

\* The innermost program has kept the order.
LEMMA InnermostInOrder ==
    ASSUME IInv, Order, procs # <<>> PROVE OwnFirst(conf, needs, Me)
  <1>1. procs \in Seq(Frames)
    BY DEF IInv, Programs, Stacked
  <1>2. Len(procs) \in Nat \ {0} /\ Me = procs[Len(procs)]
    BY <1>1, InnermostOnly DEF Me
  <1>3. Len(procs) \in 1..Len(procs)
    BY <1>2
  <1> QED  BY <1>2, <1>3 DEF Order

\* What it does with the formats it does not select, and with those it gives up
\* or begins, keeps the order.
LEMMA ChooseInOrder ==
    ASSUME IInv, Order, Choose PROVE Order'
  <1>1. procs # <<>> /\ Me.at = "choose" /\ UNCHANGED <<conf, needs>>
    BY DEF Choose, Am, Quiet
  <1>2. Me \in Frames /\ Me.cur = None /\ OwnFirst(conf, needs, Me)
    BY <1>1, Innermost, InnermostInOrder
  <1>3. PICK p \in Eligible :
         LET me    == [Me EXCEPT !.todo = @ \ {p}]
             begun == [me EXCEPT !.loop = IF me.mk THEN @ \cup {p} ELSE @]
         IN IF ~Selected(p) THEN Becomes(me)
            ELSE \/ Becomes([me EXCEPT !.failed = @ \cup {p}])
                 \/ Loop(p) /\ Becomes([me EXCEPT !.at = "dead"])
                 \/ ~Loop(p) /\ Becomes([begun EXCEPT !.failed = @ \cup {p}])
                 \/ ~Loop(p) /\ Becomes([begun EXCEPT !.cur = p, !.at = "engine"])
    BY DEF Choose
  <1>4. p \in Me.todo /\ p \in Entries /\ p # None
    BY <1>2, FmtutilAssumption DEF Eligible, Frames
  <1>5. p[1] # p[2] => \A x \in Me.todo : x[1] # x[2]
    BY DEF Eligible
  <1> DEFINE me    == [Me EXCEPT !.todo = @ \ {p}]
             begun == [me EXCEPT !.loop = IF me.mk THEN @ \cup {p} ELSE @]
  <1>6. /\ me \in Frames /\ me.cur = None /\ me.at = "choose" /\ me.mk = Me.mk /\ me.what = Me.what
        /\ me.todo = Me.todo \ {p} /\ me.failed = Me.failed /\ me.tmp = Me.tmp
    BY <1>1, <1>2 DEF Frames
  <1> HIDE DEF me
  <1>7. /\ begun \in Frames /\ begun.cur = None /\ begun.at = "choose" /\ begun.mk = Me.mk
        /\ begun.what = Me.what /\ begun.todo = Me.todo \ {p} /\ begun.failed = Me.failed
        /\ begun.tmp = Me.tmp
    BY <1>4, <1>6 DEF Frames
  <1> HIDE DEF begun
  <1>8. IF ~Selected(p) THEN Becomes(me)
        ELSE \/ Becomes([me EXCEPT !.failed = @ \cup {p}])
             \/ Loop(p) /\ Becomes([me EXCEPT !.at = "dead"])
             \/ ~Loop(p) /\ Becomes([begun EXCEPT !.failed = @ \cup {p}])
             \/ ~Loop(p) /\ Becomes([begun EXCEPT !.cur = p, !.at = "engine"])
    BY <1>3 DEF me, begun
  <1>9. CASE ~Selected(p) /\ Becomes(me)
    <2>1. Me.what = "all" => ~Enabled(conf, p)
      BY <1>9 DEF Selected
    <2>2. OwnFirst(conf, needs, me)
      BY <1>2, <1>4, <1>6, <2>1 DEF OwnFirst
    <2> QED  BY <1>1, <1>6, <1>9, <2>2, GoesOnInOrder
  <1>10. CASE Becomes([me EXCEPT !.failed = @ \cup {p}])
    <2> DEFINE m == [me EXCEPT !.failed = @ \cup {p}]
    <2>1. /\ m \in Frames /\ m.cur = None /\ m.at = "choose" /\ m.mk = Me.mk /\ m.what = Me.what
          /\ m.todo = Me.todo \ {p} /\ m.failed = Me.failed \cup {p} /\ m.tmp = Me.tmp
      BY <1>4, <1>6 DEF Frames
    <2>2. Becomes(m)
      BY <1>10
    <2> HIDE DEF m
    <2>3. OwnFirst(conf, needs, m)
      BY <1>2, <2>1 DEF OwnFirst
    <2> QED  BY <1>1, <2>1, <2>2, <2>3, GoesOnInOrder
  <1>11. CASE Loop(p) /\ Becomes([me EXCEPT !.at = "dead"])
    <2> DEFINE m == [me EXCEPT !.at = "dead"]
    <2>1. m \in Frames /\ m.mk = Me.mk /\ m.what = Me.what
      BY <1>6 DEF Frames
    <2>2. Becomes(m) /\ Me.mk
      BY <1>11 DEF Loop
    <2> HIDE DEF m
    <2>3. OwnFirst(conf, needs, m)
      BY <1>2, <2>1, <2>2 DEF OwnFirst
    <2> QED  BY <1>1, <2>1, <2>2, <2>3, GoesOnInOrder
  <1>12. CASE Becomes([begun EXCEPT !.failed = @ \cup {p}])
    <2> DEFINE m == [begun EXCEPT !.failed = @ \cup {p}]
    <2>1. /\ m \in Frames /\ m.cur = None /\ m.at = "choose" /\ m.mk = Me.mk /\ m.what = Me.what
          /\ m.todo = Me.todo \ {p} /\ m.failed = Me.failed \cup {p} /\ m.tmp = Me.tmp
      BY <1>4, <1>7 DEF Frames
    <2>2. Becomes(m)
      BY <1>12
    <2> HIDE DEF m
    <2>3. OwnFirst(conf, needs, m)
      BY <1>2, <2>1 DEF OwnFirst
    <2> QED  BY <1>1, <2>1, <2>2, <2>3, GoesOnInOrder
  <1>13. CASE Becomes([begun EXCEPT !.cur = p, !.at = "engine"])
    <2> DEFINE m == [begun EXCEPT !.cur = p, !.at = "engine"]
    <2>1. /\ m \in Frames /\ m.cur = p /\ m.at = "engine" /\ m.mk = Me.mk /\ m.what = Me.what
          /\ m.todo = Me.todo \ {p} /\ m.failed = Me.failed /\ m.tmp = Me.tmp
      BY <1>4, <1>7 DEF Frames
    <2>2. Becomes(m)
      BY <1>13
    <2> HIDE DEF m
    <2>3. ASSUME m.what = "all"
          PROVE  /\ ~m.mk
                 /\ \A x \in Defined(conf) : Enabled(conf, x) =>
                       x \in m.todo \/ x \in m.failed \/ x = m.cur \/ m.tmp[Name(x)] # None
      <3>1. /\ ~Me.mk
            /\ \A x \in Defined(conf) : Enabled(conf, x) =>
                  x \in Me.todo \/ x \in Me.failed \/ x = None \/ Me.tmp[Name(x)] # None
        BY <1>2, <2>1, <2>3 DEF OwnFirst
      <3>2. \A x \in Defined(conf) : x # None
        BY FmtutilAssumption DEF Defined
      <3> QED  BY <2>1, <3>1, <3>2
    <2>4. m.cur[1] # m.cur[2] => \A x \in m.todo : x[1] # x[2]
      BY <1>5, <2>1
    <2>5. OwnFirst(conf, needs, m)
      BY <2>1, <2>3, <2>4 DEF OwnFirst
    <2> QED  BY <1>1, <2>1, <2>2, <2>5, GoesOnInOrder
  <1> QED  BY <1>8, <1>9, <1>10, <1>11, <1>12, <1>13

\* What no directory has, that of the innermost program has not.
LEMMA NotInTmp ==
    ASSUME IInv, procs # <<>>, NEW f \in Names, InTmp(f) = None PROVE Me.tmp[f] = None
  <1> DEFINE Has(q) == q.tmp[f] # None
             I == {i \in 1..Len(procs) : Has(procs[i])}
  <1>1. procs \in Seq(Frames) /\ Len(procs) \in Nat \ {0} /\ Me = procs[Len(procs)]
    BY InnermostOnly DEF IInv, Programs, Stacked, Me
  <1>2. InTmp(f) = LET k == IF I # {} THEN Max(I) ELSE 0 IN IF k = 0 THEN None ELSE procs[k].tmp[f]
    BY DEF InTmp, SelectLastInSeq
  <1>3. SUFFICES ASSUME Has(procs[Len(procs)]) PROVE FALSE
    BY <1>1
  <1>4. Len(procs) \in I /\ \A i \in I : i <= Len(procs)
    BY <1>1, <1>3
  <1>5. Max(I) = Len(procs)
    BY <1>1, <1>4 DEF Max
  <1> QED  BY <1>1, <1>2, <1>3, <1>4, <1>5

\* The engine asks for what is in no directory.
LEMMA EngineInOrder ==
    ASSUME IInv, Order, Engine PROVE Order'
  <1>1. procs # <<>> /\ Me.at = "engine" /\ UNCHANGED <<conf, needs>>
    BY DEF Engine, Am, Quiet
  <1>2. Me \in Frames /\ Me.cur \in Entries /\ OwnFirst(conf, needs, Me)
    BY <1>1, Innermost, InnermostInOrder
  <1> DEFINE f == needs[Me.cur]  n == <<f, Ext[Me.cur[2]]>>
             asking == [Me EXCEPT !.at = "asking"]
             p == Started(TRUE, Mktexfmt(f), Me.loop)
  <1>3. f \in Formats \cup {""}
    BY <1>2, FmtutilAssumption DEF IInv, Files
  <1>4. \/ Becomes([Me EXCEPT !.at = "dump"])
        \/ Becomes(Loads(Me, FoundFormat(n)))
        \/ f # "" /\ FoundFormat(n) = None /\ procs' = Append(Append(Front(procs), asking), p)
    BY DEF Engine
  <1>5. CASE Becomes([Me EXCEPT !.at = "dump"])
    <2>1. [Me EXCEPT !.at = "dump"] \in Frames
      BY <1>2 DEF Frames
    <2>2. OwnFirst(conf, needs, [Me EXCEPT !.at = "dump"])
      BY <1>2, OutcomesOrder DEF Outcomes
    <2> QED  BY <1>1, <1>5, <2>1, <2>2, GoesOnInOrder
  <1>6. CASE Becomes(Loads(Me, FoundFormat(n)))
    <2>1. Loads(Me, FoundFormat(n)) \in Outcomes(Me)
      BY DEF Loads, EngineFails, Outcomes
    <2>2. AtWork(Me)
      BY <1>1, Innermost
    <2>3. Loads(Me, FoundFormat(n)) \in Frames
      BY <1>2, <2>1, <2>2, OutcomesType
    <2>4. OwnFirst(conf, needs, Loads(Me, FoundFormat(n)))
      BY <1>2, <2>1, OutcomesOrder
    <2> QED  BY <1>1, <1>6, <2>3, <2>4, GoesOnInOrder
  <1>7. CASE f # "" /\ FoundFormat(n) = None /\ procs' = Append(Append(Front(procs), asking), p)
    <2>1. f \in Formats /\ n \in Names /\ InTmp(n) = None
      BY <1>2, <1>3, <1>7, DumpHasAName DEF FoundFormat
    <2>2. Me.tmp[n] = None
      BY <1>1, <2>1, NotInTmp
    <2>3. /\ asking \in Frames /\ asking.cur = Me.cur /\ asking.mk = Me.mk /\ asking.what = Me.what
          /\ asking.todo = Me.todo /\ asking.failed = Me.failed /\ asking.tmp = Me.tmp
      BY <1>2 DEF Frames
    <2>4. p.what = "byfmt"
      BY DEF Started, Mktexfmt
    <2> DEFINE r == Append(Front(procs), asking)
    <2>5. procs' = Append(r, p)
      BY <1>7
    <2> HIDE DEF asking, p
    <2>6. OwnFirst(conf, needs, asking)
      BY <1>2, <2>1, <2>2, <2>3 DEF OwnFirst
    <2>7. OwnFirst(conf, needs, p)
      BY <2>4 DEF OwnFirst
    <2>8. procs \in Seq(Frames) /\ Front(procs) \in Seq(Frames)
      BY <1>1, InnermostOnly DEF IInv, Programs, Stacked
    <2>9. r \in Seq(Frames) /\ \A i \in 1..Len(r) : OwnFirst(conf, needs, r[i])
      BY <1>1, <2>3, <2>6, <2>8, ReplaceOrder, AppendProperties DEF Order
    <2> HIDE DEF r
    <2>10. /\ Len(procs') = Len(r) + 1 /\ procs'[Len(r) + 1] = p /\ Len(r) \in Nat
           /\ \A i \in 1..Len(r) : procs'[i] = r[i]
      BY <2>5, <2>9, AppendProperties
    <2>11. \A i \in 1..Len(procs') : OwnFirst(conf, needs, procs'[i])
      BY <2>7, <2>9, <2>10
    <2> QED  BY <1>1, <2>11 DEF Order
  <1> QED  BY <1>4, <1>5, <1>6, <1>7

\* A dump in the directory stays there.
LEMMA DumpInOrder ==
    ASSUME IInv, Order, Dump PROVE Order'
  <1>1. procs # <<>> /\ Me.at = "dump" /\ UNCHANGED <<conf, needs>>
    BY DEF Dump, Am, Quiet
  <1>2. Me \in Frames /\ Me.cur \in Entries /\ AtWork(Me) /\ OwnFirst(conf, needs, Me)
    BY <1>1, Innermost, InnermostInOrder
  <1>3. PICK wrote \in BOOLEAN, error \in BOOLEAN :
          LET me == [Me EXCEPT !.tmp[Name(Me.cur)] = IF wrote THEN Me.cur ELSE @]
          IN Becomes(IF error THEN EngineFails(me) ELSE [me EXCEPT !.at = "install"])
    BY DEF Dump
  <1> DEFINE tmp == [Me.tmp EXCEPT ![Name(Me.cur)] = IF wrote THEN Me.cur ELSE @]
             me  == [Me EXCEPT !.tmp = tmp]
  <1>4. Me.tmp \in [Names -> Entries \cup {None}] /\ Name(Me.cur) \in Names /\ Me.cur # None
    BY <1>2, DumpHasAName, FmtutilAssumption DEF Frames
  <1>5. /\ tmp \in [Names -> Entries \cup {None}]
        /\ \A g \in Names : Me.tmp[g] # None => tmp[g] # None
    BY <1>2, <1>4
  <1>6. me = [Me EXCEPT !.tmp[Name(Me.cur)] = IF wrote THEN Me.cur ELSE @]
    OBVIOUS
  <1> HIDE DEF tmp
  <1>7. /\ me \in Frames /\ me.at = "dump" /\ me.cur = Me.cur /\ me.mk = Me.mk /\ me.what = Me.what
        /\ me.todo = Me.todo /\ me.failed = Me.failed /\ me.tmp = tmp
        /\ me.loop = Me.loop
    BY <1>1, <1>2, <1>5 DEF Frames
  <1>8. Becomes(IF error THEN EngineFails(me) ELSE [me EXCEPT !.at = "install"])
    BY <1>3, <1>6
  <1> HIDE DEF me
  <1>9. OwnFirst(conf, needs, me)
    <2>1. \A x \in Defined(conf) : Name(x) \in Names
      BY DumpHasAName DEF Defined
    <2> QED  BY <1>2, <1>5, <1>7, <2>1 DEF OwnFirst
  <1>10. AtWork(me)
    BY <1>1, <1>2, <1>7 DEF AtWork
  <1> DEFINE m == IF error THEN EngineFails(me) ELSE [me EXCEPT !.at = "install"]
  <1>11. m \in Outcomes(me)
    BY DEF EngineFails, Outcomes
  <1> HIDE DEF m
  <1>12. m \in Frames /\ OwnFirst(conf, needs, m)
    BY <1>2, <1>7, <1>9, <1>10, <1>11, OutcomesType, OutcomesOrder
  <1> QED  BY <1>1, <1>8, <1>12, GoesOnInOrder DEF m

\* What is copied was in the directory.
LEMMA InstallInOrder ==
    ASSUME IInv, Order, Install PROVE Order'
  <1> DEFINE p == Me.cur
             printed == IF Me.mk /\ Me.printed = None THEN p ELSE Me.printed
             done == [Me EXCEPT !.at = "choose", !.cur = None, !.printed = printed]
  <1>1. procs # <<>> /\ Me.at = "install" /\ UNCHANGED <<conf, needs>>
    BY DEF Install, Am, Quiet
  <1>2. Me \in Frames /\ p \in Entries /\ AtWork(Me) /\ OwnFirst(conf, needs, Me)
    BY <1>1, Innermost, InnermostInOrder
  <1>3. \/ Becomes(Fails(Me)) /\ UNCHANGED <<dest, leftover>>
        \/ Me.tmp[Name(p)] # None /\ Becomes(done)
        \/ Becomes(Fails(Me))
    BY DEF Install
  <1>4. CASE Becomes(Fails(Me))
    <2>1. Fails(Me) \in Outcomes(Me)
      BY DEF Outcomes
    <2>2. Fails(Me) \in Frames /\ OwnFirst(conf, needs, Fails(Me))
      BY <1>2, <2>1, OutcomesType, OutcomesOrder
    <2> QED  BY <1>1, <1>4, <2>2, GoesOnInOrder
  <1>5. CASE Me.tmp[Name(p)] # None /\ Becomes(done)
    <2>1. printed \in Entries \cup {None}
      BY <1>2 DEF Frames
    <2> HIDE DEF printed
    <2>2. /\ done \in Frames /\ done.at = "choose" /\ done.cur = None /\ done.mk = Me.mk
          /\ done.what = Me.what /\ done.todo = Me.todo /\ done.failed = Me.failed
          /\ done.tmp = Me.tmp
      BY <1>2, <2>1 DEF Frames
    <2>3. Becomes(done)
      BY <1>5
    <2> HIDE DEF done
    <2>4. OwnFirst(conf, needs, done)
      BY <1>2, <1>5, <2>2 DEF OwnFirst
    <2> QED  BY <1>1, <2>2, <2>3, <2>4, GoesOnInOrder
  <1> QED  BY <1>3, <1>4, <1>5

\* The engine that waited has what it asked for, or fails.
LEMMA EndInOrder ==
    ASSUME IInv, Order, End PROVE Order'
  <1>1. procs # <<>> /\ Stacked(procs) /\ UNCHANGED <<conf, needs>>
    BY DEF End, Am, Quiet, IInv, Programs
  <1> DEFINE up  == Front(procs)
             got == IF Me.printed = None THEN None
                    ELSE Installed(Destination(Me.flat, Me.printed))
             m   == Loads(Last(up), got)
  <1>2. IF Len(procs) = 1 THEN procs' = <<>> ELSE procs' = Append(Front(up), m)
    BY DEF End
  <1>3. CASE Len(procs) = 1
    BY <1>2, <1>3 DEF Order
  <1>4. CASE Len(procs) # 1
    <2>1. /\ Stacked(up) /\ up # <<>> /\ Last(up).at = "asking"
          /\ Len(procs) \in Nat \ {0} /\ Len(up) = Len(procs) - 1
          /\ \A i \in 1..Len(procs) - 1 : up[i] = procs[i]
      <3>1. Stacked(up) /\ up # <<>> /\ Last(up).at = "asking"
        BY <1>1, <1>4, PopStacked
      <3>2. procs \in Seq(Frames)
        BY <1>1 DEF Stacked
      <3> QED  BY <1>1, <3>1, <3>2, InnermostOnly
    <2> HIDE DEF up
    <2>2. /\ Last(up) \in Frames /\ Last(up) = up[Len(up)] /\ Len(up) \in 1..Len(up)
          /\ up \in Seq(Frames)
      BY <2>1, InnermostOnly DEF Stacked
    <2>3. AtWork(Last(up)) /\ Last(up).cur \in Entries
      BY <2>1, <2>2 DEF Stacked, AtWork, Frames
    <2>4. \A i \in 1..Len(up) : i \in 1..Len(procs) /\ up[i] = procs[i]
      BY <2>1
    <2>5. \A i \in 1..Len(up) : OwnFirst(conf, needs, up[i])
      BY <2>4 DEF Order
    <2>6. m \in Outcomes(Last(up))
      BY DEF Loads, EngineFails, Outcomes
    <2>7. m \in Frames /\ OwnFirst(conf, needs, m)
      BY <2>2, <2>3, <2>5, <2>6, OutcomesType, OutcomesOrder
    <2> HIDE DEF m
    <2>8. \A i \in 1..Len(procs') : OwnFirst(conf, needs, procs'[i])
      BY <1>2, <1>4, <2>1, <2>2, <2>5, <2>7, ReplaceOrder
    <2> QED  BY <1>1, <2>8 DEF Order
  <1> QED  BY <1>3, <1>4

\* A command has all formats before it.
LEMMA BuildInOrder ==
    ASSUME Build PROVE Order'
  <1>1. UNCHANGED <<conf, needs>>
    BY DEF Build
  <1>2. PICK c \in Commands : procs' = <<Started(FALSE, c, {})>>
    BY DEF Build
  <1> DEFINE p == Started(FALSE, c, {})
  <1>3. ~p.mk /\ p.todo = Defined(conf) /\ p.cur = None /\ p.at = "choose"
    BY DEF Started
  <1>4. OwnFirst(conf, needs, p)
    BY <1>3 DEF OwnFirst
  <1>5. Len(procs') = 1 /\ procs'[1] = p
    BY <1>2
  <1> HIDE DEF p
  <1> QED  BY <1>1, <1>4, <1>5 DEF Order

-----------------------------------------------------------------------------
(* Reading and saving fmtutil.cnf *)

\* The order of the natural numbers, as a set of pairs.
Less == {x \in Nat \X Nat : x[1] < x[2]}

\* A set of natural numbers that is not empty has a least element.
LEMMA Least ==
    ASSUME NEW T \in SUBSET Nat, T # {}
    PROVE  \E x \in T : \A y \in T : x <= y
  <1>1. Less \cap (Nat \X Nat) \subseteq OpToRel(<, Nat)
    BY DEF Less, OpToRel
  <1>2. IsWellFoundedOn(Less, Nat)
    BY <1>1, NatLessThanWellFounded, IsWellFoundedOnSubrelation
  <1>3. PICK x \in T : \A y \in T : ~ (<<y, x>> \in Less)
    BY <1>2, WFMin
  <1>4. ASSUME NEW y \in T PROVE x <= y
    <2>1. x \in Nat /\ y \in Nat /\ ~ (<<y, x>> \in Less)
      BY <1>3
    <2> QED  BY <2>1 DEF Less
  <1> QED  BY <1>4

\* The line that defines an entry is the first one that mentions it.
LEMMA FirstMention ==
    ASSUME NEW lines \in Seq(Lines), NEW p, Mentions(lines, p)
    PROVE  /\ Mention(lines, p) \in 1..Len(lines) /\ lines[Mention(lines, p)].of = p
           /\ \A j \in 1..Len(lines) : lines[j].of = p => Mention(lines, p) <= j
  <1> DEFINE T == {i \in 1..Len(lines) : lines[i].of = p}
  <1>1. T # {} /\ T \in SUBSET Nat
    BY DEF Mentions
  <1>2. PICK i \in T : \A j \in T : i <= j
    BY <1>1, Least
  <1>3. \E k \in DOMAIN lines :
           lines[k].of = p /\ \A j \in DOMAIN lines : lines[j].of = p => k <= j
    BY <1>2
  <1> QED  BY <1>3 DEF Mention

\* No other line is.
LEMMA OnlyMention ==
    ASSUME NEW lines \in Seq(Lines), NEW p, NEW i \in 1..Len(lines), lines[i].of = p,
           \A j \in 1..Len(lines) : lines[j].of = p => i <= j
    PROVE  Mentions(lines, p) /\ Mention(lines, p) = i
  <1>1. Mentions(lines, p)
    BY DEF Mentions
  <1>2. /\ Mention(lines, p) \in 1..Len(lines)
        /\ Mention(lines, p) <= i /\ i <= Mention(lines, p)
    BY <1>1, FirstMention
  <1> QED  BY <1>1, <1>2

\* The two ways of giving an entry a status in a file.
Rewrite(lines, p, on) == [lines EXCEPT ![Mention(lines, p)] = [of |-> p, on |-> on]]
Add(lines, p, on)     == Append(lines, [of |-> p, on |-> on])

\* Rewriting the line that defines an entry sets its status and no other.
LEMMA Rewritten ==
    ASSUME NEW lines \in Seq(Lines), NEW p \in Entries, NEW on \in BOOLEAN, Mentions(lines, p),
           NEW new, new = Rewrite(lines, p, on)
    PROVE  /\ \A x : Mentions(new, x) <=> Mentions(lines, x)
           /\ \A x : Mentions(lines, x) =>
                new[Mention(new, x)].on = IF x = p THEN on ELSE lines[Mention(lines, x)].on
           /\ \A l \in Range(lines) : l.of # p => l \in Range(new)
  <1> DEFINE m == Mention(lines, p)  line == [of |-> p, on |-> on]
  <1>1. m \in 1..Len(lines) /\ lines[m].of = p
    BY FirstMention
  <1>2. line \in Lines /\ line.of = p /\ line.on = on
    BY DEF Lines
  <1> HIDE DEF m, line
  <1>3. PICK n \in Nat : lines \in [1..n -> Lines] /\ n = Len(lines)
    BY SeqDef
  <1>4. new \in [1..n -> Lines] /\ \A i \in 1..n : new[i] = IF i = m THEN line ELSE lines[i]
    BY <1>2, <1>3 DEF m, line, Rewrite
  <1>5. new \in Seq(Lines) /\ Len(new) = Len(lines) /\ DOMAIN new = 1..Len(lines)
    BY <1>3, <1>4, SeqDef
  <1>6. \A i \in 1..Len(lines) : new[i].of = lines[i].of
    BY <1>1, <1>2, <1>3, <1>4
  <1>7. ASSUME NEW x PROVE Mentions(new, x) <=> Mentions(lines, x)
    BY <1>5, <1>6 DEF Mentions
  <1>8. ASSUME NEW x, Mentions(lines, x)
        PROVE  new[Mention(new, x)].on = IF x = p THEN on ELSE lines[Mention(lines, x)].on
    <2> DEFINE k == Mention(lines, x)
    <2>1. /\ k \in 1..Len(lines) /\ lines[k].of = x
          /\ \A j \in 1..Len(lines) : lines[j].of = x => k <= j
      BY <1>8, FirstMention
    <2> HIDE DEF k
    <2>2. Mention(new, x) = k
      <3>1. /\ new \in Seq(Lines) /\ k \in 1..Len(new) /\ new[k].of = x
            /\ \A j \in 1..Len(new) : new[j].of = x => k <= j
        BY <1>5, <1>6, <2>1
      <3> QED  BY ONLY <3>1, OnlyMention
    <2>3. CASE x = p
      <3>1. k = m
        BY <2>3 DEF k, m
      <3> QED  BY <1>2, <1>3, <1>4, <2>1, <2>2, <2>3, <3>1
    <2>4. CASE x # p
      <3>1. k # m
        BY <1>1, <2>1, <2>4
      <3>2. new[k] = lines[k]
        BY <1>3, <1>4, <2>1, <3>1
      <3> QED  BY <2>2, <2>4, <3>2 DEF k
    <2> QED  BY <2>3, <2>4
  <1>9. ASSUME NEW l \in Range(lines), l.of # p PROVE l \in Range(new)
    <2>1. PICK i \in 1..Len(lines) : lines[i] = l
      BY DEF Range
    <2>2. new[i] = l
      BY <1>1, <1>3, <1>4, <1>9, <2>1
    <2> QED  BY <1>5, <2>1, <2>2 DEF Range
  <1> QED  BY <1>7, <1>8, <1>9

\* So does adding a line for an entry that had none.
LEMMA Added ==
    ASSUME NEW lines \in Seq(Lines), NEW p \in Entries, NEW on \in BOOLEAN, ~Mentions(lines, p),
           NEW new, new = Add(lines, p, on)
    PROVE  /\ \A x : Mentions(new, x) <=> x = p \/ Mentions(lines, x)
           /\ \A x : Mentions(new, x) =>
                new[Mention(new, x)].on = IF x = p THEN on ELSE lines[Mention(lines, x)].on
           /\ \A l \in Range(lines) : l \in Range(new)
  <1> DEFINE line == [of |-> p, on |-> on]
  <1>1. line \in Lines /\ line.of = p /\ line.on = on
    BY DEF Lines
  <1> HIDE DEF line
  <1>2. /\ new \in Seq(Lines) /\ Len(new) = Len(lines) + 1 /\ new[Len(lines) + 1] = line
        /\ \A i \in 1..Len(lines) : new[i] = lines[i]
    BY <1>1, AppendProperties DEF line, Add
  <1>3. Len(lines) \in Nat /\ DOMAIN lines = 1..Len(lines) /\ DOMAIN new = 1..Len(lines) + 1
    BY <1>2
  <1>4. \A j \in 1..Len(lines) : lines[j].of # p
    BY <1>3 DEF Mentions
  <1>5. \A i \in 1..Len(lines) + 1 : i = Len(lines) + 1 \/ i \in 1..Len(lines)
    BY <1>3
  <1>6. ASSUME NEW x, x # p, NEW k \in 1..Len(lines), lines[k].of = x,
               \A j \in 1..Len(lines) : lines[j].of = x => k <= j
        PROVE  Mention(new, x) = k
    <2>1. ASSUME NEW j \in 1..Len(new), new[j].of = x PROVE k <= j
      <3>1. j # Len(lines) + 1
        BY <1>1, <1>2, <1>6, <2>1
      <3> QED  BY <1>2, <1>5, <1>6, <2>1, <3>1
    <2>2. k \in 1..Len(new) /\ new[k].of = x
      BY <1>2, <1>3, <1>6
    <2>3. \A j \in 1..Len(new) : new[j].of = x => k <= j
      BY <2>1
    <2>4. new \in Seq(Lines)
      BY <1>2
    <2> QED  BY ONLY <2>2, <2>3, <2>4, OnlyMention
  <1>7. Mention(new, p) = Len(lines) + 1
    <2>1. ASSUME NEW j \in 1..Len(new), new[j].of = p PROVE Len(lines) + 1 <= j
      BY <1>2, <1>3, <1>4, <1>5, <2>1
    <2>2. Len(lines) + 1 \in 1..Len(new) /\ new[Len(lines) + 1].of = p
      BY <1>1, <1>2, <1>3
    <2> QED  BY <1>2, <2>1, <2>2, OnlyMention
  <1>8. ASSUME NEW x PROVE Mentions(new, x) <=> x = p \/ Mentions(lines, x)
    BY <1>1, <1>2, <1>3, <1>5 DEF Mentions
  <1>9. ASSUME NEW x, Mentions(new, x)
        PROVE  new[Mention(new, x)].on = IF x = p THEN on ELSE lines[Mention(lines, x)].on
    <2>1. CASE x = p
      BY <1>1, <1>2, <1>7, <2>1
    <2>2. CASE x # p
      <3> DEFINE k == Mention(lines, x)
      <3>1. Mentions(lines, x)
        BY <1>8, <1>9, <2>2
      <3>2. /\ k \in 1..Len(lines) /\ lines[k].of = x
            /\ \A j \in 1..Len(lines) : lines[j].of = x => k <= j
        BY <3>1, FirstMention
      <3> HIDE DEF k
      <3>3. Mention(new, x) = k /\ new[k] = lines[k]
        BY <1>2, <1>6, <2>2, <3>2
      <3> QED  BY <2>2, <3>3 DEF k
    <2> QED  BY <2>1, <2>2
  <1>10. ASSUME NEW l \in Range(lines) PROVE l \in Range(new)
    <2>1. PICK i \in 1..Len(lines) : lines[i] = l
      BY DEF Range
    <2>2. new[i] = l /\ i \in DOMAIN new
      BY <1>2, <1>3, <2>1
    <2> QED  BY <2>2 DEF Range
  <1> QED  BY <1>8, <1>9, <1>10

\* An entry is defined in a file that kpsewhich finds.
Defines(c, f, p) == c[f].found /\ Mentions(c[f].lines, p)

\* The first of the three files with some property.
LEMMA FirstPath ==
    ASSUME NEW T, T \subseteq 1..3, T # {}
    PROVE  Min(T) = IF 1 \in T THEN 1 ELSE IF 2 \in T THEN 2 ELSE 3
  <1>1. ASSUME NEW k \in T, \A j \in T : k <= j PROVE Min(T) = k
    <2>1. Min(T) \in T /\ \A j \in T : Min(T) <= j
      BY <1>1 DEF Min
    <2>2. Min(T) <= k /\ k <= Min(T) /\ k \in 1..3 /\ Min(T) \in 1..3
      BY <1>1, <2>1
    <2> QED  BY <2>2
  <1>2. CASE 1 \in T
    <2>1. \A j \in T : 1 <= j
      OBVIOUS
    <2> QED  BY <1>1, <1>2, <2>1
  <1>3. CASE 1 \notin T /\ 2 \in T
    <2>1. \A j \in T : 2 <= j
      BY <1>3
    <2> QED  BY <1>1, <1>3, <2>1
  <1>4. CASE 1 \notin T /\ 2 \notin T
    <2>1. \A j \in T : j = 3
      BY <1>4
    <2>2. PICK k \in T : k = 3
      BY <2>1
    <2>3. 3 \in T /\ \A j \in T : 3 <= j
      BY <2>1, <2>2
    <2> QED  BY <1>1, <1>4, <2>3
  <1> QED  BY <1>2, <1>3, <1>4

\* Where an entry is defined.
LEMMA OriginOf ==
    ASSUME NEW c, NEW p \in Defined(c)
    PROVE  /\ Origin(c, p) = IF Defines(c, "TEXMFCONFIG", p) THEN "TEXMFCONFIG"
                             ELSE IF Defines(c, "TEXMFHOME", p) THEN "TEXMFHOME" ELSE "TEXMFDIST"
           /\ Defines(c, Origin(c, p), p)
  <1> DEFINE T == {i \in 1..Len(Paths) : Defines(c, Paths[i], p)}
  <1>1. /\ Len(Paths) = 3 /\ DOMAIN Paths = 1..3 /\ Paths[1] = "TEXMFCONFIG"
        /\ Paths[2] = "TEXMFHOME" /\ Paths[3] = "TEXMFDIST"
    BY DEF Paths
  <1>2. PICK f \in Range(Paths) : Defines(c, f, p)
    BY DEF Defined, Used, Defines
  <1>3. PICK i \in 1..3 : Paths[i] = f
    BY <1>1, <1>2 DEF Range
  <1>4. T \subseteq 1..3 /\ T # {}
    BY <1>1, <1>2, <1>3
  <1>5. Origin(c, p) = Paths[Min(T)]
    BY <1>4 DEF Origin, SelectInSeq, Defines
  <1>6. /\ 1 \in T <=> Defines(c, "TEXMFCONFIG", p)
        /\ 2 \in T <=> Defines(c, "TEXMFHOME", p)
        /\ 3 \in T <=> Defines(c, "TEXMFDIST", p)
    BY <1>1
  <1>7. 1 \in T \/ 2 \in T \/ 3 \in T
    BY <1>4
  <1> HIDE DEF T
  <1>8. Min(T) = IF 1 \in T THEN 1 ELSE IF 2 \in T THEN 2 ELSE 3
    BY <1>4, FirstPath
  <1> QED  BY <1>1, <1>5, <1>6, <1>7, <1>8

\* The file that changes go to: nothing that is found comes before it.
LEMMA ChangesGoTo ==
    ASSUME NEW c
    PROVE  ChangesConfig(c) = IF ~c["TEXMFCONFIG"].found /\ c["TEXMFHOME"].found
                              THEN "TEXMFHOME" ELSE "TEXMFCONFIG"
  <1> DEFINE T == {i \in 1..Len(Paths) : c[Paths[i]].found}
  <1>1. /\ Len(Paths) = 3 /\ Paths[1] = "TEXMFCONFIG"
        /\ Paths[2] = "TEXMFHOME" /\ Paths[3] = "TEXMFDIST"
    BY DEF Paths
  <1>2. Range(Paths) = {"TEXMFCONFIG", "TEXMFHOME", "TEXMFDIST"}
    <2>1. DOMAIN Paths = 1..3
      BY DEF Paths
    <2> QED  BY <1>1, <2>1 DEF Range
  <1>3. 1 \in T <=> c["TEXMFCONFIG"].found
    BY <1>1
  <1>4. 2 \in T <=> c["TEXMFHOME"].found
    BY <1>1
  <1>5. T \subseteq 1..3
    BY <1>1
  <1>6. ChangesConfig(c) = IF Used(c) \cap {"TEXMFCONFIG", "TEXMFHOME"} = {} THEN "TEXMFCONFIG"
                           ELSE IF T # {} THEN Paths[Min(T)] ELSE Paths[0]
    BY DEF ChangesConfig, SelectInSeq
  <1> HIDE DEF T
  <1>7. CASE ~c["TEXMFCONFIG"].found /\ ~c["TEXMFHOME"].found
    BY <1>2, <1>6, <1>7 DEF Used
  <1>8. CASE c["TEXMFCONFIG"].found \/ c["TEXMFHOME"].found
    <2>1. Used(c) \cap {"TEXMFCONFIG", "TEXMFHOME"} # {}
      BY <1>2, <1>8 DEF Used
    <2>2. T # {}
      BY <1>3, <1>4, <1>8
    <2>3. Min(T) = IF 1 \in T THEN 1 ELSE IF 2 \in T THEN 2 ELSE 3
      BY <1>5, <2>2, FirstPath
    <2> QED  BY <1>1, <1>3, <1>4, <1>6, <1>8, <2>1, <2>2, <2>3
  <1> QED  BY <1>7, <1>8

\* What saving a change does to the file of changes.
LEMMA TargetSaved ==
    ASSUME NEW c, ConfOK(c), NEW p \in Defined(c), NEW on \in BOOLEAN,
           NEW tc, tc = ChangesConfig(c), NEW new, new = Saved(c, p, on)
    PROVE  /\ tc \in Range(Paths) /\ new[tc].found
           /\ \A f \in Range(Paths) : f # tc => new[f] = c[f]
           /\ \A x : Mentions(new[tc].lines, x) <=> x = p \/ Defines(c, tc, x)
           /\ \A x : Mentions(new[tc].lines, x) =>
                new[tc].lines[Mention(new[tc].lines, x)].on =
                  IF x = p THEN on ELSE c[tc].lines[Mention(c[tc].lines, x)].on
           /\ \A l \in Range(c[tc].lines) :
                (c[tc].there => c[tc].found) /\ l.of # p => l \in Range(new[tc].lines)
  <1> DEFINE read  == IF c[tc].found THEN c[tc].lines ELSE <<>>
             line  == [of |-> p, on |-> on]
             lines == IF Origin(c, p) = tc THEN [read EXCEPT ![Mention(read, p)] = line]
                      ELSE Append(read, line)
             file  == [there |-> TRUE, found |-> c[tc].found \/ read = <<>>, lines |-> lines]
  <1>1. Range(Paths) = {"TEXMFCONFIG", "TEXMFHOME", "TEXMFDIST"}
    <2>1. DOMAIN Paths = 1..3 /\ Paths[1] = "TEXMFCONFIG" /\ Paths[2] = "TEXMFHOME" /\ Paths[3] = "TEXMFDIST"
      BY DEF Paths
    <2> QED  BY <2>1 DEF Range
  <1>2. tc = IF ~c["TEXMFCONFIG"].found /\ c["TEXMFHOME"].found THEN "TEXMFHOME" ELSE "TEXMFCONFIG"
    BY ChangesGoTo
  <1>3. tc \in Range(Paths) /\ p \in Entries
    BY <1>1, <1>2 DEF Defined
  <1>4. new = [c EXCEPT ![tc] = file]
    BY DEF Saved
  <1>5. /\ file.found = (c[tc].found \/ read = <<>>) /\ file.lines = lines
    OBVIOUS
  <1>6. read \in Seq(Lines) /\ c[tc].lines \in Seq(Lines) /\ (~c[tc].there => c[tc].lines = <<>>)
    <2>1. c[tc].lines \in Seq(Lines) /\ (~c[tc].there => c[tc].lines = <<>>)
      BY <1>3 DEF ConfOK
    <2> QED  BY <2>1
  <1>7. \A x : Mentions(read, x) <=> Defines(c, tc, x)
    BY DEF Defines, Mentions
  <1>8. Origin(c, p) = tc <=> Mentions(read, p)
    <2>1. Origin(c, p) = tc => Mentions(read, p)
      BY <1>7, OriginOf
    <2>2. Defines(c, tc, p) => Origin(c, p) = tc
      BY <1>2, OriginOf DEF Defines
    <2> QED  BY <1>7, <2>1, <2>2
  <1> HIDE DEF file
  <1>9. new[tc] = file /\ \A f \in Range(Paths) : f # tc => new[f] = c[f]
    BY <1>3, <1>4 DEF ConfOK
  <1>10. new[tc].found = (c[tc].found \/ read = <<>>) /\ new[tc].lines = lines
    BY <1>5, <1>9
  <1>11. new[tc].found
    BY <1>10
  <1>12. ~c[tc].found => read = <<>>
    OBVIOUS
  <1>13. c[tc].found => read = c[tc].lines
    OBVIOUS
  <1>14. \A x : Mentions(read, x) => c[tc].found
    BY <1>7 DEF Defines
  <1>15. /\ \A x : Mentions(lines, x) <=> x = p \/ Mentions(read, x)
         /\ \A x : Mentions(lines, x) =>
              lines[Mention(lines, x)].on = IF x = p THEN on ELSE read[Mention(read, x)].on
         /\ \A l \in Range(read) : l.of # p => l \in Range(lines)
    <2>1. CASE Mentions(read, p)
      <3>1. lines = Rewrite(read, p, on)
        BY <1>8, <2>1 DEF Rewrite
      <3> HIDE DEF read, lines
      <3>2. /\ \A x : Mentions(lines, x) <=> Mentions(read, x)
            /\ \A x : Mentions(read, x) =>
                 lines[Mention(lines, x)].on = IF x = p THEN on ELSE read[Mention(read, x)].on
            /\ \A l \in Range(read) : l.of # p => l \in Range(lines)
        BY ONLY <1>3, <1>6, <2>1, <3>1, on \in BOOLEAN, Rewritten
      <3> QED  BY <2>1, <3>2
    <2>2. CASE ~Mentions(read, p)
      <3>1. lines = Add(read, p, on)
        BY <1>8, <2>2 DEF Add
      <3> HIDE DEF read, lines
      <3>2. /\ \A x : Mentions(lines, x) <=> x = p \/ Mentions(read, x)
            /\ \A x : Mentions(lines, x) =>
                 lines[Mention(lines, x)].on = IF x = p THEN on ELSE read[Mention(read, x)].on
            /\ \A l \in Range(read) : l \in Range(lines)
        BY ONLY <1>3, <1>6, <2>2, <3>1, on \in BOOLEAN, Added
      <3> QED  BY <3>2
    <2> QED  BY <2>1, <2>2
  <1> HIDE DEF read, lines
  <1>16. \A x : Mentions(new[tc].lines, x) =>
                new[tc].lines[Mention(new[tc].lines, x)].on =
                  IF x = p THEN on ELSE c[tc].lines[Mention(c[tc].lines, x)].on
    BY <1>10, <1>13, <1>14, <1>15
  <1>17. ASSUME NEW l \in Range(c[tc].lines), c[tc].there => c[tc].found, l.of # p
         PROVE  l \in Range(new[tc].lines)
    <2>1. c[tc].found
      <3>1. c[tc].lines # <<>>
        BY <1>17 DEF Range
      <3> QED  BY <1>6, <1>17, <3>1
    <2> QED  BY <1>10, <1>13, <1>15, <1>17, <2>1
  <1> QED  BY <1>3, <1>7, <1>9, <1>10, <1>11, <1>15, <1>16, <1>17

\* The next run reads the status that was given to an entry, and of every other
\* entry what it read before.
LEMMA NextRunReads ==
    ASSUME NEW c, ConfOK(c), NEW p \in Defined(c), NEW on \in BOOLEAN,
           NEW new, new = Saved(c, p, on)
    PROVE  Merged(new) = [Merged(c) EXCEPT ![p] = on]
  <1> DEFINE tc == ChangesConfig(c)
             Status(d, x) == d[Origin(d, x)].lines[Mention(d[Origin(d, x)].lines, x)].on
  <1>1. Range(Paths) = {"TEXMFCONFIG", "TEXMFHOME", "TEXMFDIST"}
    <2>1. DOMAIN Paths = 1..3 /\ Paths[1] = "TEXMFCONFIG" /\ Paths[2] = "TEXMFHOME" /\ Paths[3] = "TEXMFDIST"
      BY DEF Paths
    <2> QED  BY <2>1 DEF Range
  <1>2. tc = IF ~c["TEXMFCONFIG"].found /\ c["TEXMFHOME"].found THEN "TEXMFHOME" ELSE "TEXMFCONFIG"
    BY ChangesGoTo
  <1>3. /\ tc \in Range(Paths) /\ new[tc].found
        /\ \A f \in Range(Paths) : f # tc => new[f] = c[f]
        /\ \A x : Mentions(new[tc].lines, x) <=> x = p \/ Defines(c, tc, x)
        /\ \A x : Mentions(new[tc].lines, x) =>
             new[tc].lines[Mention(new[tc].lines, x)].on =
               IF x = p THEN on ELSE c[tc].lines[Mention(c[tc].lines, x)].on
    BY TargetSaved
  <1> HIDE DEF tc
  <1>4. \A x : Defines(new, tc, x) <=> x = p \/ Defines(c, tc, x)
    BY <1>3 DEF Defines
  <1>5. \A x : \A f \in Range(Paths) : f # tc => (Defines(new, f, x) <=> Defines(c, f, x))
    BY <1>3 DEF Defines
  <1>6. \A d, x : x \in Defined(d) <=> x \in Entries /\ \E f \in Range(Paths) : Defines(d, f, x)
    BY DEF Defined, Used, Defines
  <1>7. Defined(new) = Defined(c)
    <2>1. ASSUME NEW x, x # p PROVE x \in Defined(new) <=> x \in Defined(c)
      <3>1. \A f \in Range(Paths) : Defines(new, f, x) <=> Defines(c, f, x)
        BY <1>4, <1>5, <2>1
      <3> QED  BY <1>6, <3>1
    <2>2. p \in Defined(new)
      <3>1. Defines(new, tc, p) /\ tc \in Range(Paths)
        BY <1>3, <1>4
      <3>2. p \in Entries
        BY DEF Defined
      <3> QED  BY <1>6, <3>1, <3>2
    <2> QED  BY <2>1, <2>2
  <1>8. ASSUME NEW x \in Defined(c)
        PROVE  Enabled(new, x) = IF x = p THEN on ELSE Enabled(c, x)
    <2>1. /\ Origin(c, x) = IF Defines(c, "TEXMFCONFIG", x) THEN "TEXMFCONFIG"
                            ELSE IF Defines(c, "TEXMFHOME", x) THEN "TEXMFHOME" ELSE "TEXMFDIST"
          /\ Defines(c, Origin(c, x), x)
      BY OriginOf
    <2>2. /\ Origin(new, x) = IF Defines(new, "TEXMFCONFIG", x) THEN "TEXMFCONFIG"
                              ELSE IF Defines(new, "TEXMFHOME", x) THEN "TEXMFHOME" ELSE "TEXMFDIST"
          /\ Defines(new, Origin(new, x), x)
      BY <1>7, OriginOf
    <2>3. CASE x = p
      <3>1. Defines(new, tc, x)
        BY <1>4, <2>3
      <3>2. tc # "TEXMFCONFIG" => ~Defines(new, "TEXMFCONFIG", x)
        BY <1>1, <1>2, <1>5 DEF Defines
      <3>3. Origin(new, x) = tc
        BY <1>2, <2>2, <3>1, <3>2
      <3> QED  BY <1>3, <2>3, <3>1, <3>3 DEF Enabled, Defines
    <2>4. CASE x # p
      <3>1. Origin(new, x) = Origin(c, x)
        BY <1>1, <1>4, <1>5, <2>1, <2>2, <2>4
      <3>2. Origin(c, x) \in Range(Paths)
        BY <1>1, <2>1
      <3>3. CASE Origin(c, x) = tc
        BY <1>3, <2>2, <2>4, <3>1, <3>3 DEF Enabled, Defines
      <3>4. CASE Origin(c, x) # tc
        BY <1>3, <2>4, <3>1, <3>2, <3>4 DEF Enabled
      <3> QED  BY <3>3, <3>4
    <2> QED  BY <2>3, <2>4
  <1>9. Merged(new) = [x \in Defined(c) |-> IF x = p THEN on ELSE Enabled(c, x)]
    BY <1>7, <1>8 DEF Merged
  <1> QED  BY <1>9 DEF Merged

-----------------------------------------------------------------------------
(* The theorems *)

\* Files keep their kinds and their owners, and the programs that run are
\* stacked on one another, whatever the formats, the dependencies and the
\* commands.
THEOREM Invariant == Spec => []IInv
  <1>1. Init => IInv
    BY InitIInv
  <1>2. IInv /\ [Next]_vars => IInv'
    <2> SUFFICES ASSUME IInv, [Next]_vars PROVE IInv'
      OBVIOUS
    <2>1. CASE Edit
      BY <2>1, EditKeeps
    <2>2. CASE Build
      BY <2>2, BuildKeeps
    <2>3. CASE Choose
      BY <2>3, ChooseKeeps
    <2>4. CASE Engine
      BY <2>4, EngineKeeps
    <2>5. CASE Dump
      BY <2>5, DumpKeeps
    <2>6. CASE Install
      BY <2>6, InstallKeeps
    <2>7. CASE End
      BY <2>7, EndKeeps
    <2>8. CASE UNCHANGED vars
      <3>1. Programs'
        BY <2>8 DEF vars, IInv, Programs, Stacked
      <3> QED  BY <2>8, <3>1, Unchanging DEF vars, Quiet
    <2> QED  BY <2>1, <2>2, <2>3, <2>4, <2>5, <2>6, <2>7, <2>8 DEF Next, Run
  <1> QED  BY <1>1, <1>2, PTL DEF Spec

\* The configuration, the formats and the programs have their types, and all
\* programs but the innermost wait for one that serves them.
THEOREM FmtutilTypeCorrect == Spec => []TypeOK
  <1>1. IInv => TypeOK
    <2> SUFFICES ASSUME IInv PROVE TypeOK
      OBVIOUS
    <2>1. Files /\ Stacked(procs) /\ (procs # <<>> => Last(procs).at # "asking")
      BY DEF IInv, Programs
    <2>2. procs \in Seq(Frames) /\ \A i \in 1..Len(procs) : i < Len(procs) => procs[i].at = "asking"
      BY <2>1 DEF Stacked
    <2>3. ASSUME NEW i \in DOMAIN procs PROVE i < Len(procs) <=> procs[i].at = "asking"
      <3>1. i \in 1..Len(procs) /\ Len(procs) \in Nat /\ procs # <<>>
        BY <2>2, <2>3, EmptySeq
      <3>2. CASE i < Len(procs)
        BY <2>2, <3>1, <3>2
      <3>3. CASE ~ (i < Len(procs))
        <4>1. procs[i] = Last(procs)
          BY <3>1, <3>3 DEF Last
        <4> QED  BY <2>1, <3>1, <3>3, <4>1
      <3> QED  BY <3>2, <3>3
    <2> QED  BY <2>1, <2>2, <2>3 DEF Files, TypeOK
  <1> QED  BY <1>1, Invariant, PTL

\* The dump installed for a format and engine is the one that engine made for
\* that format, in whatever order formats are built, fail or recur
\* (rebuild_one_format()).
THEOREM DumpsLandRight == Spec => []InstalledRight
  <1>1. IInv => InstalledRight
    BY DEF IInv
  <1> QED  BY <1>1, Invariant, PTL

\* No two mktexfmts are at work on one format (mktexfmt_loop): however formats
\* are built on each other, the recursion ends.
THEOREM RecursionEnds == Spec => []NoEndlessRecursion
  <1>1. IInv => NoEndlessRecursion
    <2> SUFFICES ASSUME IInv, NEW i \in DOMAIN procs, NEW j \in DOMAIN procs,
                        i < j, procs[i].mk, procs[j].at # "choose"
                 PROVE  procs[i].cur # procs[j].cur
      BY DEF NoEndlessRecursion
    <2>1. Stacked(procs) /\ procs \in Seq(Frames)
      BY DEF IInv, Programs, Stacked
    <2>2. i \in 1..Len(procs) /\ j \in 1..Len(procs) /\ i < Len(procs)
      BY <2>1
    <2>3. AtWork(procs[i]) /\ procs[i].at = "asking" /\ Below(procs[i], procs[j])
      BY <2>1, <2>2 DEF Stacked
    <2>4. procs[i].cur # None /\ procs[i].cur \in procs[i].loop
      BY <2>3 DEF AtWork
    <2> QED  BY <2>3, <2>4 DEF Below
  <1> QED  BY <1>1, Invariant, PTL

\* The order is kept in every state that can be reached.
THEOREM OwnFormatsFirst == Spec => []Order
  <1>1. Init => Order
    BY DEF Init, Order
  <1>2. IInv /\ Order /\ [Next]_vars => Order'
    <2> SUFFICES ASSUME IInv, Order, [Next]_vars PROVE Order'
      OBVIOUS
    <2>1. CASE Edit
      <3>1. procs' = <<>>
        BY <2>1 DEF Edit
      <3> QED  BY <3>1 DEF Order
    <2>2. CASE Build
      BY <2>2, BuildInOrder
    <2>3. CASE Choose
      BY <2>3, ChooseInOrder
    <2>4. CASE Engine
      BY <2>4, EngineInOrder
    <2>5. CASE Dump
      BY <2>5, DumpInOrder
    <2>6. CASE Install
      BY <2>6, InstallInOrder
    <2>7. CASE End
      BY <2>7, EndInOrder
    <2>8. CASE UNCHANGED vars
      BY <2>8 DEF vars, Order
    <2> QED  BY <2>1, <2>2, <2>3, <2>4, <2>5, <2>6, <2>7, <2>8 DEF Next, Run
  <1> QED  BY <1>1, <1>2, Invariant, PTL DEF Spec

\* With --all an engine that makes another format runs mktexfmt for the format of
\* its own name only when fmtutil has failed to build it: the two rounds
\* (callback_build_formats()) are enough, whatever the formats are built on.
THEOREM BuiltInOrder == Spec => []InOrder
  <1>1. IInv /\ Order => InOrder
    <2> SUFFICES ASSUME IInv, Order, Len(procs) > 1, procs[1].what = "all"
                 PROVE  LET p == procs[1].cur  q == <<needs[p], needs[p]>>
                        IN p[2] = needs[p] /\ p[1] # p[2] /\ q \in Defined(conf) /\ Enabled(conf, q)
                           => q \in procs[1].failed
      BY DEF InOrder
    <2> DEFINE m == procs[1]  p == m.cur  q == <<needs[p], needs[p]>>
    <2> SUFFICES ASSUME p[2] = needs[p], p[1] # p[2], q \in Defined(conf), Enabled(conf, q)
                 PROVE  q \in m.failed
      OBVIOUS
    <2>1. Stacked(procs) /\ procs \in Seq(Frames)
      BY DEF IInv, Programs, Stacked
    <2>2. 1 \in 1..Len(procs) /\ 1 < Len(procs)
      BY <2>1
    <2>3. m \in Frames /\ AtWork(m) /\ m.at = "asking" /\ OwnFirst(conf, needs, m)
      BY <2>1, <2>2 DEF Stacked, Order
    <2>4. p # None /\ p \in Entries
      BY <2>3 DEF AtWork, Frames
    <2>5. /\ q \in m.todo \/ q \in m.failed \/ m.tmp[Name(q)] # None
          /\ p[1] # p[2] => \A x \in m.todo : x[1] # x[2]
          /\ m.tmp[<<needs[p], Ext[p[2]]>>] = None
      BY <2>3, <2>4 DEF OwnFirst
    <2> QED  BY <2>5 DEF Name
  <1> QED  BY <1>1, Invariant, OwnFormatsFirst, PTL
\* After --enablefmt or --disablefmt the next run sees the change and no other
\* change, and no line is lost, unless the file of changes was there and not in
\* ls-R (read_fmtutil_files(), save_fmtutil()), whatever the files hold.
THEOREM EditsKept == Spec => EditKept
  <1>1. IInv /\ [Next]_vars =>
          [edits' # edits =>
             /\ Merged(conf') = [Merged(conf) EXCEPT ![edit'[1]] = edit'[2]]
             /\ \A f \in Range(Paths), l \in Lines :
                   (conf[f].there => conf[f].found) /\ l.of # edit'[1] /\ l \in Range(conf[f].lines)
                   => l \in Range(conf'[f].lines)]_vars
    <2> SUFFICES ASSUME IInv, Next, edits' # edits
                 PROVE  /\ Merged(conf') = [Merged(conf) EXCEPT ![edit'[1]] = edit'[2]]
                        /\ \A f \in Range(Paths), l \in Lines :
                              (conf[f].there => conf[f].found) /\ l.of # edit'[1]
                              /\ l \in Range(conf[f].lines) => l \in Range(conf'[f].lines)
      OBVIOUS
    <2>1. Edit
      BY DEF Next, Run, Build, Choose, Engine, Dump, Install, End, Quiet
    <2>2. PICK p \in Defined(conf), on \in BOOLEAN : conf' = Saved(conf, p, on) /\ edit' = <<p, on>>
      BY <2>1 DEF Edit
    <2>3. ConfOK(conf) /\ edit'[1] = p /\ edit'[2] = on
      BY <2>2 DEF IInv, Files
    <2>4. Merged(conf') = [Merged(conf) EXCEPT ![p] = on]
      BY <2>2, <2>3, NextRunReads
    <2> DEFINE tc == ChangesConfig(conf)
    <2>5. /\ \A f \in Range(Paths) : f # tc => conf'[f] = conf[f]
          /\ \A l \in Range(conf[tc].lines) :
               (conf[tc].there => conf[tc].found) /\ l.of # p => l \in Range(conf'[tc].lines)
      BY <2>2, <2>3, TargetSaved
    <2> HIDE DEF tc
    <2>6. ASSUME NEW f \in Range(Paths), NEW l \in Lines, conf[f].there => conf[f].found,
                 l.of # p, l \in Range(conf[f].lines)
          PROVE  l \in Range(conf'[f].lines)
      BY <2>5, <2>6
    <2> QED  BY <2>3, <2>4, <2>6
  <1> QED  BY <1>1, Invariant, PTL DEF Spec, EditKept
=============================================================================
