--------------------------- MODULE SyncTeXProofs ---------------------------
(***************************************************************************)
(* Proofs about the SyncTeX controller.                                    *)
(***************************************************************************)
EXTENDS SyncTeX, SequenceTheorems, FiniteSetTheorems, TLAPS

\* What the controller has to do with: its context, its file, the disk.
Ctxts == [off : BOOLEAN, file : BOOLEAN, busyName : BOOLEAN, root : BOOLEAN,
          ready : BOOLEAN, notVoid : BOOLEAN, recorder : BOOLEAN, depth : Int, tag : Nat]
Brackets == {<<"sheet", i>> : i \in Nat} \cup {<<"list">>, <<"form">>}
Outs  == [head : {"none", "failed", "written"}, inputs : SUBSET Nat, unknown : SUBSET Nat,
          open : Seq(Brackets), nested : BOOLEAN, stray : BOOLEAN,
          whole : {"no", "short", "yes"}]
Disks == [plain : {"none", "old", "new"}, gz : {"none", "old", "new"},
          busy : {"none", "dead", "new"}]
Ends   == {"run", "done", "exited", "null record", "null close"}
States == [ctxt : Ctxts, out : Outs, disk : Disks, pc : Ends]

\* The file, while it is open, is the working file and can be removed; once it
\* is ready only being turned off closes it; what is not open is not there,
\* unless the program has ended because it could not close it; and it does not
\* get its final name before the end.
Filed(s) ==
    /\ s.ctxt.file => s.ctxt.busyName /\ ~s.ctxt.off /\ s.out.head = "written"
                      /\ s.disk.busy = "new"
    /\ s.ctxt.ready /\ ~s.ctxt.off => s.ctxt.file
    /\ ~s.ctxt.file /\ s.disk.busy = "new" => s.out.head = "failed" \/ s.pc = "exited"
    /\ s.pc = "run" \/ (s.pc = "exited" /\ s.ctxt.off)
    /\ s.disk.plain # "new" /\ s.disk.gz # "new"

\* The tags in the file are those given; the first file waits for the file.
Counted(s) ==
    /\ s.out.inputs \subseteq 1..s.ctxt.tag
    /\ s.out.unknown \subseteq 1..s.ctxt.tag
    /\ s.ctxt.root => s.ctxt.tag # 0

\* While there is a file, every tag is in it or in b; while there is none, all
\* but that of the first file are in b.
Covered(s, b) ==
    IF s.ctxt.file THEN 1..s.ctxt.tag \subseteq s.out.inputs \cup b
    ELSE s.ctxt.off \/ (2..s.ctxt.tag \subseteq b /\ (s.ctxt.tag # 0 => s.ctxt.root))

Sound(s, b) == s \in States /\ Filed(s) /\ Counted(s) /\ Covered(s, b)

\* A page or form can begin: there is a file for it, or SyncTeX is off.
Settled(s) == s.ctxt.off \/ (s.ctxt.file /\ s.ctxt.ready)

-----------------------------------------------------------------------------
\* What Abort changes.
LEMMA AbortFields ==
    ASSUME NEW s \in States
    PROVE  /\ Abort(s) \in States /\ Abort(s).out = s.out
           /\ Abort(s).ctxt.off /\ ~Abort(s).ctxt.file /\ ~Abort(s).ctxt.root
           /\ Abort(s).pc = s.pc
           /\ Abort(s).ctxt.tag = s.ctxt.tag /\ Abort(s).ctxt.notVoid = s.ctxt.notVoid
           /\ Abort(s).disk.plain = s.disk.plain /\ Abort(s).disk.gz = s.disk.gz
           /\ Abort(s).disk.busy = IF s.ctxt.file /\ s.ctxt.busyName THEN "none" ELSE s.disk.busy
  BY DEF States, Ctxts, Disks, Abort

\* Turning SyncTeX off leaves nothing open and, but for a file without a
\* preamble, nothing on the disk.
LEMMA AbortSound ==
    ASSUME NEW b, NEW s, Sound(s, b)
    PROVE  Sound(Abort(s), b) /\ Abort(s).ctxt.off
  BY AbortFields DEF Sound, Filed, Counted, Covered

\* What Exit changes.
LEMMA ExitFields ==
    ASSUME NEW s \in States
    PROVE  /\ Exit(s) \in States /\ Exit(s).out = s.out /\ Exit(s).disk = s.disk
           /\ Exit(s).ctxt = Abort(s).ctxt /\ Exit(s).pc = "exited"
  <1>1. Abort(s) \in States
    BY AbortFields
  <1>2. Exit(s) = [Abort(s) EXCEPT !.disk = s.disk, !.pc = "exited"]
    BY DEF Exit
  <1>3. Abort(s).out = s.out
    BY AbortFields
  <1>4. s.disk \in Disks /\ "exited" \in Ends
    BY DEF States, Ends
  <1> QED  BY <1>1, <1>2, <1>3, <1>4 DEF States

\* What is turned off, with the file closed or with the program ended.
LEMMA AbortsFields ==
    ASSUME NEW s \in States, NEW n \in Aborts(s)
    PROVE  /\ n \in States /\ n.out = s.out
           /\ n.ctxt.off /\ ~n.ctxt.file /\ ~n.ctxt.root
           /\ n.ctxt.tag = s.ctxt.tag /\ n.ctxt.notVoid = s.ctxt.notVoid
           /\ n.disk.plain = s.disk.plain /\ n.disk.gz = s.disk.gz
           /\ \/ n.pc = s.pc /\ n = Abort(s)
                 /\ n.disk.busy = IF s.ctxt.file /\ s.ctxt.busyName THEN "none" ELSE s.disk.busy
              \/ n.pc = "exited" /\ n.disk.busy = s.disk.busy /\ n = Exit(s)
                 /\ s.ctxt.file /\ ~option.gz
  BY AbortFields, ExitFields DEF Aborts, Unclosed

LEMMA AbortsSound ==
    ASSUME NEW b, NEW s, Sound(s, b), NEW n \in Aborts(s)
    PROVE  Sound(n, b) /\ n.ctxt.off /\ n.ctxt.tag = s.ctxt.tag /\ n.out = s.out
  BY AbortsFields DEF Sound, Filed, Counted, Covered

\* A record that keeps the context sound keeps it so when it cannot be written.
LEMMA WritingSound ==
    ASSUME NEW b, NEW s, Sound(s, b), NEW after, Sound(after, b), NEW n \in Writing(s, after)
    PROVE  /\ Sound(n, b)
           /\ n = after \/ (n.ctxt.off /\ n.ctxt.tag = s.ctxt.tag /\ n.out = s.out)
  BY AbortsSound DEF Writing

\* An Input line puts its tag in the file, or SyncTeX goes off.
LEMMA RecordInputSound ==
    ASSUME NEW b, NEW s, Sound(s, b), NEW t \in 1..s.ctxt.tag, NEW n \in RecordInput(s, t)
    PROVE  /\ Sound(n, b) /\ n.ctxt.tag = s.ctxt.tag
           /\ n.out.unknown = s.out.unknown
           /\ n.ctxt.off \/ (n.ctxt.file = s.ctxt.file /\ t \in n.out.inputs)
  <1> DEFINE after == [s EXCEPT !.out.inputs = @ \cup {t}]
  <1>1. after.ctxt = s.ctxt /\ after.disk = s.disk /\ after.pc = s.pc
    BY DEF Sound, States
  <1>2. after.out = [s.out EXCEPT !.inputs = @ \cup {t}]
    BY DEF Sound, States, Outs
  <1>3. t \in Nat
    BY DEF Sound, States, Ctxts
  <1>4. after.out \in Outs
    BY <1>2, <1>3 DEF Sound, States, Outs
  <1>5. after \in States
    BY <1>1, <1>4 DEF Sound, States
  <1>6. Filed(after)
    BY <1>1, <1>2 DEF Sound, States, Outs, Filed
  <1>7. after.out.inputs = s.out.inputs \cup {t} /\ after.out.unknown = s.out.unknown
    BY <1>2 DEF Sound, States, Outs
  <1>8. Counted(after)
    BY <1>1, <1>7 DEF Sound, Counted
  <1>9. n \in Writing(s, after)
    BY DEF RecordInput
  <1> HIDE DEF after
  <1>10. Sound(after, b)
    BY <1>1, <1>5, <1>6, <1>7, <1>8 DEF Sound, Covered
  <1> QED  BY <1>1, <1>7, <1>9, <1>10, WritingSound

\* Once a tag is in the file nothing else need account for it.
LEMMA CoveredByFile ==
    ASSUME NEW b, NEW t, NEW s, Sound(s, b \cup {t}),
           s.ctxt.off \/ (s.ctxt.file /\ t \in s.out.inputs)
    PROVE  Sound(s, b)
  BY DEF Sound, Filed, Covered

\* Opening the file gives a file with a preamble, or turns SyncTeX off, unless
\* \synctex is 0.
LEMMA DotOpenSound ==
    ASSUME NEW b, NEW s, Sound(s, b), NEW v \in BOOLEAN, NEW d \in DotOpen(s, v)
    PROVE  /\ Sound(d, b) /\ d.ctxt.tag = s.ctxt.tag
           /\ d.out.unknown \subseteq s.out.unknown
           /\ d = s \/ d.ctxt.off \/ d.ctxt.file
           /\ v => d.ctxt.off \/ d.ctxt.file
  <1> DEFINE opened == [s EXCEPT !.ctxt.file = TRUE, !.disk.busy = "new",
                                 !.out = [Unwritten EXCEPT !.head = "failed"]]
             ready  == [opened EXCEPT !.ctxt.busyName = TRUE, !.out.head = "written"]
             rooted == [ready EXCEPT !.ctxt.root = FALSE]
  <1>1. CASE s.ctxt.off \/ ~v \/ s.ctxt.file
    BY <1>1 DEF DotOpen
  <1>2. CASE ~(s.ctxt.off \/ ~v \/ s.ctxt.file)
    <2> DEFINE none == [Unwritten EXCEPT !.head = "failed"]
    <2>1. d \in {Abort(s)} \cup Aborts(opened) \cup (IF s.ctxt.root THEN RecordInput(rooted, 1) ELSE {ready})
      BY <1>2 DEF DotOpen
    <2>2. /\ none \in Outs /\ none.inputs = {} /\ none.unknown = {} /\ none.head = "failed"
          /\ [none EXCEPT !.head = "written"] \in Outs
      <3>1. <<>> \in Seq(Brackets)
        OBVIOUS
      <3> QED  BY <3>1 DEF Unwritten, Outs
    <2>3. /\ opened.ctxt = [s.ctxt EXCEPT !.file = TRUE] /\ opened.out = none
          /\ opened.disk = [s.disk EXCEPT !.busy = "new"] /\ opened.pc = s.pc
      BY DEF Sound, States
    <2> HIDE DEF none
    <2>4. /\ opened \in States /\ opened.disk.busy = "new"
          /\ opened.ctxt.tag = s.ctxt.tag /\ opened.ctxt.root = s.ctxt.root
          /\ opened.ctxt.file /\ ~opened.ctxt.off
      BY <1>2, <2>2, <2>3 DEF Sound, States, Ctxts, Disks
    <2>5. /\ ready.ctxt = [opened.ctxt EXCEPT !.busyName = TRUE]
          /\ ready.out = [none EXCEPT !.head = "written"] /\ ready.disk = opened.disk
          /\ ready.pc = opened.pc
      BY <2>3, <2>4 DEF States
    <2>6. /\ rooted.ctxt = [ready.ctxt EXCEPT !.root = FALSE]
          /\ rooted.out = ready.out /\ rooted.disk = ready.disk /\ rooted.pc = ready.pc
      BY <2>4 DEF States
    <2>7. ready \in States /\ rooted \in States
      <3>1. ready.ctxt \in Ctxts /\ ready.disk \in Disks /\ ready.out \in Outs
        BY <2>2, <2>4, <2>5 DEF States, Ctxts
      <3>2. rooted.ctxt \in Ctxts /\ rooted.disk \in Disks /\ rooted.out \in Outs
        <4> HIDE DEF ready, rooted
        <4> QED  BY <3>1, <2>6 DEF Ctxts
      <3>3. ready = [opened EXCEPT !.ctxt = ready.ctxt, !.out = ready.out]
        BY <2>4 DEF States
      <3>4. rooted = [ready EXCEPT !.ctxt = rooted.ctxt]
        BY <2>4 DEF States
      <3>5. ready \in States
        <4> HIDE DEF ready
        <4> QED  BY <2>4, <3>1, <3>3 DEF States
      <3> HIDE DEF ready, rooted
      <3> QED  BY <3>2, <3>4, <3>5 DEF States
    <2>8. /\ s.ctxt.root <=> s.ctxt.tag # 0
          /\ 2..s.ctxt.tag \subseteq b
      BY <1>2 DEF Sound, Counted, Covered
    <2> HIDE DEF opened, ready, rooted
    <2>9. ASSUME NEW n \in Aborts(opened)
          PROVE  /\ Sound(n, b) /\ n.ctxt.off
                 /\ n.ctxt.tag = s.ctxt.tag /\ n.out.unknown = {}
      <3>1. /\ n \in States /\ n.out = none /\ n.ctxt.off /\ ~n.ctxt.file /\ ~n.ctxt.root
            /\ n.ctxt.tag = s.ctxt.tag /\ n.pc \in {opened.pc, "exited"}
            /\ n.disk.plain = opened.disk.plain /\ n.disk.gz = opened.disk.gz
        <4>1. /\ n \in States /\ n.out = opened.out /\ n.ctxt.off /\ ~n.ctxt.file /\ ~n.ctxt.root
              /\ n.ctxt.tag = opened.ctxt.tag /\ (n.pc = opened.pc \/ n.pc = "exited")
              /\ n.disk.plain = opened.disk.plain /\ n.disk.gz = opened.disk.gz
          BY <2>4, AbortsFields
        <4> QED  BY <2>3, <2>4, <4>1
      <3>2. /\ opened.disk.plain # "new" /\ opened.disk.gz # "new" /\ opened.pc = "run"
        BY <1>2, <2>3 DEF Sound, States, Disks, Filed
      <3> QED  BY <2>2, <3>1, <3>2 DEF Sound, Filed, Counted, Covered
    <2>17. opened.pc = "run" /\ ready.pc = "run" /\ rooted.pc = "run"
      BY <1>2, <2>3, <2>5, <2>6 DEF Sound, Filed
    <2>10. /\ Sound(ready, b \cup {1}) /\ ready.ctxt.file /\ ready.ctxt.tag = s.ctxt.tag
           /\ ready.out.unknown = {}
      <3>1. ready.out.inputs = {} /\ ready.out.unknown = {} /\ ready.out.head = "written"
        BY <2>2, <2>5 DEF Outs
      <3>2. ready.disk.plain # "new" /\ ready.disk.gz # "new"
        BY <2>3, <2>5 DEF Sound, States, Disks, Filed
      <3>3. /\ ready.ctxt.tag = s.ctxt.tag /\ ready.ctxt.root = s.ctxt.root /\ ready.ctxt.file
            /\ ready.ctxt.busyName /\ ~ready.ctxt.off
        BY <2>4, <2>5 DEF States, Ctxts
      <3>4. 1..s.ctxt.tag \subseteq b \cup {1}
        BY <2>8 DEF Sound, States, Ctxts
      <3>5. Filed(ready)
        BY <2>4, <2>5, <2>17, <3>1, <3>2, <3>3 DEF Filed
      <3>6. Counted(ready)
        BY <2>8, <3>1, <3>3 DEF Counted
      <3>7. Covered(ready, b \cup {1})
        BY <3>1, <3>3, <3>4 DEF Covered
      <3> QED  BY <2>7, <3>1, <3>3, <3>5, <3>6, <3>7 DEF Sound
    <2>11. /\ Sound(rooted, b \cup {1}) /\ rooted.ctxt.file /\ rooted.ctxt.tag = s.ctxt.tag
           /\ rooted.out.unknown = {}
      <3>1. /\ rooted.ctxt.tag = ready.ctxt.tag /\ ~rooted.ctxt.root /\ rooted.ctxt.file
            /\ rooted.ctxt.busyName = ready.ctxt.busyName /\ rooted.ctxt.off = ready.ctxt.off
        BY <2>6, <2>7, <2>10 DEF States, Ctxts
      <3> QED  BY <2>6, <2>7, <2>10, <3>1 DEF Sound, Filed, Counted, Covered
    <2>12. s.ctxt.root => 1 \in 1..rooted.ctxt.tag
      BY <2>8, <2>11 DEF Sound, States, Ctxts
    <2>13. /\ Sound(Abort(s), b) /\ Abort(s).ctxt.off /\ Abort(s).ctxt.tag = s.ctxt.tag
           /\ Abort(s).out = s.out
      BY AbortSound, AbortFields DEF Sound
    <2>14. CASE d \in {Abort(s)} \cup Aborts(opened)
      BY <2>9, <2>13, <2>14
    <2>15. CASE s.ctxt.root /\ d \in RecordInput(rooted, 1)
      <3>1. /\ Sound(d, b \cup {1}) /\ d.ctxt.tag = s.ctxt.tag /\ d.out.unknown = {}
            /\ d.ctxt.off \/ (d.ctxt.file /\ 1 \in d.out.inputs)
        BY <2>11, <2>12, <2>15, RecordInputSound
      <3> QED  BY <3>1, CoveredByFile
    <2>16. CASE ~s.ctxt.root /\ d = ready
      <3>1. Covered(ready, b)
        BY <2>8, <2>10, <2>16 DEF Covered, Sound, States, Ctxts
      <3> QED  BY <2>10, <2>16, <3>1 DEF Sound
    <2> QED  BY <2>1, <2>14, <2>15, <2>16
  <1> QED  BY <1>1, <1>2

\* The first page or form opens the file or turns SyncTeX off.
LEMMA PrepareContentSound ==
    ASSUME NEW b, NEW s, Sound(s, b), NEW v \in BOOLEAN, NEW p \in PrepareContent(s, v)
    PROVE  /\ Sound(p, b) /\ Settled(p) /\ p.ctxt.tag = s.ctxt.tag
           /\ p.out.unknown \subseteq s.out.unknown
  <1>1. CASE s.ctxt.ready
    BY <1>1 DEF PrepareContent, Sound, Filed, Settled
  <1>2. CASE ~s.ctxt.ready
    <2>1. PICK d \in DotOpen(s, v) :
            p \in IF d.ctxt.file /\ v THEN Writing(d, [d EXCEPT !.ctxt.ready = TRUE])
                  ELSE Aborts(d)
      BY <1>2 DEF PrepareContent
    <2>2. /\ Sound(d, b) /\ d.ctxt.tag = s.ctxt.tag /\ d.out.unknown \subseteq s.out.unknown
      BY DotOpenSound
    <2>3. CASE d.ctxt.file /\ v
      <3> DEFINE after == [d EXCEPT !.ctxt.ready = TRUE]
      <3>1. /\ after \in States /\ after.out = d.out /\ after.disk = d.disk /\ after.pc = d.pc
            /\ after.ctxt = [d.ctxt EXCEPT !.ready = TRUE]
        BY <2>2 DEF Sound, States, Ctxts
      <3> HIDE DEF after
      <3>2. /\ after.ctxt.file /\ after.ctxt.ready /\ after.ctxt.tag = d.ctxt.tag
            /\ after.ctxt.root = d.ctxt.root /\ after.ctxt.busyName = d.ctxt.busyName
            /\ after.ctxt.off = d.ctxt.off
        BY <2>2, <2>3, <3>1 DEF Sound, States, Ctxts
      <3>3. Sound(after, b)
        BY <2>2, <2>3, <3>1, <3>2 DEF Sound, Filed, Counted, Covered
      <3>4. p \in Writing(d, after)
        BY <2>1, <2>3 DEF after
      <3>5. Sound(p, b) /\ (p = after \/ (p.ctxt.off /\ p.ctxt.tag = d.ctxt.tag /\ p.out = d.out))
        BY <2>2, <3>3, <3>4, WritingSound
      <3> QED  BY <2>2, <3>1, <3>2, <3>5 DEF Settled
    <2>4. CASE ~(d.ctxt.file /\ v)
      <3>1. p \in Aborts(d)
        BY <2>1, <2>4
      <3>2. Sound(p, b) /\ p.ctxt.off /\ p.ctxt.tag = d.ctxt.tag /\ p.out = d.out
        BY <2>2, <3>1, AbortsSound
      <3> QED  BY <2>2, <3>2 DEF Settled
    <2> QED  BY <2>3, <2>4
  <1> QED  BY <1>1, <1>2

\* The brackets that are open are all a bracket record touches.
LEMMA BracketSound ==
    ASSUME NEW b, NEW s, Sound(s, b), NEW k \in Brackets,
           NEW n, n = Bracket(s, k) \/ n = Unbracket(s, k)
    PROVE  /\ Sound(n, b) /\ n.ctxt = s.ctxt /\ n.out.unknown = s.out.unknown
           /\ n.out.inputs = s.out.inputs
  <1>1. /\ n \in States /\ n.ctxt = s.ctxt /\ n.disk = s.disk /\ n.pc = s.pc
        /\ n.out.unknown = s.out.unknown /\ n.out.inputs = s.out.inputs
        /\ n.out.head = s.out.head
    <2>1. CASE n = Bracket(s, k)
      <3>1. /\ n.ctxt = s.ctxt /\ n.disk = s.disk
            /\ n.out = [s.out EXCEPT !.open = Append(@, k)]
            /\ n = [s EXCEPT !.out = n.out]
        BY <2>1 DEF Bracket, Sound, States
      <3>2. s.out.open \in Seq(Brackets)
        BY DEF Sound, States, Outs
      <3>3. Append(s.out.open, k) \in Seq(Brackets)
        BY <3>2
      <3> QED  BY <3>1, <3>3 DEF Sound, States, Outs
    <2>2. CASE n = Unbracket(s, k)
      <3>1. /\ n.ctxt = s.ctxt /\ n.disk = s.disk /\ n = [s EXCEPT !.out = n.out]
            /\ \/ n.out = [s.out EXCEPT !.nested = FALSE]
               \/ s.out.open # <<>> /\ n.out = [s.out EXCEPT !.open = Front(@)]
        BY <2>2 DEF Unbracket, Sound, States
      <3>2. s.out.open \in Seq(Brackets)
        BY DEF Sound, States, Outs
      <3>3. s.out.open # <<>> => Front(s.out.open) \in Seq(Brackets)
        BY <3>2 DEF Front
      <3> QED  BY <3>1, <3>3 DEF Sound, States, Outs
    <2> QED  BY <2>1, <2>2
  <1> QED  BY <1>1 DEF Sound, Filed, Counted, Covered

\* A record with a tag of a file that is in the file or in b, or of none.
LEMMA TaggedSound ==
    ASSUME NEW b, NEW s, Sound(s, b), s.ctxt.file, NEW t \in 0..s.ctxt.tag
    PROVE  /\ Sound(Tagged(s, t), b) /\ Tagged(s, t).ctxt = s.ctxt
           /\ Tagged(s, t).out.unknown \subseteq s.out.unknown \cup b
  <1> DEFINE n == Tagged(s, t)
             new == IF t \in s.out.inputs \cup {0} THEN {} ELSE {t}
  <1>1. /\ n.ctxt = s.ctxt /\ n.disk = s.disk /\ n.pc = s.pc /\ n = [s EXCEPT !.out = n.out]
        /\ n.out = [s.out EXCEPT !.unknown = @ \cup new]
    BY DEF Tagged, Sound, States
  <1>2. new \subseteq 1..s.ctxt.tag /\ new \subseteq b /\ new \subseteq Nat
    BY DEF Sound, States, Ctxts, Covered
  <1> HIDE DEF n, new
  <1>3. /\ n.out \in Outs /\ n.out.unknown = s.out.unknown \cup new
        /\ n.out.inputs = s.out.inputs /\ n.out.head = s.out.head
    BY <1>1, <1>2 DEF Sound, States, Outs
  <1>4. n \in States
    BY <1>1, <1>3 DEF Sound, States
  <1>5. Sound(n, b)
    BY <1>1, <1>2, <1>3, <1>4 DEF Sound, Filed, Counted, Covered
  <1> QED  BY <1>1, <1>2, <1>3, <1>5 DEF n

\* The depth of forms, and that something has been shipped out, are nobody
\* else's business.
LEMMA DepthSound ==
    ASSUME NEW b, NEW s, Sound(s, b), NEW i \in Int
    PROVE  LET n == [s EXCEPT !.ctxt.depth = i]
           IN /\ Sound(n, b) /\ n.out = s.out /\ n.ctxt.tag = s.ctxt.tag
              /\ n.ctxt.file = s.ctxt.file /\ n.ctxt.off = s.ctxt.off
              /\ n.ctxt.ready = s.ctxt.ready
  <1> DEFINE n == [s EXCEPT !.ctxt.depth = i]
  <1>1. /\ n \in States /\ n.out = s.out /\ n.disk = s.disk /\ n.pc = s.pc
        /\ n.ctxt = [s.ctxt EXCEPT !.depth = i]
    BY DEF Sound, States, Ctxts
  <1> HIDE DEF n
  <1>2. /\ n.ctxt.tag = s.ctxt.tag /\ n.ctxt.file = s.ctxt.file /\ n.ctxt.off = s.ctxt.off
        /\ n.ctxt.ready = s.ctxt.ready /\ n.ctxt.root = s.ctxt.root
        /\ n.ctxt.busyName = s.ctxt.busyName
    BY <1>1 DEF Sound, States, Ctxts
  <1>3. Sound(n, b)
    BY <1>1, <1>2 DEF Sound, Filed, Counted, Covered
  <1> QED  BY <1>1, <1>2, <1>3 DEF n

\* The mark that something has been shipped out.
LEMMA NotVoidSound ==
    ASSUME NEW b, NEW s, Sound(s, b)
    PROVE  LET n == [s EXCEPT !.ctxt.notVoid = TRUE]
           IN /\ Sound(n, b) /\ n.out = s.out /\ n.ctxt.tag = s.ctxt.tag
              /\ n.ctxt.file = s.ctxt.file /\ n.ctxt.off = s.ctxt.off
              /\ n.ctxt.ready = s.ctxt.ready
  <1> DEFINE n == [s EXCEPT !.ctxt.notVoid = TRUE]
  <1>1. /\ n \in States /\ n.out = s.out /\ n.disk = s.disk /\ n.pc = s.pc
        /\ n.ctxt = [s.ctxt EXCEPT !.notVoid = TRUE]
    BY DEF Sound, States, Ctxts
  <1> HIDE DEF n
  <1>2. /\ n.ctxt.tag = s.ctxt.tag /\ n.ctxt.file = s.ctxt.file /\ n.ctxt.off = s.ctxt.off
        /\ n.ctxt.ready = s.ctxt.ready /\ n.ctxt.root = s.ctxt.root
        /\ n.ctxt.busyName = s.ctxt.busyName
    BY <1>1 DEF Sound, States, Ctxts
  <1>3. Sound(n, b)
    BY <1>1, <1>2 DEF Sound, Filed, Counted, Covered
  <1> QED  BY <1>1, <1>2, <1>3 DEF n

\* Nor is it whether a node was in no list.
LEMMA StraySound ==
    ASSUME NEW b, NEW s, Sound(s, b), NEW w \in BOOLEAN
    PROVE  LET n == [s EXCEPT !.out.stray = w]
           IN Sound(n, b) /\ n.ctxt = s.ctxt /\ n.out.unknown = s.out.unknown
  <1> DEFINE n == [s EXCEPT !.out.stray = w]
  <1>1. /\ n \in States /\ n.ctxt = s.ctxt /\ n.disk = s.disk /\ n.pc = s.pc
        /\ n.out = [s.out EXCEPT !.stray = w]
    BY DEF Sound, States, Outs
  <1> HIDE DEF n
  <1>2. /\ n.out.unknown = s.out.unknown /\ n.out.inputs = s.out.inputs
        /\ n.out.head = s.out.head
    BY <1>1 DEF Sound, States, Outs
  <1>3. Sound(n, b)
    BY <1>1, <1>2 DEF Sound, Filed, Counted, Covered
  <1> QED  BY <1>1, <1>2, <1>3 DEF n

\* Nor is it whether a kern waits.
LEMMA RecorderSound ==
    ASSUME NEW b, NEW s, Sound(s, b), NEW w \in BOOLEAN
    PROVE  LET n == [s EXCEPT !.ctxt.recorder = w]
           IN /\ Sound(n, b) /\ n.out = s.out /\ n.ctxt.tag = s.ctxt.tag
              /\ n.ctxt.file = s.ctxt.file /\ n.ctxt.off = s.ctxt.off
              /\ n.ctxt.ready = s.ctxt.ready /\ n.pc = s.pc
  <1> DEFINE n == [s EXCEPT !.ctxt.recorder = w]
  <1>1. /\ n \in States /\ n.out = s.out /\ n.disk = s.disk /\ n.pc = s.pc
        /\ n.ctxt = [s.ctxt EXCEPT !.recorder = w]
    BY DEF Sound, States, Ctxts
  <1> HIDE DEF n
  <1>2. /\ n.ctxt.tag = s.ctxt.tag /\ n.ctxt.file = s.ctxt.file /\ n.ctxt.off = s.ctxt.off
        /\ n.ctxt.ready = s.ctxt.ready /\ n.ctxt.root = s.ctxt.root
        /\ n.ctxt.busyName = s.ctxt.busyName
    BY <1>1 DEF Sound, States, Ctxts
  <1>3. Sound(n, b)
    BY <1>1, <1>2 DEF Sound, Filed, Counted, Covered
  <1> QED  BY <1>1, <1>2, <1>3 DEF n

\* The record of a node, as any with a tag.
LEMMA NodeRecordSound ==
    ASSUME NEW b, NEW s, Sound(s, b), s.ctxt.file, NEW t \in 0..s.ctxt.tag
    PROVE  LET w == NodeRecord(s, t)
           IN /\ Sound(w, b) /\ w.ctxt = s.ctxt
              /\ w.out.unknown \subseteq s.out.unknown \cup b
  <1> DEFINE g == Tagged(s, t)
             x == g.out.stray \/ s.out.open = <<>>
             w == [g EXCEPT !.out.stray = x]
  <1>1. /\ Sound(g, b) /\ g.ctxt = s.ctxt /\ g.out.unknown \subseteq s.out.unknown \cup b
    BY TaggedSound
  <1>2. NodeRecord(s, t) = w
    BY DEF NodeRecord
  <1> HIDE DEF g
  <1>3. x \in BOOLEAN
    BY <1>1 DEF Sound, States, Outs
  <1> HIDE DEF x, w
  <1>4. Sound(w, b) /\ w.ctxt = g.ctxt /\ w.out.unknown = g.out.unknown
    BY <1>1, <1>3, StraySound DEF w
  <1> QED  BY <1>1, <1>2, <1>4

-----------------------------------------------------------------------------
(* The inductive invariant *)

Numbers ==
    /\ option \in Options /\ value \in BOOLEAN /\ log \in BOOLEAN
    /\ ctxt.tag <= MaxTag /\ blind \subseteq 1..ctxt.tag
    /\ total \in Nat /\ shipped \in 0..MaxPages
    /\ pc \in Ends

Kinds == {"empty page", "page", "empty form", "form", "list"}

Placed ==
    /\ place \in Seq(Kinds)
    /\ Len(place) <= MaxNest \/ place = <<"empty page">>

\* While TeX runs, what it has is sound, and tags without an Input line blind.
Running ==
    pc = "run" => /\ Sound(State, blind) /\ out.unknown \subseteq blind
                  /\ place # <<>> => Settled(State)

\* What the end of a run leaves.
Ended ==
    pc # "run" => /\ State \in States /\ Counted(State) /\ out.unknown \subseteq blind
                  /\ ctxt.off /\ ~ctxt.file
                  /\ InSync

IInv == Numbers /\ Placed /\ Running /\ Ended

\* What the three variables become is the state after the step.
LEMMA BecomesState ==
    ASSUME NEW n \in States, Becomes(n)
    PROVE  State' = n
  BY DEF Becomes, State, States

\* A message that gives no tag, and what it leaves.
LEMMA MessageKeeps ==
    ASSUME IInv, pc = "run", UNCHANGED <<option, blind>>,
           value' \in BOOLEAN, log' \in BOOLEAN,
           NEW n, Becomes(n), Sound(n, blind), n.ctxt.tag = ctxt.tag,
           n.out.unknown \subseteq blind, place' # <<>> => Settled(n),
           Placed', total' \in Nat, shipped' \in 0..MaxPages
    PROVE  IInv' /\ pc' \notin {"null record", "done"}
  <1>1. State' = n /\ ctxt' = n.ctxt /\ out' = n.out /\ disk' = n.disk /\ pc' = n.pc
    BY BecomesState DEF Sound, Becomes
  <1>2. Numbers'
    BY <1>1 DEF IInv, Numbers, Sound, States
  <1>3. Running'
    <2>1. Sound(State', blind') /\ (place' # <<>> => Settled(State'))
      BY <1>1
    <2>2. out'.unknown \subseteq blind'
      BY <1>1
    <2>3. Sound(State, blind)' /\ (place # <<>> => Settled(State))'
      BY <2>1 DEF Sound, Settled, Filed, Counted, Covered
    <2> QED  BY <2>2, <2>3 DEF Running
  <1>4. Ended'
    <2> SUFFICES ASSUME pc' # "run" PROVE Ended'
      BY DEF Ended
    <2>1. n \in States /\ Filed(n) /\ Counted(n) /\ n.pc # "run"
      BY <1>1 DEF Sound
    <2>2. n.pc = "exited" /\ n.ctxt.off /\ ~n.ctxt.file
      BY <2>1 DEF Filed
    <2>3. State' \in States /\ Counted(State') /\ out'.unknown \subseteq blind'
      BY <1>1, <2>1
    <2>4. (State \in States)' /\ Counted(State)'
      BY <2>3 DEF Counted
    <2>5. InSync'
      BY <1>1, <2>1, <2>2 DEF Filed, InSync
    <2> QED  BY <1>1, <2>2, <2>3, <2>4, <2>5 DEF Ended
  <1>5. pc' \notin {"null record", "done"}
    BY <1>1 DEF Sound, Filed
  <1> QED  BY <1>2, <1>3, <1>4, <1>5 DEF IInv

\* The beginning: nothing is open and no tag has been given.
LEMMA InitIInv == Init => IInv
  <1> SUFFICES ASSUME Init PROVE IInv
    OBVIOUS
  <1>1. option \in [said : {"nothing", "zero", "number"}, gz : BOOLEAN,
                    plainName : BOOLEAN, forms : BOOLEAN]
    BY SyncTeXAssumption DEF Init
  <1>0. pc \in Ends
    BY DEF Init, Ends
  <1>2. State \in States
    <2>1. ctxt \in Ctxts
      BY <1>1 DEF Init, Ctxts
    <2>2. <<>> \in Seq(Brackets)
      OBVIOUS
    <2>3. out \in Outs
      BY <2>2 DEF Init, Unwritten, Outs
    <2>4. disk \in Disks
      BY DEF Init, Disks
    <2> QED  BY <1>0, <2>1, <2>3, <2>4 DEF State, States
  <1>3. Numbers
    <2>1. value \in BOOLEAN
      BY DEF Init
    <2>2. ctxt.tag = 0 /\ blind = {} /\ log = FALSE /\ total = 0 /\ shipped = 0 /\ pc = "run" /\ pc \in Ends
      BY DEF Init, Ends
    <2>3. option \in Options
      BY DEF Init
    <2>4. MaxTag \in Nat /\ MaxPages \in Nat
      BY SyncTeXAssumption
    <2>5. ctxt.tag <= MaxTag /\ blind \subseteq 1..ctxt.tag /\ total \in Nat /\ shipped \in 0..MaxPages
      BY <2>2, <2>4
    <2> QED  BY <2>1, <2>2, <2>3, <2>5 DEF Numbers
  <1>4. Placed
    BY SyncTeXAssumption DEF Init, Placed
  <1>5. Running
    <2>1. Filed(State)
      BY DEF Init, State, Filed
    <2>2. Counted(State) /\ Covered(State, blind) /\ out.unknown \subseteq blind
      BY DEF Init, State, Unwritten, Counted, Covered
    <2>3. place = <<>>
      BY DEF Init
    <2> QED  BY <1>2, <2>1, <2>2, <2>3 DEF Running, Sound
  <1>6. Ended
    BY DEF Init, Ended
  <1> QED  BY <1>3, <1>4, <1>5, <1>6 DEF IInv

\* What IInv says while TeX runs.
LEMMA InRun ==
    ASSUME IInv, pc = "run"
    PROVE  /\ Sound(State, blind) /\ out.unknown \subseteq blind
           /\ place # <<>> => Settled(State)
           /\ State.ctxt = ctxt /\ State.out = out /\ State.disk = disk /\ State.pc = "run"
           /\ ctxt \in Ctxts /\ out \in Outs /\ disk \in Disks
           /\ place \in Seq(Kinds) /\ blind \subseteq 1..ctxt.tag
           /\ value \in BOOLEAN /\ log \in BOOLEAN /\ total \in Nat /\ shipped \in 0..MaxPages
           /\ option \in Options /\ ctxt.tag <= MaxTag
  BY DEF IInv, Running, Placed, Numbers, Sound, States, State

\* A new tag is accounted for by its Input line, by the mark of the first
\* file, or as one of those that are blind.
LEMMA StartInputKeeps ==
    ASSUME IInv, StartInput PROVE IInv' /\ pc' \notin {"null record", "done"}
  <1> USE DEF StartInput
  <1>1. /\ pc = "run" /\ place = <<>> /\ place' = <<>> /\ log' = TRUE
        /\ UNCHANGED <<option, value, total, shipped>>
        /\ ctxt.tag < MaxTag
    OBVIOUS
  <1>2. /\ Sound(State, blind) /\ out.unknown \subseteq blind
        /\ State.ctxt = ctxt /\ State.out = out /\ State.disk = disk /\ State.pc = "run"
        /\ ctxt \in Ctxts /\ out \in Outs /\ disk \in Disks /\ blind \subseteq 1..ctxt.tag
        /\ value \in BOOLEAN
    BY <1>1, InRun
  <1>3. Placed'
    BY <1>1 DEF IInv, Placed
  <1>4. ASSUME NEW n, Becomes(n), Sound(n, blind'), n.ctxt.tag \in {ctxt.tag, ctxt.tag + 1},
               n.out.unknown \subseteq blind', blind' \subseteq 1..n.ctxt.tag
        PROVE  IInv' /\ pc' \notin {"null record", "done"}
    <2>1. /\ State' = n /\ ctxt' = n.ctxt /\ out' = n.out /\ disk' = n.disk /\ pc' = n.pc
      BY <1>4, BecomesState DEF Sound, Becomes
    <2>2. Numbers'
      <3>1. n.pc \in Ends
        BY <1>4 DEF Sound, States
      <3>2. n.ctxt.tag <= MaxTag
        BY <1>1, <1>2, <1>4, SyncTeXAssumption DEF IInv, Numbers, Ctxts
      <3> QED  BY <1>1, <1>2, <1>4, <2>1, <3>1, <3>2 DEF IInv, Numbers
    <2>3. Sound(State, blind)'
      <3>1. Sound(State', blind')
        BY <1>4, <2>1
      <3> QED  BY <3>1 DEF Sound, Filed, Counted, Covered
    <2>4. Running'
      BY <1>1, <1>4, <2>1, <2>3 DEF Running
    <2>6. Ended'
      <3> SUFFICES ASSUME pc' # "run" PROVE Ended'
        BY DEF Ended
      <3>1. n \in States /\ Filed(n) /\ Counted(n) /\ n.pc # "run"
        BY <1>4, <2>1 DEF Sound
      <3>2. n.pc = "exited" /\ n.ctxt.off /\ ~n.ctxt.file
        BY <3>1 DEF Filed
      <3>3. State' \in States /\ Counted(State') /\ out'.unknown \subseteq blind'
        BY <1>4, <2>1, <3>1
      <3>4. (State \in States)' /\ Counted(State)'
        BY <3>3 DEF Counted
      <3>5. InSync'
        BY <2>1, <3>1, <3>2 DEF Filed, InSync
      <3> QED  BY <2>1, <3>2, <3>3, <3>4, <3>5 DEF Ended
    <2>7. pc' \notin {"null record", "done"}
      BY <1>4, <2>1 DEF Sound, Filed
    <2> QED  BY <1>3, <2>2, <2>4, <2>6, <2>7 DEF IInv
  <1>5. CASE ctxt.off
    <2>1. Becomes(State) /\ blind' = blind
      BY <1>5
    <2> QED  BY <1>2, <1>4, <2>1
  <1>6. CASE ~ctxt.off
    <2> DEFINE t == ctxt.tag + 1
               s == [State EXCEPT !.ctxt.tag = t]
    <2>1. /\ s \in States /\ s.out = out /\ s.disk = disk /\ s.pc = "run" /\ s.ctxt = [ctxt EXCEPT !.tag = t]
      BY <1>2 DEF Sound, States, Ctxts, State
    <2>2. t \in Nat \ {0} /\ t \notin out.unknown /\ 1..t = 1..ctxt.tag \cup {t}
      BY <1>2 DEF Ctxts
    <2>3. CASE t = 1
      <3> DEFINE n == [s EXCEPT !.ctxt.root = TRUE]
      <3>1. Becomes(n) /\ blind' = IF ctxt.file THEN {1} ELSE blind
        BY <1>6, <2>3
      <3>2. /\ n \in States /\ n.out = out /\ n.disk = disk /\ n.pc = "run"
            /\ n.ctxt = [s.ctxt EXCEPT !.root = TRUE]
        BY <2>1, <1>2 DEF States, Ctxts
      <3> HIDE DEF n, s
      <3>3. /\ n.ctxt.tag = 1 /\ n.ctxt.root /\ n.ctxt.file = ctxt.file /\ n.ctxt.off = ctxt.off
            /\ n.ctxt.busyName = ctxt.busyName /\ n.ctxt.ready = ctxt.ready
        BY <1>2, <2>1, <2>3, <3>2 DEF Ctxts
      <3>4. out.unknown = {} /\ out.inputs = {} /\ blind = {} /\ ctxt.tag = 0
        BY <1>2, <2>2, <2>3 DEF Sound, Counted, Ctxts
      <3>5. Filed(n)
        BY <1>2, <3>2, <3>3 DEF Sound, Filed
      <3>6. Counted(n) /\ Covered(n, blind')
        BY <3>1, <3>2, <3>3, <3>4 DEF Counted, Covered
      <3>7. Sound(n, blind')
        BY <3>2, <3>5, <3>6 DEF Sound
      <3>8. blind' \subseteq 1..n.ctxt.tag
        BY <3>1, <3>3, <3>4
      <3>9. n.ctxt.tag = ctxt.tag + 1 /\ n.out.unknown \subseteq blind'
        BY <3>2, <3>3, <3>4
      <3> QED  BY <1>4, <3>1, <3>7, <3>8, <3>9
    <2>4. CASE t # 1
      <3> DEFINE b == blind \cup {t}
      <3>1. PICK d \in DotOpen(s, value) :
              IF d.ctxt.file THEN \E n \in RecordInput(d, t) : Becomes(n) ELSE Becomes(d)
        BY <1>6, <2>4
      <3>2. blind' = IF ~value /\ ~ctxt.file THEN b ELSE blind
        BY <1>6, <2>4
      <3> HIDE DEF s, b
      <3>3. /\ s.ctxt.tag = t /\ s.ctxt.root = ctxt.root /\ s.ctxt.file = ctxt.file
            /\ s.ctxt.off = ctxt.off
            /\ s.ctxt.busyName = ctxt.busyName /\ s.ctxt.ready = ctxt.ready
        BY <1>2, <2>1 DEF Ctxts
      <3>4. Sound(s, b)
        <4>1. Filed(s)
          BY <1>2, <2>1, <3>3 DEF Sound, Filed
        <4>2. Counted(s)
          BY <1>2, <2>1, <2>2, <3>3 DEF Sound, Counted
        <4>3. Covered(s, b)
          <5>1. ctxt.tag # 0
            BY <2>4 DEF t
          <5>2. 2..t \subseteq 2..ctxt.tag \cup {t}
            BY <1>2, <2>2 DEF Ctxts
          <5> QED  BY <1>2, <2>1, <2>2, <3>3, <5>1, <5>2 DEF Sound, Covered, b
        <4> QED  BY <2>1, <4>1, <4>2, <4>3 DEF Sound
      <3>5. /\ Sound(d, b) /\ d.ctxt.tag = t /\ d.out.unknown \subseteq out.unknown
            /\ d = s \/ d.ctxt.off \/ d.ctxt.file
            /\ value => d.ctxt.off \/ d.ctxt.file
        <4>1. value \in BOOLEAN /\ s.out.unknown = out.unknown
          BY <1>2, <2>1
        <4>2. /\ Sound(d, b) /\ d.ctxt.tag = s.ctxt.tag /\ d.out.unknown \subseteq s.out.unknown
              /\ d = s \/ d.ctxt.off \/ d.ctxt.file
              /\ value => d.ctxt.off \/ d.ctxt.file
          BY <3>4, <4>1, DotOpenSound
        <4> QED  BY <3>3, <4>1, <4>2
      <3>6. blind' \subseteq 1..t /\ blind \subseteq blind' /\ blind' \subseteq b
        BY <1>2, <2>2, <3>2 DEF b
      <3>7. ASSUME NEW n, Sound(n, b), n.ctxt.off \/ (n.ctxt.file /\ t \in n.out.inputs)
            PROVE  Sound(n, blind')
        <4>1. Sound(n, blind)
          BY <3>7, CoveredByFile DEF b
        <4> QED  BY <3>6, <4>1 DEF Sound, Covered
      <3>8. CASE d.ctxt.file
        <4>1. PICK n \in RecordInput(d, t) : Becomes(n)
          BY <3>1, <3>8
        <4>2. /\ Sound(n, b) /\ n.ctxt.tag = t /\ n.out.unknown = d.out.unknown
              /\ n.ctxt.off \/ (n.ctxt.file /\ t \in n.out.inputs)
          BY <2>2, <3>5, <3>8, RecordInputSound
        <4>3. Sound(n, blind')
          BY <3>7, <4>2
        <4> QED  BY <1>2, <1>4, <3>5, <3>6, <4>1, <4>2, <4>3
      <3>9. CASE ~d.ctxt.file /\ d.ctxt.off
        <4>1. Sound(d, blind')
          BY <3>5, <3>7, <3>9
        <4> QED  BY <1>2, <1>4, <3>1, <3>5, <3>6, <3>9, <4>1
      <3>10. CASE ~d.ctxt.file /\ ~d.ctxt.off
        <4>1. blind' = b
          BY <3>2, <3>3, <3>5, <3>10
        <4> QED  BY <1>2, <1>4, <3>1, <3>5, <3>6, <3>10, <4>1
      <3> QED  BY <3>8, <3>9, <3>10
    <2> QED  BY <2>3, <2>4
  <1> QED  BY <1>5, <1>6

\* Nothing is written when the source assigns \synctex.
LEMMA SetSynctexKeeps ==
    ASSUME IInv, SetSynctex PROVE IInv' /\ pc' \notin {"null record", "done"}
  <1>1. /\ pc = "run" /\ UNCHANGED <<option, blind, place, log, total, shipped>>
        /\ Becomes(State) /\ place = <<>>
    BY DEF SetSynctex, Becomes, State
  <1>2. value' \in BOOLEAN /\ log' \in BOOLEAN
    BY <1>1 DEF SetSynctex, IInv, Numbers
  <1>3. Placed' /\ total' \in Nat /\ shipped' \in 0..MaxPages
    BY <1>1 DEF IInv, Placed, Numbers
  <1> QED  BY <1>1, <1>2, <1>3, InRun, MessageKeeps

\* The first page settles whether there is a file.
LEMMA SheetKeeps ==
    ASSUME IInv, Sheet PROVE IInv' /\ pc' \notin {"null record", "done"}
  <1>1. /\ pc = "run" /\ UNCHANGED <<option, value, blind, log, total>>
        /\ place' = <<"empty page">> /\ shipped' = shipped + 1 /\ shipped < MaxPages
    BY DEF Sheet, Steady
  <1>2. Placed'
    <2>1. <<"empty page">> \in Seq(Kinds)
      BY DEF Kinds
    <2> QED  BY <1>1, <2>1 DEF Placed
  <1>3. total' \in Nat /\ shipped' \in 0..MaxPages /\ value' \in BOOLEAN /\ log' \in BOOLEAN
    <2>1. total \in Nat /\ shipped \in 0..MaxPages /\ value \in BOOLEAN /\ log \in BOOLEAN
      BY <1>1, InRun
    <2>2. MaxPages \in Nat
      BY SyncTeXAssumption
    <2>3. shipped' \in 0..MaxPages
      <3>1. shipped \in 0..MaxPages /\ shipped < MaxPages /\ shipped' = shipped + 1
        BY <1>1, <2>1
      <3> QED  BY <2>2, <3>1
    <2> QED  BY <1>1, <2>1, <2>3
  <1>4. PICK n : Becomes(n) /\ Sound(n, blind) /\ n.ctxt.tag = ctxt.tag
                 /\ n.out.unknown \subseteq blind /\ Settled(n)
    <2>1. CASE ctxt.off
      <3>1. Becomes(State)
        BY <2>1 DEF Sheet
      <3> QED  BY <1>1, <2>1, <3>1, InRun DEF Settled
    <2>2. CASE ~ctxt.off
      <3>1. PICK p \in PrepareContent(State, value) :
              IF p.ctxt.file
              THEN \E n \in Writing(p, Bracket(p, <<"sheet", total + 1>>)) : Becomes(n)
              ELSE Becomes(p)
        BY <2>2 DEF Sheet
      <3>2. /\ Sound(p, blind) /\ Settled(p) /\ p.ctxt.tag = ctxt.tag
            /\ p.out.unknown \subseteq blind
        <4>1. /\ Sound(State, blind) /\ State.ctxt = ctxt /\ State.out = out
              /\ value \in BOOLEAN /\ out.unknown \subseteq blind
          BY <1>1, InRun
        <4>2. /\ Sound(p, blind) /\ Settled(p) /\ p.ctxt.tag = State.ctxt.tag
              /\ p.out.unknown \subseteq State.out.unknown
          BY <4>1, PrepareContentSound
        <4> QED  BY <4>1, <4>2
      <3>3. CASE p.ctxt.file
        <4> DEFINE w == Bracket(p, <<"sheet", total + 1>>)
        <4>1. PICK n \in Writing(p, w) : Becomes(n)
          BY <3>1, <3>3
        <4>2. Sound(w, blind) /\ w.ctxt = p.ctxt /\ w.out.unknown = p.out.unknown
          <5>1. <<"sheet", total + 1>> \in Brackets
            <6>1. total + 1 \in Nat
              <7>1. total' \in Nat /\ total' = total
                BY <1>1, <1>3
              <7> QED  BY <7>1
            <6> QED  BY <6>1 DEF Brackets
          <5> QED  BY <3>2, <5>1, BracketSound
        <4> HIDE DEF w
        <4>3. Sound(n, blind) /\ (n = w \/ (n.ctxt.off /\ n.ctxt.tag = p.ctxt.tag /\ n.out = p.out))
          BY <3>2, <4>1, <4>2, WritingSound
        <4> QED  BY <3>2, <4>1, <4>2, <4>3 DEF Settled
      <3> QED  BY <3>1, <3>2, <3>3
    <2> QED  BY <2>1, <2>2
  <1> QED  BY <1>1, <1>2, <1>3, <1>4, MessageKeeps

\* The end of a page.
LEMMA TeehsKeeps ==
    ASSUME IInv, Teehs PROVE IInv' /\ pc' \notin {"null record", "done"}
  <1>1. /\ pc = "run" /\ UNCHANGED <<option, value, blind, log, shipped>>
        /\ place # <<>> /\ place' = <<>> /\ total' \in {total, total + 1}
    BY DEF Teehs, Steady, ShippingOut
  <1>2. Placed'
    BY <1>1, SyncTeXAssumption DEF Placed
  <1>3. total' \in Nat /\ shipped' \in 0..MaxPages /\ value' \in BOOLEAN /\ log' \in BOOLEAN
    BY <1>1, InRun
  <1>4. PICK n : Becomes(n) /\ Sound(n, blind) /\ n.ctxt.tag = ctxt.tag
                 /\ n.out.unknown \subseteq blind
    <2>1. CASE Becomes(State)
      BY <1>1, <2>1, InRun
    <2>2. CASE ~Becomes(State)
      <3> DEFINE w == Unbracket(State, <<"sheet", total'>>)
      <3>1. PICK n \in Writing(State, w) : Becomes(n)
        BY <2>2 DEF Teehs
      <3>2. Sound(w, blind) /\ w.ctxt = ctxt /\ w.out.unknown = out.unknown
        <4>1. <<"sheet", total'>> \in Brackets
          BY <1>3 DEF Brackets
        <4> QED  BY <1>1, <4>1, InRun, BracketSound
      <3> HIDE DEF w
      <3>3. Sound(n, blind) /\ (n = w \/ (n.ctxt.off /\ n.ctxt.tag = State.ctxt.tag /\ n.out = State.out))
        BY <1>1, <3>1, <3>2, InRun, WritingSound
      <3> QED  BY <1>1, <3>1, <3>2, <3>3, InRun
    <2> QED  BY <2>1, <2>2
  <1> QED  BY <1>1, <1>2, <1>3, <1>4, MessageKeeps

\* A sequence without its last element.
LEMMA FrontOf ==
    ASSUME NEW S, NEW q \in Seq(S), q # <<>>
    PROVE  /\ Len(q) \in Nat \ {0} /\ Last(q) = q[Len(q)]
           /\ Front(q) \in Seq(S) /\ Len(Front(q)) = Len(q) - 1
           /\ \A i \in 1..Len(q) - 1 : Front(q)[i] = q[i]
  <1>1. Len(q) \in Nat \ {0} /\ Last(q) = q[Len(q)]
    BY EmptySeq DEF Last
  <1> DEFINE l == Len(q) - 1
  <1>2. l \in Nat
    BY <1>1
  <1>3. \A i \in 1..l : q[i] \in S
    BY <1>1
  <1> HIDE DEF l
  <1>4. /\ SubSeq(q, 1, l) \in Seq(S) /\ Len(SubSeq(q, 1, l)) = IF 1 <= l THEN l - 1 + 1 ELSE 0
        /\ \A i \in 1 .. l - 1 + 1 : SubSeq(q, 1, l)[i] = q[1 + i - 1]
    BY <1>2, <1>3, SubSeqProperties
  <1>5. l = (IF 1 <= l THEN l - 1 + 1 ELSE 0) /\ \A i \in 1..l : 1 + i - 1 = i
    BY <1>2
  <1>6. \A i \in 1..l : SubSeq(q, 1, l)[i] = q[i]
    BY <1>2, <1>4, <1>5
  <1> QED  BY <1>1, <1>4, <1>5, <1>6 DEF l, Front

\* The beginning of a list, recorded if there is a file for it.
LEMMA ListKeeps ==
    ASSUME IInv, List PROVE IInv' /\ pc' \notin {"null record", "done"}
  <1>1. /\ pc = "run" /\ UNCHANGED <<option, value, blind, log, total, shipped>>
        /\ place # <<>> /\ Len(place) < MaxNest
        /\ \/ place' = Append(place, "list")
           \/ place' = Front(place) \o <<"page", "list">>
           \/ place' = Front(place) \o <<"form", "list">>
    BY DEF List, Steady, ShippingOut
  <1>2. Placed'
    <2>1. place \in Seq(Kinds) /\ MaxNest \in Nat
      BY <1>1, InRun, SyncTeXAssumption
    <2>2. Front(place) \in Seq(Kinds) /\ Len(Front(place)) = Len(place) - 1
      BY <1>1, <2>1, FrontOf
    <2>3. /\ Append(place, "list") \in Seq(Kinds)
          /\ Len(Append(place, "list")) = Len(place) + 1
      <3>1. "list" \in Kinds
        BY DEF Kinds
      <3> QED  BY <2>1, <3>1, AppendProperties
    <2>4. /\ <<"page", "list">> \in Seq(Kinds) /\ <<"form", "list">> \in Seq(Kinds)
      BY DEF Kinds
    <2>5. ASSUME NEW q \in Seq(Kinds), Len(q) = 2
          PROVE  Front(place) \o q \in Seq(Kinds) /\ Len(Front(place) \o q) = Len(place) + 1
      <3>1. /\ Front(place) \o q \in Seq(Kinds)
            /\ Len(Front(place) \o q) = Len(Front(place)) + Len(q)
        BY <2>2, <2>5, ConcatProperties
      <3>2. Len(place) \in Nat
        BY <2>1
      <3> QED  BY <2>2, <2>5, <3>1, <3>2
    <2>6. place' \in Seq(Kinds) /\ Len(place') = Len(place) + 1
      BY <1>1, <2>3, <2>4, <2>5
    <2>7. Len(place) + 1 <= MaxNest
      BY <1>1, <2>1
    <2> QED  BY <2>6, <2>7 DEF Placed
  <1>3. total' \in Nat /\ shipped' \in 0..MaxPages /\ value' \in BOOLEAN /\ log' \in BOOLEAN
    BY <1>1, InRun
  <1>4. PICK n : Becomes(n) /\ Sound(n, blind) /\ n.ctxt.tag = ctxt.tag
                 /\ n.out.unknown \subseteq blind /\ Settled(n)
    <2>0. /\ Sound(State, blind) /\ Settled(State) /\ State.ctxt = ctxt /\ State.out = out
          /\ out.unknown \subseteq blind
      BY <1>1, InRun
    <2>1. CASE Ignored
      <3>1. Becomes(State)
        BY <2>1 DEF List
      <3> QED  BY <2>0, <3>1
    <2>2. CASE ~Ignored
      <3> DEFINE s0 == [State EXCEPT !.ctxt.notVoid = TRUE]
                 s  == [State EXCEPT !.ctxt.notVoid = TRUE, !.ctxt.recorder = FALSE]
      <3>1. PICK t \in 0..ctxt.tag : \E n \in Writing(s, Bracket(Tagged(s, t), <<"list">>)) : Becomes(n)
        BY <2>2 DEF List
      <3>2. /\ Sound(s, blind) /\ s.out = out /\ s.ctxt.tag = ctxt.tag
            /\ s.ctxt.file = ctxt.file /\ s.ctxt.off = ctxt.off /\ s.ctxt.ready = ctxt.ready
        <4>1. /\ Sound(s0, blind) /\ s0.out = out /\ s0.ctxt.tag = ctxt.tag
              /\ s0.ctxt.file = ctxt.file /\ s0.ctxt.off = ctxt.off /\ s0.ctxt.ready = ctxt.ready
          BY <2>0, NotVoidSound
        <4>2. s = [s0 EXCEPT !.ctxt.recorder = FALSE]
          BY DEF State
        <4> HIDE DEF s0, s
        <4> QED  BY <4>1, <4>2, RecorderSound
      <3> HIDE DEF s
      <3>3. s.ctxt.file /\ Settled(s)
        BY <2>0, <2>2, <3>2 DEF Ignored, Settled
      <3> DEFINE g == Tagged(s, t)
                 w == Bracket(g, <<"list">>)
      <3>4. Sound(g, blind) /\ g.ctxt = s.ctxt /\ g.out.unknown \subseteq blind
        BY <2>0, <3>2, <3>3, TaggedSound
      <3> HIDE DEF g
      <3>5. Sound(w, blind) /\ w.ctxt = g.ctxt /\ w.out.unknown = g.out.unknown
        BY <3>4, BracketSound DEF Brackets
      <3>6. PICK n \in Writing(s, w) : Becomes(n)
        BY <3>1 DEF g
      <3> HIDE DEF w
      <3>7. Sound(n, blind) /\ (n = w \/ (n.ctxt.off /\ n.ctxt.tag = s.ctxt.tag /\ n.out = s.out))
        BY <3>2, <3>5, <3>6, WritingSound
      <3> QED  BY <2>0, <3>2, <3>3, <3>4, <3>5, <3>6, <3>7 DEF Settled
    <2> QED  BY <2>1, <2>2
  <1> QED  BY <1>1, <1>2, <1>3, <1>4, MessageKeeps

\* One place less.
LEMMA FrontPlaced ==
    ASSUME IInv, place # <<>>, place' = Front(place) PROVE Placed'
  <1>1. place \in Seq(Kinds) /\ MaxNest \in Nat /\ (Len(place) <= MaxNest \/ Len(place) = 1)
    BY SyncTeXAssumption DEF IInv, Placed
  <1>2. Front(place) \in Seq(Kinds) /\ Len(Front(place)) = Len(place) - 1
    BY <1>1, FrontOf
  <1>3. Len(place) \in Nat \ {0}
    BY <1>1, FrontOf
  <1>4. Len(Front(place)) <= MaxNest
    BY <1>1, <1>2, <1>3
  <1> QED  BY <1>2, <1>4 DEF Placed

\* The end of a list.
LEMMA TsilKeeps ==
    ASSUME IInv, Tsil PROVE IInv' /\ pc' \notin {"null record", "done"}
  <1>1. /\ pc = "run" /\ UNCHANGED <<option, value, blind, log, total, shipped>>
        /\ place # <<>> /\ place' = Front(place)
    BY DEF Tsil, Steady, ShippingOut
  <1>2. Placed'
    BY <1>1, FrontPlaced
  <1>3. total' \in Nat /\ shipped' \in 0..MaxPages /\ value' \in BOOLEAN /\ log' \in BOOLEAN
    BY <1>1, InRun
  <1>4. PICK n : Becomes(n) /\ Sound(n, blind) /\ n.ctxt.tag = ctxt.tag
                 /\ n.out.unknown \subseteq blind /\ Settled(n)
    <2>0. /\ Sound(State, blind) /\ Settled(State) /\ State.ctxt = ctxt /\ State.out = out
          /\ out.unknown \subseteq blind
      BY <1>1, InRun
    <2>1. CASE Becomes(State)
      BY <2>0, <2>1
    <2>2. CASE ~Becomes(State)
      <3> DEFINE s == [State EXCEPT !.ctxt.recorder = FALSE]
                 w == Unbracket(s, <<"list">>)
      <3>1. PICK n \in Writing(s, w) : Becomes(n)
        BY <2>2 DEF Tsil
      <3>4. /\ Sound(s, blind) /\ s.out = out /\ s.ctxt.tag = ctxt.tag /\ s.ctxt.file = ctxt.file
            /\ s.ctxt.off = ctxt.off /\ s.ctxt.ready = ctxt.ready
        BY <2>0, RecorderSound
      <3> HIDE DEF s
      <3>2. Sound(w, blind) /\ w.ctxt = s.ctxt /\ w.out.unknown = out.unknown
        BY <3>4, BracketSound DEF Brackets
      <3> HIDE DEF w
      <3>3. Sound(n, blind) /\ (n = w \/ (n.ctxt.off /\ n.ctxt.tag = s.ctxt.tag /\ n.out = s.out))
        BY <3>1, <3>2, <3>4, WritingSound
      <3> QED  BY <2>0, <3>1, <3>2, <3>3, <3>4 DEF Settled
    <2> QED  BY <2>1, <2>2
  <1> QED  BY <1>1, <1>2, <1>3, <1>4, MessageKeeps

\* A kern that waits writes nothing.
LEMMA DeferKeeps ==
    ASSUME IInv, Defer PROVE IInv' /\ pc' \notin {"null record", "done"}
  <1> DEFINE n == [State EXCEPT !.ctxt.recorder = TRUE]
  <1>1. /\ pc = "run" /\ UNCHANGED <<option, value, blind, log, total, shipped, place>>
        /\ place # <<>> /\ Becomes(n)
    BY DEF Defer, Steady, ShippingOut
  <1>2. Placed'
    BY <1>1 DEF IInv, Placed
  <1>3. total' \in Nat /\ shipped' \in 0..MaxPages /\ value' \in BOOLEAN /\ log' \in BOOLEAN
    BY <1>1, InRun
  <1>4. /\ Sound(State, blind) /\ Settled(State) /\ State.ctxt = ctxt /\ State.out = out
        /\ out.unknown \subseteq blind
    BY <1>1, InRun
  <1>5. /\ Sound(n, blind) /\ n.ctxt.tag = ctxt.tag /\ n.out.unknown \subseteq blind /\ Settled(n)
    BY <1>4, RecorderSound DEF Settled
  <1> HIDE DEF n
  <1> QED  BY <1>1, <1>2, <1>3, <1>5, MessageKeeps

\* The kern that waits is recorded without a look at the file: Settled says it
\* is there.  Only if there is one can this turn SyncTeX off.
LEMMA OfKernSound ==
    ASSUME NEW b, NEW s, Sound(s, b), s.ctxt.file, s.ctxt.ready, s.out.unknown \subseteq b,
           NEW k \in OfKern(s)
    PROVE  /\ Sound(k, b) /\ Settled(k) /\ k.ctxt.tag = s.ctxt.tag
           /\ k.out.unknown \subseteq b
           /\ ~k.ctxt.file => s.ctxt.recorder
  <1>1. CASE k = s
    BY <1>1 DEF Settled
  <1>2. CASE k # s
    <2>1. PICK t \in 1..s.ctxt.tag : k \in Writing(s, NodeRecord(s, t))
      BY <1>2 DEF OfKern
    <2>2. s.ctxt.recorder
      BY <1>2 DEF OfKern
    <2> DEFINE w == NodeRecord(s, t)
    <2>3. t \in 0..s.ctxt.tag
      OBVIOUS
    <2>4. Sound(w, b) /\ w.ctxt = s.ctxt /\ w.out.unknown \subseteq s.out.unknown \cup b
      BY <2>3, NodeRecordSound
    <2> HIDE DEF w
    <2>5. Sound(k, b) /\ (k = w \/ (k.ctxt.off /\ k.ctxt.tag = s.ctxt.tag /\ k.out = s.out))
      BY <2>1, <2>4, WritingSound DEF w
    <2> QED  BY <2>2, <2>4, <2>5 DEF Settled
  <1> QED  BY <1>1, <1>2

\* The record of a node printed to a null pointer, after the kern that waited.
Unrecorded(k, n) ==
    /\ n.pc = "null record" /\ ~k.ctxt.file /\ ~option.gz
    /\ n \in States /\ n.ctxt.off /\ ~n.ctxt.file /\ n.ctxt.tag = k.ctxt.tag
    /\ Counted(n) /\ n.out = k.out /\ n.disk = k.disk /\ k.pc = "run"

\* So is the node's own record; but the kern's may have closed the file.
LEMMA OfNodeSound ==
    ASSUME NEW b, NEW k, Sound(k, b), Settled(k), k.out.unknown \subseteq b,
           NEW t \in 0..k.ctxt.tag, NEW n \in OfNode(k, t)
    PROVE  \/ /\ Sound(n, b) /\ Settled(n) /\ n.ctxt.tag = k.ctxt.tag
              /\ n.out.unknown \subseteq b
           \/ Unrecorded(k, n)
  <1> DEFINE s == [k EXCEPT !.ctxt.recorder = FALSE]
  <1>1. /\ Sound(s, b) /\ s.out = k.out /\ s.ctxt.tag = k.ctxt.tag /\ s.ctxt.file = k.ctxt.file
        /\ s.ctxt.off = k.ctxt.off /\ s.ctxt.ready = k.ctxt.ready /\ s.pc = k.pc
    BY RecorderSound
  <1>2. s.disk = k.disk
    BY DEF Sound, States
  <1>3. n \in IF s.pc # "run" THEN {s}
              ELSE IF s.ctxt.file THEN Writing(s, NodeRecord(s, t))
              ELSE IF option.gz THEN {Abort(s)}
              ELSE {[s EXCEPT !.pc = "null record"]}
    BY DEF OfNode
  <1> HIDE DEF s
  <1>4. CASE s.pc # "run"
    BY <1>1, <1>3, <1>4 DEF Settled
  <1>5. CASE s.pc = "run" /\ s.ctxt.file
    <2> DEFINE w == NodeRecord(s, t)
    <2>1. n \in Writing(s, w)
      BY <1>3, <1>5
    <2>2. t \in 0..s.ctxt.tag
      BY <1>1
    <2>3. Sound(w, b) /\ w.ctxt = s.ctxt /\ w.out.unknown \subseteq s.out.unknown \cup b
      BY <1>1, <1>5, <2>2, NodeRecordSound
    <2> HIDE DEF w
    <2>4. Sound(n, b) /\ (n = w \/ (n.ctxt.off /\ n.ctxt.tag = s.ctxt.tag /\ n.out = s.out))
      BY <1>1, <2>1, <2>3, WritingSound
    <2> QED  BY <1>1, <2>3, <2>4 DEF Settled
  <1>6. CASE s.pc = "run" /\ ~s.ctxt.file /\ option.gz
    <2>1. n = Abort(s)
      BY <1>3, <1>6
    <2>2. Sound(n, b) /\ n.ctxt.off /\ n.ctxt.tag = s.ctxt.tag /\ n.out = s.out
      BY <1>1, <2>1, AbortSound, AbortFields DEF Sound
    <2> QED  BY <1>1, <2>2 DEF Settled
  <1>7. CASE s.pc = "run" /\ ~s.ctxt.file /\ ~option.gz
    <2>1. n = [s EXCEPT !.pc = "null record"]
      BY <1>3, <1>7
    <2>2. /\ n \in States /\ n.ctxt = s.ctxt /\ n.out = s.out /\ n.disk = s.disk
          /\ n.pc = "null record"
      BY <1>1, <2>1 DEF Sound, States, Ends
    <2>3. s.ctxt.off
      BY <1>1, <1>7 DEF Settled
    <2>4. Counted(n)
      BY <1>1, <2>2 DEF Sound, Counted
    <2> QED  BY <1>1, <1>2, <1>7, <2>2, <2>3, <2>4 DEF Unrecorded
  <1> QED  BY <1>4, <1>5, <1>6, <1>7

\* A node is recorded, and after the kern that waited.
LEMMA NodeKeeps ==
    ASSUME IInv, Node
    PROVE  IInv' /\ pc' # "done" /\ (pc' = "null record" => ctxt.file /\ ctxt.recorder /\ ~option.gz)
  <1>1. /\ pc = "run" /\ UNCHANGED <<option, value, blind, log, total, shipped, place>>
        /\ place # <<>> /\ ~ctxt.off
    BY DEF Node, Steady, ShippingOut
  <1>2. Placed'
    BY <1>1 DEF IInv, Placed
  <1>3. total' \in Nat /\ shipped' \in 0..MaxPages /\ value' \in BOOLEAN /\ log' \in BOOLEAN
    BY <1>1, InRun
  <1>4. /\ Sound(State, blind) /\ Settled(State) /\ State.ctxt = ctxt /\ State.out = out
        /\ out.unknown \subseteq blind
    BY <1>1, InRun
  <1>5. PICK k \in OfKern(State), t \in 0..ctxt.tag : \E n \in OfNode(k, t) : Becomes(n)
    BY DEF Node
  <1>6. ctxt.file /\ ctxt.ready
    BY <1>1, <1>4 DEF Settled
  <1>7. /\ Sound(k, blind) /\ Settled(k) /\ k.ctxt.tag = ctxt.tag /\ k.out.unknown \subseteq blind
        /\ ~k.ctxt.file => ctxt.recorder
    BY <1>4, <1>6, OfKernSound
  <1>8. PICK n \in OfNode(k, t) : Becomes(n)
    BY <1>5
  <1>9. \/ Sound(n, blind) /\ Settled(n) /\ n.ctxt.tag = ctxt.tag /\ n.out.unknown \subseteq blind
        \/ Unrecorded(k, n)
    <2> DEFINE b == blind
               l == ctxt.tag
    <2>1. /\ Sound(k, b) /\ Settled(k) /\ k.out.unknown \subseteq b /\ k.ctxt.tag = l
          /\ t \in 0..k.ctxt.tag
      BY <1>7
    <2> HIDE DEF b, l
    <2>2. \/ Sound(n, b) /\ Settled(n) /\ n.ctxt.tag = l /\ n.out.unknown \subseteq b
          \/ Unrecorded(k, n)
      BY <1>8, <2>1, OfNodeSound
    <2> QED  BY <2>2 DEF b, l
  <1>10. CASE Sound(n, blind) /\ Settled(n) /\ n.ctxt.tag = ctxt.tag /\ n.out.unknown \subseteq blind
    <2>1. IInv' /\ pc' \notin {"null record", "done"}
      BY <1>1, <1>2, <1>3, <1>8, <1>10, MessageKeeps
    <2> QED  BY <2>1
  <1>11. CASE Unrecorded(k, n)
    <2>0. /\ n.pc = "null record" /\ ~k.ctxt.file /\ ~option.gz
          /\ n \in States /\ n.ctxt.off /\ ~n.ctxt.file /\ n.ctxt.tag = k.ctxt.tag
          /\ Counted(n) /\ n.out = k.out /\ n.disk = k.disk /\ k.pc = "run"
      BY <1>11 DEF Unrecorded
    <2>1. State' = n /\ ctxt' = n.ctxt /\ out' = n.out /\ disk' = n.disk /\ pc' = n.pc
      BY <1>8, <2>0, BecomesState DEF Becomes
    <2>2. Numbers'
      BY <1>1, <1>7, <2>0, <2>1 DEF IInv, Numbers, Ends
    <2>3. Running'
      BY <2>0, <2>1 DEF Running
    <2>4. (State \in States)' /\ Counted(State)'
      <3>1. State' \in States /\ Counted(State')
        BY <2>0, <2>1
      <3> QED  BY <3>1 DEF Counted
    <2>5. InSync'
      BY <1>7, <2>0, <2>1 DEF Sound, Filed, InSync
    <2>6. Ended'
      BY <1>1, <1>7, <2>0, <2>1, <2>4, <2>5 DEF Ended
    <2>7. pc' = "null record"
      BY <2>0, <2>1
    <2> QED  BY <1>2, <1>6, <1>7, <2>0, <2>2, <2>3, <2>6, <2>7 DEF IInv
  <1> QED  BY <1>9, <1>10, <1>11

\* A form settles the file as a page does.
LEMMA FormKeeps ==
    ASSUME IInv, Form PROVE IInv' /\ pc' \notin {"null record", "done"}
  <1>1. /\ pc = "run" /\ UNCHANGED <<option, value, blind, log, total>>
        /\ place' = Append(place, "empty form") /\ Len(place) < MaxNest
        /\ shipped' = shipped + 1 /\ shipped < MaxPages
    BY DEF Form, Steady
  <1>2. Placed'
    <2>1. place \in Seq(Kinds) /\ MaxNest \in Nat /\ "empty form" \in Kinds
      BY <1>1, InRun, SyncTeXAssumption DEF Kinds
    <2>2. place' \in Seq(Kinds) /\ Len(place') = Len(place) + 1
      BY <1>1, <2>1, AppendProperties
    <2>3. Len(place) \in Nat
      BY <2>1, LenProperties
    <2>4. Len(place') <= MaxNest
      <3>1. Len(place) < MaxNest
        BY <1>1, Zenon
      <3>2. MaxNest \in Nat
        BY <2>1
      <3>3. Len(place') = Len(place) + 1
        BY <2>2
      <3> QED  BY <2>3, <3>1, <3>2, <3>3
    <2> QED  BY <2>2, <2>4 DEF Placed
  <1>3. total' \in Nat /\ shipped' \in 0..MaxPages /\ value' \in BOOLEAN /\ log' \in BOOLEAN
    <2>1. total \in Nat /\ value \in BOOLEAN /\ log \in BOOLEAN
      BY <1>1, InRun
    <2>2. shipped \in 0..MaxPages /\ MaxPages \in Nat
      BY <1>1, InRun, SyncTeXAssumption
    <2>3. shipped < MaxPages /\ shipped' = shipped + 1
      BY <1>1
    <2>4. shipped' \in 0..MaxPages
      BY <2>2, <2>3
    <2> QED  BY <1>1, <2>1, <2>4
  <1>4. PICK n : Becomes(n) /\ Sound(n, blind) /\ n.ctxt.tag = ctxt.tag
                 /\ n.out.unknown \subseteq blind /\ Settled(n)
    <2>0. /\ Sound(State, blind) /\ State.ctxt = ctxt /\ State.out = out
          /\ out.unknown \subseteq blind /\ value \in BOOLEAN
      BY <1>1, InRun
    <2>1. CASE ctxt.off
      <3>1. Becomes(State)
        BY <2>1 DEF Form
      <3> QED  BY <2>0, <2>1, <3>1 DEF Settled
    <2>2. CASE ~ctxt.off
      <3>1. PICK p \in PrepareContent(State, value) :
              LET d == [p EXCEPT !.ctxt.depth = @ + 1]
              IN \/ Becomes(p)
                 \/ /\ p.ctxt.file
                    /\ \E n \in IF option.forms THEN Writing(d, Bracket(d, <<"form">>)) ELSE {d} :
                           Becomes(n)
        BY <2>2 DEF Form
      <3>2. /\ Sound(p, blind) /\ Settled(p) /\ p.ctxt.tag = ctxt.tag
            /\ p.out.unknown \subseteq blind
        <4>1. /\ Sound(p, blind) /\ Settled(p) /\ p.ctxt.tag = State.ctxt.tag
              /\ p.out.unknown \subseteq State.out.unknown
          BY <2>0, PrepareContentSound
        <4> QED  BY <2>0, <4>1
      <3>3. CASE Becomes(p)
        BY <3>2, <3>3
      <3>4. CASE ~Becomes(p)
        <4> DEFINE d == [p EXCEPT !.ctxt.depth = @ + 1]
                   w == Bracket(d, <<"form">>)
        <4>1. PICK n \in IF option.forms THEN Writing(d, w) ELSE {d} : Becomes(n)
          BY <3>1, <3>4
        <4>2. /\ Sound(d, blind) /\ d.out = p.out /\ d.ctxt.tag = p.ctxt.tag
              /\ d.ctxt.file = p.ctxt.file /\ d.ctxt.off = p.ctxt.off
              /\ d.ctxt.ready = p.ctxt.ready
          <5> DEFINE i == p.ctxt.depth + 1
          <5>1. i \in Int
            BY <3>2 DEF Sound, States, Ctxts
          <5>2. d = [p EXCEPT !.ctxt.depth = i]
            OBVIOUS
          <5> HIDE DEF i, d
          <5> QED  BY <3>2, <5>1, <5>2, DepthSound
        <4> HIDE DEF d
        <4>3. Sound(w, blind) /\ w.ctxt = d.ctxt /\ w.out.unknown = d.out.unknown
          BY <4>2, BracketSound DEF Brackets
        <4> HIDE DEF w
        <4>4. CASE option.forms
          <5>1. Sound(n, blind) /\ (n = w \/ (n.ctxt.off /\ n.ctxt.tag = d.ctxt.tag /\ n.out = d.out))
            BY <4>1, <4>2, <4>3, <4>4, WritingSound
          <5> QED  BY <3>2, <4>1, <4>2, <4>3, <5>1 DEF Settled
        <4>5. CASE ~option.forms
          BY <3>2, <4>1, <4>2, <4>5 DEF Settled
        <4> QED  BY <4>4, <4>5
      <3> QED  BY <3>3, <3>4
    <2> QED  BY <2>1, <2>2
  <1> QED  BY <1>1, <1>2, <1>3, <1>4, MessageKeeps

\* The end of a form.
LEMMA MrofKeeps ==
    ASSUME IInv, Mrof PROVE IInv' /\ pc' \notin {"null record", "done"}
  <1>1. /\ pc = "run" /\ UNCHANGED <<option, value, blind, log, total, shipped>>
        /\ place # <<>> /\ place' = Front(place)
    BY DEF Mrof, Steady, ShippingOut
  <1>2. Placed'
    BY <1>1, FrontPlaced
  <1>3. total' \in Nat /\ shipped' \in 0..MaxPages /\ value' \in BOOLEAN /\ log' \in BOOLEAN
    BY <1>1, InRun
  <1>4. PICK n : Becomes(n) /\ Sound(n, blind) /\ n.ctxt.tag = ctxt.tag
                 /\ n.out.unknown \subseteq blind /\ Settled(n)
    <2>0. /\ Sound(State, blind) /\ Settled(State) /\ State.ctxt = ctxt /\ State.out = out
          /\ out.unknown \subseteq blind
      BY <1>1, InRun
    <2>1. CASE ~ctxt.file
      <3>1. Becomes(State)
        BY <2>1 DEF Mrof
      <3> QED  BY <2>0, <3>1
    <2>2. CASE ctxt.file
      <3> DEFINE d == [State EXCEPT !.ctxt.depth = @ - 1]
                 w == IF option.forms THEN Unbracket(d, <<"form">>) ELSE d
      <3>1. PICK n \in Writing(State, w) : Becomes(n)
        BY <2>2 DEF Mrof
      <3>2. /\ Sound(d, blind) /\ d.out = out /\ d.ctxt.tag = ctxt.tag
            /\ d.ctxt.file = ctxt.file /\ d.ctxt.off = ctxt.off
            /\ d.ctxt.ready = ctxt.ready
        <4> DEFINE i == State.ctxt.depth - 1
        <4>1. i \in Int
          BY <2>0 DEF Sound, States, Ctxts
        <4>2. d = [State EXCEPT !.ctxt.depth = i]
          OBVIOUS
        <4> HIDE DEF i, d
        <4> QED  BY <2>0, <4>1, <4>2, DepthSound
      <3> HIDE DEF d
      <3>3. Sound(w, blind) /\ w.ctxt = d.ctxt /\ w.out.unknown = d.out.unknown
        <4>1. <<"form">> \in Brackets
          BY DEF Brackets
        <4>2. LET u == Unbracket(d, <<"form">>)
              IN Sound(u, blind) /\ u.ctxt = d.ctxt /\ u.out.unknown = d.out.unknown
          BY <3>2, <4>1, BracketSound
        <4> QED  BY <3>2, <4>2
      <3> HIDE DEF w
      <3>4. Sound(n, blind) /\ (n = w \/ (n.ctxt.off /\ n.ctxt.tag = State.ctxt.tag /\ n.out = State.out))
        BY <2>0, <3>1, <3>3, WritingSound
      <3> QED  BY <2>0, <3>1, <3>2, <3>3, <3>4 DEF Settled
    <2> QED  BY <2>1, <2>2
  <1> QED  BY <1>1, <1>2, <1>3, <1>4, MessageKeeps

-----------------------------------------------------------------------------
(* The end of the run *)

\* Files of the run's directory are removed, and nothing else changes.
LEMMA RidFields ==
    ASSUME NEW s \in States, NEW F
    PROVE  /\ Rid(s, F) \in States /\ Rid(s, F).ctxt = s.ctxt /\ Rid(s, F).out = s.out
           /\ Rid(s, F).pc = s.pc
           /\ Rid(s, F).disk.plain = IF "plain" \in F THEN "none" ELSE s.disk.plain
           /\ Rid(s, F).disk.gz = IF "gz" \in F THEN "none" ELSE s.disk.gz
           /\ Rid(s, F).disk.busy = IF "busy" \in F THEN "none" ELSE s.disk.busy
  <1> DEFINE d == [f \in DOMAIN s.disk |-> IF f \in F THEN "none" ELSE s.disk[f]]
  <1>1. s.disk \in Disks /\ DOMAIN s.disk = {"plain", "gz", "busy"}
    BY DEF States, Disks
  <1>2. /\ d.plain = IF "plain" \in F THEN "none" ELSE s.disk.plain
        /\ d.gz = IF "gz" \in F THEN "none" ELSE s.disk.gz
        /\ d.busy = IF "busy" \in F THEN "none" ELSE s.disk.busy
    BY <1>1
  <1>3. d = [plain |-> d.plain, gz |-> d.gz, busy |-> d.busy]
    BY <1>1
  <1>4. d \in Disks
    BY <1>1, <1>2, <1>3 DEF Disks
  <1>5. Rid(s, F) = [s EXCEPT !.disk = d]
    BY DEF Rid
  <1> HIDE DEF d
  <1> QED  BY <1>2, <1>4, <1>5 DEF States

\* Closing changes the context only.
LEMMA ClosedFields ==
    ASSUME NEW s \in States
    PROVE  /\ Closed(s) \in States /\ Closed(s).out = s.out /\ Closed(s).disk = s.disk
           /\ Closed(s).pc = s.pc
           /\ ~Closed(s).ctxt.file /\ Closed(s).ctxt.tag = s.ctxt.tag
           /\ Closed(s).ctxt.notVoid = s.ctxt.notVoid /\ Closed(s).ctxt.off = s.ctxt.off
  <1>1. Closed(s).ctxt = [s.ctxt EXCEPT !.file = FALSE]
    BY DEF Closed, States
  <1> QED  BY <1>1 DEF Closed, States, Ctxts

\* The working file gets its final name.
LEMMA RenamedFields ==
    ASSUME NEW s \in States, NEW h \in {"no", "short", "yes"}
    PROVE  /\ Renamed(s, h) \in States
           /\ Renamed(s, h).out.whole = h /\ Renamed(s, h).out.inputs = s.out.inputs
           /\ Renamed(s, h).out.unknown = s.out.unknown
           /\ Renamed(s, h).out.open = s.out.open /\ Renamed(s, h).out.nested = s.out.nested
           /\ ~Renamed(s, h).ctxt.file /\ Renamed(s, h).ctxt.tag = s.ctxt.tag
           /\ Renamed(s, h).ctxt.notVoid = s.ctxt.notVoid /\ Renamed(s, h).ctxt.off = s.ctxt.off
           /\ Renamed(s, h).pc = s.pc
           /\ Renamed(s, h).disk.busy = "none"
           /\ Renamed(s, h).disk.plain = IF Plainly THEN "new" ELSE s.disk.plain
           /\ Renamed(s, h).disk.gz = IF Plainly THEN s.disk.gz ELSE "new"
  <1> DEFINE r == Rid(Closed(s), {"busy"})
  <1>1. /\ r \in States /\ r.out = s.out /\ r.pc = s.pc /\ r.disk.busy = "none"
        /\ r.disk.plain = s.disk.plain /\ r.disk.gz = s.disk.gz
        /\ ~r.ctxt.file /\ r.ctxt.tag = s.ctxt.tag
        /\ r.ctxt.notVoid = s.ctxt.notVoid /\ r.ctxt.off = s.ctxt.off
    BY ClosedFields, RidFields
  <1>2. Renamed(s, h) = [r EXCEPT !.disk[Final] = "new", !.out.whole = h]
    BY DEF Renamed
  <1> HIDE DEF r
  <1> DEFINE d == [r.disk EXCEPT ![Final] = "new"]
             o == [r.out EXCEPT !.whole = h]
  <1>6. d \in Disks /\ o \in Outs
    BY <1>1 DEF States, Outs, Disks, Final
  <1>7. Renamed(s, h) = [r EXCEPT !.disk = d, !.out = o]
    BY <1>1, <1>2 DEF States
  <1>3. /\ Renamed(s, h).ctxt = r.ctxt /\ Renamed(s, h).out = [r.out EXCEPT !.whole = h]
        /\ Renamed(s, h).disk = [r.disk EXCEPT ![Final] = "new"]
        /\ Renamed(s, h) \in States /\ Renamed(s, h).pc = r.pc
    <2> HIDE DEF d, o
    <2>1. /\ Renamed(s, h).ctxt = r.ctxt /\ Renamed(s, h).out = o /\ Renamed(s, h).disk = d
          /\ Renamed(s, h) \in States /\ Renamed(s, h).pc = r.pc
      BY <1>1, <1>6, <1>7 DEF States
    <2> QED  BY <2>1 DEF d, o
  <1>4. /\ Renamed(s, h).out.whole = h /\ Renamed(s, h).out.inputs = r.out.inputs
        /\ Renamed(s, h).out.unknown = r.out.unknown
        /\ Renamed(s, h).out.open = r.out.open /\ Renamed(s, h).out.nested = r.out.nested
    BY <1>1, <1>3 DEF States, Outs
  <1>5. /\ Renamed(s, h).disk.busy = "none"
        /\ Renamed(s, h).disk.plain = IF Plainly THEN "new" ELSE r.disk.plain
        /\ Renamed(s, h).disk.gz = IF Plainly THEN r.disk.gz ELSE "new"
    BY <1>1, <1>3 DEF States, Disks, Final
  <1> QED  BY <1>1, <1>3, <1>4, <1>5

\* What a state at the end has in common with the one it began in, and what
\* it leaves of the working file.
Closing(s, x) ==
    /\ x \in States /\ ~x.ctxt.file /\ x.ctxt.tag = s.ctxt.tag
    /\ x.out.inputs = s.out.inputs /\ x.out.unknown = s.out.unknown
    /\ x.pc \in {"run", "exited", "null close"}
    /\ x.disk.busy = "new" => x.out.head = "failed" \/ x.pc = "exited"

Complete(s) == s.ctxt.notVoid /\ s.out.whole \in {"yes"} \cup (IF option.gz THEN {"short"} ELSE {})

\* What becomes of the working file: it is gone, unless it was not open, could
\* not be closed or is the only file under a final name, complete.
LEMMA CloseLeaves ==
    ASSUME NEW b, NEW s, Sound(s, b), s.pc = "run", NEW r \in States,
           r.ctxt = s.ctxt, r.out = s.out, r.pc = s.pc, r.disk.busy = s.disk.busy,
           r.disk.plain = "none", r.disk.gz = IF Plainly THEN s.disk.gz ELSE "none",
           NEW x \in Close(r)
    PROVE  /\ Closing(s, x)
           /\ x.disk.plain = "new" => Plainly /\ Complete(x) /\ x.pc = "run"
           /\ x.disk.gz = "new" => ~Plainly /\ Complete(x) /\ x.pc = "run"
           /\ x.disk.plain \in {"none", "new"}
           /\ ~Plainly => x.disk.gz \in {"none", "new"} /\ x.disk.plain = "none"
  <1>1. /\ r.ctxt.file => r.ctxt.busyName
        /\ ~r.ctxt.file /\ r.disk.busy = "new" => r.out.head = "failed"
        /\ r.disk.gz # "new" /\ r.disk.plain = "none" /\ r.pc = "run"
        /\ ~Plainly => r.disk.gz = "none"
    BY DEF Sound, Filed
  <1>2. CASE ~r.ctxt.file
    BY <1>1, <1>2 DEF Close, Closing
  <1>3. CASE r.ctxt.file
    <2>1. \/ r.ctxt.notVoid /\ \E h \in {"yes"} \cup (IF option.gz THEN {"short"} ELSE {}) :
                                  x = Renamed(r, h)
          \/ x = Rid(Closed(r), {"busy"})
          \/ x \in Aborts(r)
          \/ x = [Abort(r) EXCEPT !.pc = "null close"]
      BY <1>3 DEF Close, Postambled, Aborts
    <2>2. CASE r.ctxt.notVoid /\ \E h \in {"yes"} \cup (IF option.gz THEN {"short"} ELSE {}) :
                                   x = Renamed(r, h)
      <3>1. PICK h \in {"yes"} \cup (IF option.gz THEN {"short"} ELSE {}) : x = Renamed(r, h)
        BY <2>2
      <3>2. h \in {"no", "short", "yes"}
        BY <3>1
      <3>3. /\ x \in States /\ x.out.whole = h /\ x.out.inputs = r.out.inputs
            /\ x.out.unknown = r.out.unknown
            /\ ~x.ctxt.file /\ x.ctxt.tag = r.ctxt.tag /\ x.ctxt.notVoid /\ x.pc = "run"
            /\ x.disk.busy = "none"
            /\ x.disk.plain = (IF Plainly THEN "new" ELSE "none")
            /\ x.disk.gz = (IF Plainly THEN r.disk.gz ELSE "new")
        BY <1>1, <2>2, <3>1, <3>2, RenamedFields
      <3>4. Closing(s, x)
        BY <3>3 DEF Closing
      <3>5. Complete(x)
        BY <3>1, <3>3 DEF Complete
      <3> QED  BY <1>1, <3>3, <3>4, <3>5
    <2>3. CASE x = Rid(Closed(r), {"busy"})
      <3> DEFINE c == Closed(r)
      <3>1. c \in States /\ c.out = r.out /\ c.disk = r.disk /\ c.pc = r.pc
            /\ ~c.ctxt.file /\ c.ctxt.tag = r.ctxt.tag
        BY ClosedFields
      <3>2. x = Rid(c, {"busy"})
        BY <2>3
      <3> HIDE DEF c
      <3>3. /\ x \in States /\ x.out = r.out /\ x.pc = "run" /\ ~x.ctxt.file
            /\ x.ctxt.tag = r.ctxt.tag /\ x.disk.busy = "none"
            /\ x.disk.plain = "none" /\ x.disk.gz = r.disk.gz
        BY <1>1, <3>1, <3>2, RidFields
      <3>4. Closing(s, x)
        BY <3>3 DEF Closing
      <3> QED  BY <1>1, <3>3, <3>4
    <2>4. CASE x \in Aborts(r)
      <3>1. /\ x \in States /\ x.out = r.out /\ ~x.ctxt.file /\ x.ctxt.tag = r.ctxt.tag
            /\ x.disk.plain = "none" /\ x.disk.gz = r.disk.gz
            /\ (x.pc = "run" /\ x.disk.busy = "none") \/ x.pc = "exited"
        BY <1>1, <1>3, <2>4, AbortsFields
      <3>2. Closing(s, x)
        BY <3>1 DEF Closing
      <3> QED  BY <1>1, <3>1, <3>2
    <2>5. CASE x = [Abort(r) EXCEPT !.pc = "null close"]
      <3> DEFINE a == Abort(r)
      <3>1. /\ a \in States /\ ~a.ctxt.file /\ a.ctxt.tag = r.ctxt.tag /\ a.out = r.out
            /\ a.disk.plain = r.disk.plain /\ a.disk.gz = r.disk.gz /\ a.disk.busy = "none"
        BY <1>1, <1>3, AbortFields
      <3>2. x = [a EXCEPT !.pc = "null close"]
        BY <2>5
      <3> HIDE DEF a
      <3>3. /\ x \in States /\ x.ctxt = a.ctxt /\ x.out = a.out /\ x.disk = a.disk
            /\ x.pc = "null close"
        BY <3>1, <3>2 DEF States, Ends
      <3> QED  BY <1>1, <3>1, <3>3 DEF Closing
    <2> QED  BY <2>1, <2>2, <2>3, <2>4, <2>5
  <1> QED  BY <1>2, <1>3

\* The files of a state, as InSync speaks of them.
Tidy(s) ==
    /\ {s.disk.plain, s.disk.gz} \in {{"none"}, {"none", "new"}}
    /\ "new" \in {s.disk.plain, s.disk.gz} => Complete(s)

\* With a log nothing of an earlier run is left, unless the program ends
\* early, and then nothing has a final name.
LEMMA FinishLeaves ==
    ASSUME option \in Options, NEW b, NEW s, Sound(s, b), s.pc = "run", NEW f \in Finish(s)
    PROVE  /\ Closing(s, f)
           /\ f.pc = "run" => Tidy(f)
           /\ f.pc # "run" => "new" \notin {f.disk.plain, f.disk.gz}
  <1> DEFINE F == {Final} \cup (IF option.gz THEN {"plain"} ELSE {})
             r == Rid(s, F)
  <1>1. "plain" \in F /\ "busy" \notin F /\ ("gz" \in F <=> ~Plainly)
    <2>1. option.gz \in BOOLEAN /\ option.plainName \in BOOLEAN
      BY SyncTeXAssumption
    <2> QED  BY <2>1 DEF Final, Plainly
  <1>2. PICK x \in Close(r) : f = IF Plainly /\ x.pc = "run" THEN Rid(x, {"gz"}) ELSE x
    BY DEF Finish
  <1> HIDE DEF F
  <1>3. /\ r \in States /\ r.ctxt = s.ctxt /\ r.out = s.out /\ r.disk.busy = s.disk.busy
        /\ r.pc = s.pc
        /\ r.disk.plain = "none" /\ r.disk.gz = IF Plainly THEN s.disk.gz ELSE "none"
    BY <1>1, RidFields DEF Sound
  <1> HIDE DEF r
  <1>4. /\ Closing(s, x)
        /\ x.disk.plain = "new" => Plainly /\ Complete(x) /\ x.pc = "run"
        /\ x.disk.gz = "new" => ~Plainly /\ Complete(x) /\ x.pc = "run"
        /\ x.disk.plain \in {"none", "new"}
        /\ ~Plainly => x.disk.gz \in {"none", "new"} /\ x.disk.plain = "none"
    BY <1>2, <1>3, CloseLeaves
  <1>5. CASE Plainly /\ x.pc = "run"
    <2>1. /\ f \in States /\ f.ctxt = x.ctxt /\ f.out = x.out /\ f.disk.plain = x.disk.plain
          /\ f.disk.gz = "none" /\ f.disk.busy = x.disk.busy /\ f.pc = x.pc
      BY <1>2, <1>4, <1>5, RidFields DEF Closing
    <2>2. Tidy(f)
      BY <1>4, <2>1 DEF Tidy, Complete
    <2> QED  BY <1>4, <1>5, <2>1, <2>2 DEF Closing
  <1>6. CASE ~Plainly /\ x.pc = "run"
    <2>1. f = x /\ Tidy(x)
      BY <1>2, <1>4, <1>6 DEF Tidy
    <2> QED  BY <1>4, <1>6, <2>1
  <1>7. CASE x.pc # "run"
    BY <1>2, <1>4, <1>7
  <1> QED  BY <1>5, <1>6, <1>7

\* Without a log the working file goes all the same.
LEMMA FinishUnloggedLeaves ==
    ASSUME NEW b, NEW s, Sound(s, b), s.pc = "run", NEW f \in FinishUnlogged(s)
    PROVE  Closing(s, f) /\ "new" \notin {f.disk.plain, f.disk.gz}
  <1> DEFINE r == IF outdir THEN s ELSE Rid(s, {"plain", "gz"})
  <1>1. f \in {IF s.ctxt.file THEN Rid(Closed(r), {"busy"}) ELSE r} \cup Unclosed(r)
    BY DEF FinishUnlogged
  <1>2. /\ r \in States /\ r.ctxt = s.ctxt /\ r.out = s.out /\ r.disk.busy = s.disk.busy
        /\ r.pc = "run" /\ r.disk.plain # "new" /\ r.disk.gz # "new"
    BY RidFields DEF Sound, Filed
  <1> HIDE DEF r
  <1>3. CASE s.ctxt.file /\ f = Rid(Closed(r), {"busy"})
    <2> DEFINE c == Closed(r)
    <2>1. c \in States /\ c.out = r.out /\ c.disk = r.disk /\ c.pc = r.pc
          /\ ~c.ctxt.file /\ c.ctxt.tag = r.ctxt.tag
      BY <1>2, ClosedFields
    <2>2. f = Rid(c, {"busy"})
      BY <1>3
    <2> HIDE DEF c
    <2>3. /\ f \in States /\ f.out = s.out /\ f.pc = "run" /\ ~f.ctxt.file
          /\ f.ctxt.tag = s.ctxt.tag /\ f.disk.busy = "none"
          /\ f.disk.plain # "new" /\ f.disk.gz # "new"
      BY <1>2, <2>1, <2>2, RidFields
    <2> QED  BY <2>3 DEF Closing
  <1>4. CASE ~s.ctxt.file /\ f = r
    BY <1>2, <1>4 DEF Sound, Filed, Closing
  <1>5. CASE f \in Unclosed(r)
    <2>1. f \in Aborts(r)
      BY <1>5 DEF Aborts
    <2>2. f = Exit(r)
      BY <1>5 DEF Unclosed
    <2>3. /\ f \in States /\ f.out = s.out /\ f.pc = "exited" /\ ~f.ctxt.file
          /\ f.ctxt.tag = s.ctxt.tag /\ f.disk.plain # "new" /\ f.disk.gz # "new"
      BY <1>2, <2>1, <2>2, AbortsFields, ExitFields
    <2> QED  BY <2>3 DEF Closing
  <1> QED  BY <1>1, <1>3, <1>4, <1>5

\* The end of a run, from any place, leaves what InSync allows.
LEMMA TerminateKeeps ==
    ASSUME IInv, Terminate PROVE IInv' /\ pc' \notin {"run", "null record"}
  <1>1. /\ pc = "run"
        /\ UNCHANGED <<option, value, log, place, total, shipped, blind>>
    BY DEF Terminate
  <1> DEFINE Leaves(s) == IF s.pc # "run" THEN {s} ELSE IF log THEN Finish(s) ELSE FinishUnlogged(s)
             Left(f) == [Abort([f EXCEPT !.ctxt.busyName = FALSE])
                         EXCEPT !.pc = IF f.pc = "run" THEN "done" ELSE f.pc]
  <1>2. PICK s \in {State} \cup Aborts(State) : \E f \in Leaves(s) : Becomes(Left(f))
    BY DEF Terminate
  <1>3. /\ Sound(s, blind) /\ s.ctxt.tag = ctxt.tag /\ s.out = out
    <2>1. Sound(State, blind) /\ State.ctxt = ctxt /\ State.out = out
      BY <1>1, InRun
    <2> QED  BY <1>2, <2>1, AbortsSound
  <1>4. PICK f \in Leaves(s) : Becomes(Left(f))
    BY <1>2
  <1>5. /\ Closing(s, f)
        /\ f.pc = "run" /\ log => Tidy(f)
        /\ f.pc # "run" \/ ~log => "new" \notin {f.disk.plain, f.disk.gz}
    <2>1. option \in Options
      BY <1>1, InRun
    <2>2. CASE s.pc # "run"
      <3>1. f = s
        BY <1>4, <2>2
      <3> QED  BY <1>3, <2>2, <3>1 DEF Sound, Filed, Closing
    <2>3. CASE s.pc = "run" /\ log
      <3>1. f \in Finish(s)
        BY <1>4, <2>3
      <3> QED  BY <1>3, <2>1, <2>3, <3>1, FinishLeaves
    <2>4. CASE s.pc = "run" /\ ~log
      <3>1. f \in FinishUnlogged(s)
        BY <1>4, <2>4
      <3> QED  BY <1>3, <2>4, <3>1, FinishUnloggedLeaves
    <2>5. log \in BOOLEAN
      BY <1>1, InRun
    <2> QED  BY <2>2, <2>3, <2>4, <2>5
  <1> HIDE DEF Leaves
  <1> DEFINE g == [f EXCEPT !.ctxt.busyName = FALSE]
             a == Abort(g)
             n == Left(f)
  <1>6. /\ g \in States /\ ~g.ctxt.file /\ g.ctxt.tag = ctxt.tag
        /\ g.ctxt.notVoid = f.ctxt.notVoid /\ g.out = f.out /\ g.disk = f.disk
    <2>1. /\ g.ctxt = [f.ctxt EXCEPT !.busyName = FALSE] /\ g.out = f.out /\ g.disk = f.disk
          /\ g \in States
      BY <1>5 DEF States, Ctxts, Closing
    <2> HIDE DEF g
    <2> QED  BY <1>3, <1>5, <2>1 DEF States, Ctxts, Closing
  <1>7. Becomes(n)
    BY <1>4
  <1>8. n = [a EXCEPT !.pc = IF f.pc = "run" THEN "done" ELSE f.pc]
    OBVIOUS
  <1> HIDE DEF g, n, Left
  <1>9. /\ a \in States /\ a.out = f.out /\ a.ctxt.off /\ ~a.ctxt.file /\ ~a.ctxt.root
        /\ a.ctxt.tag = ctxt.tag /\ a.ctxt.notVoid = f.ctxt.notVoid
        /\ a.disk.plain = f.disk.plain /\ a.disk.gz = f.disk.gz /\ a.disk.busy = f.disk.busy
    BY <1>6, AbortFields
  <1> HIDE DEF a
  <1>10. /\ n \in States /\ n.ctxt = a.ctxt /\ n.out = a.out /\ n.disk = a.disk
         /\ n.pc = IF f.pc = "run" THEN "done" ELSE f.pc
         /\ n.pc \in {"done", "exited", "null close"}
    BY <1>5, <1>8, <1>9 DEF States, Ends, Closing
  <1>11. State' = n /\ ctxt' = n.ctxt /\ out' = n.out /\ disk' = n.disk /\ pc' = n.pc
    BY <1>7, <1>10, BecomesState DEF Becomes
  <1>12. Numbers'
    BY <1>1, <1>9, <1>10, <1>11 DEF IInv, Numbers, Ends
  <1>13. Placed'
    BY <1>1 DEF IInv, Placed
  <1>14. Running'
    BY <1>10, <1>11 DEF Running
  <1>15. Ended'
    <2>1. (State \in States)' /\ out'.unknown \subseteq blind' /\ ctxt'.off /\ ~ctxt'.file
      <3>1. State' \in States
        BY <1>10, <1>11
      <3>2. out.unknown \subseteq blind
        BY <1>1, InRun
      <3> QED  BY <1>1, <1>3, <1>5, <1>9, <1>10, <1>11, <3>1, <3>2 DEF Closing
    <2>2. Counted(State)'
      <3>1. out.inputs \subseteq 1..ctxt.tag /\ out.unknown \subseteq 1..ctxt.tag
        BY <1>1, InRun DEF Sound, Counted
      <3>2. Counted(State')
        BY <1>3, <1>5, <1>9, <1>10, <1>11, <3>1 DEF Counted, Closing
      <3> QED  BY <3>2 DEF Counted
    <2>3. InSync'
      <3>1. pc' = "done" <=> f.pc = "run"
        BY <1>5, <1>10, <1>11 DEF Closing
      <3>2. log' = log /\ option' = option
        BY <1>1
      <3>3. disk'.busy = "new" => out'.head = "failed" \/ pc' = "exited"
        BY <1>5, <1>9, <1>10, <1>11 DEF Closing
      <3> QED  BY <1>5, <1>9, <1>10, <1>11, <3>1, <3>2, <3>3 DEF Tidy, Complete, InSync
    <2> QED  BY <2>1, <2>2, <2>3 DEF Ended
  <1> QED  BY <1>10, <1>11, <1>12, <1>13, <1>14, <1>15 DEF IInv

-----------------------------------------------------------------------------
(* The theorems *)

\* Each step keeps the invariant.
LEMMA Step ==
    IInv /\ [Next]_vars =>
        IInv' /\ [pc' = "null record" => ctxt.file /\ ctxt.recorder /\ ~option.gz]_pc
  <1> DEFINE Lost == pc' = "null record" => ctxt.file /\ ctxt.recorder /\ ~option.gz
  <1> SUFFICES ASSUME IInv, [Next]_vars PROVE IInv' /\ [Lost]_pc
    OBVIOUS
  <1>1. CASE UNCHANGED vars
    <2>1. /\ UNCHANGED <<option, value, ctxt, out, disk, log, place, total, shipped, blind, pc>>
          /\ State' = State
      BY <1>1 DEF vars, State
    <2>2. Numbers' /\ Placed'
      BY <2>1 DEF IInv, Numbers, Placed
    <2>3. Running'
      BY <2>1 DEF IInv, Running, Sound, Filed, Counted, Covered, Settled
    <2>4. Ended'
      BY <2>1 DEF IInv, Ended, InSync, Counted
    <2> QED  BY <2>1, <2>2, <2>3, <2>4 DEF IInv
  <1>2. CASE StartInput  BY <1>2, StartInputKeeps
  <1>3. CASE SetSynctex  BY <1>3, SetSynctexKeeps
  <1>4. CASE Sheet       BY <1>4, SheetKeeps
  <1>5. CASE Teehs       BY <1>5, TeehsKeeps
  <1>6. CASE List        BY <1>6, ListKeeps
  <1>7. CASE Tsil        BY <1>7, TsilKeeps
  <1>8. CASE Node        BY <1>8, NodeKeeps
  <1>12. CASE Defer      BY <1>12, DeferKeeps
  <1>9. CASE Form        BY <1>9, FormKeeps
  <1>10. CASE Mrof       BY <1>10, MrofKeeps
  <1>11. CASE Terminate  BY <1>11, TerminateKeeps
  <1> QED
    BY <1>1, <1>2, <1>3, <1>4, <1>5, <1>6, <1>7, <1>8, <1>9, <1>10, <1>11, <1>12 DEF Next

\* At every moment what the controller has is sound, and tags are accounted for.
THEOREM Invariant == Spec => []IInv
  <1> QED  BY InitIInv, Step, PTL DEF Spec

\* The context, the file and the disk keep their types; tags in the file have
\* been given.
THEOREM SyncTeXTypeCorrect == Spec => []TypeOK
  <1>1. IInv => TypeOK
    <2> SUFFICES ASSUME IInv PROVE TypeOK
      OBVIOUS
    <2>1. ctxt \in Ctxts /\ out \in Outs /\ disk \in Disks /\ Counted(State)
      BY DEF IInv, Numbers, Running, Ended, Sound, State, States
    <2>2. /\ out.inputs \subseteq 1..ctxt.tag /\ out.unknown \subseteq 1..ctxt.tag
      BY <2>1 DEF Counted, State
    <2>3. MaxTag \in Nat /\ ctxt.tag \in Nat /\ ctxt.tag <= MaxTag
      BY <2>1, SyncTeXAssumption DEF Ctxts, IInv, Numbers
    <2>4. ctxt \in [off : BOOLEAN, file : BOOLEAN, busyName : BOOLEAN, root : BOOLEAN,
                    ready : BOOLEAN, notVoid : BOOLEAN, recorder : BOOLEAN,
                    depth : Int, tag : 0..MaxTag]
      BY <2>1, <2>3 DEF Ctxts
    <2>5. out.head \in {"none", "failed", "written"} /\ out.whole \in {"no", "short", "yes"}
      BY <2>1 DEF Outs
    <2> QED  BY <2>1, <2>2, <2>4, <2>5 DEF TypeOK, IInv, Numbers, Placed, Disks, Ends
  <1> QED  BY <1>1, Invariant, PTL

\* Whenever TeX is shipping something out and SyncTeX is on, there is an open
\* file with its preamble for the records, and a name to remove it by; only the
\* record of a kern that waited can close it under the record that follows.
THEOREM RecordsHaveAFile == Spec => RecordersSafe
  <1> DEFINE Safe == /\ place # <<>> /\ ~ctxt.off => ctxt.file /\ ctxt.ready
                     /\ ctxt.file => ctxt.busyName /\ ~ctxt.off /\ out.head = "written" /\ disk.busy = "new"
             Lost == pc' = "null record" => ctxt.file /\ ctxt.recorder /\ ~option.gz
  <1>1. IInv => Safe
    <2> SUFFICES ASSUME IInv PROVE Safe
      OBVIOUS
    <2>1. CASE pc = "run"
      <3>1. Filed(State) /\ (place # <<>> => Settled(State))
        BY <2>1, InRun DEF Sound
      <3> QED  BY <3>1 DEF Filed, Settled, State
    <2>2. CASE pc # "run"
      BY <2>2 DEF IInv, Ended
    <2> QED  BY <2>1, <2>2
  <1>2. IInv /\ [Next]_vars => [Lost]_pc
    BY Step
  <1> QED  BY <1>1, <1>2, Invariant, PTL DEF Spec, RecordersSafe

\* What a run leaves under the final names is complete and of this run, or
\* nothing; and no working file that has a preamble.
THEOREM RunsLeaveTheirOwn == Spec => []InSync
  <1>1. IInv => InSync
    <2> SUFFICES ASSUME IInv PROVE InSync
      OBVIOUS
    <2>1. CASE pc = "run"
      <3>1. Filed(State)
        BY <2>1, InRun DEF Sound
      <3>2. /\ ctxt.off /\ disk.busy = "new" => out.head = "failed"
            /\ "new" \notin {disk.plain, disk.gz}
        BY <2>1, <3>1 DEF Filed, State
      <3> QED  BY <2>1, <3>2 DEF InSync
    <2>2. CASE pc # "run"
      BY <2>2 DEF IInv, Ended
    <2> QED  BY <2>1, <2>2
  <1> QED  BY <1>1, Invariant, PTL

\* Every tag in the file has an Input line, but for files that TeX opened when
\* none could be written.
THEOREM TagsHaveInputs == Spec => []TagsKnown
  <1>1. IInv => TagsKnown
    BY DEF IInv, Numbers, Running, Ended, TagsKnown
  <1> QED  BY <1>1, Invariant, PTL

-----------------------------------------------------------------------------
(* The brackets *)

Paged  == {"empty page", "page"}
Formed == {"empty form", "form"}
Forms(p) == {i \in DOMAIN p : p[i] \in Formed}

\* A page is outermost, and a form is outermost or right in a page or form.
Shape(p) ==
    /\ p # <<>> => p[1] # "list"
    /\ \A i \in DOMAIN p : p[i] \in Paged => i = 1
    /\ \A i \in DOMAIN p : p[i] \in Formed /\ i > 1 => p[i - 1] \in {"page", "form"}

Mark(k, n) == IF k \in Paged THEN <<"sheet", n>>
              ELSE IF k \in Formed THEN <<"form">> ELSE <<"list">>

\* How many of the places have a bracket: all of them, or the page alone when
\* \synctex is 0 or the boxes of a form are hidden.
Shown(p, v, f) == IF v /\ (f \/ Forms(p) = {}) THEN Len(p)
                  ELSE IF p # <<>> /\ p[1] \in Paged THEN 1 ELSE 0

\* The depth d and the open brackets o are those of the place p on page n,
\* with \synctex or not (v) and with forms or not (f).
Bracketed(d, o, p, n, v, f) ==
    /\ ~v => Forms(p) = {}
    /\ ~f => \A i, j \in Forms(p) : i = j
    /\ d = Cardinality(Forms(p))
    /\ Len(o) = Shown(p, v, f)
    /\ \A i \in 1..Shown(p, v, f) : o[i] = Mark(p[i], n)

Nests(s, p, n, v, f) ==
    /\ s.out.nested
    /\ ~s.ctxt.off => Bracketed(s.ctxt.depth, s.out.open, p, n, v, f)

Nesting ==
    /\ Shape(place)
    /\ odd = {} =>
         /\ out.nested
         /\ pc = "run" /\ ~ctxt.off =>
              Bracketed(ctxt.depth, out.open, place, total + 1, value, option.forms)
         /\ pc # "run" /\ "new" \in {disk.plain, disk.gz} => out.open = <<>>

\* A bracket more: what is open, and nothing else.
LEMMA BracketOpens ==
    ASSUME NEW s \in States, NEW k \in Brackets
    PROVE  LET n == Bracket(s, k)
           IN /\ n \in States /\ n.ctxt = s.ctxt /\ n.out.nested = s.out.nested
              /\ n.out.open = Append(s.out.open, k)
  <1> DEFINE n == Bracket(s, k)
             o == Append(s.out.open, k)
  <1>1. o \in Seq(Brackets)
    BY DEF States, Outs
  <1>2. n = [s EXCEPT !.out.open = o]
    BY DEF Bracket
  <1> HIDE DEF o, n
  <1>3. n.ctxt = s.ctxt /\ n.disk = s.disk /\ n.out = [s.out EXCEPT !.open = o] /\ n \in States
    BY <1>1, <1>2 DEF States, Outs
  <1> QED  BY <1>3 DEF States, Outs, n, o

\* A bracket less, if it is the last.
LEMMA UnbracketCloses ==
    ASSUME NEW s \in States, NEW m \in Nat, Len(s.out.open) = m + 1
    PROVE  LET n == Unbracket(s, s.out.open[m + 1])
           IN /\ n \in States /\ n.ctxt = s.ctxt /\ n.out.nested = s.out.nested
              /\ Len(n.out.open) = m /\ \A i \in 1..m : n.out.open[i] = s.out.open[i]
  <1> DEFINE n == Unbracket(s, s.out.open[m + 1])
             o == Front(s.out.open)
  <1>1. s.out.open \in Seq(Brackets) /\ s.out.open # <<>>
    BY DEF States, Outs
  <1>2. /\ Last(s.out.open) = s.out.open[m + 1] /\ o \in Seq(Brackets) /\ Len(o) = m
        /\ \A i \in 1..m : o[i] = s.out.open[i]
    <2>1. /\ Last(s.out.open) = s.out.open[Len(s.out.open)] /\ o \in Seq(Brackets)
          /\ Len(o) = Len(s.out.open) - 1
          /\ \A i \in 1..Len(s.out.open) - 1 : o[i] = s.out.open[i]
      BY <1>1, FrontOf
    <2>2. Len(s.out.open) - 1 = m
      OBVIOUS
    <2> QED  BY <2>1, <2>2
  <1>3. n = [s EXCEPT !.out.open = o]
    BY <1>1, <1>2 DEF Unbracket
  <1> HIDE DEF o, n
  <1>4. n.ctxt = s.ctxt /\ n.disk = s.disk /\ n.out = [s.out EXCEPT !.open = o] /\ n \in States
    BY <1>2, <1>3 DEF States, Outs
  <1>5. n.out.open = o /\ n.out.nested = s.out.nested
    BY <1>4 DEF States, Outs
  <1> QED  BY <1>2, <1>4, <1>5 DEF n

\* A record that cannot be written leaves SyncTeX off and the brackets as they are.
LEMMA WritingNests ==
    ASSUME NEW s \in States, s.out.nested, NEW a \in States, NEW p, NEW n, NEW v, NEW f,
           Nests(a, p, n, v, f), NEW x \in Writing(s, a)
    PROVE  x \in States /\ Nests(x, p, n, v, f)
  <1>1. CASE x = a
    BY <1>1
  <1>2. CASE x \in Aborts(s)
    <2>1. x \in States /\ x.out = s.out /\ x.ctxt.off
      BY <1>2, AbortsFields
    <2> QED  BY <2>1 DEF Nests
  <1> QED  BY <1>1, <1>2 DEF Writing

\* Turning SyncTeX off leaves the depth as it is.
LEMMA AbortsDepth ==
    ASSUME NEW s \in States, NEW n \in Aborts(s)
    PROVE  n.ctxt.depth = s.ctxt.depth
  <1>1. Abort(s).ctxt.depth = s.ctxt.depth
    BY DEF States, Ctxts, Abort
  <1>2. n.ctxt = Abort(s).ctxt
    BY AbortsFields, ExitFields
  <1> QED  BY <1>1, <1>2

\* Nothing is open, at depth i.
Blank(s, i) == s \in States /\ s.out.nested /\ s.out.open = <<>> /\ s.ctxt.depth = i

\* Nor does it open a bracket, or an Input line.
LEMMA WritingBlank ==
    ASSUME NEW i, NEW s, Blank(s, i), NEW a, Blank(a, i), NEW n \in Writing(s, a)
    PROVE  Blank(n, i)
  BY AbortsDepth, AbortsFields DEF Blank, Writing

\* An Input line opens no bracket.
LEMMA RecordInputBlank ==
    ASSUME NEW i, NEW s, Blank(s, i), NEW t \in Nat, NEW n \in RecordInput(s, t)
    PROVE  Blank(n, i)
  <1> DEFINE after == [s EXCEPT !.out.inputs = @ \cup {t}]
  <1>1. /\ after.ctxt = s.ctxt /\ after.disk = s.disk
        /\ after.out = [s.out EXCEPT !.inputs = @ \cup {t}]
        /\ after = [s EXCEPT !.out = after.out]
    BY DEF Blank, States
  <1>2. after.out \in Outs /\ after.out.nested /\ after.out.open = <<>>
    BY <1>1 DEF Blank, States, Outs
  <1>3. n \in Writing(s, after)
    BY DEF RecordInput
  <1> HIDE DEF after
  <1>4. Blank(after, i)
    BY <1>1, <1>2 DEF Blank, States
  <1> QED  BY <1>3, <1>4, WritingBlank

\* The file opens with no bracket, and forms are not concerned.
LEMMA DotOpenBlank ==
    ASSUME NEW i, NEW s, Blank(s, i), NEW v \in BOOLEAN, NEW d \in DotOpen(s, v)
    PROVE  Blank(d, i)
  <1> DEFINE none   == [Unwritten EXCEPT !.head = "failed"]
             opened == [s EXCEPT !.ctxt.file = TRUE, !.disk.busy = "new", !.out = none]
             ready  == [opened EXCEPT !.ctxt.busyName = TRUE, !.out.head = "written"]
             rooted == [ready EXCEPT !.ctxt.root = FALSE]
  <1>1. Blank(opened, i)
    <2>1. <<>> \in Seq(Brackets)
      OBVIOUS
    <2>2. none \in Outs /\ none.nested /\ none.open = <<>>
      BY <2>1 DEF Unwritten, Outs
    <2> HIDE DEF none
    <2>3. /\ opened.ctxt = [s.ctxt EXCEPT !.file = TRUE] /\ opened.out = none
          /\ opened.disk = [s.disk EXCEPT !.busy = "new"]
          /\ opened = [s EXCEPT !.ctxt = opened.ctxt, !.disk = opened.disk, !.out = opened.out]
      BY DEF Blank, States
    <2>4. opened.ctxt \in Ctxts /\ opened.ctxt.depth = i /\ opened.disk \in Disks
      BY <2>3 DEF Blank, States, Ctxts, Disks
    <2> HIDE DEF opened
    <2> QED  BY <2>2, <2>3, <2>4 DEF Blank, States
  <1> HIDE DEF opened
  <1>2. Blank(ready, i)
    <2>1. /\ ready.ctxt = [opened.ctxt EXCEPT !.busyName = TRUE]
          /\ ready.out = [opened.out EXCEPT !.head = "written"] /\ ready.disk = opened.disk
          /\ ready = [opened EXCEPT !.ctxt = ready.ctxt, !.out = ready.out]
      BY <1>1 DEF Blank, States
    <2>2. ready.ctxt \in Ctxts /\ ready.ctxt.depth = i
      BY <1>1, <2>1 DEF Blank, States, Ctxts
    <2>3. ready.out \in Outs /\ ready.out.nested /\ ready.out.open = <<>>
      BY <1>1, <2>1 DEF Blank, States, Outs
    <2> HIDE DEF ready
    <2> QED  BY <1>1, <2>1, <2>2, <2>3 DEF Blank, States
  <1> HIDE DEF ready
  <1>3. Blank(rooted, i)
    <2>1. /\ rooted.ctxt = [ready.ctxt EXCEPT !.root = FALSE]
          /\ rooted.out = ready.out /\ rooted.disk = ready.disk
          /\ rooted = [ready EXCEPT !.ctxt = rooted.ctxt]
      BY <1>2 DEF Blank, States
    <2>2. rooted.ctxt \in Ctxts /\ rooted.ctxt.depth = i
      BY <1>2, <2>1 DEF Blank, States, Ctxts
    <2> HIDE DEF rooted
    <2> QED  BY <1>2, <2>1, <2>2 DEF Blank, States
  <1> HIDE DEF rooted
  <1>4. d = s \/ d \in Aborts(s) \cup Aborts(opened) \cup {ready} \cup RecordInput(rooted, 1)
    BY DEF DotOpen, opened, ready, rooted, Aborts
  <1>5. \A n \in Aborts(s) \cup Aborts(opened) : Blank(n, i)
    BY <1>1, AbortsDepth, AbortsFields DEF Blank
  <1>6. \A n \in RecordInput(rooted, 1) : Blank(n, i)
    BY <1>3, RecordInputBlank
  <1> QED  BY <1>2, <1>4, <1>5, <1>6

\* Nor does the first page or form.
LEMMA PrepareContentBlank ==
    ASSUME NEW i, NEW s, Blank(s, i), NEW v \in BOOLEAN, NEW p \in PrepareContent(s, v)
    PROVE  Blank(p, i)
  <1>1. CASE s.ctxt.ready
    BY <1>1 DEF PrepareContent
  <1>2. CASE ~s.ctxt.ready
    <2>1. PICK d \in DotOpen(s, v) :
            p \in IF d.ctxt.file /\ v THEN Writing(d, [d EXCEPT !.ctxt.ready = TRUE])
                  ELSE Aborts(d)
      BY <1>2 DEF PrepareContent
    <2>2. Blank(d, i) /\ \A n \in Aborts(d) : Blank(n, i)
      <3>1. Blank(d, i)
        BY DotOpenBlank
      <3> QED  BY <3>1, AbortsDepth, AbortsFields DEF Blank
    <2> DEFINE after == [d EXCEPT !.ctxt.ready = TRUE]
    <2>3. Blank(after, i)
      <3>1. /\ after.ctxt = [d.ctxt EXCEPT !.ready = TRUE]
            /\ after.out = d.out /\ after.disk = d.disk
            /\ after = [d EXCEPT !.ctxt = after.ctxt]
        BY <2>2 DEF Blank, States
      <3>2. after.ctxt \in Ctxts /\ after.ctxt.depth = i
        BY <2>2, <3>1 DEF Blank, States, Ctxts
      <3> HIDE DEF after
      <3> QED  BY <2>2, <3>1, <3>2 DEF Blank, States
    <2> HIDE DEF after
    <2>4. CASE d.ctxt.file /\ v
      <3>1. p \in Writing(d, after)
        BY <2>1, <2>4 DEF after
      <3> QED  BY <2>2, <2>3, <3>1, WritingBlank
    <2> QED  BY <2>1, <2>2, <2>4
  <1> QED  BY <1>1, <1>2

\* The tag of a record, and what kind of node it is, are no brackets.
LEMMA TaggedOpens ==
    ASSUME NEW s \in States, NEW t \in Nat
    PROVE  LET n == Tagged(s, t)
           IN /\ n \in States /\ n.ctxt = s.ctxt
              /\ n.out.open = s.out.open /\ n.out.nested = s.out.nested
  <1> DEFINE n == Tagged(s, t)
             u == IF t \in s.out.inputs \cup {0} THEN s.out.unknown ELSE s.out.unknown \cup {t}
  <1>1. n = [s EXCEPT !.out.unknown = u] /\ u \in SUBSET Nat
    BY DEF Tagged, States, Outs
  <1> HIDE DEF n, u
  <1>2. n.ctxt = s.ctxt /\ n.disk = s.disk /\ n.out = [s.out EXCEPT !.unknown = u] /\ n \in States
    BY <1>1 DEF States, Outs
  <1> QED  BY <1>2 DEF States, Outs, n

\* The mark of a node outside all lists is no bracket.
LEMMA StrayOpens ==
    ASSUME NEW s \in States, NEW w \in BOOLEAN
    PROVE  LET n == [s EXCEPT !.out.stray = w]
           IN /\ n \in States /\ n.ctxt = s.ctxt
              /\ n.out.open = s.out.open /\ n.out.nested = s.out.nested
  <1> DEFINE n == [s EXCEPT !.out.stray = w]
  <1>1. n.ctxt = s.ctxt /\ n.disk = s.disk /\ n.out = [s.out EXCEPT !.stray = w] /\ n \in States
    BY DEF States, Outs
  <1> HIDE DEF n
  <1> QED  BY <1>1 DEF States, Outs, n

\* Nor is the record of a node.
LEMMA NodeRecordOpens ==
    ASSUME NEW s \in States, NEW t \in Nat
    PROVE  LET n == NodeRecord(s, t)
           IN /\ n \in States /\ n.ctxt = s.ctxt
              /\ n.out.open = s.out.open /\ n.out.nested = s.out.nested
  <1> DEFINE g == Tagged(s, t)
             x == g.out.stray \/ s.out.open = <<>>
             w == [g EXCEPT !.out.stray = x]
  <1>1. /\ g \in States /\ g.ctxt = s.ctxt
        /\ g.out.open = s.out.open /\ g.out.nested = s.out.nested
    BY TaggedOpens
  <1>2. NodeRecord(s, t) = w
    BY DEF NodeRecord
  <1> HIDE DEF g
  <1>3. x \in BOOLEAN
    BY <1>1 DEF States, Outs
  <1> HIDE DEF x, w
  <1>4. /\ w \in States /\ w.ctxt = g.ctxt
        /\ w.out.open = g.out.open /\ w.out.nested = g.out.nested
    BY <1>1, <1>3, StrayOpens DEF w
  <1> QED  BY <1>1, <1>2, <1>4

\* The mark that something has been shipped out.
LEMMA NotVoidOpens ==
    ASSUME NEW s \in States
    PROVE  LET n == [s EXCEPT !.ctxt.notVoid = TRUE]
           IN /\ n \in States /\ n.out = s.out
              /\ n.ctxt.depth = s.ctxt.depth /\ n.ctxt.off = s.ctxt.off
  <1> DEFINE n == [s EXCEPT !.ctxt.notVoid = TRUE]
  <1>1. n.ctxt = [s.ctxt EXCEPT !.notVoid = TRUE] /\ n.disk = s.disk /\ n.out = s.out /\ n \in States
    BY DEF States, Ctxts
  <1> HIDE DEF n
  <1> QED  BY <1>1 DEF States, Ctxts, n

\* Whether a kern waits.
LEMMA RecorderOpens ==
    ASSUME NEW s \in States, NEW w \in BOOLEAN
    PROVE  LET n == [s EXCEPT !.ctxt.recorder = w]
           IN /\ n \in States /\ n.out = s.out /\ n.pc = s.pc
              /\ n.ctxt.depth = s.ctxt.depth /\ n.ctxt.off = s.ctxt.off
              /\ n.ctxt.tag = s.ctxt.tag
  <1> DEFINE n == [s EXCEPT !.ctxt.recorder = w]
  <1>1. /\ n.ctxt = [s.ctxt EXCEPT !.recorder = w] /\ n.disk = s.disk /\ n.out = s.out
        /\ n.pc = s.pc /\ n \in States
    BY DEF States, Ctxts
  <1> HIDE DEF n
  <1> QED  BY <1>1 DEF States, Ctxts, n

\* A new depth changes nothing else.
LEMMA DepthOpens ==
    ASSUME NEW s \in States, NEW i \in Int
    PROVE  LET n == [s EXCEPT !.ctxt.depth = i]
           IN n \in States /\ n.out = s.out /\ n.ctxt.depth = i /\ n.ctxt.off = s.ctxt.off
  <1> DEFINE n == [s EXCEPT !.ctxt.depth = i]
  <1>1. n.ctxt = [s.ctxt EXCEPT !.depth = i] /\ n.disk = s.disk /\ n.out = s.out /\ n \in States
    BY DEF States, Ctxts
  <1> HIDE DEF n
  <1> QED  BY <1>1 DEF States, Ctxts, n

-----------------------------------------------------------------------------
(* Places and their brackets *)

\* There are finitely many forms around a place.
LEMMA FormsFinite ==
    ASSUME NEW p \in Seq(Kinds)
    PROVE  IsFiniteSet(Forms(p)) /\ Forms(p) \subseteq 1..Len(p)
           /\ (Cardinality(Forms(p)) = 0 <=> Forms(p) = {}) /\ Cardinality(Forms(p)) \in Nat
  <1>1. Len(p) \in Nat /\ Forms(p) \subseteq 1..Len(p)
    BY DEF Forms
  <1>2. IsFiniteSet(1..Len(p))
    BY <1>1, FS_Interval
  <1>3. IsFiniteSet(Forms(p))
    BY <1>1, <1>2, FS_Subset
  <1> QED  BY <1>1, <1>3, FS_EmptySet, FS_CardinalityType

\* What List makes of a place.
Listed(p, q) ==
    /\ Len(q) = Len(p) + 1 /\ q[Len(p) + 1] = "list"
    /\ \A i \in 1..Len(p) - 1 : q[i] = p[i]
    /\ \/ p[Len(p)] = "list" /\ q[Len(p)] = "list"
       \/ p[Len(p)] = "empty page" /\ q[Len(p)] = "page"
       \/ p[Len(p)] = "empty form" /\ q[Len(p)] = "form"

\* The beginning of a list changes no kind that a bracket shows.
LEMMA ListedShape ==
    ASSUME NEW p \in Seq(Kinds), p # <<>>, Shape(p), NEW q \in Seq(Kinds), Listed(p, q)
    PROVE  /\ Shape(q) /\ Forms(q) = Forms(p) /\ q # <<>> /\ Len(p) \in Nat \ {0}
           /\ q[1] \in Paged <=> p[1] \in Paged
           /\ \A n : \A i \in 1..Len(p) : Mark(q[i], n) = Mark(p[i], n)
  <1>1. Len(p) \in Nat \ {0} /\ Len(q) = Len(p) + 1
    BY EmptySeq DEF Listed
  <1>2. \A i \in 1..Len(p) : /\ q[i] \in Paged <=> p[i] \in Paged
                             /\ q[i] \in Formed <=> p[i] \in Formed
    <2>1. \A i \in 1..Len(p) : i = Len(p) \/ q[i] = p[i]
      <3>1. \A i \in 1..Len(p) : i = Len(p) \/ i \in 1..Len(p) - 1
        BY <1>1
      <3> QED  BY <3>1 DEF Listed
    <2>2. /\ q[Len(p)] \in Paged <=> p[Len(p)] \in Paged
          /\ q[Len(p)] \in Formed <=> p[Len(p)] \in Formed
      BY DEF Listed, Paged, Formed
    <2> QED  BY <2>1, <2>2
  <1>3. q[Len(p) + 1] \notin Paged \cup Formed
    BY DEF Listed, Paged, Formed
  <1>4. Forms(q) = Forms(p)
    BY <1>1, <1>2, <1>3 DEF Forms
  <1>5. \A n : \A i \in 1..Len(p) : Mark(q[i], n) = Mark(p[i], n)
    BY <1>2 DEF Mark
  <1>6. Shape(q)
    <2>1. q[1] # "list"
      <3>1. p[1] # "list"
        BY DEF Shape
      <3>2. Len(p) = 1 \/ 1 \in 1..Len(p) - 1
        <4>1. \A l \in Nat \ {0} : l = 1 \/ 1 \in 1..l - 1
          OBVIOUS
        <4> QED  BY <1>1, <4>1
      <3> QED  BY <3>1, <3>2 DEF Listed
    <2>2. ASSUME NEW i \in DOMAIN q, q[i] \in Paged PROVE i = 1
      BY <1>1, <1>2, <1>3, <2>2 DEF Shape
    <2>3. ASSUME NEW i \in DOMAIN q, q[i] \in Formed, i > 1 PROVE q[i - 1] \in {"page", "form"}
      <3>1. i \in 1..Len(p) /\ p[i] \in Formed /\ i - 1 \in 1..Len(p) - 1
        BY <1>1, <1>2, <1>3, <2>3
      <3>2. p[i - 1] \in {"page", "form"}
        <4>1. i \in DOMAIN p /\ i > 1
          BY <2>3, <3>1
        <4> QED  BY <3>1, <4>1 DEF Shape
      <3>3. q[i - 1] = p[i - 1]
        BY <3>1 DEF Listed
      <3> QED  BY <3>2, <3>3
    <2> QED  BY <2>1, <2>2, <2>3 DEF Shape
  <1> QED  BY <1>1, <1>2, <1>4, <1>5, <1>6

\* A list that is recorded: all places have their brackets, and so has it.
LEMMA ListShown ==
    ASSUME NEW p \in Seq(Kinds), p # <<>>, Shape(p), NEW q \in Seq(Kinds), Listed(p, q),
           NEW o \in Seq(Brackets), NEW d, NEW n, NEW f \in BOOLEAN,
           Bracketed(d, o, p, n, TRUE, f), f \/ ~(d > 0)
    PROVE  Bracketed(d, Append(o, <<"list">>), q, n, TRUE, f)
  <1>1. /\ Forms(q) = Forms(p) /\ Len(p) \in Nat \ {0} /\ Len(q) = Len(p) + 1
        /\ \A i \in 1..Len(p) : Mark(q[i], n) = Mark(p[i], n)
    <2>1. Len(q) = Len(p) + 1
      BY DEF Listed
    <2> QED  BY <2>1, ListedShape
  <1>2. f \/ Forms(p) = {}
    BY FormsFinite DEF Bracketed
  <1>3. Shown(p, TRUE, f) = Len(p) /\ Shown(q, TRUE, f) = Len(p) + 1
    BY <1>1, <1>2 DEF Shown
  <1>4. Len(o) = Len(p) /\ \A i \in 1..Len(p) : o[i] = Mark(p[i], n)
    BY <1>3 DEF Bracketed
  <1>5. Mark(q[Len(p) + 1], n) = <<"list">>
    BY DEF Mark, Listed, Paged, Formed
  <1> DEFINE o2 == Append(o, <<"list">>)
  <1>6. Len(o2) = Len(p) + 1 /\ o2[Len(p) + 1] = <<"list">> /\ \A i \in 1..Len(p) : o2[i] = o[i]
    BY <1>4
  <1> HIDE DEF o2
  <1>7. \A i \in 1..Len(p) + 1 : o2[i] = Mark(q[i], n)
    BY <1>1, <1>4, <1>5, <1>6
  <1> QED  BY <1>1, <1>3, <1>6, <1>7 DEF Bracketed, o2

\* One that is not: \synctex is 0, or it is hidden in a form.
LEMMA ListHidden ==
    ASSUME NEW p \in Seq(Kinds), p # <<>>, Shape(p), NEW q \in Seq(Kinds), Listed(p, q),
           NEW o, NEW d, NEW n, NEW v \in BOOLEAN, NEW f \in BOOLEAN,
           Bracketed(d, o, p, n, v, f), ~v \/ (~f /\ d > 0)
    PROVE  Bracketed(d, o, q, n, v, f)
  <1>1. /\ Forms(q) = Forms(p) /\ Len(p) \in Nat \ {0} /\ q # <<>>
        /\ q[1] \in Paged <=> p[1] \in Paged
        /\ \A i \in 1..Len(p) : Mark(q[i], n) = Mark(p[i], n)
    BY ListedShape
  <1>2. ~(v /\ (f \/ Forms(p) = {}))
    BY FormsFinite DEF Bracketed
  <1>3. Shown(q, v, f) = Shown(p, v, f) /\ Shown(p, v, f) \in {0, 1}
    BY <1>1, <1>2 DEF Shown
  <1> QED  BY <1>1, <1>3 DEF Bracketed

\* What is left of a place.
Popped(p, q) == Len(q) = Len(p) - 1 /\ \A i \in 1..Len(p) - 1 : q[i] = p[i]

\* The places around it are what they were, and a form that ends is no more.
LEMMA PoppedShape ==
    ASSUME NEW p \in Seq(Kinds), p # <<>>, Shape(p), NEW q \in Seq(Kinds), Popped(p, q)
    PROVE  /\ Shape(q) /\ Forms(q) = Forms(p) \ {Len(p)} /\ Len(p) \in Nat \ {0}
           /\ p[1] # "list" /\ (q # <<>> => q[1] = p[1])
           /\ Len(q) = Len(p) - 1 /\ \A i \in 1..Len(q) : q[i] = p[i]
  <1>1. Len(p) \in Nat \ {0} /\ Len(q) = Len(p) - 1 /\ \A i \in 1..Len(q) : q[i] = p[i]
    BY EmptySeq DEF Popped
  <1>2. \A i : i \in 1..Len(q) <=> i \in 1..Len(p) /\ i # Len(p)
    BY <1>1
  <1>3. Forms(q) = Forms(p) \ {Len(p)}
    BY <1>1, <1>2 DEF Forms
  <1>4. q # <<>> => 1 \in 1..Len(q)
    BY EmptySeq
  <1>5. Shape(q)
    <2>1. ASSUME NEW i \in DOMAIN q, q[i] \in Formed, i > 1 PROVE q[i - 1] \in {"page", "form"}
      <3>1. i \in 1..Len(q) /\ i \in DOMAIN p /\ p[i] \in Formed
        BY <1>1, <1>2, <2>1
      <3>3. i - 1 \in 1..Len(q)
        BY <2>1, <3>1
      <3>2. p[i - 1] \in {"page", "form"}
        BY <2>1, <3>1 DEF Shape
      <3> QED  BY <1>1, <3>2, <3>3
    <2>2. ASSUME NEW i \in DOMAIN q, q[i] \in Paged PROVE i = 1
      <3>1. i \in DOMAIN p /\ p[i] \in Paged
        BY <1>1, <1>2, <2>2
      <3> QED  BY <3>1 DEF Shape
    <2>3. q # <<>> => q[1] # "list"
      BY <1>1, <1>4 DEF Shape
    <2> QED  BY <2>1, <2>2, <2>3 DEF Shape
  <1>6. p[1] # "list"
    BY DEF Shape
  <1> QED  BY <1>1, <1>3, <1>4, <1>5, <1>6

\* The end of a list that is recorded.
LEMMA TsilShows ==
    ASSUME NEW p \in Seq(Kinds), p # <<>>, Shape(p), NEW q \in Seq(Kinds), Popped(p, q),
           p[Len(p)] = "list", NEW o \in Seq(Brackets), NEW d, NEW n, NEW f \in BOOLEAN,
           Bracketed(d, o, p, n, TRUE, f), f \/ ~(d > 0)
    PROVE  Len(o) = Len(q) + 1 /\ o[Len(q) + 1] = <<"list">>
  <1>1. /\ Forms(q) = Forms(p) \ {Len(p)} /\ Len(p) \in Nat \ {0} /\ Len(q) = Len(p) - 1
        /\ \A i \in 1..Len(q) : q[i] = p[i]
    BY PoppedShape
  <1>2. Forms(q) = Forms(p)
    BY <1>1 DEF Forms, Formed
  <1>3. f \/ Forms(p) = {}
    BY FormsFinite DEF Bracketed
  <1>4. Shown(p, TRUE, f) = Len(p) /\ Shown(q, TRUE, f) = Len(q)
    BY <1>2, <1>3 DEF Shown
  <1>5. Len(o) = Len(p) /\ \A i \in 1..Len(p) : o[i] = Mark(p[i], n)
    BY <1>4 DEF Bracketed
  <1>6. Mark(p[Len(p)], n) = <<"list">>
    BY DEF Mark, Paged, Formed
  <1>7. Len(o) = Len(q) + 1 /\ Len(q) + 1 = Len(p) /\ o[Len(q) + 1] = <<"list">>
    BY <1>1, <1>5, <1>6
  <1> QED  BY <1>7

\* The place it leaves has the brackets that are left.
LEMMA TsilLeaves ==
    ASSUME NEW p \in Seq(Kinds), p # <<>>, Shape(p), NEW q \in Seq(Kinds), Popped(p, q),
           p[Len(p)] = "list", NEW o \in Seq(Brackets), NEW d, NEW n, NEW f \in BOOLEAN,
           Bracketed(d, o, p, n, TRUE, f), f \/ ~(d > 0),
           NEW o2 \in Seq(Brackets), Len(o2) = Len(q), \A i \in 1..Len(q) : o2[i] = o[i]
    PROVE  Bracketed(d, o2, q, n, TRUE, f)
  <1>1. /\ Forms(q) = Forms(p) \ {Len(p)} /\ Len(p) \in Nat \ {0} /\ Len(q) = Len(p) - 1
        /\ \A i \in 1..Len(q) : q[i] = p[i]
    BY PoppedShape
  <1>2. Forms(q) = Forms(p)
    BY <1>1 DEF Forms, Formed
  <1>3. f \/ Forms(p) = {}
    BY FormsFinite DEF Bracketed
  <1>4. Shown(p, TRUE, f) = Len(p) /\ Shown(q, TRUE, f) = Len(q)
    BY <1>2, <1>3 DEF Shown
  <1>5. Len(o) = Len(p) /\ \A i \in 1..Len(p) : o[i] = Mark(p[i], n)
    BY <1>4 DEF Bracketed
  <1>6. \A i \in 1..Len(q) : i \in 1..Len(p)
    BY <1>1
  <1>7. \A i \in 1..Len(q) : o2[i] = Mark(q[i], n)
    BY <1>1, <1>5, <1>6
  <1> QED  BY <1>2, <1>4, <1>7 DEF Bracketed

\* The end of one that is not.
LEMMA TsilHides ==
    ASSUME NEW p \in Seq(Kinds), p # <<>>, Shape(p), NEW q \in Seq(Kinds), Popped(p, q),
           p[Len(p)] = "list", NEW o, NEW d, NEW n, NEW v \in BOOLEAN, NEW f \in BOOLEAN,
           Bracketed(d, o, p, n, v, f), ~v \/ (~f /\ d > 0)
    PROVE  Bracketed(d, o, q, n, v, f)
  <1>1. /\ Forms(q) = Forms(p) \ {Len(p)} /\ Len(p) \in Nat \ {0} /\ Len(q) = Len(p) - 1
        /\ p[1] # "list" /\ (q # <<>> => q[1] = p[1])
    BY PoppedShape
  <1>2. Forms(q) = Forms(p)
    BY <1>1 DEF Forms, Formed
  <1>3. ~(v /\ (f \/ Forms(p) = {}))
    BY FormsFinite DEF Bracketed
  <1>4. q # <<>> /\ q[1] = p[1]
    <2>1. Len(p) # 1
      BY <1>1
    <2>2. Len(q) # 0
      BY <1>1, <2>1
    <2> QED  BY <1>1, <2>2
  <1>5. Shown(q, v, f) = Shown(p, v, f) /\ Shown(p, v, f) \in {0, 1}
    BY <1>2, <1>3, <1>4 DEF Shown
  <1>6. Shown(p, v, f) = 1 => \A i \in 1..1 : q[i] = p[i]
    BY <1>4
  <1> QED  BY <1>2, <1>5, <1>6 DEF Bracketed

\* What Form makes of a place: a form by itself, or at the end of a page or form.
Pushed(p, q) ==
    /\ Len(q) = Len(p) + 1 /\ q[Len(p) + 1] = "empty form"
    /\ \A i \in 1..Len(p) : q[i] = p[i]
    /\ p = <<>> \/ p[Len(p)] \in {"page", "form"}

\* A form is one more place, and one more form.
LEMMA FormShape ==
    ASSUME NEW p \in Seq(Kinds), Shape(p), NEW q \in Seq(Kinds), Pushed(p, q)
    PROVE  /\ Shape(q) /\ Forms(q) = Forms(p) \cup {Len(p) + 1} /\ Len(p) + 1 \notin Forms(p)
           /\ Cardinality(Forms(q)) = Cardinality(Forms(p)) + 1
           /\ Len(p) \in Nat /\ Len(q) = Len(p) + 1 /\ q # <<>>
           /\ q[Len(p) + 1] = "empty form" /\ \A i \in 1..Len(p) : q[i] = p[i]
  <1> DEFINE l == Len(p)
  <1>0. l \in Nat /\ DOMAIN p = 1..l /\ (p = <<>> <=> l = 0)
    BY EmptySeq
  <1>1. /\ Len(q) = l + 1 /\ q[l + 1] = "empty form" /\ \A i \in 1..l : q[i] = p[i]
        /\ p = <<>> \/ p[l] \in {"page", "form"}
    BY DEF Pushed
  <1> HIDE DEF l
  <1>2. /\ DOMAIN q = 1..(l + 1) /\ l + 1 \in DOMAIN q
        /\ \A i : i \in DOMAIN q <=> i \in 1..l \/ i = l + 1
    <2>1. DOMAIN q = 1..(l + 1)
      <3>1. DOMAIN q = 1..Len(q)
        BY LenProperties
      <3> QED  BY <1>1, <3>1
    <2>2. \A i : i \in 1..(l + 1) <=> i \in 1..l \/ i = l + 1
      BY <1>0
    <2>3. l + 1 \in 1..(l + 1)
      BY <1>0
    <2> QED  BY <2>1, <2>2, <2>3
  <1>3. "empty form" \in Formed /\ "empty form" \notin Paged
    BY DEF Formed, Paged
  <1>4. Forms(q) = Forms(p) \cup {l + 1}
    BY <1>0, <1>1, <1>2, <1>3 DEF Forms
  <1>5. l + 1 \notin Forms(p)
    BY <1>0 DEF Forms
  <1>6. Cardinality(Forms(q)) = Cardinality(Forms(p)) + 1
    BY <1>4, <1>5, FormsFinite, FS_AddElement
  <1>7. Shape(q)
    <2>1. ASSUME NEW i \in DOMAIN q, q[i] \in Formed, i > 1 PROVE q[i - 1] \in {"page", "form"}
      <3>1. CASE i = l + 1
        <4>1. p # <<>> /\ i - 1 = l /\ l \in 1..l
          BY <1>0, <2>1, <3>1
        <4> QED  BY <1>1, <4>1
      <3>2. CASE i \in 1..l
        <4>1. i - 1 \in 1..l /\ p[i] \in Formed
          <5>1. i - 1 \in 1..l
            BY <1>0, <2>1, <3>2
          <5> QED  BY <1>1, <2>1, <3>2, <5>1
        <4>2. p[i - 1] \in {"page", "form"}
          BY <1>0, <2>1, <3>2, <4>1 DEF Shape
        <4> QED  BY <1>1, <4>1, <4>2
      <3> QED  BY <1>2, <2>1, <3>1, <3>2
    <2>2. ASSUME NEW i \in DOMAIN q, q[i] \in Paged PROVE i = 1
      <3>1. i \in 1..l /\ p[i] \in Paged
        BY <1>1, <1>2, <1>3, <2>2
      <3> QED  BY <1>0, <3>1 DEF Shape
    <2>3. q[1] # "list"
      <3>1. CASE l = 0
        <4>1. l + 1 = 1
          BY <3>1
        <4>2. q[1] = "empty form"
          BY <1>1, <4>1
        <4> QED  BY <4>2
      <3>2. CASE l # 0
        <4>1. 1 \in 1..l
          BY <1>0, <3>2
        <4>2. p[1] # "list"
          BY <1>0, <3>2 DEF Shape
        <4> QED  BY <1>1, <4>1, <4>2
      <3> QED  BY <3>1, <3>2
    <2> QED  BY <2>1, <2>2, <2>3 DEF Shape
  <1>8. q # <<>>
    <2>1. l + 1 # 0
      BY <1>0
    <2>2. Len(q) # 0
      BY <1>1, <2>1
    <2> QED  BY <2>2
  <1> QED  BY <1>0, <1>1, <1>4, <1>5, <1>6, <1>7, <1>8 DEF l

\* Forms are recorded: one more is open.
LEMMA FormShown ==
    ASSUME NEW p \in Seq(Kinds), Shape(p), NEW q \in Seq(Kinds), Pushed(p, q),
           NEW o \in Seq(Brackets), NEW d, NEW n, Bracketed(d, o, p, n, TRUE, TRUE)
    PROVE  Bracketed(d + 1, Append(o, <<"form">>), q, n, TRUE, TRUE)
  <1> DEFINE l == Len(p)
             o2 == Append(o, <<"form">>)
  <1>1. /\ l \in Nat /\ Len(q) = l + 1 /\ q[l + 1] = "empty form"
        /\ \A i \in 1..l : q[i] = p[i]
        /\ Cardinality(Forms(q)) = Cardinality(Forms(p)) + 1
    BY FormShape
  <1> HIDE DEF l
  <1>2. Shown(p, TRUE, TRUE) = l /\ Shown(q, TRUE, TRUE) = l + 1
    BY <1>1 DEF Shown, l
  <1>3. Len(o) = l /\ \A i \in 1..l : o[i] = Mark(p[i], n)
    BY <1>2 DEF Bracketed
  <1>4. Len(o2) = l + 1 /\ o2[l + 1] = <<"form">> /\ \A i \in 1..l : o2[i] = o[i]
    BY <1>3
  <1> HIDE DEF o2
  <1>5. Mark(q[l + 1], n) = <<"form">>
    BY <1>1 DEF Mark, Paged, Formed
  <1>6. \A i \in 1..(l + 1) : i \in 1..l \/ i = l + 1
    <2>1. l \in Nat
      BY <1>1
    <2> QED  BY <2>1
  <1>7. \A i \in 1..(l + 1) : o2[i] = Mark(q[i], n)
    BY <1>1, <1>3, <1>4, <1>5, <1>6
  <1>8. d + 1 = Cardinality(Forms(q))
    BY <1>1 DEF Bracketed
  <1> QED  BY <1>2, <1>4, <1>7, <1>8 DEF Bracketed, o2

\* They are not, and this is the only one, alone or on a page.
LEMMA FormHides ==
    ASSUME NEW p \in Seq(Kinds), Shape(p), NEW q \in Seq(Kinds), Pushed(p, q),
           NEW o, NEW d, NEW n, Bracketed(d, o, p, n, TRUE, FALSE), ~(d > 0)
    PROVE  Bracketed(d + 1, o, q, n, TRUE, FALSE)
  <1> DEFINE l == Len(p)
  <1>1. /\ l \in Nat /\ q[l + 1] = "empty form" /\ q # <<>>
        /\ \A i \in 1..l : q[i] = p[i]
        /\ Forms(q) = Forms(p) \cup {l + 1}
        /\ Cardinality(Forms(q)) = Cardinality(Forms(p)) + 1
    BY FormShape
  <1>2. Forms(p) = {}
    BY FormsFinite DEF Bracketed
  <1>3. Shown(p, TRUE, FALSE) = l
    BY <1>2 DEF Shown
  <1>4. Shown(q, TRUE, FALSE) = IF q[1] \in Paged THEN 1 ELSE 0
    BY <1>1, <1>2 DEF Shown
  <1>5. l = 0 \/ (l = 1 /\ p[1] \in Paged)
    <2>1. ASSUME p # <<>> PROVE l = 1 /\ p[1] \in Paged
      <3>1. l \in DOMAIN p
        BY <2>1, EmptySeq
      <3>2. p[l] \in {"page", "form"}
        BY <2>1 DEF Pushed
      <3>3. p[l] \notin Formed
        BY <1>2, <3>1 DEF Forms
      <3>4. p[l] \in Paged
        BY <3>2, <3>3 DEF Formed, Paged
      <3> QED  BY <3>1, <3>4 DEF Shape
    <2>2. p = <<>> => l = 0
      OBVIOUS
    <2> QED  BY <2>1, <2>2
  <1> HIDE DEF l
  <1>6. Shown(q, TRUE, FALSE) = l
    <2>1. CASE l = 0
      <3>0. l + 1 = 1
        BY <2>1
      <3>1. q[1] = "empty form"
        BY <1>1, <3>0
      <3> QED  BY <1>4, <2>1, <3>1 DEF Paged
    <2>2. CASE l = 1 /\ p[1] \in Paged
      <3>0. 1 \in 1..l
        BY <2>2
      <3>1. q[1] = p[1]
        BY <1>1, <3>0
      <3> QED  BY <1>4, <2>2, <3>1
    <2> QED  BY <1>5, <2>1, <2>2
  <1>7. \A i \in 1..l : o[i] = Mark(q[i], n)
    BY <1>1, <1>3 DEF Bracketed
  <1>8. \A i, j \in Forms(q) : i = j
    BY <1>1, <1>2
  <1>9. d + 1 = Cardinality(Forms(q)) /\ Len(o) = l
    BY <1>1, <1>3 DEF Bracketed
  <1> QED  BY <1>6, <1>7, <1>8, <1>9 DEF Bracketed

\* The end of a form: it is no longer among the forms.
LEMMA MrofDepth ==
    ASSUME NEW p \in Seq(Kinds), p # <<>>, Shape(p), NEW q \in Seq(Kinds), Popped(p, q),
           p[Len(p)] \in Formed
    PROVE  /\ Len(p) \in Forms(p)
           /\ Cardinality(Forms(q)) = Cardinality(Forms(p)) - 1
  <1>1. Forms(q) = Forms(p) \ {Len(p)} /\ Len(p) \in Nat \ {0}
    BY PoppedShape
  <1>2. Len(p) \in Forms(p)
    <2>1. Len(p) \in DOMAIN p
      BY <1>1, LenProperties
    <2> QED  BY <2>1 DEF Forms
  <1>3. Cardinality(Forms(p) \ {Len(p)}) = Cardinality(Forms(p)) - 1
    BY <1>2, FormsFinite, FS_RemoveElement
  <1> QED  BY <1>1, <1>2, <1>3

\* That of one that is recorded.
LEMMA MrofShows ==
    ASSUME NEW p \in Seq(Kinds), NEW q \in Seq(Kinds), NEW o \in Seq(Brackets), NEW d, NEW n,
           NEW v \in BOOLEAN,
           p # <<>>, Shape(p), Popped(p, q), p[Len(p)] \in Formed, Bracketed(d, o, p, n, v, TRUE)
    PROVE  Len(o) = Len(q) + 1 /\ o[Len(q) + 1] = <<"form">>
  <1>1. /\ Len(p) \in Nat \ {0} /\ Len(q) = Len(p) - 1
        /\ \A i \in 1..Len(q) : q[i] = p[i]
    BY PoppedShape
  <1>2. v
    BY MrofDepth DEF Bracketed
  <1>3. Cardinality(Forms(q)) = d - 1
    BY MrofDepth DEF Bracketed
  <1>4. Shown(p, v, TRUE) = Len(p) /\ Shown(q, v, TRUE) = Len(q)
    BY <1>2 DEF Shown
  <1>5. Len(o) = Len(p) /\ \A i \in 1..Len(p) : o[i] = Mark(p[i], n)
    BY <1>4 DEF Bracketed
  <1>6. Mark(p[Len(p)], n) = <<"form">>
    BY DEF Mark, Paged, Formed
  <1>7. Len(o) = Len(q) + 1 /\ Len(q) + 1 = Len(p) /\ o[Len(q) + 1] = <<"form">>
    BY <1>1, <1>5, <1>6
  <1> QED  BY <1>7

\* And the place that leaves.
LEMMA MrofLeaves ==
    ASSUME NEW p \in Seq(Kinds), p # <<>>, Shape(p), NEW q \in Seq(Kinds), Popped(p, q),
           p[Len(p)] \in Formed, NEW o \in Seq(Brackets), NEW d, NEW n, NEW v \in BOOLEAN,
           Bracketed(d, o, p, n, v, TRUE),
           NEW o2 \in Seq(Brackets), Len(o2) = Len(q), \A i \in 1..Len(q) : o2[i] = o[i]
    PROVE  Bracketed(d - 1, o2, q, n, v, TRUE)
  <1>1. /\ Len(p) \in Nat \ {0} /\ Len(q) = Len(p) - 1
        /\ \A i \in 1..Len(q) : q[i] = p[i]
    BY PoppedShape
  <1>2. v
    BY MrofDepth DEF Bracketed
  <1>3. Cardinality(Forms(q)) = d - 1
    BY MrofDepth DEF Bracketed
  <1>4. Shown(p, v, TRUE) = Len(p) /\ Shown(q, v, TRUE) = Len(q)
    BY <1>2 DEF Shown
  <1>5. Len(o) = Len(p) /\ \A i \in 1..Len(p) : o[i] = Mark(p[i], n)
    BY <1>4 DEF Bracketed
  <1>6. \A i \in 1..Len(q) : i \in 1..Len(p)
    BY <1>1
  <1>7. \A i \in 1..Len(q) : o2[i] = Mark(q[i], n)
    BY <1>1, <1>5, <1>6
  <1> QED  BY <1>2, <1>3, <1>4, <1>7 DEF Bracketed

\* That of one that is not: what is left is a page, or nothing.
LEMMA MrofHides ==
    ASSUME NEW p \in Seq(Kinds), p # <<>>, Shape(p), NEW q \in Seq(Kinds), Popped(p, q),
           p[Len(p)] \in Formed, NEW o, NEW d, NEW n, NEW v \in BOOLEAN,
           Bracketed(d, o, p, n, v, FALSE)
    PROVE  Bracketed(d - 1, o, q, n, v, FALSE)
  <1> DEFINE l == Len(p)
  <1>1. /\ l \in Nat \ {0} /\ Len(q) = l - 1 /\ Forms(q) = Forms(p) \ {l}
        /\ (q # <<>> => q[1] = p[1]) /\ \A i \in 1..Len(q) : q[i] = p[i]
    BY PoppedShape
  <1>2. l \in Forms(p) /\ v /\ Cardinality(Forms(q)) = d - 1
    BY MrofDepth DEF Bracketed
  <1>3. Forms(p) = {l} /\ Forms(q) = {}
    BY <1>1, <1>2 DEF Bracketed
  <1> HIDE DEF l
  <1>4. Shown(q, v, FALSE) = Len(q)
    BY <1>2, <1>3 DEF Shown
  <1>5. Shown(p, v, FALSE) = IF p[1] \in Paged THEN 1 ELSE 0
    BY <1>3 DEF Shown
  <1>6. IF l = 1 THEN p[1] \notin Paged ELSE l = 2 /\ p[1] \in Paged
    <2>1. l \in DOMAIN p /\ p[l] \in Formed
      BY <1>2 DEF Forms
    <2>2. CASE l = 1
      BY <2>1, <2>2 DEF Paged, Formed
    <2>3. CASE l # 1
      <3>1. l > 1 /\ l - 1 \in DOMAIN p
        BY <1>1, <2>3, LenProperties DEF l
      <3>2. p[l - 1] \in {"page", "form"}
        BY <2>1, <3>1 DEF Shape
      <3>3. l - 1 # l
        BY <1>1
      <3>4. p[l - 1] \notin Formed
        BY <1>3, <3>1, <3>3 DEF Forms
      <3>5. p[l - 1] \in Paged
        BY <3>2, <3>4 DEF Paged, Formed
      <3>6. l - 1 = 1
        BY <3>1, <3>5 DEF Shape
      <3>7. l = 2
        BY <1>1, <3>6
      <3> QED  BY <3>5, <3>6, <3>7
    <2> QED  BY <2>2, <2>3
  <1>7. Shown(p, v, FALSE) = Shown(q, v, FALSE)
    <2>1. CASE l = 1
      <3>1. Len(q) = 0
        BY <1>1, <2>1
      <3> QED  BY <1>4, <1>5, <1>6, <2>1, <3>1
    <2>2. CASE l # 1
      <3>1. l = 2 /\ p[1] \in Paged
        BY <1>6, <2>2
      <3>2. Len(q) = 1
        BY <1>1, <3>1
      <3> QED  BY <1>4, <1>5, <3>1, <3>2
    <2> QED  BY <2>1, <2>2
  <1>8. \A i \in 1..Len(q) : o[i] = Mark(q[i], n)
    BY <1>1, <1>4, <1>7 DEF Bracketed
  <1> QED  BY <1>2, <1>3, <1>4, <1>7, <1>8 DEF Bracketed

\* Where nothing is shipped out, nothing is open.
LEMMA NothingOpen ==
    ASSUME NEW o \in Seq(Brackets), NEW d, NEW n, NEW v \in BOOLEAN, NEW f \in BOOLEAN
    PROVE  Bracketed(d, o, <<>>, n, v, f) <=> o = <<>> /\ d = 0
  <1>1. Forms(<<>>) = {}
    BY DEF Forms
  <1>2. Cardinality(Forms(<<>>)) = 0
    BY <1>1, FS_EmptySet
  <1>3. Shown(<<>>, v, f) = 0
    BY <1>1 DEF Shown
  <1>4. Len(o) = 0 <=> o = <<>>
    BY EmptySeq
  <1> QED  BY <1>1, <1>2, <1>3, <1>4 DEF Bracketed

\* On a page that has just begun, or is about to end, its bracket is open.
LEMMA PageOpen ==
    ASSUME NEW k \in Paged, NEW o, NEW d, NEW n, NEW v \in BOOLEAN, NEW f \in BOOLEAN
    PROVE  /\ Shape(<<k>>)
           /\ Bracketed(d, o, <<k>>, n, v, f) <=> Len(o) = 1 /\ o[1] = <<"sheet", n>> /\ d = 0
  <1> DEFINE p == <<k>>
  <1>0. Len(p) = 1 /\ DOMAIN p = {1} /\ p[1] = k /\ p # <<>>
    OBVIOUS
  <1>1. k \notin Formed /\ k # "list"
    BY DEF Paged, Formed
  <1> HIDE DEF p
  <1>2. Forms(p) = {}
    BY <1>0, <1>1 DEF Forms
  <1>3. Cardinality(Forms(p)) = 0
    BY <1>2, FS_EmptySet
  <1>4. Shown(p, v, f) = 1
    BY <1>0, <1>2 DEF Shown
  <1>5. Mark(p[1], n) = <<"sheet", n>>
    BY <1>0 DEF Mark
  <1>6. Shape(p)
    BY <1>0, <1>1 DEF Shape
  <1>7. (\A i \in 1..1 : o[i] = Mark(p[i], n)) <=> o[1] = <<"sheet", n>>
    BY <1>5
  <1>8. Bracketed(d, o, p, n, v, f) <=> Len(o) = 1 /\ o[1] = <<"sheet", n>> /\ d = 0
    BY <1>2, <1>3, <1>4, <1>7 DEF Bracketed
  <1> QED  BY <1>6, <1>8 DEF p

-----------------------------------------------------------------------------
(* The steps *)

\* What Nesting says while TeX runs, of State.
LEMMA NestsNow ==
    ASSUME IInv, Nesting, pc = "run"
    PROVE  /\ Shape(place) /\ State \in States /\ out.open \in Seq(Brackets)
           /\ odd = {} => Nests(State, place, total + 1, value, option.forms)
           /\ option.forms \in BOOLEAN /\ value \in BOOLEAN /\ place \in Seq(Kinds)
           /\ State.ctxt = ctxt /\ State.out = out /\ Sound(State, blind)
  <1>1. /\ State.ctxt = ctxt /\ State.out = out /\ Sound(State, blind) /\ value \in BOOLEAN
        /\ place \in Seq(Kinds) /\ option \in Options /\ out \in Outs
    BY InRun
  <1>2. State \in States /\ out.open \in Seq(Brackets)
    BY <1>1 DEF Sound, Outs
  <1>3. option.forms \in BOOLEAN
    BY <1>1, SyncTeXAssumption
  <1> QED  BY <1>1, <1>2, <1>3 DEF Nesting, Nests

\* It is enough that the state after a step nests.
LEMMA NestsNext ==
    ASSUME IInv', pc' # "done", option' = option, Shape(place'),
           odd' = {} => \E n \in States : /\ Becomes(n)
                                          /\ Nests(n, place', total' + 1, value', option.forms)
    PROVE  Nesting'
  <1>0. pc' # "run" => "new" \notin {disk'.plain, disk'.gz}
    BY DEF IInv, Ended, InSync
  <1>1. SUFFICES ASSUME odd' = {}
                 PROVE  /\ out'.nested
                        /\ ~ctxt'.off => Bracketed(ctxt'.depth, out'.open, place', total' + 1,
                                                   value', option'.forms)
    BY <1>0 DEF Nesting, Shape, Bracketed, Shown, Forms, Mark
  <1>2. PICK n \in States : Becomes(n) /\ Nests(n, place', total' + 1, value', option.forms)
    BY <1>1
  <1>3. ctxt' = n.ctxt /\ out' = n.out
    BY <1>2 DEF Becomes
  <1> QED  BY <1>2, <1>3 DEF Nests

\* Where nothing is shipped out, a state with nothing open nests.
LEMMA BlankNests ==
    ASSUME NEW s, Blank(s, 0), NEW n, NEW v \in BOOLEAN, NEW f \in BOOLEAN
    PROVE  s \in States /\ Nests(s, <<>>, n, v, f)
  <1>1. s \in States /\ s.out.nested /\ s.out.open = <<>> /\ s.ctxt.depth = 0
    BY DEF Blank
  <1>2. s.out.open \in Seq(Brackets)
    BY <1>1 DEF States, Outs
  <1> DEFINE o == s.out.open
             d == s.ctxt.depth
  <1>3. o \in Seq(Brackets) /\ o = <<>> /\ d = 0
    BY <1>1, <1>2
  <1> HIDE DEF o, d
  <1>4. Bracketed(d, o, <<>>, n, v, f)
    BY <1>3, NothingOpen
  <1> QED  BY <1>1, <1>4 DEF Nests, o, d

\* And one that nests while SyncTeX is on has nothing open.
LEMMA NestsBlank ==
    ASSUME NEW s \in States, NEW n, NEW v \in BOOLEAN, NEW f \in BOOLEAN,
           Nests(s, <<>>, n, v, f), ~s.ctxt.off
    PROVE  Blank(s, 0)
  <1>1. s.out.open \in Seq(Brackets)
    BY DEF States, Outs
  <1> QED  BY <1>1, NothingOpen DEF Blank, Nests

\* An Input line is no bracket, nor does the file open with one.
LEMMA StartInputNests ==
    ASSUME IInv, Nesting, StartInput PROVE Nesting'
  <1>1. /\ pc = "run" /\ IInv' /\ pc' # "done" /\ place = <<>> /\ place' = <<>>
        /\ UNCHANGED <<option, value, total, odd>>
    BY StartInputKeeps DEF StartInput
  <1>2. /\ Shape(<<>>) /\ State \in States /\ option.forms \in BOOLEAN /\ value \in BOOLEAN
        /\ odd = {} => Nests(State, <<>>, total + 1, value, option.forms)
        /\ State.ctxt = ctxt
    BY <1>1, NestsNow
  <1>3. ASSUME odd' = {}
        PROVE  \E n \in States : /\ Becomes(n)
                                 /\ Nests(n, <<>>, total + 1, value, option.forms)
    <2>1. CASE ctxt.off
      <3>1. Becomes(State)
        BY <2>1 DEF StartInput
      <3> QED  BY <1>1, <1>2, <1>3, <3>1
    <2>2. CASE ~ctxt.off
      <3> DEFINE t == ctxt.tag + 1
                 s == [State EXCEPT !.ctxt.tag = t]
      <3>1. Blank(State, 0)
        BY <1>1, <1>2, <1>3, <2>2, NestsBlank
      <3>2. t \in Nat
        BY <1>2 DEF States, Ctxts
      <3>3. Blank(s, 0)
        <4>1. /\ s.ctxt = [ctxt EXCEPT !.tag = t] /\ s.out = State.out /\ s.disk = State.disk
              /\ s = [State EXCEPT !.ctxt = s.ctxt]
          BY <1>2 DEF States
        <4> HIDE DEF t
        <4>2. s.ctxt \in Ctxts /\ s.ctxt.depth = 0
          BY <1>2, <3>1, <3>2, <4>1 DEF Blank, States, Ctxts
        <4> HIDE DEF s
        <4> QED  BY <3>1, <4>1, <4>2 DEF Blank, States
      <3>4. CASE t = 1
        <4> DEFINE n == [s EXCEPT !.ctxt.root = TRUE]
        <4>1. Becomes(n)
          BY <2>2, <3>4 DEF StartInput
        <4> HIDE DEF s
        <4>2. /\ n.ctxt = [s.ctxt EXCEPT !.root = TRUE] /\ n.out = s.out /\ n.disk = s.disk
              /\ n = [s EXCEPT !.ctxt = n.ctxt]
          BY <3>3 DEF Blank, States
        <4>3. n.ctxt \in Ctxts /\ n.ctxt.depth = 0
          BY <3>3, <4>2 DEF Blank, States, Ctxts
        <4> HIDE DEF n
        <4>4. Blank(n, 0)
          BY <3>3, <4>2, <4>3 DEF Blank, States
        <4> QED  BY <1>2, <4>1, <4>4, BlankNests
      <3>5. CASE t # 1
        <4>1. PICK d \in DotOpen(s, value) :
                IF d.ctxt.file THEN \E n \in RecordInput(d, t) : Becomes(n) ELSE Becomes(d)
          BY <2>2, <3>5 DEF StartInput
        <4> HIDE DEF s, t
        <4>2. Blank(d, 0)
          BY <1>2, <3>3, DotOpenBlank
        <4>3. PICK n : Blank(n, 0) /\ Becomes(n)
          <5>1. CASE d.ctxt.file
            BY <3>2, <4>1, <4>2, <5>1, RecordInputBlank
          <5>2. CASE ~d.ctxt.file
            BY <4>1, <4>2, <5>2
          <5> QED  BY <5>1, <5>2
        <4> QED  BY <1>2, <4>3, BlankNests
      <3> QED  BY <3>4, <3>5
    <2> QED  BY <2>1, <2>2
  <1>4. Shape(place')
    BY <1>1, <1>2
  <1> QED  BY <1>1, <1>3, <1>4, NestsNext

\* \synctex does not matter where nothing is open.
LEMMA SetSynctexNests ==
    ASSUME IInv, Nesting, SetSynctex PROVE Nesting'
  <1>1. /\ pc = "run" /\ IInv' /\ pc' # "done" /\ place = <<>> /\ place' = <<>>
        /\ UNCHANGED <<option, total, odd>> /\ value' = ~value /\ Becomes(State)
    BY SetSynctexKeeps DEF SetSynctex, Becomes, State
  <1>2. /\ Shape(<<>>) /\ State \in States /\ option.forms \in BOOLEAN /\ value \in BOOLEAN
        /\ odd = {} => Nests(State, <<>>, total + 1, value, option.forms)
    BY <1>1, NestsNow
  <1>3. ASSUME odd = {} PROVE Nests(State, <<>>, total + 1, value', option.forms)
    <2>1. CASE State.ctxt.off
      BY <1>2, <1>3, <2>1 DEF Nests
    <2>2. CASE ~State.ctxt.off
      <3>1. Blank(State, 0)
        BY <1>2, <1>3, <2>2, NestsBlank
      <3>2. value' \in BOOLEAN
        BY <1>1, <1>2
      <3> QED  BY <1>2, <3>1, <3>2, BlankNests
    <2> QED  BY <2>1, <2>2
  <1> QED  BY <1>1, <1>2, <1>3, NestsNext

\* A bracket less, when it is the last and the place has one less.
LEMMA UnbracketNests ==
    ASSUME NEW a \in States, a.out.nested, NEW s \in States, s.out.nested,
           NEW k, NEW m \in Nat, Len(s.out.open) = m + 1, s.out.open[m + 1] = k,
           NEW p, NEW n, NEW v, NEW f,
           \A o \in Seq(Brackets) : Len(o) = m /\ (\A i \in 1..m : o[i] = s.out.open[i])
                  => Bracketed(s.ctxt.depth, o, p, n, v, f),
           NEW x \in Writing(a, Unbracket(s, k))
    PROVE  x \in States /\ Nests(x, p, n, v, f)
  <1> DEFINE u == Unbracket(s, k)
  <1>1. /\ u \in States /\ u.ctxt = s.ctxt /\ u.out.nested = s.out.nested
        /\ Len(u.out.open) = m /\ \A i \in 1..m : u.out.open[i] = s.out.open[i]
    BY UnbracketCloses
  <1> HIDE DEF u
  <1>2. Nests(u, p, n, v, f)
    <2>1. u.out.open \in Seq(Brackets)
      BY <1>1 DEF States, Outs
    <2> QED  BY <1>1, <2>1 DEF Nests
  <1>3. x \in Writing(a, u)
    BY DEF u
  <1> QED  BY <1>1, <1>2, <1>3, WritingNests

\* The bracket of a page that begins.
LEMMA PageBegins ==
    ASSUME NEW o, Len(o) = 1, NEW n, o[1] = <<"sheet", n>>, NEW v \in BOOLEAN, NEW f \in BOOLEAN
    PROVE  Bracketed(0, o, <<"empty page">>, n, v, f)
  <1>1. "empty page" \in Paged
    BY DEF Paged
  <1>2. ASSUME NEW k \in Paged, NEW d, d = 0 PROVE Bracketed(d, o, <<k>>, n, v, f)
    <2>1. Bracketed(d, o, <<k>>, n, v, f) <=> Len(o) = 1 /\ o[1] = <<"sheet", n>> /\ d = 0
      BY <1>2, PageOpen
    <2> QED  BY <1>2, <2>1
  <1> QED  BY <1>1, <1>2

\* A page begins where nothing is open, with its bracket.
LEMMA SheetNests ==
    ASSUME IInv, Nesting, Sheet PROVE Nesting'
  <1>1. /\ pc = "run" /\ IInv' /\ pc' # "done" /\ place = <<>> /\ place' = <<"empty page">>
        /\ UNCHANGED <<option, value, total, odd>>
    BY SheetKeeps DEF Sheet, Steady
  <1>2. /\ Shape(<<"empty page">>) /\ State \in States
        /\ option.forms \in BOOLEAN /\ value \in BOOLEAN /\ total \in Nat
        /\ odd = {} => Nests(State, <<>>, total + 1, value, option.forms)
        /\ State.ctxt = ctxt /\ Sound(State, blind)
    <2>1. Shape(<<"empty page">>)
      BY PageOpen DEF Paged
    <2>2. total \in Nat
      BY <1>1, InRun
    <2> QED  BY <1>1, <2>1, <2>2, NestsNow
  <1>3. ASSUME odd' = {}
        PROVE  \E n \in States : /\ Becomes(n)
                                 /\ Nests(n, <<"empty page">>, total + 1, value, option.forms)
    <2>1. CASE ctxt.off
      <3>1. Becomes(State)
        BY <2>1 DEF Sheet
      <3>2. State.out.nested
        BY <1>1, <1>2, <1>3 DEF Nests
      <3> QED  BY <1>2, <2>1, <3>1, <3>2 DEF Nests
    <2>2. CASE ~ctxt.off
      <3> DEFINE k == <<"sheet", total + 1>>
      <3>1. PICK p \in PrepareContent(State, value) :
              IF p.ctxt.file THEN \E n \in Writing(p, Bracket(p, k)) : Becomes(n)
              ELSE Becomes(p)
        BY <2>2 DEF Sheet
      <3>2. Blank(p, 0) /\ Settled(p)
        <4>1. Blank(State, 0)
          BY <1>1, <1>2, <1>3, <2>2, NestsBlank
        <4>2. Blank(p, 0)
          BY <1>2, <4>1, PrepareContentBlank
        <4> QED  BY <1>2, <4>2, PrepareContentSound
      <3>3. CASE p.ctxt.file
        <4>1. k \in Brackets
          <5>1. total + 1 \in Nat
            <6>1. total \in Nat
              BY <1>2
            <6> QED  BY <6>1
          <5> QED  BY <5>1 DEF Brackets
        <4> DEFINE w == Bracket(p, k)
                   o == Append(p.out.open, k)
        <4>2. /\ w \in States /\ w.ctxt = p.ctxt /\ w.out.nested = p.out.nested
              /\ w.out.open = o
          BY <3>2, <4>1, BracketOpens DEF Blank
        <4>3. PICK n \in Writing(p, w) : Becomes(n)
          BY <3>1, <3>3
        <4>4. Len(o) = 1 /\ o[1] = k
          <5>1. o = <<k>>
            BY <3>2 DEF Blank
          <5> QED  BY <5>1
        <4> HIDE DEF w, o
        <4>5. Bracketed(w.ctxt.depth, w.out.open, <<"empty page">>, total + 1, value, option.forms)
          <5>1. "empty page" \in Paged /\ w.ctxt.depth = 0
            BY <3>2, <4>2 DEF Paged, Blank
          <5> DEFINE d == w.ctxt.depth
                     q == w.out.open
          <5>2. Len(q) = 1 /\ q[1] = <<"sheet", total + 1>> /\ d = 0
            BY <4>2, <4>4, <5>1
          <5> HIDE DEF d, q
          <5>3. Bracketed(d, q, <<"empty page">>, total + 1, value, option.forms)
            <6>1. option.forms \in BOOLEAN /\ value \in BOOLEAN
              BY <1>2
            <6> QED  BY <5>2, <6>1, PageBegins
          <5> QED  BY <5>3 DEF d, q
        <4> HIDE DEF k
        <4>6. Nests(w, <<"empty page">>, total + 1, value, option.forms)
          BY <3>2, <4>2, <4>5 DEF Nests, Blank
        <4> QED  BY <3>2, <4>2, <4>3, <4>6, WritingNests DEF Blank
      <3>4. CASE ~p.ctxt.file
        <4>1. Becomes(p) /\ p.ctxt.off
          BY <3>1, <3>2, <3>4 DEF Settled
        <4> QED  BY <3>2, <4>1 DEF Nests, Blank
      <3> QED  BY <3>3, <3>4
    <2> QED  BY <2>1, <2>2
  <1> QED  BY <1>1, <1>2, <1>3, NestsNext

\* A page ends with its bracket, which was the only one.
LEMMA TeehsNests ==
    ASSUME IInv, Nesting, Teehs PROVE Nesting'
  <1>1. /\ pc = "run" /\ IInv' /\ pc' # "done" /\ place # <<>> /\ Len(place) = 1 /\ place' = <<>>
        /\ UNCHANGED <<option, value>> /\ odd \subseteq odd'
    BY TeehsKeeps DEF Teehs, Steady, ShippingOut
  <1>2. /\ State \in States /\ out.open \in Seq(Brackets)
        /\ option.forms \in BOOLEAN /\ value \in BOOLEAN /\ place \in Seq(Kinds)
        /\ odd = {} => Nests(State, place, total + 1, value, option.forms)
        /\ State.ctxt = ctxt /\ State.out = out /\ Settled(State) /\ total \in Nat
    BY <1>1, NestsNow, InRun
  <1>3. Shape(<<>>)
    BY DEF Shape, Forms
  <1>4. ASSUME odd' = {}
        PROVE  \E n \in States : /\ Becomes(n)
                                 /\ Nests(n, <<>>, total' + 1, value, option.forms)
    <2>0. State.out.nested
      BY <1>1, <1>2, <1>4 DEF Nests
    <2>1. CASE ctxt.off
      <3>1. Becomes(State)
        BY <2>1 DEF Teehs
      <3> QED  BY <1>2, <2>0, <2>1, <3>1 DEF Nests
    <2>2. CASE ~ctxt.off
      <3>1. place[1] = "page" /\ total' = total + 1
        <4>1. Within("page")
          BY <1>4 DEF Teehs
        <4>2. Last(place) = place[1]
          BY <1>1 DEF Last
        <4> QED  BY <4>1, <4>2 DEF Within, Teehs
      <3>2. place = <<"page">>
        BY <1>1, <1>2, <3>1
      <3> DEFINE k == <<"sheet", total + 1>>
      <3>3. /\ Len(State.out.open) = 1 /\ State.out.open[1] = k /\ State.ctxt.depth = 0
        <4>1. Bracketed(ctxt.depth, out.open, <<"page">>, total + 1, value, option.forms)
          BY <1>1, <1>2, <1>4, <2>2, <3>2 DEF Nests
        <4>2. "page" \in Paged
          BY DEF Paged
        <4> QED  BY <1>2, <4>1, <4>2, PageOpen
      <3>4. PICK n \in Writing(State, Unbracket(State, k)) : Becomes(n)
        <4>1. ctxt.file
          BY <1>2, <2>2 DEF Settled
        <4> QED  BY <2>2, <3>1, <4>1 DEF Teehs
      <3>5. ASSUME NEW o \in Seq(Brackets), Len(o) = 0, \A i \in 1..0 : o[i] = State.out.open[i]
            PROVE  Bracketed(State.ctxt.depth, o, <<>>, total' + 1, value, option.forms)
        <4>1. Forms(<<>>) = {} /\ Cardinality(Forms(<<>>)) = 0
          <5>1. Forms(<<>>) = {}
            BY DEF Forms
          <5> QED  BY <5>1, FS_EmptySet
        <4>2. Shown(<<>>, value, option.forms) = 0
          BY <4>1 DEF Shown
        <4> QED  BY <3>3, <3>5, <4>1, <4>2 DEF Bracketed
      <3> HIDE DEF k
      <3> DEFINE m == 0
      <3>6. /\ m \in Nat /\ Len(State.out.open) = m + 1 /\ State.out.open[m + 1] = k
            /\ \A o \in Seq(Brackets) :
                  Len(o) = m /\ (\A i \in 1..m : o[i] = State.out.open[i])
                  => Bracketed(State.ctxt.depth, o, <<>>, total' + 1, value, option.forms)
        BY <3>3, <3>5
      <3> HIDE DEF m
      <3>7. n \in States /\ Nests(n, <<>>, total' + 1, value, option.forms)
        BY <1>2, <2>0, <3>4, <3>6, UnbracketNests
      <3> QED  BY <3>4, <3>7
    <2> QED  BY <2>1, <2>2
  <1> QED  BY <1>1, <1>3, <1>4, NestsNext

\* A record that opens and closes nothing, written or not.
LEMMA RecordNests ==
    ASSUME NEW s \in States, NEW p, NEW n, NEW v, NEW f, Nests(s, p, n, v, f),
           NEW t \in Nat, NEW x \in Writing(s, NodeRecord(s, t))
    PROVE  x \in States /\ Nests(x, p, n, v, f)
  <1> DEFINE w == NodeRecord(s, t)
  <1>1. /\ w \in States /\ w.ctxt = s.ctxt
        /\ w.out.open = s.out.open /\ w.out.nested = s.out.nested
    BY NodeRecordOpens
  <1>2. x \in Writing(s, w)
    OBVIOUS
  <1> HIDE DEF w
  <1>3. Nests(w, p, n, v, f) /\ s.out.nested
    BY <1>1 DEF Nests
  <1> QED  BY <1>1, <1>2, <1>3, WritingNests

\* A kern that waits is no bracket.
LEMMA DeferNests ==
    ASSUME IInv, Nesting, Defer PROVE Nesting'
  <1>1. /\ pc = "run" /\ IInv' /\ pc' # "done" /\ UNCHANGED <<option, value, total, odd, place>>
    BY DeferKeeps DEF Defer, Steady, ShippingOut
  <1>2. /\ Shape(place) /\ State \in States
        /\ odd = {} => Nests(State, place, total + 1, value, option.forms)
    BY <1>1, NestsNow
  <1> DEFINE n == [State EXCEPT !.ctxt.recorder = TRUE]
  <1>3. Becomes(n)
    BY DEF Defer
  <1>4. /\ n \in States /\ n.out = State.out
        /\ n.ctxt.depth = State.ctxt.depth /\ n.ctxt.off = State.ctxt.off
    BY <1>2, RecorderOpens
  <1> HIDE DEF n
  <1>5. odd = {} => Nests(n, place, total + 1, value, option.forms)
    BY <1>2, <1>4 DEF Nests
  <1> QED  BY <1>1, <1>2, <1>3, <1>4, <1>5, NestsNext

\* A node is no bracket, nor is the kern that waited.
LEMMA NodeNests ==
    ASSUME IInv, Nesting, Node PROVE Nesting'
  <1>1. /\ pc = "run" /\ IInv' /\ pc' # "done" /\ UNCHANGED <<option, value, total, odd, place>>
    BY NodeKeeps DEF Node, Steady, ShippingOut
  <1>2. /\ Shape(place) /\ State \in States
        /\ odd = {} => Nests(State, place, total + 1, value, option.forms)
        /\ State.ctxt = ctxt
    BY <1>1, NestsNow
  <1>3. ASSUME odd' = {}
        PROVE  \E n \in States : /\ Becomes(n)
                                 /\ Nests(n, place, total + 1, value, option.forms)
    <2> DEFINE Fits(s) == Nests(s, place, total + 1, value, option.forms)
    <2>1. PICK k \in OfKern(State), t \in 0..ctxt.tag : \E n \in OfNode(k, t) : Becomes(n)
      BY DEF Node
    <2>2. PICK n \in OfNode(k, t) : Becomes(n)
      BY <2>1
    <2>3. Fits(State) /\ ctxt.tag \in Nat
      BY <1>1, <1>2, <1>3 DEF States, Ctxts
    <2>4. t \in Nat
      BY <2>3
    <2>5. k \in States /\ Fits(k)
      <3>1. CASE k = State
        BY <1>2, <2>3, <3>1
      <3>2. CASE k # State
        <4>1. PICK u \in 1..State.ctxt.tag : k \in Writing(State, NodeRecord(State, u))
          BY <3>2 DEF OfKern
        <4>2. u \in Nat
          BY <1>2, <2>3
        <4> QED  BY <1>2, <2>3, <4>1, <4>2, RecordNests
      <3> QED  BY <3>1, <3>2
    <2> DEFINE s == [k EXCEPT !.ctxt.recorder = FALSE]
    <2>6. /\ s \in States /\ s.out = k.out
          /\ s.ctxt.depth = k.ctxt.depth /\ s.ctxt.off = k.ctxt.off
      BY <2>5, RecorderOpens
    <2>7. \/ n = s \/ n = Abort(s) \/ n = [s EXCEPT !.pc = "null record"]
          \/ n \in Writing(s, NodeRecord(s, t))
      BY DEF OfNode
    <2> HIDE DEF s
    <2>8. Fits(s) /\ s.out.nested
      BY <2>5, <2>6 DEF Nests
    <2>9. n \in States /\ Fits(n)
      <3>1. CASE n = s
        BY <2>6, <2>8, <3>1
      <3>2. CASE n = Abort(s)
        BY <2>6, <2>8, <3>2, AbortFields DEF Nests
      <3>3. CASE n = [s EXCEPT !.pc = "null record"]
        <4>1. n \in States /\ n.ctxt = s.ctxt /\ n.out = s.out
          BY <2>6, <3>3 DEF States, Ends
        <4> QED  BY <2>8, <4>1 DEF Nests
      <3>4. CASE n \in Writing(s, NodeRecord(s, t))
        BY <2>4, <2>6, <2>8, <3>4, RecordNests
      <3> QED  BY <2>7, <3>1, <3>2, <3>3, <3>4
    <2> QED  BY <2>2, <2>9
  <1> QED  BY <1>1, <1>2, <1>3, NestsNext

\* The last place, and the one after it.
LEMMA LastPlace ==
    ASSUME NEW l \in Nat, l # 0
    PROVE  /\ l \in 1..l /\ l \in 1..l + 1 /\ l + 1 \in 1..l + 1
           /\ \A i \in 1..l - 1 : i \in 1..l /\ i \in 1..l + 1 /\ i <= l - 1
           /\ l - 1 + 2 = l + 1 /\ l - (l - 1) = 1 /\ l + 1 - (l - 1) = 2
           /\ ~(l <= l - 1) /\ ~(l + 1 <= l - 1)
  OBVIOUS

\* The last places of a page or form whose list begins.
LEMMA ListBegins ==
    <<"page", "list">> \in Seq(Kinds) /\ <<"form", "list">> \in Seq(Kinds)
  BY DEF Kinds

\* Two places in the place of the last.
LEMMA TwoPlaces ==
    ASSUME NEW f \in Seq(Kinds), NEW t \in Seq(Kinds), NEW l \in Nat, l # 0,
           Len(f) = l - 1, Len(t) = 2
    PROVE  LET q == f \o t
           IN /\ q \in Seq(Kinds) /\ Len(q) = l + 1 /\ \A i \in 1..l - 1 : q[i] = f[i]
              /\ q[l] = t[1] /\ q[l + 1] = t[2]
  <1> DEFINE q == f \o t
  <1>1. /\ q \in Seq(Kinds) /\ Len(q) = Len(f) + Len(t)
        /\ \A i \in 1..Len(f) + Len(t) : q[i] = IF i <= Len(f) THEN f[i] ELSE t[i - Len(f)]
    BY ConcatProperties
  <1> HIDE DEF q
  <1>2. Len(f) + Len(t) = l + 1
    OBVIOUS
  <1>3. Len(q) = l + 1 /\ \A i \in 1..l + 1 : q[i] = IF i <= l - 1 THEN f[i] ELSE t[i - (l - 1)]
    BY <1>1, <1>2
  <1>4. \A i \in 1..l - 1 : q[i] = f[i]
    <2>1. \A i \in 1..l - 1 : i \in 1..l + 1 /\ i <= l - 1
      BY LastPlace
    <2> QED  BY <1>3, <2>1
  <1>5. q[l] = t[l - (l - 1)]
    <2>1. l \in 1..l + 1 /\ ~(l <= l - 1)
      BY LastPlace
    <2> QED  BY <1>3, <2>1
  <1>6. q[l + 1] = t[l + 1 - (l - 1)]
    <2>1. l + 1 \in 1..l + 1 /\ ~(l + 1 <= l - 1)
      BY LastPlace
    <2> DEFINE j == l + 1
    <2>2. j \in 1..j /\ ~(j <= l - 1) /\ \A i \in 1..j : q[i] = IF i <= l - 1 THEN f[i] ELSE t[i - (l - 1)]
      BY <1>3, <2>1
    <2> HIDE DEF j
    <2>3. q[j] = t[j - (l - 1)]
      BY <2>2
    <2> QED  BY <2>3 DEF j
  <1>7. l - (l - 1) = 1 /\ l + 1 - (l - 1) = 2
    BY LastPlace
  <1>8. q[l] = t[1] /\ q[l + 1] = t[2]
    BY <1>5, <1>6, <1>7
  <1> QED  BY <1>1, <1>3, <1>4, <1>8 DEF q

\* A list begins in a page or form.
LEMMA FirstList ==
    ASSUME NEW p \in Seq(Kinds), p # <<>>, NEW t \in Seq(Kinds), Len(t) = 2, t[2] = "list",
           \/ Last(p) = "empty page" /\ t[1] = "page"
           \/ Last(p) = "empty form" /\ t[1] = "form"
    PROVE  Front(p) \o t \in Seq(Kinds) /\ Listed(p, Front(p) \o t)
  <1> DEFINE l == Len(p)
             f == Front(p)
             q == f \o t
  <1>1. /\ l \in Nat /\ l # 0 /\ Last(p) = p[l] /\ f \in Seq(Kinds) /\ Len(f) = l - 1
        /\ \A i \in 1..l - 1 : f[i] = p[i]
    BY FrontOf
  <1> HIDE DEF l, f
  <1>2. /\ q \in Seq(Kinds) /\ Len(q) = l + 1 /\ \A i \in 1..l - 1 : q[i] = f[i]
        /\ q[l] = t[1] /\ q[l + 1] = t[2]
    BY <1>1, TwoPlaces
  <1> HIDE DEF q
  <1> QED  BY <1>1, <1>2 DEF Listed, l, f, q

\* A place more.
LEMMA OnePlace ==
    ASSUME NEW p \in Seq(Kinds), NEW e \in Kinds
    PROVE  LET q == Append(p, e)
           IN /\ q \in Seq(Kinds) /\ Len(q) = Len(p) + 1 /\ q[Len(p) + 1] = e
              /\ \A i \in 1..Len(p) : q[i] = p[i]
  BY AppendProperties

\* And in another list.
LEMMA NextList ==
    ASSUME NEW p \in Seq(Kinds), p # <<>>, Last(p) = "list", NEW e, e = "list"
    PROVE  Append(p, e) \in Seq(Kinds) /\ Listed(p, Append(p, e))
  <1> DEFINE l == Len(p)
             q == Append(p, e)
  <1>1. l \in Nat /\ l # 0 /\ Last(p) = p[l]
    BY FrontOf
  <1>2. e \in Kinds
    BY DEF Kinds
  <1>3. q \in Seq(Kinds) /\ Len(q) = l + 1 /\ q[l + 1] = e /\ \A i \in 1..l : q[i] = p[i]
    BY <1>2, OnePlace
  <1> HIDE DEF l, q
  <1>4. l \in 1..l /\ \A i \in 1..l - 1 : i \in 1..l
    BY <1>1, LastPlace
  <1> QED  BY <1>1, <1>3, <1>4 DEF Listed, l, q

\* A list begins with its bracket, unless it is hidden or \synctex is 0.
LEMMA ListNests ==
    ASSUME IInv, Nesting, List PROVE Nesting'
  <1>1. /\ pc = "run" /\ IInv' /\ pc' # "done" /\ place # <<>>
        /\ UNCHANGED <<option, value, total, odd>>
    BY ListKeeps DEF List, Steady, ShippingOut
  <1>2. /\ Shape(place) /\ State \in States /\ State.out.open \in Seq(Brackets)
        /\ odd = {} => Nests(State, place, total + 1, value, option.forms)
        /\ option.forms \in BOOLEAN /\ value \in BOOLEAN /\ place \in Seq(Kinds)
        /\ State.ctxt = ctxt /\ Settled(State)
    BY <1>1, NestsNow, InRun
  <1>3. place' \in Seq(Kinds) /\ Listed(place, place')
    <2>1. CASE Within("list") /\ place' = Append(place, "list")
      <3>1. Last(place) = "list"
        BY <2>1 DEF Within
      <3> QED  BY <1>1, <1>2, <2>1, <3>1, NextList
    <2>2. CASE Within("empty page") /\ place' = Front(place) \o <<"page", "list">>
      <3>1. Last(place) = "empty page"
        BY <2>2 DEF Within
      <3> DEFINE t == <<"page", "list">>
      <3>2. t \in Seq(Kinds) /\ Len(t) = 2 /\ t[1] = "page" /\ t[2] = "list"
        BY ListBegins
      <3>3. place' = Front(place) \o t
        BY <2>2
      <3> HIDE DEF t
      <3> QED  BY <1>1, <1>2, <3>1, <3>2, <3>3, FirstList
    <2>3. CASE Within("empty form") /\ place' = Front(place) \o <<"form", "list">>
      <3>1. Last(place) = "empty form"
        BY <2>3 DEF Within
      <3> DEFINE t == <<"form", "list">>
      <3>2. t \in Seq(Kinds) /\ Len(t) = 2 /\ t[1] = "form" /\ t[2] = "list"
        BY ListBegins
      <3>3. place' = Front(place) \o t
        BY <2>3
      <3> HIDE DEF t
      <3> QED  BY <1>1, <1>2, <3>1, <3>2, <3>3, FirstList
    <2> QED  BY <2>1, <2>2, <2>3 DEF List
  <1>4. Shape(place')
    BY <1>1, <1>2, <1>3, ListedShape
  <1>5. ASSUME odd' = {}
        PROVE  \E n \in States : /\ Becomes(n)
                                 /\ Nests(n, place', total + 1, value, option.forms)
    <2>0. Nests(State, place, total + 1, value, option.forms) /\ State.out.nested
      BY <1>1, <1>2, <1>5 DEF Nests
    <2>1. CASE Ignored
      <3>1. Becomes(State)
        BY <2>1 DEF List
      <3>2. CASE ctxt.off
        BY <1>2, <2>0, <3>1, <3>2 DEF Nests
      <3>3. CASE ~ctxt.off
        <4>1. ~value \/ (~option.forms /\ ctxt.depth > 0)
          BY <1>2, <2>1, <3>3 DEF Ignored, Hidden, Settled
        <4>2. Bracketed(ctxt.depth, State.out.open, place, total + 1, value, option.forms)
          BY <1>2, <2>0, <3>3 DEF Nests
        <4>3. Bracketed(ctxt.depth, State.out.open, place', total + 1, value, option.forms)
          BY <1>1, <1>2, <1>3, <4>1, <4>2, ListHidden
        <4> QED  BY <1>2, <2>0, <3>1, <4>3 DEF Nests
      <3> QED  BY <3>2, <3>3
    <2>2. CASE ~Ignored
      <3> DEFINE s0 == [State EXCEPT !.ctxt.notVoid = TRUE]
                 s == [State EXCEPT !.ctxt.notVoid = TRUE, !.ctxt.recorder = FALSE]
      <3>1. PICK t \in 0..ctxt.tag : \E n \in Writing(s, Bracket(Tagged(s, t), <<"list">>)) : Becomes(n)
        BY <2>2 DEF List
      <3>2. /\ s \in States /\ s.out = State.out /\ s.ctxt.depth = ctxt.depth
        <4>1. /\ s0 \in States /\ s0.out = State.out /\ s0.ctxt.depth = ctxt.depth
          BY <1>2, NotVoidOpens
        <4>2. s = [s0 EXCEPT !.ctxt.recorder = FALSE]
          BY DEF State
        <4> HIDE DEF s0, s
        <4> QED  BY <4>1, <4>2, RecorderOpens
      <3> DEFINE g == Tagged(s, t)
                 w == Bracket(g, <<"list">>)
      <3>3. PICK n \in Writing(s, w) : Becomes(n)
        BY <3>1
      <3> HIDE DEF s
      <3>4. g \in States /\ g.ctxt = s.ctxt /\ g.out.open = s.out.open /\ g.out.nested = s.out.nested
        <4>1. t \in Nat
          BY <1>2 DEF States, Ctxts
        <4> QED  BY <3>2, <4>1, TaggedOpens
      <3> HIDE DEF g
      <3>5. /\ w \in States /\ w.ctxt = g.ctxt /\ w.out.nested = g.out.nested
            /\ w.out.open = Append(g.out.open, <<"list">>)
        <4>1. <<"list">> \in Brackets
          BY DEF Brackets
        <4> QED  BY <3>4, <4>1, BracketOpens
      <3> HIDE DEF w
      <3>6. Bracketed(ctxt.depth, Append(State.out.open, <<"list">>), place', total + 1, value, option.forms)
        <4>1. ~ctxt.off /\ value = TRUE /\ (option.forms \/ ~(ctxt.depth > 0))
          BY <1>2, <2>2 DEF Ignored, Hidden
        <4>2. Bracketed(ctxt.depth, State.out.open, place, total + 1, TRUE, option.forms)
          BY <1>2, <2>0, <4>1 DEF Nests
        <4>3. Bracketed(ctxt.depth, Append(State.out.open, <<"list">>), place', total + 1, TRUE, option.forms)
          BY <1>1, <1>2, <1>3, <4>1, <4>2, ListShown
        <4> QED  BY <4>1, <4>3
      <3>7. w.out.nested /\ s.out.nested /\ w.ctxt.depth = ctxt.depth
            /\ w.out.open = Append(State.out.open, <<"list">>)
        BY <2>0, <3>2, <3>4, <3>5
      <3>8. Nests(w, place', total + 1, value, option.forms)
        BY <3>6, <3>7 DEF Nests
      <3> QED  BY <3>2, <3>3, <3>5, <3>7, <3>8, WritingNests
    <2> QED  BY <2>1, <2>2
  <1> QED  BY <1>1, <1>4, <1>5, NestsNext

\* What is left at an end.
LEMMA PoppedPlace ==
    ASSUME NEW p \in Seq(Kinds), p # <<>>
    PROVE  /\ Front(p) \in Seq(Kinds) /\ Popped(p, Front(p)) /\ Last(p) = p[Len(p)]
           /\ Len(Front(p)) \in Nat
  BY FrontOf DEF Popped

\* A list ends with its bracket, if it had one.
LEMMA TsilNests ==
    ASSUME IInv, Nesting, Tsil PROVE Nesting'
  <1>1. /\ pc = "run" /\ IInv' /\ pc' # "done" /\ place # <<>> /\ place' = Front(place)
        /\ UNCHANGED <<option, value, total, odd>> /\ Last(place) = "list"
    BY TsilKeeps DEF Tsil, Steady, ShippingOut, Within
  <1>2. /\ Shape(place) /\ State \in States /\ State.out.open \in Seq(Brackets)
        /\ odd = {} => Nests(State, place, total + 1, value, option.forms)
        /\ option.forms \in BOOLEAN /\ value \in BOOLEAN /\ place \in Seq(Kinds)
        /\ State.ctxt = ctxt /\ Settled(State)
    BY <1>1, NestsNow, InRun
  <1>3. /\ place' \in Seq(Kinds) /\ Popped(place, place') /\ place[Len(place)] = "list"
        /\ Len(place') \in Nat
    BY <1>1, <1>2, PoppedPlace
  <1>4. Shape(place')
    BY <1>1, <1>2, <1>3, PoppedShape
  <1>5. ASSUME odd' = {}
        PROVE  \E n \in States : /\ Becomes(n)
                                 /\ Nests(n, place', total + 1, value, option.forms)
    <2>0. Nests(State, place, total + 1, value, option.forms) /\ State.out.nested
      BY <1>1, <1>2, <1>5 DEF Nests
    <2>1. CASE Ignored
      <3>1. Becomes(State)
        BY <2>1 DEF Tsil
      <3>2. CASE ctxt.off
        BY <1>2, <2>0, <3>1, <3>2 DEF Nests
      <3>3. CASE ~ctxt.off
        <4>1. ~value \/ (~option.forms /\ ctxt.depth > 0)
          BY <1>2, <2>1, <3>3 DEF Ignored, Hidden, Settled
        <4>2. Bracketed(ctxt.depth, State.out.open, place, total + 1, value, option.forms)
          BY <1>2, <2>0, <3>3 DEF Nests
        <4>3. Bracketed(ctxt.depth, State.out.open, place', total + 1, value, option.forms)
          BY <1>1, <1>2, <1>3, <4>1, <4>2, TsilHides
        <4> QED  BY <1>2, <2>0, <3>1, <4>3 DEF Nests
      <3> QED  BY <3>2, <3>3
    <2>2. CASE ~Ignored
      <3> DEFINE k == <<"list">>
                 so == State.out.open
      <3>1. ~ctxt.off /\ value = TRUE /\ (option.forms \/ ~(ctxt.depth > 0))
        BY <1>2, <2>2 DEF Ignored, Hidden
      <3>2. Bracketed(ctxt.depth, so, place, total + 1, TRUE, option.forms)
        BY <1>2, <2>0, <3>1 DEF Nests
      <3>3. so \in Seq(Brackets)
        BY <1>2
      <3> HIDE DEF so
      <3>4. /\ Len(so) = Len(place') + 1 /\ so[Len(place') + 1] = k
            /\ \A o \in Seq(Brackets) : Len(o) = Len(place') /\ (\A i \in 1..Len(place') : o[i] = so[i])
                      => Bracketed(ctxt.depth, o, place', total + 1, TRUE, option.forms)
        <4> DEFINE d == ctxt.depth
                   q == place'
                   m == total + 1
                   f == option.forms
                   p == place
        <4>1. /\ Bracketed(d, so, p, m, TRUE, f) /\ so \in Seq(Brackets)
              /\ q \in Seq(Kinds) /\ Popped(p, q) /\ (f \/ ~(d > 0))
          BY <1>2, <1>3, <3>1, <3>2, <3>3
        <4>2. /\ p \in Seq(Kinds) /\ p # <<>> /\ Shape(p) /\ p[Len(p)] = "list"
              /\ f \in BOOLEAN
          BY <1>1, <1>2, <1>3
        <4> HIDE DEF d, q, m, f, p
        <4>3. Len(so) = Len(q) + 1 /\ so[Len(q) + 1] = <<"list">>
          BY <4>1, <4>2, TsilShows
        <4>4. ASSUME NEW o \in Seq(Brackets), Len(o) = Len(q), \A i \in 1..Len(q) : o[i] = so[i]
              PROVE  Bracketed(d, o, q, m, TRUE, f)
          BY <4>1, <4>2, <4>4, TsilLeaves
        <4> QED  BY <4>3, <4>4 DEF d, q, m, f, p
      <3> HIDE DEF k
      <3> DEFINE s == [State EXCEPT !.ctxt.recorder = FALSE]
      <3>5. PICK n \in Writing(s, Unbracket(s, k)) : Becomes(n)
        BY <2>2 DEF Tsil, k
      <3>7. s \in States /\ s.out = State.out /\ s.ctxt.depth = ctxt.depth
        BY <1>2, RecorderOpens
      <3> HIDE DEF s
      <3>8. /\ s.out.nested /\ Len(s.out.open) = Len(place') + 1 /\ s.out.open[Len(place') + 1] = k
            /\ \A o \in Seq(Brackets) :
                  Len(o) = Len(place') /\ (\A i \in 1..Len(place') : o[i] = s.out.open[i])
                      => Bracketed(s.ctxt.depth, o, place', total + 1, TRUE, option.forms)
        BY <2>0, <3>4, <3>7 DEF so
      <3>6. n \in States /\ Nests(n, place', total + 1, TRUE, option.forms)
        BY <1>3, <3>5, <3>7, <3>8, UnbracketNests
      <3> QED  BY <3>1, <3>5, <3>6
    <2> QED  BY <2>1, <2>2
  <1> QED  BY <1>1, <1>4, <1>5, NestsNext

\* A form begins.
LEMMA NextForm ==
    ASSUME NEW p \in Seq(Kinds), p = <<>> \/ Last(p) \in {"page", "form"}, NEW e, e = "empty form"
    PROVE  Append(p, e) \in Seq(Kinds) /\ Pushed(p, Append(p, e))
  <1> DEFINE q == Append(p, e)
  <1>1. e \in Kinds
    BY DEF Kinds
  <1>2. q \in Seq(Kinds) /\ Len(q) = Len(p) + 1 /\ q[Len(p) + 1] = e /\ \A i \in 1..Len(p) : q[i] = p[i]
    BY <1>1, OnePlace
  <1>3. p = <<>> \/ p[Len(p)] \in {"page", "form"}
    <2>1. p # <<>> => Last(p) = p[Len(p)]
      BY FrontOf
    <2> QED  BY <2>1
  <1> HIDE DEF q
  <1> QED  BY <1>2, <1>3 DEF Pushed, q

\* What a form finds: the brackets of where it is, and the file.
LEMMA FormFinds ==
    ASSUME IInv, Nesting, pc = "run", ~ctxt.off, odd = {}, NEW p \in PrepareContent(State, value)
    PROVE  /\ p \in States /\ p.out.nested /\ Settled(p) /\ p.ctxt.depth = ctxt.depth
           /\ p.ctxt.file => ~p.ctxt.off
           /\ Nests(p, place, total + 1, value, option.forms)
  <1>1. /\ State \in States /\ Nests(State, place, total + 1, value, option.forms)
        /\ option.forms \in BOOLEAN /\ value \in BOOLEAN
        /\ State.ctxt = ctxt /\ Sound(State, blind) /\ (place # <<>> => Settled(State))
    BY NestsNow, InRun
  <1>2. Sound(p, blind) /\ Settled(p)
    BY <1>1, PrepareContentSound
  <1>3. p \in States /\ (p.ctxt.file => ~p.ctxt.off)
    BY <1>2 DEF Sound, Filed
  <1>4. CASE place = <<>>
    <2>1. Nests(State, <<>>, total + 1, value, option.forms)
      BY <1>1, <1>4
    <2>2. Blank(State, 0)
      BY <1>1, <2>1, NestsBlank
    <2>3. Blank(p, 0)
      BY <1>1, <2>2, PrepareContentBlank
    <2>4. Nests(p, <<>>, total + 1, value, option.forms)
      BY <1>1, <2>3, BlankNests
    <2>5. p.ctxt.depth = ctxt.depth /\ p.out.nested
      BY <1>1, <2>2, <2>3 DEF Blank
    <2> QED  BY <1>2, <1>3, <1>4, <2>4, <2>5
  <1>5. CASE place # <<>>
    <2>1. p = State
      BY <1>1, <1>5 DEF Settled, PrepareContent
    <2> QED  BY <1>1, <1>2, <1>3, <2>1 DEF Nests
  <1> QED  BY <1>4, <1>5

\* A form begins with its bracket, or is the only one and hides what is in it.
LEMMA FormNests ==
    ASSUME IInv, Nesting, Form PROVE Nesting'
  <1> DEFINE m == total + 1
  <1>1. /\ pc = "run" /\ IInv' /\ pc' # "done" /\ UNCHANGED <<option, value, total>>
        /\ odd \subseteq odd'
    BY FormKeeps DEF Form, Steady
  <1>2. /\ Shape(place) /\ State \in States /\ place \in Seq(Kinds)
        /\ odd = {} => Nests(State, place, m, value, option.forms)
        /\ option.forms \in BOOLEAN /\ value \in BOOLEAN /\ State.ctxt = ctxt
    BY <1>1, NestsNow
  <1>3. place' \in Seq(Kinds) /\ Pushed(place, place')
    <2> DEFINE e == "empty form"
    <2>1. place' = Append(place, e) /\ (place = <<>> \/ Last(place) \in {"page", "form"})
      BY DEF Form, Within
    <2>2. e = "empty form"
      OBVIOUS
    <2> HIDE DEF e
    <2> QED  BY <1>2, <2>1, <2>2, NextForm
  <1>4. Shape(place')
    BY <1>2, <1>3, FormShape
  <1>5. ASSUME odd' = {}
        PROVE  \E n \in States : Becomes(n) /\ Nests(n, place', m, value, option.forms)
    <2>0. odd = {} /\ State.out.nested
      BY <1>1, <1>2, <1>5 DEF Nests
    <2>1. CASE ctxt.off
      <3>1. Becomes(State)
        BY <2>1 DEF Form
      <3> QED  BY <1>2, <2>0, <2>1, <3>1 DEF Nests
    <2>2. CASE ~ctxt.off
      <3> DEFINE k == <<"form">>
                 After(d) == IF option.forms THEN Writing(d, Bracket(d, k)) ELSE {d}
                 d(p) == [p EXCEPT !.ctxt.depth = @ + 1]
      <3>1. PICK p \in PrepareContent(State, value) :
              \/ ~p.ctxt.file /\ Becomes(p)
              \/ p.ctxt.file /\ ~(Hidden \/ ~value) /\ \E n \in After(d(p)) : Becomes(n)
        BY <1>5, <2>2 DEF Form
      <3>2. /\ p \in States /\ p.out.nested /\ Settled(p) /\ p.ctxt.depth = ctxt.depth
            /\ p.ctxt.file => ~p.ctxt.off
            /\ Nests(p, place, m, value, option.forms)
        BY <1>1, <2>0, <2>2, FormFinds
      <3>3. CASE ~p.ctxt.file
        BY <3>1, <3>2, <3>3 DEF Nests, Settled
      <3>4. CASE p.ctxt.file
        <4> DEFINE s == d(p)
                   i == p.ctxt.depth + 1
                   o == p.out.open
        <4>1. s \in States /\ s.out = p.out /\ s.ctxt.depth = i /\ s.ctxt.off = p.ctxt.off
          <5>1. i \in Int
            BY <3>2 DEF States, Ctxts
          <5>2. s = [p EXCEPT !.ctxt.depth = i]
            OBVIOUS
          <5> HIDE DEF i, s
          <5> QED  BY <3>2, <5>1, <5>2, DepthOpens
        <4>2. PICK n \in After(s) : Becomes(n)
          BY <3>1, <3>4
        <4>3. value = TRUE /\ (option.forms \/ ~(p.ctxt.depth > 0))
          BY <1>2, <3>1, <3>2, <3>4 DEF Hidden
        <4>4. Bracketed(p.ctxt.depth, o, place, m, TRUE, option.forms) /\ o \in Seq(Brackets)
          BY <3>2, <3>4, <4>3 DEF Nests, States, Outs
        <4> HIDE DEF s, m, o
        <4>5. CASE option.forms = TRUE
          <5> DEFINE w == Bracket(s, k)
          <5>1. /\ w \in States /\ w.ctxt = s.ctxt /\ w.out.nested = s.out.nested
                /\ w.out.open = Append(s.out.open, k)
            <6>1. k \in Brackets
              BY DEF Brackets
            <6> QED  BY <4>1, <6>1, BracketOpens
          <5>2. Bracketed(p.ctxt.depth, o, place, m, TRUE, TRUE)
            BY <4>4, <4>5
          <5>3. Bracketed(p.ctxt.depth + 1, Append(o, k), place', m, TRUE, TRUE)
            BY <1>2, <1>3, <4>4, <5>2, FormShown
          <5>4. n \in Writing(s, w)
            BY <4>2, <4>5
          <5> HIDE DEF w, k
          <5>5. Nests(w, place', m, TRUE, TRUE)
            BY <3>2, <4>1, <5>1, <5>3 DEF Nests, o
          <5>6. s.out.nested
            BY <3>2, <4>1
          <5>7. n \in States /\ Nests(n, place', m, TRUE, TRUE)
            BY <4>1, <5>1, <5>4, <5>5, <5>6, WritingNests
          <5> QED  BY <4>2, <4>3, <4>5, <5>7
        <4>6. CASE option.forms = FALSE
          <5>1. Bracketed(p.ctxt.depth, o, place, m, TRUE, FALSE) /\ ~(p.ctxt.depth > 0)
            BY <4>3, <4>4, <4>6
          <5>2. Bracketed(p.ctxt.depth + 1, o, place', m, TRUE, FALSE)
            BY <1>2, <1>3, <5>1, FormHides
          <5>3. n = s
            BY <4>2, <4>6
          <5>4. Nests(s, place', m, TRUE, FALSE)
            BY <3>2, <4>1, <5>2 DEF Nests, o
          <5> QED  BY <4>1, <4>2, <4>3, <4>6, <5>3, <5>4
        <4> QED  BY <1>2, <4>5, <4>6
      <3> QED  BY <3>3, <3>4
    <2> QED  BY <2>1, <2>2
  <1> QED  BY <1>1, <1>4, <1>5, NestsNext

\* A form ends with its bracket, if it had one.
LEMMA MrofNests ==
    ASSUME IInv, Nesting, Mrof PROVE Nesting'
  <1> DEFINE m == total + 1
  <1>1. /\ pc = "run" /\ IInv' /\ pc' # "done" /\ place # <<>> /\ place' = Front(place)
        /\ UNCHANGED <<option, value, total, odd>> /\ Last(place) \in Formed
    BY MrofKeeps DEF Mrof, Steady, ShippingOut, Within, Formed
  <1>2. /\ Shape(place) /\ State \in States /\ State.out.open \in Seq(Brackets)
        /\ odd = {} => Nests(State, place, m, value, option.forms)
        /\ option.forms \in BOOLEAN /\ value \in BOOLEAN /\ place \in Seq(Kinds)
        /\ State.ctxt = ctxt /\ Settled(State) /\ (ctxt.file => ~ctxt.off)
    <2>1. Sound(State, blind) /\ State.ctxt = ctxt /\ Settled(State)
      BY <1>1, InRun
    <2>2. ctxt.file => ~ctxt.off
      BY <2>1 DEF Sound, Filed
    <2> QED  BY <1>1, <2>1, <2>2, NestsNow
  <1>3. /\ place' \in Seq(Kinds) /\ Popped(place, place') /\ place[Len(place)] \in Formed
        /\ Len(place') \in Nat
    BY <1>1, <1>2, PoppedPlace
  <1>4. Shape(place')
    BY <1>1, <1>2, <1>3, PoppedShape
  <1>5. ASSUME odd' = {}
        PROVE  \E n \in States : Becomes(n) /\ Nests(n, place', m, value, option.forms)
    <2>0. Nests(State, place, m, value, option.forms) /\ State.out.nested
      BY <1>1, <1>2, <1>5 DEF Nests
    <2>1. CASE ~ctxt.file
      <3>1. Becomes(State)
        BY <2>1 DEF Mrof
      <3> QED  BY <1>2, <2>0, <2>1, <3>1 DEF Nests, Settled
    <2>2. CASE ctxt.file
      <3> DEFINE s == [State EXCEPT !.ctxt.depth = @ - 1]
                 i == State.ctxt.depth - 1
                 o == State.out.open
                 k == <<"form">>
      <3>1. s \in States /\ s.out = State.out /\ s.ctxt.depth = i /\ s.ctxt.off = ctxt.off
        <4>1. i \in Int
          BY <1>2 DEF States, Ctxts
        <4>2. s = [State EXCEPT !.ctxt.depth = i]
          OBVIOUS
        <4> HIDE DEF i, s
        <4> QED  BY <1>2, <4>1, <4>2, DepthOpens
      <3>2. PICK n \in Writing(State, IF option.forms THEN Unbracket(s, k) ELSE s) : Becomes(n)
        BY <2>2 DEF Mrof
      <3>3. Bracketed(State.ctxt.depth, o, place, m, value, option.forms)
        BY <1>2, <2>0, <2>2 DEF Nests
      <3> HIDE DEF s, m
      <3>4. CASE option.forms = TRUE
        <4>1. Bracketed(State.ctxt.depth, o, place, m, value, TRUE)
          BY <3>3, <3>4
        <4>2. Len(o) = Len(place') + 1 /\ o[Len(place') + 1] = k
          <5> DEFINE d == State.ctxt.depth
                     q == place'
                     p == place
          <5>1. /\ p \in Seq(Kinds) /\ p # <<>> /\ Shape(p) /\ q \in Seq(Kinds) /\ Popped(p, q)
                /\ p[Len(p)] \in Formed /\ o \in Seq(Brackets) /\ value \in BOOLEAN
                /\ Bracketed(d, o, p, m, value, TRUE)
            BY <1>1, <1>2, <1>3, <4>1
          <5> HIDE DEF d, q, p, o
          <5>2. Len(o) = Len(q) + 1
            BY <5>1, MrofShows
          <5>3. o[Len(q) + 1] = <<"form">>
            BY <5>1, MrofShows
          <5> QED  BY <5>2, <5>3 DEF q
        <4>3. ASSUME NEW r \in Seq(Brackets), Len(r) = Len(place'), \A j \in 1..Len(place') : r[j] = o[j]
              PROVE  Bracketed(i, r, place', m, value, TRUE)
          BY <1>1, <1>2, <1>3, <4>1, <4>3, MrofLeaves
        <4> HIDE DEF k, o, i
        <4>4. n \in Writing(State, Unbracket(s, k))
          BY <3>2, <3>4
        <4>5. /\ s.out.nested /\ Len(s.out.open) = Len(place') + 1 /\ s.out.open[Len(place') + 1] = k
              /\ \A r \in Seq(Brackets) :
                    Len(r) = Len(place') /\ (\A j \in 1..Len(place') : r[j] = s.out.open[j])
                    => Bracketed(s.ctxt.depth, r, place', m, value, TRUE)
          BY <2>0, <3>1, <4>2, <4>3 DEF o
        <4>6. n \in States /\ Nests(n, place', m, value, TRUE)
          BY <1>2, <1>3, <2>0, <3>1, <4>4, <4>5, UnbracketNests
        <4> QED  BY <3>2, <3>4, <4>6
      <3>5. CASE option.forms = FALSE
        <4>1. Bracketed(State.ctxt.depth, o, place, m, value, FALSE)
          BY <3>3, <3>5
        <4>2. Bracketed(i, o, place', m, value, FALSE)
          BY <1>1, <1>2, <1>3, <4>1, MrofHides
        <4>3. n \in Writing(State, s)
          BY <3>2, <3>5
        <4>4. Nests(s, place', m, value, FALSE)
          BY <2>0, <3>1, <4>2 DEF Nests
        <4>5. n \in States /\ Nests(n, place', m, value, FALSE)
          BY <1>2, <2>0, <3>1, <4>3, <4>4, WritingNests
        <4> QED  BY <3>2, <3>5, <4>5
      <3> QED  BY <1>2, <3>4, <3>5
    <2> QED  BY <2>1, <2>2
  <1> QED  BY <1>1, <1>4, <1>5, NestsNext

\* The end of the working file writes no bracket, and only an open file gets a
\* final name.
LEMMA CloseOpen ==
    ASSUME NEW r \in States, r.disk.plain # "new", r.disk.gz # "new", NEW x \in Close(r)
    PROVE  /\ x \in States /\ x.out.open = r.out.open /\ x.out.nested = r.out.nested
           /\ "new" \in {x.disk.plain, x.disk.gz} => r.ctxt.file
  <1> DEFINE c == Rid(Closed(r), {"busy"})
  <1>1. /\ c \in States /\ c.out = r.out
        /\ c.disk.plain = r.disk.plain /\ c.disk.gz = r.disk.gz
    BY ClosedFields, RidFields
  <1> HIDE DEF c
  <1>2. CASE x = r
    BY <1>2
  <1>3. CASE x = c
    BY <1>1, <1>3
  <1>4. CASE x \in Aborts(r)
    BY <1>4, AbortsFields
  <1>5. CASE r.ctxt.file /\ x \in {Renamed(r, "yes"), Renamed(r, "short")}
    BY <1>5, RenamedFields
  <1>6. CASE x = [Abort(r) EXCEPT !.pc = "null close"]
    <2> DEFINE a == Abort(r)
    <2>1. /\ a \in States /\ a.out = r.out
          /\ a.disk.plain = r.disk.plain /\ a.disk.gz = r.disk.gz
      BY AbortFields
    <2>2. x = [a EXCEPT !.pc = "null close"]
      BY <1>6
    <2> HIDE DEF a
    <2> QED  BY <2>1, <2>2 DEF States, Ends
  <1> QED  BY <1>2, <1>3, <1>4, <1>5, <1>6 DEF Close, Postambled, Aborts, c

\* Nor does the rest of the end of the run.
LEMMA FinishOpen ==
    ASSUME NEW s \in States, s.disk.plain # "new", s.disk.gz # "new",
           NEW f \in Finish(s) \cup FinishUnlogged(s)
    PROVE  /\ f \in States /\ f.out.open = s.out.open /\ f.out.nested = s.out.nested
           /\ "new" \in {f.disk.plain, f.disk.gz} => s.ctxt.file
  <1>1. CASE f \in Finish(s)
    <2> DEFINE F == {Final} \cup (IF option.gz THEN {"plain"} ELSE {})
               r == Rid(s, F)
    <2>1. PICK x \in Close(r) : f = IF Plainly /\ x.pc = "run" THEN Rid(x, {"gz"}) ELSE x
      BY <1>1 DEF Finish
    <2> HIDE DEF F
    <2>2. /\ r \in States /\ r.out = s.out /\ r.ctxt = s.ctxt
          /\ r.disk.plain # "new" /\ r.disk.gz # "new"
      BY RidFields
    <2> HIDE DEF r
    <2>3. /\ x \in States /\ x.out.open = s.out.open /\ x.out.nested = s.out.nested
          /\ "new" \in {x.disk.plain, x.disk.gz} => s.ctxt.file
      BY <2>1, <2>2, CloseOpen
    <2>4. CASE f = x
      BY <2>3, <2>4
    <2>5. CASE f = Rid(x, {"gz"})
      BY <2>3, <2>5, RidFields
    <2> QED  BY <2>1, <2>4, <2>5
  <1>2. CASE f \in FinishUnlogged(s)
    <2> DEFINE r == IF outdir THEN s ELSE Rid(s, {"plain", "gz"})
    <2>1. f \in {IF s.ctxt.file THEN Rid(Closed(r), {"busy"}) ELSE r} \cup Unclosed(r)
      BY <1>2 DEF FinishUnlogged
    <2>2. /\ r \in States /\ r.out = s.out
          /\ r.disk.plain # "new" /\ r.disk.gz # "new"
      BY RidFields
    <2> HIDE DEF r
    <2>3. CASE f = Rid(Closed(r), {"busy"})
      BY <2>2, <2>3, ClosedFields, RidFields
    <2>4. CASE f = r
      BY <2>2, <2>4
    <2>5. CASE f \in Unclosed(r)
      <3>1. f \in Aborts(r)
        BY <2>5 DEF Aborts
      <3> QED  BY <2>2, <3>1, AbortsFields
    <2> QED  BY <2>1, <2>3, <2>4, <2>5
  <1> QED  BY <1>1, <1>2

\* The run ends in the file with nothing open, unless it was cut short.
LEMMA TerminateNests ==
    ASSUME IInv, Nesting, Terminate PROVE Nesting'
  <1>1. /\ pc = "run" /\ pc' # "run" /\ place' = place /\ odd \subseteq odd'
        /\ odd' = {} => place = <<>>
    BY TerminateKeeps DEF Terminate
  <1>2. /\ Shape(place) /\ State \in States /\ Sound(State, blind)
        /\ odd = {} => Nests(State, place, total + 1, value, option.forms)
        /\ option.forms \in BOOLEAN /\ value \in BOOLEAN
    BY <1>1, NestsNow
  <1>3. SUFFICES ASSUME odd' = {}
                 PROVE  out'.nested /\ ("new" \in {disk'.plain, disk'.gz} => out'.open = <<>>)
    <2>1. Shape(place')
      BY <1>1, <1>2
    <2>2. Shape(place)'
      BY <2>1 DEF Shape
    <2> QED  BY <1>1, <2>2 DEF Nesting
  <1>4. Nests(State, <<>>, total + 1, value, option.forms)
    BY <1>1, <1>2, <1>3
  <1> DEFINE Left(f) == [Abort([f EXCEPT !.ctxt.busyName = FALSE])
                         EXCEPT !.pc = IF f.pc = "run" THEN "done" ELSE f.pc]
  <1>5. PICK s \in {State} \cup Aborts(State) : \E f \in {s} \cup Finish(s) \cup FinishUnlogged(s) :
          Becomes(Left(f))
    BY DEF Terminate
  <1>6. /\ s \in States /\ s.out = State.out /\ s.disk.plain # "new" /\ s.disk.gz # "new"
        /\ s.ctxt.file => s = State /\ ~State.ctxt.off
    <2>1. State.disk.plain # "new" /\ State.disk.gz # "new" /\ (State.ctxt.file => ~State.ctxt.off)
      BY <1>2 DEF Sound, Filed
    <2>2. CASE s = State
      BY <1>2, <2>1, <2>2
    <2>3. CASE s \in Aborts(State)
      BY <1>2, <2>1, <2>3, AbortsFields
    <2> QED  BY <1>5, <2>2, <2>3
  <1>7. PICK f \in {s} \cup Finish(s) \cup FinishUnlogged(s) : Becomes(Left(f))
    BY <1>5
  <1>8. /\ f \in States /\ f.out.open = State.out.open /\ f.out.nested = State.out.nested
        /\ "new" \in {f.disk.plain, f.disk.gz} => s.ctxt.file
    BY <1>6, <1>7, FinishOpen
  <1> DEFINE g == [f EXCEPT !.ctxt.busyName = FALSE]
             a == Abort(g)
             e == IF f.pc = "run" THEN "done" ELSE f.pc
             n == [a EXCEPT !.pc = e]
  <1>9. g \in States /\ g.out = f.out /\ g.disk = f.disk
    BY <1>8 DEF States, Ctxts
  <1>10. Becomes(n)
    BY <1>7
  <1> HIDE DEF g
  <1>14. /\ a \in States /\ a.out = f.out
         /\ a.disk.plain = f.disk.plain /\ a.disk.gz = f.disk.gz
    BY <1>9, AbortFields
  <1> HIDE DEF a, e
  <1>15. n.out = a.out /\ n.disk = a.disk
    BY <1>14 DEF States
  <1> HIDE DEF n
  <1>11. /\ out' = f.out /\ disk'.plain = f.disk.plain /\ disk'.gz = f.disk.gz
    BY <1>10, <1>14, <1>15 DEF Becomes
  <1>12. out'.nested
    BY <1>4, <1>8, <1>11 DEF Nests
  <1>13. ASSUME "new" \in {disk'.plain, disk'.gz} PROVE out'.open = <<>>
    <2>1. ~State.ctxt.off
      BY <1>6, <1>8, <1>11, <1>13
    <2>2. State.out.open = <<>>
      BY <1>2, <1>4, <2>1, NestsBlank DEF Blank
    <2> QED  BY <1>8, <1>11, <2>2
  <1> QED  BY <1>12, <1>13

\* At the beginning nothing is open.
LEMMA InitNests == Init => Nesting
  <1> SUFFICES ASSUME Init PROVE Nesting
    OBVIOUS
  <1>1. /\ place = <<>> /\ pc = "run" /\ ctxt.depth = 0 /\ out.open = <<>> /\ out.nested
        /\ option \in Options /\ value \in BOOLEAN
    BY DEF Init, Unwritten
  <1>2. option.forms \in BOOLEAN
    BY <1>1, SyncTeXAssumption
  <1>3. Shape(place)
    BY <1>1 DEF Shape, Forms
  <1> DEFINE o == out.open
             d == ctxt.depth
             f == option.forms
             v == value
  <1>4. o \in Seq(Brackets) /\ o = <<>> /\ d = 0 /\ v \in BOOLEAN /\ f \in BOOLEAN
    BY <1>1, <1>2
  <1> HIDE DEF o, d, v, f
  <1>5. Bracketed(d, o, <<>>, total + 1, v, f)
    BY <1>4, NothingOpen
  <1> QED  BY <1>1, <1>3, <1>5 DEF Nesting, o, d, v, f

\* Each step keeps the brackets those of the place.
LEMMA StepNests == IInv /\ Nesting /\ [Next]_vars => Nesting'
  <1> SUFFICES ASSUME IInv, Nesting, [Next]_vars PROVE Nesting'
    OBVIOUS
  <1>1. CASE UNCHANGED vars
    BY <1>1 DEF vars, Nesting, Shape, Bracketed, Shown, Forms, Mark
  <1>2. CASE StartInput  BY <1>2, StartInputNests
  <1>3. CASE SetSynctex  BY <1>3, SetSynctexNests
  <1>4. CASE Sheet       BY <1>4, SheetNests
  <1>5. CASE Teehs       BY <1>5, TeehsNests
  <1>6. CASE List        BY <1>6, ListNests
  <1>7. CASE Tsil        BY <1>7, TsilNests
  <1>8. CASE Node        BY <1>8, NodeNests
  <1>12. CASE Defer      BY <1>12, DeferNests
  <1>9. CASE Form        BY <1>9, FormNests
  <1>10. CASE Mrof       BY <1>10, MrofNests
  <1>11. CASE Terminate  BY <1>11, TerminateNests
  <1> QED
    BY <1>1, <1>2, <1>3, <1>4, <1>5, <1>6, <1>7, <1>8, <1>9, <1>10, <1>11, <1>12 DEF Next

\* The brackets in the file are those of the page, forms and lists TeX is in,
\* and a file that gets its final name has none open: sheets, forms and lists
\* nest, however pages, forms and changes of \synctex follow each other.
THEOREM BracketsNest == Spec => []WellNested
  <1>1. IInv /\ Nesting => WellNested
    <2> SUFFICES ASSUME IInv, Nesting, odd = {}
                 PROVE  /\ out.nested
                        /\ "new" \in {disk.plain, disk.gz} => out.open = <<>>
                        /\ ~ctxt.off => ctxt.depth = Cardinality(Forms(place))
      BY DEF WellNested, Forms, Formed
    <2>1. CASE pc = "run"
      <3>1. Filed(State) /\ State.disk = disk
        BY <2>1, InRun DEF Sound
      <3> QED  BY <2>1, <3>1 DEF Filed, Nesting, Bracketed
    <2>2. CASE pc # "run"
      BY <2>2 DEF IInv, Ended, Nesting
    <2> QED  BY <2>1, <2>2
  <1>2. Spec => []Nesting
    BY Invariant, InitNests, StepNests, PTL DEF Spec
  <1> QED  BY <1>1, <1>2, Invariant, PTL
=============================================================================
