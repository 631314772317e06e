---------------------------- MODULE ScriptsProofs ----------------------------
(***************************************************************************)
(* Proofs about the scripts that make fonts and the program that runs one. *)
(*                                                                         *)
(* About maketex() (MakeTex): the script is wired right, the program keeps *)
(* its descriptors, and the script is heard out, for any number of         *)
(* descriptors, any pipe and whatever the script prints.                   *)
(*                                                                         *)
(* About the tree the scripts share (LsR), for any number of mktexlsr,     *)
(* makers and fonts: fonts appear whole, names are printed and listed only *)
(* once their font is there, nobody else's ls-R is touched, and neither an *)
(* ls-R nor a name in it gets lost but where a mktexlsr is at work. The    *)
(* argument: a maker installs only what it has staged in full, a font once *)
(* installed stays, and every list of names (a printed name, a scan, the   *)
(* ls-R itself) is made of names whose fonts were there.                   *)
(***************************************************************************)
EXTENDS MakeTex, LsR, FiniteSetTheorems, SequenceTheorems, WellFoundedInduction, TLAPS

-----------------------------------------------------------------------------
(* The lowest of a set of descriptors *)

Less == {p \in Nat \X Nat : p[1] < p[2]}

\* A set of natural numbers that is not empty has a least element.
LEMMA Least ==
    ASSUME NEW T \in SUBSET Nat, T # {}
    PROVE  \E x \in T : \A y \in T : x <= y
  <1>1. IsWellFoundedOn(OpToRel(<, Nat), Nat)
    BY NatLessThanWellFounded
  <1>2. Less \cap (Nat \X Nat) \subseteq OpToRel(<, Nat)
    BY DEF Less, OpToRel
  <1>3. IsWellFoundedOn(Less, Nat)
    BY <1>1, <1>2, IsWellFoundedOnSubrelation
  <1>4. PICK x \in T : \A y \in T : ~ (<<y, x>> \in Less)
    BY <1>3, WFMin
  <1>5. ASSUME NEW y \in T PROVE x <= y
    <2>1. x \in Nat /\ y \in Nat /\ ~ (<<y, x>> \in Less)
      BY <1>4
    <2> QED  BY <2>1 DEF Less
  <1> QED  BY <1>5

\* The descriptor that open() or dup() takes.
LEMMA LowestFree ==
    ASSUME NEW t \in Table, Free(t) # {}
    PROVE  /\ Lowest(t) \in Fds /\ t[Lowest(t)] = Closed
           /\ \A g \in Fds : t[g] = Closed => Lowest(t) <= g
  <1>1. Free(t) \in SUBSET Nat
    BY MakeTexAssumption DEF Free, Fds
  <1>2. \E f \in Free(t) : \A g \in Free(t) : f <= g
    BY <1>1, Least
  <1>3. Lowest(t) \in Free(t) /\ \A g \in Free(t) : Lowest(t) <= g
    BY <1>2 DEF Lowest
  <1> QED  BY <1>3 DEF Free

\* What is left when one has been taken.
LEMMA FreeLeft ==
    ASSUME NEW t \in Table, Cardinality(Free(t)) >= 2, NEW o \in Objects, o # Closed
    PROVE  /\ Free(t) # {} /\ Open(t, o) \in Table /\ Free(Open(t, o)) # {}
  <1>1. IsFiniteSet(Free(t))
    <2>1. IsFiniteSet(Fds) /\ Free(t) \subseteq Fds
      BY FS_Interval, MakeTexAssumption DEF Fds, Free
    <2> QED  BY <2>1, FS_Subset
  <1>2. Free(t) # {}
    BY FS_EmptySet
  <1>3. Lowest(t) \in Free(t) /\ Lowest(t) \in Fds
    BY <1>2, LowestFree DEF Free
  <1>4. Cardinality(Free(t) \ {Lowest(t)}) = Cardinality(Free(t)) - 1
        /\ Cardinality(Free(t)) \in Nat
    BY <1>1, <1>3, FS_RemoveElement, FS_CardinalityType
  <1>5. Free(t) \ {Lowest(t)} # {}
    BY <1>4, FS_EmptySet
  <1>6. Open(t, o) \in Table
    BY <1>3 DEF Open, Table
  <1>7. Free(t) \ {Lowest(t)} \subseteq Free(Open(t, o))
    BY <1>3 DEF Free, Open, Table
  <1> QED  BY <1>2, <1>5, <1>6, <1>7

-----------------------------------------------------------------------------
(* The inductive invariant *)

Pieces == UNION {ToSet(p) : p \in Plans}
Given  == [Fds -> {Closed, "given"}]
Drained  == [f \in Fds |-> Closed]

\* The descriptors that open() and pipe() have given so far: they were closed,
\* and each is the lowest of those that were left.
TookIn ==
    /\ before[local.in] = Closed
    /\ \A f \in Fds : before[f] = Closed => local.in <= f
TookPipe ==
    /\ TookIn /\ before[local.r] = Closed /\ before[local.w] = Closed
    /\ local.in < local.r /\ local.r < local.w
    /\ \A f \in Fds : before[f] = Closed => f \in {local.in, local.r} \/ local.w <= f
TookAll == TookPipe /\ before[local.err] = Closed /\ local.w < local.err

\* The program's descriptors after each call.
WithIn   == [before EXCEPT ![local.in] = "null"]
WithPipe == [WithIn EXCEPT ![local.r] = "reader", ![local.w] = "writer"]
WithAll  == [WithPipe EXCEPT ![local.err] = "nullout"]
Reading  == [before EXCEPT ![local.r] = "reader"]

Parent ==
    /\ pc = "childin" => pfd = before
    /\ pc = "childout" => TookIn /\ pfd = WithIn
    /\ pc = "childerr" => TookPipe /\ pfd = WithPipe
    /\ pc = "fork" => TookAll /\ pfd = WithAll
    /\ pc = "read" => pfd = Reading
    /\ pc \in {"wait", "result", "misstex", "done", "crashed"} => pfd = before

\* The child's descriptors after each of its steps.
AfterStdin  == [f \in Fds |-> IF f = 0 THEN "null" ELSE IF f = local.w THEN "writer"
                              ELSE IF f = local.err THEN "nullout" ELSE before[f]]
AfterStdout == [f \in Fds |-> IF f = 0 THEN "null" ELSE IF f = 1 THEN "writer"
                              ELSE IF f = local.err THEN "nullout" ELSE before[f]]
Wired       == [f \in Fds |-> IF f = 0 THEN "null" ELSE IF f = 1 THEN "writer"
                              ELSE IF f = 2 /\ discard THEN "nullout" ELSE before[f]]

Heir ==
    /\ cpc # "none" => TookAll
    /\ cpc \in {"none", "zombie", "reaped"} => cfd = Drained
    /\ cpc = "stdin" => cfd = WithAll
    /\ cpc = "stdout" => cfd = AfterStdin
    /\ cpc = "stderr" => cfd = AfterStdout
    /\ cpc \in {"exec", "script"} => cfd = Wired
    /\ cpc = "quiet" => cfd = Close(Wired, {1})

\* Where the two are.
Paired ==
    /\ pc \in {"read", "wait", "result"} => cpc # "none"
    /\ pc \in {"childin", "childout", "childerr", "fork"} => cpc = "none"
    /\ pc \in {"result", "misstex", "done", "crashed"} => cpc \in {"none", "reaped"} \/ other = "reaped"

\* What the script has said is in the pipe or has been read, as long as it is
\* being read; no script ends half-way but for want of a reader.
Heard ==
    /\ cpc \in {"none", "stdin", "stdout", "stderr", "exec"} => said = 0
    /\ cpc = "quiet" => said = Len(plan)
    /\ cpc = "none" => fn = <<>> /\ pipe = <<>>
    /\ pc = "read" => /\ fn \o pipe = SubSeq(plan, 1, said)
                      /\ cpc \in {"zombie", "reaped"} => said \in {0, Len(plan)}
    /\ pc \in {"wait", "result", "misstex", "done"} /\ ~broken => fn \in {<<>>, plan}

Types == TypeOK /\ before \in Given /\ plan \in Seq(Pieces) /\ pipe \in Seq(Pieces)
         /\ fn \in Seq(Pieces)

IInv == Types /\ Parent /\ Heir /\ Paired /\ Heard

\* The numbers of descriptors.
LEMMA FdsNat ==
    Fds \subseteq Nat /\ 0 \in Fds /\ 1 \in Fds /\ 2 \in Fds
  BY MakeTexAssumption DEF Fds

-----------------------------------------------------------------------------
(* What is not touched stays *)

\* The program's descriptors.
LEMMA ParentKept ==
    ASSUME Parent, UNCHANGED <<pc, pfd, local, before>> PROVE Parent'
  BY DEF Parent, TookIn, TookPipe, TookAll, WithIn, WithPipe, WithAll, Reading

\* The child's.
LEMMA HeirKept ==
    ASSUME Heir, UNCHANGED <<cpc, cfd, local, before, discard>> PROVE Heir'
  BY DEF Heir, TookIn, TookPipe, TookAll, WithIn, WithPipe, WithAll,
         AfterStdin, AfterStdout, Wired, Close, Drained

\* Before the fork there is no child.
LEMMA NoHeir ==
    ASSUME Heir, cpc = "none", UNCHANGED <<cpc, cfd>> PROVE Heir'
  BY DEF Heir, Drained

\* What has been said.
LEMMA HeardKept ==
    ASSUME Heard, UNCHANGED <<cpc, said, plan, pc, pipe, fn, broken>> PROVE Heard'
  BY DEF Heard

\* Before the fork nothing has.
LEMMA NothingSaid ==
    ASSUME Heard, cpc = "none", UNCHANGED <<cpc, said, plan, pipe, fn, broken>>, pc' # "read"
    PROVE  Heard'
  BY DEF Heard

-----------------------------------------------------------------------------
(* The program up to the fork *)

\* Everything that was opened is closed again.
LEMMA AllClosed ==
    ASSUME Types, NEW fds,
           \A f \in Fds : f \notin fds => pfd[f] = before[f],
           \A f \in fds : before[f] = Closed
    PROVE  Close(pfd, fds) = before
  <1>1. pfd \in [Fds -> Objects] /\ before \in [Fds -> {Closed, "given"}]
    BY DEF Types, TypeOK, Given, Table
  <1>2. \A f \in Fds : Close(pfd, fds)[f] = before[f]
    BY <1>1 DEF Close
  <1>3. Close(pfd, fds) = [f \in Fds |-> Close(pfd, fds)[f]]
    BY DEF Close
  <1>4. before = [f \in Fds |-> before[f]]
    BY <1>1
  <1> QED  BY <1>2, <1>3, <1>4

\* At the end of such a step the invariant holds of the child, who is not there
\* yet, and of what it said.
LEMMA BeforeFork ==
    ASSUME IInv, cpc = "none", UNCHANGED <<input, said, pipe, fn, broken, other, ret, log, cpc, cfd>>,
           pc' \in {"childout", "childerr", "fork", "misstex"},
           Parent', pfd' \in Table, local' \in [in : Fds, r : Fds, w : Fds, err : Fds]
    PROVE  IInv'
  <1>1. Types'
    BY DEF IInv, Types, TypeOK, input
  <1>2. Heir' /\ Heard'
    BY NoHeir, NothingSaid DEF IInv, input
  <1>3. Paired'
    BY DEF IInv, Paired
  <1> QED  BY <1>1, <1>2, <1>3 DEF IInv

\* A failure.
LEMMA FailsKeeps ==
    ASSUME IInv, cpc = "none", NEW fds, Fails(fds),
           \A f \in Fds : f \notin fds => pfd[f] = before[f],
           \A f \in fds : before[f] = Closed,
           UNCHANGED <<input, said, pipe, fn, broken, other, ret, log>>
    PROVE  IInv'
  <1>1. Close(pfd, fds) = before
    BY AllClosed DEF IInv
  <1>2. pfd' = before /\ pc' = "misstex" /\ UNCHANGED <<before, local, cpc, cfd>>
    BY <1>1 DEF Fails, input
  <1>3. before \in Table /\ local \in [in : Fds, r : Fds, w : Fds, err : Fds]
    BY DEF IInv, Types, TypeOK
  <1>4. Parent'
    BY <1>2 DEF Parent
  <1> QED  BY <1>2, <1>3, <1>4, BeforeFork

\* The program is called with no child for maketex().
LEMMA InitIInv == Init => IInv
  <1> SUFFICES ASSUME Init PROVE IInv
    OBVIOUS
  <1>1. pfd \in Table /\ before \in Given /\ before \in Table /\ cfd \in Table
    BY DEF Init, Table, Objects, Given, Closed
  <1>2. plan \in Seq(Pieces) /\ Len(plan) \in Nat
    BY MakeTexAssumption, LenProperties DEF Init, Pieces
  <1>3. Types
    <2>1. local \in [in : Fds, r : Fds, w : Fds, err : Fds]
      BY FdsNat DEF Init
    <2>2. said \in 0..Len(plan) /\ Len(pipe) <= PipeSize /\ Len(fn) <= Len(plan)
      BY <1>2, MakeTexAssumption DEF Init
    <2>3. pipe \in Seq(Pieces) /\ fn \in Seq(Pieces)
      BY EmptySeq DEF Init
    <2> QED  BY <1>1, <1>2, <2>1, <2>2, <2>3 DEF Types, TypeOK, Init
  <1>4. Parent /\ Heir /\ Paired /\ Heard
    BY DEF Init, Parent, Heir, Drained, Paired, Heard
  <1> QED  BY <1>3, <1>4 DEF IInv

\* open("/dev/null") for the child's standard input.
LEMMA OpenInKeeps ==
    ASSUME IInv, OpenIn PROVE IInv'
  <1>1. cpc = "none" /\ pfd = before /\ pfd \in Table
    BY DEF OpenIn, IInv, Paired, Parent, Types, TypeOK
  <1>2. UNCHANGED <<input, said, pipe, fn, broken, other, ret, log>>
    BY DEF OpenIn
  <1>3. CASE Fails({})
    BY <1>1, <1>2, <1>3, FailsKeeps
  <1>4. CASE /\ Free(pfd) # {} /\ pc' = "childout"
             /\ local' = [local EXCEPT !.in = Lowest(pfd)]
             /\ pfd' = Open(pfd, "null")
             /\ UNCHANGED <<cpc, cfd>>
    <2>1. /\ Lowest(pfd) \in Fds /\ pfd[Lowest(pfd)] = Closed
          /\ \A g \in Fds : pfd[g] = Closed => Lowest(pfd) <= g
      BY <1>1, <1>4, LowestFree
    <2>2. local' \in [in : Fds, r : Fds, w : Fds, err : Fds] /\ local'.in = Lowest(pfd)
      BY <1>4, <2>1 DEF IInv, Types, TypeOK
    <2>3. before' = before
      BY <1>2 DEF input
    <2>4. TookIn' /\ pfd' = WithIn'
      BY <1>1, <1>4, <2>1, <2>2, <2>3 DEF TookIn, WithIn, Open
    <2>5. pfd' \in Table
      BY <1>1, <1>4, <2>1 DEF Open, Table, Objects
    <2>6. Parent'
      BY <1>4, <2>4 DEF Parent
    <2> QED  BY <1>1, <1>2, <1>4, <2>2, <2>5, <2>6, BeforeFork
  <1> QED  BY <1>3, <1>4 DEF OpenIn

\* The descriptors that were opened stand for what they are.
LEMMA WithTables ==
    ASSUME Types
    PROVE  WithIn \in Table /\ WithPipe \in Table /\ WithAll \in Table /\ Reading \in Table
  BY DEF Types, TypeOK, WithIn, WithPipe, WithAll, Reading, Table, Objects

\* The pipe.
LEMMA PipeKeeps ==
    ASSUME IInv, Pipe PROVE IInv'
  <1>1. cpc = "none" /\ TookIn /\ pfd = WithIn /\ pfd \in Table
    BY DEF Pipe, IInv, Paired, Parent, Types, TypeOK
  <1>2. UNCHANGED <<input, said, pipe, fn, broken, other, ret, log>>
    BY DEF Pipe
  <1>l. local \in [in : Fds, r : Fds, w : Fds, err : Fds] /\ before \in Table
    BY DEF IInv, Types, TypeOK
  <1>3. CASE Fails({local.in})
    <2>1. \A f \in Fds : f \notin {local.in} => pfd[f] = before[f]
      BY <1>1, <1>l DEF WithIn, Table
    <2>2. \A f \in {local.in} : before[f] = Closed
      BY <1>1 DEF TookIn
    <2> QED  BY <1>1, <1>2, <1>3, <2>1, <2>2, FailsKeeps
  <1>4. CASE /\ Cardinality(Free(pfd)) >= 2 /\ pc' = "childerr"
             /\ LET r == Lowest(pfd)  t == Open(pfd, "reader")
                IN local' = [local EXCEPT !.r = r, !.w = Lowest(t)] /\ pfd' = Open(t, "writer")
             /\ UNCHANGED <<cpc, cfd>>
    <2> DEFINE r == Lowest(pfd)
    <2> DEFINE t == Open(pfd, "reader")
    <2> DEFINE w == Lowest(t)
    <2>1. Free(pfd) # {} /\ t \in Table /\ Free(t) # {}
      BY <1>1, <1>4, FreeLeft, "reader" \in Objects, "reader" # Closed DEF Objects, Closed
    <2>2. r \in Fds /\ pfd[r] = Closed /\ \A g \in Fds : pfd[g] = Closed => r <= g
      BY <1>1, <2>1, LowestFree
    <2>3. w \in Fds /\ t[w] = Closed /\ \A g \in Fds : t[g] = Closed => w <= g
      BY <2>1, LowestFree
    <2>4. t = [pfd EXCEPT ![r] = "reader"] /\ pfd' = [t EXCEPT ![w] = "writer"]
      BY <1>4 DEF Open
    <2>5. local' = [local EXCEPT !.r = r, !.w = w]
      BY <1>4
    <2> HIDE DEF r, t, w
    <2>6. /\ local' \in [in : Fds, r : Fds, w : Fds, err : Fds]
          /\ local'.in = local.in /\ local'.r = r /\ local'.w = w
      BY <1>l, <2>2, <2>3, <2>5
    <2>7. before' = before
      BY <1>2 DEF input
    <2>8. r # local.in /\ before[r] = Closed
      BY <1>1, <1>l, <2>2 DEF WithIn, Table, Closed
    <2>9. w # r /\ w # local.in /\ before[w] = Closed
      BY <1>1, <1>l, <2>2, <2>3, <2>4 DEF WithIn, Table, Closed
    <2>10. local.in < r
      <3>1. local.in <= r /\ local.in # r
        BY <1>1, <2>2, <2>8 DEF TookIn
      <3>2. local.in \in Nat /\ r \in Nat
        BY <1>l, <2>2, FdsNat
      <3> QED  BY <3>1, <3>2
    <2>11. pfd[w] = Closed
      BY <1>1, <2>2, <2>3, <2>4, <2>9 DEF Table
    <2>12. r < w
      BY <2>2, <2>3, <2>9, <2>11, FdsNat
    <2>13. \A f \in Fds : before[f] = Closed => f \in {local.in, r} \/ w <= f
      BY <1>1, <1>l, <2>3, <2>4, FdsNat DEF WithIn, Table
    <2>14. TookPipe'
      BY <1>1, <2>6, <2>7, <2>8, <2>9, <2>10, <2>12, <2>13 DEF TookPipe, TookIn
    <2>15. WithPipe' = [[[before EXCEPT ![local.in] = "null"] EXCEPT ![r] = "reader"]
                        EXCEPT ![w] = "writer"]
      BY <2>6, <2>7 DEF WithPipe, WithIn
    <2>16. pfd' = WithPipe'
      BY <1>1, <2>4, <2>15 DEF WithIn
    <2>17. pfd' \in Table
      BY <2>1, <2>3, <2>4 DEF Table, Objects
    <2>18. Parent'
      BY <1>4, <2>14, <2>16 DEF Parent
    <2> QED  BY <1>1, <1>2, <1>4, <2>6, <2>17, <2>18, BeforeFork
  <1> QED  BY <1>3, <1>4 DEF Pipe

\* open("/dev/null") for the child's standard error.
LEMMA OpenErrKeeps ==
    ASSUME IInv, OpenErr PROVE IInv'
  <1>1. cpc = "none" /\ TookPipe /\ pfd = WithPipe /\ pfd \in Table
    BY DEF OpenErr, IInv, Paired, Parent, Types, TypeOK
  <1>2. UNCHANGED <<input, said, pipe, fn, broken, other, ret, log>>
    BY DEF OpenErr
  <1>l. local \in [in : Fds, r : Fds, w : Fds, err : Fds] /\ before \in Table
    BY DEF IInv, Types, TypeOK
  <1>m. \A f \in Fds : pfd[f] = IF f = local.w THEN "writer" ELSE IF f = local.r THEN "reader"
                                ELSE IF f = local.in THEN "null" ELSE before[f]
    BY <1>1, <1>l DEF WithPipe, WithIn, Table
  <1>3. CASE Fails({local.r, local.w, local.in})
    <2>1. \A f \in Fds : f \notin {local.r, local.w, local.in} => pfd[f] = before[f]
      BY <1>m
    <2>2. \A f \in {local.r, local.w, local.in} : before[f] = Closed
      BY <1>1 DEF TookPipe, TookIn
    <2> QED  BY <1>1, <1>2, <1>3, <2>1, <2>2, FailsKeeps
  <1>4. CASE /\ Free(pfd) # {} /\ pc' = "fork"
             /\ local' = [local EXCEPT !.err = Lowest(pfd)]
             /\ pfd' = Open(pfd, "nullout")
             /\ UNCHANGED <<cpc, cfd>>
    <2> DEFINE e == Lowest(pfd)
    <2>1. e \in Fds /\ pfd[e] = Closed /\ \A g \in Fds : pfd[g] = Closed => e <= g
      BY <1>1, <1>4, LowestFree
    <2>2. pfd' = [pfd EXCEPT ![e] = "nullout"] /\ local' = [local EXCEPT !.err = e]
      BY <1>4 DEF Open
    <2> HIDE DEF e
    <2>3. /\ local' \in [in : Fds, r : Fds, w : Fds, err : Fds] /\ local'.in = local.in
          /\ local'.r = local.r /\ local'.w = local.w /\ local'.err = e
      BY <1>l, <2>1, <2>2
    <2>4. before' = before
      BY <1>2 DEF input
    <2>5. e \notin {local.in, local.r, local.w} /\ before[e] = Closed
      BY <1>m, <2>1 DEF Closed
    <2>6. local.w < e
      <3>1. local.w <= e /\ local.w # e
        BY <1>1, <2>1, <2>5 DEF TookPipe
      <3>2. local.w \in Nat /\ e \in Nat
        BY <1>l, <2>1, FdsNat
      <3> QED  BY <3>1, <3>2
    <2>7. TookAll'
      BY <1>1, <2>3, <2>4, <2>5, <2>6 DEF TookAll, TookPipe, TookIn
    <2>8. pfd' = WithAll'
      BY <1>1, <2>2, <2>3, <2>4 DEF WithAll, WithPipe, WithIn
    <2>9. pfd' \in Table
      BY <1>1, <2>1, <2>2 DEF Table, Objects
    <2>10. Parent'
      BY <1>4, <2>7, <2>8 DEF Parent
    <2> QED  BY <1>1, <1>2, <1>4, <2>3, <2>9, <2>10, BeforeFork
  <1> QED  BY <1>3, <1>4 DEF OpenErr

\* The values of the program's descriptors at the fork.
LEMMA AllOpen ==
    ASSUME Types, TookAll
    PROVE  /\ \A f \in Fds : WithAll[f] = IF f = local.err THEN "nullout"
                                ELSE IF f = local.w THEN "writer"
                                ELSE IF f = local.r THEN "reader"
                                ELSE IF f = local.in THEN "null" ELSE before[f]
           /\ WithAll \in Table /\ before \in Table
           /\ local.in \in Fds /\ local.r \in Fds /\ local.w \in Fds /\ local.err \in Fds
           /\ local.in < local.r /\ local.r < local.w /\ local.w < local.err
           /\ before[local.in] = Closed /\ before[local.r] = Closed
           /\ before[local.w] = Closed /\ before[local.err] = Closed
           /\ \A f \in Fds : before[f] = Closed => f \in {local.in, local.r} \/ local.w <= f
           /\ \A f \in Fds : before[f] = Closed => local.in <= f
  <1>1. local \in [in : Fds, r : Fds, w : Fds, err : Fds] /\ before \in Table
    BY DEF Types, TypeOK
  <1>2. WithAll \in Table
    BY WithTables
  <1>3. \A f \in Fds : WithAll[f] = IF f = local.err THEN "nullout"
                                ELSE IF f = local.w THEN "writer"
                                ELSE IF f = local.r THEN "reader"
                                ELSE IF f = local.in THEN "null" ELSE before[f]
    BY <1>1 DEF WithAll, WithPipe, WithIn, Table
  <1>4. TookAll /\ TookPipe /\ TookIn
    BY DEF TookAll, TookPipe
  <1> QED  BY <1>1, <1>2, <1>3, <1>4 DEF TookAll, TookPipe, TookIn

\* The fork, and the parent's closing of the child's ends.
LEMMA ForkKeeps ==
    ASSUME IInv, Fork PROVE IInv'
  <1>1. cpc = "none" /\ TookAll /\ pfd = WithAll /\ pfd \in Table /\ Types
    BY DEF Fork, IInv, Paired, Parent, Types, TypeOK
  <1>2. UNCHANGED <<input, said, pipe, fn, broken, other, ret, log>>
    BY DEF Fork
  <1>a. /\ \A f \in Fds : pfd[f] = IF f = local.err THEN "nullout"
                                ELSE IF f = local.w THEN "writer"
                                ELSE IF f = local.r THEN "reader"
                                ELSE IF f = local.in THEN "null" ELSE before[f]
        /\ before[local.in] = Closed /\ before[local.r] = Closed
        /\ before[local.w] = Closed /\ before[local.err] = Closed
    BY <1>1, AllOpen
  <1>b. /\ before \in Table
        /\ local.in \in Fds /\ local.r \in Fds /\ local.w \in Fds /\ local.err \in Fds
        /\ local.in < local.r /\ local.r < local.w /\ local.w < local.err
    BY <1>1, AllOpen
  <1>3. CASE Fails({local.err, local.r, local.w, local.in})
    <2>1. \A f \in Fds : f \notin {local.err, local.r, local.w, local.in} => pfd[f] = before[f]
      BY <1>a
    <2>2. \A f \in {local.err, local.r, local.w, local.in} : before[f] = Closed
      BY <1>a
    <2> QED  BY <1>1, <1>2, <1>3, <2>1, <2>2, FailsKeeps
  <1>4. CASE /\ pc' = "read" /\ cpc' = "stdin" /\ cfd' = pfd
             /\ pfd' = Close(pfd, {local.in, local.w, local.err})
             /\ UNCHANGED local
    <2>1. UNCHANGED <<before, plan, discard, local>>
      BY <1>2, <1>4 DEF input
    <2>2. pfd' = [f \in Fds |-> IF f \in {local.in, local.w, local.err} THEN Closed ELSE pfd[f]]
      BY <1>4 DEF Close
    <2>3. Reading = [f \in Fds |-> IF f = local.r THEN "reader" ELSE before[f]]
      BY <1>b DEF Reading, Table
    <2>4. \A f \in Fds : (IF f \in {local.in, local.w, local.err} THEN Closed ELSE pfd[f])
                       = (IF f = local.r THEN "reader" ELSE before[f])
      <3>1. local.r \notin {local.in, local.w, local.err}
        <4>1. local.in \in Nat /\ local.r \in Nat /\ local.w \in Nat /\ local.err \in Nat
          BY <1>b, FdsNat
        <4> QED  BY <4>1, <1>b
      <3> QED  BY <1>a, <3>1
    <2>5. pfd' = Reading
      BY <2>2, <2>3, <2>4
    <2>6. Reading' = Reading /\ WithAll' = WithAll /\ TookAll'
      BY <1>1, <2>1 DEF Reading, WithAll, WithPipe, WithIn, TookAll, TookPipe, TookIn
    <2>7. pfd' \in Table /\ cfd' \in Table
      BY <1>1, <1>4, <2>5, WithTables
    <2>8. Types'
      BY <1>1, <1>2, <1>4, <2>1, <2>7 DEF Types, TypeOK
    <2>9. Parent'
      BY <1>4, <2>5, <2>6 DEF Parent
    <2>10. Heir'
      BY <1>1, <1>4, <2>6 DEF Heir
    <2>11. Paired'
      BY <1>4 DEF Paired
    <2>12. said = 0 /\ fn = <<>> /\ pipe = <<>>
      BY <1>1 DEF IInv, Heard
    <2>13. fn' \o pipe' = SubSeq(plan', 1, said')
      <3>1. fn' = <<>> /\ pipe' = <<>> /\ said' = 0 /\ plan' = plan
        BY <1>2, <2>1, <2>12
      <3>2. SubSeq(plan, 1, 0) = <<>>
        BY <1>1, SubSeqProperties DEF Types
      <3> QED  BY <3>1, <3>2
    <2>14. Heard'
      BY <1>2, <1>4, <2>12, <2>13 DEF Heard
    <2> QED  BY <2>8, <2>9, <2>10, <2>11, <2>14 DEF IInv
  <1> QED  BY <1>3, <1>4 DEF Fork

-----------------------------------------------------------------------------
(* The child up to the script *)

\* The end of the child.
LEMMA ExitsHeir ==
    ASSUME IInv, cpc # "none", Exits, UNCHANGED <<parent, input>>
    PROVE  Heir' /\ cfd' \in Table
  <1>1. TookAll'
    BY DEF IInv, Heir, TookAll, TookPipe, TookIn, parent, input
  <1>2. cpc' = "zombie" /\ cfd' = Drained' /\ cfd' \in Table
    BY DEF Exits, Drained, Table, Objects
  <1> QED  BY <1>1, <1>2 DEF Heir

\* Before the exec the child says nothing.
LEMMA ChildStep ==
    ASSUME IInv, cpc \in {"stdin", "stdout", "stderr", "exec"},
           UNCHANGED <<pc, parent, input, said, pipe, fn, broken, other, ret, log>>,
           cpc' \in {"stdout", "stderr", "exec", "script", "zombie"},
           cfd' \in Table, Heir'
    PROVE  IInv'
  <1>1. Types'
    BY DEF IInv, Types, TypeOK, parent, input
  <1>2. Parent'
    BY ParentKept DEF IInv, parent, input
  <1>3. Paired'
    BY DEF IInv, Paired
  <1>4. Heard'
    BY DEF IInv, Heard, input
  <1> QED  BY <1>1, <1>2, <1>3, <1>4 DEF IInv

\* close(to), dup(from), close(from): either the child gives up or it has one
\* descriptor in the place of the other.
LEMMA Moved ==
    ASSUME NEW t \in Table, NEW from \in Fds, NEW to \in Fds, from # to, NEW next,
           Moves(t, from, to, next)
    PROVE  \/ Exits
           \/ /\ cpc' = next
              /\ cfd' = [f \in Fds |-> IF f = from THEN Closed
                                       ELSE IF f = to THEN t[from] ELSE t[f]]
  <1> DEFINE c == Close(t, {to})
  <1>1. CASE /\ cfd' = Close([c EXCEPT ![to] = c[from]], {from}) /\ cpc' = next
    <2>1. c = [f \in Fds |-> IF f = to THEN Closed ELSE t[f]]
      BY DEF Close
    <2>2. [c EXCEPT ![to] = c[from]] = [f \in Fds |-> IF f = to THEN t[from] ELSE t[f]]
      BY <2>1
    <2> HIDE DEF c
    <2> QED  BY <1>1, <2>2 DEF Close
  <1>2. CASE Exits
    BY <1>2
  <1> QED  BY <1>1, <1>2 DEF Moves

\* Where the descriptors are that the child has to move.
LEMMA Places ==
    ASSUME Types, TookAll
    PROVE  /\ local.r # local.in /\ local.w \notin {0, 1, local.in, local.r}
           /\ local.err \notin {0, 1, 2, local.in, local.r, local.w}
           /\ local.in # 0 => before[0] # Closed /\ local.r # 0
  <1>1. /\ local.in \in Fds /\ local.r \in Fds /\ local.w \in Fds /\ local.err \in Fds
        /\ local.in < local.r /\ local.r < local.w /\ local.w < local.err
    BY AllOpen
  <1>2. local.in \in Nat /\ local.r \in Nat /\ local.w \in Nat /\ local.err \in Nat
    BY <1>1, FdsNat
  <1>3. before[0] = Closed => local.in <= 0
    BY AllOpen, FdsNat
  <1> QED  BY <1>1, <1>2, <1>3

\* Standard input.
LEMMA StdinKeeps ==
    ASSUME IInv, Stdin PROVE IInv'
  <1>1. TookAll /\ cfd = WithAll /\ Types
    BY DEF Stdin, IInv, Heir
  <1>2. UNCHANGED <<pc, parent, input, said, pipe, fn, broken, other, ret, log>>
    BY DEF Stdin
  <1>a. \A f \in Fds : cfd[f] = IF f = local.err THEN "nullout"
                                ELSE IF f = local.w THEN "writer"
                                ELSE IF f = local.r THEN "reader"
                                ELSE IF f = local.in THEN "null" ELSE before[f]
    BY <1>1, AllOpen
  <1>b. /\ before[local.in] = Closed /\ before[local.r] = Closed
        /\ local.in \in Fds /\ local.r \in Fds /\ local.w \in Fds /\ local.err \in Fds
    BY <1>1, AllOpen
  <1>t. before \in Table /\ cfd \in Table
    BY <1>1 DEF Types, TypeOK
  <1> DEFINE t == Close(cfd, {local.r})
  <1>3. t = [f \in Fds |-> IF f = local.r THEN Closed ELSE cfd[f]] /\ t \in Table
    BY <1>t DEF Close, Table, Objects
  <1>4. Moves(t, local.in, 0, "stdout")
    BY DEF Stdin
  <1>5. ASSUME cpc' = "stdout", cfd' = AfterStdin PROVE IInv'
    <2>1. AfterStdin' = AfterStdin /\ TookAll'
      BY <1>1, <1>2 DEF AfterStdin, TookAll, TookPipe, TookIn, parent, input
    <2>2. Heir'
      BY <1>5, <2>1 DEF Heir
    <2>3. cfd' \in Table
      BY <1>5, <1>t DEF AfterStdin, Table, Objects
    <2> QED  BY <1>2, <1>5, <2>2, <2>3, ChildStep DEF Stdin
  <1>6. ASSUME Exits PROVE IInv'
    BY <1>2, <1>6, ExitsHeir, ChildStep DEF Stdin, Exits
  <1>7. CASE local.in = 0
    <2>1. cfd' = t /\ cpc' = "stdout"
      BY <1>4, <1>7 DEF Moves
    <2>2. \A f \in Fds : (IF f = local.r THEN Closed ELSE cfd[f])
                         = IF f = 0 THEN "null" ELSE IF f = local.w THEN "writer"
                           ELSE IF f = local.err THEN "nullout" ELSE before[f]
      BY <1>1, <1>7, <1>a, <1>b, Places
    <2>3. t = AfterStdin
      BY <1>3, <2>2 DEF AfterStdin
    <2> QED  BY <1>5, <2>1, <2>3
  <1>8. CASE local.in # 0 /\ ~ Exits
    <2> HIDE DEF t
    <2>1. /\ cpc' = "stdout"
          /\ cfd' = [f \in Fds |-> IF f = local.in THEN Closed
                                   ELSE IF f = 0 THEN t[local.in] ELSE t[f]]
      <3>1. t \in Table /\ local.in \in Fds /\ 0 \in Fds /\ local.in # 0
        BY <1>3, <1>8, <1>b, FdsNat
      <3> QED  BY <1>4, <1>8, <3>1, Moved
    <2>2. t[local.in] = "null" /\ t[local.r] = Closed
      BY <1>1, <1>3, <1>a, <1>b, Places
    <2>3. \A f \in Fds : (IF f = local.in THEN Closed ELSE IF f = 0 THEN t[local.in] ELSE t[f])
                         = IF f = 0 THEN "null" ELSE IF f = local.w THEN "writer"
                           ELSE IF f = local.err THEN "nullout" ELSE before[f]
      BY <1>1, <1>3, <1>8, <1>a, <1>b, <2>2, Places
    <2>4. cfd' = AfterStdin
      BY <2>1, <2>3 DEF AfterStdin
    <2> QED  BY <1>5, <2>1, <2>4
  <1> QED  BY <1>6, <1>7, <1>8

\* Standard output.
LEMMA StdoutKeeps ==
    ASSUME IInv, Stdout PROVE IInv'
  <1>1. TookAll /\ cfd = AfterStdin /\ Types
    BY DEF Stdout, IInv, Heir
  <1>2. UNCHANGED <<pc, parent, input, said, pipe, fn, broken, other, ret, log>>
    BY DEF Stdout
  <1>b. before[local.w] = Closed /\ local.w \in Fds
    BY <1>1, AllOpen
  <1>t. before \in Table /\ cfd \in Table
    BY <1>1 DEF Types, TypeOK
  <1>3. Moves(cfd, local.w, 1, "stderr")
    BY DEF Stdout
  <1>4. CASE Exits
    BY <1>2, <1>4, ExitsHeir, ChildStep DEF Stdout, Exits
  <1>5. CASE ~ Exits
    <2>0. local.w # 1
      BY <1>1, Places
    <2>1. /\ cpc' = "stderr"
          /\ cfd' = [f \in Fds |-> IF f = local.w THEN Closed
                                   ELSE IF f = 1 THEN cfd[local.w] ELSE cfd[f]]
      <3>1. 1 \in Fds
        BY FdsNat
      <3>2. \/ Exits
            \/ /\ cpc' = "stderr"
               /\ cfd' = [f \in Fds |-> IF f = local.w THEN Closed
                                        ELSE IF f = 1 THEN cfd[local.w] ELSE cfd[f]]
        BY <1>3, <1>b, <1>t, <2>0, <3>1, Moved
      <3> QED  BY <1>5, <3>2
    <2>2. \A f \in Fds : cfd[f] = IF f = 0 THEN "null" ELSE IF f = local.w THEN "writer"
                                  ELSE IF f = local.err THEN "nullout" ELSE before[f]
      BY <1>1 DEF AfterStdin
    <2>3. \A f \in Fds : (IF f = local.w THEN Closed ELSE IF f = 1 THEN cfd[local.w] ELSE cfd[f])
                         = IF f = 0 THEN "null" ELSE IF f = 1 THEN "writer"
                           ELSE IF f = local.err THEN "nullout" ELSE before[f]
      BY <1>1, <1>b, <2>2, Places
    <2>4. cfd' = AfterStdout
      BY <2>1, <2>3 DEF AfterStdout
    <2>5. AfterStdout' = AfterStdout /\ TookAll'
      BY <1>1, <1>2 DEF AfterStdout, TookAll, TookPipe, TookIn, parent, input
    <2>6. Heir'
      BY <2>1, <2>4, <2>5 DEF Heir
    <2>7. cfd' \in Table
      BY <1>t, <2>4 DEF AfterStdout, Table, Objects
    <2> QED  BY <1>2, <2>1, <2>6, <2>7, ChildStep DEF Stdout
  <1> QED  BY <1>4, <1>5

\* Standard error.
LEMMA StderrKeeps ==
    ASSUME IInv, Stderr PROVE IInv'
  <1>1. TookAll /\ cfd = AfterStdout /\ Types
    BY DEF Stderr, IInv, Heir
  <1>2. UNCHANGED <<pc, parent, input, said, pipe, fn, broken, other, ret, log>>
    BY DEF Stderr
  <1>b. before[local.err] = Closed /\ local.err \in Fds /\ local.err \notin {0, 1, 2}
    BY <1>1, AllOpen, Places
  <1>t. before \in Table /\ cfd \in Table
    BY <1>1 DEF Types, TypeOK
  <1>c. \A f \in Fds : cfd[f] = IF f = 0 THEN "null" ELSE IF f = 1 THEN "writer"
                                ELSE IF f = local.err THEN "nullout" ELSE before[f]
    BY <1>1 DEF AfterStdout
  <1>3. ASSUME cpc' = "exec", cfd' = Wired PROVE IInv'
    <2>1. Wired' = Wired /\ TookAll'
      BY <1>1, <1>2 DEF Wired, TookAll, TookPipe, TookIn, parent, input
    <2>2. Heir'
      BY <1>3, <2>1 DEF Heir
    <2>3. cfd' \in Table
      BY <1>3, <1>t DEF Wired, Table, Objects
    <2> QED  BY <1>2, <1>3, <2>2, <2>3, ChildStep DEF Stderr
  <1>4. CASE Exits
    BY <1>2, <1>4, ExitsHeir, ChildStep DEF Stderr, Exits
  <1>5. CASE discard /\ Moves(cfd, local.err, 2, "exec") /\ ~ Exits
    <2>1. /\ cpc' = "exec"
          /\ cfd' = [f \in Fds |-> IF f = local.err THEN Closed
                                   ELSE IF f = 2 THEN cfd[local.err] ELSE cfd[f]]
      <3>1. 2 \in Fds /\ local.err # 2
        BY <1>b, FdsNat
      <3>2. \/ Exits
            \/ /\ cpc' = "exec"
               /\ cfd' = [f \in Fds |-> IF f = local.err THEN Closed
                                        ELSE IF f = 2 THEN cfd[local.err] ELSE cfd[f]]
        BY <1>5, <1>b, <1>t, <3>1, Moved
      <3> QED  BY <1>5, <3>2
    <2>2. \A f \in Fds : (IF f = local.err THEN Closed
                          ELSE IF f = 2 THEN cfd[local.err] ELSE cfd[f])
                         = IF f = 0 THEN "null" ELSE IF f = 1 THEN "writer"
                           ELSE IF f = 2 /\ discard THEN "nullout" ELSE before[f]
      BY <1>5, <1>b, <1>c
    <2>3. cfd' = Wired
      BY <2>1, <2>2 DEF Wired
    <2> QED  BY <1>3, <2>1, <2>3
  <1>6. CASE ~discard /\ cpc' = "exec"
             /\ cfd' = IF local.err # 2 THEN Close(cfd, {local.err}) ELSE cfd
    <2>1. cfd' = [f \in Fds |-> IF f = local.err THEN Closed ELSE cfd[f]]
      BY <1>6, <1>b DEF Close
    <2>2. \A f \in Fds : (IF f = local.err THEN Closed ELSE cfd[f])
                         = IF f = 0 THEN "null" ELSE IF f = 1 THEN "writer"
                           ELSE IF f = 2 /\ discard THEN "nullout" ELSE before[f]
      BY <1>6, <1>b, <1>c
    <2>3. cfd' = Wired
      BY <2>1, <2>2 DEF Wired
    <2> QED  BY <1>3, <1>6, <2>3
  <1> QED  BY <1>4, <1>5, <1>6 DEF Stderr

\* The exec, and its failure.
LEMMA ExecKeeps ==
    ASSUME IInv, Exec PROVE IInv'
  <1>1. UNCHANGED <<pc, parent, input, said, pipe, fn, broken, other, ret, log>>
    BY DEF Exec
  <1>2. CASE Exits
    BY <1>1, <1>2, ExitsHeir, ChildStep DEF Exec, Exits
  <1>3. CASE cpc' = "script" /\ UNCHANGED cfd
    <2>1. cfd = Wired /\ TookAll /\ cfd \in Table
      BY DEF Exec, IInv, Heir, Types, TypeOK
    <2>2. Wired' = Wired /\ TookAll'
      BY <1>1, <2>1 DEF Wired, TookAll, TookPipe, TookIn, parent, input
    <2>3. Heir' /\ cfd' \in Table
      BY <1>3, <2>1, <2>2 DEF Heir
    <2> QED  BY <1>1, <1>3, <2>3, ChildStep DEF Exec
  <1> QED  BY <1>2, <1>3 DEF Exec

-----------------------------------------------------------------------------
(* The script *)

\* Concatenation associates (the library's theorem, quantified).
LEMMA Associative ==
    \A S : \A s, t, u \in Seq(S) : (s \o t) \o u = s \o (t \o u)
  BY ConcatAssociative

\* One more piece is said and not yet read.
LEMMA SaidMore ==
    ASSUME NEW S, NEW p \in Seq(S), NEW x \in Seq(S), NEW y \in Seq(S), NEW n \in Nat,
           n < Len(p), x \o y = SubSeq(p, 1, n)
    PROVE  x \o Append(y, p[n + 1]) = SubSeq(p, 1, n + 1)
  <1>1. Len(p) \in Nat /\ p[n + 1] \in S /\ 1 \in 1..Len(p) /\ n + 1 \in 1..Len(p)
    <2>1. Len(p) \in Nat
      BY LenProperties
    <2>2. 1 \in 1..Len(p) /\ n + 1 \in 1..Len(p)
      BY <2>1
    <2> QED  BY <2>1, <2>2, ElementOfSeq
  <1> DEFINE e == p[n + 1]
  <1>2. SubSeq(p, 1, n + 1) = SubSeq(p, 1, n) \o <<e>>
    <2>1. SubSeq(p, 1, n + 1) = SubSeq(p, 1, (n + 1) - 1) \o <<e>>
      BY <1>1, SubSeqRecursiveSecond
    <2>2. (n + 1) - 1 = n
      OBVIOUS
    <2> QED  BY <2>1, <2>2
  <1> HIDE DEF e
  <1>3. e \in S /\ <<e>> \in Seq(S)
    BY <1>1 DEF e
  <1>4. x \o (y \o <<e>>) = (x \o y) \o <<e>>
    <2>1. PICK z \in Seq(S) : z = <<e>>
      BY <1>3
    <2>2. x \o (y \o z) = (x \o y) \o z
      BY ONLY x \in Seq(S), y \in Seq(S), z \in Seq(S), Associative
    <2> QED  BY <2>1, <2>2
  <1>5. Append(y, e) = y \o <<e>>
    BY <1>3, AppendIsConcat
  <1> QED  BY <1>2, <1>4, <1>5 DEF e

\* What is read moves from the pipe to the program.
LEMMA ReadOn ==
    ASSUME NEW S, NEW x \in Seq(S), NEW y \in Seq(S), NEW n \in 1..Len(y)
    PROVE  /\ x \o SubSeq(y, 1, n) \in Seq(S) /\ SubSeq(y, n + 1, Len(y)) \in Seq(S)
           /\ Len(SubSeq(y, n + 1, Len(y))) <= Len(y)
           /\ (x \o SubSeq(y, 1, n)) \o SubSeq(y, n + 1, Len(y)) = x \o y
  <1>1. Len(y) \in Nat /\ \A i \in 1..Len(y) : y[i] \in S
    BY LenProperties, ElementOfSeq
  <1>2. n \in Int /\ n + 1 \in Int /\ Len(y) \in Int /\ 1 \in Int /\ n <= Len(y) /\ 1 <= n
    BY <1>1
  <1>3. SubSeq(y, 1, n) \in Seq(S)
    <2>1. \A i \in 1..n : y[i] \in S
      BY <1>1, <1>2
    <2> QED  BY <1>2, <2>1, SubSeqProperties
  <1>4. SubSeq(y, n + 1, Len(y)) \in Seq(S)
        /\ Len(SubSeq(y, n + 1, Len(y))) = IF n + 1 <= Len(y) THEN Len(y) - (n + 1) + 1 ELSE 0
    <2>1. \A i \in n + 1 .. Len(y) : y[i] \in S
      BY <1>1, <1>2
    <2> QED  BY <1>2, <2>1, SubSeqProperties
  <1>5. Len(SubSeq(y, n + 1, Len(y))) <= Len(y)
    BY <1>1, <1>2, <1>4
  <1>6. SubSeq(y, 1, n) \o SubSeq(y, n + 1, Len(y)) = y
    <2>1. 1 \in 1 .. Len(y) + 1 /\ n \in 1 - 1 .. Len(y) /\ Len(y) \in n .. Len(y)
      BY <1>1, <1>2
    <2>2. SubSeq(y, 1, n) \o SubSeq(y, n + 1, Len(y)) = SubSeq(y, 1, Len(y))
      BY <2>1, ConcatAdjacentSubSeq
    <2> QED  BY <2>2, SubSeqFull
  <1>a. PICK a \in Seq(S) : a = SubSeq(y, 1, n)
    BY <1>3
  <1>b. PICK b \in Seq(S) : b = SubSeq(y, n + 1, Len(y))
    BY <1>4
  <1>7. x \o a \in Seq(S)
    BY ONLY x \in Seq(S), a \in Seq(S), ConcatProperties
  <1>8. (x \o a) \o b = x \o (a \o b)
    BY ONLY x \in Seq(S), a \in Seq(S), b \in Seq(S), Associative
  <1> QED  BY <1>4, <1>5, <1>6, <1>7, <1>8, <1>a, <1>b

\* Nothing said is nothing, and all of it is the plan.
LEMMA SaidEnds ==
    ASSUME NEW S, NEW p \in Seq(S)
    PROVE  SubSeq(p, 1, 0) = <<>> /\ SubSeq(p, 1, Len(p)) = p
  BY SubSeqEmpty, SubSeqFull

\* The script prints.
LEMMA WriteKeeps ==
    ASSUME IInv, Write PROVE IInv'
  <1>1. cpc = "script" /\ said < Len(plan) /\ UNCHANGED <<pc, parent, input, fn, broken, other, ret, log>>
    BY DEF Write
  <1>p. Parent'
    BY <1>1, ParentKept DEF IInv, parent, input
  <1>2. CASE /\ ~Has(pfd, "reader") /\ Exits /\ UNCHANGED <<pipe, said>>
    <2>1. Heir' /\ cfd' \in Table
      BY <1>1, <1>2, ExitsHeir
    <2>2. pc # "read"
      <3>1. local.r \in Fds /\ before \in [Fds -> Objects]
        BY DEF IInv, Types, TypeOK, Table
      <3>2. Reading[local.r] = "reader"
        BY <3>1 DEF Reading
      <3> QED  BY <1>2, <3>1, <3>2 DEF IInv, Parent, Has
    <2>3. Types'
      BY <1>1, <1>2, <2>1 DEF IInv, Types, TypeOK, parent, input, Exits
    <2>4. Paired'
      BY <1>1, <1>2 DEF IInv, Paired, Exits
    <2>5. Heard'
      BY <1>1, <1>2, <2>2 DEF IInv, Heard, Exits, input
    <2> QED  BY <1>p, <2>1, <2>3, <2>4, <2>5 DEF IInv
  <1>3. CASE /\ Len(pipe) < PipeSize
             /\ pipe' = Append(pipe, plan[said + 1])
             /\ said' = said + 1
             /\ UNCHANGED <<cpc, cfd>>
    <2>1. plan \in Seq(Pieces) /\ pipe \in Seq(Pieces) /\ fn \in Seq(Pieces) /\ said \in 0..Len(plan)
      BY DEF IInv, Types, TypeOK
    <2>2. Len(plan) \in Nat /\ Len(pipe) \in Nat
      BY <2>1, LenProperties
    <2>3. said + 1 \in 1..Len(plan) /\ said \in Nat
      BY <1>1, <2>1, <2>2
    <2>4. plan[said + 1] \in Pieces
      BY <2>1, <2>3, ElementOfSeq
    <2>5. pipe' \in Seq(Pieces) /\ Len(pipe') = Len(pipe) + 1
      BY <1>3, <2>1, <2>4, AppendProperties
    <2>6. said' \in 0..Len(plan) /\ Len(pipe') <= PipeSize
      BY <1>3, <2>2, <2>3, <2>5, MakeTexAssumption
    <2>7. Types'
      BY <1>1, <1>3, <2>5, <2>6 DEF IInv, Types, TypeOK, parent, input
    <2>8. Heir'
      BY <1>1, <1>3, HeirKept DEF IInv, parent, input
    <2>9. Paired'
      BY <1>1, <1>3 DEF IInv, Paired
    <2>10. pc = "read" => fn' \o pipe' = SubSeq(plan', 1, said')
      <3>1. ASSUME pc = "read" PROVE fn \o Append(pipe, plan[said + 1]) = SubSeq(plan, 1, said + 1)
        BY <1>1, <2>1, <2>3, <3>1, SaidMore DEF IInv, Heard
      <3> QED  BY <1>1, <1>3, <3>1 DEF input
    <2>11. Heard'
      BY <1>1, <1>3, <2>10 DEF IInv, Heard, input
    <2> QED  BY <1>p, <2>7, <2>8, <2>9, <2>11 DEF IInv
  <1> QED  BY <1>2, <1>3 DEF Write

\* The script ends, or goes quiet.
LEMMA FinishKeeps ==
    ASSUME IInv, Finish PROVE IInv'
  <1>1. UNCHANGED <<pc, parent, input, said, pipe, fn, broken, other, ret, log>>
        /\ cpc \in {"script", "quiet"}
    BY DEF Finish
  <1>2. said = Len(plan)
    BY DEF Finish, IInv, Heard
  <1>3. cpc' \in {"zombie", "quiet"} /\ Heir' /\ cfd' \in Table
    <2>1. CASE Exits
      BY <1>1, <2>1, ExitsHeir DEF Exits
    <2>2. CASE cpc = "script" /\ cpc' = "quiet" /\ cfd' = Close(cfd, {1})
      <3>1. cfd = Wired /\ TookAll /\ cfd \in Table
        BY <2>2 DEF IInv, Heir, Types, TypeOK
      <3>2. Wired' = Wired /\ TookAll'
        BY <1>1, <3>1 DEF Wired, TookAll, TookPipe, TookIn, parent, input
      <3>3. Close(Wired', {1}) = Close(Wired, {1}) /\ Close(Wired, {1})' = Close(Wired', {1})
        BY <3>2 DEF Close
      <3>4. cfd' \in Table
        BY <2>2, <3>1 DEF Close, Table, Objects
      <3>5. cfd' = Close(Wired, {1})'
        BY <2>2, <3>1, <3>3
      <3> QED  BY <2>2, <3>2, <3>4, <3>5 DEF Heir
    <2> QED  BY <2>1, <2>2 DEF Finish
  <1>4. Types'
    BY <1>1, <1>3 DEF IInv, Types, TypeOK, parent, input
  <1>5. Parent'
    BY <1>1, ParentKept DEF IInv, parent, input
  <1>6. Paired'
    BY <1>1, <1>3 DEF IInv, Paired
  <1>7. Heard'
    BY <1>1, <1>2, <1>3 DEF IInv, Heard, input
  <1> QED  BY <1>3, <1>4, <1>5, <1>6, <1>7 DEF IInv

\* Another child of the program ends.
LEMMA OtherEndsKeeps ==
    ASSUME IInv, OtherEnds PROVE IInv'
  <1>1. UNCHANGED <<pc, parent, child, input, pipe, fn, broken, ret, log>>
        /\ other = "running" /\ other' = "zombie"
    BY DEF OtherEnds
  <1>2. Types'
    BY <1>1 DEF IInv, Types, TypeOK, parent, child, input
  <1>3. Parent' /\ Heir' /\ Heard'
    BY <1>1, ParentKept, HeirKept, HeardKept DEF IInv, parent, child, input
  <1>4. Paired'
    BY <1>1 DEF IInv, Paired, child
  <1> QED  BY <1>2, <1>3, <1>4 DEF IInv

-----------------------------------------------------------------------------
(* The program from the read on *)

\* The child that holds no end of the pipe to write to has gone or gone quiet.
LEMMA NoWriter ==
    ASSUME IInv, cpc # "none", ~Has(cfd, "writer")
    PROVE  cpc \in {"quiet", "zombie", "reaped"}
  <1>1. TookAll /\ Types
    BY DEF IInv, Heir
  <1>2. /\ local.w \in Fds /\ local.w \notin {0, 1}
        /\ WithAll[local.w] = "writer"
    BY <1>1, AllOpen, Places
  <1>3. AfterStdin[local.w] = "writer" /\ AfterStdout[1] = "writer" /\ Wired[1] = "writer"
    BY <1>2, FdsNat DEF AfterStdin, AfterStdout, Wired
  <1>4. cfd[local.w] # "writer" /\ cfd[1] # "writer"
    BY <1>2, FdsNat DEF Has
  <1>5. cpc \in {"none", "stdin", "stdout", "stderr", "exec", "script", "quiet",
                 "zombie", "reaped"}
    BY DEF IInv, Types, TypeOK
  <1> QED  BY <1>2, <1>3, <1>4, <1>5 DEF IInv, Heir

\* read() until it fails or the end of the file, and the program's end of the pipe closed.
LEMMA ReadKeeps ==
    ASSUME IInv, Read \/ ReadFails PROVE IInv'
  <1>1. /\ pc = "read" /\ cpc # "none"
        /\ UNCHANGED <<local, child, input, other, ret, log>>
    BY DEF Read, ReadFails, IInv, Paired
  <1>2. plan \in Seq(Pieces) /\ pipe \in Seq(Pieces) /\ fn \in Seq(Pieces) /\ said \in 0..Len(plan)
    BY DEF IInv, Types, TypeOK
  <1>3. fn \o pipe = SubSeq(plan, 1, said) /\ TookAll /\ Types /\ pfd = Reading
    BY <1>1 DEF IInv, Heard, Heir, Parent
  <1>4. Heir'
    BY <1>1, HeirKept DEF IInv, child, input
  <1>5. Len(plan) \in Nat /\ Len(pipe) \in Nat /\ Len(fn) \in Nat
    BY <1>2, LenProperties
  <1>6. ASSUME Hangs PROVE pfd' = before /\ pfd' \in Table /\ Parent' /\ pc' = "wait"
    <2>1. before \in [Fds -> Objects] /\ local.r \in Fds /\ before[local.r] = Closed
      BY <1>3, AllOpen DEF Table
    <2>2. Close(pfd, {local.r}) = before
      BY <1>3, <2>1 DEF Close, Reading
    <2>3. pfd' = before /\ pc' = "wait" /\ before' = before
      BY <1>1, <1>6, <2>2 DEF Hangs, input
    <2> QED  BY <2>1, <2>3 DEF Parent, Table
  <1>7. CASE /\ pipe # <<>>
             /\ LET n == IF Len(pipe) < BufSize THEN Len(pipe) ELSE BufSize
                IN /\ fn' = fn \o SubSeq(pipe, 1, n)
                   /\ pipe' = SubSeq(pipe, n + 1, Len(pipe))
             /\ UNCHANGED <<pc, pfd, broken>>
    <2>1. PICK n \in 1..Len(pipe) : /\ fn' = fn \o SubSeq(pipe, 1, n)
                                    /\ pipe' = SubSeq(pipe, n + 1, Len(pipe))
      <3>1. Len(pipe) \in Nat \ {0}
        BY <1>2, <1>7, EmptySeq
      <3> DEFINE n == IF Len(pipe) < BufSize THEN Len(pipe) ELSE BufSize
      <3>2. n \in 1..Len(pipe)
        BY <3>1, MakeTexAssumption
      <3> QED  BY <1>7, <3>2
    <2>2. /\ fn' \in Seq(Pieces) /\ pipe' \in Seq(Pieces) /\ Len(pipe') <= Len(pipe)
          /\ fn' \o pipe' = fn \o pipe
      <3>1. /\ fn \o SubSeq(pipe, 1, n) \in Seq(Pieces)
            /\ SubSeq(pipe, n + 1, Len(pipe)) \in Seq(Pieces)
            /\ Len(SubSeq(pipe, n + 1, Len(pipe))) <= Len(pipe)
            /\ (fn \o SubSeq(pipe, 1, n)) \o SubSeq(pipe, n + 1, Len(pipe)) = fn \o pipe
        <4>1. pipe \in Seq(Pieces) /\ fn \in Seq(Pieces) /\ n \in 1..Len(pipe)
          BY <1>2
        <4> QED  BY <4>1, ReadOn, Zenon
      <3> QED  BY <2>1, <3>1
    <2>3. Len(fn') <= Len(plan)
      <3>1. Len(SubSeq(plan, 1, said)) = said
        <4>1. \A i \in 1..said : plan[i] \in Pieces
          BY <1>2, <1>5, ElementOfSeq
        <4> QED  BY <1>2, <1>5, <4>1, SubSeqProperties
      <3>2. Len(fn' \o pipe') = Len(fn') + Len(pipe') /\ Len(fn') \in Nat /\ Len(pipe') \in Nat
        BY <2>2, ConcatProperties, LenProperties
      <3>3. Len(fn') + Len(pipe') = said
        BY <1>3, <2>2, <3>1, <3>2
      <3> QED  BY <1>2, <1>5, <3>2, <3>3
    <2>4. Len(pipe') <= PipeSize
      <3>1. Len(pipe) <= PipeSize /\ Len(pipe') \in Nat
        BY <2>2, LenProperties DEF IInv, Types, TypeOK
      <3> QED  BY <1>5, <2>2, <3>1, MakeTexAssumption
    <2>5. Types'
      BY <1>1, <1>7, <2>2, <2>3, <2>4 DEF IInv, Types, TypeOK, child, input
    <2>6. Parent'
      BY <1>1, <1>7, ParentKept DEF IInv, input
    <2>7. Paired'
      BY <1>1, <1>7 DEF IInv, Paired, child
    <2>8. Heard'
      BY <1>1, <1>3, <1>7, <2>2 DEF IInv, Heard, child, input
    <2> QED  BY <1>4, <2>5, <2>6, <2>7, <2>8 DEF IInv
  <1>8. CASE Hangs /\ UNCHANGED <<fn, pipe>> /\ ((UNCHANGED broken /\ EndOfFile) \/ broken' = TRUE)
    <2>1. pfd' \in Table /\ Parent' /\ pc' = "wait"
      BY <1>6, <1>8
    <2>2. Types'
      <3>1. {broken', discard', ret'} \subseteq BOOLEAN
        BY <1>1, <1>8 DEF IInv, Types, TypeOK, input
      <3> QED  BY <1>1, <1>8, <2>1, <3>1 DEF IInv, Types, TypeOK, child, input
    <2>3. Paired'
      BY <1>1, <2>1 DEF IInv, Paired, child
    <2>4. UNCHANGED broken /\ EndOfFile => fn \in {<<>>, plan}
      <3> SUFFICES ASSUME UNCHANGED broken, EndOfFile PROVE fn \in {<<>>, plan}
        OBVIOUS
      <3>1. pipe = <<>> /\ cpc \in {"quiet", "zombie", "reaped"}
        BY <1>1, NoWriter DEF EndOfFile
      <3>2. said \in {0, Len(plan)}
        BY <1>1, <3>1 DEF IInv, Heard
      <3>3. fn = SubSeq(plan, 1, said)
        BY <1>2, <1>3, <3>1, ConcatEmptySeq
      <3> QED  BY <1>2, <3>2, <3>3, SaidEnds
    <2>5. Heard'
      BY <1>1, <1>8, <2>1, <2>4 DEF IInv, Heard, child, input
    <2> QED  BY <1>4, <2>1, <2>2, <2>3, <2>5 DEF IInv
  <1> QED  BY <1>7, <1>8 DEF Read, ReadFails

\* wait().
LEMMA WaitKeeps ==
    ASSUME IInv, Wait PROVE IInv'
  <1>1. /\ pc = "wait" /\ pc' = "result"
        /\ UNCHANGED <<parent, cfd, said, input, pipe, fn, broken, ret, log>>
        /\ (cpc = "zombie" /\ cpc' = "reaped" /\ UNCHANGED other)
           \/ (other = "zombie" /\ other' = "reaped" /\ UNCHANGED cpc)
    BY DEF Wait
  <1>2. Types'
    BY <1>1 DEF IInv, Types, TypeOK, parent, input
  <1>3. Parent'
    BY <1>1 DEF IInv, Parent, parent, input
  <1>4. Heir'
    <2>1. CASE UNCHANGED cpc
      BY <1>1, <2>1, HeirKept DEF IInv, parent, input
    <2>2. CASE cpc = "zombie" /\ cpc' = "reaped"
      <3>1. TookAll' /\ cfd' = Drained'
        BY <1>1, <2>2 DEF IInv, Heir, TookAll, TookPipe, TookIn, parent, input, Drained
      <3> QED  BY <2>2, <3>1 DEF Heir
    <2> QED  BY <1>1, <2>1, <2>2
  <1>5. Paired'
    BY <1>1 DEF IInv, Paired
  <1>6. Heard'
    BY <1>1 DEF IInv, Heard, input
  <1> QED  BY <1>2, <1>3, <1>4, <1>5, <1>6 DEF IInv

\* What has been read is looked at, and what is missing may be logged.
LEMMA EndKeeps ==
    ASSUME IInv, Result \/ MissTex PROVE IInv'
  <1>1. /\ pc \in {"result", "misstex"} /\ pc' \in {"misstex", "done", "crashed"}
        /\ UNCHANGED <<parent, child, input, pipe, fn, broken, other>>
        /\ pc = "result" => pc' \in {"misstex", "done"}
    BY DEF Result, MissTex
  <1>2. ret' \in BOOLEAN /\ log' \in {"none", "cwd", "texmfoutput"}
    BY DEF IInv, Types, TypeOK, Result, MissTex
  <1>3. Types'
    BY <1>1, <1>2 DEF IInv, Types, TypeOK, parent, child, input
  <1>4. Parent'
    BY <1>1 DEF IInv, Parent, parent, input
  <1>5. Heir'
    BY <1>1, HeirKept DEF IInv, parent, child, input
  <1>6. Paired'
    BY <1>1 DEF IInv, Paired, child
  <1>7. Heard'
    BY <1>1 DEF IInv, Heard, child, input
  <1> QED  BY <1>3, <1>4, <1>5, <1>6, <1>7 DEF IInv

-----------------------------------------------------------------------------
(* The theorems *)

\* Every step keeps the invariant.
LEMMA Step == IInv /\ [Next]_vars => IInv'
  <1> SUFFICES ASSUME IInv, [Next]_vars PROVE IInv'
    OBVIOUS
  <1>1. CASE Program
    BY <1>1, OpenInKeeps, PipeKeeps, OpenErrKeeps, ForkKeeps, ReadKeeps, WaitKeeps, EndKeeps
       DEF Program
  <1>2. CASE Child
    BY <1>2, StdinKeeps, StdoutKeeps, StderrKeeps, ExecKeeps, WriteKeeps, FinishKeeps DEF Child
  <1>3. CASE OtherEnds
    BY <1>3, OtherEndsKeeps
  <1>5. CASE ReadFails
    BY <1>5, ReadKeeps
  <1>4. CASE UNCHANGED vars
    <2>1. Types'
      BY <1>4 DEF IInv, Types, TypeOK, vars
    <2>2. Parent' /\ Heir' /\ Heard'
      BY <1>4, ParentKept, HeirKept, HeardKept DEF IInv, vars
    <2>3. Paired'
      BY <1>4 DEF IInv, Paired, vars
    <2> QED  BY <2>1, <2>2, <2>3 DEF IInv
  <1> QED  BY <1>1, <1>2, <1>3, <1>4, <1>5 DEF Next

\* The inductive invariant holds of maketex() and its script.
LEMMA Invariant == Spec => []IInv
  BY InitIInv, Step, PTL DEF Spec

\* The descriptor tables of both processes are tables, what has been printed is
\* a part of what will be, and the pipe never holds more than it can.
THEOREM MakeTexTypeCorrect == Spec => []TypeOK
  <1>1. IInv => TypeOK
    BY DEF IInv, Types
  <1> QED  BY <1>1, Invariant, PTL

\* Whatever descriptors the program was started with and however many it may
\* have, the script runs with /dev/null, the pipe, and the program's stderr
\* or /dev/null, and with nothing else that maketex() opened.
THEOREM ScriptIsWired == Spec => []ScriptWired
  <1>1. IInv => ScriptWired
    <2> SUFFICES ASSUME IInv, cpc = "script"
                 PROVE  cfd = [f \in Fds |-> CASE f = 0 -> "null"
                                               [] f = 1 -> "writer"
                                               [] f = 2 /\ discard -> "nullout"
                                               [] OTHER -> before[f]]
      BY DEF ScriptWired
    <2>1. cfd = Wired
      BY DEF IInv, Heir
    <2>2. \A f \in Fds : Wired[f] = CASE f = 0 -> "null"
                                      [] f = 1 -> "writer"
                                      [] f = 2 /\ discard -> "nullout"
                                      [] OTHER -> before[f]
      BY DEF Wired
    <2>3. Wired = [f \in Fds |-> Wired[f]]
      BY DEF Wired
    <2> QED  BY <2>1, <2>2, <2>3
  <1> QED  BY <1>1, Invariant, PTL

\* At whichever call maketex() fails, and when it does not, the program's
\* descriptors are those it came with.
THEOREM NoDescriptorLost == Spec => []NothingLeaked
  <1>1. IInv => NothingLeaked
    BY DEF IInv, Parent, NothingLeaked
  <1> QED  BY <1>1, Invariant, PTL

\* Unless a read() fails the program has all the script printed, or nothing if
\* no script ran; and the script is reaped, unless wait() took another child.
THEOREM ScriptSeenOut == Spec => []SeenOut
  <1>1. IInv => SeenOut
    <2> SUFFICES ASSUME IInv PROVE SeenOut
      OBVIOUS
    <2>1. pc \in {"wait", "result", "misstex", "done"} /\ ~broken => fn \in {<<>>, plan}
      BY DEF IInv, Heard
    <2>2. pc \in {"result", "done"} => cpc \in {"none", "reaped"} \/ other = "reaped"
      BY DEF IInv, Paired
    <2> QED  BY <2>1, <2>2 DEF SeenOut
  <1> QED  BY <1>1, Invariant, PTL

-----------------------------------------------------------------------------
(* What mktexlsr and mktexpk share: the inductive invariant *)

There(f) == tree[f] = "whole"

\* A maker that is about to install has the whole font under its own name.
StagedWhole == \A m \in Makers : mk[m] \in {"test", "move"} => staged[m] = "whole"

\* A maker has its font installed before it has it listed or prints it.
InstalledFirst == \A m \in Makers : mk[m] \in {"update", "print"} => There(font[m])

\* What a mktexlsr has scanned is there.
ScannedThere == \A u \in Updaters : \A f \in Fonts \cap scan[u] : There(f)

\* What the ls-R lists is there.
Listed == IsDb(db) => \A f \in Fonts \cap db.names : There(f)

SharedInv == /\ LsRTypeOK
        /\ NeverTorn
        /\ StagedWhole
        /\ InstalledFirst
        /\ PrintedThere
        /\ ScannedThere
        /\ Listed

-----------------------------------------------------------------------------
(* Initially *)

LEMMA SharedInit == LsRInit => SharedInv
<1> SUFFICES ASSUME LsRInit PROVE SharedInv
  OBVIOUS
<1> DEFINE there == {f \in Fonts : tree[f] = "whole"}
<1>d. \/ db = Gone
      \/ db = Empty
      \/ \E b \in BOOLEAN : db = [magic |-> b, names |-> there]
  BY DEF LsRInit
<1>e. Empty \in Databases
  BY DEF Databases, Empty
<1>h. \A b \in BOOLEAN : [magic |-> b, names |-> there] \in Databases
  BY DEF Databases
<1>n. IsDb(db) => db \in Databases /\ db.names \subseteq there
  <2>1. CASE db = Empty
    BY <2>1, <1>e DEF Empty
  <2>2. ASSUME NEW b \in BOOLEAN, db = [magic |-> b, names |-> there]
        PROVE  db \in Databases /\ db.names \subseteq there
    <3>1. db.names = there
      BY <2>2
    <3> QED BY <2>2, <3>1, <1>h
  <2>3. CASE db = Gone
    BY <2>3 DEF IsDb
  <2> QED BY <1>d, <2>1, <2>2, <2>3
<1>1. LsRTypeOK
  BY <1>n DEF LsRInit, LsRTypeOK, IsDb, Files
<1>2. NeverTorn /\ Listed
  BY <1>n DEF LsRInit, NeverTorn, Listed, There
<1>3. StagedWhole /\ InstalledFirst /\ PrintedThere /\ ScannedThere
  BY DEF LsRInit, StagedWhole, InstalledFirst, PrintedThere, ScannedThere
<1> QED BY <1>1, <1>2, <1>3 DEF SharedInv

-----------------------------------------------------------------------------
(* The steps of a mktexlsr *)

\* A step that leaves the tree and the makers alone need only be looked at
\* for what it does to the lists of names and to its own place.
LEMMA UpdaterStep ==
  ASSUME LsRAssumption, SharedInv, NEW u \in Updaters, Updater(u) \/ Signal(u)
  PROVE  SharedInv'
<1> USE DEF SharedInv
<1>tree. UNCHANGED <<tree, staged, mk, font, printed>>
  BY DEF Updater, Check, Touch, TestMagic, Access, Scan, Perms, Unlink, Move, Signal
<1>same. NeverTorn' /\ StagedWhole' /\ InstalledFirst' /\ PrintedThere'
  BY <1>tree DEF NeverTorn, StagedWhole, InstalledFirst, PrintedThere, There
<1>1. CASE Check(u) \/ TestMagic(u)
  <2>1. UNCHANGED <<db, scan>>
    BY <1>1 DEF Check, TestMagic
  <2>2. LsRTypeOK'
    BY <1>1, <1>tree DEF LsRTypeOK, Check, TestMagic, Lsr
  <2>3. ScannedThere' /\ Listed'
    BY <1>tree, <2>1 DEF ScannedThere, Listed, There
  <2> QED BY <1>same, <2>2, <2>3
<1>8. CASE Touch(u)
  <2>1. db' = Empty /\ UNCHANGED scan /\ Empty \in Databases
    BY <1>8 DEF Touch, Databases, Empty
  <2>2. LsRTypeOK'
    BY <1>8, <1>tree, <2>1 DEF LsRTypeOK, Touch, Lsr
  <2>3. ScannedThere' /\ Listed'
    BY <1>tree, <2>1 DEF ScannedThere, Listed, There, Empty, IsDb
  <2> QED BY <1>same, <2>2, <2>3
<1>2. CASE Access(u)
  <2>1. UNCHANGED <<db, scan>> /\ upd[u] = "access"
    BY <1>2 DEF Access, Lsr
  <2>2. LsRTypeOK'
    BY <1>2, <1>tree DEF LsRTypeOK, Access, Lsr
  <2>3. ScannedThere' /\ Listed'
    BY <1>tree, <2>1 DEF ScannedThere, Listed, There
  <2> QED BY <1>same, <2>2, <2>3
<1>3. CASE Scan(u)
  <2>1. /\ UNCHANGED db /\ upd[u] = "scan"
        /\ upd' = [upd EXCEPT ![u] = "perms"]
        /\ scan' = [scan EXCEPT ![u] = Present]
    BY <1>3 DEF Scan, Lsr
  <2>2. Present \subseteq Fonts \cup Makers
    BY DEF Present
  <2>3. \A f \in Fonts \cap Present : There(f)
    BY DEF LsRAssumption, Present, There, NeverTorn, LsRTypeOK, Files
  <2>4. LsRTypeOK'
    BY <1>tree, <2>1, <2>2 DEF LsRTypeOK
  <2>5. ScannedThere'
    BY <1>tree, <2>1, <2>3 DEF ScannedThere, There, LsRTypeOK
  <2>6. Listed'
    BY <1>tree, <2>1 DEF Listed, There
  <2> QED BY <1>same, <2>4, <2>5, <2>6
<1>4. CASE Perms(u)
  <2>1. UNCHANGED <<db, scan>> /\ upd[u] = "perms"
    BY <1>4 DEF Perms, Lsr
  <2>2. LsRTypeOK'
    BY <1>4, <1>tree DEF LsRTypeOK, Perms, Lsr
  <2>3. ScannedThere' /\ Listed'
    BY <1>tree, <2>1 DEF ScannedThere, Listed, There
  <2> QED BY <1>same, <2>2, <2>3
<1>5. CASE Unlink(u)
  <2>1. UNCHANGED scan /\ db' = Gone
    BY <1>5 DEF Unlink
  <2>2. LsRTypeOK'
    BY <1>5, <1>tree DEF LsRTypeOK, Unlink, Lsr
  <2>3. ScannedThere' /\ Listed'
    BY <1>tree, <2>1 DEF ScannedThere, Listed, There, IsDb
  <2> QED BY <1>same, <2>2, <2>3
<1>6. CASE Move(u)
  <2>1. UNCHANGED scan /\ db' = [magic |-> TRUE, names |-> scan[u]]
    BY <1>6 DEF Move
  <2>2. LsRTypeOK'
    BY <1>6, <1>tree DEF LsRTypeOK, Move, Lsr, Databases
  <2>3. ScannedThere' /\ Listed'
    BY <1>tree, <2>1 DEF ScannedThere, Listed, There
  <2> QED BY <1>same, <2>2, <2>3
<1>7. CASE Signal(u)
  <2>1. /\ UNCHANGED <<db, scan>>
        /\ \A v \in Updaters : upd'[v] = upd[v] \/ upd'[v] \in {"end", "lost"}
    BY <1>7 DEF Signal, LsRTypeOK
  <2>2. LsRTypeOK'
    BY <1>7, <1>tree DEF LsRTypeOK, Signal
  <2>3. ScannedThere' /\ Listed'
    BY <1>tree, <2>1 DEF ScannedThere, Listed, There
  <2> QED BY <1>same, <2>2, <2>3
<1> QED BY <1>1, <1>2, <1>3, <1>4, <1>5, <1>6, <1>7, <1>8 DEF Updater

-----------------------------------------------------------------------------
(* The steps of a maker *)

LEMMA MakerStep ==
  ASSUME SharedInv, NEW m \in Makers, Maker(m)
  PROVE  SharedInv'
<1> USE DEF SharedInv
<1>upd. UNCHANGED <<scan, upd, font>>
  BY DEF Maker, Find, Stage, Copy, Test, Install, Update, Echo
<1>1. CASE Find(m)
  <2>1. UNCHANGED <<db, tree, staged>>
    BY <1>1 DEF Find
  <2>2. LsRTypeOK'
    BY <1>1, <1>upd DEF LsRTypeOK, Find, Mk
  <2>3. NeverTorn' /\ ScannedThere' /\ Listed'
    BY <1>upd, <2>1 DEF NeverTorn, ScannedThere, Listed, There
  <2>4. /\ \A n \in Makers : n # m => mk'[n] = mk[n]
        /\ mk'[m] \in {"stage", "end"} \/ (mk'[m] = "update" /\ Readable(m))
        /\ printed' = printed \/ (printed' = printed \cup {m} /\ Readable(m))
    BY <1>1 DEF Find, Mk, LsRTypeOK
  <2>5. Readable(m) => There(font[m])
    BY DEF Readable, There, NeverTorn, LsRTypeOK, Files
  <2>6. StagedWhole' /\ InstalledFirst' /\ PrintedThere'
    BY <1>upd, <2>1, <2>4, <2>5 DEF StagedWhole, InstalledFirst, PrintedThere, There
  <2> QED BY <2>2, <2>3, <2>6
<1>2. CASE Stage(m) \/ Copy(m)
  <2>1. UNCHANGED <<db, tree, printed>>
    BY <1>2 DEF Stage, Copy
  <2>2. LsRTypeOK'
    BY <1>2, <1>upd DEF LsRTypeOK, Stage, Copy, Mk, Files
  <2>3. NeverTorn' /\ PrintedThere' /\ ScannedThere' /\ Listed'
    BY <1>upd, <2>1 DEF NeverTorn, PrintedThere, ScannedThere, Listed, There
  <2>4. /\ \A n \in Makers : n # m => mk'[n] = mk[n] /\ staged'[n] = staged[n]
        /\ mk'[m] \in {"copy", "end"} \/ (mk'[m] = "test" /\ staged'[m] = "whole")
    BY <1>2 DEF Stage, Copy, Mk, LsRTypeOK
  <2>5. StagedWhole' /\ InstalledFirst'
    BY <1>upd, <2>1, <2>4 DEF StagedWhole, InstalledFirst, There
  <2> QED BY <2>2, <2>3, <2>5
<1>3. CASE Test(m)
  <2>1. UNCHANGED <<db, tree, staged, printed>> /\ mk[m] = "test"
    BY <1>3 DEF Test, Mk
  <2>2. LsRTypeOK'
    BY <1>3, <1>upd DEF LsRTypeOK, Test, Mk
  <2>3. NeverTorn' /\ PrintedThere' /\ ScannedThere' /\ Listed'
    BY <1>upd, <2>1 DEF NeverTorn, PrintedThere, ScannedThere, Listed, There
  <2>4. /\ \A n \in Makers : n # m => mk'[n] = mk[n]
        /\ mk'[m] = "move" \/ (mk'[m] = "update" /\ Readable(m))
    BY <1>3 DEF Test, Mk, LsRTypeOK
  <2>5. Readable(m) => There(font[m])
    BY DEF Readable, There, NeverTorn, LsRTypeOK, Files
  <2>6. StagedWhole' /\ InstalledFirst'
    BY <1>upd, <2>1, <2>4, <2>5 DEF StagedWhole, InstalledFirst, There
  <2> QED BY <2>2, <2>3, <2>6
<1>4. CASE Install(m) /\ mk'[m] = "update"
  <2>1. UNCHANGED <<db, printed>> /\ mk[m] = "move" /\ staged[m] = "whole"
    BY <1>4 DEF Install, Mk, StagedWhole
  <2>2. tree' = [tree EXCEPT ![font[m]] = "whole"]
    BY <1>4, <2>1 DEF Install, Mk, LsRTypeOK
  <2>3. LsRTypeOK'
    BY <1>4, <1>upd, <2>2 DEF LsRTypeOK, Install, Mk, Files
  <2>4. \A f \in Fonts : There(f) => There(f)'
    BY <2>2 DEF There, LsRTypeOK
  <2>5. font[m] \in Fonts /\ There(font[m])'
    BY <1>upd, <2>2 DEF There, LsRTypeOK
  <2>6. NeverTorn'
    BY <2>2 DEF NeverTorn, LsRTypeOK
  <2>7. PrintedThere' /\ ScannedThere' /\ Listed'
    BY <1>upd, <2>1, <2>4 DEF PrintedThere, ScannedThere, Listed, There, LsRTypeOK
  <2>8. /\ \A n \in Makers : n # m => mk'[n] = mk[n] /\ staged'[n] = staged[n]
        /\ mk'[m] = "update"
    BY <1>4 DEF Install, Mk, LsRTypeOK
  <2>9. StagedWhole' /\ InstalledFirst'
    BY <1>upd, <2>4, <2>5, <2>8 DEF StagedWhole, InstalledFirst, There, LsRTypeOK
  <2> QED BY <2>3, <2>6, <2>7, <2>9
<1>7. CASE Install(m) /\ mk'[m] # "update"
  <2>1. UNCHANGED <<db, tree, staged, printed>> /\ Mk(m, "move", "end")
    BY <1>7 DEF Install, Mk, LsRTypeOK
  <2>2. LsRTypeOK'
    BY <1>upd, <2>1 DEF LsRTypeOK, Mk
  <2>3. NeverTorn' /\ PrintedThere' /\ ScannedThere' /\ Listed'
    BY <1>upd, <2>1 DEF NeverTorn, PrintedThere, ScannedThere, Listed, There
  <2>4. \A n \in Makers : mk'[n] = mk[n] \/ mk'[n] = "end"
    BY <2>1 DEF Mk, LsRTypeOK
  <2>5. StagedWhole' /\ InstalledFirst'
    BY <1>upd, <2>1, <2>4 DEF StagedWhole, InstalledFirst, There
  <2> QED BY <2>2, <2>3, <2>5
<1>5. CASE Update(m)
  <2>1. UNCHANGED <<tree, staged, printed>> /\ mk[m] = "update"
    BY <1>5 DEF Update, Mk
  <2>2. font[m] \in Fonts /\ There(font[m])
    BY <2>1 DEF InstalledFirst, LsRTypeOK
  <2>3. \/ db' = db
        \/ /\ Magic(db) /\ db \in Databases
           /\ db' = [db EXCEPT !.names = @ \cup {font[m]}]
    BY <1>5 DEF Update, LsRTypeOK, Magic, IsDb
  <2>4. db' \in Databases \cup {Gone}
    BY <2>2, <2>3 DEF LsRTypeOK, Databases
  <2>5. LsRTypeOK'
    BY <1>5, <1>upd, <2>1, <2>4 DEF LsRTypeOK, Update, Mk
  <2>6. NeverTorn' /\ PrintedThere' /\ ScannedThere'
    BY <1>upd, <2>1 DEF NeverTorn, PrintedThere, ScannedThere, There
  <2>7. Listed'
    BY <2>1, <2>2, <2>3 DEF Listed, There, Databases, IsDb, Magic
  <2>9. /\ \A n \in Makers : n # m => mk'[n] = mk[n]
        /\ mk'[m] \in {"end", "print"}
    BY <1>5 DEF Update, Mk, LsRTypeOK
  <2>10. StagedWhole' /\ InstalledFirst'
    BY <1>upd, <2>1, <2>2, <2>9 DEF StagedWhole, InstalledFirst, There
  <2> QED BY <2>5, <2>6, <2>7, <2>10
<1>6. CASE Echo(m)
  <2>1. UNCHANGED <<db, tree, staged>> /\ mk[m] = "print" /\ printed' = printed \cup {m}
    BY <1>6 DEF Echo, Mk
  <2>2. LsRTypeOK'
    BY <1>6, <1>upd DEF LsRTypeOK, Echo, Mk
  <2>3. NeverTorn' /\ ScannedThere' /\ Listed'
    BY <1>upd, <2>1 DEF NeverTorn, ScannedThere, Listed, There
  <2>4. /\ \A n \in Makers : n # m => mk'[n] = mk[n]
        /\ mk'[m] = "end"
    BY <1>6 DEF Echo, Mk, LsRTypeOK
  <2>5. StagedWhole' /\ InstalledFirst' /\ PrintedThere'
    BY <1>upd, <2>1, <2>4 DEF StagedWhole, InstalledFirst, PrintedThere, There
  <2> QED BY <2>2, <2>3, <2>5
<1> QED BY <1>1, <1>2, <1>3, <1>4, <1>5, <1>6, <1>7 DEF Maker

-----------------------------------------------------------------------------
(* The theorems about the shared tree *)

LEMMA SharedNext ==
  ASSUME LsRAssumption, SharedInv, [LsRNext]_(lsRvars)
  PROVE  SharedInv'
<1>1. CASE UNCHANGED lsRvars
  BY <1>1 DEF lsRvars, SharedInv, LsRTypeOK, NeverTorn, StagedWhole, InstalledFirst,
              PrintedThere, ScannedThere, Listed, There, IsDb
<1>2. CASE Rest
  BY <1>1, <1>2 DEF Rest
<1> QED BY <1>1, <1>2, UpdaterStep, MakerStep DEF LsRNext

\* Every step of every script keeps the invariant.
THEOREM SharedAlways ==
  ASSUME LsRAssumption
  PROVE  LsRSpec => []SharedInv
<1>1. SharedInv /\ [LsRNext]_(lsRvars) => SharedInv'
  BY SharedNext
<1> QED BY <1>1, SharedInit, PTL DEF LsRSpec

\* The variables keep their types (the state that mktexlsr and mktexpk share).
THEOREM LsRTypeCorrect ==
  ASSUME LsRAssumption
  PROVE  LsRSpec => []LsRTypeOK
<1>1. SharedInv => LsRTypeOK
  BY DEF SharedInv
<1> QED BY SharedAlways, <1>1, PTL

\* mktexpk:269: whoever reads an installed font reads all of it.
THEOREM FontsWhole ==
  ASSUME LsRAssumption
  PROVE  LsRSpec => []NeverTorn
<1>1. SharedInv => NeverTorn
  BY DEF SharedInv
<1> QED BY SharedAlways, <1>1, PTL

\* A name that mktexpk has printed (mktexpk:228, 282) is a font that is there.
THEOREM PrintedNamesHold ==
  ASSUME LsRAssumption
  PROVE  LsRSpec => []PrintedThere
<1>1. SharedInv => PrintedThere
  BY DEF SharedInv
<1> QED BY SharedAlways, <1>1, PTL

\* No ls-R lists a font that is not there (mktexlsr:221, mktexpk:278).
THEOREM ListedNamesHold ==
  ASSUME LsRAssumption
  PROVE  LsRSpec => []ListedThere
<1>1. SharedInv => ListedThere
  BY DEF SharedInv, Listed, ListedThere, There
<1> QED BY SharedAlways, <1>1, PTL

-----------------------------------------------------------------------------
(* What holds from some time on *)

\* An ls-R that is there, or whose going is somebody's doing.
Accounted == IsDb(db) \/ \E u \in Updaters : upd[u] \in {"move", "lost"}

\* What f needs to stay in the ls-R: to be there, and in all lists there are.
Lasting(f) ==
    /\ There(f)
    /\ Magic(db) => f \in db.names
    /\ \A u \in Updaters : upd[u] \in {"perms", "remove", "move"} => f \in scan[u]

\* No step loses an ls-R that is accounted for.
LEMMA AccountedStays ==
  ASSUME GoneAssumption, SharedInv, [LsRNext]_(lsRvars), Accounted
  PROVE  Accounted'
<1> USE DEF SharedInv
<1>1. CASE UNCHANGED lsRvars \/ Rest
  BY <1>1 DEF Rest, lsRvars, Accounted, IsDb
<1>2. ASSUME NEW u \in Updaters, Updater(u) \/ Signal(u) PROVE Accounted'
  <2>1. CASE Touch(u)
    <3>1. IsDb(db')
      <4>1. Empty \in Databases
        BY DEF Databases, Empty
      <4>2. Empty # Gone
        BY <4>1 DEF GoneAssumption
      <4> QED BY <2>1, <4>2 DEF Touch, IsDb
    <3> QED BY <3>1 DEF Accounted
  <2>2. CASE Check(u) \/ TestMagic(u) \/ Access(u) \/ Scan(u) \/ Perms(u)
    <3>1. db' = db /\ upd[u] \notin {"move", "lost"}
      BY <2>2 DEF Check, TestMagic, Access, Scan, Perms, Lsr
    <3>2. \A v \in Updaters : v # u => upd'[v] = upd[v]
      BY <2>2 DEF Check, TestMagic, Access, Scan, Perms, Lsr, LsRTypeOK
    <3> QED BY <3>1, <3>2 DEF Accounted, IsDb
  <2>3. CASE Unlink(u)
    <3>1. upd'[u] = "move"
      BY <2>3 DEF Unlink, Lsr, LsRTypeOK
    <3> QED BY <3>1 DEF Accounted
  <2>4. CASE Move(u)
    <3>1. db' = [magic |-> TRUE, names |-> scan[u]] /\ scan[u] \subseteq Fonts \cup Makers
      BY <2>4 DEF Move, LsRTypeOK
    <3>2. db' \in Databases
      BY <3>1 DEF Databases
    <3> QED BY <3>2 DEF Accounted, IsDb, GoneAssumption
  <2>5. CASE Signal(u)
    <3>1. db' = db /\ \A v \in Updaters : upd[v] \in {"move", "lost"} => upd'[v] \in {"move", "lost"}
      BY <2>5 DEF Signal, LsRTypeOK
    <3> QED BY <3>1 DEF Accounted, IsDb
  <2> QED BY <1>2, <2>1, <2>2, <2>3, <2>4, <2>5 DEF Updater
<1>3. ASSUME NEW m \in Makers, Maker(m) PROVE Accounted'
  <2>1. upd' = upd
    BY <1>3 DEF Maker, Find, Stage, Copy, Test, Install, Update, Echo
  <2>2. IsDb(db) => IsDb(db')
    <3>1. CASE Update(m)
      <4>1. font[m] \in Fonts
        BY DEF LsRTypeOK
      <4>2. IsDb(db) => [db EXCEPT !.names = @ \cup {font[m]}] \in Databases
        BY <4>1 DEF LsRTypeOK, Databases, IsDb
      <4>3. IsDb(db) => [db EXCEPT !.names = @ \cup {font[m]}] # Gone
        BY <4>2 DEF GoneAssumption
      <4> QED BY <3>1, <4>3 DEF Update, IsDb, Magic
    <3>2. CASE ~Update(m)
      BY <1>3, <3>2 DEF Maker, Find, Stage, Copy, Test, Install, Echo, IsDb
    <3> QED BY <3>1, <3>2
  <2> QED BY <2>1, <2>2 DEF Accounted
<1> QED BY <1>1, <1>2, <1>3 DEF LsRNext

\* No step loses a name that lasts.
LEMMA LastingStays ==
  ASSUME SharedInv, [LsRNext]_(lsRvars), NEW f \in Fonts, Lasting(f)
  PROVE  Lasting(f)'
<1> USE DEF SharedInv
<1>1. CASE UNCHANGED lsRvars \/ Rest
  BY <1>1 DEF Rest, lsRvars, Lasting, There, Magic, IsDb
<1>2. ASSUME NEW u \in Updaters, Updater(u) \/ Signal(u) PROVE Lasting(f)'
  <2>1. There(f)' /\ There(f)
    BY <1>2 DEF Updater, Check, Touch, TestMagic, Access, Scan, Perms, Unlink, Move, Signal, Lasting, There
  <2>2. f \in Present
    BY <2>1 DEF Present, There
  <2>3. CASE \/ Check(u) \/ Touch(u) \/ TestMagic(u) \/ Access(u)
             \/ Perms(u) \/ Unlink(u) \/ Signal(u)
    <3>1. scan' = scan /\ (db' = db \/ ~Magic(db'))
      BY <2>3 DEF Check, Touch, TestMagic, Access, Perms, Unlink, Signal, Magic, IsDb, Empty
    <3>2. \A v \in Updaters : upd'[v] \in {"perms", "remove", "move"} =>
                              upd[v] \in {"perms", "remove", "move"}
      BY <2>3 DEF Check, Touch, TestMagic, Access, Perms, Unlink, Signal, Lsr, LsRTypeOK
    <3> QED BY <2>1, <3>1, <3>2 DEF Lasting, Magic, IsDb
  <2>4. CASE Scan(u)
    <3>1. db' = db /\ scan' = [scan EXCEPT ![u] = Present]
          /\ upd[u] = "scan" /\ upd' = [upd EXCEPT ![u] = "perms"]
      BY <2>4 DEF Scan, Lsr
    <3>2. \A v \in Updaters : v # u => upd'[v] = upd[v] /\ scan'[v] = scan[v]
      BY <3>1 DEF LsRTypeOK
    <3>3. scan'[u] = Present
      BY <3>1 DEF LsRTypeOK
    <3> QED BY <2>1, <2>2, <3>1, <3>2, <3>3 DEF Lasting, Magic, IsDb
  <2>5. CASE Move(u)
    <3>1. db' = [magic |-> TRUE, names |-> scan[u]] /\ scan' = scan /\ upd[u] = "move"
          /\ upd' = [upd EXCEPT ![u] = "end"]
      BY <2>5 DEF Move, Lsr
    <3>2. f \in db'.names
      BY <3>1 DEF Lasting
    <3>3. \A v \in Updaters : upd'[v] = upd[v] \/ upd'[v] = "end"
      BY <3>1 DEF LsRTypeOK
    <3> QED BY <2>1, <3>1, <3>2, <3>3 DEF Lasting
  <2> QED BY <1>2, <2>3, <2>4, <2>5 DEF Updater
<1>3. ASSUME NEW m \in Makers, Maker(m) PROVE Lasting(f)'
  <2>1. upd' = upd /\ scan' = scan
    BY <1>3 DEF Maker, Find, Stage, Copy, Test, Install, Update, Echo
  <2>2. There(f)'
    <3>1. CASE Install(m)
      <4>1. staged[m] = "whole"
        BY <3>1 DEF Install, Mk, StagedWhole
      <4>2. tree' = [tree EXCEPT ![font[m]] = "whole"] \/ tree' = tree
        BY <3>1, <4>1 DEF Install
      <4> QED BY <4>2 DEF Lasting, There, LsRTypeOK
    <3>2. CASE ~Install(m)
      BY <1>3, <3>2 DEF Maker, Find, Stage, Copy, Test, Update, Echo, Lasting, There
    <3> QED BY <3>1, <3>2
  <2>3. Magic(db') => f \in db'.names
    <3>1. CASE Magic(db) /\ db' = [db EXCEPT !.names = @ \cup {font[m]}]
      <4>1. db \in Databases
        BY <3>1 DEF LsRTypeOK, Magic, IsDb
      <4> QED BY <3>1, <4>1 DEF Lasting, Databases
    <3>2. CASE db' = db
      BY <3>2 DEF Lasting
    <3> QED BY <1>3, <3>1, <3>2 DEF Maker, Find, Stage, Copy, Test, Install, Update, Echo
  <2> QED BY <2>1, <2>2, <2>3 DEF Lasting, Magic, IsDb
<1> QED BY <1>1, <1>2, <1>3 DEF LsRNext

\* An ls-R that has been there is missing only while a mktexlsr is between
\* its rm and its mv (mktexlsr:230), or after one was stopped there.
THEOREM GoneBriefly ==
  ASSUME LsRAssumption, GoneAssumption
  PROVE  LsRSpec => BrieflyGone
<1>1. IsDb(db) => Accounted
  BY DEF Accounted
<1>2. Accounted => (~IsDb(db) => \E u \in Updaters : upd[u] \in {"move", "lost"})
  BY DEF Accounted
<1>3. SharedInv /\ [LsRNext]_(lsRvars) /\ Accounted => Accounted'
  BY AccountedStays
<1> QED BY SharedAlways, <1>1, <1>2, <1>3, PTL DEF LsRSpec, BrieflyGone

\* A name that is in the ls-R while no mktexlsr is past its scan is in every
\* ls-R with the magic line from then on: what is lost of a name has been read before it was there.
THEOREM NamesNotForgotten ==
  ASSUME LsRAssumption
  PROVE  LsRSpec => NeverForgotten
<1>1. ASSUME NEW f \in Fonts
      PROVE  LsRSpec =>
               [](/\ Magic(db) /\ f \in db.names
                  /\ \A u \in Updaters : upd[u] \in {"check", "touch", "magic", "access",
                                                 "scan", "end", "lost"}
                  => [](Magic(db) => f \in db.names))
  <2>1. SharedInv =>
          (/\ Magic(db) /\ f \in db.names
           /\ \A u \in Updaters : upd[u] \in {"check", "touch", "magic", "access",
                                                 "scan", "end", "lost"}
           => Lasting(f))
    BY DEF SharedInv, Listed, Lasting, Magic, IsDb
  <2>2. Lasting(f) => (Magic(db) => f \in db.names)
    BY DEF Lasting
  <2>3. SharedInv /\ [LsRNext]_(lsRvars) /\ Lasting(f) => Lasting(f)'
    BY LastingStays
  <2> QED BY SharedAlways, <2>1, <2>2, <2>3, PTL DEF LsRSpec
<1> QED BY <1>1 DEF NeverForgotten
=============================================================================
