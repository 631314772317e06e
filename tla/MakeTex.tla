------------------------------ MODULE MakeTex ------------------------------
(***************************************************************************)
(* maketex() runs a mktex script and reads the file name it prints: the    *)
(* file descriptors of the program and of its child, the pipe between      *)
(* them, the script, and the wait.  The program may have started with any  *)
(* of its standard descriptors closed, may be near its limit of open       *)
(* files, and may have another child of its own (an input pipe of TeX).    *)
(***************************************************************************)
EXTENDS Naturals, Sequences, SequencesExt, FiniteSets

CONSTANTS MaxFd,     \* the largest file descriptor a process may have
          Plans,     \* what a script may print: sequences of pieces
          Name,      \* the pieces that make up the name of the file
          Newline,   \* the piece that is a newline
          PipeSize,  \* pieces a pipe holds
          BufSize    \* pieces one read() returns at most

ASSUME MakeTexAssumption ==
    /\ MaxFd \in Nat /\ MaxFd >= 2
    /\ Plans \subseteq Seq(UNION {ToSet(p) : p \in Plans})
    /\ PipeSize \in Nat \ {0} /\ BufSize \in Nat \ {0}

VARIABLES pc,       \* where maketex() is
          pfd,      \* the program's descriptors
          before,   \* the same when maketex() was called
          local,    \* the variables childin, childout[0], childout[1], childerr
          cpc,      \* where the child is
          cfd,      \* the child's descriptors
          plan,     \* what the script will print
          said,     \* how much of it the script has printed
          pipe,     \* what is in the pipe
          fn,       \* what the program has read
          broken,   \* has a read() failed?
          discard,  \* make_tex_discard_errors
          other,    \* the program's other child
          ret,      \* has maketex() a file to return?
          log       \* the line in missfont.log
vars == <<pc, pfd, before, local, cpc, cfd, plan, said, pipe, fn, broken, discard,
          other, ret, log>>
parent == <<pfd, local>>
child  == <<cpc, cfd, said>>
input  == <<before, plan, discard>>

Fds     == 0..MaxFd
Closed  == "closed"
Objects == {Closed, "given", "null", "nullout", "reader", "writer"}
Table   == [Fds -> Objects]

Free(t)   == {f \in Fds : t[f] = Closed}
Lowest(t) == CHOOSE f \in Free(t) : \A g \in Free(t) : f <= g
Open(t, o) == [t EXCEPT ![Lowest(t)] = o]
Close(t, fds) == [f \in Fds |-> IF f \in fds THEN Closed ELSE t[f]]
Has(t, o) == \E f \in Fds : t[f] = o

Init ==
    /\ pc = "childin"
    /\ before \in [Fds -> {Closed, "given"}]
    /\ pfd = before
    /\ local = [in |-> 0, r |-> 0, w |-> 0, err |-> 0]
    /\ cpc = "none" /\ cfd = [f \in Fds |-> Closed]
    /\ plan \in Plans /\ said = 0 /\ pipe = <<>> /\ fn = <<>> /\ broken = FALSE
    /\ discard \in BOOLEAN
    /\ other \in {"none", "running", "zombie"}
    /\ ret = FALSE /\ log = "none"

-----------------------------------------------------------------------------
(* The program, up to the fork *)

\* A failure ends at misstex() with every descriptor opened so far closed.
Fails(fds) == pc' = "misstex" /\ pfd' = Close(pfd, fds) /\ UNCHANGED <<local, cpc, cfd>>

OpenIn ==
    /\ pc = "childin"
    /\ \/ Free(pfd) = {} /\ Fails({})
       \/ /\ Free(pfd) # {}
          /\ pc' = "childout"
          /\ local' = [local EXCEPT !.in = Lowest(pfd)]
          /\ pfd' = Open(pfd, "null")
          /\ UNCHANGED <<cpc, cfd>>
    /\ UNCHANGED <<input, said, pipe, fn, broken, other, ret, log>>

\* Slip: childin is not closed when there is no pipe to be had.
PipeLeaking ==
    /\ pc = "childout"
    /\ \/ Cardinality(Free(pfd)) < 2 /\ Fails({})
       \/ /\ Cardinality(Free(pfd)) >= 2
          /\ pc' = "childerr"
          /\ LET r == Lowest(pfd)  t == Open(pfd, "reader")
             IN local' = [local EXCEPT !.r = r, !.w = Lowest(t)] /\ pfd' = Open(t, "writer")
          /\ UNCHANGED <<cpc, cfd>>
    /\ UNCHANGED <<input, said, pipe, fn, broken, other, ret, log>>

Pipe ==
    /\ pc = "childout"
    /\ \/ Cardinality(Free(pfd)) < 2 /\ Fails({local.in})
       \/ /\ Cardinality(Free(pfd)) >= 2
          /\ pc' = "childerr"
          /\ LET r == Lowest(pfd)  t == Open(pfd, "reader")
             IN local' = [local EXCEPT !.r = r, !.w = Lowest(t)] /\ pfd' = Open(t, "writer")
          /\ UNCHANGED <<cpc, cfd>>
    /\ UNCHANGED <<input, said, pipe, fn, broken, other, ret, log>>

OpenErr ==
    /\ pc = "childerr"
    /\ \/ Free(pfd) = {} /\ Fails({local.r, local.w, local.in})
       \/ /\ Free(pfd) # {}
          /\ pc' = "fork"
          /\ local' = [local EXCEPT !.err = Lowest(pfd)]
          /\ pfd' = Open(pfd, "nullout")
          /\ UNCHANGED <<cpc, cfd>>
    /\ UNCHANGED <<input, said, pipe, fn, broken, other, ret, log>>

\* Slip: the parent keeps its copy of the writing end.
ForkKeeping ==
    /\ pc = "fork"
    /\ \/ Fails({local.err, local.r, local.w, local.in})
       \/ /\ pc' = "read" /\ cpc' = "stdin" /\ cfd' = pfd
          /\ pfd' = Close(pfd, {local.in, local.err})
          /\ UNCHANGED local
    /\ UNCHANGED <<input, said, pipe, fn, broken, other, ret, log>>

\* The parent closes the child's ends before it reads.
Fork ==
    /\ pc = "fork"
    /\ \/ Fails({local.err, local.r, local.w, local.in})
       \/ /\ pc' = "read" /\ cpc' = "stdin" /\ cfd' = pfd
          /\ pfd' = Close(pfd, {local.in, local.w, local.err})
          /\ UNCHANGED local
    /\ UNCHANGED <<input, said, pipe, fn, broken, other, ret, log>>

-----------------------------------------------------------------------------
(* The child, up to the exec and as the script *)

\* The end of a process closes its descriptors.
Exits == cpc' = "zombie" /\ cfd' = [f \in Fds |-> Closed]

\* close(to); dup(from), which takes the lowest free descriptor; close(from).
Moves(t, from, to, next) ==
    LET c == Close(t, {to})
    IN \/ from = to /\ cfd' = t /\ cpc' = next
       \/ from # to /\ Lowest(c) # to /\ Exits
       \/ /\ from # to /\ Lowest(c) = to
          /\ cfd' = Close([c EXCEPT ![to] = c[from]], {from})
          /\ cpc' = next

Stdin ==
    /\ cpc = "stdin"
    /\ Moves(Close(cfd, {local.r}), local.in, 0, "stdout")
    /\ UNCHANGED <<pc, parent, input, said, pipe, fn, broken, other, ret, log>>

Stdout ==
    /\ cpc = "stdout"
    /\ Moves(cfd, local.w, 1, "stderr")
    /\ UNCHANGED <<pc, parent, input, said, pipe, fn, broken, other, ret, log>>

\* Slip: childerr stays open when errors are not discarded.
StderrLeaking ==
    /\ cpc = "stderr"
    /\ \/ discard /\ Moves(cfd, local.err, 2, "exec")
       \/ ~discard /\ cpc' = "exec" /\ UNCHANGED cfd
    /\ UNCHANGED <<pc, parent, input, said, pipe, fn, broken, other, ret, log>>

Stderr ==
    /\ cpc = "stderr"
    /\ \/ discard /\ Moves(cfd, local.err, 2, "exec")
       \/ /\ ~discard
          /\ cpc' = "exec"
          /\ cfd' = IF local.err # 2 THEN Close(cfd, {local.err}) ELSE cfd
    /\ UNCHANGED <<pc, parent, input, said, pipe, fn, broken, other, ret, log>>

Exec ==
    /\ cpc = "exec"
    /\ \/ cpc' = "script" /\ UNCHANGED cfd
       \/ Exits                               \* no such script
    /\ UNCHANGED <<pc, parent, input, said, pipe, fn, broken, other, ret, log>>

\* The script prints the next piece; without a reader it dies of SIGPIPE.
Write ==
    /\ cpc = "script" /\ said < Len(plan)
    /\ \/ /\ ~Has(pfd, "reader") /\ ~Has(cfd, "reader")
          /\ Exits
          /\ UNCHANGED <<pipe, said>>
       \/ /\ Has(pfd, "reader") \/ Has(cfd, "reader")
          /\ Len(pipe) < PipeSize
          /\ pipe' = Append(pipe, plan[said + 1])
          /\ said' = said + 1
          /\ UNCHANGED <<cpc, cfd>>
    /\ UNCHANGED <<pc, parent, input, fn, broken, other, ret, log>>

\* It ends, or closes its stdout and goes on for a while.
Finish ==
    /\ \/ cpc = "script" /\ said = Len(plan) /\ Exits
       \/ cpc = "script" /\ said = Len(plan) /\ cpc' = "quiet" /\ cfd' = Close(cfd, {1})
       \/ cpc = "quiet" /\ Exits
    /\ UNCHANGED <<pc, parent, input, said, pipe, fn, broken, other, ret, log>>

OtherEnds ==
    /\ other = "running" /\ other' = "zombie"
    /\ UNCHANGED <<pc, parent, child, input, pipe, fn, broken, ret, log>>

-----------------------------------------------------------------------------
(* The program, from the read on *)

EndOfFile == pipe = <<>> /\ ~Has(pfd, "writer") /\ ~Has(cfd, "writer")
Hangs     == pfd' = Close(pfd, {local.r}) /\ pc' = "wait"

\* Slip: a short read is taken for the last one.
ReadShort ==
    /\ pc = "read"
    /\ \/ /\ pipe # <<>>
          /\ LET n == IF Len(pipe) < BufSize THEN Len(pipe) ELSE BufSize
             IN /\ fn' = fn \o SubSeq(pipe, 1, n)
                /\ pipe' = SubSeq(pipe, n + 1, Len(pipe))
                /\ IF n < BufSize THEN Hangs ELSE UNCHANGED <<pc, pfd>>
       \/ EndOfFile /\ Hangs /\ UNCHANGED <<fn, pipe>>
    /\ UNCHANGED <<local, child, input, broken, other, ret, log>>

\* The loop over read(), which an interrupted call only repeats.  It waits while the pipe is
\* empty and somebody may still write to it.
Read ==
    /\ pc = "read"
    /\ \/ /\ pipe # <<>>
          /\ LET n == IF Len(pipe) < BufSize THEN Len(pipe) ELSE BufSize
             IN /\ fn' = fn \o SubSeq(pipe, 1, n)
                /\ pipe' = SubSeq(pipe, n + 1, Len(pipe))
          /\ UNCHANGED <<pc, pfd>>
       \/ EndOfFile /\ Hangs /\ UNCHANGED <<fn, pipe>>
    /\ UNCHANGED <<local, child, input, broken, other, ret, log>>

\* A read() may fail at any time, and need not.
ReadFails ==
    /\ pc = "read"
    /\ Hangs /\ broken' = TRUE
    /\ UNCHANGED <<local, child, input, pipe, fn, other, ret, log>>

\* wait(NULL) takes any child that has ended.
Wait ==
    /\ pc = "wait" /\ pc' = "result"
    /\ \/ cpc = "zombie" /\ cpc' = "reaped" /\ UNCHANGED other
       \/ other = "zombie" /\ other' = "reaped" /\ UNCHANGED cpc
    /\ UNCHANGED <<parent, cfd, said, input, pipe, fn, broken, ret, log>>

\* Without its trailing newlines, what was printed must name a readable file.
Stripped == SubSeq(fn, 1, CHOOSE n \in 0..Len(fn) :
                              /\ \A i \in n + 1 .. Len(fn) : fn[i] = Newline
                              /\ n = 0 \/ fn[n] # Newline)

Result ==
    /\ pc = "result"
    /\ \/ Stripped = Name /\ ret' = TRUE /\ pc' = "done"    \* kpathsea_db_insert
       \/ ret' = FALSE /\ pc' = "misstex"                   \* nothing, or not readable
    /\ UNCHANGED <<parent, child, input, pipe, fn, broken, other, log>>

\* Only fonts are logged, and nothing where errors are discarded.  With
\* MISSFONT_LOG empty or 0 the name is a null pointer, which
\* kpathsea_absolute_p dereferences.
MissTex ==
    /\ pc = "misstex"
    /\ \E font \in BOOLEAN, setting \in {"unset", "name", "off"} :
          IF ~font \/ discard THEN pc' = "done" /\ UNCHANGED log
          ELSE IF setting = "off" THEN pc' = "crashed" /\ UNCHANGED log
          ELSE pc' = "done" /\ log' \in {"cwd", "texmfoutput", "none"}
    /\ UNCHANGED <<parent, child, input, pipe, fn, broken, other, ret>>

Program == OpenIn \/ Pipe \/ OpenErr \/ Fork \/ Read \/ Wait \/ Result \/ MissTex
Child   == Stdin \/ Stdout \/ Stderr \/ Exec \/ Write \/ Finish

\* Nothing is left to do once maketex() has returned and the children ended.
Next == Program \/ ReadFails \/ Child \/ OtherEnds

\* Both processes are run; a script that can go on does, and comes to its end.  Nothing makes a
\* read() fail: one that waits goes on only when there is something to read or no writer is left.
Spec == Init /\ [][Next]_vars /\ WF_vars(Program) /\ WF_vars(Child)

-----------------------------------------------------------------------------
(* Properties *)

TypeOK ==
    /\ pc \in {"childin", "childout", "childerr", "fork", "read", "wait", "result",
               "misstex", "done", "crashed"}
    /\ pfd \in Table /\ before \in Table /\ cfd \in Table
    /\ local \in [in : Fds, r : Fds, w : Fds, err : Fds]
    /\ cpc \in {"none", "stdin", "stdout", "stderr", "exec", "script", "quiet",
                "zombie", "reaped"}
    /\ said \in 0..Len(plan) /\ Len(pipe) <= PipeSize /\ Len(fn) <= Len(plan)
    /\ {broken, discard, ret} \subseteq BOOLEAN
    /\ other \in {"none", "running", "zombie", "reaped"}
    /\ log \in {"none", "cwd", "texmfoutput"}

\* The script gets /dev/null, the pipe, and the program's stderr (or /dev/null
\* when errors are discarded), and of the descriptors maketex() opens no other:
\* "the order in which we do this matters", whichever of 0, 1 and 2 the program
\* itself was started with (tex-make.c:330-371).
ScriptWired ==
    cpc = "script" =>
        cfd = [f \in Fds |-> CASE f = 0 -> "null"
                               [] f = 1 -> "writer"
                               [] f = 2 /\ discard -> "nullout"
                               [] OTHER -> before[f]]

\* However maketex() comes to its end, at whichever call it ran out of
\* descriptors, it leaves the program with those it had.
NothingLeaked == pc \in {"wait", "result", "misstex", "done", "crashed"} => pfd = before

\* A script is seen out: unless a read() fails, the program has all that the
\* script printed, or nothing if there was no script to run; and no script is
\* left behind, unless wait() took another child in its place.
SeenOut ==
    /\ pc \in {"wait", "result", "misstex", "done"} /\ ~broken => fn \in {<<>>, plan}
    /\ pc \in {"result", "done"} => cpc \in {"none", "reaped"} \/ other = "reaped"

\* maketex() returns: the program and its script never wait for each other for
\* good, however small the pipe is, whatever the script prints and whether or
\* not a read() fails: the program has closed its own writer's end before it
\* reads, the script has no reader's end, and its writer's end goes with it.
Returns == <>(pc \in {"done", "crashed"})

\* A program whose user wants no missfont.log ("user requested no
\* missfont.log", tex-make.c:117) goes on without one.
NoLogNoHarm == pc # "crashed"
=============================================================================
