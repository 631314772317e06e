----------------------------- MODULE OpenClose -----------------------------
(***************************************************************************)
(* How the TeX programs open and close files: lib/openclose.c, which looks *)
(* in the output directory and falls back on $TEXMFOUTPUT, lib/texmfmp.c,  *)
(* which lets a name starting with `|' be a command, and the parts of      *)
(* tex.web and tex.ch that call them for \input, \openin and \openout.     *)
(*                                                                         *)
(* A FILE * is a member of Handles: fclose gives it back to malloc and a   *)
(* later fopen or popen may return it again, which is what the table of    *)
(* pipes, searched by FILE *, has to live with.                            *)
(***************************************************************************)
EXTENDS Naturals, Sequences, FiniteSets, SequencesExt

CONSTANTS
  Handles,     \* the FILE * values malloc hands out
  Names,       \* names of files, relative
  Bare,        \* those without an extension
  Tex,         \* a name with no suffix of TeX's, like .tex or .aux -> the name
               \* with .tex added
  Commands,    \* names that start with `|', the bar taken off
  Words,       \* the commands of one word, with no blank and no `>'
  Reads,       \* \openin streams, 0..15 in the program
  NumWrites,   \* \openout streams, 16 in the program
  NumPipes,    \* NUM_PIPES, 16 in the program
  MaxInput,    \* bound: \input levels
  MaxOpens,    \* bound: files and pipes opened in a run
  NULL

ASSUME OpenCloseAssumption ==
  /\ Words \subseteq Commands /\ Names \cap Commands = {}
  /\ DOMAIN Tex \subseteq Names /\ Bare \subseteq DOMAIN Tex
  /\ \A n \in DOMAIN Tex : Tex[n] \in Names \ DOMAIN Tex
  /\ NumPipes \in Nat \ {0} /\ NumWrites \in Nat
  /\ MaxInput \in Nat /\ MaxOpens \in Nat
  /\ NULL \notin Handles /\ IsFiniteSet(Handles)

Writes == 0 .. NumWrites - 1

VARIABLES
  setup,   \* what the command line, the environment and the disk allow
  io,      \* the C library's side: handles, pipes[], the disk
  wopen,   \* write_open
  wfile,   \* write_file
  rfile,   \* read_file[n] where read_open[n] is not closed, NULL elsewhere
  stack,   \* cur_file of each \input level, outermost first
  phase    \* "run", "dying" (close_files_and_terminate is next), "dead" or
           \* "aborted" (xfopen)

vars == <<setup, io, wopen, wfile, rfile, stack, phase>>

(* The current directory, the output directory, $TEXMFOUTPUT and a texmf   *)
(* tree.  A version is 0 for no file, 1 for one from before the run, and   *)
(* k+1 for what the k-th opening of this run writes.                       *)
Places == {"here", "out", "spill", "tree"}
Versions == 0 .. MaxOpens + 1

NoFile == [kind |-> "closed"]
IsOpen(h) == io.files[h].kind # "closed"
Piped(f) == f.kind = "pipe"

(* A line of the recorder: INPUT or OUTPUT, and the place and the name.    *)
(* Each opening has its line with it, as `told'.                           *)
Entry(dir, where, n) == <<dir, where, n>>
Garbled(dir) == <<dir, "garbled", NULL>>

-----------------------------------------------------------------------------
(* The C library and the tables of this code.  io is passed through, as    *)
(* one call may close, open and record.                                    *)

(* fopen or popen gives a handle. *)
Fopen(s, h, f) == [s EXCEPT !.count = @ + 1, !.files[h] = f]

OpenPipes(s) == {h \in Handles : Piped(s.files[h])}

(* Slip: the loop stops one short of the table's end. *)
EnlistShort(s, h) ==
  LET free == {i \in 1 .. NumPipes - 1 : s.pipes[i] = NULL}
  IN IF free = {} THEN s
     ELSE [s EXCEPT !.pipes[CHOOSE i \in free : \A j \in free : i <= j] = h]

(* The first free slot of pipes[] takes the new pipe; if there is none the *)
(* pipe goes unrecorded.                                                   *)
Enlist(s, h) ==
  LET free == {i \in 1 .. NumPipes : s.pipes[i] = NULL}
  IN IF free = {} THEN s
     ELSE [s EXCEPT !.pipes[CHOOSE i \in free : \A j \in free : i <= j] = h]

(* fclose and pclose.  pclose waits for the command; a handle that is not  *)
(* open any more, or a plain file given to pclose, is undefined behaviour. *)
(* A pipe closed without waiting is remembered with what there was of room *)
(* when it was opened.                                                     *)
Release(s, h, waits) ==
  LET f == s.files[h]
      freed == [s EXCEPT !.files[h] = NoFile]
  IN CASE f.kind = "closed" -> [s EXCEPT !.faults = @ \cup {"twice"}]
       [] f.kind = "pipe" ->
            IF waits THEN freed
            ELSE [freed EXCEPT !.unawaited = @ \cup {f.crowd}]
       [] f.kind \in {"in", "out"} /\ waits ->
            [freed EXCEPT !.faults = @ \cup {"astray"}]
       [] f.kind = "in" /\ ~waits -> freed
       [] OTHER ->
            [freed EXCEPT !.written[f.name] =
               IF s.disk[f.where][f.name] = f.id + 1
               THEN <<f.where, f.id + 1>> ELSE <<"here", 0>>]

(* Slip: the slot is not given back. *)
CloseKeeping(s, h) ==
  LET at == {i \in 1 .. NumPipes : s.pipes[i] = h}
  IN Release(s, h, setup.shell /\ at # {})

(* close_file_or_pipe: pclose for what the table has, fclose for the rest. *)
(* With shell escapes off the table is not looked at.                      *)
Close(s, h) ==
  LET at == {i \in 1 .. NumPipes : s.pipes[i] = h}
  IN IF setup.shell /\ at # {}
     THEN [Release(s, h, TRUE) EXCEPT
             !.pipes[CHOOSE i \in at : \A j \in at : i <= j] = NULL]
     ELSE Release(s, h, FALSE)

(* Closing one after the other those that are not NULL. *)
CloseAll(s, hs) ==
  LET closed[i \in 0 .. Len(hs)] ==
        IF i = 0 THEN s
        ELSE IF hs[i] = NULL THEN closed[i - 1] ELSE Close(closed[i - 1], hs[i])
  IN  closed[Len(hs)]

-----------------------------------------------------------------------------
(* Opening.  Every operator here gives <<io, handle or NULL>>; h is the    *)
(* FILE * the C library would return.                                      *)

(* runpopen and the recording and enlisting around it.  The command starts *)
(* unless it is refused or fork fails.  A reading pipe is recorded before  *)
(* it is started and whether or not it starts.  A writing one is recorded  *)
(* after; for one word, `.' is put over the null byte at the end (back     *)
(* over the one that replaced ".tex", if it did), so that the name has no  *)
(* end unless it was that ".tex" that was cut: undotted says it was not.   *)
OpenPipe(s, c, dir, h, starts, undotted) ==
  LET f == [kind |-> "pipe", id |-> s.count + 1, asked |-> c, name |-> c,
            where |-> "pipe", dir |-> dir, want |-> <<"here", 0>>, got |-> 0,
            crowd |-> Cardinality(OpenPipes(s)),
            told |-> IF dir = "OUTPUT" /\ c \in Words /\ undotted
                     THEN Garbled(dir) ELSE Entry(dir, "pipe", c)]
  IN IF starts THEN <<Enlist(Fopen(s, h, f), h), h>> ELSE <<s, NULL>>

(* kpse_find_file looks for a name with .tex added and as it is; only as   *)
(* it is if it ends in a suffix of TeX's.  Without an extension, or with   *)
(* try_std_extension_first, the added one comes first.                     *)
Targets(n) ==
  IF n \notin DOMAIN Tex THEN <<n>>
  ELSE IF n \in Bare \/ setup.stdfirst THEN <<Tex[n], n>> ELSE <<n, Tex[n]>>

(* The path has the current directory first.                               *)
OnPath(n) ==
  LET t == Targets(n)
  IN  [i \in 1 .. Len(t) |-> <<"here", t[i]>>] \o [i \in 1 .. Len(t) |-> <<"tree", t[i]>>]

(* The output directory has the name as it is or not at all.               *)
InOutput(n) == IF setup.outdir THEN <<<<"out", n>>>> ELSE <<>>

There(s, p) == s.disk[p[1]][p[2]] # 0
FirstThere(s, look) ==
  LET first == SelectInSeq(look, LAMBDA p : There(s, p))
  IN IF first = 0 THEN NULL ELSE look[first]

(* Slip: the path first, the output directory for what it lacks. *)
FoundLate(s, n) == FirstThere(s, OnPath(n) \o InOutput(n))

(* Where and under what name a file is found. *)
Found(s, n) == FirstThere(s, InOutput(n) \o OnPath(n))

(* The name of what \openout makes: out_what adds .tex to a name that has  *)
(* no extension, \input and \openin do not.                                *)
WrittenAs(n) == IF n \in Bare THEN Tex[n] ELSE n

(* open_input.  Nothing is recorded for a name that is not found.          *)
OpenInput(s, n, h) ==
  LET p == Found(s, n)
      f == [kind |-> "in", id |-> s.count + 1, asked |-> n, name |-> p[2],
            where |-> p[1], dir |-> "INPUT", want |-> s.written[WrittenAs(n)],
            got |-> s.disk[p[1]][p[2]], crowd |-> 0,
            told |-> Entry("INPUT", p[1], p[2])]
  IN IF p = NULL THEN <<s, NULL>> ELSE <<Fopen(s, h, f), h>>

(* When fopen fails, for want of descriptors, say, what the output         *)
(* directory has is passed over; xfopen is fatal for what the path has.    *)
Fatal(s, n) == n \in Names /\ FirstThere(s, OnPath(n)) # NULL

(* open_output: as asked, in the output directory if there is one, and in  *)
(* $TEXMFOUTPUT if that fails.  fopen leaves an empty file.  The name it   *)
(* was opened by is recorded.                                              *)
Asked == IF setup.outdir THEN "out" ELSE "here"
Granted == IF setup.writable THEN Asked
           ELSE IF setup.texmfoutput THEN "spill" ELSE NULL

OutputAt(s, p, n, h) ==
  LET f == [kind |-> "out", id |-> s.count + 1, asked |-> n, name |-> n, where |-> p,
            dir |-> "OUTPUT", want |-> <<"here", 0>>, got |-> 0, crowd |-> 0,
            told |-> Entry("OUTPUT", p, n)]
  IN [Fopen(s, h, f) EXCEPT
        !.disk[p][n] = s.count + 2, !.written[n] = <<"here", 0>>]

OpenOutput(s, n, h) ==
  IF Granted = NULL THEN <<s, NULL>>
  ELSE <<OutputAt(s, Granted, WrittenAs(n), h), h>>

(* open_in_or_pipe and open_out_or_pipe.  With shell escapes off a name    *)
(* that starts with `|' is the name of a file, one of Names like others.   *)
Usable == Names \cup (IF setup.shell THEN Commands ELSE {})

InOrPipe(s, n, h, starts) ==
  IF n \in Names THEN OpenInput(s, n, h) ELSE OpenPipe(s, n, "INPUT", h, starts, FALSE)

OutOrPipe(s, n, h, starts, undotted) ==
  IF n \in Names THEN OpenOutput(s, n, h)
  ELSE OpenPipe(s, n, "OUTPUT", h, starts, undotted)

-----------------------------------------------------------------------------
(* TeX's side.                                                             *)

Running == phase = "run" /\ io.count < MaxOpens
Free(s) == {h \in Handles : s.files[h].kind = "closed"}

(* open_out_or_pipe, with any free handle and any outcome of starting a    *)
(* command.                                                                *)
Tried(s, n) ==
  {OutOrPipe(s, n, h, starts, undotted) :
     h \in Free(s), starts \in BOOLEAN, undotted \in BOOLEAN}

(* One try at \openout, which had been `old' in write_file: what becomes   *)
(* of io, of write_file, and whether it worked.  kpse_out_name_ok may      *)
(* refuse the name, and then nothing is called that would set write_file.  *)
TryOut(s, n, old) ==
  {<<s, old, FALSE>>} \cup {<<r[1], r[2], r[2] # NULL>> : r \in Tried(s, n)}

(* A name that cannot be had is asked for again, which is another try, or  *)
(* in nonstop mode ends the job.                                           *)
After(worked) == phase' \in (IF worked THEN {"run"} ELSE {"run", "dying"})

(* Slip: tex.web's own order, in which the stream counts as open until the *)
(* new file is there.                                                      *)
OpenOutStale(j, n) ==
  /\ Running /\ n \in Usable
  /\ \E r \in TryOut(IF wopen[j] THEN Close(io, wfile[j]) ELSE io, n, wfile[j]) :
       /\ io' = r[1]
       /\ wfile' = [wfile EXCEPT ![j] = r[2]]
       /\ wopen' = [wopen EXCEPT ![j] = @ \/ r[3]]
       /\ After(r[3])
  /\ UNCHANGED <<setup, rfile, stack>>

(* Slip: the file the stream had is not closed. *)
OpenOutOver(j, n) ==
  /\ Running /\ n \in Usable
  /\ \E r \in TryOut(io, n, wfile[j]) :
       /\ io' = r[1]
       /\ wfile' = [wfile EXCEPT ![j] = r[2]]
       /\ wopen' = [wopen EXCEPT ![j] = r[3]]
       /\ After(r[3])
  /\ UNCHANGED <<setup, rfile, stack>>

(* out_what for \openout: a stream in use is closed first, and is marked   *)
(* closed before the new file is tried.                                    *)
OpenOut(j, n) ==
  /\ Running /\ n \in Usable
  /\ \E r \in TryOut(IF wopen[j] THEN Close(io, wfile[j]) ELSE io, n, wfile[j]) :
       /\ io' = r[1]
       /\ wfile' = [wfile EXCEPT ![j] = r[2]]
       /\ wopen' = [wopen EXCEPT ![j] = r[3]]
       /\ After(r[3])
  /\ UNCHANGED <<setup, rfile, stack>>

(* out_what for \closeout *)
CloseOut(j) ==
  /\ phase = "run" /\ wopen[j]
  /\ io' = Close(io, wfile[j])
  /\ wopen' = [wopen EXCEPT ![j] = FALSE]
  /\ UNCHANGED <<setup, wfile, rfile, stack, phase>>

(* One try to open for reading: what becomes of io, of the FILE * and of   *)
(* the phase.  kpse_in_name_ok may refuse the name, fopen may fail.        *)
TryIn(s, n) ==
  {<<r[1], r[2], "run">> : r \in {InOrPipe(s, n, h, starts) :
                                    h \in Free(s), starts \in BOOLEAN}}
    \cup {<<s, NULL, "run">>}
    \cup (IF Fatal(s, n) THEN {<<s, NULL, "aborted">>} ELSE {})

(* open_or_close_in, for \openin.  What cannot be opened leaves the stream *)
(* closed.                                                                 *)
OpenIn(k, n) ==
  /\ Running /\ n \in Usable
  /\ \E r \in TryIn(IF rfile[k] # NULL THEN Close(io, rfile[k]) ELSE io, n) :
       /\ io' = r[1]
       /\ rfile' = [rfile EXCEPT ![k] = r[2]]
       /\ phase' = r[3]
  /\ UNCHANGED <<setup, wopen, wfile, stack>>

(* \closein, and \read at the end of the file. *)
CloseIn(k) ==
  /\ phase = "run" /\ rfile[k] # NULL
  /\ io' = Close(io, rfile[k])
  /\ rfile' = [rfile EXCEPT ![k] = NULL]
  /\ UNCHANGED <<setup, wopen, wfile, stack, phase>>

(* start_input, for \input: the level that did not work is taken off, and  *)
(* another name asked for, or the job ended.                               *)
Input(n) ==
  /\ Running /\ n \in Usable /\ Len(stack) < MaxInput
  /\ \E r \in TryIn(io, n) :
       /\ io' = r[1]
       /\ stack' = IF r[2] = NULL THEN stack ELSE Append(stack, r[2])
       /\ IF r[3] = "aborted" THEN phase' = "aborted" ELSE After(r[2] # NULL)
  /\ UNCHANGED <<setup, wopen, wfile, rfile>>

(* end_file_reading, at the end of the file or \endinput. *)
EndInput ==
  /\ phase = "run" /\ stack # <<>>
  /\ io' = Close(io, Last(stack))
  /\ stack' = Front(stack)
  /\ UNCHANGED <<setup, wopen, wfile, rfile, phase>>

(* final_cleanup closes the \input levels, innermost first.  \openin files *)
(* are left open.                                                          *)
FinalCleanup ==
  /\ phase = "run"
  /\ io' = CloseAll(io, Reverse(stack))
  /\ stack' = <<>>
  /\ phase' = "dying"
  /\ UNCHANGED <<setup, wopen, wfile, rfile>>

(* close_files_and_terminate: the \openout files that are open. *)
CloseFilesAndTerminate ==
  /\ phase = "dying"
  /\ io' = CloseAll(io, [i \in 1 .. NumWrites |-> IF wopen[i - 1] THEN wfile[i - 1] ELSE NULL])
  /\ phase' = "dead"
  /\ UNCHANGED <<setup, wopen, wfile, rfile, stack>>

-----------------------------------------------------------------------------
(* writable is of the place output is asked to go to; texmfoutput says     *)
(* that $TEXMFOUTPUT is set and can be written to.  The places may have    *)
(* files from before the run.                                              *)
Setups == [outdir : BOOLEAN, writable : BOOLEAN, texmfoutput : BOOLEAN,
           shell : BOOLEAN, stdfirst : BOOLEAN]

Init ==
  /\ setup \in Setups
  /\ \E stale \in {{}, {"tree"}, {"here", "out", "tree"}} :
       io = [files |-> [h \in Handles |-> NoFile], count |-> 0,
             pipes |-> [i \in 1 .. NumPipes |-> NULL],
             disk |-> [p \in Places |-> [n \in Names |-> IF p \in stale THEN 1 ELSE 0]],
             written |-> [n \in Names |-> <<"here", 0>>],
             unawaited |-> {}, faults |-> {}]
  /\ wopen = [j \in Writes |-> FALSE] /\ wfile = [j \in Writes |-> NULL]
  /\ rfile = [k \in Reads |-> NULL] /\ stack = <<>> /\ phase = "run"

Next ==
  \/ \E j \in Writes : CloseOut(j) \/ \E n \in Names \cup Commands : OpenOut(j, n)
  \/ \E k \in Reads : CloseIn(k) \/ \E n \in Names \cup Commands : OpenIn(k, n)
  \/ \E n \in Names \cup Commands : Input(n)
  \/ EndInput
  \/ FinalCleanup
  \/ CloseFilesAndTerminate

Spec == Init /\ [][Next]_vars

-----------------------------------------------------------------------------
Opened == [kind : {"in", "out", "pipe"}, asked : Names \cup Commands,
           name : Names \cup Commands, where : Places \cup {"pipe"},
           dir : {"INPUT", "OUTPUT"},
           want : Places \X Versions, got : Versions, crowd : Nat,
           told : {"INPUT", "OUTPUT"} \X (Places \cup {"pipe", "garbled"})
                    \X (Names \cup Commands \cup {NULL}),
           id : 1 .. MaxOpens]

Library == [files : [Handles -> Opened \cup {NoFile}], count : 0 .. MaxOpens,
            pipes : [1 .. NumPipes -> Handles \cup {NULL}],
            disk : [Places -> [Names -> Versions]],
            written : [Names -> Places \X Versions],
            unawaited : SUBSET Nat, faults : SUBSET {"twice", "astray"}]

TypeOK ==
  /\ setup \in Setups
  /\ io \in Library
  /\ wopen \in [Writes -> BOOLEAN]
  /\ wfile \in [Writes -> Handles \cup {NULL}]
  /\ rfile \in [Reads -> Handles \cup {NULL}]
  /\ stack \in Seq(Handles) /\ Len(stack) <= MaxInput
  /\ phase \in {"run", "dying", "dead", "aborted"}

(* TeX and the C library agree on what is open: until the job is over each *)
(* open handle belongs to one stream or level, and no stream or level has  *)
(* a handle that was closed under it, after a fatal error as well.  When   *)
(* the job is over no output file is left open.                            *)
Held == [j \in {j \in Writes : wopen[j]} |-> wfile[j]]
Owners(h) ==
  {<<"out", j>> : j \in {j \in DOMAIN Held : Held[j] = h}}
    \cup {<<"in", k>> : k \in {k \in Reads : rfile[k] = h}}
    \cup {<<"level", l>> : l \in {l \in DOMAIN stack : stack[l] = h}}
Owned ==
  /\ phase # "dead" =>
       \A h \in Handles : Cardinality(Owners(h)) = IF IsOpen(h) THEN 1 ELSE 0
  /\ phase = "dead" => \A j \in DOMAIN Held : ~IsOpen(Held[j])

(* No FILE * is closed a second time, and pclose is never called on a file *)
(* that happens to have got the FILE * of an earlier pipe.                 *)
ClosedOnce == io.faults = {}

(* A command is waited for when its pipe is closed, unless NumPipes pipes  *)
(* were open already when it was started: the table has no hole.           *)
PipesAwaited == \A crowd \in io.unawaited : crowd >= NumPipes

(* What the run wrote and closed under a name is what it reads back under  *)
(* that name, whatever files of that name and of the name with .tex are in *)
(* the other places, so long as the file went where it was asked to go.    *)
(* But a name without an extension is not read back from an output         *)
(* directory, and without one a name with an extension that is not TeX's   *)
(* gives way to the one with .tex, if try_std_extension_first says so.     *)
Reread(n) ==
  /\ n \in Bare => ~setup.outdir
  /\ n \in DOMAIN Tex \ Bare => setup.outdir \/ ~setup.stdfirst
ReadBack ==
  \A h \in Handles :
    LET f == io.files[h]
    IN f.kind = "in" /\ f.want[2] # 0 /\ f.want[1] = Asked /\ Reread(f.asked)
       => f.got = f.want[2]

(* -recorder's trace has each file that was opened, under the name it was  *)
(* found or made under, and each command: one-word commands to write to    *)
(* excepted, of which see TracedAll.                                       *)
TraceTrue ==
  \A h \in Handles :
    LET f == io.files[h]
    IN IsOpen(h) => f.told = Entry(f.dir, f.where, f.name)
                    \/ (f.dir = "OUTPUT" /\ f.name \in Words)

(* What is not so. *)

(* texmfmp.c: pipes have to be closed using pclose().  The table for that  *)
(* has room for 16, while there are 32 streams and the \input levels.      *)
EveryPipeAwaited == io.unawaited = {}

(* tex.man: TEXMFOUTPUT is also checked for input files.                   *)
ReadBackAnywhere ==
  \A h \in Handles :
    LET f == io.files[h]
    IN f.kind = "in" /\ f.want[2] # 0 /\ Reread(f.asked) => f.got = f.want[2]

(* openclose.c: files get written to the output directory, and we have to  *)
(* be able to read them from there.                                        *)
ReadBackByName ==
  \A h \in Handles :
    LET f == io.files[h]
    IN f.kind = "in" /\ f.want[2] # 0 /\ f.want[1] = "out" => f.got = f.want[2]

(* web2c.texi: TEXMFOUTPUT is for when there is no output directory.       *)
SpillOnlyUndirected ==
  setup.outdir => \A n \in Names : io.disk["spill"][n] = 0

(* The trace has every command as well. *)
TracedAll ==
  \A h \in Handles :
    LET f == io.files[h]
    IN IsOpen(h) => f.told = Entry(f.dir, f.where, f.name)
=============================================================================
