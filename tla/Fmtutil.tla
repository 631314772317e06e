------------------------------ MODULE Fmtutil ------------------------------
(***************************************************************************)
(* fmtutil and mktexfmt.  A command builds the formats it selects one by   *)
(* one, in a directory of its own, and installs them; an engine that does  *)
(* not find the format its own format is built on has kpathsea run         *)
(* mktexfmt, which is the same program, and so on.                         *)
(***************************************************************************)
EXTENDS FmtCnf

CONSTANTS Needing,      \* what an entry may be built on: entry -> format or ""
          Dir,          \* engine -> directory of its formats; several may share one
          Ext,          \* engine -> extension of its formats
          Dests,        \* what may be installed at first
          Commands,     \* the commands that build: [what, arg, strict, flat]
          MaxEdits,     \* changes of the configuration
          MaxBuilds     \* commands that build formats


VARIABLES needs,     \* the choice made of Needing
          edit,      \* the last change: <<>> or <<entry, on>>
          dest,      \* the entry whose dump is installed at a place, or None
          procs,     \* the programs running, outermost first
          leftover,  \* places that got the dump of another engine than asked
          edits,     \* changes made
          builds     \* commands given
vars == <<conf, needs, edit, dest, procs, leftover, edits, builds>>

None     == <<>>
Formats  == {p[1] : p \in Entries}
Engines  == {p[2] : p \in Entries}

\* A dump is named for its format, with the engine's extension, and belongs in
\* the engine's directory, or above with --no-engine-subdir.
Name(p)     == <<p[1], Ext[p[2]]>>
Names       == {<<f, Ext[e]>> : f \in Formats, e \in Engines}
PlacesOf(p) == {<<"", Name(p)>>, <<Dir[p[2]], Name(p)>>}
Places      == UNION {PlacesOf(p) : p \in Entries}
Belongs(d, w) == d[w] = None \/ w \in PlacesOf(d[w])

EmptyDir == [n \in Names |-> None]
Selections == {"all", "missing", "refresh", "byfmt", "byengine"}

ASSUME FmtutilAssumption ==
    /\ Needing \subseteq [Entries -> Formats \cup {""}]
    /\ Commands \subseteq [what : Selections, arg : Formats \cup Engines \cup {""},
                          strict : BOOLEAN, flat : BOOLEAN]
    /\ Dir \in [Engines -> STRING] /\ Ext \in [Engines -> STRING]
    /\ \A d \in Dests : /\ d \in [Places -> Entries \cup {None}]
                       /\ \A w \in Places : Belongs(d, w)
    /\ None \notin Entries
    /\ MaxEdits \in Nat /\ MaxBuilds \in Nat

Init ==
    /\ conf \in Confs /\ edit = <<>>
    /\ needs \in Needing
    /\ dest \in Dests
    /\ procs = <<>> /\ leftover = {} /\ edits = 0 /\ builds = 0

\* A program starts with the configuration read and a temporary directory.
Started(mk, c, loop) ==
    [mk |-> mk, what |-> c.what, arg |-> c.arg, strict |-> c.strict, flat |-> c.flat,
     todo |-> Defined(conf), cur |-> None, at |-> "choose", tmp |-> EmptyDir,
     loop |-> loop, printed |-> None, failed |-> {}]

Me == Last(procs)
Am(at) == procs # <<>> /\ Me.at = at
Becomes(me) == procs' = Append(Front(procs), me)
Fails(me) == [me EXCEPT !.at = "choose", !.cur = None, !.failed = @ \cup {me.cur}]
\* An engine that returns an error: --strict is the default.
EngineFails(me) == IF me.strict THEN Fails(me) ELSE [me EXCEPT !.at = "install"]
Quiet == UNCHANGED <<conf, needs, edit, edits, builds>>

-----------------------------------------------------------------------------
(* Commands *)

\* --enablefmt and --disablefmt
Edit ==
    /\ procs = <<>> /\ edits < MaxEdits /\ edits' = edits + 1
    /\ \E p \in Defined(conf), on \in BOOLEAN :
         /\ Enabled(conf, p) # on
         /\ conf' = Saved(conf, p, on) /\ edit' = <<p, on>>
    /\ UNCHANGED <<needs, dest, procs, leftover, builds>>

\* --all, --missing, --byfmt and --byengine, with and without --strict and
\* --no-engine-subdir
Build ==
    /\ procs = <<>> /\ builds < MaxBuilds /\ builds' = builds + 1
    /\ \E c \in Commands : procs' = <<Started(FALSE, c, {})>>
    /\ UNCHANGED <<conf, needs, edit, dest, leftover, edits>>

-----------------------------------------------------------------------------
(* Building one format *)

\* Slip: a format named as an engine goes to that engine's directory.
DestinationByName(flat, p) ==
    <<IF flat THEN "" ELSE Dir[IF p[1] \in Engines THEN p[1] ELSE p[2]], Name(p)>>

\* compute_format_destination(), which sends luatex-dev where luatex goes, and
\* all of mf, mflua and mf-nowin to one directory.
Destination(flat, p) == <<IF flat THEN "" ELSE Dir[p[2]], Name(p)>>

Installed(w) == IF w \in Places THEN dest[w] ELSE None

\* select_and_rebuild_format()
Selected(p) ==
    /\ Enabled(conf, p)
    /\ \/ Me.what = "all"
       \/ Me.what = "missing" /\ Installed(Destination(Me.flat, p)) = None
       \/ Me.what = "refresh" /\ Installed(Destination(Me.flat, p)) # None
       \/ Me.what = "byfmt" /\ p[1] = Me.arg
       \/ Me.what = "byengine" /\ p[2] = Me.arg

\* Slip: one round.
EligibleAtOnce == Me.todo

\* The first round has the formats named as their engine.
Eligible == LET own == {p \in Me.todo : p[1] = p[2]}
            IN IF own # {} THEN own ELSE Me.todo

\* Slip: the loop is looked for in fmtutil, not in mktexfmt.
LoopMissed(p) == ~Me.mk /\ p \in Me.loop

\* mktexfmt_loop: what this mktexfmt and those above it have begun.
Loop(p) == Me.mk /\ p \in Me.loop

\* There is no ini file, or no engine; or the engine is run.
Choose ==
    /\ Am("choose") /\ Me.todo # {}
    /\ \E p \in Eligible :
         LET me    == [Me EXCEPT !.todo = @ \ {p}]
             begun == [me EXCEPT !.loop = IF me.mk THEN @ \cup {p} ELSE @]
         IN IF ~Selected(p) THEN Becomes(me)
            ELSE \/ Becomes([me EXCEPT !.failed = @ \cup {p}])
                 \/ Loop(p) /\ Becomes([me EXCEPT !.at = "dead"])
                 \/ ~Loop(p) /\ Becomes([begun EXCEPT !.failed = @ \cup {p}])
                 \/ ~Loop(p) /\ Becomes([begun EXCEPT !.cur = p, !.at = "engine"])
    /\ Quiet /\ UNCHANGED <<dest, leftover>>

\* The directories of TEXFORMATS (MFBASES): the temporary ones, innermost first,
\* and then the engine's and the one above it.
InTmp(n) == LET i == SelectLastInSeq(procs, LAMBDA q : q.tmp[n] # None)
            IN IF i = 0 THEN None ELSE procs[i].tmp[n]
InDest(n) == LET own == Installed(<<Dir[Me.cur[2]], n>>)
             IN IF own # None THEN own ELSE Installed(<<"", n>>)
FoundFormat(n) == IF InTmp(n) # None THEN InTmp(n) ELSE InDest(n)

\* Slip: the engine asks again for what it did not get.
LoadsAtLast(me, made) == IF made # None /\ made[2] = me.cur[2]
                         THEN [me EXCEPT !.at = "dump"] ELSE [me EXCEPT !.at = "engine"]

\* An engine loads only what it dumped itself.
Loads(me, made) == IF made # None /\ made[2] = me.cur[2]
                   THEN [me EXCEPT !.at = "dump"] ELSE EngineFails(me)

\* The command of a mktexfmt; --no-engine-subdir is not handed down.
Mktexfmt(f) == [what |-> "byfmt", arg |-> f, strict |-> TRUE, flat |-> FALSE]

\* The engine looks for the format its own is built on.
Engine ==
    /\ Am("engine")
    /\ LET f == needs[Me.cur]  n == <<f, Ext[Me.cur[2]]>>
       IN IF f = "" THEN Becomes([Me EXCEPT !.at = "dump"])
          ELSE IF FoundFormat(n) # None THEN Becomes(Loads(Me, FoundFormat(n)))
          ELSE procs' = Append(Append(Front(procs), [Me EXCEPT !.at = "asking"]),
                               Started(TRUE, Mktexfmt(f), Me.loop))
    /\ Quiet /\ UNCHANGED <<dest, leftover>>

\* The engine ends, with or without a dump, with or without an error.
Dump ==
    /\ Am("dump")
    /\ \E wrote, error \in BOOLEAN :
         LET me == [Me EXCEPT !.tmp[Name(Me.cur)] = IF wrote THEN Me.cur ELSE @]
         IN Becomes(IF error THEN EngineFails(me) ELSE [me EXCEPT !.at = "install"])
    /\ Quiet /\ UNCHANGED <<dest, leftover>>

\* The file of that name in the temporary directory is copied, if there is
\* one; a copy that fails leaves nothing.  mktexfmt prints the first.
Install ==
    /\ Am("install")
    /\ LET p == Me.cur  made == Me.tmp[Name(p)]  w == Destination(Me.flat, p)
       IN \/ /\ made = None /\ Becomes(Fails(Me))
             /\ UNCHANGED <<dest, leftover>>
          \/ /\ made # None
             /\ Becomes([Me EXCEPT !.at = "choose", !.cur = None,
                           !.printed = IF Me.mk /\ @ = None THEN p ELSE @])
             /\ dest' = [v \in Places |-> IF v = w THEN made ELSE dest[v]]
             /\ leftover' = IF made # p THEN leftover \cup {w} ELSE leftover \ {w}
          \/ /\ made # None /\ Becomes(Fails(Me))
             /\ dest' = [v \in Places |-> IF v = w THEN None ELSE dest[v]]
             /\ leftover' = leftover \ {w}
    /\ Quiet

\* The program ends.  The engine that waited for mktexfmt takes what it printed.
End ==
    /\ \/ Am("choose") /\ Me.todo = {}
       \/ Am("dead")
    /\ IF Len(procs) = 1 THEN procs' = <<>>
       ELSE LET up  == Front(procs)
                got == IF Me.printed = None THEN None
                       ELSE Installed(Destination(Me.flat, Me.printed))
            IN procs' = Append(Front(up), Loads(Last(up), got))
    /\ Quiet /\ UNCHANGED <<dest, leftover>>

Run  == Choose \/ Engine \/ Dump \/ Install \/ End
Next == Edit \/ Build \/ Run

Spec == Init /\ [][Next]_vars /\ WF_vars(Run)

-----------------------------------------------------------------------------
Frames == [mk : BOOLEAN, what : Selections,
           arg : Formats \cup Engines \cup {""}, strict : BOOLEAN, flat : BOOLEAN,
           todo : SUBSET Entries, cur : Entries \cup {None},
           tmp : [Names -> Entries \cup {None}],
           at : {"choose", "engine", "asking", "dump", "install", "dead"},
           loop : SUBSET Entries, printed : Entries \cup {None}, failed : SUBSET Entries]

TypeOK ==
    /\ ConfOK(conf)
    /\ dest \in [Places -> Entries \cup {None}]
    /\ needs \in Needing /\ procs \in Seq(Frames)
    /\ \A i \in DOMAIN procs : i < Len(procs) <=> procs[i].at = "asking"
    /\ leftover \subseteq Places /\ edits \in 0..MaxEdits /\ builds \in 0..MaxBuilds

\* After --enablefmt or --disablefmt the next run sees the change and no other
\* change, and no line is lost, unless the file of changes was there and not in
\* ls-R (read_fmtutil_files(), save_fmtutil()).
EditKept ==
    [][edits' # edits =>
        /\ Merged(conf') = [Merged(conf) EXCEPT ![edit'[1]] = edit'[2]]
        /\ \A f \in Range(Paths), l \in Lines :
              (conf[f].there => conf[f].found) /\ l.of # edit'[1] /\ l \in Range(conf[f].lines)
              => l \in Range(conf'[f].lines)]_vars

\* What is installed at a place is a dump of that format by an engine whose
\* formats belong there, with its extension, in whatever order formats are built
\* and whichever builds fail or recur, unless the engine asked left no dump where
\* another's had the same name.  Engines that share the place overwrite each other.
InstalledRight == \A w \in Places \ leftover : Belongs(dest, w)

\* No format is being made by two mktexfmts at once, however formats need each
\* other: the recursion is bounded by the number of entries.
NoEndlessRecursion ==
    \A i, j \in DOMAIN procs :
        i < j /\ procs[i].mk /\ procs[j].at # "choose" => procs[i].cur # procs[j].cur

\* "later formats might need earlier formats to be already initialized": with
\* --all an engine that makes another format runs mktexfmt for the format of its
\* own name only when fmtutil has failed to build it.
InOrder ==
    Len(procs) > 1 /\ procs[1].what = "all" =>
        LET p == procs[1].cur  q == <<needs[p], needs[p]>>
        IN p[2] = needs[p] /\ p[1] # p[2] /\ q \in Defined(conf) /\ Enabled(conf, q)
           => q \in procs[1].failed

\* Every command comes to its end.
FmtutilEnds == procs # <<>> ~> procs = <<>>

-----------------------------------------------------------------------------
(* What the comments and the help text say, and is not so *)

\* What is installed in an engine's directory was made by an engine of it.
InstalledByEngine == \A w \in Places : Belongs(dest, w)

\* "If the command name ends in mktexfmt, only one format can be created."
OneFormat ==
    [][Len(procs) > 1 /\ Me.mk /\ Me.printed # None /\ Len(procs') = Len(procs)
       => dest' = dest]_vars

\* mktexfmt gives the engine that asked a format it can load.
AskedEngine ==
    Len(procs) > 1 /\ Me.printed # None => Me.printed[2] = procs[Len(procs) - 1].cur[2]

\* No line of a file is lost, found or not.
NothingLost ==
    [][edits' # edits => \A f \in Range(Paths), l \in Lines :
        l.of # edit'[1] /\ l \in Range(conf[f].lines) => l \in Range(conf'[f].lines)]_vars
=============================================================================
