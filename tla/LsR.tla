-------------------------------- MODULE LsR --------------------------------
(***************************************************************************)
(* One font tree with its ls-R, shared by any number of `mktexlsr` runs    *)
(* (Updaters), which rebuild the ls-R, and `mktexpk' or `mktextfm' runs    *)
(* (Makers), which make one font each, install it and have `mktexupd' add  *)
(* its name.  They are processes of different users: a step here is what   *)
(* one command of a script does to the shared tree.  The fonts share one   *)
(* directory, which one `ls' reads at once.                                *)
(***************************************************************************)
EXTENDS Naturals, FiniteSets

CONSTANTS Updaters,  \* processes that run mktexlsr
          Makers,    \* processes that run mktexpk (or mktextfm)
          Fonts,     \* file names of fonts
          Gone,      \* what is found where there is no ls-R
          MaySignal  \* may a mktexlsr be stopped by a signal it traps?

ASSUME LsRAssumption ==
    /\ Makers \cap Fonts = {}
    /\ MaySignal \in BOOLEAN

VARIABLES db,      \* the file ls-R of the tree, or Gone
          tree,    \* font -> what a reader finds under its name
          staged,  \* maker -> its temporary file pk$$.tmp in the tree
          scan,    \* updater -> the names in its lsR$$.tmp
          upd,     \* updater -> the command it is about to run
          mk,      \* maker -> the command it is about to run
          font,    \* maker -> the font it was asked for
          printed  \* the makers that have printed the name of their font
lsRvars == <<db, tree, staged, scan, upd, mk, font, printed>>

Files == {"none", "part", "whole"}

\* An ls-R is its names and whether its first line is the magic one.  The
\* temporary file of a maker is listed under the maker's own name.
Databases == [magic : BOOLEAN, names : SUBSET (Fonts \cup Makers)]
Empty     == [magic |-> FALSE, names |-> {}]

ASSUME GoneAssumption == Gone \notin Databases

IsDb(d)   == d # Gone
Magic(d)  == IsDb(d) /\ d.magic
Foreign(d) == IsDb(d) /\ ~d.magic /\ d.names # {}

Present == {f \in Fonts : tree[f] # "none"} \cup {m \in Makers : staged[m] # "none"}

LsRInit ==
    /\ tree \in [Fonts -> {"none", "whole"}]
    /\ staged = [m \in Makers |-> "none"]
    /\ LET there == {f \in Fonts : tree[f] = "whole"}
       IN db \in {Gone, Empty} \cup [magic : BOOLEAN, names : {there}]
    /\ scan = [u \in Updaters |-> {}]
    /\ upd = [u \in Updaters |-> "check"]
    /\ mk = [m \in Makers |-> "find"]
    /\ font \in [Makers -> Fonts]
    /\ printed = {}

-----------------------------------------------------------------------------
(* mktexlsr *)

Lsr(u, from, to) == upd[u] = from /\ upd' = [upd EXCEPT ![u] = to]

\* test ! -f "$db_file"
Check(u) ==
    /\ Lsr(u, "check", IF IsDb(db) THEN "magic" ELSE "touch")
    /\ UNCHANGED <<db, tree, staged, scan, mk, font, printed>>

\* cp /dev/null "$db_file" creates the absent ls-R, and empties one that has come since.
Touch(u) ==
    /\ Lsr(u, "touch", "access")
    /\ db' = Empty
    /\ UNCHANGED <<tree, staged, scan, mk, font, printed>>

\* One that is neither empty nor starts with the magic line belongs to somebody else and is
\* left alone.  One that has gone meanwhile has no size, or no magic line any more.
TestMagic(u) ==
    /\ \/ ~Foreign(db) /\ Lsr(u, "magic", "access")
       \/ (Foreign(db) \/ ~IsDb(db)) /\ Lsr(u, "magic", "end")
    /\ UNCHANGED <<db, tree, staged, scan, mk, font, printed>>

\* kpseaccess -w: also refuses a file another mktexlsr has just removed.
Access(u) ==
    /\ Lsr(u, "access", IF IsDb(db) THEN "scan" ELSE "end")
    /\ UNCHANGED <<db, tree, staged, scan, mk, font, printed>>

\* Slip: only what the old ls-R does not have is listed.
ScanNew(u) ==
    /\ Lsr(u, "scan", "perms")
    /\ scan' = [scan EXCEPT ![u] = IF IsDb(db) THEN Present \ db.names ELSE Present]
    /\ UNCHANGED <<db, tree, staged, mk, font, printed>>

\* `ls -LRa' into the new file; the lsR$$.tmp directories are filtered out,
\* the temporary files of the makers are not.
Scan(u) ==
    /\ Lsr(u, "scan", "perms")
    /\ scan' = [scan EXCEPT ![u] = Present]
    /\ UNCHANGED <<db, tree, staged, mk, font, printed>>

\* until PERMS=`kpsestat = "$db_file"`; do sleep 1; done
Perms(u) ==
    /\ IsDb(db)
    /\ Lsr(u, "perms", "remove")
    /\ UNCHANGED <<db, tree, staged, scan, mk, font, printed>>

Unlink(u) ==
    /\ Lsr(u, "remove", "move")
    /\ db' = Gone
    /\ UNCHANGED <<tree, staged, scan, mk, font, printed>>

\* Slip: the new file is taken from the temporary directory after the
\* directory has been cleaned up.
MoveCleaned(u) ==
    /\ Lsr(u, "move", "end")
    /\ db' = Gone
    /\ UNCHANGED <<tree, staged, scan, mk, font, printed>>

Move(u) ==
    /\ Lsr(u, "move", "end")
    /\ db' = [magic |-> TRUE, names |-> scan[u]]
    /\ UNCHANGED <<tree, staged, scan, mk, font, printed>>

\* The trap removes the temporary directory with the new file in it.  "lost"
\* is the end of a run stopped between its rm and its mv.
Signal(u) ==
    /\ MaySignal
    /\ upd[u] \notin {"end", "lost"}
    /\ upd' = [upd EXCEPT ![u] = IF @ = "move" THEN "lost" ELSE "end"]
    /\ UNCHANGED <<db, tree, staged, scan, mk, font, printed>>

Updater(u) ==
    \/ Check(u) \/ Touch(u) \/ TestMagic(u) \/ Access(u)
    \/ Scan(u) \/ Perms(u) \/ Unlink(u) \/ Move(u)

-----------------------------------------------------------------------------
(* mktexpk and mktextfm *)

Mk(m, from, to) == mk[m] = from /\ mk' = [mk EXCEPT ![m] = to]

Readable(m) == tree[font[m]] # "none"

\* Slip: the name is printed when the font is asked for.
FindPrinting(m) ==
    /\ Mk(m, "find", IF Readable(m) THEN "update" ELSE "stage")
    /\ printed' = printed \cup {m}
    /\ UNCHANGED <<db, tree, staged, scan, upd, font>>

\* The font may have been made since the caller missed it: its name is
\* printed first and put in the ls-R after.
Find(m) ==
    /\ \/ /\ Readable(m)
          /\ Mk(m, "find", "update")
          /\ printed' = printed \cup {m}
       \/ /\ ~Readable(m)
          /\ \/ Mk(m, "find", "stage")
             \/ Mk(m, "find", "end")     \* Metafont fails: exit 1
          /\ UNCHANGED printed
    /\ UNCHANGED <<db, tree, staged, scan, upd, font>>

\* Slip: the font is moved or copied to its own name.
StageInPlace(m) ==
    /\ mk[m] = "stage"
    /\ tree' = [tree EXCEPT ![font[m]] = "part"]
    /\ staged' = [staged EXCEPT ![m] = "whole"]
    /\ Mk(m, "stage", "move")
    /\ UNCHANGED <<db, scan, upd, font, printed>>

\* mv from the work directory: a rename, or a copy when it is on another file
\* system (and cp when mv fails).
Stage(m) ==
    /\ \/ staged' = [staged EXCEPT ![m] = "whole"] /\ Mk(m, "stage", "test")
       \/ staged' = [staged EXCEPT ![m] = "part"] /\ Mk(m, "stage", "copy")
    /\ UNCHANGED <<db, tree, scan, upd, font, printed>>

\* A copy that fails leaves its part in the tree: exit 1.
Copy(m) ==
    /\ \/ staged' = [staged EXCEPT ![m] = "whole"] /\ Mk(m, "copy", "test")
       \/ UNCHANGED staged /\ Mk(m, "copy", "end")
    /\ UNCHANGED <<db, tree, scan, upd, font, printed>>

\* Slip: the ls-R is updated while the file has its temporary name.
TestUpdating(m) ==
    /\ Mk(m, "test", IF Readable(m) THEN "update" ELSE "move")
    /\ db' = IF Magic(db) THEN [db EXCEPT !.names = @ \cup {font[m]}] ELSE db
    /\ UNCHANGED <<tree, staged, scan, upd, font, printed>>

\* test -r $PKNAME || mv pk$$.tmp $PKNAME: whoever loses leaves its pk$$.tmp.
Test(m) ==
    /\ Mk(m, "test", IF Readable(m) THEN "update" ELSE "move")
    /\ UNCHANGED <<db, tree, staged, scan, upd, font, printed>>

Install(m) ==
    /\ \/ /\ Mk(m, "move", "update")
          /\ tree' = [tree EXCEPT ![font[m]] = staged[m]]
          /\ staged' = [staged EXCEPT ![m] = "none"]
       \/ Mk(m, "move", "end") /\ UNCHANGED <<tree, staged>>    \* || exit 1
    /\ UNCHANGED <<db, scan, upd, font, printed>>

\* mktexupd adds a name to an ls-R that has the magic line.
Update(m) ==
    /\ Mk(m, "update", IF m \in printed THEN "end" ELSE "print")
    /\ db' = IF Magic(db) THEN [db EXCEPT !.names = @ \cup {font[m]}] ELSE db
    /\ UNCHANGED <<tree, staged, scan, upd, font, printed>>

Echo(m) ==
    /\ Mk(m, "print", "end")
    /\ printed' = printed \cup {m}
    /\ UNCHANGED <<db, tree, staged, scan, upd, font>>

Maker(m) ==
    Find(m) \/ Stage(m) \/ Copy(m) \/ Test(m) \/ Install(m) \/ Update(m) \/ Echo(m)

-----------------------------------------------------------------------------
LsrEnded == \A u \in Updaters : upd[u] \in {"end", "lost"}
Ended    == LsrEnded /\ \A m \in Makers : mk[m] = "end"

\* Everybody has finished, but for those who wait for an ls-R to come back.
Rest ==
    /\ \A u \in Updaters : upd[u] \in {"end", "lost"} \/ (upd[u] = "perms" /\ ~IsDb(db))
    /\ \A m \in Makers : mk[m] = "end"
    /\ UNCHANGED lsRvars

LsRNext ==
    \/ \E u \in Updaters : Updater(u) \/ Signal(u)
    \/ \E m \in Makers : Maker(m)
    \/ Rest

\* The operating system runs every process that can go on.
LsRSpec ==
    /\ LsRInit /\ [][LsRNext]_lsRvars
    /\ \A u \in Updaters : WF_lsRvars(Updater(u))
    /\ \A m \in Makers : WF_lsRvars(Maker(m))

-----------------------------------------------------------------------------
(* Properties *)

LsRTypeOK ==
    /\ db \in Databases \cup {Gone}
    /\ tree \in [Fonts -> Files]
    /\ staged \in [Makers -> Files]
    /\ scan \in [Updaters -> SUBSET (Fonts \cup Makers)]
    /\ upd \in [Updaters -> {"check", "touch", "magic", "access", "scan", "perms", "remove",
                          "move", "end", "lost"}]
    /\ mk \in [Makers -> {"find", "stage", "copy", "test", "move", "update", "print", "end"}]
    /\ font \in [Makers -> Fonts]
    /\ printed \subseteq Makers

\* "Install the PK file carefully, since others may be working simultaneously"
\* (mktexpk:269): nobody who opens a font by its name gets part of a file,
\* whoever else is installing the same font.
NeverTorn == \A f \in Fonts : tree[f] # "part"

\* A caller that has read a name from a script's output (maketex) can open
\* that file, now and later.
PrintedThere == \A m \in printed : tree[font[m]] = "whole"

\* The ls-R never names a font that is not there: kpathsea trusts it enough
\* not to look elsewhere in the tree.
ListedThere == IsDb(db) => \A f \in Fonts \cap db.names : tree[f] # "none"

\* An ls-R that has been there is missing only while a mktexlsr is between its
\* rm and its mv, or after one was stopped there.
BrieflyGone ==
    [](IsDb(db) => [](~IsDb(db) => \E u \in Updaters : upd[u] \in {"move", "lost"}))

\* A name that is in the ls-R while no mktexlsr is past its scan is in every
\* ls-R with the magic line from then on, whatever the mktexlsr that run then
\* or later do to the file, emptying it included.
NeverForgotten ==
    \A f \in Fonts :
        [](/\ Magic(db) /\ f \in db.names
           /\ \A u \in Updaters : upd[u] \in {"check", "touch", "magic", "access", "scan",
                                             "end", "lost"}
           => [](Magic(db) => f \in db.names))

\* An ls-R is never emptied under its readers.  It is when one
\* mktexlsr completes it between another's `test ! -f' and its `cp /dev/null'
\* (mktexlsr:186-187).
NeverEmptied == [][Magic(db) => db' # Empty]_db

\* "mktexupd and mktexlsr make sure they're coordinated via this"
\* (mktexlsr:133): when all have ended, a name that a maker has printed is in
\* the ls-R.
Coordinated ==
    Ended /\ Magic(db) => \A m \in printed : font[m] \in db.names
=============================================================================
