# TeX Live: a verification development for kpathsea and its companions

TeX Live is a distribution of about seventy programs built from one source
tree.  Almost all of them are independent typesetting tools; what makes them one
system is **kpathsea** (`texk/kpathsea`), the library every one of them uses to
find files, to read the configuration (`texmf.cnf`), to consult the file-name
databases (`ls-R`) and to create missing fonts by running the `mktex*` scripts.
This development models kpathsea first, then the scripts that share its
databases, then the file handling of the TeX engines built on it: what they
open and close, the SyncTeX file they write, and `fmtutil`, which runs them to
build formats and which kpathsea runs when one is missing.

## The system: components, state, operations, interactions

| Component | State it keeps | Operations |
|---|---|---|
| Directory lists (`str-llist.c`, `elt-dirs.c`, `dir.c`) | per path element, a list of directories with a `moved' flag each; the cache of those lists; the cache of link counts | build by subdirectory expansion, float on a hit, look up in the cache |
| File-name database (`db.c`, `hash.c`) | the hash table `db` (file name to directories), `db_dir_list`, `alias_db` | build from `ls-R` and `aliases`, insert a made file, search for one name or a list of names |
| Path searching (`pathsearch.c`, `path-elt.c`, `readable.c`, `absolute.c`) | `followup_search`, the iterator `kpse->path`/`kpse->elt`, `log_opened` | search a path for one name or several, one result or all, database first and disk second |
| Configuration (`cnf.c`, `line.c`) | `cnf_hash`, `doing_cnf_init`, `cnf_line_env_progname` | read every `texmf.cnf` on the path once, look up a variable |
| Variable and brace expansion (`variable.c`, `expand.c`, `tilde.c`, `kdefault.c`) | the `expansions` marks against recursive variables | expand `$VAR`, `{a,b}`, `~user`, default paths |
| Formats (`tex-file.c`, `find-suffix.c`) | `format_info[]`: path, suffixes, `mktex` program and its enabling level | initialise a format, find a file for it, decide whether a name may be opened |
| Glyphs (`tex-glyph.c`, `fontmap.c`, `magstep.c`) | the font map, `fallback_resolutions` | find a bitmap font at a resolution, an alias, a neighbouring resolution or the fallback font |
| Font creation (`tex-make.c`) | `missfont`, file descriptors, child processes | run `mktexpk` and friends, read the name they print, log failures |
| Program set-up (`progname.c`, `proginit.c`, `putenv.c`, `xputenv.c`) | `program_name`, `invocation_name`, the environment | derive `SELFAUTO*`, set variables |
| The scripts `mktexlsr`, `mktexpk`, `mktextfm`, `mktexmf` | the `ls-R` files and the font trees on disk, temporary files | rebuild a database, create and install a font |
| `fmtutil`, `mktexfmt` (`fmtutil.pl`) | the `fmtutil.cnf` files, the formats installed, a temporary directory | enable and disable a format, build and install formats, alone or because an engine asks |
| web2c library (`texk/web2c/lib`) | open files, the recorder file, input-pipe table, shell-escape policy | open and close files for TeX, Metafont, BibTeX |
| SyncTeX writer (`texk/web2c/synctexdir/synctex.c`) | the `.synctex(busy)` file, option flags, node context | start, record sheets, terminate or abort |
| Engines, drivers and tools (`web2c`, `dvipsk`, `dvipdfm-x`, ...) | their own | see "Not modelled" |

Interactions.  A program calls `kpathsea_find_file`; that initialises the
format (which reads the configuration the first time, which searches a path for
`texmf.cnf`, and then builds the databases, which searches the paths for
`ls-R`), walks the path element by element, asks the database, then the disk,
and, when nothing is found and the file must exist, runs a script.  The script
is another process: it runs `kpsewhich`, creates the file in a tree shared
with other users, and appends to `ls-R`, which `mktexlsr` may be rebuilding at
the same time.  The running program does not read `ls-R` again; it inserts the
new file into its own table.

## What is hard here, and what makes each component correct

The library is sequential C, yet most of its state outlives the call that made
it: lists that reorder themselves, caches that are never refreshed, tables built
on first use, variables of the environment used to pass arguments, an iterator
shared by everybody.  The hard questions are therefore about histories of legal
calls in a world that other programs change.  Around the library there is real
concurrency: child processes and pipes, and scripts of several users in one tree, and programs that call each
other through kpathsea.

| Component | Hard behaviour | What makes it correct |
|---|---|---|
| Directory lists | the list is relinked under the loop that walks it; its order depends on every earlier search | floated directories stay in front; a repeated search repeats its answer; a search for all files sees each element once |
| Path searching | database and disk disagree, directories appear after the list was cached | the first element of the path wins; nothing is returned that was not there; the same question has the same answer |
| Database | `ls-R` is stale in both directions; a made file is entered by hand; aliases | nothing listed is lost; a script is run only when needed, and once |
| Lazy set-up | the first lookup starts searches that look variables up; one iterator for all loops | every call returns, every element is tried, the log is honoured |
| Configuration | several files, definitions for one program and for all, lines given on the command line, the program changes its name | the first definition that applies wins; the command line wins |
| Expansion | variables that refer to each other; expansion repeated until nothing changes | it ends, and only what is undefined or recursive is left |
| Glyphs | name and size are passed in `KPATHSEA_NAME`/`KPATHSEA_DPI`; unsigned arithmetic; a walk in two directions | the best source, the closest size, made with the size asked for, nothing missed, it returns |
| Font creation | closed standard descriptors, running out of descriptors at each call, pipe capacity, another child | the script is wired right and heard out, nothing leaks, no wait for ever |
| Scripts | no locks: check, scan, remove, rename and append of several processes interleave, signals | fonts are never torn, `ls-R` never lists what is not there, foreign files are left alone |
| Hash tables | keys that collide, several values for a key | all values of a key, in the order they were put in |
| web2c's files | a table of pipes known by `FILE *`, which come back from `malloc`; streams reused, openings that fail half-way, an output directory and its fallback | each file has one owner and is closed once, in the way it was opened; what was written is what is read back |
| SyncTeX | `\synctex` changes at any time, any write or closing may fail, the run may end in the middle of a page; a working file is renamed | records go to an open file; what is left is of this run and complete; tags are known, brackets nest |
| `fmtutil` | engines that call `mktexfmt`, which calls engines; files known only through `ls-R`; builds that fail; one temporary directory for all engines | the recursion ends, each dump lands where it belongs, a change of configuration changes what was asked and nothing else |

`PROJECT.json` lists the single hazards with their lines under "hazards".

## Modules and how they correspond to the code

An action stands for the whole of the code named; "Slip" definitions are wrong
variants of the definition after them, each a plausible mistake that one
property must notice.  They are used nowhere else.

**StrLlist** (`str-llist.c`).  A list is a sequence of distinct nodes and the set
of those whose `moved` flag is set.  `Float` is `str_llist_float`: unlink the
mover and relink it after the last element that has moved.  Used by DirList and
KpseSearch.

**DirList** (`str-llist.c`, `dir_list_search`, `dir_list_search_list`,
`kpathsea_element_dirs`).  `list`, `moved` are the cached list of one element;
`elt`, `nxt`, `i`, `ret`, `q`, `all` are the locals of the search.  A node is a directory and the
number of its allocation: `dir_list_add` looks for no duplicate, and `do_subdir` does add a directory twice
for an element like `/x//y//`.  `Add`/`Cached` are the expansion, `Start`, `Hit`, `Miss`, `NextDir`, `EndOfList`, `Return` the steps
of the loop (the successor is read before the hit floats the element, as in the
code), `Change` any other program.  `found`, `touched`, `fresh` are history: what
was answered, and what has changed since.

**KpseSearch** (`kpathsea_path_search`, `kpathsea_path_search_list_generic`,
`kpathsea_find_file_generic`, `kpathsea_db_search[_list]`, `kpathsea_db_insert`,
`casefold_readable_file`).  A program's calls one after the other; a step is one
consultation of the database (`ConsultDb`), one pass over an element's directories
(`SearchDisk`, `SearchFolded`), the decision at the end of the path (`EndOfPath`),
one script (`ScriptPrints`, `ScriptFails`), the insertion into the table
(`MakeTex`), the return.  DirList has shown what happens inside a pass, so
here a pass is one step over a list that floats.  `Change` and `MakeDirectory` are
other programs; `db` is what `ls-R` said when it was read.

**KpseInit** (`cnf.c`, `db.c`, `path-elt.c`, `pathsearch.c`, `variable.c`).  The calls in
progress as a stack; the only iterator `iter` is `kpse->path`.  `Call` is the program,
`Begin`/`Element`/`LoopEnd`/`SearchEnd`/`OpenLog`/`SearchDone` a path search with `log_search`,
`Enter`/`InitDb`/`DbBuild`/`AliasBuild` `kpathsea_cnf_get` with `read_all_cnf` and
`kpathsea_init_db`.

**VarExpand** (`variable.c`, `expand.c`).  A string is a sequence of tokens.  `calls` is
the recursion of `expand`, `marks` the `expanding` flags, `round` the recursion of
`kpathsea_brace_expand_element`.

**Cnf** (`cnf.c`, `line.c`, `hash.c`, `variable.c`, `progname.c`).  `Ask` is
`kpathsea_var_value`, `ReadLine`/`NextFile`/`Done` are `read_all_cnf` with `do_line`,
`CnfLine` is `kpathsea_cnf_line_env_progname`, `ResetProgramName` the change of name at
a `%&` line.  A value is the list of the physical lines it was made of.  `cnf_hash` is a
table of HashTable, with keys that collide (`Slots`, `Hash`).

**HashTable** (`hash.c`) has the buckets and the chained elements; `hash_insert` links a new element
behind the last of its bucket's list (`LastFrom`), `hash_lookup` collects the values along it (`Matching`).
**MultiMap** is what it promises: a sequence of values for each key, to
which values are added at the end.  `Store` of Cnf maps the one on the other, and
`KeepsAll` says that every step of Cnf is a step of the store or none at all.
`db` in KpseSearch is modelled on the promise.

**Glyph** (`tex-glyph.c`, `init_fallback_resolutions` of `tex-file.c`).  `env` holds
`$KPATHSEA_NAME` and `$KPATHSEA_DPI` as the parts leave them; `TryName`, `TryAlias`,
`NoAlias`, `Make`, `MakeFails`, `Fallback`, `LastFont`, `Walk` are the parts of
`kpathsea_find_glyph` in the order of their calls.  A list of sizes is an array
in memory: outside of it `Stray` reads any of `Junk`, and `Crash` is the end of
mapped memory.  Numbers are unsigned with wrap-around at `Word`.

**MakeTex** (`tex-make.c`).  `pfd` and `cfd` are the descriptor tables of program and
child; every `open`, `pipe`, `fork`, `dup`, `close`, `read`, `wait` is a step or part of
one, and each may fail where the system may make it fail (a `read` in `ReadFails`).  The script prints any
of `Plans` through a pipe of `PipeSize` pieces; `other` is a child that the program
already had.

**LsR** (`mktexlsr`, `mktexpk`, `mktextfm`).  A step is one command of a script acting
on the shared tree.  `Updaters` run `mktexlsr`, `Makers` run `mktexpk` or `mktextfm`;
`mktexupd`, of which the tree has the Windows version only, is external: it appends a
name to an `ls-R` that has the magic line.  The test for an `ls-R` (`Check`), its creation (`Touch`) and the
test of the magic line (`TestMagic`) are commands of their own, with anything in between.  Nobody puts a
file without the magic line in the place of an `ls-R` once the scripts run.

**FmtCnf** and **Fmtutil** (`fmtutil.pl`).  `conf` is what is in each tree's `fmtutil.cnf`,
whether the file is there, and whether `kpsewhich` finds it; FmtCnf merges the
files and rewrites one (`Saved`).  Fmtutil is a stack `procs` of programs: a command
(`Build`) chooses a format (`Choose`), runs its engine, which loads the format its own is
built on or has kpathsea start `mktexfmt`, the same program once more (`Engine`), which
dumps or fails (`Dump`); the file is installed (`Install`), the program ends and
its caller goes on with what it printed (`End`).  `dest` and each program's `tmp` hold,
for a file, the entry (format and engine) whose dump it is: file names have the format and the
engine's extension only (`Name`).  A place is a directory and a name (`Destination`): the
directory is the engine's, `Dir`, or the one above with `--no-engine-subdir`, which a `mktexfmt` is
not told of.  Engines may share a directory, as `luatex` and `luatex-dev` or `mf`, `mflua` and
`mf-nowin` do, and then the dump of one takes the place of another's for the same format;
`InstalledRight` says that none lands in the place of engines with another directory or extension.

**SyncTeX** (`synctex.c`).  `ctxt` is `synctex_ctxt`, `out` what the working file says so
far, `disk` the two final names and the working file.  An action is a message
of the engine: `StartInput`, `Sheet`, `Teehs`, `List`, `Tsil`, `Node`, `Form`, `Mrof`, `Terminate`, and
`SetSynctex` is the source assigning `\synctex`.  A write that fails turns SyncTeX off
(`Writing`), wherever it happens; with a plain file closing it may fail as well, which ends the program
(`Exit`, the `FATAL_PERROR` of `xfclose`), while the result of `gzclose` is looked at nowhere.  A kern
may wait (`Defer`, the code's `recorder`), and `Node` then makes two records in one message, the second without a
look at what the first has done (`OfKern`, `OfNode`).  The waiting kern is taken to keep its tag; in the code
its memory may have been freed by then.  `place` is what TeX is shipping out, which
decides the messages it can send; `odd` and `blind` are history, for the exceptions that the
properties name.

**OpenClose** (`openclose.c`, `texmfmp.c`, the file-handling parts of `tex.web` and
`tex.ch`).  `io` is the C library and the tables beside it (open files by `FILE *`, `pipes[]`, the
disk), `wopen`/`wfile`, `rfile` and `stack` are TeX's `write_open`/`write_file`, `read_file` and the
`\input` levels.  `OpenOut`, `CloseOut`, `OpenIn`, `CloseIn`, `Input`, `EndInput`,
`FinalCleanup` and `CloseFilesAndTerminate` are TeX's procedures with all of the C they call.
Extensions are those of the code: `WrittenAs` is the name that `\openout` gives a file, `.tex` added to
one without an extension, `Targets` are the names that kpathsea tries for `\input` and `\openin`,
and `Found` has the output directory tried first, for the name as it is.  `TryIn` has what may come
of an opening: `kpse_in_name_ok` refuses, `fopen` fails, or `xfopen` ends the program
at once, with no file closed.

The `MC` modules give the constants of small instances.  `DirListProofs`, `KpseSearchProofs`,
`GlyphProofs`, `SyncTeXProofs`, `FmtutilProofs` and `OpenCloseProofs` hold the proofs about the modules
they are named for, `ScriptsProofs` those about MakeTex and LsR, `VariablesProofs` those about
Cnf with HashTable, KpseInit and VarExpand.  These two extend several components; therefore the
specifications of LsR, KpseInit and VarExpand have prefixed names (`LsRInit`, `LazyNext`, `ExpansionSpec`, ...).

How they fit: StrLlist is extended by DirList and KpseSearch.  DirList is the
inside of the disk passes of KpseSearch; KpseInit is the circle of calls that
KpseSearch (given a database), Cnf (given that nobody asks while the files are
read) and VarExpand (given values) each abstract from; MakeTex is the inside of
`ScriptPrints`/`ScriptFails` of KpseSearch and of `Make`/`MakeFails` of Glyph; LsR
is what the script of MakeTex does to the tree.  HashTable is inside of Cnf.  The pipes of
OpenClose are processes running beside the program: a `maketex` called meanwhile finds
them as the child `other` of MakeTex.  The engines of Fmtutil look for formats with a
search like KpseSearch's, whose script is `mktexfmt`, and so reach Fmtutil again; and
they are the programs that OpenClose and SyncTeX show from inside.

## Runs

Each configuration listed under "runs" in `PROJECT.json` answers one question.
Those that pass:

| Run | Module, configuration | Question | Shows |
|---|---|---|---|
| `dirlist` | MCDirList, `DirList.cfg` | Does a list that reorders itself under its searches give stable answers? | `Repeatable`: a one-file search repeats its answer unless one of the two files concerned has changed; `AllOnce`: a search for all finds what was there throughout, nothing that was not, and each file once for each time its directory is listed, unless a name was given twice |
| `search` | MCKpseSearch, `KpseSearch.cfg` | What does a search promise when database, disk and cache disagree? | `FoundIsReal`, `FirstOnPath`, `MadeOnlyIfMissing`, `AllFound` |
| `init` | MCKpseInit, `KpseInit.cfg` | Does the circle of first lookups end, and outside of every loop over a path? | `EveryElementTried`, `LogHonoured`, `CallsReturn`, for programs that begin with a format or a variable |
| `expand` | MCVarExpand, `VarExpand.cfg` | What happens to variables that refer to each other? | `FullyExpanded`, `ExpansionEnds` |
| `cnf` | MCCnf, `Cnf.cfg` | Which definition answers a question, and does the table keep them all? | `FirstDefinition` for the files, `CommandLineWins` for `--cnf-line`; `KeepsAll`: the hash table implements MultiMap |
| `glyph` | MCGlyph, `Glyph.cfg` | Which of the possible substitutes for a font is returned? | `BestSource`, `ClosestFound`, `NothingMissed`, `SearchReturns` |
| `maketex` | MCMakeTex, `MakeTex.cfg` | Is the script wired, heard, waited for and cleaned up after, whatever fails? | `ScriptWired`, `NothingLeaked`, `SeenOut`, `Returns` |
| `lsr` | MCLsR, `LsR.cfg` | What can scripts that run at once do to fonts and to the `ls-R`? | `NeverTorn`, `PrintedThere`, `ListedThere`, `BrieflyGone`, `NeverForgotten` |
| `synctex` | MCSyncTeX, `SyncTeX.cfg` | What is in the working file and left on the disk, when writes fail and runs end anywhere? | `RecordersSafe`: no message finds a closed file or one without preamble, and only a kern that waited closes it under a record; `InSync`: what is left is one complete file of this run, or none, but for files that cannot be closed; `TagsKnown`, `WellNested`, with their exceptions named |
| `fmtutil` | MCFmtutil, `Fmtutil.cfg` | Do formats built on formats, in a program that calls itself, land where they belong? | `EditKept`, `InstalledRight`, `NoEndlessRecursion`, `InOrder`, `FmtutilEnds` |
| `openclose` | MCOpenClose, `OpenClose.cfg` | Do TeX's streams, the C library's `FILE *` and the table of pipes stay in step? | `Owned`, `ClosedOnce`, `PipesAwaited` (as long as the table has room), `ReadBack` |

The one where the code does something else than its documentation says and which is run
with the others:

| Run | Property | What happens |
|---|---|---|
| `lsr_lost` | `Coordinated` | a name that `mktexupd` adds between the scan and the `mv` of a `mktexlsr` is lost |

The other disagreements are findings without a run of their own, for their question is a small
variation of a run above.  Some have a configuration, to be started by hand
(`tlc -config X.cfg M`) and ending in a violation:

| Configuration | Module | Property | What happens |
|---|---|---|---|
| `KpseAll.cfg` | MCKpseSearch | `AllPathSearch` | `kpathsea_db_search` starts a new result list for every alias, so a search for all files loses those of the name itself |
| `KpseInitPath.cfg` | MCKpseInit | `EveryElementTried` | a program that starts with a search over its own path loses the rest of that path to the first variable lookup |
| `KpseInitLog.cfg` | MCKpseInit | `LogHonoured` | the same program never writes the `TEXMFLOG` that `texmf.cnf` sets |
| `VarExpandRounds.cfg` | MCVarExpand | `NotRecursive` | brace expansion of `V = "x$V"` grows without end |
| `CnfOrder.cfg` | MCCnf | `LastReadWins` | the first file read wins, not the last as a comment says |
| `CnfJoin.cfg` | MCCnf | `Concatenated` | a continuation line with spaces after its backslash is not joined when it is not the first |
| `CnfQualified.cfg` | MCCnf | `QualifiedOnly` | a `--cnf-line` for another program applies to this one |
| `CnfOverride.cfg` | MCCnf | `CommandLineOverrides` | after a change of name `VAR_newname` of the environment wins over `--cnf-line` |
| `MakeTexLog.cfg` | MCMakeTex | `NoLogNoHarm` | with `MISSFONT_LOG=0` a null pointer is tested for being absolute |

The rest are violated when they take the place of the properties in the run's own
configuration:

| Configuration | Property | What happens |
|---|---|---|
| `Glyph.cfg` | `FallbackTried` | a font that has an alias is not looked for at the fallback resolutions: `KPATHSEA_NAME` still holds the alias |
| `Glyph.cfg` | `TellsTruth` | name, size or format that are told are not those of the file |
| `Glyph.cfg` | `InList` | with a size listed twice the walk leaves the list |
| `LsR.cfg` | `NeverEmptied` | an `ls-R` that a second `mktexlsr` completes between the first one's `test ! -f` and `cp /dev/null` (mktexlsr:186-187) is emptied, until the first one's own `mv` |
| `SyncTeX.cfg` | `TagsAlwaysKnown` | a file read while `\synctex` is 0 before the working file is open has no Input line |
| `SyncTeX.cfg` | `Grammar` | a run cut short in a page, or a form shipped out with `\synctex=0`, keeps a file with open brackets |
| `SyncTeX.cfg` | `WarnedTruly` | the warning blames `-synctex=0` for every failure |
| `SyncTeX.cfg` | `Removed` | without a log, files of an earlier run stay in the output directory |
| `SyncTeX.cfg` | `NeverBusy` | when the preamble fails, or a plain file cannot be closed, the working file is not removed |
| `SyncTeX.cfg` | `NoCrash` | when the postamble fails `fclose` is given a null pointer; when a kern that waited fails the next record is printed to one |
| `SyncTeX.cfg` | `Whole` | a compressed file that `gzclose` could not finish gets its final name |
| `Fmtutil.cfg` | `InstalledByEngine` | an engine that leaves no dump gets another's of the same name |
| `Fmtutil.cfg` | `OneFormat` | `mktexfmt` builds the format for all engines and prints the first (so `AskedEngine` fails as well) |
| `Fmtutil.cfg` | `NothingLost` | a `fmtutil.cnf` that is not in `ls-R` is overwritten unread |
| `OpenClose.cfg` | `EveryPipeAwaited` | a pipe that finds the table full is closed without waiting |
| `OpenClose.cfg` | `ReadBackAnywhere` | what had to be written to `$TEXMFOUTPUT` is not found again |
| `OpenClose.cfg` | `ReadBackByName` | `\openout=foo` writes `foo.tex` to the output directory, where `\input foo` looks for `foo` only |
| `OpenClose.cfg` | `SpillOnlyUndirected` | `$TEXMFOUTPUT` is tried although an output directory is given |
| `OpenClose.cfg` | `TracedAll` | the recorder's line for a one-word command has no end |

Other things that hold are checked by hand in the same way: the type invariant of every
module (all are proved), `TraceTrue` of OpenClose (the recorder tells the truth
but for `TracedAll`), and `SameAgain` with `KpseAgain.cfg` (what was searched for in between
does not matter unless files beside one of the answers changed).

`FallbackTried`, `InList`, `NoLogNoHarm`, `QualifiedOnly`, `Concatenated` and
`NotRecursive` have also been seen to fail with a `kpsewhich` built from this source.

`CHECK_DEADLOCK FALSE` stands in the configurations of MakeTex, OpenClose and SyncTeX, where
the behaviour ends with the call or the program, and of Fmtutil, where it ends after the
last command.  In LsR the end is the stuttering action `Rest`, which also covers a
`mktexlsr` that waits for an `ls-R` that nobody will bring back; every other module runs on.

### Bounds, and why they are enough

The bounds are those of the runs.  Every invariant and action property of the runs that pass is proved as
well (see Proofs), and so holds for every size; the runs show that the interesting
cases occur, find what goes wrong when the code is changed, and check liveness, for which the bounds matter.

* **DirList**: two directories in lists of up to three nodes (`MaxElts`), so that a directory may be
  listed again, two names, a query of one name and one of two.
  Three nodes are needed for a hit to overtake others in different orders (the proofs
  have no bound); `FewChanges` lets one file change (any number of times)
  during a search and between two equal ones, which is what the properties
  excuse; with no bound every answer would be excused.
* **KpseSearch**: a path of three elements, one for each kind (`!!`, with an
  `ls-R`, disk only), sharing directories; two directories and one that appears
  late; a name with an alias and a variant in case; an empty and a stale `ls-R`.
  `MaxFresh` = 1 changed file in a call, for the same reason as above; a second bound lets
  a script enter one file of each name, since the second would be made by a
  call that `MadeOnlyIfMissing` shows not to happen.
* **KpseInit**: a user's path of three elements, the others of two, all sets of
  elements that hold the file, all settings of the two variables: the loss of
  the iterator needs at least two elements on a path.
* **VarExpand**: three variables, values of up to two tokens, chosen so that
  undefined, empty, plain, self-referring, mutually referring and shared
  variables occur; `MaxRounds` = 3 repetitions (the code has no limit, which is a
  finding): acyclic references are gone after one.
* **Cnf**: every content of two files of two lines, or of one of three, with an
  empty environment, and few contents with every environment; one variable, two
  programs.  `MaxChanges` = 2 lines on the command line, enough for one to
  override another and for a change of name before and after.  Two buckets: the definition
  for all programs and that for one of them collide, the other has a bucket to itself, so that
  a list has elements of another key before, between and after.
* **Glyph**: a font, its real name and a fallback font; sizes at, next to and far
  from two resolutions asked for, one with a tolerance of 2, and 1, where
  subtraction wraps around; lists of fallback sizes in order, out of order,
  repeated and ended by a zero.  `MaxFiles` = 2 files that `mktexpk` may reach.  `Word` =
  1024 keeps the wrap-around and places `INT_MAX` above every distance
  between real sizes, as with 32 bits.  `MaxStray` = 1 word before the list holding one
  of `Junk`.
* **MakeTex**: `MaxFd` = 6, that is seven descriptors of which `maketex` needs four, each
  open or closed at the start: every shortage and every closed standard
  descriptor occurs.  `PipeSize` = 2 and `BufSize` = 2 with up to four pieces to print
  make the script block and the read come back short.
* **LsR**: two of each process and one font, which both makers may want: every
  race in the scripts is between two processes over one name.
* **SyncTeX**: without the option and with `-synctex=0`, -1, 1, 3 and 5, which are all ways of
  naming and of treating forms; `MaxTag` = 2, since the first file is kept in
  another way than the rest; `MaxPages` = 3 pages and forms (a page before, in and after a
  change of `\synctex`; a form of a form); `MaxNest` = 4, enough for a page, a list and two forms.
* **Fmtutil**: two formats, four engines, five entries: a format named as its engine, which
  another engine builds too, and a format by two engines with one directory and by one with an
  extension of its own; two ways of depending on each other, one of them circular; three
  configurations: one file, one file that `kpsewhich` does not find, several files that override
  each other.  One change and one command, with and without `--strict` and `--no-engine-subdir`;
  nothing is installed at first, or what two of the engines made.
* **OpenClose**: three `FILE *` values, interchangeable, and `NumPipes` = 1, so that the table
  is full with one pipe and a handle comes back while others are in use (a table with holes
  is the theorem's, for any `NumPipes`); four names, `foo`, `foo.tex`, `foo.dat` and
  `foo.dat.tex`, two commands, two `\openout` streams, one `\openin` stream, one `\input` level.
  `MaxOpens` = 3: open, lose and reuse.

### Fairness

LsR, Cnf, Glyph, KpseInit, VarExpand and Fmtutil assume weak fairness of the program's (or each script's)
own steps: a process that can go on is run by the operating system.  MakeTex
assumes it of both the program and its child, but not of the failure of a `read` (`ReadFails`): one that
waits for a writer goes on only when there is something to read or no writer is left.  It is also an assumption there
that a script comes to its end, since its plan is finite (`maketex` really waits as long as the script
runs).  Nothing is assumed of other programs, of calls that are made, or of
signals.  In Fmtutil it means that every engine ends, as it does when run with
`-ini` and no terminal.  DirList, KpseSearch, SyncTeX and OpenClose have safety properties only: what TeX
does next is up to the document.

## Proofs

TLAPS proves, for all values of the constants that their assumptions allow:

| Theorem | States | For every |
|---|---|---|
| `DirListProofs!TypeCorrect` | `Spec => []TypeOK` | set of directories, names, queries |
| `DirListProofs!ListStaysFloated` | `Spec => []MovedFirst` | the same |
| `DirListProofs!SearchesRepeat` | `Spec => []Repeatable` | the same |
| `DirListProofs!SearchesForAllComplete` | `Spec => []AllOnce` | the same |
| `KpseSearchProofs!SearchTypeCorrect` | `Spec => []TypeOK` | path, names, aliases, databases, queries |
| `KpseSearchProofs!FilesFoundAreReal` | `Spec => []FoundIsReal` | the same |
| `KpseSearchProofs!FirstElementWins` | `Spec => []FirstOnPath` | the same |
| `KpseSearchProofs!NothingMadeAgain` | `Spec => []MadeOnlyIfMissing` | the same |
| `KpseSearchProofs!AllFilesFound` | `Spec => []AllFound` | the same |
| `VariablesProofs!InitTypeCorrect` | `LazySpec => []LazyTypeOK` of KpseInit | paths, places of the file, settings; unless the program begins with `path_search` |
| `VariablesProofs!WholePathTried` | `LazySpec => []EveryElementTried` | the same |
| `VariablesProofs!LogIsHonoured` | `LazySpec => []LogHonoured` | the same |
| `VariablesProofs!CnfTypeCorrect` | `Spec => []TypeOK` | files, variables, programs, hash function, lines on the command line |
| `VariablesProofs!LineWins` | `Spec => CommandLineWins` | the same |
| `VariablesProofs!FirstDefinitionWins` | `Spec => FirstDefinition` | the same |
| `VariablesProofs!TableKeepsAll` | `Spec => KeepsAll`, that is `Store!Spec` of MultiMap | the same |
| `VariablesProofs!ExpandTypeCorrect` | `ExpansionSpec => []ExpansionTypeOK` of VarExpand | variables, values, elements, number of rounds |
| `VariablesProofs!OnlyRecursiveLeft` | `ExpansionSpec => []FullyExpanded` | the same |
| `GlyphProofs!GlyphTypeCorrect` | `Spec => []TypeOK` | names, resolutions, files, aliases, lists of sizes, width of a word |
| `GlyphProofs!BestSourceWins` | `Spec => []BestSource` | the same |
| `GlyphProofs!ClosestSizeFound` | `Spec => []ClosestFound` | the same |
| `GlyphProofs!NothingIsMissed` | `Spec => []NothingMissed` | the same |
| `GlyphProofs!WalkStaysInList` | `Spec => [](Strict => InList)` | the same |
| `ScriptsProofs!MakeTexTypeCorrect` | `Spec => []TypeOK` | number of descriptors (three or more), size of pipe and buffer, output of the script |
| `ScriptsProofs!ScriptIsWired` | `Spec => []ScriptWired` | the same |
| `ScriptsProofs!NoDescriptorLost` | `Spec => []NothingLeaked` | the same |
| `ScriptsProofs!ScriptSeenOut` | `Spec => []SeenOut` | the same |
| `ScriptsProofs!LsRTypeCorrect` | `LsRSpec => []LsRTypeOK` | number of scripts and fonts |
| `ScriptsProofs!FontsWhole` | `LsRSpec => []NeverTorn` | the same |
| `ScriptsProofs!PrintedNamesHold` | `LsRSpec => []PrintedThere` | the same |
| `ScriptsProofs!ListedNamesHold` | `LsRSpec => []ListedThere` | the same |
| `ScriptsProofs!GoneBriefly` | `LsRSpec => BrieflyGone` | the same |
| `ScriptsProofs!NamesNotForgotten` | `LsRSpec => NeverForgotten` | the same |
| `SyncTeXProofs!SyncTeXTypeCorrect` | `Spec => []TypeOK` | options, number of tags and pages, depth of nesting |
| `SyncTeXProofs!RecordsHaveAFile` | `Spec => []RecordersSafe` | the same |
| `SyncTeXProofs!RunsLeaveTheirOwn` | `Spec => []InSync` | the same |
| `SyncTeXProofs!TagsHaveInputs` | `Spec => []TagsKnown` | the same |
| `SyncTeXProofs!BracketsNest` | `Spec => []WellNested` | the same |
| `FmtutilProofs!FmtutilTypeCorrect` | `Spec => []TypeOK` | formats, engines and their directories and extensions, dependencies, configurations, commands |
| `FmtutilProofs!DumpsLandRight` | `Spec => []InstalledRight` | the same |
| `FmtutilProofs!RecursionEnds` | `Spec => []NoEndlessRecursion` | the same |
| `FmtutilProofs!BuiltInOrder` | `Spec => []InOrder` | the same |
| `FmtutilProofs!EditsKept` | `Spec => EditKept` | the same |
| `OpenCloseProofs!OpenCloseTypeCorrect` | `Spec => []TypeOK` | handles, names, commands, streams, size of `pipes[]` |
| `OpenCloseProofs!StreamsOwnTheirFiles` | `Spec => []Owned` | the same |
| `OpenCloseProofs!NothingClosedTwice` | `Spec => []ClosedOnce` | the same |
| `OpenCloseProofs!CommandsAwaited` | `Spec => []PipesAwaited` | the same |
| `OpenCloseProofs!OutputReadBack` | `Spec => []ReadBack` | the same, and names with and without extensions |

**DirList.**  `Repeatable` is far from inductive: it compares an answer with one that
was remembered many reorderings ago.  The invariant `IInv` states what
an answer *is*: `Answer(x, r, excused)` says that `r` is what a search for `x`
yields over the list as it stands, but for files that changed meanwhile.
`Remembered` says this of each remembered answer, `Scan` of the part of the list that the
search in progress has left behind, `Running` of the answer just found; `Pointers` and `MovedFirst` keep
the pointers in the list and the list in shape.  The heart is `FloatKeepsOrder`: floating puts nothing
in front of an element that has moved before, and each found file is in a
moved directory.  So answers survive floating (`AnswerFloats`), two answers to one query are
equal unless a changed file is among them (`AnswersAgree`), and
`Repeatable` follows.  It would be false of a plain move-to-front list, the slip
`FloatToFront`.
`AllOnce` is about a walk that reorders the list it walks: `Passed` are the nodes before
`next_elt`, not those before `elt`, which may have floated away from where it was; `Visiting`
says that `Right` holds of all that has been passed, and that `next_elt` is the successor of
`elt` until it floats.

**KpseSearch.**  The properties speak of the elements of the path, the invariant of those
before the one at hand.  An element that has been passed is `Empty` or, in a search for all, `Kept`: for the
database nothing that was there throughout is listed under it (`Unlisted`), for the disk its
directories have been expanded and have been looked through (`NotOnDisk`).  `Passing` carries this along the
path, `AtHand` covers the stages between database, disk and the search that ignores case, `Stages` what
a search may have when the next begins, `Returned` where a result came from.
`Remembered` is about earlier calls: what a script made and nobody touched is in the database still, so
the search that precedes the next script finds it.  All of this is about files that nobody
changes during the call; `fresh` holds the others.

**KpseInit.**  Which call may be under which in the stack decides everything: `Placed` says that a search
for all files (of `texmf.cnf` or `ls-R`) is made by the first lookup and is on the path that this
lookup is at, that a search for one is the program's own and outermost, and that
a first lookup under way was asked for by the program, or by its search before that had begun its loop.  `Begun` is a search that
is in its loop or past it: nothing but a lookup that returns at once is above it, and hence nobody else
has the iterator.  So `Progress` holds of each search: what it has tried and what `iter` has left are the path.
For the log, `Settled` says what the files have said once they are read, `Unread` that nothing is logged
before the first lookup, and `Logged` that the log was looked up after the files.  All of this
needs the proviso that the program does not itself begin with a search over a path of its own: then its
loop has begun when the first lookup takes the iterator away, which are the findings of `KpseInitPath.cfg`
and `KpseInitLog.cfg`.  The run begins in the other two ways, as programs usually do.

**Cnf and HashTable.**  `Table` is the shape of the hash table: a link leads from an element to a later one of
the same bucket, and of the elements of a bucket exactly one has no link, so that they are all on one list.
From it `InsertAdds` follows: to insert is to add the value at the end of the values of its key, and to leave the other keys alone, whichever of them share
the bucket.  That is one step of MultiMap, hence `TableKeepsAll`.  `FirstSeen` ties the values to the files:
the definitions `Seen` are those before the place at hand (where the line that is still being joined begins:
`AtLine`), and the first value of a key starts with the least of them in the order of reading (`Before`).  Environment and
command line need an invariant of their own, `EnvInv`: the last line given has set the variable and `VAR_prog`,
and they keep its value until the next, whatever the program calls itself meanwhile.

**VarExpand.**  `Framed` relates each call to the one that made it: its variable is marked, what it has left is
part of the variable's value, its variable is no other call's, and the value that the
next outer call expands refers to it.  With `Marked`, which says that nothing else is marked, a
reference that is kept because its variable is marked closes a circle of references, so the variable is
`Recursive` (`MarkedRecursive`); `Final` says this of all that has been put out, and a later round,
which expands that once more, finds the same.

**Glyph.**  `Absent` collects what each part of the search that is over has not found, and
`Named` the font that is looked for in the part that goes on, with what `KPATHSEA_NAME` holds.  The walk over the fallback
sizes goes outwards from the size asked for; `Reached` says that all places between its two ends have been tried
and that the place at hand is the closest of the others.  That requires that the sizes ascend
strictly and fit an `int` (`Strict`): the words around the list take part in the
comparison, and only then is `INT_MAX` farther than each of them, whatever the words hold and
however the subtraction wraps around.  `WalkStaysInList` is thus the other half of the finding `InList`.

**MakeTex.**  `open` and `pipe` return the lowest descriptors that are free, and the child puts
them in the places 0, 1 and 2 by `close(to)`, `dup(from)`, `close(from)`, where `dup` too returns the lowest that
is free: that this is the one just closed depends on which standard descriptors the program lacks.  `TookIn`, `TookPipe`, `TookAll` say that the four are
taken in ascending order, so that `childout[1]` is never 0 and `childerr` never 1; from
this `Parent` and `Heir` give both descriptor tables exactly, at each place, in terms of
the program's table `before`.  `Paired` says where the two processes can be together, `Heard` that what has been
read followed by what is in the pipe is what has been said, from which `SeenOut`.

**LsR.**  `IInv` follows each kind of information to where it came from: a maker
about to install holds a whole file (`StagedWhole`), a maker that lists or prints
has installed (`InstalledFirst`), a scan was made of files that are there
(`ScannedThere`), so what is moved into place lists files that are there
(`Listed`).  No step removes a font, hence all of these last.
The other two are about what holds from some time on, and have invariants that need not hold
at first.  `Accounted`: an `ls-R` that is not there is missing because of an updater between `rm` and
`mv`, or one stopped there; once true it stays so.  `Lasting(f)`: `f` is there, in the `ls-R` if
that has the magic line, and in each list that may still replace it; it is true when `f` is in the `ls-R` and no updater is past its scan,
and no step ends it.

**SyncTeX.**  What is true of the state must survive writes that fail at any place
inside a message, so the invariant is stated of a state, `Sound(s, blind)`, and each function of
the module is shown to map sound states to sound states (`DotOpenSound`,
`WritingSound`, and so on); an action then is a chain of them.  `Filed` ties together
the flags of the context, the file and the disk: a file that is open can be removed, a file
that is ready is closed only by turning SyncTeX off.  `Counted` and `Covered`
account for the tags: each is in the file, is waiting as the name of the first file, or is in
`blind`.  Two conditions depend on where TeX is: while it ships something out the file
is ready or SyncTeX off (`Settled`, from which the first half of `RecordersSafe`), and after the end nothing is
open and the names are right (`Ended`, from which `InSync`).  The second half speaks of steps:
`OfKernSound` and `OfNodeSound` show that a record meets a null pointer (`Unrecorded`) only when the kern before it
has closed the file, and no other message ends so.
`WellNested` has an invariant of its own, `Nesting`, since the brackets in the file must be tied to what
TeX is shipping out.  `Shape` says which places occur (a page outermost, a form in a page or form), `Bracketed`
that the open brackets are those of the places that are shown and that `form_depth` counts the
forms: all places, or the page alone while `\synctex` is 0 or the boxes of a form are
hidden.  Between pages the place is empty and so are the brackets (`Blank`), which is what the end of the
run needs.

**Fmtutil.**  `NoEndlessRecursion` compares two programs anywhere in the stack, and each
step sees the last two only.  `Stacked` says of every pair what makes it so: the
upper one is a `mktexfmt`, has inherited the loop of the lower, and is not at work on what
the lower had begun (`Below`); what a `mktexfmt` is at work on is in its own loop (`AtWork`).
Three lemmas, one for each way in which the stack changes (`ReplaceStacked`,
`PushStacked`, `PopStacked`), carry this through all actions.  `InstalledRight` needs of
this only that the innermost program installs what it is at work on.
`InOrder` rests on `Order`: in a program that builds everything, an enabled format is still to
come, at hand, failed or in the temporary directory, and while a format that is not named as its
engine is at hand none that is so named is to come.  `EditKept` is an action property and about data: the lemmas
`Rewritten` and `Added` give the first mention of a format in the new lines, `OriginOf` and `ChangesGoTo` the
file that a change is written to, `TargetSaved` what it holds, and `NextRunReads` puts them
together for what the next run reads.

**OpenClose.**  `Sound` is stated of a state of the C library and of the tables and kept by every
procedure: `Table` and `Recorded` tie `pipes[]` to the pipes that are open, `Kept` and `Back`
what was written to the disk and to what is read, by `FoundFirst`: the name that was written to is
the first that is looked at where output is asked to go, for the names of `Reread`.  `Agreed`
counts owners: `Own` are the streams and levels that hold a handle, and `Matched` says that an open handle has exactly one and a closed one none, so that a `FILE *` that
the library gives out again belongs to nobody.  A pipe that finds no place in the table finds
it full of `NumPipes` others, which is an injection of the table into the open pipes.  The loops of
`FinalCleanup` and `CloseFilesAndTerminate` are the recursive function of `CloseAll`:
`Recursion` shows that there is such a function, and `Upwards` carries an invariant along it.

Assumptions: those named in the modules (`QueriesAssumption`, `SentinelAssumption`,
`ConstantsAssumption`, `GlyphAssumption`, `MakeTexAssumption`, `LsRAssumption`, `GoneAssumption`,
`SyncTeXAssumption`, `FmtCnfAssumption`, `FmtutilAssumption`, `OpenCloseAssumption`, `CnfAssumption`, `PathsAssumption`,
`ValuesAssumption`), which TLC evaluates in the runs.  The proviso of KpseInit (`"path_search" \notin FirstCalls`) is
a hypothesis of its theorems.
They say that values that mark an absence are not values of the data, that
queries, options, commands, dependencies and files are of their kinds, that an element of a path
has no directory twice (in KpseSearch: where `//` lists one again, as DirList allows, its files are found
again, and `kpathsea_path_search_list_generic` removes them), that a file that does not exist has no lines, that sizes fit a word, that a process
has at least the three standard descriptors and that a C library has finitely many `FILE *`.  What the
models assume beyond them: temporary names (`pk$$.tmp`, `lsR$$.tmp`)
are unique, `ls` reads one font directory at once, `mktexupd` appends a line in one step.

The `TypeOK` of these modules, `MovedFirst` and `Strict => InList` have no run: the proofs take their place.

Only model-checked: the liveness properties `CallsReturn`, `ExpansionEnds`, `SearchReturns`, `Returns` and
`FmtutilEnds`, since liveness under fairness and `ENABLED` are beyond the prover.  So are `RECURSIVE` operators,
which the modules therefore avoid: they use recursive functions.  The library's induction theorems take an operator as a
parameter, which the provers cannot use.  Where a proof above needs induction (a loop over
streams, the lowest free descriptor, the first of several lines, the lists of a hash table) it takes the
least element of a set of counterexamples instead, and where it needs to know that a recursive function exists it takes a
function for the first n arguments and adds one (`Recursion`; `Linked`, for recursion along a list, where
they are the last n).  `Downwards` carries a fact along such a list from its end.

## Not modelled

* **Small utilities, kpsewhich, Windows parts**: wrappers, option parsing, or
  not compiled on Unix.
* **Strings**: braces, tildes, default paths, `SELFAUTO*`, absolute names are
  functions on strings and the file system; the models use their results.
* **Reading of `ls-R`, `texfonts.map`, magsteps, the command line of a script**: their results
  are values of the models.
* **Parts with a plan**: expansion of subdirectories, formats and open policies, `updmap`.
* **Font maps** (`fontmap.c`): files that include each other without a limit on depth; a
  reader of text whose result Glyph uses.
* **Of the parts that are modelled**: `hash_remove` (xdvi alone calls it); `--edit`,
  `--byhyphen` and the listings of `fmtutil`; shell-escape parsing, dumping and undumping of
  web2c, `mktextex` (off unless a user turns it on) and a file of the output directory that `fopen`
  refuses once while it grants the next one; coordinates and compression in SyncTeX records.
* **Engines, drivers, font and bibliography tools**: tens of large sequential
  programs with their own documentation, data-heavy rather than stateful, and
  users of kpathsea only through the calls modelled here.
* **SyncTeX parser, libraries, tlmgr, build system**: readers of finished files,
  third-party code, code that needs a network repository, and no running program.

The tree has about 1.4 million lines of program text, of which kpathsea, the scripts and the runtime
modelled here are some 25,000.  The rest is tables (Unicode data, glyph names), programs
maintained elsewhere and copied in, typesetting and file-format code: a model of it would be
the program again, so the share of the whole tree that is modelled stays small by choice, and that of the
code which keeps state between calls and shares it with other processes is the measure here.

## Plan

Done: StrLlist, DirList, KpseSearch, KpseInit, VarExpand, Cnf over HashTable as
an implementation of MultiMap, Glyph, MakeTex, LsR, SyncTeX, FmtCnf and
Fmtutil, OpenClose; proofs of all invariants and action properties that their runs check, and of the refinement.

What remains are modules:

1. **PathSearch**, an abstract search over fixed element lists (first element of the path
   that has a name), and KpseSearch shown to implement it while nothing changes.
2. **Formats**: programs enabled at a level (environment, configuration,
   command line, client), and the policy of `openin_any`/`openout_any`.
   Property: a lower level never undoes a higher one.
3. **EltDirs**: expansion of `//` with link counts, over small trees with symbolic links.
4. **Updmap**: `updmap` with failures in the middle, beside Fmtutil.

As properties get proved, their runs can be given to new modules, so that the whole
project stays small enough to be checked in one go.
