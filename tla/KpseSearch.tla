----------------------------- MODULE KpseSearch ------------------------------
(***************************************************************************)
(* One program looking for files with kpathsea, while other programs       *)
(* create and delete files and directories: kpathsea_path_search,          *)
(* kpathsea_path_search_list_generic, kpathsea_find_file_generic (its two  *)
(* searches and the call of a mktex script), the database searches,        *)
(* kpathsea_element_dirs and kpathsea_db_insert.                           *)
(*                                                                         *)
(* A step is one consultation of the database, one pass over the           *)
(* directories of an element, or one run of a script; DirList looks inside *)
(* a pass.  A file is a pair <<directory, name>>.                          *)
(***************************************************************************)
EXTENDS Naturals, FiniteSets, StrLlist

CONSTANTS
  Dirs, Names,
  Path,      \* the path: its elements, in order, as records
             \*   [dirs: the directories it stands for, in the order of expansion,
             \*    bang: starts with "!!",  indb: below a directory with an ls-R]
  Aliases,   \* Aliases[n]: the names alias_db gives for n, in order
  Variants,  \* Variants[n]: the names equal to n but for case, in the order of
             \* readdir; empty when texmf_casefold_search is off
  Queries,   \* the searches the program makes, see QueriesAssumption
  Compared,  \* those whose answers are remembered and compared
  Databases, \* what `ls-R' may have said: functions from names to lists of directories
  StartDirs, \* the directories that exist at first
  Files,     \* the files that other programs create and delete
  MakeDir,   \* where the mktex scripts install
  Never      \* a query that has not been made yet

Elements == [dirs : Seq(Dirs), bang : BOOLEAN, indb : BOOLEAN]

\* A query of kpathsea_path_search ("one") has one name.  One of
\* kpathsea_find_file_generic ("find") has the target names, the names of the
\* second search ("a subset of the previous set of names"), and the file a
\* script makes for it (Null: no script).
QueriesAssumption ==
  /\ Queries \subseteq [api : {"one", "find"}, names : Seq(Names), again : Seq(Names),
                        must : BOOLEAN, all : BOOLEAN, make : Names \cup {Null}]
  /\ \A x \in Queries : /\ ToSet(x.again) \subseteq ToSet(x.names)
                        /\ x.api = "one" => Len(x.names) = 1

ASSUME ConstantsAssumption ==
  /\ Path \in Seq(Elements)
  /\ \A e \in DOMAIN Path : IsInjective(Path[e].dirs)
  /\ Aliases \in [Names -> Seq(Names)]
  /\ Variants \in [Names -> Seq(Names)]
  /\ QueriesAssumption /\ Compared \subseteq Queries
  /\ Databases \subseteq [Names -> Seq(Dirs)]
  /\ StartDirs \subseteq Dirs
  /\ Files \subseteq Dirs \X Names
  /\ MakeDir \in Dirs
  /\ Null \notin Names /\ Null \notin [Names -> Seq(Dirs)] /\ Null \notin Seq(Dirs)
  /\ Never \notin Seq(Dirs \X Names)

VARIABLES
  there,    \* the directories that exist
  disk,     \* the readable files
  db,       \* kpse->db, or Null when no ls-R was found
  cache,    \* cache[e]: the directories of element e, Null until expanded
  moved,    \* moved[e]: those that have floated
  pc,       \* "idle", "db", "disk", "fold", "make", "made" or "return"
  q,        \* the query in progress
  ph,       \* which of the two searches of find_file_generic
  e,        \* the index of the path element in hand
  ret,      \* the result list
  answer,   \* history: the result of the last call for each query
  touched,  \* history: touched[x], the files that changed since that call began
  fresh,    \* history: the files that changed since this call began
  made      \* history: files returned by make_tex and not deleted since

call == <<q, ph, e, ret>>
memory == <<db, cache, moved>>
history == <<answer, touched, fresh, made>>
vars == <<there, disk, memory, pc, call, history>>

Results == Seq(Dirs \X Names)

TypeOK ==
  /\ there \subseteq Dirs
  /\ disk \subseteq Dirs \X Names
  /\ db \in [Names -> Seq(Dirs)] \cup {Null}
  /\ cache \in [DOMAIN Path -> Seq(Dirs) \cup {Null}]
  /\ moved \in [DOMAIN Path -> SUBSET Dirs]
  /\ pc \in {"idle", "db", "disk", "fold", "make", "made", "return"}
  /\ q \in Queries \cup {Null}
  /\ ph \in {1, 2}
  /\ e \in 1..(Len(Path) + 1)
  /\ ret \in Results
  /\ answer \in [Compared -> Results \cup {Never}]
  /\ touched \in [Compared -> SUBSET (Dirs \X Names)]
  /\ fresh \subseteq Dirs \X Names
  /\ made \subseteq Dirs \X Names

-----------------------------------------------------------------------------
(* The database. *)

\* Slip: believe ls-R without looking at the disk.
TrustingProbe(d, ctry, alts) == <<<<d, ctry>>>>

\* The first of some names that is a readable file of a directory: one file
\* or none.
FirstReadable(d, tries) ==
  LET k == SelectInSeq(tries, LAMBDA n : <<d, n>> \in disk)
  IN  IF k = 0 THEN <<>> ELSE <<<<d, tries[k]>>>>

\* The listed file, or else the first of its aliases in the same directory.
Probe(d, ctry, alts) == FirstReadable(d, <<ctry>> \o alts)

\* The files found under the name `ctry' among the directories of element x.
TryHits(x, ctry, alts) ==
  FlattenSeq([k \in DOMAIN db[ctry] |->
                IF db[ctry][k] \in ToSet(Path[x].dirs) THEN Probe(db[ctry][k], ctry, alts)
                ELSE <<>>])

\* The hits of a name, one list for each of: the name itself, its aliases.
HitsByTry(x, name) ==
  LET tries == <<name>> \o Aliases[name]
  IN  [t \in DOMAIN tries |-> TryHits(x, tries[t], Aliases[name])]

FirstOnly(s) == IF s = <<>> THEN <<>> ELSE <<s[1]>>

\* Slip: the loop over the names forgets the hits of the names before, as the
\* loop over the aliases of DbSearch does.
DbSearchListForgets(x, names, all) ==
  LET hits == [k \in DOMAIN names |-> FlattenSeq(HitsByTry(x, names[k]))]
  IN  IF all THEN Last(hits) ELSE FirstOnly(FlattenSeq(hits))

\* kpathsea_db_search_list.
DbSearchList(x, names, all) ==
  LET hits == FlattenSeq([k \in DOMAIN names |-> FlattenSeq(HitsByTry(x, names[k]))])
  IN  IF all THEN hits ELSE FirstOnly(hits)

\* kpathsea_db_search: `ret' is a new list for every try, so that a search
\* for all files keeps what the last one found.
DbSearch(x, name, all) ==
  LET hits == HitsByTry(x, name)
  IN  IF all THEN Last(hits) ELSE FirstOnly(FlattenSeq(hits))

Relevant(x) == db # Null /\ Path[x].indb

-----------------------------------------------------------------------------
(* The disk. *)

\* The list of directories of an element: expanded when first needed, from
\* the directories that exist then, and remembered for good.
ElementDirs(x) ==
  IF cache[x] # Null THEN cache[x]
  ELSE LET dirs == Path[x].dirs
       IN  FlattenSeq([k \in DOMAIN dirs |-> IF dirs[k] \in there THEN <<dirs[k]>> ELSE <<>>])

\* kpathsea_readable_file and casefold_readable_file.
Readable(d, name, fold) == FirstReadable(d, IF fold THEN Variants[name] ELSE <<name>>)

HitsIn(d, names, fold) == FlattenSeq([k \in DOMAIN names |-> Readable(d, names[k], fold)])

\* dir_list_search and dir_list_search_list.
DirSearch(dirs, names, all, fold) ==
  LET hits == FlattenSeq([k \in DOMAIN dirs |-> HitsIn(dirs[k], names, fold)])
  IN  IF all THEN hits ELSE FirstOnly(hits)

\* The list after its directories with a hit have floated, in that order.
Floated(dirs, mv, hits) ==
  LET list[k \in 0..Len(hits)] ==
        IF k = 0 THEN dirs
        ELSE Float(list[k - 1], mv \cup {hits[j][1] : j \in 1..(k - 1)}, hits[k][1])
  IN  [dirs |-> list[Len(hits)], mv |-> mv \cup {f[1] : f \in ToSet(hits)}]

-----------------------------------------------------------------------------
names == IF ph = 1 THEN q.names ELSE q.again

must_exist == IF q.api = "find" THEN ph = 2 ELSE q.must

Init ==
  /\ there = StartDirs
  /\ disk \in SUBSET {f \in Files : f[1] \in StartDirs}
  /\ db \in Databases \cup {Null}
  /\ cache = [x \in DOMAIN Path |-> Null]
  /\ moved = [x \in DOMAIN Path |-> {}]
  /\ pc = "idle" /\ q = Null /\ ph = 1 /\ e = 1 /\ ret = <<>>
  /\ answer = [x \in Compared |-> Never]
  /\ touched = [x \in Compared |-> {}]
  /\ fresh = {} /\ made = {}

Call(x) ==
  /\ pc = "idle"
  /\ pc' = "db" /\ q' = x /\ ph' = 1 /\ e' = 1 /\ ret' = <<>>
  /\ fresh' = {}
  /\ UNCHANGED <<there, disk, memory, answer, touched, made>>

\* Slip: the loop runs on after the first hit, and a later one replaces it.
TakeLater(found) ==
  /\ ret' = IF found = <<>> THEN ret ELSE IF q.all THEN ret \o found ELSE FirstOnly(found)
  /\ e' = e + 1
  /\ pc' = "db"

\* What an element yielded joins the result; one file is enough unless all
\* are wanted.
Take(found) ==
  IF found # <<>> /\ ~q.all
  THEN ret' = FirstOnly(found) /\ e' = e /\ pc' = "return"
  ELSE ret' = ret \o found /\ e' = e + 1 /\ pc' = "db"

\* Slip: the disk is searched only where there is no database.
DiskIfNoDb(x, found) == ~Path[x].bang /\ ~Relevant(x)

\* Whether the disk is searched too, given what the database said.
OnDisk(x, found) == ~Path[x].bang /\ (~Relevant(x) \/ (must_exist /\ found = <<>>))

ConsultDb ==
  /\ pc = "db" /\ e <= Len(Path)
  /\ LET found == IF ~Relevant(e) THEN <<>>
                  ELSE IF q.api = "one" THEN DbSearch(e, names[1], q.all)
                  ELSE DbSearchList(e, names, q.all)
     IN  IF OnDisk(e, found) THEN pc' = "disk" /\ UNCHANGED <<e, ret>>
                             ELSE Take(found)
  /\ UNCHANGED <<there, disk, memory, q, ph, history>>

\* A pass over the directories of the element; when it finds nothing, and
\* there are directories, another one that ignores case.
Pass(fold) ==
  LET dirs == ElementDirs(e)
      found == DirSearch(dirs, names, q.all, fold)
      floated == Floated(dirs, moved[e], found)
      again == ~fold /\ found = <<>> /\ dirs # <<>> /\ \E n \in ToSet(names) : Variants[n] # <<>>
  IN  /\ cache' = [cache EXCEPT ![e] = floated.dirs]
      /\ moved' = [moved EXCEPT ![e] = floated.mv]
      /\ IF again THEN pc' = "fold" /\ UNCHANGED <<e, ret>> ELSE Take(found)
      /\ UNCHANGED <<there, disk, db, q, ph, history>>

SearchDisk == pc = "disk" /\ Pass(FALSE)

SearchFolded == pc = "fold" /\ Pass(TRUE)

\* str_list_uniqify: the first of equal strings is kept.
Uniqify(s) ==
  FlattenSeq([k \in DOMAIN s |-> IF \E j \in 1..(k - 1) : s[j] = s[k] THEN <<>> ELSE <<s[k]>>])

\* The path is exhausted: a search for one file that must exist goes on with
\* the second search and then with a script.
EndOfPath ==
  /\ pc = "db" /\ e > Len(Path)
  /\ ret' = IF q.api = "find" THEN Uniqify(ret) ELSE ret
  /\ IF ret = <<>> /\ q.api = "find" /\ q.must
     THEN IF ph = 1 THEN pc' = "db" /\ ph' = 2 /\ e' = 1
          ELSE pc' = (IF q.make = Null THEN "return" ELSE "make") /\ UNCHANGED <<ph, e>>
     ELSE pc' = "return" /\ UNCHANGED <<ph, e>>
  /\ UNCHANGED <<there, disk, memory, q, history>>

\* The script finds the file somewhere after all, or installs it, and prints
\* its name.
ScriptPrints ==
  /\ pc = "make"
  /\ \E f \in {g \in disk : g[2] = q.make} \cup {<<MakeDir, q.make>>} :
       /\ there' = there \cup {f[1]}
       /\ disk' = disk \cup {f}
       /\ ret' = <<f>>
       /\ fresh' = fresh \cup {f}
       /\ touched' = [x \in Compared |-> IF answer[x] = Never THEN {} ELSE touched[x] \cup {f}]
  /\ pc' = "made"
  /\ UNCHANGED <<memory, q, ph, e, answer, made>>

\* misstex: nothing is found.
ScriptFails ==
  /\ pc = "make"
  /\ pc' = "return"
  /\ UNCHANGED <<there, disk, memory, call, history>>

\* The rest of maketex: the name must be that of a readable file, which then
\* enters the database.
MakeTex ==
  /\ pc = "made"
  /\ IF ret[1] \in disk
     THEN /\ made' = made \cup {ret[1]}
          /\ db' = IF db = Null THEN Null
                   ELSE [db EXCEPT ![ret[1][2]] = Append(@, ret[1][1])]
          /\ UNCHANGED ret
     ELSE ret' = <<>> /\ UNCHANGED <<db, made>>
  /\ pc' = "return"
  /\ UNCHANGED <<there, disk, cache, moved, q, ph, e, answer, touched, fresh>>

Return ==
  /\ pc = "return"
  /\ pc' = "idle"
  /\ answer' = [x \in Compared |-> IF x = q THEN ret ELSE answer[x]]
  /\ touched' = [x \in Compared |-> IF x = q THEN fresh ELSE touched[x]]
  /\ q' = Null /\ ph' = 1 /\ e' = 1 /\ ret' = <<>> /\ fresh' = {}
  /\ UNCHANGED <<there, disk, memory, made>>

-----------------------------------------------------------------------------
(* Other programs. *)

Change(f) ==
  /\ f[1] \in there
  /\ disk' = IF f \in disk THEN disk \ {f} ELSE disk \cup {f}
  /\ made' = made \ {f}
  /\ touched' = [x \in Compared |-> IF answer[x] = Never THEN {} ELSE touched[x] \cup {f}]
  /\ fresh' = IF pc = "idle" THEN fresh ELSE fresh \cup {f}
  /\ UNCHANGED <<there, memory, pc, call, answer>>

MakeDirectory(d) ==
  /\ d \notin there
  /\ there' = there \cup {d}
  /\ UNCHANGED <<disk, memory, pc, call, history>>

Next ==
  \/ \E x \in Queries : Call(x)
  \/ ConsultDb \/ SearchDisk \/ SearchFolded \/ EndOfPath
  \/ ScriptPrints \/ ScriptFails \/ MakeTex
  \/ Return
  \/ \E f \in Files : Change(f)
  \/ \E d \in Dirs : MakeDirectory(d)

Spec == Init /\ [][Next]_vars

-----------------------------------------------------------------------------
(* Properties *)

\* The file is listed in the database under element x, and is there, and was
\* not changed while the call ran.
Listed(x, f) ==
  /\ Relevant(x) /\ f \in disk \ fresh
  /\ f[1] \in ToSet(Path[x].dirs) \cap ToSet(db[f[2]])

\* The same for the directories that element x is searched in on disk.
OnElementDisk(x, f) ==
  /\ ~Path[x].bang /\ f \in disk \ fresh
  /\ f[1] \in ToSet(ElementDirs(x))

\* f is the file n itself, or a variant or alias under which n may be found.
Stands(f, n) == f[2] \in {n} \cup ToSet(Aliases[n]) \cup ToSet(Variants[n])

\* A search returns nothing that was not a readable file at some moment of
\* the search, under a name that stands for one it was given, and, from an
\* element that starts with "!!", in a directory the database names: ls-R is
\* never believed without a look at the disk.
FoundIsReal ==
  pc = "return" =>
    \A f \in ToSet(ret) :
      /\ f \in disk \cup fresh
      /\ \/ f \in fresh
         \/ \E n \in ToSet(q.names), x \in DOMAIN Path :
              /\ Stands(f, n) /\ f[1] \in ToSet(Path[x].dirs)
              /\ Path[x].bang => Relevant(x) /\ \E m \in Names : f[1] \in ToSet(db[m])

\* The result of a search for one file comes from the first element of the
\* path that has one: nothing in the database under an earlier element was
\* passed over, nor anything on the disk where the database says nothing or
\* the file must exist.
FirstOnPath ==
  pc = "return" /\ ~q.all /\ ret # <<>> /\ ret[1] \notin fresh =>
    \E x \in DOMAIN Path :
      /\ ret[1][1] \in ToSet(Path[x].dirs)
      /\ \A y \in 1..(x - 1), n \in ToSet(names), d \in Dirs :
           /\ ~Listed(y, <<d, n>>)
           /\ ~Relevant(y) \/ must_exist => ~OnElementDisk(y, <<d, n>>)

\* A script is run only when the file is nowhere the search could have seen
\* it: not in the database under any of the target names, and not on disk; and
\* what a script made in this run is found without running it again, although
\* ls-R is not read again, if its directory is below an ls-R
\* (kpathsea_db_insert: "ls-R ... after a font is made").
MadeOnlyIfMissing ==
  pc = "make" =>
    \A x \in DOMAIN Path, d \in Dirs :
      /\ \A n \in ToSet(q.names) : ~Listed(x, <<d, n>>)
      /\ \A n \in ToSet(q.again) : ~OnElementDisk(x, <<d, n>>)
      /\ \A f \in made : f[2] \in ToSet(q.names) /\ Relevant(x)
                           => f[1] \notin ToSet(Path[x].dirs)

\* A search for all files returns every file that is listed in the database
\* under an element of the path, and every file of the elements that only the
\* disk knows.
AllFound ==
  pc = "return" /\ q.api = "find" /\ q.all =>
    \A x \in DOMAIN Path, n \in ToSet(names), d \in Dirs :
      /\ \A m \in {n} \cup ToSet(Aliases[n]) :
           Listed(x, <<d, m>>) => <<d, m>> \in ToSet(ret)
      /\ ~Relevant(x) /\ OnElementDisk(x, <<d, n>>) => <<d, n>> \in ToSet(ret)

\* kpathsea_all_path_search: "Search PATH for all files named NAME".
AllPathSearch ==
  pc = "return" /\ q.api = "one" /\ q.all =>
    \A x \in DOMAIN Path, d \in Dirs :
      Listed(x, <<d, q.names[1]>>) => <<d, q.names[1]>> \in ToSet(ret)

\* The same search gives the same answer again, whatever was searched for in
\* between and wherever that moved the directories, unless a file in the
\* directory of one of the two answers was created, deleted or made meanwhile.
SameAgain ==
  pc = "return" /\ q \in Compared /\ ~q.all /\ answer[q] # Never /\ answer[q] # ret =>
    \E f \in ToSet(answer[q]) \cup ToSet(ret), g \in touched[q] : f[1] = g[1]
==============================================================================
