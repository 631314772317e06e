------------------------------- MODULE DirList -------------------------------
(***************************************************************************)
(* The directory list of one path element and the searches that run over   *)
(* it: str-llist.c (the list whose successful directories float to the     *)
(* front) and dir_list_search / dir_list_search_list of pathsearch.c,      *)
(* while other programs create and delete files.                           *)
(*                                                                         *)
(* A list element is a node of the linked list: the directory it names and *)
(* the number of the allocation that made it, for a path element with two  *)
(* "//" may list one directory more than once.                             *)
(*                                                                         *)
(* A query is the list of names one search looks for.  dir_list_search is  *)
(* the query of length one; dir_list_search_list is the general one.       *)
(***************************************************************************)
EXTENDS Naturals, FiniteSets, StrLlist

CONSTANTS Dirs,      \* the directories an element may expand to
          Names,     \* the file names looked for
          Queries,   \* the lists of names that are searched for
          MaxElts,   \* bound: the nodes of the list
          Never      \* a query that has not been made yet

\* str_llist_elt_type: the directory of a node, told apart by its allocation.
Elts == Dirs \X Nat
Dir(e) == e[1]

ASSUME QueriesAssumption == Queries \subseteq Seq(Names)
ASSUME SentinelAssumption == /\ Null \notin Elts \cup (Dirs \X Names)
                             /\ Never \notin (Dirs \X Names) \cup {Null}

VARIABLES
  list,     \* the nodes in order
  moved,    \* the nodes whose `moved' flag is set
  disk,     \* disk[n]: the directories that hold a readable file n
  pc,       \* "build", "idle", "search" or "done"
  q, all,   \* the search in progress: its query and search_all
  elt, nxt, \* the elements `elt' and `next_elt' of the loop
  i,        \* the index of the name tried in `elt'
  ret,      \* the files found so far, as <<node, name>>
  found,    \* history: the file the last one-file search for a query found
  touched,  \* history: touched[x], the files changed since found[x] was looked for
  fresh     \* history: the files changed since this search began

search == <<q, all, elt, nxt, i, ret>>
history == <<found, touched, fresh>>
vars == <<list, moved, disk, pc, search, history>>

Results == (Dirs \X Names) \cup {Null}

TypeOK ==
  /\ list \in Seq(Elts)
  /\ moved \subseteq Elts
  /\ disk \in [Names -> SUBSET Dirs]
  /\ pc \in {"build", "idle", "search", "done"}
  /\ q \in Queries \cup {<<>>}
  /\ all \in BOOLEAN
  /\ elt \in Elts \cup {Null}
  /\ nxt \in Elts \cup {Null}
  /\ i \in Nat \ {0}
  /\ ret \in Seq(Elts \X Names)
  /\ found \in [Queries -> Results \cup {Never}]
  /\ touched \in [Queries -> SUBSET (Dirs \X Names)]
  /\ fresh \subseteq Dirs \X Names

-----------------------------------------------------------------------------
Init ==
  /\ list = <<>> /\ moved = {}
  /\ disk \in [Names -> SUBSET Dirs]
  /\ pc = "build"
  /\ q = <<>> /\ all = FALSE
  /\ elt = Null /\ nxt = Null /\ i = 1 /\ ret = <<>>
  /\ found = [x \in Queries |-> Never]
  /\ touched = [x \in Queries |-> {}]
  /\ fresh = {}

\* expand_elt and do_subdir add a directory, whether or not it is listed already: do_subdir
\* adds the directory it was called for again when a second "//" follows the part it matched.
Add(d) ==
  /\ pc = "build"
  /\ Len(list) < MaxElts
  /\ list' = Append(list, <<d, Len(list) + 1>>)
  /\ UNCHANGED <<moved, disk, pc, search, history>>

\* kpathsea_element_dirs has cached the list: it is only searched from now on.
Cached ==
  /\ pc = "build"
  /\ pc' = "idle"
  /\ UNCHANGED <<list, moved, disk, search, history>>

\* Take the node e as `elt' and remember its successor before it floats.
Visit(s, e) ==
  /\ elt' = e
  /\ nxt' = IF e = Null THEN Null ELSE Next_elt(s, e)
  /\ i' = 1

Start(names, search_all) ==
  /\ pc = "idle"
  /\ pc' = "search"
  /\ q' = names /\ all' = search_all /\ ret' = <<>>
  /\ Visit(list, Head_elt(list))
  /\ fresh' = {}
  /\ UNCHANGED <<list, moved, disk, found, touched>>

\* Slip: leave the loop over the names after a hit even when all are wanted.
HitBreaks ==
  /\ pc = "search" /\ elt # Null /\ i <= Len(q)
  /\ Dir(elt) \in disk[q[i]]
  /\ ret' = Append(ret, <<elt, q[i]>>)
  /\ list' = Float(list, moved, elt)
  /\ moved' = moved \cup {elt}
  /\ pc' = IF all THEN "search" ELSE "done"
  /\ i' = Len(q) + 1
  /\ UNCHANGED <<disk, q, all, elt, nxt, history>>

\* The name is readable in elt: record the file and float the element.
Hit ==
  /\ pc = "search" /\ elt # Null /\ i <= Len(q)
  /\ Dir(elt) \in disk[q[i]]
  /\ ret' = Append(ret, <<elt, q[i]>>)
  /\ list' = Float(list, moved, elt)
  /\ moved' = moved \cup {elt}
  /\ pc' = IF all THEN "search" ELSE "done"
  /\ i' = i + 1
  /\ UNCHANGED <<disk, q, all, elt, nxt, history>>

Miss ==
  /\ pc = "search" /\ elt # Null /\ i <= Len(q)
  /\ Dir(elt) \notin disk[q[i]]
  /\ i' = i + 1
  /\ UNCHANGED <<list, moved, disk, pc, q, all, elt, nxt, ret, history>>

NextDir ==
  /\ pc = "search" /\ elt # Null /\ i > Len(q)
  /\ Visit(list, nxt)
  /\ UNCHANGED <<list, moved, disk, pc, q, all, ret, history>>

EndOfList ==
  /\ pc = "search" /\ elt = Null
  /\ pc' = "done"
  /\ UNCHANGED <<list, moved, disk, search, history>>

\* The name returned is the directory and the file name, put together.
Result == IF ret = <<>> THEN Null ELSE <<Dir(ret[1][1]), ret[1][2]>>

\* The caller takes the list, and the locals die.  A one-file answer is remembered, and what
\* changed since the search began is what may explain a different answer.
Return ==
  /\ pc = "done"
  /\ pc' = "idle"
  /\ found' = IF all THEN found ELSE [found EXCEPT ![q] = Result]
  /\ touched' = IF all THEN touched ELSE [touched EXCEPT ![q] = fresh]
  /\ q' = <<>> /\ all' = FALSE
  /\ elt' = Null /\ nxt' = Null /\ i' = 1 /\ ret' = <<>>
  /\ fresh' = {}
  /\ UNCHANGED <<list, moved, disk>>

\* Another program creates or deletes the file n in directory d.  Before the
\* list is complete nothing has been looked for, and the disk is arbitrary.
Change(d, n) ==
  /\ pc # "build"
  /\ disk' = [disk EXCEPT ![n] = IF d \in @ THEN @ \ {d} ELSE @ \cup {d}]
  /\ touched' = [x \in Queries |->
                   IF found[x] = Never THEN touched[x] ELSE touched[x] \cup {<<d, n>>}]
  /\ fresh' = IF pc = "idle" THEN fresh ELSE fresh \cup {<<d, n>>}
  /\ UNCHANGED <<list, moved, pc, search, found>>

Step == Hit \/ Miss \/ NextDir \/ EndOfList

Next ==
  \/ \E d \in Dirs : Add(d)
  \/ Cached
  \/ \E names \in Queries, search_all \in BOOLEAN : Start(names, search_all)
  \/ Step
  \/ Return
  \/ \E d \in Dirs, n \in Names : Change(d, n)

Spec == Init /\ [][Next]_vars

-----------------------------------------------------------------------------
(* Properties *)

\* The floated nodes come first, before every node that never had a hit
\* (str_llist_float's "insert before unmoved and after last_moved"), and
\* relinking neither loses nor doubles a node.
MovedFirst ==
  /\ IsInjective(list)
  /\ moved \subseteq ToSet(list)
  /\ MovedPrefix(list, moved)

\* Although the order changes with every first hit in a directory, the same
\* one-file search gives the same answer again, unless one of the two files
\* concerned was created or deleted in between.
Repeatable ==
  pc = "done" /\ ~all /\ found[q] # Never /\ found[q] # Result
    => {found[q], Result} \cap touched[q] # {}

\* A search for all files visits every node of the list once although the
\* list is reordered under the loop: for each node it returns every file that
\* was in its directory throughout, none that was absent throughout, and each
\* once unless a name was given twice.  A directory that is listed twice
\* gives its files twice.
AllOnce ==
  pc = "done" /\ all =>
    /\ IsInjective(q) => IsInjective(ret)
    /\ \A e \in ToSet(list), n \in ToSet(q) :
         <<Dir(e), n>> \notin fresh => (Dir(e) \in disk[n] <=> <<e, n>> \in ToSet(ret))

==============================================================================
