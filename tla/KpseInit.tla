------------------------------ MODULE KpseInit -------------------------------
(***************************************************************************)
(* The lazy initialisation of kpathsea, as a stack of calls: a variable    *)
(* looked up for the first time reads texmf.cnf and then the databases,    *)
(* both by searching a path, and path searches look variables up.  All the *)
(* loops over a path share the one iterator kpse->path.                    *)
(*                                                                         *)
(* kpathsea_path_search and kpathsea_path_search_list_generic, log_search, *)
(* kpathsea_cnf_get, read_all_cnf, kpathsea_init_db, kpathsea_var_value    *)
(* and the iterator of path-elt.c.  What a search finds is fixed; how it   *)
(* looks for it is the subject of KpseSearch.                              *)
(***************************************************************************)
EXTENDS Naturals, Sequences, SequencesExt

CONSTANTS
  UserPath, CnfPath, DbPath, \* three paths: sequences of path elements
  FirstCalls,                \* what the program may call first, of Calls
  Null

Calls == {"path_search", "find_file", "var_value"}

Elements == ToSet(UserPath) \cup ToSet(CnfPath) \cup ToSet(DbPath)

ASSUME PathsAssumption ==
  /\ UserPath \in Seq(Elements) /\ CnfPath \in Seq(Elements) /\ DbPath \in Seq(Elements)
  /\ <<>> \notin {UserPath, CnfPath, DbPath}
  /\ FirstCalls \subseteq Calls
  /\ Null \notin Seq(Elements)

VARIABLES
  has,      \* the elements in which the file that is searched for there exists
  environ,  \* the variables found in the environment: "fold" is texmf_casefold_search,
            \* "log" is TEXMFLOG
  cnflog,   \* texmf.cnf gives a value to TEXMFLOG
  iter,     \* kpse->path: the elements still to come, Null at the end
  stack,    \* the calls in progress, innermost first
  hash,     \* kpse->cnf_hash has been created
  reading,  \* kpse->doing_cnf_init
  cnf,      \* a texmf.cnf has been read
  db,       \* kpse->db has been built
  followup, \* kpse->followup_search
  opened,   \* kpse->log_opened
  logging,  \* kpse->log_file
  called    \* history: whether the program has called kpathsea

world == <<has, environ, cnflog>>
lazyVars == <<world, iter, stack, hash, reading, cnf, db, followup, opened, logging, called>>

Searching == [fn : {"search"}, pc : {"start", "loop", "end", "log", "done"},
              path : {UserPath, CnfPath, DbPath}, all : BOOLEAN,
              tried : SUBSET Elements, found : BOOLEAN]
Getting == [fn : {"cnf_get"}, pc : {"enter", "read_all_cnf", "init_db", "aliases"}]

LazyTypeOK ==
  /\ has \subseteq Elements /\ environ \subseteq {"fold", "log"}
  /\ iter \in Seq(Elements) \cup {Null}
  /\ stack \in Seq(Searching \cup Getting)
  /\ {cnflog, hash, reading, cnf, db, followup, opened, logging, called} \subseteq BOOLEAN

-----------------------------------------------------------------------------
Search(path, all) == [fn |-> "search", pc |-> "start", path |-> path, all |-> all,
                      tried |-> {}, found |-> FALSE]
CnfGetCall == [fn |-> "cnf_get", pc |-> "enter"]

LazyInit ==
  /\ has \in SUBSET Elements /\ environ \in SUBSET {"fold", "log"} /\ cnflog \in BOOLEAN
  /\ iter = Null /\ stack = <<>>
  /\ hash = FALSE /\ reading = FALSE /\ cnf = FALSE /\ db = FALSE
  /\ followup = FALSE /\ opened = FALSE /\ logging = FALSE /\ called = FALSE

\* Slip: kpathsea_find_file leaves the variables to the search.
CallLazily(fn) ==
  /\ stack = <<>>
  /\ called \/ fn \in FirstCalls
  /\ called' = TRUE
  /\ stack' = IF fn = "var_value" THEN <<CnfGetCall>> ELSE <<Search(UserPath, FALSE)>>
  /\ UNCHANGED <<world, iter, hash, reading, cnf, db, followup, opened, logging>>

\* The program calls kpathsea_path_search with a path of its own;
\* kpathsea_find_file, which looks variables up to initialise the format and
\* then searches; or kpathsea_var_value.
Call(fn) ==
  /\ stack = <<>>
  /\ called \/ fn \in FirstCalls
  /\ called' = TRUE
  /\ stack' = CASE fn = "path_search" -> <<Search(UserPath, FALSE)>>
                [] fn = "find_file" -> <<CnfGetCall, Search(UserPath, FALSE)>>
                [] fn = "var_value" -> <<CnfGetCall>>
  /\ UNCHANGED <<world, iter, hash, reading, cnf, db, followup, opened, logging>>

In(fn, pc) == stack # <<>> /\ Head(stack).fn = fn /\ Head(stack).pc = pc

\* The innermost call becomes s.
Become(s) == s \o Tail(stack)

-----------------------------------------------------------------------------
(* The loop over the elements of a path. *)

\* Slip: kpse->path is not cleared at the end of the path.
AdvanceForEver(rest) == IF rest = Null \/ Len(rest) = 1 THEN rest ELSE Tail(rest)

\* kpathsea_path_element (kpse, NULL), or with the rest of the path.
Advance(rest) == IF rest = Null \/ Len(rest) = 1 THEN Null ELSE Tail(rest)

Begin ==
  /\ In("search", "start")
  /\ iter' = Head(stack).path
  /\ stack' = Become(<<[Head(stack) EXCEPT !.pc = "loop"]>>)
  /\ UNCHANGED <<world, hash, reading, cnf, db, followup, opened, logging, called>>

\* Where the file is not found as it is, texmf_casefold_search decides
\* whether to look again; kpathsea_var_value asks the environment first.
Element ==
  /\ In("search", "loop") /\ iter # Null
  /\ LET elt == Head(iter)
         s == [Head(stack) EXCEPT !.tried = @ \cup {elt}]
     IN  IF elt \in has
         THEN IF s.all
              THEN stack' = Become(<<[s EXCEPT !.found = TRUE]>>) /\ iter' = Advance(iter)
              ELSE /\ stack' = Become(<<[s EXCEPT !.found = TRUE, !.pc = "end"]>>)
                   /\ iter' = Advance(Advance(iter))
         ELSE /\ stack' = Become(IF "fold" \in environ THEN <<s>> ELSE <<CnfGetCall, s>>)
              /\ iter' = Advance(iter)
  /\ UNCHANGED <<world, hash, reading, cnf, db, followup, opened, logging, called>>

LoopEnd ==
  /\ In("search", "loop") /\ iter = Null
  /\ stack' = Become(<<[Head(stack) EXCEPT !.pc = "end"]>>)
  /\ UNCHANGED <<world, iter, hash, reading, cnf, db, followup, opened, logging, called>>

\* Slip: the first search, too, is recorded in the log.
LogFirst ==
  /\ In("search", "end")
  /\ followup' = TRUE
  /\ stack' = Become(IF ~opened /\ "log" \notin environ
                     THEN <<CnfGetCall, [Head(stack) EXCEPT !.pc = "log"]>>
                     ELSE <<[Head(stack) EXCEPT !.pc = IF opened THEN "done" ELSE "log"]>>)
  /\ UNCHANGED <<world, iter, hash, reading, cnf, db, opened, logging, called>>

\* The first search of all is not recorded; any later one is, and to find out
\* where, TEXMFLOG is looked up once.
SearchEnd ==
  /\ In("search", "end")
  /\ followup' = TRUE
  /\ LET s == Head(stack)
     IN  stack' = Become(IF ~followup \/ opened THEN <<[s EXCEPT !.pc = "done"]>>
                         ELSE IF "log" \in environ THEN <<[s EXCEPT !.pc = "log"]>>
                         ELSE <<CnfGetCall, [s EXCEPT !.pc = "log"]>>)
  /\ UNCHANGED <<world, iter, hash, reading, cnf, db, opened, logging, called>>

\* kpathsea_cnf_get knows no value while texmf.cnf is being read.
OpenLog ==
  /\ In("search", "log")
  /\ opened' = TRUE
  /\ logging' = (logging \/ "log" \in environ \/ (~reading /\ cnf /\ cnflog))
  /\ stack' = Become(<<[Head(stack) EXCEPT !.pc = "done"]>>)
  /\ UNCHANGED <<world, iter, hash, reading, cnf, db, followup, called>>

SearchDone ==
  /\ In("search", "done")
  /\ stack' = Become(<<>>)
  \* read_all_cnf goes on to read the files that were found
  /\ cnf' = (cnf \/ (Head(stack).path = CnfPath /\ Head(stack).found))
  /\ UNCHANGED <<world, iter, hash, reading, db, followup, opened, logging, called>>

-----------------------------------------------------------------------------
(* The configuration and the databases. *)

\* Return at once while texmf.cnf is being read or when it has been; else
\* create the hash table and read.
Enter ==
  /\ In("cnf_get", "enter")
  /\ IF reading \/ hash
     THEN stack' = Become(<<>>) /\ UNCHANGED <<hash, reading>>
     ELSE /\ hash' = TRUE /\ reading' = TRUE
          /\ stack' = Become(<<Search(CnfPath, TRUE), [Head(stack) EXCEPT !.pc = "read_all_cnf"]>>)
  /\ UNCHANGED <<world, iter, cnf, db, followup, opened, logging, called>>

\* texmf.cnf has been read: now kpathsea_init_db searches for the ls-R files.
InitDb ==
  /\ In("cnf_get", "read_all_cnf")
  /\ reading' = FALSE
  /\ stack' = Become(<<Search(DbPath, TRUE), [Head(stack) EXCEPT !.pc = "init_db"]>>)
  /\ UNCHANGED <<world, iter, hash, cnf, db, followup, opened, logging, called>>

\* They are read into the table, and the alias files are searched for.
DbBuild ==
  /\ In("cnf_get", "init_db")
  /\ db' = TRUE
  /\ stack' = Become(<<Search(DbPath, TRUE), [Head(stack) EXCEPT !.pc = "aliases"]>>)
  /\ UNCHANGED <<world, iter, hash, reading, cnf, followup, opened, logging, called>>

AliasBuild ==
  /\ In("cnf_get", "aliases")
  /\ stack' = Become(<<>>)
  /\ UNCHANGED <<world, iter, hash, reading, cnf, db, followup, opened, logging, called>>

LazyStep == Begin \/ Element \/ LoopEnd \/ SearchEnd \/ OpenLog \/ SearchDone
          \/ Enter \/ InitDb \/ DbBuild \/ AliasBuild

LazyNext == LazyStep \/ \E fn \in Calls : Call(fn)

LazySpec == LazyInit /\ [][LazyNext]_lazyVars

\* A program that has called kpathsea runs on.
LazyFairSpec == LazySpec /\ WF_lazyVars(LazyStep)

-----------------------------------------------------------------------------
(* Properties *)

\* A search that finds nothing, or that collects everything, has looked in
\* every element of its path (path_search: "Otherwise, search all elements of
\* PATH").
EveryElementTried ==
  In("search", "done") =>
    LET s == Head(stack) IN s.all \/ ~s.found => s.tried = ToSet(s.path)

\* TEXMFLOG is honoured when texmf.cnf sets it: log_search records "every
\* search (except the first, since we definitely want to allow enabling the
\* logging in texmf.cnf)".
LogHonoured == stack = <<>> /\ opened /\ cnf /\ cnflog => logging

\* Every call returns, though the functions call each other in a circle.
CallsReturn == stack # <<>> ~> stack = <<>>
==============================================================================
