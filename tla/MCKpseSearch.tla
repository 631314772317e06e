---------------------------- MODULE MCKpseSearch -----------------------------
(* A small instance of KpseSearch: a path of three elements (database only, *)
(* database and disk, disk only) that share a directory, and a directory    *)
(* that is created late, into which a script installs.                      *)
EXTENDS KpseSearch, TLC

CONSTANTS d1, d2, new, tfm, other, TFM, MaxFresh

MCDirs == {d1, d2, new}
MCNames == {tfm, other, TFM}

MCPath == << [dirs |-> <<d2>>, bang |-> TRUE, indb |-> TRUE],
             [dirs |-> <<d1, d2, new>>, bang |-> FALSE, indb |-> TRUE],
             [dirs |-> <<d1>>, bang |-> FALSE, indb |-> FALSE] >>

MCAliases == [n \in MCNames |-> IF n = tfm THEN <<other>> ELSE <<>>]
MCVariants == [n \in MCNames |-> IF n = tfm THEN <<TFM, tfm>> ELSE <<>>]

One(n, all) == [api |-> "one", names |-> <<n>>, again |-> <<>>,
                must |-> all, all |-> all, make |-> Null]
Find(ns, again, must, all, make) ==
  [api |-> "find", names |-> ns, again |-> again, must |-> must, all |-> all, make |-> make]

\* ls-R listed nothing, or named files some of which are gone.
MCStale == { [n \in MCNames |-> IF n = tfm THEN <<d1, d2>> ELSE IF n = other THEN <<d2>> ELSE <<>>] }
MCDatabases == { [n \in MCNames |-> <<>>] } \cup MCStale

MCFiles == {<<d1, tfm>>, <<d2, tfm>>, <<d2, other>>, <<d1, TFM>>, <<new, tfm>>}
MCFewFiles == MCFiles \ {<<d1, TFM>>}

MCQueries == { One(tfm, FALSE),
               Find(<<tfm, other>>, <<tfm>>, TRUE, FALSE, tfm),
               Find(<<tfm, other>>, <<tfm>>, FALSE, TRUE, Null) }

\* kpathsea_all_path_search.
MCAll == { One(tfm, TRUE) }

\* For the comparison of answers: a search that may find its file and one
\* that must, and another search that floats directories meanwhile.
MCCompared == { One(tfm, FALSE), Find(<<tfm>>, <<tfm>>, TRUE, FALSE, tfm) }
MCMixed == MCCompared \cup { One(other, FALSE) }

\* Other programs change at most MaxFresh files while a search runs, and
\* between two searches that are compared; the scripts enter at most one file.
Bounds == /\ Cardinality(fresh) <= MaxFresh
          /\ \A x \in Compared : Cardinality(touched[x]) <= MaxFresh
          /\ db # Null => Len(db[tfm]) <= IF db[other] = <<>> THEN 1 ELSE 3
==============================================================================
