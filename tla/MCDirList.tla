------------------------------ MODULE MCDirList ------------------------------
(* A small instance of DirList: two directories, in lists of up to three    *)
(* nodes, two names, and the queries of both search functions.              *)
EXTENDS DirList, TLC

CONSTANTS d1, d2, n1, n2

MCDirs == {d1, d2}
MCNames == {n1, n2}
MCQueries == {<<n1>>, <<n2, n1>>}

\* At most one file changes (as often as it likes) from a search until the
\* next one for the same query.
FewChanges == Cardinality(fresh \cup UNION {touched[x] : x \in Queries}) <= 1

Symmetry == Permutations(MCDirs)
==============================================================================
