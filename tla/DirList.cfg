CONSTANTS
  d1 = d1
  d2 = d2
  n1 = n1
  n2 = n2
  Null = Null
  Never = Never
  MaxElts = 3
  Dirs <- MCDirs
  Names <- MCNames
  Queries <- MCQueries
SYMMETRY Symmetry
CONSTRAINT FewChanges
SPECIFICATION Spec
INVARIANTS
  Repeatable
  AllOnce
