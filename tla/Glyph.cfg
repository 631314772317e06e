\* Trees with room for two files; lists in order, out of order, repeated, ended early.
CONSTANTS
  Names <- MCNames
  Absolute = {"lcircle"}
  Dpis = {1, 300, 500}
  Requested = {"pk", "any"}
  Trees <- MCTrees
  Maps <- MCMaps
  Settings <- MCSettings
  LastFonts = {"cmr", Null}
  Word = 1024
  Junk = {0, 33}
  MaxFiles = 2
  MaxStray = 1
  Null = Null
  Unset = Unset
SPECIFICATION Spec
INVARIANTS
  BestSource
  ClosestFound
  NothingMissed
PROPERTY
  SearchReturns
