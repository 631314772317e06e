CONSTANTS
  d1 = d1
  d2 = d2
  new = new
  tfm = tfm
  other = other
  TFM = TFM
  Null = Null
  Never = Never
  MaxFresh = 1
  Dirs <- MCDirs
  Names <- MCNames
  Path <- MCPath
  Aliases <- MCAliases
  Variants <- MCVariants
  Queries <- MCQueries
  Compared = {}
  Databases <- MCDatabases
  StartDirs = {d1, d2}
  Files <- MCFiles
  MakeDir = new
CONSTRAINT Bounds
SPECIFICATION Spec
INVARIANTS
  FoundIsReal
  FirstOnPath
  MadeOnlyIfMissing
  AllFound
