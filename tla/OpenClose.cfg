CONSTANTS
  h1 = h1
  h2 = h2
  h3 = h3
  foo = foo
  foo_tex = foo_tex
  foo_dat = foo_dat
  foo_dat_tex = foo_dat_tex
  cmd = cmd
  line = line
  NULL = NULL
  Handles <- MCHandles
  Names <- MCNames
  Bare <- MCBare
  Tex <- MCTex
  Commands <- MCCommands
  Words <- MCWords
  Reads <- MCReads
  NumWrites = 2
  NumPipes = 1
  MaxInput = 1
  MaxOpens = 3
SPECIFICATION Spec
SYMMETRY Symmetry
CHECK_DEADLOCK FALSE
INVARIANTS
  Owned
  ClosedOnce
  PipesAwaited
  ReadBack
