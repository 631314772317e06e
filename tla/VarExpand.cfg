CONSTANTS
  A = A
  B = B
  C = C
  Text = Text
  Undefined = Undefined
  Variables <- MCVars
  Values <- MCValues
  PathElements <- MCElements
  MaxRounds = 3
SPECIFICATION ExpansionFairSpec
INVARIANT
  FullyExpanded
PROPERTY
  ExpansionEnds
