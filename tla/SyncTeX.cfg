\* Two files, three pages or forms, four of pages, forms and lists at once.
CONSTANTS
  Options <- MCOptions
  MaxTag = 2
  MaxPages = 3
  MaxNest = 4
SPECIFICATION Spec
CHECK_DEADLOCK FALSE
INVARIANTS
  InSync
  TagsKnown
  WellNested
PROPERTIES
  RecordersSafe
