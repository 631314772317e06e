\* Two formats, four engines, two of them with one directory, a change and a build.
CONSTANTS
  Entries <- MCEntries
  Confs <- MCConfs
  Needing <- MCNeeding
  Dir <- MCDir
  Ext <- MCExt
  Dests <- MCDests
  Commands <- MCCommands
  MaxEdits = 1
  MaxBuilds = 1
SPECIFICATION Spec
CHECK_DEADLOCK FALSE
INVARIANTS
  
  NoEndlessRecursion
  InOrder
PROPERTIES
  EditKept
  FmtutilEnds
