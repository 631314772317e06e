\* Six descriptors, a pipe of two pieces, reads of two pieces.
CONSTANTS
  MaxFd = 6
  Name <- MCName
  Plans <- MCPlans
  Newline = "nl"
  PipeSize = 2
  BufSize = 2
SPECIFICATION Spec
CHECK_DEADLOCK FALSE
INVARIANTS
  ScriptWired
  NothingLeaked
  SeenOut
PROPERTY
  Returns
