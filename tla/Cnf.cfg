\* Every content of two small files, or every environment; two lines on the command line.
CONSTANTS
  Vars = {"V"}
  Progs = {"p", "q"}
  AllProgs = AllProgs
  Unset = Unset
  Slots <- MCSlots
  Hash <- MCHash
  Worlds <- MCWorlds
  Args <- MCArgs
  MaxChanges = 2
SPECIFICATION Spec
PROPERTIES
  FirstDefinition
  CommandLineWins
  KeepsAll
