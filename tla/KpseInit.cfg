CONSTANTS
  u1 = u1
  u2 = u2
  u3 = u3
  c1 = c1
  c2 = c2
  l1 = l1
  l2 = l2
  Null = Null
  UserPath <- MCUserPath
  CnfPath <- MCCnfPath
  DbPath <- MCDbPath
  FirstCalls = {"find_file", "var_value"}
SPECIFICATION LazyFairSpec
INVARIANTS
  EveryElementTried
  LogHonoured
PROPERTY
  CallsReturn
