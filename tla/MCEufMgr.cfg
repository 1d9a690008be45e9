SPECIFICATION MCSpec
CONSTANTS
  a = a
  b = b
  c = c
  VarNames <- NamesAB
  BVarNames <- NameC
  FuncNames = {"f"}
  SymNames = {}
  Arities = {1}
  Mixed = {}
  Values = {0, 1}
  Most <- AllOps
  MaxAssume = 1
  MinTerms = 1
INVARIANTS ClausesSound ValidIsRight InvalidIsRight ClosureExact NoDuplicates
PROPERTIES Learns Terminates
CHECK_DEADLOCK FALSE
