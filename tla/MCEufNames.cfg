SPECIFICATION Spec
CONSTANTS
  a = a
  b = b
  c = c
  VarNames <- NamesAB
  BVarNames = {}
  FuncNames = {"f", "g"}
  SymNames = {}
  Arities = {1}
  Mixed = {}
  Values = {0, 1}
  Most <- TwoFuncs
  MaxAssume = 1
  MinTerms = 6
SYMMETRY SymVars
INVARIANT ValidIsRight
CHECK_DEADLOCK FALSE
