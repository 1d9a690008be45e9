SPECIFICATION Spec
CONSTANTS
  a = a
  b = b
  c = c
  VarNames = {}
  BVarNames <- NamesAB
  FuncNames = {}
  SymNames = {}
  Arities = {}
  Mixed = {"beq"}
  Values = {0, 1}
  Most <- BoolEqs
  MaxAssume = 2
  MinTerms = 3
INVARIANT InvalidIsRight
CHECK_DEADLOCK FALSE
