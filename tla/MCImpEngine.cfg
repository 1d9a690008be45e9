SPECIFICATION MCSpec
CONSTANTS
  Circuits <- CoreCircuits
  MaxLevel = 2
  MaxInd = 1
INVARIANTS Sound Complete IInv
PROPERTIES ImplementsAbs Returns
CHECK_DEADLOCK FALSE
