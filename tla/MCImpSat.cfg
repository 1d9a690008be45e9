SPECIFICATION NSpec
CONSTANTS
  Circuits <- HiddenOnly
  Pipelines <- SatOnly
  MaxLevel = 1
  MaxInd = 0
INVARIANTS ConstSound
CHECK_DEADLOCK FALSE
