SPECIFICATION Spec
CONSTANTS
  WeightArrays <- MCWeights
  Thresholds <- MCThresholds
  Beyond <- MCBeyond
  MinGap = 2
  DblMax = 1000
INVARIANTS GenIsThreshold ListsBalanced
CHECK_DEADLOCK FALSE
