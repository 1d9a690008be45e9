SPECIFICATION NSpec
CONSTANTS
  Circuits <- LearnCircuits
  Pipelines <- InOrder
  MaxLevel = 1
  MaxInd = 0
INVARIANTS InfoSound ConditionsSound ContraClosed CleanLoop ConstPropagated
PROPERTY Finishes
CHECK_DEADLOCK FALSE
