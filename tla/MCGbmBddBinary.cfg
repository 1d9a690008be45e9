SPECIFICATION Spec
CONSTANTS
  Solvers <- MCSolvers
  Matchers <- BddBinary
  Goals <- MCGoals
INVARIANT MatchIsRight
CHECK_DEADLOCK FALSE
