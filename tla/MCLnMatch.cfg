SPECIFICATION Spec
CONSTANTS
  Solvers <- MCSolvers
  Matchers <- MCMatchers
  Goals <- MCGoals
INVARIANTS SolveIsRight MatchDecides TemplatesKeepOrders
PROPERTIES EveryRoundLearns Returns
CHECK_DEADLOCK FALSE
