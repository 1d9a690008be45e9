SPECIFICATION QSpec
CONSTANTS
  a = a
  b = b
  c = c
  d = d
  e = e
  Node <- MCNode
  LevelOf <- MCLevel
  MaxLevel = 2
  DefaultLevel = 1
  Junk = Junk
  NULL = NULL
INVARIANTS QInv NoOverflow
PROPERTIES LowestFirst
