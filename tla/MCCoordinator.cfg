CONSTANTS
  g1 = g1
  g2 = g2
  g3 = g3
  c1 = c1
  w1 = w1
  Agents = {g1, g2, g3}
  Owned = {g3}
  NoAgent = NoAgent
  Parents <- MCParents
  Callers = {c1}
  Waiters = {w1}
  MaxDepth = 2
  MaxAgents = 2
  Retain = 1
SPECIFICATION Spec
INVARIANTS LiveAreRemembered OffMeansOff StoppedAreTold DoneIsFinal BudgetHolds
CHECK_DEADLOCK FALSE
