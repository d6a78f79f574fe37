CONSTANTS
  g1 = g1
  g2 = g2
  g3 = g3
  c1 = c1
  w1 = w1
  Agents = {g1, g3}
  Owned = {g3}
  NoAgent = NoAgent
  Parents <- MCAnyParents
  Callers = {c1}
  Waiters = {w1}
  MaxDepth = 2
  MaxAgents = 2
  Retain = 1
SPECIFICATION FairSpec
PROPERTY WaitReturns
CHECK_DEADLOCK FALSE
