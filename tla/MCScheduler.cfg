CONSTANTS
  A = A
  B = B
  N = N
  M = M
  a1 = a1
  a2 = a2
  a3 = a3
  a4 = a4
  b1 = b1
  n1 = n1
  n2 = n2
  m1 = m1
  src = src
  file = file
  NoTask = NoTask
  Runs = {A, N}
  Tasks = {a1, a2, a3, a4, n1, n2}
  RunOf <- MCRunOf
  Rank <- MCRank
  Deps <- MCDeps
  Spellings <- MCSpellings
  Writes <- MCWrites
  Paths <- MCPaths
  Caller <- MCCaller
  Ancestry <- MCAncestry
  MaxLimit = 2
SPECIFICATION FairSpec
INVARIANTS WriteExclusion PermitsMatchWorkers ReturnJoinsAll FailureContained
  NeverStuck
PROPERTIES RunsReturn
CHECK_DEADLOCK FALSE
