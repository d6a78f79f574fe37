CONSTANTS
  Procs = {p1, p2}
  Free = Free
  MaxLimit = 1
SPECIFICATION FairSpec
PROPERTIES CancelEndsAcquire
CHECK_DEADLOCK FALSE
