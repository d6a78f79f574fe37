CONSTANTS
  Procs = {p1, p2, p3}
  Free = Free
  MaxLimit = 2
SPECIFICATION PatientSpec
INVARIANTS SlotIsAnnounced
PROPERTIES CancelEndsAcquire PoolSpec
CHECK_DEADLOCK FALSE
