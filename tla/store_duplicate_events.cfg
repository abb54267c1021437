SPECIFICATION Spec
CONSTANTS
  Threads = {t1, t2}
  EventIds = {1, 2}
  Calls <- OnlyCreates
  MaxCalls = 2
  MallocFails = FALSE
INVARIANTS EventIdsUnique
SYMMETRY ThreadSymmetry
CHECK_DEADLOCK FALSE
