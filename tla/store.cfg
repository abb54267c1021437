SPECIFICATION Spec
CONSTANTS
  Threads = {t1, t2, t3}
  EventIds = {1, 2}
  Calls <- AllCalls
  MaxCalls = 2
  MallocFails = TRUE
INVARIANTS TypeOK GrantsHold GrantsAreDisjoint SeatsAreAccountedFor ListsArePrefixes
SYMMETRY ThreadSymmetry
CHECK_DEADLOCK FALSE
