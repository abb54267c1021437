SPECIFICATION Spec
CONSTANTS
  Workers = {w1, w2}
  Main = main
  NoThread = noThread
  EventIds = {1, 2}
  Dims <- OneByTwo
  Requests <- SomeRequests
  Preloaded <- EmptyOrOne
  MaxCalls = 2
  MallocFails = TRUE
INVARIANTS TypeOK EventIdsUnique IssuedIdsAreOnSeats ShowReportsRealReservations
PROPERTIES ImplementsBooking SeatsKeepTheirReservation ShowAllPrintsOneMoment
SYMMETRY WorkerSymmetry
CHECK_DEADLOCK FALSE
