SPECIFICATION Spec
CONSTANTS
  Runs = {e1, e2}
  Requests = {q1}
  MaxStops = 2
  StoreMayFail = TRUE
INVARIANTS TypeOK RegistryIsExact StorageIsLast ClosedOnce
PROPERTIES ImplementsRecord StopEndsRuns
CHECK_DEADLOCK FALSE
