SPECIFICATION Spec
CONSTANTS
  Ids = {i1}
  Types = {"cron", "interval", "typescript", "webhook"}
  Requests = {q1, q2}
  Fires = {f1}
  MaxRunners = 2
  StoreMayFail = TRUE
  ProcessMayHang = TRUE
INVARIANTS TypeOK NoOrphanRunner StoppedOnce SerialAgreement
PROPERTIES ImplementsTriggerService NothingRunsAfterStop CallsReturn
CHECK_DEADLOCK FALSE
