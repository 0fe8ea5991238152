SPECIFICATION Spec
CONSTANTS
  NumTasks = 1
  Tasks <- MCTasks
  Workers = {w1}
  Objects = {o1, o2, o3, o4}
  MaxRetries = 1
  ExecutorMayFail = TRUE
  StorageMayFail = FALSE
  Endings = {"stop", "cancel"}
  MaxReboots = 1
PROPERTIES StopReturns PendingIsTakenUp
