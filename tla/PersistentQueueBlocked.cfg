SPECIFICATION Spec
CONSTANTS
  NumTasks = 2
  Tasks <- MCTasks
  Workers = {w1}
  Objects = {o1, o2, o3, o4, o5}
  MaxRetries = 1
  ExecutorMayFail = TRUE
  StorageMayFail = FALSE
  Endings = {}
  MaxReboots = 0
PROPERTY TasksSettle
