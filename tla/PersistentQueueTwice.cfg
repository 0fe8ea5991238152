SPECIFICATION Spec
CONSTANTS
  NumTasks = 1
  Tasks <- MCTasks
  Workers = {w1, w2}
  Objects = {o1, o2, o3}
  MaxRetries = 1
  ExecutorMayFail = FALSE
  StorageMayFail = FALSE
  Endings = {}
  MaxReboots = 0
INVARIANT ExecutedOnce
