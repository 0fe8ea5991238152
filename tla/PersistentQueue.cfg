SPECIFICATION Spec
CONSTANTS
  NumTasks = 1
  Tasks <- MCTasks
  Workers = {w1, w2}
  Objects = {o1, o2, o3}
  MaxRetries = 1
  ExecutorMayFail = TRUE
  StorageMayFail = TRUE
  Endings = {"stop"}
  MaxReboots = 1
INVARIANTS TypeOK RowsHonest ExclusiveObject
PROPERTY ImplementsLedger
