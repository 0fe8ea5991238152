SPECIFICATION Spec
CONSTANTS
  Tasks = {t1, t2}
  MaxStarts = 3
  MinSize = 1
  MaxSize = 1
  QueueCap = 1
  GrowFactor = 0
  ShrinkDivisor = 2
  StartMayFail = FALSE
  MayShutdown = TRUE
PROPERTIES AcceptedIsAnswered ShutdownReturns UnhealthyIsReplaced
