SPECIFICATION Spec
CONSTANTS
  Tasks = {t1, t2}
  MaxStarts = 3
  MinSize = 1
  MaxSize = 2
  QueueCap = 1
  GrowFactor = 0
  ShrinkDivisor = 2
  StartMayFail = TRUE
  MayShutdown = FALSE
INVARIANTS TypeOK AnswerIsOwn PositionsAreIds
PROPERTIES ImplementsTaskService
SYMMETRY Symmetry
