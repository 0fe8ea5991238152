SPECIFICATION ExecutionSpec
CONSTANTS
  a = a
  b = b
  c = c
  ghost = ghost
  Nodes = {a, b, c}
  Ids <- MCIds
  MaxEdges = 0
  Slices <- OneShape
  Executed <- OneShape
  Unchecked = {}
  Workflows <- OneWorkflow
  MaxConcurrentNodes = 2
  MaxAttempts = 2
  StorageMayFail = FALSE
INVARIANT FailedRunIsRecorded
