SPECIFICATION ExecutionSpec
CONSTANTS
  a = a
  b = b
  c = c
  ghost = ghost
  Nodes = {a, b, c}
  Ids <- MCIds
  MaxEdges = 2
  Slices <- AllSlices
  Executed <- Shapes
  Unchecked <- InvalidShapes
  Workflows <- AllWorkflows
  MaxConcurrentNodes = 2
  MaxAttempts = 2
  StorageMayFail = TRUE
INVARIANTS TypeOK DependencyOrder CompletedMeansAll ValidatorAgrees
PROPERTIES ImplementsDataflow TerminalRowQuiescent ExecutionReturns NoGoroutineLeak
