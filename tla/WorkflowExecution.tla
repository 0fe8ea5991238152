-------------------------- MODULE WorkflowExecution --------------------------
(***************************************************************************)
(* What becomes of a workflow that is handed over to be executed.          *)
(* Runtime.Execute (src/pkg/conv3n/runtime.go) validates it and, when      *)
(* Validate accepts, runs it; triggers, the HTTP API and the server call   *)
(* Run without asking the validator.                                       *)
(***************************************************************************)
EXTENDS WorkflowRunner

CONSTANTS
  Ids,       \* node ids, the unknown ones included
  Slices,    \* what wf.Edges may be; the sets of their edges are the Workflows
  Executed,  \* bound: those that are executed when Validate accepts, or is skipped
  Unchecked  \* bound: those that callers who skip it come with

ASSUME IdsAssumption == Nodes \subseteq Ids /\ Slices \subseteq Seq(Ids \X Ids)

VARIABLES
  nodes,     \* the keys of wf.Nodes, which the runner has as Nodes
  slice,     \* wf.Edges
  formed,    \* Validator's: what is known of ids and types
  check,     \* where Validate is, its result, or "skipped"
  frames, visited, recStack

checkVars == <<nodes, slice, formed, check, frames, visited, recStack>>
allVars   == <<vars, checkVars>>

Validation == INSTANCE Validator WITH edges <- slice, pc <- check

-----------------------------------------------------------------------------
ExecutionInit ==
  /\ nodes \in SUBSET Nodes /\ slice \in Slices /\ formed \in SUBSET {"nodes", "edges"}
  /\ edges = Validation!EdgeSet /\ Init
  /\ \/ check = "nodes"
     \/ check = "skipped" /\ nodes = Nodes /\ slice \in Unchecked /\ formed = {}
  /\ frames = <<>> /\ visited = {} /\ recStack = {}

Validate == Validation!Next /\ UNCHANGED vars

\* Execute returns when Validate has an error
MayRun == check \in {"accepted", "skipped"}

\* Bound: what is executed
Bound == nodes = Nodes /\ slice \in Executed

Runs == MayRun /\ Bound /\ UNCHANGED checkVars

\* A workflow beyond the bound
NotRun == MayRun /\ ~Bound /\ UNCHANGED allVars

ExecutionNext == Validate \/ (Next /\ Runs) \/ NotRun

\* Validate is a loop of its caller; for the goroutines of a run see WorkflowRunner.
ExecutionFairness ==
  /\ WF_allVars(Validate)
  /\ WF_allVars(RunStep /\ Runs)
  /\ \A n \in Nodes : WF_allVars(NodeStep(n) /\ Runs)

ExecutionSpec == ExecutionInit /\ [][ExecutionNext]_allVars /\ ExecutionFairness

-----------------------------------------------------------------------------
(* Properties *)

\* Validate accepts exactly what can be executed, as Validator says.
ValidatorAgrees == Validation!ValidatorAgrees

\* A workflow is rejected or its run returns: the search for cycles ends, errChan never
\* blocks a node, the semaphore comes free, the wave ends.
ExecutionReturns ==
  <>(check = "rejected" \/ pc = "returned" \/ (MayRun /\ ~Bound))
=============================================================================
