--------------------------- MODULE WorkflowRunner ---------------------------
(***************************************************************************)
(* One call of WorkflowRunner.Run (src/internal/engine/workflow_runner.go).*)
(* The goroutine that calls Run builds a dependency graph, then executes   *)
(* the workflow in waves: every node whose dependencies are executed is    *)
(* started in a goroutine of its own, at most MaxConcurrentNodes of them   *)
(* at a time, and the next wave is looked for when the whole wave is over. *)
(* The run's context may be cancelled, or time out, at any moment.         *)
(*                                                                         *)
(* Data is abstracted to node identities: a node's result is the fact that *)
(* it is there, an error is the node that raised it.                       *)
(***************************************************************************)
EXTENDS Integers, Sequences, FiniteSets, WorkflowGraph

CONSTANTS
  Nodes,               \* keys of workflow.Nodes
  Workflows,           \* edge sets Run may be given; an edge is <<source, target>>
  MaxConcurrentNodes,  \* effective width of a wave (workflow.Config, default 10)
  MaxAttempts,         \* RetryConfig.MaxAttempts
  StorageMayFail       \* may a storage call fail while its context is live?

ASSUME NodesAssumption == IsFiniteSet(Nodes)
ASSUME LimitsAssumption ==
  /\ MaxConcurrentNodes \in Nat \ {0}
  /\ MaxAttempts \in Nat \ {0}
  /\ StorageMayFail \in BOOLEAN
ASSUME WorkflowsAssumption == \A E \in Workflows : \A e \in E : e = <<e[1], e[2]>>

VARIABLES
  edges,      \* the edges of this run's workflow: chosen once, never changed
  pc,         \* where the goroutine in Run is
  ready,      \* readyNodes of the current wave that are not launched yet
  sem,        \* len(semaphore)
  wg,         \* counter of the WaitGroup
  errChan,    \* buffered channel of node errors, as the nodes that sent them
  final,      \* finalStatus
  verdict,    \* what Run returns: "none" before its return statement
  snapshot    \* stateBytes: the nodes whose results were marshalled

VARIABLES
  node,       \* [Nodes -> step of the goroutine that executes the node]
  tries,      \* [Nodes -> failed attempts of RetryWithBackoff]
  executed,   \* nodes with executionNode.executed
  results     \* nodes with an entry in ExecutionContext.Results

VARIABLES
  ctxDone,    \* ctx.Done() is closed: cancelled or timed out
  row,        \* status column of the execution's row, "none" when absent
  rowState,   \* its state column: nodes whose results it holds
  saved       \* nodes with a row in node_results

runVars  == <<edges, pc, ready, sem, wg, errChan, final, verdict, snapshot>>
nodeVars == <<node, tries, executed, results>>
dbVars   == <<row, rowState, saved>>
vars     == <<runVars, nodeVars, ctxDone, dbVars>>

-----------------------------------------------------------------------------
(* The graph *)

\* executionNode.dependencies, restricted as findReadyNodes does to known nodes
Dependencies(n) == {d \in Nodes : <<d, n>> \in edges}

StartNodes == FindStartNodes(Nodes, edges)

\* Faulty variant: one executed dependency is enough
ReadyOnAnyDependency ==
  {n \in Nodes \ executed :
     Dependencies(n) = {} \/ Dependencies(n) \cap executed # {}}

\* findReadyNodes: not executed, and every known dependency is
ReadyNodes == {n \in Nodes \ executed : Dependencies(n) \subseteq executed}

\* What WorkflowValidator.Validate accepts, as Validator shows
Validated == Executable(Nodes, edges)

-----------------------------------------------------------------------------
(* Steps of a node goroutine *)

Working   == {"wait", "call", "backoff", "save", "mark", "send", "release"}
InFlight  == {n \in Nodes : node[n] \in Working \cup {"finish"}}
NodeSteps == Working \cup {"idle", "finish", "done"}

\* A database/sql call succeeds only while its context is live
StorageSucceeds == ~ctxDone
StorageFails    == ctxDone \/ StorageMayFail

\* Faulty variant: a context of its own for the update
UpdateInBackground == TRUE

\* UpdateExecutionStatus is given the run's context, not one of its own
UpdateCanSucceed == ~ctxDone

\* Faulty variant: a buffer of one error
OneErrorSlot == 1

\* make(chan error, len(graph.nodes))
ErrChanCapacity == Cardinality(Nodes)

Goto(n, step) == node' = [node EXCEPT ![n] = step]

\* rateLimiter.Wait, which only a done context makes fail, then ResolveVariables,
\* which fails on a reference to data that is not there
Prepare(n) ==
  /\ node[n] = "wait"
  /\ Goto(n, "call") \/ Goto(n, "send")
  /\ UNCHANGED <<runVars, tries, executed, results, ctxDone, dbVars>>

\* An attempt through the circuit breaker and the worker pool that returns a
\* result small enough: SetResult
CallSucceeds(n) ==
  /\ node[n] = "call"
  /\ results' = results \cup {n}
  /\ Goto(n, "save")
  /\ UNCHANGED <<runVars, tries, executed, ctxDone, dbVars>>

\* An attempt that fails with an error isRetryable accepts
CallFailsRetryably(n) ==
  /\ node[n] = "call"
  /\ tries' = [tries EXCEPT ![n] = @ + 1]
  /\ Goto(n, IF tries[n] + 1 < MaxAttempts THEN "backoff" ELSE "send")
  /\ UNCHANGED <<runVars, executed, results, ctxDone, dbVars>>

\* An attempt that fails for good, or a result over the size limit
CallFails(n) ==
  /\ node[n] = "call"
  /\ Goto(n, "send")
  /\ UNCHANGED <<runVars, tries, executed, results, ctxDone, dbVars>>

\* The select between time.After and ctx.Done
Backoff(n) ==
  /\ node[n] = "backoff"
  /\ Goto(n, "call") \/ (ctxDone /\ Goto(n, "send"))
  /\ UNCHANGED <<runVars, tries, executed, results, ctxDone, dbVars>>

\* SaveNodeResult; its failure is logged and nothing else
SaveResult(n) ==
  /\ node[n] = "save"
  /\ \/ StorageSucceeds /\ saved' = saved \cup {n}
     \/ StorageFails /\ UNCHANGED saved
  /\ Goto(n, "mark")
  /\ UNCHANGED <<runVars, tries, executed, results, ctxDone, row, rowState>>

MarkExecuted(n) ==
  /\ node[n] = "mark"
  /\ executed' = executed \cup {n}
  /\ Goto(n, "release")
  /\ UNCHANGED <<runVars, tries, results, ctxDone, dbVars>>

\* Faulty variant: the error is handed over only to a Run that still listens
ErrorTaken == pc # "returned"

\* errChan <- err blocks while the buffer is full
ErrorBuffered == Len(errChan) < ErrChanCapacity

SendError(n) ==
  /\ node[n] = "send"
  /\ ErrorBuffered
  /\ errChan' = Append(errChan, n)
  /\ Goto(n, "release")
  /\ UNCHANGED <<edges, pc, ready, sem, wg, final, verdict, snapshot,
                 tries, executed, results, ctxDone, dbVars>>

\* defer func() { <-semaphore }()
Release(n) ==
  /\ node[n] = "release"
  /\ sem' = sem - 1
  /\ Goto(n, "finish")
  /\ UNCHANGED <<edges, pc, ready, wg, errChan, final, verdict, snapshot,
                 tries, executed, results, ctxDone, dbVars>>

\* defer wg.Done()
Finish(n) ==
  /\ node[n] = "finish"
  /\ wg' = wg - 1
  /\ Goto(n, "done")
  /\ UNCHANGED <<edges, pc, ready, sem, errChan, final, verdict, snapshot,
                 tries, executed, results, ctxDone, dbVars>>

NodeStep(n) ==
  \/ Prepare(n) \/ CallSucceeds(n) \/ CallFailsRetryably(n) \/ CallFails(n)
  \/ Backoff(n) \/ SaveResult(n) \/ MarkExecuted(n) \/ SendError(n)
  \/ Release(n) \/ Finish(n)

-----------------------------------------------------------------------------
(* Steps of the goroutine in Run *)

Return(v) == verdict' = v

\* Faulty variants: the error is returned but not recorded, and the reverse
FailSilently     == Return("error") /\ UNCHANGED final /\ pc' = "marshal"
FailAndReturnNil == Return("ok") /\ final' = "failed" /\ pc' = "marshal"

\* executeGraph returned an error
FailRun == Return("error") /\ final' = "failed" /\ pc' = "marshal"

\* CreateExecution; when it fails Run returns before the deferred update exists
CreateExecution ==
  /\ pc = "create"
  /\ \/ /\ StorageSucceeds
        /\ row' = "running" /\ pc' = "plan"
        /\ UNCHANGED verdict
     \/ /\ StorageFails
        /\ Return("error") /\ pc' = "returned"
        /\ UNCHANGED row
  /\ UNCHANGED <<edges, ready, sem, wg, errChan, final, snapshot, nodeVars,
                 ctxDone, rowState, saved>>

\* FindStartNodes, buildExecutionGraph and the first findReadyNodes. Run returns
\* "no start nodes found" with finalStatus still completed.
Plan ==
  /\ pc = "plan"
  /\ IF StartNodes = {}
       THEN Return("error") /\ pc' = "marshal" /\ UNCHANGED <<ready, final>>
       ELSE IF ReadyNodes = {}
              THEN FailRun /\ UNCHANGED ready
              ELSE /\ ready' = ReadyNodes /\ pc' = "launch"
                   /\ UNCHANGED <<final, verdict>>
  /\ UNCHANGED <<edges, sem, wg, errChan, snapshot, nodeVars, ctxDone, dbVars>>

\* Head of the launch loop: ctx.Done is looked at before every node
NextNode ==
  /\ pc = "launch" /\ ready # {}
  /\ IF ctxDone
       THEN FailRun /\ UNCHANGED wg
       ELSE /\ wg' = wg + 1 /\ pc' = "acquire"
            /\ UNCHANGED <<final, verdict>>
  /\ UNCHANGED <<edges, ready, sem, errChan, snapshot, nodeVars, ctxDone, dbVars>>

\* Faulty variant: one slot too many
SlotFreeOrLast == sem <= MaxConcurrentNodes

\* The buffer of the semaphore channel has room
SlotFree == sem < MaxConcurrentNodes

\* semaphore <- struct{}{}, which blocks while it is full, then go func(nid).
\* readyNodes comes from a map, so its order is arbitrary.
Acquire(n) ==
  /\ pc = "acquire" /\ n \in ready
  /\ SlotFree
  /\ sem' = sem + 1
  /\ ready' = ready \ {n}
  /\ Goto(n, "wait")
  /\ pc' = "launch"
  /\ UNCHANGED <<edges, wg, errChan, final, verdict, snapshot,
                 tries, executed, results, ctxDone, dbVars>>

\* wg.Wait()
WaitWave ==
  /\ pc = "launch" /\ ready = {} /\ wg = 0
  /\ pc' = "collect"
  /\ UNCHANGED <<edges, ready, sem, wg, errChan, final, verdict, snapshot,
                 nodeVars, ctxDone, dbVars>>

\* The select on errChan, then findReadyNodes for the next wave
CollectWave ==
  /\ pc = "collect"
  /\ \/ /\ errChan # <<>>
        /\ errChan' = Tail(errChan)
        /\ FailRun
        /\ UNCHANGED ready
     \/ /\ errChan = <<>>
        /\ ready' = ReadyNodes
        /\ IF ReadyNodes = {}
             THEN Return("ok") /\ pc' = "marshal"
             ELSE pc' = "launch" /\ UNCHANGED verdict
        /\ UNCHANGED <<errChan, final>>
  /\ UNCHANGED <<edges, sem, wg, snapshot, nodeVars, ctxDone, dbVars>>

\* The deferred function: json.Marshal of the results map ...
MarshalState ==
  /\ pc = "marshal"
  /\ snapshot' = results
  /\ pc' = "persist"
  /\ UNCHANGED <<edges, ready, sem, wg, errChan, final, verdict, nodeVars,
                 ctxDone, dbVars>>

\* ... then UpdateExecutionStatus under the run's own context, its failure
\* logged; then the deferred cancel()
PersistStatus ==
  /\ pc = "persist"
  /\ \/ UpdateCanSucceed /\ row' = final /\ rowState' = snapshot
     \/ StorageFails /\ UNCHANGED <<row, rowState>>
  /\ ctxDone' = TRUE
  /\ pc' = "returned"
  /\ UNCHANGED <<edges, ready, sem, wg, errChan, final, verdict, snapshot,
                 nodeVars, saved>>

RunStep ==
  \/ CreateExecution \/ Plan \/ NextNode \/ (\E n \in Nodes : Acquire(n))
  \/ WaitWave \/ CollectWave \/ MarshalState \/ PersistStatus

\* The caller cancels, or the workflow timeout expires
CancelContext ==
  /\ pc # "returned" /\ ~ctxDone
  /\ ctxDone' = TRUE
  /\ UNCHANGED <<runVars, nodeVars, dbVars>>

\* The run is over and no goroutine of it is left
Finished ==
  /\ pc = "returned" /\ InFlight = {}
  /\ UNCHANGED vars

-----------------------------------------------------------------------------
Init ==
  /\ edges \in Workflows
  /\ pc = "create" /\ ready = {} /\ sem = 0 /\ wg = 0 /\ errChan = <<>>
  /\ final = "completed" /\ verdict = "none" /\ snapshot = {}
  /\ node = [n \in Nodes |-> "idle"] /\ tries = [n \in Nodes |-> 0]
  /\ executed = {} /\ results = {}
  /\ ctxDone = FALSE
  /\ row = "none" /\ rowState = {} /\ saved = {}

Next ==
  \/ RunStep
  \/ \E n \in Nodes : NodeStep(n)
  \/ CancelContext
  \/ Finished

\* Goroutines that can run are scheduled, and an attempt ends: the worker pool
\* answers within the worker timeout. Nobody is bound to cancel.
Fairness == WF_vars(RunStep) /\ \A n \in Nodes : WF_vars(NodeStep(n))

Spec == Init /\ [][Next]_vars /\ Fairness

-----------------------------------------------------------------------------
(* Properties *)

\* Types, and which values go together
TypeOK ==
  /\ edges \in Workflows
  /\ pc \in {"create", "plan", "launch", "acquire", "collect", "marshal", "persist", "returned"}
  /\ ready \subseteq Nodes
  /\ sem \in 0..MaxConcurrentNodes
  /\ wg \in Nat
  /\ errChan \in Seq(Nodes)
  /\ final \in {"completed", "failed"}
  /\ verdict \in {"none", "ok", "error"}
  /\ snapshot \subseteq Nodes
  /\ node \in [Nodes -> NodeSteps]
  /\ tries \in [Nodes -> 0..MaxAttempts]
  /\ executed \subseteq Nodes
  /\ results \subseteq Nodes
  /\ ctxDone \in BOOLEAN
  /\ row \in {"none", "running", "completed", "failed"}
  /\ rowState \subseteq Nodes
  /\ saved \subseteq Nodes

\* While a node is executed, the results of all the nodes it depends on are in the
\* execution context, whatever the interleaving of the waves: ResolveVariables never
\* sees a half-finished dependency.
DependencyOrder ==
  \A n \in Nodes : node[n] # "idle" => Dependencies(n) \subseteq executed \cap results

\* Run implements Dataflow: a node is started once and after its dependencies, and Run
\* returns nil only when nothing failed, nothing is running and nothing more can start.
\* findReadyNodes would return a failed node again, so this rests on the error ending
\* the run before the next wave.
Abstract ==
  INSTANCE Dataflow WITH
    started <- {n \in Nodes : node[n] # "idle"},
    done    <- executed,
    failed  <- {n \in Nodes : node[n] \in {"release", "finish", "done"}} \ executed

ImplementsDataflow == Abstract!Spec

\* For a workflow the validator accepts, the row says completed only when every node
\* is executed and Run returned nil.
CompletedMeansAll ==
  Validated /\ row = "completed" => executed = Nodes /\ verdict = "ok"

\* The terminal row is written when no node is in flight any more and it holds exactly
\* the results there are. Run does leave nodes running behind it when its context is
\* cancelled in the middle of a wave; that this row is never written under them rests
\* on the update using the same context.
TerminalRowQuiescent ==
  [][row' # row /\ row' # "running" => InFlight = {} /\ rowState' = results]_vars

\* Nodes that Run left behind end too, and give back semaphore and wait group.
NoGoroutineLeak == <>[](InFlight = {})

-----------------------------------------------------------------------------
(* The inductive invariant of WorkflowRunnerProofs *)

Holding == {n \in Nodes : node[n] \in Working}
Over    == {n \in Nodes : node[n] \in {"release", "finish", "done"}}

\* The counters of the code count what they should
CountersInv ==
  /\ sem = Cardinality(Holding)
  /\ wg = Cardinality(InFlight) + (IF pc = "acquire" THEN 1 ELSE 0)

\* What each step of a node's goroutine has behind it
NodesInv ==
  /\ executed \subseteq Over /\ executed \subseteq results
  /\ \A n \in Nodes : node[n] \in {"save", "mark"} => n \in results
  /\ \A n \in Nodes : n \in ready \/ node[n] # "idle" => Dependencies(n) \subseteq executed
  /\ \A n \in ready : node[n] = "idle"
  /\ \A n \in Nodes :
       node[n] \in {"idle", "wait", "call", "backoff"} => tries[n] < MaxAttempts

\* A node that gave up has an error in the channel until Run takes one
ErrorsInv == Over \subseteq executed \/ errChan # <<>> \/ verdict = "error"

\* What each step of Run has behind it
RunInv ==
  /\ verdict = "none" <=> pc \in {"create", "plan", "launch", "acquire", "collect"}
  /\ pc \in {"create", "plan"} =>
       executed = {} /\ ready = {} /\ \A n \in Nodes : node[n] = "idle"
  /\ pc = "collect" => ready = {} /\ InFlight = {}
  /\ verdict = "none" => final = "completed"
  /\ pc = "acquire" => ready # {}
  /\ verdict = "ok" =>
       /\ InFlight = {} /\ ReadyNodes = {} /\ Over \subseteq executed /\ final = "completed"
  /\ verdict = "error" => final = "failed" \/ StartNodes = {} \/ row = "none"
  /\ row \in {"completed", "failed"} => pc = "returned" /\ row = final
  /\ row = "none" => pc \in {"create", "returned"}
  /\ pc = "create" => row = "none"

\* A run that is not cancelled has nothing in flight when it ends
QuiescenceInv ==
  /\ pc \in {"marshal", "persist"} /\ ~ctxDone => InFlight = {}
  /\ pc = "persist" /\ ~ctxDone => snapshot = results

IInv == TypeOK /\ CountersInv /\ NodesInv /\ ErrorsInv /\ RunInv /\ QuiescenceInv

-----------------------------------------------------------------------------
\* TestWorkflowRunner_ErrorPropagation and ErrorHandling expect of a run that returned
\* an error after its execution was created that the row says failed.
FailedRunIsRecorded ==
  (pc = "returned" /\ verdict = "error" /\ row # "none") => row = "failed"
=============================================================================
