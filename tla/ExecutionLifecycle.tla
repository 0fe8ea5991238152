------------------------- MODULE ExecutionLifecycle -------------------------
(***************************************************************************)
(* The life of executions around WorkflowRunner: Runtime.Execute, Start    *)
(* and Stop (src/pkg/conv3n/runtime.go) with the registry of cancel        *)
(* functions, the shutdown hooks and the cleanup job; the handle that      *)
(* Execute returns (execution.go); and the HTTP handlers that stop and     *)
(* restart executions (src/internal/api/lifecycle.go), here given the      *)
(* runtime's registry and store.                                           *)
(*                                                                         *)
(* Execute registers a run under an id of its own, while its row gets the  *)
(* id that CreateExecution draws: two ids per execution.  A run, which     *)
(* WorkflowRunner details, is creating its row, executing, and writing its *)
(* final status.  It may take for ever unless its context ends or the      *)
(* worker pool is shut down: its next task is then refused, and one that   *)
(* is still in the queue is given up when Run's own timeout is over.       *)
(***************************************************************************)
EXTENDS Integers, FiniteSets, Sequences

CONSTANTS
  Runs,          \* executions
  Requests,      \* HTTP requests
  MaxStops,      \* bound: calls of Stop that find the runtime running
  StoreMayFail   \* may a statement fail by itself?

ASSUME RunsAssumption == IsFiniteSet(Runs) /\ Runs # {} /\ IsFiniteSet(Requests)
ASSUME StopsAssumption == MaxStops \in Nat \ {0} /\ StoreMayFail \in BOOLEAN

Terminal == {"completed", "failed", "cancelled"}
Statuses == Terminal \cup {"running"}

VARIABLES
  up,        \* r.running
  stopping,  \* is Stop under way, holding r.mu?
  stops,     \* number of those calls so far
  once,      \* has shutdownOnce been used?
  hook,      \* the hook to run next
  pool,      \* "up" or "shut"
  store,     \* "open" or "closed"
  cleaners,  \* goroutines of cleanupJob.Start
  closes,    \* how often stopChan was closed
  before     \* history: the runs that were registered when Stop began

VARIABLES
  registry,  \* ids under which a cancel function is registered
  caller,    \* [Runs -> step of Execute: "new", "register", "launch", "returned"; or
             \* "restart" for a run that RestartExecution began]
  run,       \* [Runs -> step of the goroutine]
  live,      \* runs in progress whose context has not ended
  result,    \* [Runs -> finalStatus, "none" unless it is about to be written]
  row,       \* [Runs -> status in workflow_executions, "none" or "deleted"]
  completed, \* [Runs -> calls of OnExecutionComplete]
  request    \* [Requests -> step of the handler and the run whose row it names]

runtimeVars == <<up, stopping, stops, once, hook, pool, store, cleaners, closes, before>>
runVars     == <<caller, run, live, result, row, completed>>
vars        == <<runtimeVars, registry, runVars, request>>

\* Faulty variant: one id for both
SharedId(e) == <<"row", e>>

\* "exec-" and the time; and the id drawn by CreateExecution
HandleId(e) == <<"exec", e>>
RowId(e)    == <<"row", e>>

Ids == {HandleId(e) : e \in Runs} \cup {RowId(e) : e \in Runs}

InProgress(e) == run[e] \notin {"none", "over"}

-----------------------------------------------------------------------------
(* Shutdown hooks *)

\* Faulty variant: nobody shuts the worker pool down
HooksButPool == <<[name |-> "cancel_executions", priority |-> 100],
                  [name |-> "cleanup_job", priority |-> 95],
                  [name |-> "storage", priority |-> 80]>>

\* registerShutdownHooks
Hooks == <<[name |-> "cancel_executions", priority |-> 100],
           [name |-> "cleanup_job", priority |-> 95],
           [name |-> "worker_pool", priority |-> 90],
           [name |-> "storage", priority |-> 80]>>

\* Faulty variant: the comparison the wrong way round
Follows(h, g) == h.priority > g.priority

Precedes(h, g) == h.priority < g.priority

\* sortHooksByPriority, for the up to four hooks there are: an exchange for each i < j
Exchange(hooks, i, j) ==
  IF i < j /\ j \in DOMAIN hooks /\ Precedes(hooks[i], hooks[j])
    THEN [hooks EXCEPT ![i] = hooks[j], ![j] = hooks[i]]
    ELSE hooks
Pass(hooks, i) == Exchange(Exchange(Exchange(hooks, i, 2), i, 3), i, 4)
Sorted(hooks)  == Pass(Pass(Pass(hooks, 1), 2), 3)
SortedHooks    == Sorted(Hooks)

RunsHook(name) ==
  /\ stopping /\ hook <= Len(SortedHooks) /\ SortedHooks[hook].name = name
  /\ hook' = hook + 1
  /\ UNCHANGED <<up, stopping, stops, once, cleaners, before, caller, run, result, row,
                 completed, request>>

CancelAll ==
  /\ RunsHook("cancel_executions")
  /\ live' = {e \in live : HandleId(e) \notin registry}
  /\ registry' = {}
  /\ UNCHANGED <<pool, store, closes>>

StopCleanup ==
  /\ RunsHook("cleanup_job")
  /\ closes' = closes + 1
  /\ UNCHANGED <<pool, store, registry, live>>

ShutdownPool ==
  /\ RunsHook("worker_pool")
  /\ pool' = "shut"
  /\ UNCHANGED <<store, closes, registry, live>>

CloseStorage ==
  /\ RunsHook("storage")
  /\ store' = "closed"
  /\ UNCHANGED <<pool, closes, registry, live>>

-----------------------------------------------------------------------------
(* Start and Stop, and the goroutines of the cleanup job *)

\* Faulty variant: Start does not look
MayAlwaysStart == TRUE

NotRunning == ~up

Start ==
  /\ ~stopping /\ NotRunning /\ cleaners < MaxStops + 2
  /\ up' = TRUE
  /\ cleaners' = cleaners + 1
  /\ UNCHANGED <<stopping, stops, once, hook, pool, store, closes, before, registry,
                 runVars, request>>

\* Faulty variant: the hooks run at every Stop
EveryTime == TRUE

\* shutdownOnce.Do
FirstTime == ~once

Stop ==
  /\ up /\ ~stopping /\ stops < MaxStops
  /\ stopping' = TRUE
  /\ stops' = stops + 1
  /\ once' = TRUE
  /\ hook' = IF FirstTime THEN 1 ELSE Len(SortedHooks) + 1
  /\ before' = IF FirstTime THEN {e \in Runs : HandleId(e) \in registry} ELSE before
  /\ UNCHANGED <<up, pool, store, cleaners, closes, registry, runVars, request>>

StopReturns ==
  /\ stopping /\ hook > Len(SortedHooks)
  /\ stopping' = FALSE
  /\ up' = FALSE
  /\ UNCHANGED <<stops, once, hook, pool, store, cleaners, closes, before, registry,
                 runVars, request>>

StopStep == CancelAll \/ StopCleanup \/ ShutdownPool \/ CloseStorage \/ StopReturns

\* CleanupOldExecutions, at a tick, for one row that is old enough: the rows of one
\* statement are not related
CleanUp ==
  /\ cleaners > 0 /\ store = "open"
  /\ \E e \in Runs : row[e] \in Terminal /\ row' = [row EXCEPT ![e] = "deleted"]
  /\ UNCHANGED <<runtimeVars, registry, caller, run, live, result, completed, request>>

\* stopChan is closed, or the context of Start has ended
CleanerEnds ==
  /\ cleaners > 0
  /\ cleaners' = cleaners - 1
  /\ UNCHANGED <<up, stopping, stops, once, hook, pool, store, closes, before, registry,
                 runVars, request>>

-----------------------------------------------------------------------------
(* Execute, and the goroutine it starts *)

\* Faulty variant: the goroutine is started first
LaunchFirst(step) ==
  CASE step = "new"      -> "launch"
    [] step = "launch"   -> "register"
    [] step = "register" -> "returned"

\* The steps of Execute
Then(step) ==
  CASE step = "new"      -> "register"
    [] step = "register" -> "launch"
    [] step = "launch"   -> "returned"

\* The check of r.running, whose lock is released before anything else happens
Execute(e) ==
  /\ caller[e] = "new" /\ up /\ ~stopping
  /\ caller' = [caller EXCEPT ![e] = Then("new")]
  /\ UNCHANGED <<runtimeVars, registry, run, live, result, row, completed, request>>

Register(e) ==
  /\ caller[e] = "register"
  /\ registry' = registry \cup {HandleId(e)}
  /\ live' = live \cup {e}
  /\ caller' = [caller EXCEPT ![e] = Then("register")]
  /\ UNCHANGED <<runtimeVars, run, result, row, completed, request>>

Launch(e) ==
  /\ caller[e] = "launch"
  /\ run' = [run EXCEPT ![e] = "create"]
  /\ caller' = [caller EXCEPT ![e] = Then("launch")]
  /\ UNCHANGED <<runtimeVars, registry, live, result, row, completed, request>>

StoreWorks(e) == store = "open" /\ e \in live

CreateExecution(e) ==
  /\ run[e] = "create"
  /\ \/ /\ StoreWorks(e)
        /\ row' = [row EXCEPT ![e] = "running"]
        /\ run' = [run EXCEPT ![e] = "execute"]
     \/ /\ ~StoreWorks(e) \/ StoreMayFail
        /\ run' = [run EXCEPT ![e] = "return"]
        /\ UNCHANGED row
  /\ UNCHANGED <<runtimeVars, registry, caller, live, result, completed, request>>

ExecuteGraph(e) ==
  /\ run[e] = "execute"
  /\ \E s \in {"completed", "failed"} : result' = [result EXCEPT ![e] = s]
  /\ run' = [run EXCEPT ![e] = "persist"]
  /\ UNCHANGED <<runtimeVars, registry, caller, live, row, completed, request>>

\* An update of a row, if it is still there
SetStatus(e, s) == row' = [row EXCEPT ![e] = IF @ = "deleted" THEN @ ELSE s]

\* The deferred UpdateExecutionStatus of Run
Persist(e) ==
  /\ run[e] = "persist"
  /\ \/ StoreWorks(e) /\ SetStatus(e, result[e])
     \/ (~StoreWorks(e) \/ StoreMayFail) /\ UNCHANGED row
  /\ run' = [run EXCEPT ![e] = "return"]
  /\ result' = [result EXCEPT ![e] = "none"]
  /\ UNCHANGED <<runtimeVars, registry, caller, live, completed, request>>

\* OnExecutionComplete and the deferred Unregister; a restarted run has neither
RunReturns(e) ==
  /\ run[e] = "return"
  /\ run' = [run EXCEPT ![e] = "over"]
  /\ live' = live \ {e}
  /\ IF caller[e] = "restart"
       THEN UNCHANGED <<registry, completed>>
       ELSE /\ completed' = [completed EXCEPT ![e] = @ + 1]
            /\ registry' = registry \ {HandleId(e)}
  /\ UNCHANGED <<runtimeVars, caller, result, row, request>>

\* Run's own timeout is over, or the five minutes of a restarted run, or the context given
\* to Execute ends
ContextEnds(e) ==
  /\ e \in live
  /\ live' = live \ {e}
  /\ UNCHANGED <<runtimeVars, registry, caller, run, result, row, completed, request>>

\* Registry.Cancel of an id that is there
Cancel(id) ==
  /\ id \in registry
  /\ registry' = registry \ {id}
  /\ live' = {e \in live : HandleId(e) # id}

-----------------------------------------------------------------------------
(* The handle *)

HandleStop(e) ==
  /\ caller[e] = "returned" /\ Cancel(HandleId(e))
  /\ UNCHANGED <<runtimeVars, caller, run, result, row, completed, request>>

\* The rows that GetExecution finds under an id
RowsOf(id) == {f \in Runs : RowId(f) = id /\ row[f] \in Statuses}

\* The last tick of a call of Wait: Status finds the execution completed or failed, and Wait
\* calls OnExecutionComplete; or finds it cancelled, or not at all, and Wait returns an error.
Wait(e) ==
  LET ended == {f \in RowsOf(HandleId(e)) : store = "open" /\ row[f] \in {"completed", "failed"}}
  IN  /\ caller[e] = "returned"
      /\ completed' = [completed EXCEPT ![e] = @ + Cardinality(ended)]
      /\ UNCHANGED <<runtimeVars, registry, caller, run, live, result, row, request>>

-----------------------------------------------------------------------------
(* HTTP handlers *)

NoRequest(s) == [step |-> s, run |-> CHOOSE e \in Runs : TRUE]
At(q, s) ==
  request' = [request EXCEPT ![q] = IF s = "done" THEN NoRequest(s) ELSE [@ EXCEPT !.step = s]]

\* StopExecution, when the row says running
StopExecution(q, e) ==
  /\ request[q].step = "new" /\ store = "open" /\ row[e] = "running"
  /\ request' = [request EXCEPT ![q] = [step |-> "cancel", run |-> e]]
  /\ UNCHANGED <<runtimeVars, registry, runVars>>

\* BatchStopExecutions does not look at the row before it cancels
BatchStopExecutions(q, e) ==
  /\ request[q].step = "new" /\ row[e] # "none"
  /\ request' = [request EXCEPT ![q] = [step |-> "cancel", run |-> e]]
  /\ UNCHANGED <<runtimeVars, registry, runVars>>

\* The id in the path is the row's.  As long as runs are registered under another one,
\* it is not found.
CancelRequested(q) ==
  IF RowId(request[q].run) \in registry
    THEN Cancel(RowId(request[q].run)) /\ At(q, "write")
    ELSE At(q, "done") /\ UNCHANGED <<registry, live>>

WriteCancelled(q) ==
  /\ \/ store = "open" /\ SetStatus(request[q].run, "cancelled")
     \/ (store = "closed" \/ StoreMayFail) /\ UNCHANGED row
  /\ At(q, "done")

RequestStep(q) ==
  /\ request[q].step \in {"cancel", "write"}
  /\ IF request[q].step = "cancel"
       THEN CancelRequested(q) /\ UNCHANGED row
       ELSE WriteCancelled(q) /\ UNCHANGED <<registry, live>>
  /\ UNCHANGED <<runtimeVars, caller, run, result, completed>>

\* A run of the same workflow that is not registered
RestartExecution(q, e, f) ==
  /\ request[q].step = "new" /\ store = "open" /\ row[e] \in Terminal /\ caller[f] = "new"
  /\ caller' = [caller EXCEPT ![f] = "restart"]
  /\ run' = [run EXCEPT ![f] = "create"]
  /\ live' = live \cup {f}
  /\ At(q, "done")
  /\ UNCHANGED <<runtimeVars, registry, result, row, completed>>

-----------------------------------------------------------------------------

Init ==
  /\ up = FALSE /\ stopping = FALSE /\ stops = 0 /\ once = FALSE /\ hook = 1
  /\ pool = "up" /\ store = "open" /\ cleaners = 0 /\ closes = 0
  /\ before = {}
  /\ registry = {} /\ live = {}
  /\ caller = [e \in Runs |-> "new"]
  /\ run = [e \in Runs |-> "none"]
  /\ result = [e \in Runs |-> "none"]
  /\ row = [e \in Runs |-> "none"]
  /\ completed = [e \in Runs |-> 0]
  /\ request = [q \in Requests |-> NoRequest("new")]

\* A run that executes need not end, except when its context has ended or the pool is shut:
\* it then ends at once or, if its task is still queued there, by Run's timeout
RunStep(e) ==
  \/ Register(e) \/ Launch(e) \/ CreateExecution(e) \/ Persist(e) \/ RunReturns(e)
  \/ (e \notin live \/ pool = "shut") /\ ExecuteGraph(e)

Next ==
  \/ Start \/ Stop \/ StopStep \/ CleanUp \/ CleanerEnds
  \/ \E e \in Runs :
       \/ Execute(e) \/ RunStep(e) \/ ExecuteGraph(e) \/ ContextEnds(e)
       \/ HandleStop(e) \/ Wait(e)
  \/ \E q \in Requests :
       \/ RequestStep(q)
       \/ \E e \in Runs : StopExecution(q, e) \/ BatchStopExecutions(q, e)
       \/ \E e, f \in Runs : RestartExecution(q, e, f)

\* Every goroutine goes on, and Stop finishes, if the pool's Shutdown returns, which it
\* does as long as no worker process leaves a request unread for ever (WorkerPool)
Fairness == WF_vars(StopStep) /\ \A e \in Runs : WF_vars(RunStep(e))

Spec == Init /\ [][Next]_vars /\ Fairness

-----------------------------------------------------------------------------

\* Every variable has its type.  There is at most one goroutine of the cleanup job for
\* each Start that found the runtime stopped.
TypeOK ==
  /\ up \in BOOLEAN /\ stopping \in BOOLEAN /\ once \in BOOLEAN
  /\ stops \in 0..MaxStops /\ hook \in 1..Len(SortedHooks) + 1
  /\ pool \in {"up", "shut"} /\ store \in {"open", "closed"}
  /\ cleaners \in 0..MaxStops + 1 /\ closes \in Nat /\ before \subseteq Runs
  /\ registry \subseteq Ids /\ live \subseteq Runs
  /\ caller \in [Runs -> {"new", "register", "launch", "returned", "restart"}]
  /\ run \in [Runs -> {"none", "create", "execute", "persist", "return", "over"}]
  /\ result \in [Runs -> {"none", "completed", "failed"}]
  /\ row \in [Runs -> Statuses \cup {"none", "deleted"}]
  /\ completed \in [Runs -> Nat]
  /\ request \in [Requests -> [step : {"new", "cancel", "write", "done"}, run : Runs]]

\* Whoever is in the registry has not ended, so that it does not grow for ever; and a run
\* of Execute whose context is live can be cancelled (Register, Unregister, Cancel).
RegistryIsExact ==
  \A e \in Runs :
    /\ HandleId(e) \in registry => InProgress(e) \/ caller[e] = "launch"
    /\ InProgress(e) /\ caller[e] # "restart" /\ e \in live => HandleId(e) \in registry

\* When the storage is closed, every run that was registered when Stop began has been
\* cancelled or is over, the cleanup job was told to stop and the pool was shut down
\* (registerShutdownHooks, sortHooksByPriority, CancelAll).
StorageIsLast == store = "closed" => before \cap live = {} /\ closes > 0 /\ pool = "shut"

\* stopChan is closed at most once, whatever the order of Start, Stop and Close: closing
\* it again would end the process (CleanupJob.Stop, shutdownOnce).
ClosedOnce == closes <= 1

\* What a client may count on is ExecutionRecord
Record == INSTANCE ExecutionRecord WITH
  Executions <- Runs, record <- row, told <- completed, open <- store = "open"

\* The runtime implements it.  A terminal status is final until the row is deleted, though
\* Run, StopExecution, BatchStopExecutions and the cleanup job all write rows;
\* OnExecutionComplete is called at most once, though the goroutine of Execute and Wait
\* both call it, and only after the last status; and after the storage hook nobody writes.
ImplementsRecord == Record!Spec

\* When Stop has begun, every run ends in time, also one that was being registered while
\* the others were cancelled, and one that RestartExecution began, which is not registered.
StopEndsRuns == \A e \in Runs : once /\ InProgress(e) ~> run[e] = "over"

-----------------------------------------------------------------------------
(* The invariant behind the proofs *)

\* What the hooks that have run have done.  They run once: no Stop but the first finds
\* one left.  A Stop that ends is needed before the next Start, and so each of them
\* accounts for one goroutine of the cleanup job.
HooksInv ==
  /\ ~once => hook = 1 /\ ~stopping
  /\ once /\ ~stopping => hook = Len(SortedHooks) + 1
  /\ stopping => up
  /\ closes = IF hook > 2 THEN 1 ELSE 0
  /\ pool = "shut" <=> hook > 3
  /\ store = "closed" <=> hook > 4
  /\ cleaners <= stops + 1
  /\ cleaners <= stops \/ (up /\ ~stopping)

\* Who is registered: what Execute has registered, until its run is over or cancelled.
\* No id of a row ever is.
RegistryInv ==
  /\ \A id \in registry : \E e \in Runs : id = HandleId(e)
  /\ \A e \in Runs :
       /\ caller[e] \in {"new", "register"} =>
            run[e] = "none" /\ e \notin live /\ HandleId(e) \notin registry
       /\ caller[e] = "launch" => run[e] = "none" /\ (e \in live => HandleId(e) \in registry)
       /\ caller[e] = "returned" => run[e] # "none"
       /\ caller[e] = "restart" => run[e] # "none" /\ HandleId(e) \notin registry
       /\ run[e] = "over" => e \notin live /\ HandleId(e) \notin registry

\* How far a run is, its row, and what OnExecutionComplete was told of it
RowsInv ==
  \A e \in Runs :
    /\ run[e] \in {"none", "create"} => row[e] = "none"
    /\ run[e] \in {"execute", "persist"} => row[e] = "running"
    /\ result[e] # "none" <=> run[e] = "persist"
    /\ completed[e] = IF run[e] = "over" /\ caller[e] = "returned" THEN 1 ELSE 0

\* StopExecution and BatchStopExecutions never get to write a row: the id they are given
\* is not in the registry.
NothingToWrite == \A q \in Requests : request[q].step # "write"

IInv == TypeOK /\ HooksInv /\ RegistryIsExact /\ RegistryInv /\ RowsInv /\ NothingToWrite

\* Whoever was registered when Stop began is past its registration, so that it can be
\* cancelled, and does not get a context again after that.
CancelledInv ==
  \A e \in before : caller[e] \in {"launch", "returned"} /\ (hook > 1 => e \notin live)
=============================================================================
