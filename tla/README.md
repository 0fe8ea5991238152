# A formal model of conv3n

conv3n runs workflows: graphs of nodes, each executed by a Bun worker process or,
for variables, in place. This directory models its engine in TLA+, checks the
models with TLC and proves the main properties with TLAPS. Paths below are relative to
`src/`; the engine is `internal/engine/`.

## Inventory

| Part | State it keeps | Operations | What is hard | What makes it correct |
|---|---|---|---|---|
| Workflow runner (`workflow_runner.go`, `retry.go`, `state.go`, `types.go`) | per run: graph with `executed` flags, wait group, semaphore, error channel, results, status row | `Run`, `executeGraph`, `executeNode`, `RetryWithBackoff` | one goroutine per node, waves, cancellation in the middle of a wave, an update deferred past it | dependencies first; success only when everything is executed; the row agrees with what happened; nothing blocks for ever |
| Circuit breaker (`circuit_breaker.go`) | state, failure count, half-open count, time of the last failure, all separate atomics | `Execute`, `Reset`; a registry per runner, with one breaker per key | stale reads of the state by many goroutines | never stuck half-open, no trip lost, recovery, the half-open limit |
| Persistent queue (`task_queue.go`, `storage/task.go`) | `tasks` table, channel of `*Task`, workers, poller | `Start`, `Stop`, `Enqueue`, worker, poller | rows and structs diverge, duplicates, blocking channel, restarts, a context that ends | honest rows, retries respected, one goroutine per struct, `Stop` returns, pending tasks are taken up |
| Worker pool (`worker_pool.go`, `pkg/bunock/worker_server.ts`) | workers with health flags and a mutex each, task queue, size | `Submit`, dispatcher, `executeTask`, monitor, restart, scaler, `Shutdown` | timeouts racing answers, restarts racing shutdown and scaling | every task taken up is answered unless `Shutdown` leaves it, an answer belongs to its task, ids are positions, unhealthy workers are replaced |
| Execution lifecycle (`pkg/conv3n/runtime.go`, `execution.go`, `registry.go`, `api/lifecycle.go`) | registry of cancel functions, execution rows, runtime flag, handles | `Execute`, `Start`, `Stop`, stop and restart handlers | two ids for one execution, check-then-act on the status | every run ends after `Stop`, a terminal status is final, the registry is exact, storage is closed last |
| Trigger manager (`trigger.go`, `api/triggers.go`, SDK `trigger.ts`) | runners, trigger rows, child processes | `Register`, `Unregister`, `Fire`, cron, interval, webhook, handlers | row and runner change separately, message protocol with a child, contexts that end early | no runner is lost or stopped twice, rows and runners agree, nobody waits for ever |
| Variable store and resolver (`variable_scope.go`, `variable_resolver.go`) | variables per scope, expiry heap | `Set`, `Get`, `Delete`, expiry | shadowing between scopes, re-set while expiring | lookup order, no expired value |
| Validator (`validator.go`) | none | `Validate` | depth-first search with two marks | accepts exactly acyclic graphs with known endpoints |
| Rate limiters (`rate_limiter.go`, `api/middleware.go`) | token buckets | `Wait`, `allow`, cleanup | refill arithmetic | never more than the bucket, and never starved |
| Shutdown manager, cleanup, health (`shutdown.go`, `cleanup.go`, `health.go`) | hooks, ticker, cached results | `Register`, `ShutdownWithWait`, `Check` | hooks under a deadline, stale results | every hook runs once, in order |
| Storage (`storage/sqlite.go`) | SQLite tables | CRUD | a context that ends while a statement runs | statements are atomic |
| API, observability, registry of blocks, SDK, blocks, examples | | | | no state machine of their own |

How they interact: the API, the runtime and the triggers each create a runner and call
`Run` with a context; the runner calls its breaker registry, which calls the worker pool,
which talks to a Bun process; runner, queue, API and cleanup share the database. The
hazards of all these parts, each at its line, are the `hazards` of `PROJECT.json`.

## Modules

| Module | Models | Proofs |
|---|---|---|
| `Dataflow` | abstract: a node starts once and after its sources; success is concluded only when nothing failed, runs or could start | |
| `WorkflowGraph` | nodes and edges: known endpoints, start nodes, cycles | |
| `WorkflowRunner` | one call of `Run` | `WorkflowRunnerProofs` |
| `Validator` | one call of `Validate` | `ValidatorProofs` |
| `WorkflowExecution` | composes the two: `Validate`, then `Run`, as `Runtime.Execute` does, or `Run` alone, as its other callers do | `WorkflowRunnerProofs` |
| `CircuitBreaker` | one breaker and the goroutines that call it | `CircuitBreakerProofs` |
| `TaskLedger` | abstract: a task's record may lag behind what was done, but is not ahead of it, and changes only for a copy in memory | |
| `PersistentQueue` | queue, table, process | `PersistentQueueProofs` |
| `TaskService` | abstract: what a caller of `Submit` may count on | |
| `WorkerPool` | the pool, its goroutines, the Bun processes | `WorkerPoolProofs` |
| `TriggerService` | abstract: a trigger has one runner at a time, which runs only while it is started or in service and is stopped once | |
| `TriggerManager` | trigger rows, the manager's map and runners, the handlers, `Fire`, `main` | `TriggerManagerProofs` |
| `ExecutionRecord` | abstract: an execution goes from running to one terminal status to deleted, and its end is told once and after it | |
| `ExecutionLifecycle` | runtime, shutdown hooks, registry, rows, handles, stop and restart handlers, cleanup | `ExecutionLifecycleProofs` |
| `SequenceFacts` | what `Append` and `Tail` do to the elements of a sequence, for the proofs | itself |
| `MC*` | instances for TLC | |

In each module a definition whose comment begins "Faulty variant" is not used by the
specification. It is the form one definition would take with a plausible mistake in the
code, and shows that the properties would notice it.

### WorkflowRunner

`pc` is where the goroutine in `Run` is: `create` (CreateExecution), `plan`
(FindStartNodes, the first findReadyNodes), `launch` and `acquire` (the loop over a wave,
with the check of `ctx.Done` before each node and the blocking semaphore), `collect`
(after `wg.Wait`), then `marshal` and `persist`, the deferred function that runs on every
return after CreateExecution. `node[n]` is where the goroutine of node n is: `wait` (rate
limit and variables), `call` (an attempt through breaker and pool), `backoff`, `save`
(SaveNodeResult), `mark` (executed), `send` (its error into errChan), and the two deferred
statements `release` and `finish`. `sem`, `wg` and `errChan` are the code's; `CountersInv`
proves that they count what they should. `CancelContext` covers the caller's cancellation
and the timeout, since both only close `ctx.Done`. A storage call succeeds only while the
context is live and may fail at any time.

Data is abstracted: a result is the fact that it is there, an error is the node that
raised it. Any attempt may succeed, fail retryably (up to `MaxAttempts`) or fail for good,
which covers the breaker's rejections, the pool's errors and the size limit. Variable
nodes (`SetVar`, `GetVar`), `LastError`, node outputs and tracing are left out.
The marshalling of the results map is one step: when goroutines of a cancelled wave
still write the map, Go may also abort the process, which leaves the row as it was.

### CircuitBreaker

One action per atomic operation: `BeginRequest` is the load of the state and the switch on
it, `CheckTimeout`, `ToHalfOpen`, `CountRequest`, `UncountRequest` are the rest of
`beforeRequest`; `CallSucceeds` and `CallFails` are the end of `fn` and the second load;
the others are the stores of `onSuccess`, `onFailure` and `Reset`. So a goroutine acts on a
state that may be stale by then. `cooling` abstracts `lastFailTime` to whether `Timeout` has
passed since. Counters are modulo `Width` (2^32 in the code; 16 in the runs, so that the
decrement below zero wraps). Statistics counters and OnStateChange are left out.

### Validator and WorkflowGraph

`pc` is the check `Validate` is at: `nodes` (ids and types), `edges` (`validateEdges`), `search`
(`detectCycles`), `start` (`FindStartNodes`). The recursion of `hasCycle` is the stack of its calls,
`frames`, each with its node and the index of the next edge its loop looks at; `visited` and
`recStack` are the two maps of marks. Edges come in the order of the slice. `detectCycles` ranges
over a map, and so `Root` takes any node that is not visited. `formed` abstracts what ids and
types are to whether they pass. The properties compare the result with `Executable` of
`WorkflowGraph`, which defines cycles without a search: some part of the nodes each of
which has an edge from inside the part.

### WorkflowExecution

The variables of `WorkflowRunner` and those of one call of `Validate`. `ExecutionInit` sets
the runner's `edges` to the set of the slice's. `Run` begins when `check` is `accepted`, or `skipped`:
restarts (`api/lifecycle.go`), triggers and the server call `Run` without the validator, so
that cyclic graphs reach it. `Executed` bounds which workflows are run, and `Unchecked` which of
them come unvalidated; what lies beyond is validated and left (`NotRun`).

### PersistentQueue and TaskLedger

`row` is the table, `object` the `Task` structs in memory, `pending` the channel (capacity
twice the workers). `enqueuer[t]` is where the call of `Enqueue` for t is, `step[w]` where
worker w is (`select`, `claim`: about to write running, `execute`, `requeue`: pausing and
sending, `trail`: after the send, `finish`: about to write), `args[w]` what its UpdateTask
was called with: the fields are read when the call is made and the row changes later.
`trail` is apart from `requeue` because another worker may take the struct, and change its
fields, between the send and the trailing UpdateTask. `poller` covers `Start` and the poller
goroutine, `batch` the rows read but not sent yet. `Reboot` is the process ending in any
way and being started again: only the table survives. `succeeded` and `failures` record
what the executor did, for the properties; `failures` stops counting at MaxRetries + 1.

`TaskLedger` has `Submit`, `Load`, `Lose`, `Succeed`, `Fail` and `Write`. Its record is `row`, and a
task is in memory (`InMemory`) if a struct in use is its own, or it is in the batch being loaded, or
its `Enqueue` is between the row and the struct. It promises that a row is never ahead of what was
done, that nothing is executed or written for a task that is nowhere in memory, and that only a
pending row gets it back there. It allows duplicates, lost copies, and rows that are set back by
a stale write, all of which the queue does.

### WorkerPool and TaskService

A call of `Submit` is `client[t]` (`sending`: the first select, `waiting`: the second) with
its `box`, the ResultChan of one place. `runner[t]` is `executeTask`; `call[t]` is the
goroutine it starts around `execute`, which survives a timeout, and so keeps the worker's
`mu` while another task waits for it with its own timeout running. Its steps are `lock` (waiting
for `mu`), `encode` and `decode`. `Encode` has no deadline, as only `SetReadDeadline` is called and
only after it: with a request that is larger than the socket's buffer, `SendRequest` happens when the
process reads, which it may never do, and `mu` is held until then. A `BunWorker` is a
number in the order they are started: `id`, `healthy`, `count` (taskCount), `mu`, `broken`
(a `json.Decoder` returns its first error for ever) and its process: `requests` it works
on, `replies` in the socket. `monitor[w]`, `scaler` and `stop` are where monitorWorker,
the scaler and `Shutdown` are; `restartMu` is held from one step to the next. The
interesting gaps are kept: between shutting an old worker down and starting the new one,
between taking a worker out of the slice and counting it, and between the timeout of a
task and the end of its goroutine. `ShutdownWorker` needs `mu`, as in the code.

A payload is its task. There is no clock: any timeout may be over at any moment. The
factors of the scaling thresholds and the queue's capacity are parameters. A process
crashes only when it has a request, since an idle crash is noticed only at the next one.
Panics, statistics, `lastUsed`, `resultQueue`, and what `startWorker` does on its way to
a connection are left out.

`TaskService` has `Accept`, `Perform`, `Answer` and `Leave`. Under the mapping in
`WorkerPool` a task is new, accepted or over as its client is sending, waiting or gone, and
the answer is the content of `box`; `performed[t]` counts how often a process ran t's block to
the end, for the properties. It allows a block to be performed although its caller
got an error, and so it says what the runner's retries must live with.

### TriggerManager and TriggerService

`row` is the table; `triggers` the manager's map; `tmMu` its lock, which is held by the
caller of `Register`, `Unregister` or `StopAll` from step to step while a runner starts or
stops; `runner[r]` one TriggerRunner, with what runs on its behalf (`live`), `isReady`,
`tr.mu` as `invoked`, and a `job` of cron. `call[c]` is a handler (`Create`, `Update`, `Delete`,
`HandleWebhook`) or `main` (`Server`), which loads the table before it listens and calls
`StopAll` at the end, possibly with handlers still under way. `fire[f]` is the goroutine that
`Fire` starts, with the context it was given: `background`, the event's, which ends when
`Fire` has returned, or the request's, which ends with the handler.

The process of a TypeScript trigger is environment: it gets ready or not, emits events,
dies, or stops reading, from its start on if it likes. A write into its pipe returns when it reads or is
dead (`WriteReturns`); this holds for the start message, which `Start` writes under `tmMu` before it
sets its timeout (`told`, `StartSent`), for `Invoke` and for the kill message. An interval trigger whose
interval is not positive panics in `time.NewTicker`. In a handler net/http recovers, and this is one of the
ways of `RegisterRefused`; in `LoadTriggers` the server ends (`LoadPanics`, `server` is `crashed`).
The reader's timeout of 30 seconds, after which its loop starts a second `Scan` beside the first
(`trigger.go:439`), is left out: both feed the same loop, and the race inside the scanner has no behaviour a model
could give it. Handlers that only read or are refused before they change anything
are left out. `overlap` is a history variable: whether a handler ever began while another
was under way. It marks what the code does not promise: two overlapping updates of one
trigger may leave row and runner in disagreement, as nothing spans both writes.

`TriggerService` has `Register` and `Begin` (a start that is over at once, or takes time), `Ready`,
`GiveUp`, `End` (a process dies, or a schedule ends before its jobs) and `Stop`. A trigger's runner in
service is the one in the map, but none for what `StopAll` has already stopped and not yet taken
out (`InService`); the one being started is that of the caller which holds the lock in `starting`
(`InStart`). It says nothing of rows, which is what `SerialAgreement` is for.

### ExecutionLifecycle and ExecutionRecord

`up`, `stopping` and `once` are `running`, the mutex during `Stop`, and `shutdownOnce`; `hook`
is where the shutdown manager is in `SortedHooks`, the hooks in the order the code's exchange
sort gives them, run one by one. The runtime registers four hooks, and so the sort is written
out as its three passes, which can be proved about where a recursion could not. `registry` is a set of ids, and an execution has two:
`HandleId`, under which `Execute` registers it, and `RowId`, which `CreateExecution` draws
and HTTP clients know. `caller[e]` is `Execute` between its steps (or a run begun by
`RestartExecution`), `run[e]` its goroutine, of which only the writes of the row are kept from
`WorkflowRunner`, `live` the runs whose context has not ended. `ContextEnds` is the timeout that `Run`
itself sets, that of a restarted run, and the end of the context given to `Execute`. `before` is a
history variable: the runs that were registered when `Stop` began, which `StorageIsLast` says are
cancelled or over when storage is closed. `request[q]` is a stop handler
between `Cancel` and its write. `CleanUp` deletes terminal rows; `closes` counts the closing of
the cleanup job's channel.

`ExecutionRecord` has `Begin`, `End`, `Delete`, `Tell` and `Close`. Its record is `row`, what was
told is `completed`, and it is open as long as `store` is. It promises that no status follows a
terminal one, that `OnExecutionComplete` is called once and with no status to come, and that
nothing is written once the storage hook has run; it allows a record that says `running` for ever
and an end without a record, which writes under a dead context leave behind.

## Runs

Every run has the specification `Spec`, the two of `WorkflowExecution` `ExecutionSpec`. Deadlock
is checked, with a run that is over stuttering, except in `TriggerManager` and
`ExecutionLifecycle`, where a system that has been shut down really stops.
The runs `WorkflowExecution`, `CircuitBreaker`, `PersistentQueue`, `WorkerPool`, `TriggerManager`
and `ExecutionLifecycle` also check `TypeOK`.

| Run | Instance | Shows |
|---|---|---|
| `WorkflowExecution` | 3 nodes and an unknown id; validated: every slice of up to 2 edges, and 8 shapes in every order; run: the 8 shapes, 2 slots, 2 attempts | `DependencyOrder`, `CompletedMeansAll`, `ImplementsDataflow`, `TerminalRowQuiescent`, `ExecutionReturns`, `NoGoroutineLeak`, `ValidatorAgrees` |
| `WorkflowExecutionCancelled` | one valid graph, storage never fails | `FailedRunIsRecorded` is violated |
| `CircuitBreaker` | 2 goroutines, MaxFailures 2, limit 1 | `HalfOpenHasProbe`, `NoLostTrip`, `HalfOpenDecided`, `RecoversWithService` |
| `CircuitBreakerLimit` | 2 goroutines | `HalfOpenLimit` is violated |
| `PersistentQueue` | 1 task, 2 workers, 3 structs, 1 retry, 1 restart, Stop | `RowsHonest`, `ExclusiveObject`, `ImplementsLedger` |
| `PersistentQueueLive` | 1 task, 1 worker, 4 structs, failures, Stop and cancellation, 1 restart | `StopReturns`, `PendingIsTakenUp` |
| `PersistentQueueTwice` | 1 task, 2 workers, no failures | `ExecutedOnce` is violated |
| `PersistentQueueBlocked` | 2 tasks, 1 worker, 5 structs | `TasksSettle` is violated |
| `WorkerPool` | 2 tasks, 3 workers started in all, 1 to 2 at a time, queue of 1, restarts may fail | `AnswerIsOwn`, `PositionsAreIds`, `ImplementsTaskService` |
| `WorkerPoolLive` | 2 tasks, 1 worker at a time, 3 starts, Shutdown, restarts succeed | `AcceptedIsAnswered`, `ShutdownReturns`, `UnhealthyIsReplaced` |
| `TriggerManager` | 1 id, cron, interval, TypeScript and webhook, 2 requests, 1 firing, 2 runners | `NoOrphanRunner`, `StoppedOnce`, `SerialAgreement`, `ImplementsTriggerService`, `NothingRunsAfterStop`, `CallsReturn` |
| `ExecutionLifecycle` | 2 runs, 1 request, Stop twice | `RegistryIsExact`, `StorageIsLast`, `ClosedOnce`, `ImplementsRecord`, `StopEndsRuns` |

Why the bounds are enough. Three nodes give every shape a wave can meet: fan-out, fan-in,
a chain with a shortcut, independent nodes (three for two slots, so the semaphore blocks),
a cycle behind a start node, a cycle alone, an edge from an unknown node, and only such
edges. The validator gets each of these shapes with its edges in every order, on every subset of
the nodes, and besides every slice of up to two edges, self-loops and the same edge twice included;
three edges are what two paths that meet, a cycle of three and a cycle behind a start node need,
and that longer slices bring nothing new is proved. Two attempts give one
retry. Two goroutines give every pair of stale reads in the breaker, and exceed its limit of one. Two workers and three structs of
one task let a duplicate overtake the original while a third is queued; that more of
anything changes nothing for the invariants is what the proofs add. `Objects` bounds the
structs that are alive at the same time: an action that would allocate one too many waits.
For the liveness run the bound is not met where it would matter: a worker that is blocked
is blocked by the channel (capacity 2 with one worker), which two duplicates and one held
struct fill. In the pool two tasks are what a late answer, a mutex waited for and a full queue
need; three starts from a minimum of one give a scale-up or a restart, and one after the other;
the factors are chosen so that one queued task scales up and an empty queue scales down.
`GrowFactor` 0 and `ShrinkDivisor` 2 do so for sizes 1 and 2, which the code's 2 and 4 do only
for pools of eight and more. `WorkerPoolLive` has a second caller that waits for the mutex of a hung worker,
and starts enough for both to break one each; its pool has no room to scale, so that liveness together with
scaling is not checked. One trigger id suffices as ids share nothing but the lock; two
requests overlap in every way, with two runners of which one replaces the other. All four
types are in the run. Two runs are one of `Execute` and one of `RestartExecution`, or two that
interleave; a second `Stop` is what `shutdownOnce` is for.

Fairness. Goroutines that can run are scheduled (weak fairness of each), the caller in `Validate`
like the others; an attempt, an executor call and a probe end, as they have timeouts; the ticker ticks and `Timeout`
passes; requests keep coming to the breaker, which without them decides nothing. Nobody is
bound to cancel, stop, enqueue, reset or reboot. `PendingIsTakenUp` holds up to a stop or a
cancellation with one task; with two that fail the queue blocks, as `PersistentQueueBlocked`
shows. `RecoversWithService` assumes that the service ends up healthy. In the pool callers
receive what is there for them, goroutines go on, time passes (a timeout or a read deadline
ends a wait), and the tickers of monitors and scaler tick; nobody is bound to submit, give
up or shut down, and a process may hang for ever. `SendRequest` has no fairness, as nothing makes a process
read. `ShutdownReturns` and `UnhealthyIsReplaced` therefore assume `RequestsAreRead`: no task stays
for ever in `encode`. The code does not see to it, and what happens otherwise is below, under what reading found;
`AcceptedIsAnswered` needs no such assumption, as a caller's timeout does not wait for the mutex.
`UnhealthyIsReplaced` also assumes, by the run's `StartMayFail`, that restarts succeed: one that fails is not
tried again. In the trigger manager handlers, `main` and cron jobs go on, and `CallsReturn` assumes
`PipesAreRead`, that no pipe to a living process stays full for ever; one condition of weak fairness for all handlers
together is enough since each has finitely many steps. Requests, signals, ticks and the
process's messages need not come, but `Start` waits for ready with a timeout. In the lifecycle
the goroutines of `Stop` and of runs go on, where a run that executes is bound to end only
when its context has ended or the pool is shut down. A task that is still queued when the pool is
shut down is not refused; its run ends through its own timeout (`workflow_runner.go:69`). That
`pool.Shutdown` returns is assumed there, and holds under `RequestsAreRead` by `ShutdownReturns`.

### What the violated runs show

- A run whose context is cancelled or times out returns an error but its row stays
  `running`, because the deferred update uses the same context
  (`workflow_runner.go:105`).
- The request that takes a breaker to half-open is not counted, so more than
  `HalfOpenMaxReqs` probes run (`circuit_breaker.go:101`).
- The queue loads rows whose structs are queued already, and a task that succeeded is
  executed again (`task_queue.go:148`).
- All workers can block putting failed tasks back into the full channel that only they
  drain; until `Stop`, nothing is executed any more (`task_queue.go:112`).

### What reading found, without a run

These follow from a line or two, and a run would only repeat them. The models contain the
behaviour where they reach it.

- A process that does not read its socket keeps `Encode`, under the worker's mutex and without a
  deadline, for ever: the caller's timeout ends its wait, but the restart and `Shutdown` wait for
  that mutex (`worker_pool.go:283`).
- A process that does not read its pipe keeps `Stop` in the write of the kill message, before the
  timeout that is meant to prevent deadlocks begins (`trigger.go:272`).
- An enabled interval trigger of less than a second is truncated to zero, `NewTicker` panics, and the
  server ends in `LoadTriggers`, at every start (`trigger.go:716`).
- The worker that `scaleDown` shuts down looks crashed to its monitor, which starts it again
  outside the slice (`worker_pool.go:164`); a restart that fails is not tried again
  (`worker_pool.go:185`); a pool smaller than four never scales down (`worker_pool.go:393`).
- Runs are registered under an id the API does not know, so the stop handler and the handle's
  `Status` and `Wait` never find them (`pkg/conv3n/runtime.go:249`), and a restarted run is not
  registered at all (`api/lifecycle.go`). `Start` after `Stop` leaves pool and storage closed
  (`pkg/conv3n/runtime.go:176`). Two executions in one nanosecond share an id
  (`runtime.go:251`).
- A workflow fired by a webhook or an event runs in a context that is about to end, and then
  neither succeeds nor is recorded (`trigger.go:532`). The reader of a process that ended spins
  (`trigger.go:361`), and a reply after `Stop` meets a nil pipe (`trigger.go:425`).
- Every execution context leaves the goroutine of its `VariableStore` behind (`types.go:157`).
- The health check of the pool asserts a statistic that `Stats` does not return and panics
  (`health.go:166`); the API's limiter loses the fraction of a token (`middleware.go:74`).

## Proofs

All theorems hold for every value of the constants under the named assumptions of the
modules (finite sets of nodes, goroutines, workers, tasks, executions, triggers and requests;
at least one slot, one attempt, one failure, one execution, one trigger id and one type;
limits below the counters' width).

**WorkflowRunnerProofs.** `IInv` has five parts besides types. `CountersInv`: `sem` and `wg`
are the numbers of goroutines that hold a slot and that are not done, which is what makes
`wg = 0` after `wg.Wait` mean that the wave is over. `NodesInv`: a node that is launched or
chosen has its dependencies executed, an executed one has its result, and a goroutine that
is over is either executed or failed. `ErrorsInv`: a failed node has an error in the channel
until `Run` takes one; this is why `Run` cannot go on to another wave after a failure.
`RunInv` ties `pc`, `verdict`, `final` and the row together. `QuiescenceInv`: a run whose
context is live has nothing in flight when it gets to its deferred update. From it follow
`TypeCorrect`, `DependenciesFirst`, `CompletedIsComplete` (a set of nodes that are not
executed has, as the graph has no cycle, one that is ready, but `Run` returned nil only
when none was), `TerminalRowIsQuiescent` and `Refinement`: under the mapping in the module every
step is a step of `Dataflow` or a stutter. `ExecutionInv` is the invariant of the composition: `IInv`,
the validator's, and `Handover`, that the graph which is run is the one that was validated.
`ExecutionsAreRuns` carries all of the above over to `WorkflowExecution`, which the run checks,
`ValidationIsExact` does so for the validator's theorem, and `AcceptedIsCompleted` needs both: what
`Validate` accepted and a row calls completed has been executed to the last node.

**ValidatorProofs.** `IInv` has four parts besides types. `ProgressInv`: what the checks so far have
established, and that a rejected workflow deserves it. `StackInv`: the calls are a path in the
graph, each node on it once, and `recStack` marks just these; so an edge to a marked node closes a
cycle. `LoopsInv`: an edge that a loop has passed leads to a node that is done or to the call the loop waits
for. `DoneInv`: what is done leads only to what is done, and has no cycle; a node can join
when all its edges lead there (`AcyclicGrows`). With nothing left to visit the graph is done,
and therefore acyclic (`ValidateIsExact`). `StartNodeIsThere`: the last check rejects nothing,
because a workflow without a start node has a cycle or an unknown source and was rejected before. As the
search is a state machine and not a recursive definition, none of this needs induction over graphs.

**CircuitBreakerProofs.** `HalfOpenHasProbe` and `NoLostTrip` are inductive with the types:
the goroutine that makes the breaker half-open is itself the first probe, every way out of
`probe` while the breaker is half-open leads to a step that decides it, and who decides
it leaves the state at the same step. The counter of a closed breaker is raised to the limit only by a goroutine that
then trips, and the breaker is closed only by one that then clears it.

**PersistentQueueProofs.** `Honest(t, r)` says of a status and attempts that they claim no
more of t than the executor saw. `IInv` states it of rows, of loaded batches, of structs
and of the arguments of calls under way, so that it does not matter which of them is
written last. It needs `ExclusiveObject`, since a struct whose fields two workers changed could
say anything, and `StatusInv`, that what is queued is pending. The refinement needs `LedgerInv` besides:
a call of `Enqueue` to come has neither row nor struct (`UnsubmittedInv`), and nothing in use, or about
to be written, is without a status (`StatedInv`). `Refinement`: every step is a step of
`TaskLedger` or a stutter; `CreateTask` is the submission, and of every other step it is enough to
show that it submits nothing (`Faithful`). `ForgottenIsFinal` is what follows for a row whose task has no
struct left: unless it is pending it never changes again, for better (completed, failed) and for
worse (running, after a crash).

**WorkerPoolProofs.** `IInv` has four parts besides types. `PositionsAreIds` with `SlotsInv`:
the slice, the ids, the size and the step of the scaler agree, and every struct in the slice
has been started. The second half is what a restart needs: the struct it makes is in no slot
yet, so giving it the old one's id changes no other position. `MinSize < size` while the scaler
is about to scale down is why the slice is never empty when its last worker is taken.
`QueueInv` and `TasksInv`: a task goes from `Submit` through the queue to one `executeTask`, with
one goroutine in `execute`, and is answered once. `WorkersInv`: as long as a worker's decoder
has met no error, what its process works on and what lies in its socket belong to the task
that holds the mutex; after an error nothing is read from it any more. This is what
`AnswersAreOwn` rests on, and why it survives timeouts: a deadline that expires breaks the
decoder for ever before the mutex is released, and the late answer is never decoded. If the
code decoded again after an error, it would be read by the next task, as the run's mutant of
`KeepError` shows. From `IInv` follow `TypeCorrect`, `IdsArePositions`, `AnswersAreOwn` and
`Refinement`: every step is a step of `TaskService` or a stutter. `getHealthyWorker` is a choice
of a slot with the least count, whose existence comes from the well-founded order of the numbers.

**ExecutionLifecycleProofs.** `SortsByPriority` is about the exchange sort alone: any four hooks
come out in descending order of priority and none is lost. With the four the
runtime registers it gives the order `HooksInv` speaks of: how far `hook` has got says what is
closed and shut, and no `Stop` but the first finds a hook to run. `CancelledInv` says that a run
registered when `Stop` began was past its registration, and is not live once the first hook, which
cancels, is through. From the two follow `StorageClosedLast` and from the first `ChannelClosedOnce`; its clauses about `cleaners` bound the goroutines
that `Start` leaves, for the types. `RegistryIsExact` is inductive with `RegistryInv`, which says what
`Execute` has done at each of its steps and that no row's id is ever registered. `RowsInv` ties
a run to its row and to what `OnExecutionComplete` was told. `Refinement` shows that every step is a
step of `ExecutionRecord` or a stutter. The creation, the last status, the return of a run, the
cleanup and the storage hook have a lemma each, and one lemma says that whatever else happens
leaves the record alone. It holds for a reason the code did not intend, which
`StopRequestsFindNothing` and `WaitFindsNothing` state: a stop handler never gets to its write and
`Wait` never to its callback, because each looks under the other's id. If runs were registered under
their rows' ids, that write would be free to overwrite a terminal status and `Wait` to call
`OnExecutionComplete` a second time, which the run's mutant shows.

**TriggerManagerProofs.** `IInv` has seven parts besides types and the two invariants it keeps.
`LockInv` says who may hold `tm.mu` and at which step, which makes every step between taking and
releasing it the holder's alone. `MapInv`: a runner is in the map under its own id, so one runner
is there for one id only, and the runner that is being started is the newest, in the map
nowhere. This is why `ProcessReady` overwrites nothing, although the lookup was steps ago.
`StopsInv`: what is in the map was not stopped yet, except what the `StopAll` under way has been
through, which does not run any more; so an `Unregister` that comes after `StopAll` finds nothing
to stop a second time. `NoOrphans` and `StoppedAtMostOnce` follow. `UsedInv` says that ids with a
row, a runner or a handler have been given out, so that a new trigger's id has no runner.
`OutcomesInv` says that what is recorded has been set. `SerialInv` and `StoppedInv` speak of histories without overlap: only the handler under way may
find a runner beside a row it does not fit, and is about to stop it; what it is about to register
is what the row says; and after `StopAll` nobody registers. They give `RowsAgree` and
`NothingRunsAfterStopAll`, for which the lemma `ExecutesWhatIsRegistered` shows that no step but
the lookup of a firing itself takes it on to its workflow. Most steps are handled by four lemmas
about a kind of step (`AsideKeeps`, `PlainKeeps`, `HandlerKeeps`, `RegisteredKeeps`), and the
steps that hold the lock by one lemma each. The invariant was checked by TLC on the run's
instance, and with two ids, two requests and three runners, before it was proved.
`Refinement`: every step of the manager is a step of `TriggerService` or a stutter. Steps of handlers and firings that touch neither map nor lock stutter, or end one runner
(`HandlerPromise`, `AsidePromise`). A start is fresh because the lock is free, so that nothing else
starts and `StopAll` is not under way (`FreshPromise`); the end of a start is the only one
(`StartEndsPromise`). `StopAll` takes each runner out of service when it has stopped it, and its last
step, which empties the map, therefore changes nothing (`ServerPromise`): this is what fails when the
map is not emptied.

Only model-checked: all liveness, which is outside the prover's reach (`ExecutionReturns`,
`NoGoroutineLeak`, `HalfOpenDecided`, `RecoversWithService`, `StopReturns`, `PendingIsTakenUp`,
`AcceptedIsAnswered`, `ShutdownReturns`, `UnhealthyIsReplaced`, `CallsReturn`,
`StopEndsRuns`). Every invariant, action property and refinement of the passing runs is a theorem.

## Plan

1. The variable store, with several scopes and expiry, once the engine uses either.
2. Algorithms against reference definitions: the token buckets of both limiters, the backoff.
3. Composition: a runner whose attempts go through breaker and pool, so that a retry
   meets a worker still busy with the attempt before.

Runs stay small in number: one per question, with the liveness properties of a module in
the same run where one instance serves both.

## Not modelled

- The variable store and the resolver: the engine uses one scope without expiry, where a variable
  is an entry of a map behind a lock. Templates are text.
- The limiter of the API, which no route uses, and the one of nodes, whose wait is a step of
  the runner that may end with the context; the arithmetic of buckets and backoff.
- Health checks, metrics, tracing, logs, events, the registry of blocks, the size limits: values
  and caches without a protocol.
- Storage beyond the statements named above: schema, listing, CRUD of workflows.
- Decoding of requests, formatting of responses, handlers that only read.
- The SDK, the individual blocks and the code generator. A TypeScript process, of a block or of
  a trigger, is environment.
- The examples, except the server's `main` as far as it starts and stops triggers.

`PROJECT.json` lists every part with its status.

## Running

    tlc -config WorkflowExecution.cfg MCWorkflowExecution
    tlapm WorkflowRunnerProofs.tla
