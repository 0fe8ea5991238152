----------------------------- MODULE WorkerPool -----------------------------
(***************************************************************************)
(* The pool of Bun workers (src/internal/engine/worker_pool.go): callers   *)
(* of Submit, the dispatcher, one executeTask goroutine per task with the  *)
(* goroutine in execute it starts, one monitor per worker, the scaler and  *)
(* Shutdown, and at the other end of each socket the Bun process           *)
(* (src/pkg/bunock/worker_server.ts).                                      *)
(*                                                                         *)
(* A payload is the task it belongs to.  activeWorkers, lastUsed and       *)
(* resultQueue, which decide nothing, are left out.  Callers begin at the  *)
(* first select of Submit, at any time.  There is no clock: a timeout may  *)
(* be over at any moment.                                                  *)
(***************************************************************************)
EXTENDS Integers, Sequences, FiniteSets

CONSTANTS
  Tasks,          \* calls of Submit
  MaxStarts,      \* bound: BunWorker structs started over the pool's life
  MinSize,        \* minSize
  MaxSize,        \* maxSize, twice minSize in the code
  QueueCap,       \* capacity of taskQueue, size*4 in the code
  GrowFactor,     \* scale up when the queue is longer than size*GrowFactor (2)
  ShrinkDivisor,  \* scale down when it is shorter than size/ShrinkDivisor (4)
  StartMayFail,   \* may startWorker fail?
  MayShutdown     \* is Shutdown ever called?

ASSUME TasksAssumption ==
  /\ IsFiniteSet(Tasks)
  /\ {"none", "error", "free"} \cap Tasks = {}
ASSUME SizesAssumption ==
  /\ MinSize \in Nat \ {0} /\ MaxSize \in Nat /\ MinSize <= MaxSize
  /\ MaxStarts \in Nat /\ MinSize <= MaxStarts
  /\ QueueCap \in Nat \ {0} /\ GrowFactor \in Nat /\ ShrinkDivisor \in Nat \ {0}
  /\ StartMayFail \in BOOLEAN /\ MayShutdown \in BOOLEAN

Workers == 1..MaxStarts

VARIABLES
  client,      \* [Tasks -> where the call of Submit is]
  box,         \* [Tasks -> what was sent to ResultChan]
  queue,       \* taskQueue
  dispatcher,  \* is the dispatcher running?
  runner,      \* [Tasks -> step of executeTask]
  chosen,      \* [Tasks -> worker getHealthyWorker returned, 0 before]
  call,        \* [Tasks -> step of the goroutine in execute]
  result       \* [Tasks -> what that goroutine sent to resultChan]

VARIABLES
  workers,     \* p.workers
  size,        \* p.currentSize
  started,     \* number of structs started so far; the next one is started+1
  id,          \* [Workers -> worker.id]
  healthy,     \* workers with the healthy flag
  count,       \* [Workers -> taskCount]
  mu,          \* [Workers -> task whose execute holds w.mu, or "free"]
  broken,      \* workers whose decoder met an error, which it then returns for ever
  monitor,     \* [Workers -> step of monitorWorker]
  restartMu,   \* held by a "monitor", by the "scaler", or "free"
  scaler,      \* step of the scaler
  victim,      \* worker scaleDown removed, 0 when there is none
  stop,        \* step of Shutdown
  doomed       \* workers Shutdown has still to shut down

VARIABLES
  proc,        \* [Workers -> "none", "up", "crashed", "exited" or "killed"]; the
               \* last two are reaped by Wait, so the connection is closed
  requests,    \* [Workers -> tasks the process is executing]
  replies,     \* [Workers -> answers in the socket, oldest first]
  performed    \* [Tasks -> how often its block ran to its end]

clientVars == <<client, queue, dispatcher>>
taskVars   == <<box, runner, chosen, call, result>>
poolVars   == <<workers, size, started, id, monitor, restartMu, scaler, victim, stop, doomed>>
connVars   == <<healthy, count, mu, broken>>
procVars   == <<proc, requests, replies, performed>>
vars       == <<clientVars, taskVars, poolVars, connVars, procVars>>

Reaped == {"exited", "killed"}

-----------------------------------------------------------------------------
(* Submit *)

\* Faulty variant: a queue without a limit
Unlimited == TRUE

HasRoom == Len(queue) < QueueCap

\* p.taskQueue <- task, also after Shutdown began: select has no preference
Enqueue(t) ==
  /\ client[t] = "sending" /\ HasRoom
  /\ queue' = Append(queue, t)
  /\ client' = [client EXCEPT ![t] = "waiting"]
  /\ UNCHANGED <<dispatcher, taskVars, poolVars, connVars, procVars>>

\* "worker pool is shutting down"
Refuse(t) ==
  /\ client[t] = "sending" /\ stop # "no"
  /\ client' = [client EXCEPT ![t] = "gone"]
  /\ UNCHANGED <<queue, dispatcher, taskVars, poolVars, connVars, procVars>>

\* The caller's context ends, in either select
Abandon(t) ==
  /\ client[t] \in {"sending", "waiting"}
  /\ client' = [client EXCEPT ![t] = "gone"]
  /\ UNCHANGED <<queue, dispatcher, taskVars, poolVars, connVars, procVars>>

Receive(t) ==
  /\ client[t] = "waiting" /\ box[t] # "none"
  /\ client' = [client EXCEPT ![t] = "gone"]
  /\ UNCHANGED <<queue, dispatcher, taskVars, poolVars, connVars, procVars>>

Submit(t) == Enqueue(t) \/ Refuse(t) \/ Abandon(t) \/ Receive(t)

-----------------------------------------------------------------------------
(* dispatcher *)

Dispatch ==
  /\ dispatcher /\ queue # <<>>
  /\ queue' = Tail(queue)
  /\ runner' = [runner EXCEPT ![Head(queue)] = "pick"]
  /\ UNCHANGED <<client, dispatcher, box, chosen, call, result,
                 poolVars, connVars, procVars>>

\* Whatever is queued stays there
DispatcherEnds ==
  /\ dispatcher /\ stop # "no"
  /\ dispatcher' = FALSE
  /\ UNCHANGED <<client, queue, taskVars, poolVars, connVars, procVars>>

-----------------------------------------------------------------------------
(* executeTask *)

HealthySlots == {i \in DOMAIN workers : workers[i] \in healthy}

\* getHealthyWorker: the first one with the fewest tasks
BestSlot ==
  CHOOSE i \in HealthySlots : \A j \in HealthySlots :
    \/ count[workers[i]] < count[workers[j]]
    \/ count[workers[i]] = count[workers[j]] /\ i <= j

\* Faulty variant: ResultChan has no buffer
NoAnswerSlot == 0

\* make(chan *WorkerResult, 1)
AnswerSlots == 1

\* The send to ResultChan: without a buffer it would need a caller that still waits
Answer(t, r) ==
  /\ AnswerSlots > 0 \/ client[t] = "waiting"
  /\ box' = [box EXCEPT ![t] = r]

Finish(t) == runner' = [runner EXCEPT ![t] = "done"]

\* "no healthy workers available"
NoWorker(t) ==
  /\ runner[t] = "pick" /\ HealthySlots = {}
  /\ Answer(t, "error") /\ Finish(t)
  /\ UNCHANGED <<clientVars, chosen, call, result, poolVars, connVars, procVars>>

\* The context with the timeout is made and the goroutine in execute started
PickWorker(t) ==
  /\ runner[t] = "pick" /\ HealthySlots # {}
  /\ chosen' = [chosen EXCEPT ![t] = workers[BestSlot]]
  /\ runner' = [runner EXCEPT ![t] = "select"]
  /\ call' = [call EXCEPT ![t] = "lock"]
  /\ UNCHANGED <<clientVars, box, result, poolVars, connVars, procVars>>

TakeResult(t) ==
  /\ runner[t] = "select" /\ result[t] # "none"
  /\ Answer(t, result[t]) /\ Finish(t)
  /\ UNCHANGED <<clientVars, chosen, call, result, poolVars, connVars, procVars>>

\* Faulty variant: goes on selecting after the timeout
TimeoutAndStay(t) ==
  /\ runner[t] = "select"
  /\ healthy' = healthy \ {chosen[t]}
  /\ Answer(t, "error")
  /\ UNCHANGED <<clientVars, runner, chosen, call, result, poolVars, count, mu, broken, procVars>>

\* ctx.Done, perhaps with the result there: the worker is marked, whether or not it
\* is this task that keeps it busy
Timeout(t) ==
  /\ runner[t] = "select"
  /\ healthy' = healthy \ {chosen[t]}
  /\ Answer(t, "error") /\ Finish(t)
  /\ UNCHANGED <<clientVars, chosen, call, result, poolVars, count, mu, broken, procVars>>

ExecuteTask(t) == NoWorker(t) \/ PickWorker(t) \/ TakeResult(t) \/ Timeout(t)

-----------------------------------------------------------------------------
(* BunWorker.execute, in a goroutine that outlives executeTask after a timeout *)

\* w.mu.Lock, taskCount+1
LockWorker(t) ==
  LET w == chosen[t] IN
  /\ call[t] = "lock" /\ mu[w] = "free"
  /\ mu' = [mu EXCEPT ![w] = t]
  /\ count' = [count EXCEPT ![w] = @ + 1]
  /\ call' = [call EXCEPT ![t] = "encode"]
  /\ UNCHANGED <<clientVars, box, runner, chosen, result, poolVars, healthy, broken, procVars>>

\* Encode ends, and SetReadDeadline. The request of a crashed process may go nowhere; that
\* of a closed connection does not go. Encode has no deadline: a request that is larger
\* than the socket's buffer waits, under w.mu, for as long as the process does not read.
SendRequest(t) ==
  LET w == chosen[t] IN
  /\ call[t] = "encode" /\ proc[w] \notin Reaped
  /\ requests' = [requests EXCEPT ![w] = IF proc[w] = "up" THEN @ \cup {t} ELSE @]
  /\ call' = [call EXCEPT ![t] = "decode"]
  /\ UNCHANGED <<clientVars, box, runner, chosen, result, poolVars, connVars,
                 proc, replies, performed>>

\* The result of the goroutine, sent to the buffered resultChan
EndCall(t, r) ==
  /\ result' = [result EXCEPT ![t] = r]
  /\ call' = [call EXCEPT ![t] = "done"]
  /\ UNCHANGED <<clientVars, box, runner, chosen, poolVars>>

Unlock(w) == mu' = [mu EXCEPT ![w] = "free"] /\ UNCHANGED count

\* An error of Encode: the process is gone, perhaps while the request was written
SendFails(t) ==
  LET w == chosen[t] IN
  /\ call[t] = "encode" /\ proc[w] # "up"
  /\ EndCall(t, "error") /\ Unlock(w)
  /\ healthy' = healthy \ {w}
  /\ UNCHANGED <<broken, procVars>>

\* Decode returns the oldest answer, of a block that ran or that threw; whose answer it
\* is, is not looked at
DecodeReply(t) ==
  LET w == chosen[t] IN
  /\ call[t] = "decode" /\ w \notin broken /\ replies[w] # <<>>
  /\ \E r \in {Head(replies[w]), "error"} : EndCall(t, r)
  /\ Unlock(w)
  /\ replies' = [replies EXCEPT ![w] = Tail(@)]
  /\ UNCHANGED <<healthy, broken, proc, requests, performed>>

\* Faulty variant: no read deadline
NoDeadline == FALSE

\* The deadline SetReadDeadline set may be over at any moment
DeadlineOver == TRUE

\* Faulty variant: a decoder that recovers from a read timeout
ForgetError(w) == UNCHANGED broken

\* json.Decoder keeps its error
KeepError(w) == broken' = broken \cup {w}

\* EOF, the read deadline, or the decoder's old error
DecodeFails(t) ==
  LET w == chosen[t] IN
  /\ call[t] = "decode"
  /\ \/ w \in broken
     \/ DeadlineOver
     \/ replies[w] = <<>> /\ proc[w] # "up"
  /\ EndCall(t, "error") /\ Unlock(w)
  /\ KeepError(w)
  /\ healthy' = healthy \ {w}
  /\ UNCHANGED procVars

\* The steps of execute that wait for nobody but the holder of w.mu and the clock
OwnStep(t) == LockWorker(t) \/ SendFails(t) \/ DecodeReply(t) \/ DecodeFails(t)

Execute(t) == OwnStep(t) \/ SendRequest(t)

-----------------------------------------------------------------------------
(* The Bun process; the handlers of two requests run side by side *)

Perform(w, t) ==
  /\ proc[w] = "up" /\ t \in requests[w]
  /\ requests' = [requests EXCEPT ![w] = @ \ {t}]
  /\ replies' = [replies EXCEPT ![w] = Append(@, t)]
  /\ performed' = [performed EXCEPT ![t] = @ + 1]
  /\ UNCHANGED <<clientVars, taskVars, poolVars, connVars, proc>>

\* While it executes or is written to: one that crashes while it is idle is seen like one
\* that crashes on its next request. Nobody calls Wait, so ProcessState stays nil.
Crash(w) ==
  /\ proc[w] = "up"
  /\ requests[w] # {} \/ \E t \in Tasks : call[t] = "encode" /\ chosen[t] = w
  /\ proc' = [proc EXCEPT ![w] = "crashed"]
  /\ requests' = [requests EXCEPT ![w] = {}]
  /\ UNCHANGED <<clientVars, taskVars, poolVars, connVars, replies, performed>>

-----------------------------------------------------------------------------
(* BunWorker.shutdown and startWorker *)

\* w.mu.Lock, conn.Close, SIGTERM, Wait: exits by itself or is killed after 5 seconds
ShutdownWorker(w) ==
  /\ mu[w] = "free"
  /\ \E how \in (IF proc[w] \in Reaped THEN {proc[w]} ELSE Reaped) :
       proc' = [proc EXCEPT ![w] = how]
  /\ requests' = [requests EXCEPT ![w] = {}]
  /\ replies' = [replies EXCEPT ![w] = <<>>]
  /\ UNCHANGED performed

\* A new struct, connected to its process, and with its monitor (started by the caller)
StartWorker(n, newID) ==
  /\ started < MaxStarts /\ n = started + 1
  /\ started' = n
  /\ id' = [id EXCEPT ![n] = newID]
  /\ healthy' = healthy \cup {n}
  /\ proc' = [proc EXCEPT ![n] = "up"]
  /\ UNCHANGED <<count, mu, broken, requests, replies, performed>>

-----------------------------------------------------------------------------
(* monitorWorker and restartWorker *)

\* Faulty variant: only looks at the process
ExitedOnly(w) == proc[w] = "exited"

\* The two checks of a tick; ProcessState is set by Wait
NeedsRestart(w) == w \notin healthy \/ proc[w] = "exited"

\* A tick that finds the worker bad, and restartMu.Lock
BeginRestart(w) ==
  /\ monitor[w] = "watch" /\ NeedsRestart(w) /\ restartMu = "free"
  /\ healthy' = healthy \ {w}
  /\ restartMu' = "monitor"
  /\ monitor' = [monitor EXCEPT ![w] = "stop"]
  /\ UNCHANGED <<clientVars, taskVars, workers, size, started, id, scaler, victim, stop,
                 doomed, count, mu, broken, procVars>>

\* oldWorker.shutdown
StopOld(w) ==
  /\ monitor[w] = "stop"
  /\ ShutdownWorker(w)
  /\ monitor' = [monitor EXCEPT ![w] = "start"]
  /\ UNCHANGED <<clientVars, taskVars, workers, size, started, id, restartMu, scaler,
                 victim, stop, doomed, connVars>>

\* Faulty variant: adds the new worker without replacing the old one
ReplacedByAppending(w, n) == Append(workers, n)

\* p.workers with the worker that has w's id replaced by n, if there is one (only the
\* first, and PositionsAreIds says that ids are unique)
Replaced(w, n) ==
  [i \in DOMAIN workers |-> IF id[workers[i]] = id[w] THEN n ELSE workers[i]]

\* startWorker(oldWorker.id) and the write to the slice, restartMu.Unlock
StartNew(w) ==
  /\ monitor[w] = "start"
  /\ \E n \in Workers :
       /\ StartWorker(n, id[w])
       /\ workers' = Replaced(w, n)
       /\ monitor' = [monitor EXCEPT ![w] = "ended", ![n] = "watch"]
  /\ restartMu' = "free"
  /\ UNCHANGED <<clientVars, taskVars, size, scaler, victim, stop, doomed>>

\* The monitor ends all the same, and nobody tries again
RestartFails(w) ==
  /\ StartMayFail /\ monitor[w] = "start"
  /\ monitor' = [monitor EXCEPT ![w] = "ended"]
  /\ restartMu' = "free"
  /\ UNCHANGED <<clientVars, taskVars, workers, size, started, id, scaler, victim, stop,
                 doomed, connVars, procVars>>

MonitorEnds(w) ==
  /\ monitor[w] = "watch" /\ stop # "no"
  /\ monitor' = [monitor EXCEPT ![w] = "ended"]
  /\ UNCHANGED <<clientVars, taskVars, workers, size, started, id, restartMu, scaler,
                 victim, stop, doomed, connVars, procVars>>

Restart(w) == BeginRestart(w) \/ StopOld(w) \/ StartNew(w) \/ RestartFails(w)

-----------------------------------------------------------------------------
(* scaler *)

\* Reads the length of the queue and the size; nobody else changes the size
Tick ==
  /\ scaler = "tick"
  /\ \/ /\ Len(queue) > size * GrowFactor /\ size < MaxSize
        /\ scaler' = "up"
     \/ /\ Len(queue) <= size * GrowFactor \/ size >= MaxSize
        /\ Len(queue) < size \div ShrinkDivisor /\ size > MinSize
        /\ scaler' = "down"
  /\ UNCHANGED <<clientVars, taskVars, workers, size, started, id, monitor, restartMu,
                 victim, stop, doomed, connVars, procVars>>

\* scaleUp, under restartMu for as long as startWorker takes
ScaleUp ==
  /\ scaler = "up" /\ restartMu = "free"
  /\ \E n \in Workers :
       /\ StartWorker(n, size)
       /\ workers' = Append(workers, n)
       /\ monitor' = [monitor EXCEPT ![n] = "watch"]
  /\ size' = size + 1
  /\ scaler' = "tick"
  /\ UNCHANGED <<clientVars, taskVars, restartMu, victim, stop, doomed>>

ScaleUpFails ==
  /\ StartMayFail /\ scaler = "up" /\ restartMu = "free"
  /\ scaler' = "tick"
  /\ UNCHANGED <<clientVars, taskVars, workers, size, started, id, monitor, restartMu,
                 victim, stop, doomed, connVars, procVars>>

\* scaleDown takes the last worker out of the slice
ScaleDown ==
  /\ scaler = "down" /\ restartMu = "free"
  /\ victim' = workers[Len(workers)]
  /\ workers' = SubSeq(workers, 1, Len(workers) - 1)
  /\ restartMu' = "scaler"
  /\ scaler' = "stop"
  /\ UNCHANGED <<clientVars, taskVars, size, started, id, monitor, stop, doomed,
                 connVars, procVars>>

\* lastWorker.shutdown, currentSize-1; its monitor is not told
StopVictim ==
  /\ scaler = "stop"
  /\ ShutdownWorker(victim)
  /\ size' = size - 1
  /\ victim' = 0
  /\ restartMu' = "free"
  /\ scaler' = "tick"
  /\ UNCHANGED <<clientVars, taskVars, workers, started, id, monitor, stop, doomed, connVars>>

ScalerEnds ==
  /\ scaler = "tick" /\ stop # "no"
  /\ scaler' = "end"
  /\ UNCHANGED <<clientVars, taskVars, workers, size, started, id, monitor, restartMu,
                 victim, stop, doomed, connVars, procVars>>

Scale == Tick \/ ScaleUp \/ ScaleUpFails \/ ScaleDown \/ StopVictim

-----------------------------------------------------------------------------
(* Shutdown *)

\* close(shutdownChan), and the ticker is stopped
BeginShutdown ==
  /\ MayShutdown /\ stop = "no"
  /\ stop' = "wait"
  /\ UNCHANGED <<clientVars, taskVars, workers, size, started, id, monitor, restartMu,
                 scaler, victim, doomed, connVars, procVars>>

\* wg.Wait (the dispatcher, the scaler and executeTask, not the monitors), then the copy
CopyWorkers ==
  /\ stop = "wait" /\ ~dispatcher /\ scaler = "end"
  /\ \A t \in Tasks : runner[t] \in {"none", "done"}
  /\ stop' = "stop"
  /\ doomed' = workers
  /\ UNCHANGED <<clientVars, taskVars, workers, size, started, id, monitor, restartMu,
                 scaler, victim, connVars, procVars>>

StopNext ==
  /\ stop = "stop" /\ doomed # <<>>
  /\ ShutdownWorker(Head(doomed))
  /\ doomed' = Tail(doomed)
  /\ UNCHANGED <<clientVars, taskVars, workers, size, started, id, monitor, restartMu,
                 scaler, victim, stop, connVars>>

ShutdownDone ==
  /\ stop = "stop" /\ doomed = <<>>
  /\ stop' = "done"
  /\ UNCHANGED <<clientVars, taskVars, workers, size, started, id, monitor, restartMu,
                 scaler, victim, doomed, connVars, procVars>>

Shutdown == BeginShutdown \/ CopyWorkers \/ StopNext \/ ShutdownDone

-----------------------------------------------------------------------------
\* NewWorkerPool, when every startWorker succeeded
Init ==
  /\ client = [t \in Tasks |-> "sending"]
  /\ box = [t \in Tasks |-> "none"] /\ result = [t \in Tasks |-> "none"]
  /\ runner = [t \in Tasks |-> "none"] /\ call = [t \in Tasks |-> "none"]
  /\ chosen = [t \in Tasks |-> 0]
  /\ queue = <<>> /\ performed = [t \in Tasks |-> 0] /\ dispatcher = TRUE
  /\ workers = [i \in 1..MinSize |-> i]
  /\ size = MinSize /\ started = MinSize
  /\ id = [w \in Workers |-> IF w <= MinSize THEN w - 1 ELSE 0]
  /\ healthy = 1..MinSize /\ broken = {}
  /\ count = [w \in Workers |-> 0] /\ mu = [w \in Workers |-> "free"]
  /\ monitor = [w \in Workers |-> IF w <= MinSize THEN "watch" ELSE "none"]
  /\ proc = [w \in Workers |-> IF w <= MinSize THEN "up" ELSE "none"]
  /\ requests = [w \in Workers |-> {}] /\ replies = [w \in Workers |-> <<>>]
  /\ restartMu = "free" /\ scaler = "tick" /\ victim = 0
  /\ stop = "no" /\ doomed = <<>>

\* Everybody has left: the pool waits for the next caller
Quiet ==
  /\ \A t \in Tasks : client[t] = "gone"
  /\ UNCHANGED vars

Next ==
  \/ \E t \in Tasks : Submit(t) \/ ExecuteTask(t) \/ Execute(t)
  \/ Dispatch \/ DispatcherEnds
  \/ \E w \in Workers : \/ \E t \in Tasks : Perform(w, t)
                        \/ Crash(w) \/ Restart(w) \/ MonitorEnds(w)
  \/ Scale \/ ScalerEnds
  \/ Shutdown \/ Quiet

\* Goroutines that can run do, time passes and tickers tick. Nobody is bound to submit,
\* to give up or to call Shutdown, and a process may hang: it need not answer, and it need
\* not read, so that SendRequest has no fairness.
Fairness ==
  /\ \A t \in Tasks : /\ WF_vars(Receive(t)) /\ WF_vars(ExecuteTask(t)) /\ WF_vars(OwnStep(t))
  /\ WF_vars(Dispatch \/ DispatcherEnds) /\ WF_vars(Scale \/ ScalerEnds)
  /\ \A w \in Workers : WF_vars(Restart(w) \/ MonitorEnds(w))
  /\ WF_vars(CopyWorkers \/ StopNext \/ ShutdownDone)

Spec == Init /\ [][Next]_vars /\ Fairness

-----------------------------------------------------------------------------
(* Properties *)

\* Every variable keeps to the values of its field
TypeOK ==
  /\ client \in [Tasks -> {"sending", "waiting", "gone"}]
  /\ box \in [Tasks -> {"none", "error"} \cup Tasks]
  /\ result \in [Tasks -> {"none", "error"} \cup Tasks]
  /\ runner \in [Tasks -> {"none", "pick", "select", "done"}]
  /\ call \in [Tasks -> {"none", "lock", "encode", "decode", "done"}]
  /\ chosen \in [Tasks -> Workers \cup {0}]
  /\ queue \in Seq(Tasks) /\ Len(queue) <= QueueCap
  /\ performed \in [Tasks -> Nat] /\ dispatcher \in BOOLEAN
  /\ workers \in Seq(Workers) /\ doomed \in Seq(Workers) /\ victim \in Workers \cup {0}
  /\ size \in Nat /\ started \in MinSize..MaxStarts
  /\ id \in [Workers -> Nat] /\ count \in [Workers -> Nat]
  /\ healthy \subseteq Workers /\ broken \subseteq Workers
  /\ mu \in [Workers -> Tasks \cup {"free"}]
  /\ monitor \in [Workers -> {"none", "watch", "stop", "start", "ended"}]
  /\ restartMu \in {"free", "monitor", "scaler"}
  /\ scaler \in {"tick", "up", "down", "stop", "end"}
  /\ stop \in {"no", "wait", "stop", "done"}
  /\ proc \in [Workers -> {"none", "up", "crashed"} \cup Reaped]
  /\ requests \in [Workers -> SUBSET Tasks] /\ replies \in [Workers -> Seq(Tasks)]

\* No caller gets the data of another task, although a worker's answers are matched to
\* requests by their order alone and a late one may still be in the socket.
AnswerIsOwn == \A t \in Tasks : box[t] \in {"none", "error", t}

\* A worker's id is its index in p.workers and currentSize the length, whenever neither
\* scaleDown is half done: restartWorker finds its slot by the id and scaleUp takes the
\* size as a new id, so two workers would share a socket path otherwise.
PositionsAreIds ==
  /\ \A i \in DOMAIN workers : id[workers[i]] = i - 1
  /\ size = Len(workers) + (IF scaler = "stop" THEN 1 ELSE 0)

\* What a caller may count on is TaskService
Request(t) ==
  CASE client[t] = "sending" -> "new"
    [] client[t] = "waiting" -> "accepted"
    [] OTHER                 -> "over"

Service == INSTANCE TaskService WITH
  request <- [t \in Tasks |-> Request(t)], answer <- box, performed <- performed

\* The pool implements the abstract service: one answer at most and its own, one
\* performance at most, in spite of timeouts, crashes, restarts and scaling.
ImplementsTaskService == Service!Spec

\* A task that was queued is answered, also when its caller has left, and when its own
\* request, or that of the task before it on the same worker, is never read: unless
\* Shutdown ends the dispatcher first, which leaves it in the queue.
AcceptedIsAnswered ==
  \A t \in Tasks :
    client[t] = "waiting" ~> box[t] # "none" \/ (~dispatcher /\ runner[t] = "none")

\* No request stays for ever in Encode: every process reads what is written to it, or ends.
\* Nothing in the code sees to it.
RequestsAreRead == \A t \in Tasks : []<>(call[t] # "encode")

\* If requests are read, Shutdown returns, although it waits for goroutines and mutexes
\* that wait for processes which may never answer, and for callers in line behind them
\* (Shutdown, shutdown, restartWorker). Otherwise execute holds a mutex for ever.
ShutdownReturns == RequestsAreRead => []<>(stop \in {"no", "done"})

\* If requests are read, the pool does not keep a worker that is marked unhealthy: again
\* and again all its workers are healthy, unless it shuts down, also with another task in
\* line for the mutex of the worker that failed (monitorWorker, restartWorker).
UnhealthyIsReplaced ==
  RequestsAreRead => []<>(HealthySlots = DOMAIN workers \/ stop # "no")

-----------------------------------------------------------------------------
(* The invariant behind the proofs *)

Queued == {queue[i] : i \in 1..Len(queue)}

\* The slice, the scaler and the size agree, and no struct is used before it is started.
SlotsInv ==
  /\ MinSize <= size
  /\ scaler \in {"down", "stop"} => MinSize < size
  /\ \A i \in 1..Len(workers) : workers[i] <= started

\* A task goes from Submit to the queue to executeTask once, and its data has been
\* performed once.
TaskInv(t) ==
  /\ client[t] = "sending" => t \notin Queued /\ runner[t] = "none"
  /\ t \in Queued => runner[t] = "none"
  /\ runner[t] \in {"none", "pick"} => call[t] = "none"
  /\ call[t] # "none" => chosen[t] # 0
  /\ call[t] \in {"none", "lock", "encode"} => performed[t] = 0
  /\ call[t] \in {"encode", "decode"} => mu[chosen[t]] = t
  /\ runner[t] # "done" => box[t] = "none"
  /\ result[t] \in {"none", "error", t} /\ box[t] \in {"none", "error", t}
  /\ result[t] = t \/ box[t] = t => performed[t] = 1

\* As long as a worker's decoder has not met an error, what is in its process and its
\* socket belongs to the task whose execute holds the mutex; after that nothing is read.
WorkerInv(w) ==
  /\ \A t \in requests[w] :
       chosen[t] = w /\ call[t] \in {"decode", "done"} /\ performed[t] = 0
  /\ w \notin broken /\ mu[w] = "free" => requests[w] = {} /\ replies[w] = <<>>
  /\ w \notin broken /\ mu[w] # "free" =>
       /\ requests[w] \subseteq {mu[w]}
       /\ \/ replies[w] = <<>>
          \/ requests[w] = {} /\ replies[w] = <<mu[w]>> /\ performed[mu[w]] = 1

TasksInv   == \A t \in Tasks : TaskInv(t)
WorkersInv == \A w \in Workers : WorkerInv(w)

\* No task is queued twice.
QueueInv == \A i, j \in 1..Len(queue) : queue[i] = queue[j] => i = j

IInv ==
  TypeOK /\ PositionsAreIds /\ SlotsInv /\ QueueInv /\ TasksInv /\ WorkersInv
=============================================================================
