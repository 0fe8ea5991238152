--------------------------- MODULE PersistentQueue ---------------------------
(***************************************************************************)
(* PersistentQueue (src/internal/engine/task_queue.go) over the tasks      *)
(* table.  Workers take *Task objects from a buffered channel; Enqueue,    *)
(* Start and the poller put them there.  A task's row and the objects read *)
(* from it go separate ways: the poller reads a row that is still pending  *)
(* while an object of it is queued already, and a worker that put an       *)
(* object back still writes the row from it.                               *)
(*                                                                         *)
(* A task is its number, in the order of CreatedAt; payload, timestamps    *)
(* and the error text are left out, and so is the LIMIT of 100 rows.       *)
(***************************************************************************)
EXTENDS Integers, Sequences, FiniteSets

CONSTANTS
  Tasks,            \* the tasks callers enqueue, numbered by CreatedAt
  Workers,          \* worker goroutines
  Objects,          \* bound: storage.Task structs alive at the same time
  MaxRetries,       \* Task.MaxRetries
  ExecutorMayFail,  \* may executor.Execute return an error?
  StorageMayFail,   \* may UpdateTask fail while its context is live?
  Endings,          \* which of "stop" and "cancel" may happen to a started queue
  MaxReboots        \* bound: how often the process dies and is started again

NoObject == "no object"

ASSUME TasksAssumption == Tasks \subseteq Nat /\ IsFiniteSet(Tasks)
ASSUME MemoryAssumption ==
  /\ IsFiniteSet(Workers) /\ IsFiniteSet(Objects) /\ NoObject \notin Objects
ASSUME OptionsAssumption ==
  /\ MaxRetries \in Nat /\ MaxReboots \in Nat
  /\ ExecutorMayFail \in BOOLEAN /\ StorageMayFail \in BOOLEAN
  /\ Endings \subseteq {"stop", "cancel"}

VARIABLES
  row,        \* the tasks table: [Tasks -> status and attempts]
  object,     \* memory: [Objects -> task, status and attempts]
  pending,    \* pq.pending: a sequence of objects
  enqueuer,   \* [Tasks -> step of the call of Enqueue for it]
  step,       \* [Workers -> step of the worker goroutine]
  held,       \* [Workers -> the object processTask was called with]
  args,       \* [Workers -> what its call of UpdateTask was given]
  poller,     \* Start, then the poller goroutine
  batch,      \* rows GetPendingTasks returned that are not pushed yet
  ticker,     \* pollTicker: "on", stopped with one tick "left", or "off"
  stopped,    \* stopChan is closed
  cancelled,  \* the context given to Start is done
  reboots

VARIABLES     \* what the executor has done, counted up to where it matters
  succeeded,  \* tasks a call of Execute returned nil for
  failures    \* [Tasks -> calls of Execute that failed, at most MaxRetries + 1]

loadVars   == <<poller, batch, ticker>>
endVars    == <<stopped, cancelled, reboots>>
seenVars   == <<succeeded, failures>>
workerVars == <<step, held, args>>
vars == <<row, object, pending, enqueuer, workerVars, loadVars, endVars, seenVars>>

Statuses == {"none", "pending", "running", "completed", "failed"}
Row(status, attempts) == [status |-> status, attempts |-> attempts]

-----------------------------------------------------------------------------
(* Channel and memory *)

QueueCapacity == 2 * Cardinality(Workers)
Room == Len(pending) < QueueCapacity

Queued == {pending[i] : i \in 1..Len(pending)}
Held   == {held[w] : w \in Workers}
Free   == Objects \ (Queued \cup Held)

\* The task of an object, its status and its attempts, in a struct of its own
NewObject(o, t, attempts) ==
  object' = [object EXCEPT ![o] = [task |-> t, status |-> "pending", attempts |-> attempts]]

\* A struct nobody points to any more
Garbage == [task |-> 0, status |-> "none", attempts |-> 0]

\* Whether the bound on structs leaves room for n more beside those that are due
Created == {t \in Tasks : enqueuer[t] = "created"}
MemoryFor(n) == Cardinality(Free) >= n + Cardinality(batch) + Cardinality(Created)

PushNew(t, attempts) ==
  \E o \in Free :
    /\ o = CHOOSE p \in Free : TRUE
    /\ NewObject(o, t, attempts)
    /\ pending' = Append(pending, o)

-----------------------------------------------------------------------------
(* Enqueue *)

CreateTask(t) ==
  /\ enqueuer[t] = "new" /\ MemoryFor(1)
  /\ row' = [row EXCEPT ![t] = Row("pending", 0)]
  /\ enqueuer' = [enqueuer EXCEPT ![t] = "created"]
  /\ UNCHANGED <<object, pending, workerVars, loadVars, endVars, seenVars>>

\* The select: the channel has room, or it has not, or the caller's context is done;
\* in the last two cases the row is there and waits for the poller
PushOrLeave(t) ==
  /\ enqueuer[t] = "created"
  /\ \/ Room /\ PushNew(t, 0)
     \/ UNCHANGED <<object, pending>>
  /\ enqueuer' = [enqueuer EXCEPT ![t] = "returned"]
  /\ UNCHANGED <<row, workerVars, loadVars, endVars, seenVars>>

-----------------------------------------------------------------------------
(* loadPendingTasks, called by Start and by the poller *)

\* Faulty variant: the wrong status is asked for
LoadableRunning(status) == status = "running"

\* WHERE status = 'pending' of GetPendingTasks
Loadable(status) == status = "pending"

PendingRows ==
  {[task |-> t, attempts |-> row[t].attempts] : t \in {u \in Tasks : Loadable(row[u].status)}}

Start ==
  /\ poller = "new" /\ ~cancelled
  /\ MemoryFor(Cardinality(PendingRows))
  /\ batch' = PendingRows
  /\ poller' = "starting"
  /\ UNCHANGED <<row, object, pending, enqueuer, workerVars, ticker, endVars, seenVars>>

\* The batch is in the channel as far as it went: Start spawns the goroutines
Launch ==
  /\ poller = "starting" /\ batch = {}
  /\ poller' = "polling"
  /\ step' = [w \in Workers |-> "select"]
  /\ UNCHANGED <<row, object, pending, enqueuer, held, args, batch, ticker, endVars, seenVars>>

Poll ==
  /\ poller = "polling" /\ batch = {}
  /\ ticker # "off" /\ ~cancelled
  /\ MemoryFor(Cardinality(PendingRows))
  /\ batch' = PendingRows
  /\ ticker' = IF ticker = "left" THEN "off" ELSE ticker
  /\ UNCHANGED <<row, object, pending, enqueuer, workerVars, poller, endVars, seenVars>>

\* The next row of the batch, oldest first; it is dropped when the channel is full
PushLoaded ==
  /\ \E r \in batch :
       /\ \A s \in batch : r.task <= s.task
       /\ batch' = batch \ {r}
       /\ IF Room THEN PushNew(r.task, r.attempts) ELSE UNCHANGED <<object, pending>>
  /\ UNCHANGED <<row, enqueuer, workerVars, poller, ticker, endVars, seenVars>>

PollerExit ==
  /\ poller = "polling" /\ batch = {}
  /\ stopped \/ cancelled
  /\ poller' = "exited"
  /\ UNCHANGED <<row, object, pending, enqueuer, workerVars, batch, ticker, endVars, seenVars>>

-----------------------------------------------------------------------------
(* A worker *)

Goto(w, s) == step' = [step EXCEPT ![w] = s]

\* The fields of the worker's object become status and attempts, and UpdateTask is
\* called with them
SetAndWrite(w, status, attempts) ==
  /\ object' = [object EXCEPT ![held[w]].status = status, ![held[w]].attempts = attempts]
  /\ args' = [args EXCEPT ![w] = Row(status, attempts)]

\* The worker's pointer is gone; so is the struct unless it is queued or another
\* worker has it
Drop(w) ==
  /\ held' = [held EXCEPT ![w] = NoObject]
  /\ object' =
       IF held[w] \in Queued \/ \E v \in Workers \ {w} : held[v] = held[w]
         THEN object
         ELSE [object EXCEPT ![held[w]] = Garbage]

\* The select takes a task; processTask sets it running and calls UpdateTask
Take(w) ==
  /\ step[w] = "select" /\ pending # <<>>
  /\ LET o == Head(pending) IN
       /\ held' = [held EXCEPT ![w] = o]
       /\ object' = [object EXCEPT ![o].status = "running"]
       /\ args' = [args EXCEPT ![w] = Row("running", object[o].attempts)]
  /\ pending' = Tail(pending)
  /\ Goto(w, "claim")
  /\ UNCHANGED <<row, enqueuer, loadVars, endVars, seenVars>>

NoArgs == Row("none", 0)

\* UpdateTask, whose error nobody looks at
Update(w) ==
  /\ \/ ~cancelled /\ row' = [row EXCEPT ![object[held[w]].task] = args[w]]
     \/ (cancelled \/ StorageMayFail) /\ UNCHANGED row
  /\ args' = [args EXCEPT ![w] = NoArgs]

WriteRunning(w) ==
  /\ step[w] = "claim"
  /\ Update(w)
  /\ Goto(w, "execute")
  /\ UNCHANGED <<object, pending, enqueuer, held, loadVars, endVars, seenVars>>

CapAt(limit, n) == IF n < limit THEN n ELSE limit

ExecuteSucceeds(w) ==
  /\ step[w] = "execute"
  /\ SetAndWrite(w, "completed", object[held[w]].attempts)
  /\ succeeded' = succeeded \cup {object[held[w]].task}
  /\ Goto(w, "finish")
  /\ UNCHANGED <<row, pending, enqueuer, held, loadVars, endVars, failures>>

\* Faulty variants: one retry more and one less
GivesUpLate(attempts)  == attempts > MaxRetries + 1
GivesUpEarly(attempts) == attempts >= MaxRetries

\* task.Attempts > task.MaxRetries
GivesUp(attempts) == attempts > MaxRetries

\* task.Attempts++, then failed for good or the pause before the next attempt
ExecuteFails(w) ==
  /\ step[w] = "execute"
  /\ ExecutorMayFail \/ cancelled
  /\ LET o == held[w]
         n == object[o].attempts + 1 IN
       /\ IF GivesUp(n)
            THEN SetAndWrite(w, "failed", n) /\ Goto(w, "finish")
            ELSE /\ object' = [object EXCEPT ![o].status = "pending", ![o].attempts = n]
                 /\ Goto(w, "requeue")
                 /\ UNCHANGED args
       /\ failures' = [failures EXCEPT ![object[o].task] = CapAt(MaxRetries + 1, @ + 1)]
  /\ UNCHANGED <<row, pending, enqueuer, held, loadVars, endVars, succeeded>>

\* Faulty variant: the select is in a loop nothing leaves
SendAgain == "requeue"

\* What follows the select
AfterSend == "trail"

\* The select after the pause: back into the channel, blocking while it is full ...
Requeue(w) ==
  /\ step[w] = "requeue" /\ Room
  /\ pending' = Append(pending, held[w])
  /\ Goto(w, AfterSend)
  /\ UNCHANGED <<row, object, enqueuer, held, args, loadVars, endVars, seenVars>>

\* Faulty variant: the pause listens to the context alone
OnlyCancelled == cancelled

\* What a blocked requeue gives up for
Ending == stopped \/ cancelled

\* ... or the queue ends: processTask returns and leaves the row running
AbandonRetry(w) ==
  /\ step[w] = "requeue" /\ Ending
  /\ Drop(w)
  /\ Goto(w, "select")
  /\ UNCHANGED <<row, pending, enqueuer, args, loadVars, endVars, seenVars>>

\* After the push, UpdateTask is called with whatever the object says by then: another
\* worker may have it already
CallTrailingUpdate(w) ==
  /\ step[w] = "trail"
  /\ args' = [args EXCEPT ![w] = Row(object[held[w]].status, object[held[w]].attempts)]
  /\ Goto(w, "finish")
  /\ UNCHANGED <<row, object, pending, enqueuer, held, loadVars, endVars, seenVars>>

WriteFinal(w) ==
  /\ step[w] = "finish"
  /\ Update(w)
  /\ Drop(w)
  /\ Goto(w, "select")
  /\ UNCHANGED <<pending, enqueuer, loadVars, endVars, seenVars>>

WorkerExit(w) ==
  /\ step[w] = "select" /\ (stopped \/ cancelled)
  /\ Goto(w, "exited")
  /\ UNCHANGED <<row, object, pending, enqueuer, held, args, loadVars, endVars, seenVars>>

Worker(w) ==
  \/ Take(w) \/ WriteRunning(w) \/ ExecuteSucceeds(w) \/ ExecuteFails(w)
  \/ Requeue(w) \/ AbandonRetry(w) \/ CallTrailingUpdate(w) \/ WriteFinal(w)
  \/ WorkerExit(w)

-----------------------------------------------------------------------------
(* The end of the queue and of the process *)

\* close(stopChan) and pollTicker.Stop(), which leaves a tick that fired before;
\* wg.Wait is AllExited
Stop ==
  /\ "stop" \in Endings /\ poller \in {"polling", "exited"} /\ ~stopped
  /\ stopped' = TRUE
  /\ ticker' \in {"left", "off"}
  /\ UNCHANGED <<row, object, pending, enqueuer, workerVars, poller, batch, cancelled,
                 reboots, seenVars>>

Cancel ==
  /\ "cancel" \in Endings /\ ~cancelled
  /\ cancelled' = TRUE
  /\ UNCHANGED <<row, object, pending, enqueuer, workerVars, loadVars, stopped, reboots,
                 seenVars>>

\* The process dies, orderly or not, and another is started: only the table is left.
\* Calls of Enqueue die with it.
Reboot ==
  /\ reboots < MaxReboots
  /\ reboots' = reboots + 1
  /\ object' = [o \in Objects |-> Garbage] /\ pending' = <<>>
  /\ enqueuer' = [t \in Tasks |-> IF enqueuer[t] = "created" THEN "returned" ELSE enqueuer[t]]
  /\ step' = [w \in Workers |-> "exited"]
  /\ held' = [w \in Workers |-> NoObject] /\ args' = [w \in Workers |-> NoArgs]
  /\ poller' = "new" /\ batch' = {} /\ ticker' = "on"
  /\ stopped' = FALSE /\ cancelled' = FALSE
  /\ UNCHANGED <<row, seenVars>>

AllExited == poller = "exited" /\ \A w \in Workers : step[w] = "exited"

\* Nothing is left to do once the queue is down or was cancelled before Start
Down ==
  /\ AllExited \/ (poller = "new" /\ cancelled)
  /\ UNCHANGED vars

-----------------------------------------------------------------------------
Init ==
  /\ row = [t \in Tasks |-> Row("none", 0)]
  /\ object = [o \in Objects |-> Garbage] /\ pending = <<>>
  /\ enqueuer = [t \in Tasks |-> "new"]
  /\ step = [w \in Workers |-> "exited"]
  /\ held = [w \in Workers |-> NoObject] /\ args = [w \in Workers |-> NoArgs]
  /\ poller = "new" /\ batch = {} /\ ticker = "on"
  /\ stopped = FALSE /\ cancelled = FALSE /\ reboots = 0
  /\ succeeded = {} /\ failures = [t \in Tasks |-> 0]

Load == Start \/ Launch \/ PushLoaded

Next ==
  \/ \E t \in Tasks : CreateTask(t) \/ PushOrLeave(t)
  \/ Load \/ Poll \/ PollerExit
  \/ \E w \in Workers : Worker(w)
  \/ Stop \/ Cancel \/ Reboot \/ Down

\* Goroutines are scheduled, Execute ends and the ticker ticks. Nobody is bound to
\* enqueue, to stop, or to reboot.
Fairness ==
  /\ \A t \in Tasks : WF_vars(PushOrLeave(t))
  /\ WF_vars(Load) /\ WF_vars(Poll) /\ WF_vars(PollerExit)
  /\ \A w \in Workers : WF_vars(Worker(w))

Spec == Init /\ [][Next]_vars /\ Fairness

-----------------------------------------------------------------------------
(* Properties *)

\* Types, and that a working worker has an object and an idle one has none
TypeOK ==
  /\ row \in [Tasks -> [status : Statuses, attempts : 0..(MaxRetries + 1)]]
  /\ object \in [Objects -> [task : Tasks \cup {0}, status : Statuses,
                             attempts : 0..(MaxRetries + 1)]]
  /\ pending \in Seq(Objects) /\ Len(pending) <= QueueCapacity
  /\ enqueuer \in [Tasks -> {"new", "created", "returned"}]
  /\ step \in [Workers -> {"select", "claim", "execute", "requeue", "trail", "finish", "exited"}]
  /\ held \in [Workers -> Objects \cup {NoObject}]
  /\ \A w \in Workers : held[w] = NoObject <=> step[w] \in {"select", "exited"}
  /\ args \in [Workers -> [status : Statuses, attempts : 0..(MaxRetries + 1)]]
  /\ poller \in {"new", "starting", "polling", "exited"}
  /\ batch \subseteq [task : Tasks, attempts : 0..MaxRetries]
  /\ ticker \in {"on", "left", "off"}
  /\ stopped \in BOOLEAN /\ cancelled \in BOOLEAN /\ reboots \in 0..MaxReboots
  /\ succeeded \subseteq Tasks
  /\ failures \in [Tasks -> 0..(MaxRetries + 1)]

\* What status and attempts may say of task t
Honest(t, r) ==
  /\ r.attempts <= failures[t]
  /\ r.status = "completed" => t \in succeeded
  /\ r.status = "failed" => failures[t] = MaxRetries + 1
  /\ r.status # "failed" => r.attempts <= MaxRetries

\* No row says more than happened: completed only of a task that was
\* executed with success, failed only of one that failed MaxRetries + 1 times, and no attempt that did
\* not fail.  Duplicates, stale writes and reboots may make it say less.
RowsHonest == \A t \in Tasks : Honest(t, row[t])

\* A Task struct is worked on by one goroutine: it is queued at most once, and neither
\* queued nor in another worker's hands while a worker may still write its fields.
Owns(w) == step[w] \in {"claim", "execute", "requeue"}
ExclusiveObject ==
  /\ \A i, j \in 1..Len(pending) : pending[i] = pending[j] => i = j
  /\ \A w \in Workers : Owns(w) =>
       /\ held[w] \notin Queued
       /\ \A v \in Workers \ {w} : Owns(v) => held[v] # held[w]

\* The structs in the channel or with a worker, and the tasks that these, Enqueue or
\* loadPendingTasks have one of
InUse    == Queued \cup (Held \ {NoObject})
InMemory == {object[o].task : o \in InUse} \cup {r.task : r \in batch} \cup Created

Ledger == INSTANCE TaskLedger WITH record <- row, inMemory <- InMemory

\* The queue implements TaskLedger: whatever is lost, loaded twice or written out of order,
\* rows are only written from structs and for work that was done, and a row with no struct
\* left changes only if it is pending and is loaded.
ImplementsLedger == Ledger!Spec

\* Stop returns: every worker and the poller end, also the workers that are blocked on
\* putting a task back into a full channel.
StopReturns == stopped ~> (AllExited \/ ~stopped)

\* As long as the queue is not ended, a task that is recorded as pending is taken up, also
\* when Enqueue found the channel full and when the process died in between.
PendingIsTakenUp ==
  \A t \in Tasks :
    row[t].status = "pending" ~> (row[t].status # "pending" \/ stopped \/ cancelled)

-----------------------------------------------------------------------------
(* The inductive invariant of PersistentQueueProofs *)

BatchHonest == \A r \in batch : r.attempts <= failures[r.task]

ObjectsHonest ==
  \A o \in InUse : object[o].task \in Tasks /\ Honest(object[o].task, object[o])

ArgsHonest ==
  \A w \in Workers : held[w] # NoObject => Honest(object[held[w]].task, args[w])

\* What is queued, or about to be, is pending; what is worked on is running
StatusInv ==
  /\ \A o \in Queued : object[o].status = "pending"
  /\ \A w \in Workers : step[w] = "requeue" => object[held[w]].status = "pending"
  /\ \A w \in Workers : step[w] \in {"claim", "execute"} => object[held[w]].status = "running"

\* The workers come with Launch
NotLaunched == poller \in {"new", "starting"} => \A w \in Workers : step[w] = "exited"

IInv ==
  /\ TypeOK /\ ExclusiveObject /\ NotLaunched
  /\ RowsHonest /\ BatchHonest /\ ObjectsHonest /\ ArgsHonest /\ StatusInv

\* What the refinement needs besides.  A call of Enqueue to come has no row and no struct.
UnsubmittedInv ==
  \A t \in Tasks : enqueuer[t] = "new" => row[t].status = "none" /\ t \notin InMemory

\* Nothing is loaded before Start, and nothing in use, or about to be written, is without a
\* status.
StatedInv ==
  /\ poller = "new" => batch = {}
  /\ \A o \in InUse : object[o].status # "none"
  /\ \A w \in Workers : step[w] \in {"claim", "finish"} => args[w].status # "none"

LedgerInv == UnsubmittedInv /\ StatedInv

-----------------------------------------------------------------------------
(* What the tests say, and the code does not do *)

\* TestPersistentQueue_EnqueueAndProcess and ConcurrentEnqueue expect of executions that
\* succeed that there is one of them for a task: none is begun after one succeeded.
ExecutedOnce ==
  \A w \in Workers : step[w] = "execute" => object[held[w]].task \notin succeeded

\* TestPersistentQueue_MaxRetriesExceeded expects of a queue nobody stops that a task
\* which keeps failing ends up failed.
TasksSettle ==
  \A t \in Tasks : row[t].status = "pending" ~> row[t].status \in {"completed", "failed"}
=============================================================================
