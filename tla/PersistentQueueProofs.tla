------------------------ MODULE PersistentQueueProofs ------------------------
(***************************************************************************)
(* Proofs about PersistentQueue, for any number of tasks, workers and      *)
(* retries: an object is worked on by one goroutine, and no row claims a   *)
(* success or an exhausted task that was not one.                          *)
(***************************************************************************)
EXTENDS PersistentQueue, SequenceFacts, FiniteSetTheorems, TLAPS

USE DEF InUse

LEMMA Constants ==
  /\ QueueCapacity \in Nat /\ MaxRetries \in Nat /\ NoObject \notin Objects
  /\ 0 \in 0..MaxRetries /\ 0 \in 0..(MaxRetries + 1)
  /\ NoArgs \in [status : Statuses, attempts : 0..(MaxRetries + 1)]
BY MemoryAssumption, OptionsAssumption, FS_CardinalityType
DEF QueueCapacity, NoArgs, Row, Statuses

-----------------------------------------------------------------------------
(* What the parts of the invariant are about *)

ObjectType == [task : Tasks \cup {0}, status : Statuses, attempts : 0..(MaxRetries + 1)]
ArgsType   == [status : Statuses, attempts : 0..(MaxRetries + 1)]

\* The parts that speak of objects and of the workers that hold them
MemoryInv == ExclusiveObject /\ ObjectsHonest /\ ArgsHonest /\ StatusInv

LEMMA UsedObjects ==
  ASSUME TypeOK
  PROVE  Queued \subseteq Objects /\ Held \ {NoObject} \subseteq Objects
<1>1. Queued \subseteq Objects
  BY DEF TypeOK, Queued
<1>2. Held \ {NoObject} \subseteq Objects
  BY DEF TypeOK, Held
<1>3. QED
  BY <1>1, <1>2

\* A struct in use is an object with a task.
LEMMA HeldType ==
  ASSUME TypeOK, ObjectsHonest, NEW w \in Workers, step[w] \notin {"select", "exited"}
  PROVE  /\ held[w] \in Objects /\ held[w] # NoObject
         /\ object[held[w]] \in ObjectType /\ object[held[w]].task \in Tasks
         /\ Honest(object[held[w]].task, object[held[w]])
<1>1. held[w] \in Objects /\ held[w] # NoObject
  BY Constants DEF TypeOK
<1>2. held[w] \in Held \ {NoObject}
  BY <1>1 DEF Held
<1>3. QED
  BY <1>1, <1>2 DEF TypeOK, ObjectsHonest, ObjectType

LEMMA PushNewObject ==
  ASSUME TypeOK, NEW t \in Tasks, NEW a \in 0..MaxRetries, PushNew(t, a)
  PROVE  \E o \in Objects :
           /\ o \notin Queued /\ o \notin Held
           /\ object' = [object EXCEPT ![o] = [task |-> t, status |-> "pending", attempts |-> a]]
           /\ pending' = Append(pending, o)
BY DEF PushNew, NewObject, Free

\* A new object in the channel disturbs nobody.
LEMMA PushNewKeeps ==
  ASSUME TypeOK, MemoryInv, NEW t \in Tasks, NEW a \in 0..MaxRetries, a <= failures[t],
         Room, PushNew(t, a), UNCHANGED <<step, held, args, succeeded, failures>>
  PROVE  /\ object' \in [Objects -> ObjectType]
         /\ pending' \in Seq(Objects) /\ Len(pending') <= QueueCapacity
         /\ MemoryInv'
<1>1. PICK o \in Objects :
        /\ o \notin Queued /\ o \notin Held
        /\ object' = [object EXCEPT ![o] = [task |-> t, status |-> "pending", attempts |-> a]]
        /\ pending' = Append(pending, o)
  BY PushNewObject
<1>2. /\ pending' \in Seq(Objects) /\ Len(pending') = Len(pending) + 1
      /\ Queued' = Queued \cup {o}
      /\ Distinct(pending) /\ o \notin Queued => Distinct(pending')
  <2>1. pending \in Seq(Objects)
    BY DEF TypeOK
  <2>2. /\ Append(pending, o) \in Seq(Objects) /\ Len(Append(pending, o)) = Len(pending) + 1
        /\ Elements(Append(pending, o)) = Elements(pending) \cup {o}
        /\ Distinct(pending) /\ o \notin Elements(pending) => Distinct(Append(pending, o))
    BY <2>1, AppendElements
  <2>3. Queued = Elements(pending) /\ Queued' = Elements(pending')
    BY DEF Queued, Elements
  <2>4. QED
    BY <1>1, <2>2, <2>3
<1>3. [task |-> t, status |-> "pending", attempts |-> a] \in ObjectType
  BY Constants DEF ObjectType, Statuses
<1>4. object' \in [Objects -> ObjectType] /\ object'[o] = [task |-> t, status |-> "pending", attempts |-> a]
  BY <1>1, <1>3 DEF TypeOK, ObjectType
<1>5. \A p \in Queued \cup Held : object'[p] = object[p]
  BY <1>1 DEF TypeOK
<1>6. Held' = Held
  BY DEF Held
<1>7. Len(pending') <= QueueCapacity
  BY <1>2, Constants DEF Room, TypeOK
<1>8. ExclusiveObject'
  BY <1>1, <1>2, <1>6 DEF MemoryInv, ExclusiveObject, Distinct, Owns, Held
<1>9. ObjectsHonest'
  <2> SUFFICES ASSUME NEW p \in Queued \cup {o} \cup (Held \ {NoObject})
               PROVE  (object[p].task \in Tasks /\ Honest(object[p].task, object[p]))'
    BY <1>2, <1>6 DEF ObjectsHonest
  <2>1. CASE p = o
    BY <1>4, <2>1, Constants DEF Honest
  <2>2. CASE p # o
    <3>1. p \in Queued \cup (Held \ {NoObject}) /\ object'[p] = object[p]
      BY <1>5, <2>2
    <3>2. object[p].task \in Tasks /\ Honest(object[p].task, object[p])
      BY <3>1 DEF MemoryInv, ObjectsHonest
    <3>3. QED
      BY <3>1, <3>2 DEF Honest
  <2>3. QED
    BY <2>1, <2>2
<1>10. ArgsHonest'
  BY <1>5 DEF MemoryInv, ArgsHonest, Honest, Held
<1>11. StatusInv'
  BY <1>2, <1>4, <1>5 DEF MemoryInv, StatusInv, Held
<1>12. QED
  BY <1>2, <1>4, <1>7, <1>8, <1>9, <1>10, <1>11 DEF MemoryInv

LEMMA InitIInv == Init => IInv
<1> SUFFICES ASSUME Init PROVE IInv
  OBVIOUS
<1> USE Constants
<1>1. Queued = {} /\ Held \subseteq {NoObject}
  BY DEF Init, Queued, Held
<1>2. TypeOK
  <2>1. \A t \in Tasks : row[t] = NoArgs /\ failures[t] = 0
    BY DEF Init, NoArgs
  <2>2. Garbage \in ObjectType /\ pending \in Seq(Objects) /\ Len(pending) = 0
    BY DEF Init, Garbage, ObjectType, Statuses
  <2>3. row \in [Tasks -> ArgsType] /\ args \in [Workers -> ArgsType]
    BY DEF Init, ArgsType, NoArgs
  <2>4. object \in [Objects -> ObjectType]
    BY <2>2 DEF Init
  <2>5. reboots \in 0..MaxReboots /\ failures \in [Tasks -> 0..(MaxRetries + 1)]
    BY OptionsAssumption DEF Init
  <2>6. /\ step \in [Workers -> {"select", "claim", "execute", "requeue", "trail", "finish", "exited"}]
        /\ held \in [Workers -> Objects \cup {NoObject}]
        /\ \A w \in Workers : held[w] = NoObject <=> step[w] \in {"select", "exited"}
        /\ enqueuer \in [Tasks -> {"new", "created", "returned"}]
    BY DEF Init
  <2>7. /\ batch \subseteq [task : Tasks, attempts : 0..MaxRetries] /\ succeeded \subseteq Tasks
        /\ poller \in {"new", "starting", "polling", "exited"} /\ ticker \in {"on", "left", "off"}
        /\ stopped \in BOOLEAN /\ cancelled \in BOOLEAN
    BY DEF Init
  <2>8. Len(pending) <= QueueCapacity
    BY <2>2
  <2>9. QED
    BY <2>2, <2>3, <2>4, <2>5, <2>6, <2>7, <2>8 DEF TypeOK, ArgsType, ObjectType
<1>3. ExclusiveObject
  BY <1>1 DEF Init, ExclusiveObject, Owns
<1>4. RowsHonest /\ BatchHonest /\ NotLaunched
  BY OptionsAssumption DEF Init, RowsHonest, BatchHonest, Honest, Row, NotLaunched
<1>5. ObjectsHonest /\ ArgsHonest /\ StatusInv
  BY <1>1 DEF Init, ObjectsHonest, ArgsHonest, StatusInv
<1>6. QED
  BY <1>2, <1>3, <1>4, <1>5 DEF IInv

-----------------------------------------------------------------------------
(* Callers, Start and the poller *)

LEMMA EnqueueKeeps ==
  ASSUME IInv, NEW t \in Tasks, CreateTask(t) \/ PushOrLeave(t)
  PROVE  IInv'
<1>1. CASE CreateTask(t)
  <2> USE <1>1 DEF CreateTask, IInv
  <2>1. Row("pending", 0) \in ArgsType /\ Honest(t, Row("pending", 0))
    BY OptionsAssumption DEF ArgsType, Statuses, Row, Honest, TypeOK
  <2>2. TypeOK'
    BY <2>1 DEF TypeOK, ArgsType, seenVars, workerVars, loadVars, endVars
  <2>3. RowsHonest'
    BY <2>1 DEF RowsHonest, Honest, TypeOK, seenVars
  <2>4. QED
    BY <2>2, <2>3 DEF BatchHonest, ObjectsHonest, ArgsHonest, StatusInv, NotLaunched, Honest,
       ExclusiveObject, Owns, Queued, Held, seenVars, workerVars, loadVars
<1>2. CASE PushOrLeave(t)
  <2> USE <1>2 DEF PushOrLeave, IInv, seenVars, workerVars, loadVars, endVars
  <2>1. /\ object' \in [Objects -> ObjectType] /\ pending' \in Seq(Objects)
        /\ Len(pending') <= QueueCapacity
        /\ MemoryInv'
    <3>1. CASE Room /\ PushNew(t, 0)
      BY <3>1, PushNewKeeps, Constants DEF MemoryInv, TypeOK
    <3>2. CASE UNCHANGED <<object, pending>>
      BY <3>2 DEF MemoryInv, TypeOK, ObjectType, ObjectsHonest, ArgsHonest, StatusInv, Honest,
         ExclusiveObject, Owns, Queued, Held
    <3>3. QED
      BY <3>1, <3>2
  <2>2. TypeOK'
    BY <2>1 DEF TypeOK, ObjectType
  <2>3. RowsHonest' /\ BatchHonest' /\ NotLaunched'
    BY DEF RowsHonest, BatchHonest, NotLaunched, Honest
  <2>4. QED
    BY <2>1, <2>2, <2>3 DEF MemoryInv
<1>3. QED
  BY <1>1, <1>2

\* A pending row gives the next object no more attempts than the task has failed.
LEMMA PendingRowsHonest ==
  ASSUME TypeOK, RowsHonest
  PROVE  /\ PendingRows \subseteq [task : Tasks, attempts : 0..MaxRetries]
         /\ \A r \in PendingRows : r.attempts <= failures[r.task]
<1>1. \A t \in Tasks : row[t].status = "pending" =>
        row[t].attempts \in 0..MaxRetries /\ row[t].attempts <= failures[t]
  BY OptionsAssumption DEF TypeOK, RowsHonest, Honest
<1>2. QED
  BY <1>1 DEF PendingRows, Loadable

LEMMA LoadKeeps ==
  ASSUME IInv, Start \/ Launch \/ Poll \/ PushLoaded \/ PollerExit
  PROVE  IInv'
<1> USE DEF IInv, seenVars, workerVars, loadVars, endVars
<1>1. CASE Start \/ Poll
  <2>1. TypeOK'
    BY <1>1, PendingRowsHonest DEF Start, Poll, TypeOK
  <2>2. BatchHonest' /\ NotLaunched'
    BY <1>1, PendingRowsHonest DEF Start, Poll, BatchHonest, NotLaunched
  <2>3. QED
    BY <1>1, <2>1, <2>2 DEF Start, Poll, RowsHonest, ObjectsHonest, ArgsHonest, StatusInv, Honest,
       ExclusiveObject, Owns, Queued, Held
<1>2. CASE Launch
  <2>1. \A w \in Workers : held[w] = NoObject /\ step'[w] = "select"
    BY <1>2 DEF Launch, NotLaunched, TypeOK
  <2>2. TypeOK'
    BY <1>2, <2>1 DEF Launch, TypeOK
  <2>3. ExclusiveObject'
    BY <1>2, <2>1 DEF Launch, ExclusiveObject, Owns, Queued
  <2>4. ObjectsHonest' /\ ArgsHonest' /\ StatusInv' /\ NotLaunched'
    BY <1>2, <2>1 DEF Launch, ObjectsHonest, ArgsHonest, StatusInv, NotLaunched, Honest, Queued, Held
  <2>5. QED
    BY <1>2, <2>2, <2>3, <2>4 DEF Launch, RowsHonest, BatchHonest, Honest
<1>3. CASE PushLoaded
  <2>1. PICK r \in batch :
          /\ batch' = batch \ {r}
          /\ IF Room THEN PushNew(r.task, r.attempts) ELSE UNCHANGED <<object, pending>>
    BY <1>3 DEF PushLoaded
  <2>2. r.task \in Tasks /\ r.attempts \in 0..MaxRetries /\ r.attempts <= failures[r.task]
    BY DEF TypeOK, BatchHonest
  <2>3. /\ object' \in [Objects -> ObjectType] /\ pending' \in Seq(Objects)
        /\ Len(pending') <= QueueCapacity
        /\ MemoryInv'
    <3>1. CASE Room
      BY <1>3, <2>1, <2>2, <3>1, PushNewKeeps DEF PushLoaded, MemoryInv
    <3>2. CASE ~Room
      BY <1>3, <2>1, <3>2 DEF PushLoaded, MemoryInv, TypeOK, ObjectType, ObjectsHonest, ArgsHonest,
         StatusInv, Honest, ExclusiveObject, Owns, Queued, Held
    <3>3. QED
      BY <3>1, <3>2
  <2>4. TypeOK'
    BY <1>3, <2>1, <2>3 DEF PushLoaded, TypeOK, ObjectType
  <2>5. RowsHonest' /\ BatchHonest' /\ NotLaunched'
    BY <1>3, <2>1 DEF PushLoaded, RowsHonest, BatchHonest, NotLaunched, Honest
  <2>6. QED
    BY <2>3, <2>4, <2>5 DEF MemoryInv
<1>4. CASE PollerExit
  <2>1. TypeOK' /\ NotLaunched'
    BY <1>4 DEF PollerExit, TypeOK, NotLaunched
  <2>2. QED
    BY <1>4, <2>1 DEF PollerExit, RowsHonest, BatchHonest, ObjectsHonest, ArgsHonest, StatusInv, Honest,
       ExclusiveObject, Owns, Queued, Held
<1>5. QED
  BY <1>1, <1>2, <1>3, <1>4

LEMMA EndKeeps ==
  ASSUME IInv, Stop \/ Cancel \/ Reboot \/ UNCHANGED vars
  PROVE  IInv'
<1> USE DEF IInv, seenVars, workerVars, loadVars, endVars
<1>1. CASE Stop \/ Cancel
  <2>1. TypeOK' /\ NotLaunched'
    BY <1>1 DEF Stop, Cancel, TypeOK, NotLaunched
  <2>2. QED
    BY <1>1, <2>1 DEF Stop, Cancel, RowsHonest, BatchHonest, ObjectsHonest, ArgsHonest, StatusInv,
       Honest, ExclusiveObject, Owns, Queued, Held
<1>2. CASE Reboot
  <2>1. Queued' = {} /\ Held' \subseteq {NoObject}
    BY <1>2 DEF Reboot, Queued, Held
  <2>2. /\ object' \in [Objects -> ObjectType] /\ args' \in [Workers -> ArgsType]
        /\ pending' \in Seq(Objects) /\ Len(pending') <= QueueCapacity
    BY <1>2, Constants DEF Reboot, Garbage, ObjectType, ArgsType, Statuses
  <2>3. TypeOK'
    <3>1. reboots' \in 0..MaxReboots
      BY <1>2, OptionsAssumption DEF Reboot, TypeOK
    <3>2. /\ enqueuer' \in [Tasks -> {"new", "created", "returned"}]
          /\ step' \in [Workers -> {"select", "claim", "execute", "requeue", "trail", "finish", "exited"}]
          /\ held' \in [Workers -> Objects \cup {NoObject}]
          /\ \A w \in Workers : held'[w] = NoObject <=> step'[w] \in {"select", "exited"}
      BY <1>2 DEF Reboot, TypeOK
    <3>3. /\ batch' \subseteq [task : Tasks, attempts : 0..MaxRetries]
          /\ poller' \in {"new", "starting", "polling", "exited"} /\ ticker' \in {"on", "left", "off"}
          /\ stopped' \in BOOLEAN /\ cancelled' \in BOOLEAN
          /\ UNCHANGED <<row, succeeded, failures>>
      BY <1>2 DEF Reboot
    <3>4. QED
      BY <2>2, <3>1, <3>2, <3>3 DEF TypeOK, ObjectType, ArgsType
  <2>4. ExclusiveObject' /\ ObjectsHonest' /\ ArgsHonest' /\ StatusInv'
    BY <1>2, <2>1 DEF Reboot, ExclusiveObject, Owns, ObjectsHonest, ArgsHonest, StatusInv
  <2>5. RowsHonest' /\ BatchHonest' /\ NotLaunched'
    BY <1>2 DEF Reboot, RowsHonest, BatchHonest, NotLaunched, Honest
  <2>6. QED
    BY <2>3, <2>4, <2>5
<1>3. CASE UNCHANGED vars
  <2>1. TypeOK' /\ NotLaunched'
    BY <1>3 DEF vars, TypeOK, NotLaunched
  <2>2. QED
    BY <1>3, <2>1 DEF vars, RowsHonest, BatchHonest, ObjectsHonest, ArgsHonest, StatusInv,
       Honest, ExclusiveObject, Owns, Queued, Held
<1>4. QED
  BY <1>1, <1>2, <1>3

-----------------------------------------------------------------------------
(* A worker *)

LEMMA TakeKeeps ==
  ASSUME IInv, NEW w \in Workers, Take(w)
  PROVE  IInv'
<1> USE DEF IInv, Take, Goto, seenVars, loadVars, endVars
<1> DEFINE o == Head(pending)
<1>1. /\ o \in Objects /\ pending' \in Seq(Objects) /\ Len(pending') = Len(pending) - 1
      /\ o \in Queued /\ Queued' \subseteq Queued
      /\ Distinct(pending') /\ o \notin Queued'
  <2>1. pending \in Seq(Objects) /\ pending # <<>> /\ pending' = Tail(pending) /\ Distinct(pending)
    BY DEF TypeOK, ExclusiveObject, Distinct
  <2>2. Queued = Elements(pending) /\ Queued' = Elements(pending')
    BY DEF Queued, Elements
  <2>3. QED
    BY <2>1, <2>2, TailElements
<1>2. /\ held' = [held EXCEPT ![w] = o] /\ object' = [object EXCEPT ![o].status = "running"]
      /\ args' = [args EXCEPT ![w] = Row("running", object[o].attempts)]
      /\ step' = [step EXCEPT ![w] = "claim"]
  OBVIOUS
<1>3. /\ object[o] \in ObjectType /\ object[o].task \in Tasks /\ object[o].status = "pending"
      /\ Honest(object[o].task, object[o])
  BY <1>1 DEF TypeOK, ObjectType, ObjectsHonest, StatusInv
<1>4. /\ object'[o] \in ObjectType /\ object'[o].task = object[o].task
      /\ object'[o].status = "running" /\ object'[o].attempts = object[o].attempts
      /\ \A p \in Objects \ {o} : object'[p] = object[p]
  <2>1. object'[o] = [object[o] EXCEPT !.status = "running"]
    BY <1>1, <1>2 DEF TypeOK
  <2>2. \A p \in Objects \ {o} : object'[p] = object[p]
    BY <1>1, <1>2 DEF TypeOK
  <2>3. QED
    BY <1>3, <2>1, <2>2 DEF ObjectType, Statuses
<1>5. Held' \subseteq Held \cup {o} /\ o # NoObject
  BY <1>1, <1>2, Constants DEF Held, TypeOK
<1>6. TypeOK'
  <2>1. object' \in [Objects -> ObjectType]
    BY <1>1, <1>2, <1>4 DEF TypeOK, ObjectType
  <2>2. Row("running", object[o].attempts) \in ArgsType
    BY <1>3 DEF ObjectType, ArgsType, Row, Statuses
  <2>3. Len(pending') <= QueueCapacity
    BY <1>1, Constants DEF TypeOK
  <2>4. \A v \in Workers : held'[v] = NoObject <=> step'[v] \in {"select", "exited"}
    BY <1>1, <1>2, Constants DEF TypeOK
  <2>5. /\ step' \in [Workers -> {"select", "claim", "execute", "requeue", "trail", "finish", "exited"}]
        /\ held' \in [Workers -> Objects \cup {NoObject}] /\ args' \in [Workers -> ArgsType]
    BY <1>1, <1>2, <2>2 DEF TypeOK, ArgsType
  <2>6. QED
    BY <1>1, <2>1, <2>3, <2>4, <2>5 DEF TypeOK, ObjectType, ArgsType
<1>7. ExclusiveObject'
  <2>1. ASSUME NEW v \in Workers, v # w, Owns(v)'
        PROVE  Owns(v) /\ held'[v] = held[v] /\ held[v] # o
    BY <1>1, <1>2, <2>1 DEF TypeOK, Owns, ExclusiveObject
  <2>2. held'[w] = o
    BY <1>2 DEF TypeOK
  <2>3. QED
    BY <1>1, <2>1, <2>2 DEF ExclusiveObject, Distinct
<1>8. ObjectsHonest'
  <2> SUFFICES ASSUME NEW p \in Queued \cup (Held \ {NoObject})
               PROVE  (object[p].task \in Tasks /\ Honest(object[p].task, object[p]))'
    BY <1>1, <1>5 DEF ObjectsHonest
  <2>1. p \in Objects /\ object[p].task \in Tasks /\ Honest(object[p].task, object[p])
    BY UsedObjects DEF ObjectsHonest
  <2>2. CASE p = o
    BY <1>3, <1>4, <2>2 DEF Honest
  <2>3. CASE p # o
    BY <1>4, <2>1, <2>3 DEF Honest
  <2>4. QED
    BY <2>2, <2>3
<1>9. ArgsHonest'
  <2> SUFFICES ASSUME NEW v \in Workers, held'[v] # NoObject
               PROVE  Honest(object[held[v]].task, args[v])'
    BY DEF ArgsHonest
  <2>1. CASE v = w
    BY <1>2, <1>3, <1>4, <2>1 DEF Honest, Row, TypeOK
  <2>2. CASE v # w
    BY <1>2, <1>4, <2>2 DEF Honest, ArgsHonest, TypeOK
  <2>3. QED
    BY <2>1, <2>2
<1>10. StatusInv'
  <2>1. ASSUME NEW v \in Workers, v # w, Owns(v)'
        PROVE  held'[v] = held[v] /\ step'[v] = step[v] /\ held[v] \in Objects \ {o}
    BY <1>1, <1>2, <2>1 DEF TypeOK, Owns, ExclusiveObject
  <2>2. \A p \in Queued' : object'[p] = object[p]
    BY <1>1, <1>4 DEF TypeOK, Queued
  <2>3. held'[w] = o /\ step'[w] = "claim"
    BY <1>2 DEF TypeOK
  <2>4. QED
    BY <1>1, <1>4, <2>1, <2>2, <2>3 DEF StatusInv, Owns
<1>11. RowsHonest' /\ BatchHonest' /\ NotLaunched'
  BY <1>2 DEF RowsHonest, BatchHonest, NotLaunched, Honest, TypeOK
<1>12. QED
  BY <1>6, <1>7, <1>8, <1>9, <1>10, <1>11

StepType == {"select", "claim", "execute", "requeue", "trail", "finish", "exited"}

\* UpdateTask writes what it was given, and that is honest.
LEMMA UpdateKeeps ==
  ASSUME IInv, NEW w \in Workers, step[w] \in {"claim", "finish"}, Update(w),
         UNCHANGED <<succeeded, failures>>
  PROVE  /\ row' \in [Tasks -> ArgsType] /\ args' = [args EXCEPT ![w] = NoArgs]
         /\ args' \in [Workers -> ArgsType]
         /\ RowsHonest'
<1> USE DEF IInv
<1>1. /\ object[held[w]].task \in Tasks /\ args[w] \in ArgsType
      /\ Honest(object[held[w]].task, args[w])
  BY HeldType DEF ArgsHonest, TypeOK, ArgsType
<1>2. args' = [args EXCEPT ![w] = NoArgs] /\ args' \in [Workers -> ArgsType]
  BY Constants DEF Update, TypeOK, ArgsType
<1>3. CASE row' = [row EXCEPT ![object[held[w]].task] = args[w]]
  <2>1. row' \in [Tasks -> ArgsType]
    BY <1>1, <1>3 DEF TypeOK, ArgsType
  <2>2. RowsHonest'
    BY <1>1, <1>3 DEF RowsHonest, Honest, TypeOK
  <2>3. QED
    BY <1>2, <2>1, <2>2
<1>4. CASE UNCHANGED row
  BY <1>2, <1>4 DEF RowsHonest, Honest, TypeOK, ArgsType
<1>5. QED
  BY <1>3, <1>4 DEF Update

LEMMA WriteRunningKeeps ==
  ASSUME IInv, NEW w \in Workers, WriteRunning(w)
  PROVE  IInv'
<1> USE DEF IInv, WriteRunning, Goto, seenVars, loadVars, endVars
<1>1. /\ row' \in [Tasks -> ArgsType] /\ args' = [args EXCEPT ![w] = NoArgs]
      /\ args' \in [Workers -> ArgsType]
      /\ RowsHonest'
  BY UpdateKeeps
<1>2. step[w] = "claim" /\ step' = [step EXCEPT ![w] = "execute"] /\ step' \in [Workers -> StepType]
  BY DEF TypeOK, StepType
<1>3. TypeOK'
  BY <1>1, <1>2 DEF TypeOK, ArgsType, StepType
<1>4. ExclusiveObject'
  BY <1>2 DEF ExclusiveObject, Owns, Queued, TypeOK
<1>5. ArgsHonest'
  <2> SUFFICES ASSUME NEW v \in Workers, held[v] # NoObject
               PROVE  Honest(object[held[v]].task, args[v])'
    BY DEF ArgsHonest
  <2>1. CASE v = w
    <3>1. object[held[w]].task \in Tasks /\ args'[w] = NoArgs
      BY <1>1, <1>2, HeldType DEF TypeOK
    <3>2. failures[object[held[w]].task] \in Nat
      BY <3>1, Constants DEF TypeOK
    <3>3. QED
      BY <2>1, <3>1, <3>2, Constants DEF Honest, NoArgs, Row
  <2>2. CASE v # w
    BY <1>1, <2>2 DEF ArgsHonest, Honest, TypeOK
  <2>3. QED
    BY <2>1, <2>2
<1>6. StatusInv' /\ ObjectsHonest'
  BY <1>2 DEF StatusInv, ObjectsHonest, Honest, Queued, Held, TypeOK
<1>7. BatchHonest' /\ NotLaunched'
  BY <1>2 DEF BatchHonest, NotLaunched, TypeOK
<1>8. QED
  BY <1>1, <1>3, <1>4, <1>5, <1>6, <1>7

\* An execution ends: its worker, the only one that may, gives the object a status and
\* attempts that the execution has made true.
LEMMA ResultKeeps ==
  ASSUME IInv, NEW w \in Workers, step[w] = "execute",
         NEW st \in Statuses, NEW n \in 0..(MaxRetries + 1), NEW next \in {"finish", "requeue"},
         next = "requeue" => st = "pending",
         object' = [object EXCEPT ![held[w]].status = st, ![held[w]].attempts = n],
         args' = [args EXCEPT ![w] = Row(st, n)] \/ args' = args,
         step' = [step EXCEPT ![w] = next],
         UNCHANGED <<row, pending, enqueuer, held, loadVars, endVars>>,
         succeeded' \in SUBSET Tasks, failures' \in [Tasks -> 0..(MaxRetries + 1)],
         succeeded \subseteq succeeded', \A t \in Tasks : failures[t] <= failures'[t],
         n <= failures'[object[held[w]].task],
         st = "completed" => object[held[w]].task \in succeeded',
         st = "failed" => failures'[object[held[w]].task] = MaxRetries + 1,
         st # "failed" => n <= MaxRetries
  PROVE  IInv'
<1> USE DEF IInv, loadVars, endVars
<1> DEFINE h == held[w]
<1>1. h \in Objects /\ object[h] \in ObjectType /\ object[h].task \in Tasks
  BY HeldType
<1>2. /\ object'[h] = [task |-> object[h].task, status |-> st, attempts |-> n]
      /\ \A p \in Objects \ {h} : object'[p] = object[p]
      /\ object' \in [Objects -> ObjectType]
  <2>1. object'[h] = [object[h] EXCEPT !.status = st, !.attempts = n]
    BY <1>1 DEF TypeOK
  <2>2. object'[h] = [task |-> object[h].task, status |-> st, attempts |-> n]
    BY <1>1, <2>1 DEF ObjectType
  <2>3. \A p \in Objects \ {h} : object'[p] = object[p]
    BY <1>1 DEF TypeOK
  <2>4. object'[h] \in ObjectType
    BY <1>1, <2>2 DEF ObjectType
  <2>5. object' = [p \in Objects |-> IF p = h THEN object'[h] ELSE object[p]]
    BY <1>1, <2>3 DEF TypeOK
  <2>6. QED
    BY <2>2, <2>3, <2>4, <2>5 DEF TypeOK, ObjectType
<1>3. args' \in [Workers -> ArgsType]
  <2>1. Row(st, n) \in ArgsType
    BY DEF Row, ArgsType
  <2>2. args \in [Workers -> ArgsType]
    BY DEF TypeOK, ArgsType
  <2>3. QED
    BY <2>1, <2>2
<1>4. TypeOK'
  BY <1>2, <1>3 DEF TypeOK, ObjectType, ArgsType
<1> HIDE DEF h
<1>f. \A t \in Tasks, a \in 0..(MaxRetries + 1) :
        /\ a <= failures[t] => a <= failures'[t]
        /\ failures[t] = MaxRetries + 1 => failures'[t] = MaxRetries + 1
        /\ t \in succeeded => t \in succeeded'
  <2> SUFFICES ASSUME NEW t \in Tasks, NEW a \in 0..(MaxRetries + 1)
               PROVE  /\ a <= failures[t] => a <= failures'[t]
                      /\ failures[t] = MaxRetries + 1 => failures'[t] = MaxRetries + 1
    OBVIOUS
  <2>1. failures[t] \in 0..(MaxRetries + 1) /\ failures'[t] \in 0..(MaxRetries + 1)
        /\ failures[t] <= failures'[t]
    BY DEF TypeOK
  <2>2. QED
    BY <2>1, Constants
<1>5. h \notin Queued /\ \A v \in Workers \ {w} : Owns(v) => held[v] # h
  BY DEF ExclusiveObject, Owns, h
<1>6. ExclusiveObject'
  BY DEF ExclusiveObject, Owns, Queued, TypeOK
<1>7. ObjectsHonest'
  <2> SUFFICES ASSUME NEW p \in Queued \cup (Held \ {NoObject})
               PROVE  (object[p].task \in Tasks /\ Honest(object[p].task, object[p]))'
    BY DEF ObjectsHonest, Queued, Held
  <2>1. p \in Objects /\ object[p].task \in Tasks /\ Honest(object[p].task, object[p])
    BY UsedObjects DEF ObjectsHonest
  <2>2. CASE p = h
    BY <1>1, <1>2, <2>2 DEF Honest, Row, h
  <2>3. CASE p # h
    <3>1. object'[p] = object[p] /\ object[p].attempts \in 0..(MaxRetries + 1)
      BY <1>2, <2>1, <2>3 DEF TypeOK
    <3>2. QED
      BY <1>f, <2>1, <3>1 DEF Honest
  <2>4. QED
    BY <2>2, <2>3
<1>8. ArgsHonest'
  <2> SUFFICES ASSUME NEW v \in Workers, held[v] # NoObject
               PROVE  Honest(object[held[v]].task, args[v])'
    BY DEF ArgsHonest
  <2>1. held[v] \in Objects /\ object[held[v]].task \in Tasks /\ object'[held[v]].task = object[held[v]].task
    <3>1. held[v] \in Held \ {NoObject}
      BY DEF Held
    <3>2. held[v] \in Objects /\ object[held[v]].task \in Tasks
      BY <3>1, UsedObjects DEF ObjectsHonest
    <3>3. QED
      BY <1>2, <3>2
  <2>2. CASE args'[v] = args[v]
    <3>1. Honest(object[held[v]].task, args[v]) /\ args[v].attempts \in 0..(MaxRetries + 1)
      BY DEF ArgsHonest, TypeOK
    <3>2. QED
      BY <1>f, <2>1, <2>2, <3>1 DEF Honest
  <2>3. CASE v = w /\ args'[w] = Row(st, n)
    BY <2>1, <2>3 DEF Honest, Row, h
  <2>4. QED
    BY <2>2, <2>3 DEF TypeOK
<1>9. StatusInv'
  <2>1. \A p \in Queued : object'[p] = object[p]
    BY <1>2, <1>5, UsedObjects
  <2>2. ASSUME NEW v \in Workers, v # w, Owns(v)
        PROVE  object'[held[v]] = object[held[v]]
    <3>1. held[v] \in Objects /\ held[v] # h
      BY <1>5, <2>2, HeldType DEF Owns
    <3>2. QED
      BY <1>2, <3>1
  <2>3. step'[w] = next /\ \A v \in Workers \ {w} : step'[v] = step[v]
    BY DEF TypeOK
  <2>4. \A p \in Queued' : object'[p].status = "pending"
    <3>1. Queued' = Queued
      BY DEF Queued
    <3>2. \A p \in Queued : object[p].status = "pending"
      BY DEF StatusInv
    <3>3. QED
      BY <2>1, <3>1, <3>2
  <2>5. ASSUME NEW v \in Workers
        PROVE  /\ step'[v] = "requeue" => object'[held[v]].status = "pending"
               /\ step'[v] \in {"claim", "execute"} => object'[held[v]].status = "running"
    <3>1. CASE v = w
      BY <1>1, <1>2, <2>3, <3>1 DEF h
    <3>2. CASE v # w
      BY <2>2, <2>3, <3>2 DEF StatusInv, Owns
    <3>3. QED
      BY <3>1, <3>2
  <2>6. QED
    BY <2>4, <2>5 DEF StatusInv
<1>10. RowsHonest'
  <2> SUFFICES ASSUME NEW t \in Tasks PROVE Honest(t, row[t])'
    BY DEF RowsHonest
  <2>1. Honest(t, row[t]) /\ row[t].attempts \in 0..(MaxRetries + 1)
    BY DEF RowsHonest, TypeOK
  <2>2. QED
    BY <1>f, <2>1 DEF Honest
<1>11. BatchHonest' /\ NotLaunched'
  <2>1. BatchHonest'
    BY <1>f DEF BatchHonest, TypeOK
  <2>2. NotLaunched'
    BY DEF NotLaunched, TypeOK
  <2>3. QED
    BY <2>1, <2>2
<1>12. QED
  BY <1>4, <1>6, <1>7, <1>8, <1>9, <1>10, <1>11

LEMMA ExecuteKeeps ==
  ASSUME IInv, NEW w \in Workers, ExecuteSucceeds(w) \/ ExecuteFails(w)
  PROVE  IInv'
<1> USE DEF IInv, Goto, seenVars, loadVars, endVars
<1> DEFINE h == held[w]
           t == object[held[w]].task
           a == object[held[w]].attempts
<1>1. step[w] = "execute"
  BY DEF ExecuteSucceeds, ExecuteFails
<1>2. /\ h \in Objects /\ t \in Tasks /\ a \in 0..MaxRetries /\ a <= failures[t]
      /\ failures[t] \in 0..(MaxRetries + 1)
  <2>1. /\ h \in Objects /\ t \in Tasks /\ Honest(t, object[h]) /\ object[h] \in ObjectType
        /\ object[h].status = "running"
    BY <1>1, HeldType DEF StatusInv
  <2>2. QED
    BY <2>1, Constants DEF Honest, ObjectType, TypeOK
<1>3. CASE ExecuteSucceeds(w)
  <2> USE <1>3 DEF ExecuteSucceeds, SetAndWrite
  <2>1. /\ "completed" \in Statuses /\ a \in 0..(MaxRetries + 1) /\ "finish" \in {"finish", "requeue"}
        /\ succeeded' = succeeded \cup {t} /\ failures' = failures
    BY <1>2, Constants DEF Statuses
  <2>2. a <= failures'[t] /\ t \in succeeded' /\ a <= MaxRetries
    BY <1>2, <2>1, Constants
  <2>3. /\ succeeded' \in SUBSET Tasks /\ failures' \in [Tasks -> 0..(MaxRetries + 1)]
        /\ succeeded \subseteq succeeded' /\ \A u \in Tasks : failures[u] <= failures'[u]
    BY <1>2, <2>1, Constants DEF TypeOK
  <2>4. object' = [object EXCEPT ![held[w]].status = "completed", ![held[w]].attempts = a]
    OBVIOUS
  <2>5. args' = [args EXCEPT ![w] = Row("completed", a)] /\ step' = [step EXCEPT ![w] = "finish"]
    OBVIOUS
  <2> HIDE DEF IInv
  <2>6. QED
    BY <1>1, <2>1, <2>2, <2>3, <2>4, <2>5, ResultKeeps
<1>4. CASE ExecuteFails(w)
  <2> DEFINE n == a + 1
  <2>1. /\ n \in 0..(MaxRetries + 1) /\ "failed" \in Statuses /\ "pending" \in Statuses
        /\ "finish" \in {"finish", "requeue"} /\ "requeue" \in {"finish", "requeue"}
    BY <1>2, Constants DEF Statuses
  <2>2. failures' = [failures EXCEPT ![t] = CapAt(MaxRetries + 1, @ + 1)] /\ succeeded' = succeeded
    BY <1>4 DEF ExecuteFails
  <2>3. /\ failures'[t] \in 0..(MaxRetries + 1) /\ n <= failures'[t] /\ failures[t] <= failures'[t]
        /\ \A u \in Tasks \ {t} : failures'[u] = failures[u]
    BY <1>2, <2>2, Constants DEF CapAt, TypeOK
  <2>4. /\ succeeded' \in SUBSET Tasks /\ failures' \in [Tasks -> 0..(MaxRetries + 1)]
        /\ succeeded \subseteq succeeded' /\ \A u \in Tasks : failures[u] <= failures'[u]
    BY <1>2, <2>2, <2>3, Constants DEF TypeOK
  <2>5. UNCHANGED <<row, pending, enqueuer, held, loadVars, endVars>>
    BY <1>4 DEF ExecuteFails
  <2>6. CASE GivesUp(n)
    <3>1. failures'[t] = MaxRetries + 1
      BY <2>1, <2>3, <2>6, Constants DEF GivesUp
    <3>2. object' = [object EXCEPT ![held[w]].status = "failed", ![held[w]].attempts = n]
      BY <1>4, <2>6 DEF ExecuteFails, SetAndWrite
    <3>3. args' = [args EXCEPT ![w] = Row("failed", n)] /\ step' = [step EXCEPT ![w] = "finish"]
      BY <1>4, <2>6 DEF ExecuteFails, SetAndWrite
    <3> HIDE DEF IInv, n
    <3>4. QED
      BY <1>1, <2>1, <2>3, <2>4, <2>5, <3>1, <3>2, <3>3, ResultKeeps
  <2>7. CASE ~GivesUp(n)
    <3>1. n <= MaxRetries
      BY <2>1, <2>7, Constants DEF GivesUp
    <3>2. object' = [object EXCEPT ![held[w]].status = "pending", ![held[w]].attempts = n]
      BY <1>4, <2>7 DEF ExecuteFails
    <3>3. args' = args /\ step' = [step EXCEPT ![w] = "requeue"]
      BY <1>4, <2>7 DEF ExecuteFails
    <3> HIDE DEF IInv, n
    <3>4. QED
      BY <1>1, <2>1, <2>3, <2>4, <2>5, <3>1, <3>2, <3>3, ResultKeeps
  <2>8. QED
    BY <2>6, <2>7
<1>5. QED
  BY <1>3, <1>4

\* The object goes back into the channel: its worker does not own it any more.
LEMMA RequeueKeeps ==
  ASSUME IInv, NEW w \in Workers, Requeue(w)
  PROVE  IInv'
<1> USE DEF IInv, Requeue, AfterSend, Goto, seenVars, loadVars, endVars
<1> DEFINE h == held[w]
<1>1. /\ h \in Objects /\ h \notin Queued /\ object[h].status = "pending" /\ object[h].task \in Tasks
      /\ h \in Held \ {NoObject}
  BY HeldType DEF ExclusiveObject, Owns, StatusInv, Held
<1>2. /\ pending' \in Seq(Objects) /\ Len(pending') = Len(pending) + 1
      /\ Queued' = Queued \cup {h} /\ Distinct(pending')
  <2>1. pending \in Seq(Objects) /\ Distinct(pending) /\ pending' = Append(pending, h)
    BY DEF TypeOK, ExclusiveObject, Distinct
  <2>2. Queued = Elements(pending) /\ Queued' = Elements(pending')
    BY DEF Queued, Elements
  <2>3. QED
    BY <1>1, <2>1, <2>2, AppendElements
<1>3. step' = [step EXCEPT ![w] = "trail"] /\ step' \in [Workers -> StepType]
  BY DEF TypeOK, StepType
<1>4. TypeOK'
  <2>1. Len(pending') <= QueueCapacity
    BY <1>2, Constants DEF Room, TypeOK
  <2>2. QED
    BY <1>2, <1>3, <2>1 DEF TypeOK, StepType
<1>5. ExclusiveObject'
  <2>1. ASSUME NEW v \in Workers, Owns(v)'
        PROVE  v # w /\ Owns(v) /\ held[v] # h
    BY <1>3, <2>1 DEF ExclusiveObject, Owns, TypeOK
  <2>2. QED
    BY <1>2, <2>1 DEF ExclusiveObject, Distinct
<1>6. ObjectsHonest' /\ ArgsHonest'
  <2>1. Queued' \cup (Held' \ {NoObject}) = Queued \cup (Held \ {NoObject})
    BY <1>1, <1>2 DEF Held
  <2>2. QED
    BY <2>1 DEF ObjectsHonest, ArgsHonest, Honest
<1>7. StatusInv'
  BY <1>1, <1>2, <1>3 DEF StatusInv, TypeOK
<1>8. RowsHonest' /\ BatchHonest' /\ NotLaunched'
  BY <1>3 DEF RowsHonest, BatchHonest, NotLaunched, Honest, TypeOK
<1>9. QED
  BY <1>4, <1>5, <1>6, <1>7, <1>8

\* A worker lets go of its object; nobody else loses one.
LEMMA DropKeeps ==
  ASSUME IInv, NEW w \in Workers, step[w] \in {"requeue", "finish"}, Drop(w),
         step' = [step EXCEPT ![w] = "select"],
         \A v \in Workers \ {w} : args'[v] = args[v], args' \in [Workers -> ArgsType],
         row' \in [Tasks -> ArgsType], RowsHonest',
         UNCHANGED <<pending, enqueuer, loadVars, endVars, seenVars>>
  PROVE  IInv'
<1> USE DEF IInv, seenVars, loadVars, endVars
<1> DEFINE h == held[w]
<1>1. h \in Objects /\ h # NoObject
  BY HeldType
<1>2. /\ held' = [held EXCEPT ![w] = NoObject] /\ held' \in [Workers -> Objects \cup {NoObject}]
      /\ step' \in [Workers -> StepType]
  BY DEF Drop, TypeOK, StepType
<1>3. /\ object' \in [Objects -> ObjectType]
      /\ \A p \in Objects \ {h} : object'[p] = object[p]
      /\ h \in Queued \/ (\E v \in Workers \ {w} : held[v] = h) => object' = object
  <2>1. object' = object \/ object' = [object EXCEPT ![h] = Garbage]
    BY DEF Drop
  <2>2. h \in Queued \/ (\E v \in Workers \ {w} : held[v] = h) => object' = object
    BY DEF Drop
  <2>3. Garbage \in ObjectType
    BY Constants DEF Garbage, ObjectType, Statuses
  <2>4. object \in [Objects -> ObjectType]
    BY DEF TypeOK, ObjectType
  <2>5. CASE object' = object
    BY <2>2, <2>4, <2>5
  <2>6. CASE object' = [object EXCEPT ![h] = Garbage]
    <3> HIDE DEF IInv, h
    <3>1. object' \in [Objects -> ObjectType]
      BY <1>1, <2>3, <2>4, <2>6
    <3>2. \A p \in Objects \ {h} : object'[p] = object[p]
      BY <1>1, <2>4, <2>6
    <3>3. QED
      BY <2>2, <3>1, <3>2
  <2>7. QED
    BY <2>1, <2>5, <2>6
<1>4. Queued' = Queued
  BY DEF Queued
<1>5. \A v \in Workers \ {w} : held'[v] = held[v] /\ step'[v] = step[v]
  BY <1>2 DEF TypeOK
<1>6. /\ \A p \in Queued : object'[p] = object[p]
      /\ \A v \in Workers \ {w} : held[v] # NoObject => object'[held[v]] = object[held[v]]
  <2>1. \A p \in Queued : object'[p] = object[p]
    BY <1>3, UsedObjects
  <2>2. ASSUME NEW v \in Workers \ {w}, held[v] # NoObject
        PROVE  object'[held[v]] = object[held[v]]
    <3>1. held[v] \in Objects
      BY <2>2 DEF TypeOK
    <3>2. QED
      BY <1>3, <3>1
  <2>3. QED
    BY <2>1, <2>2
<1>7. held'[w] = NoObject /\ step'[w] = "select"
  BY <1>2 DEF TypeOK
<1>8. TypeOK'
  <2>1. \A v \in Workers : held'[v] = NoObject <=> step'[v] \in {"select", "exited"}
    BY <1>5, <1>7 DEF TypeOK
  <2>2. QED
    BY <1>2, <1>3, <2>1 DEF TypeOK, ObjectType, ArgsType, StepType
<1>9. ExclusiveObject'
  BY <1>4, <1>5, <1>7 DEF ExclusiveObject, Owns
<1>10. ObjectsHonest'
  <2> SUFFICES ASSUME NEW p \in Queued' \cup (Held' \ {NoObject})
               PROVE  object'[p].task \in Tasks /\ Honest(object[p].task, object[p])'
    BY DEF ObjectsHonest
  <2>1. p \in Queued \/ \E v \in Workers \ {w} : held[v] = p /\ held[v] # NoObject
    BY <1>4, <1>5, <1>7 DEF Held
  <2>2. object'[p] = object[p] /\ p \in Queued \cup (Held \ {NoObject})
    BY <1>6, <2>1 DEF Held
  <2>3. object[p].task \in Tasks /\ Honest(object[p].task, object[p])
    BY <2>2 DEF ObjectsHonest
  <2>4. QED
    BY <2>2, <2>3 DEF Honest
<1>11. ArgsHonest'
  <2> SUFFICES ASSUME NEW v \in Workers, held'[v] # NoObject
               PROVE  Honest(object[held[v]].task, args[v])'
    BY DEF ArgsHonest
  <2>1. v # w /\ held'[v] = held[v] /\ object'[held[v]] = object[held[v]] /\ args'[v] = args[v]
    BY <1>5, <1>6, <1>7
  <2>2. Honest(object[held[v]].task, args[v])
    BY <2>1 DEF ArgsHonest
  <2>3. QED
    BY <2>1, <2>2 DEF Honest
<1>12. StatusInv'
  <2>1. ASSUME NEW v \in Workers, Owns(v)'
        PROVE  v # w /\ held'[v] = held[v] /\ step'[v] = step[v] /\ object'[held[v]] = object[held[v]]
    <3>1. v # w
      BY <1>7, <2>1 DEF Owns
    <3>2. step'[v] = step[v] /\ held'[v] = held[v] /\ held[v] # NoObject
      BY <1>5, <2>1, <3>1, HeldType DEF Owns
    <3>3. QED
      BY <1>6, <3>1, <3>2
  <2>2. QED
    BY <1>4, <1>6, <2>1 DEF StatusInv, Owns
<1>13. BatchHonest' /\ NotLaunched'
  BY <1>2 DEF BatchHonest, NotLaunched, TypeOK
<1>14. QED
  BY <1>8, <1>9, <1>10, <1>11, <1>12, <1>13

LEMMA LastStepsKeep ==
  ASSUME IInv, NEW w \in Workers, AbandonRetry(w) \/ WriteFinal(w) \/ WorkerExit(w)
  PROVE  IInv'
<1>1. CASE AbandonRetry(w)
  <2>1. /\ step[w] = "requeue" /\ Drop(w) /\ step' = [step EXCEPT ![w] = "select"]
        /\ args' = args /\ row' = row
        /\ UNCHANGED <<pending, enqueuer, loadVars, endVars, seenVars>>
    BY <1>1 DEF AbandonRetry, Goto
  <2>2. args' \in [Workers -> ArgsType] /\ row' \in [Tasks -> ArgsType]
    BY <2>1 DEF IInv, TypeOK, ArgsType
  <2>3. RowsHonest'
    BY <2>1 DEF IInv, RowsHonest, Honest, seenVars
  <2>4. QED
    BY <2>1, <2>2, <2>3, DropKeeps
<1>2. CASE WriteFinal(w)
  <2>1. /\ step[w] = "finish" /\ Update(w) /\ Drop(w) /\ step' = [step EXCEPT ![w] = "select"]
        /\ UNCHANGED <<pending, enqueuer, loadVars, endVars, seenVars>>
    BY <1>2 DEF WriteFinal, Goto
  <2>2. /\ row' \in [Tasks -> ArgsType] /\ args' = [args EXCEPT ![w] = NoArgs]
        /\ args' \in [Workers -> ArgsType] /\ RowsHonest'
    BY <2>1, UpdateKeeps DEF seenVars
  <2>3. \A v \in Workers \ {w} : args'[v] = args[v]
    BY <2>2 DEF IInv, TypeOK
  <2>4. QED
    BY <2>1, <2>2, <2>3, DropKeeps
<1>3. CASE WorkerExit(w)
  <2> USE <1>3 DEF WorkerExit, Goto, IInv, seenVars, loadVars, endVars
  <2>1. TypeOK'
    BY DEF TypeOK
  <2>2. ExclusiveObject' /\ StatusInv' /\ NotLaunched'
    BY DEF ExclusiveObject, Owns, Queued, StatusInv, NotLaunched, TypeOK
  <2>3. RowsHonest' /\ BatchHonest' /\ ObjectsHonest' /\ ArgsHonest'
    BY DEF RowsHonest, BatchHonest, ObjectsHonest, ArgsHonest, Honest, Queued, Held
  <2>4. QED
    BY <2>1, <2>2, <2>3
<1>4. QED
  BY <1>1, <1>2, <1>3

LEMMA TrailingUpdateKeeps ==
  ASSUME IInv, NEW w \in Workers, CallTrailingUpdate(w)
  PROVE  IInv'
<1> USE DEF IInv, CallTrailingUpdate, Goto, seenVars, loadVars, endVars
<1>1. /\ held[w] \in Objects /\ object[held[w]] \in ObjectType
      /\ Honest(object[held[w]].task, object[held[w]])
  BY HeldType
<1>2. /\ args' = [args EXCEPT ![w] = Row(object[held[w]].status, object[held[w]].attempts)]
      /\ args' \in [Workers -> ArgsType]
      /\ step' = [step EXCEPT ![w] = "finish"] /\ step' \in [Workers -> StepType]
  BY <1>1 DEF Row, ObjectType, ArgsType, StepType, TypeOK
<1>3. TypeOK'
  BY <1>2 DEF TypeOK, ArgsType, StepType
<1>4. ExclusiveObject' /\ StatusInv' /\ NotLaunched'
  BY <1>2 DEF ExclusiveObject, Owns, Queued, StatusInv, NotLaunched, TypeOK
<1>5. ArgsHonest'
  <2> SUFFICES ASSUME NEW v \in Workers, held[v] # NoObject
               PROVE  Honest(object[held[v]].task, args[v])'
    BY DEF ArgsHonest
  <2>1. CASE v = w
    <3>1. args'[w] = Row(object[held[w]].status, object[held[w]].attempts)
      BY <1>2 DEF TypeOK
    <3>2. QED
      BY <1>1, <2>1, <3>1 DEF Honest, Row
  <2>2. CASE v # w
    BY <1>2, <2>2 DEF ArgsHonest, Honest, TypeOK
  <2>3. QED
    BY <2>1, <2>2
<1>6. RowsHonest' /\ BatchHonest' /\ ObjectsHonest'
  BY DEF RowsHonest, BatchHonest, ObjectsHonest, Honest, Queued, Held
<1>7. QED
  BY <1>3, <1>4, <1>5, <1>6

-----------------------------------------------------------------------------
LEMMA NextIInv == IInv /\ [Next]_vars => IInv'
<1> SUFFICES ASSUME IInv, [Next]_vars PROVE IInv'
  OBVIOUS
<1>1. ASSUME NEW t \in Tasks, CreateTask(t) \/ PushOrLeave(t) PROVE IInv'
  BY <1>1, EnqueueKeeps
<1>2. CASE Load \/ Poll \/ PollerExit
  BY <1>2, LoadKeeps DEF Load
<1>3. ASSUME NEW w \in Workers, Worker(w) PROVE IInv'
  BY <1>3, TakeKeeps, WriteRunningKeeps, ExecuteKeeps, RequeueKeeps, LastStepsKeep,
     TrailingUpdateKeeps DEF Worker
<1>4. CASE Stop \/ Cancel \/ Reboot \/ Down \/ UNCHANGED vars
  BY <1>4, EndKeeps DEF Down
<1>5. QED
  BY <1>1, <1>2, <1>3, <1>4 DEF Next

THEOREM Invariance == Spec => []IInv
BY InitIInv, NextIInv, PTL DEF Spec

\* The types hold for any number of tasks and workers; the channel is never over its
\* capacity and a worker has an object exactly while it processes one.
THEOREM TypeCorrect == Spec => []TypeOK
<1>1. IInv => TypeOK
  BY DEF IInv
<1>2. QED
  BY <1>1, Invariance, PTL

\* Whatever duplicates, stale writes, failed writes and reboots there are, a row says
\* completed only of a task that was executed successfully, failed only of one that failed
\* MaxRetries + 1 times, and has no more attempts than executions that failed.
THEOREM RowsAreHonest == Spec => []RowsHonest
<1>1. IInv => RowsHonest
  BY DEF IInv
<1>2. QED
  BY <1>1, Invariance, PTL

\* No two workers ever work on the same Task struct.
THEOREM ObjectsAreExclusive == Spec => []ExclusiveObject
<1>1. IInv => ExclusiveObject
  BY DEF IInv
<1>2. QED
  BY <1>1, Invariance, PTL

-----------------------------------------------------------------------------
(* The queue implements TaskLedger *)

HIDE DEF InUse

Tasked  == {object[o].task : o \in InUse}
Batched == {r.task : r \in batch}

\* A step that is no call of Enqueue
Quiet ==
  \/ Ledger!Load \/ Ledger!Lose \/ UNCHANGED Ledger!vars
  \/ \E t \in Tasks : Ledger!Succeed(t) \/ Ledger!Fail(t) \/ Ledger!Write(t)

LEMMA InMemoryParts ==
  /\ InMemory = Tasked \cup Batched \cup Created
  /\ InMemory' = Tasked' \cup Batched' \cup Created'
BY DEF InMemory, Tasked, Batched

\* To lose structs and do nothing else is allowed, also when none is lost.
LEMMA LosesSome ==
  ASSUME UNCHANGED <<row, succeeded, failures>>, InMemory' \subseteq InMemory
  PROVE  Quiet
<1>1. InMemory' = InMemory \ (InMemory \ InMemory')
  OBVIOUS
<1>2. (InMemory \ InMemory') \in SUBSET InMemory
  OBVIOUS
<1>3. Ledger!Lose
  BY <1>1, <1>2 DEF Ledger!Lose
<1>4. QED
  BY <1>3 DEF Quiet

LEMMA SameStructs ==
  ASSUME UNCHANGED <<pending, held>>, \A o \in InUse : object'[o].task = object[o].task
  PROVE  InUse' = InUse /\ Tasked' = Tasked
<1>1. InUse' = InUse
  BY DEF InUse, Queued, Held
<1>2. QED
  BY <1>1 DEF Tasked

\* A task that was not submitted is not taken up by a step that submits none.
LEMMA UnsubmittedStays ==
  ASSUME Quiet, NEW t \in Tasks, row \in [Tasks -> ArgsType],
         row[t].status = "none", t \notin InMemory
  PROVE  row'[t].status = "none" /\ t \notin InMemory'
<1>1. CASE Ledger!Load
  BY <1>1 DEF Ledger!Load
<1>2. CASE Ledger!Lose \/ UNCHANGED Ledger!vars
  BY <1>2 DEF Ledger!Lose, Ledger!vars
<1>3. ASSUME NEW u \in Tasks, Ledger!Succeed(u) \/ Ledger!Fail(u)
      PROVE  row'[t].status = "none" /\ t \notin InMemory'
  BY <1>3 DEF Ledger!Succeed, Ledger!Fail
<1>4. ASSUME NEW u \in Tasks, Ledger!Write(u)
      PROVE  row'[t].status = "none" /\ t \notin InMemory'
  <2>1. u # t /\ InMemory' \subseteq InMemory
    BY <1>4 DEF Ledger!Write
  <2>2. row'[t] = row[t]
    BY <1>4, <2>1 DEF Ledger!Write
  <2>3. QED
    BY <2>1, <2>2
<1>5. QED
  BY <1>1, <1>2, <1>3, <1>4 DEF Quiet

\* What is left to show of every step but CreateTask
Faithful == Quiet /\ StatedInv' /\ \A t \in Tasks : enqueuer'[t] = "new" => enqueuer[t] = "new"

LEMMA FaithfulKeeps ==
  ASSUME IInv, LedgerInv, Faithful
  PROVE  LedgerInv' /\ [Ledger!Next]_(Ledger!vars)
<1>1. ASSUME NEW t \in Tasks, enqueuer'[t] = "new"
      PROVE  row'[t].status = "none" /\ t \notin InMemory'
  BY <1>1, UnsubmittedStays DEF Faithful, LedgerInv, UnsubmittedInv, IInv, TypeOK, ArgsType
<1>2. QED
  BY <1>1 DEF Faithful, LedgerInv, UnsubmittedInv, Quiet, Ledger!Next

LEMMA InitLedger == Init => LedgerInv /\ Ledger!Init
<1> SUFFICES ASSUME Init PROVE LedgerInv /\ Ledger!Init
  OBVIOUS
<1>1. InUse = {} /\ batch = {} /\ Created = {}
  BY DEF Init, InUse, Queued, Held, Created
<1>2. InMemory = {}
  BY <1>1 DEF InMemory
<1>3. Ledger!Init
  BY <1>2 DEF Init, Row, Ledger!Init
<1>4. UnsubmittedInv
  BY <1>2 DEF Init, Row, UnsubmittedInv
<1>5. StatedInv
  BY <1>1 DEF Init, StatedInv
<1>6. QED
  BY <1>3, <1>4, <1>5 DEF LedgerInv

\* CreateTask is the submission.
LEMMA CreateTaskSubmits ==
  ASSUME IInv, LedgerInv, NEW t \in Tasks, CreateTask(t)
  PROVE  LedgerInv' /\ Ledger!Submit(t)
<1> USE DEF CreateTask, workerVars, loadVars, seenVars, endVars
<1>1. InUse' = InUse /\ Tasked' = Tasked /\ Batched' = Batched
  BY SameStructs DEF Batched
<1>2. Created' = Created \cup {t}
  BY DEF Created, IInv, TypeOK
<1>3. InMemory' = InMemory \cup {t}
  BY <1>1, <1>2, InMemoryParts
<1>4. row[t].status = "none" /\ row' = [row EXCEPT ![t] = [status |-> "pending", attempts |-> 0]]
  BY DEF LedgerInv, UnsubmittedInv, Row
<1>5. Ledger!Submit(t)
  BY <1>3, <1>4 DEF Ledger!Submit
<1>6. UnsubmittedInv'
  <2> SUFFICES ASSUME NEW u \in Tasks, enqueuer'[u] = "new"
               PROVE  row'[u].status = "none" /\ u \notin InMemory'
    BY DEF UnsubmittedInv
  <2>1. u # t /\ enqueuer[u] = "new"
    BY DEF IInv, TypeOK
  <2>2. row'[u] = row[u]
    BY <1>4, <2>1 DEF IInv, TypeOK
  <2>3. QED
    BY <1>3, <2>1, <2>2 DEF LedgerInv, UnsubmittedInv
<1>7. StatedInv'
  BY <1>1 DEF LedgerInv, StatedInv
<1>8. QED
  BY <1>5, <1>6, <1>7 DEF LedgerInv

\* A struct that is made for a task in memory adds no task.
LEMMA PushNewAdds ==
  ASSUME TypeOK, NEW t \in Tasks, NEW a \in 0..MaxRetries, PushNew(t, a), UNCHANGED held,
         \A o \in InUse : object[o].status # "none"
  PROVE  /\ Tasked' \subseteq Tasked \cup {t}
         /\ \A o \in InUse' : object'[o].status # "none"
<1>1. PICK o \in Objects :
        /\ o \notin Queued /\ o \notin Held
        /\ object' = [object EXCEPT ![o] = [task |-> t, status |-> "pending", attempts |-> a]]
        /\ pending' = Append(pending, o)
  BY PushNewObject
<1>2. InUse' = InUse \cup {o}
  <2>1. pending \in Seq(Objects)
    BY DEF TypeOK
  <2>2. Elements(Append(pending, o)) = Elements(pending) \cup {o}
    BY <2>1, AppendElements
  <2>3. Queued = Elements(pending) /\ Queued' = Elements(pending') /\ Held' = Held
    BY DEF Queued, Elements, Held
  <2>4. o # NoObject
    BY Constants
  <2>5. QED
    BY <1>1, <2>2, <2>3, <2>4 DEF InUse
<1>3. InUse \subseteq Objects
  BY UsedObjects DEF InUse
<1>4. /\ object'[o].task = t /\ object'[o].status = "pending"
      /\ \A p \in InUse : object'[p] = object[p]
  BY <1>1, <1>3 DEF TypeOK, InUse
<1>5. QED
  BY <1>2, <1>4 DEF Tasked

LEMMA PushOrLeaveFaithful ==
  ASSUME IInv, LedgerInv, NEW t \in Tasks, PushOrLeave(t)
  PROVE  Faithful
<1> USE DEF PushOrLeave, workerVars, loadVars, seenVars, endVars
<1>1. t \in Created /\ Created' = Created \ {t}
  BY DEF Created, IInv, TypeOK
<1>2. \A o \in InUse : object[o].status # "none"
  BY DEF LedgerInv, StatedInv
<1>3. Tasked' \subseteq Tasked \cup {t} /\ \A o \in InUse' : object'[o].status # "none"
  <2>1. CASE PushNew(t, 0)
    BY <1>2, <2>1, PushNewAdds, Constants DEF IInv
  <2>2. CASE UNCHANGED <<object, pending>>
    BY <1>2, <2>2, SameStructs
  <2>3. QED
    BY <2>1, <2>2
<1>4. InMemory' \subseteq InMemory
  BY <1>1, <1>3, InMemoryParts DEF Batched
<1>5. Quiet
  BY <1>4, LosesSome
<1>6. StatedInv'
  BY <1>3 DEF LedgerInv, StatedInv
<1>7. \A u \in Tasks : enqueuer'[u] = "new" => enqueuer[u] = "new"
  BY DEF IInv, TypeOK
<1>8. QED
  BY <1>5, <1>6, <1>7 DEF Faithful

\* Start and the poller load pending rows, when nothing is left of the rows loaded before.
LEMMA LoadRowsFaithful ==
  ASSUME IInv, LedgerInv, Start \/ Poll
  PROVE  Faithful
<1> USE DEF Start, Poll, workerVars, loadVars, seenVars, endVars
<1> DEFINE S == {t \in Tasks : row[t].status = "pending"}
<1>1. batch = {} /\ batch' = PendingRows
  BY DEF LedgerInv, StatedInv
<1>2. Batched = {} /\ Batched' = S
  <2>1. PendingRows = {[task |-> t, attempts |-> row[t].attempts] : t \in S}
    BY DEF PendingRows, Loadable
  <2>2. \A r \in PendingRows : r.task \in S
    BY <2>1
  <2>3. ASSUME NEW t \in S PROVE \E r \in PendingRows : r.task = t
    <3>1. [task |-> t, attempts |-> row[t].attempts] \in PendingRows
      BY <2>1
    <3>2. QED
      BY <3>1
  <2>4. {r.task : r \in PendingRows} = S
    BY <2>2, <2>3
  <2>5. QED
    BY <1>1, <2>4 DEF Batched
<1>3. InUse' = InUse /\ Tasked' = Tasked /\ Created' = Created
  BY SameStructs DEF Created
<1>4. InMemory' = InMemory \cup S
  BY <1>2, <1>3, InMemoryParts
<1>5. Ledger!Load
  BY <1>4 DEF Ledger!Load
<1>6. StatedInv'
  BY <1>3 DEF LedgerInv, StatedInv
<1>7. QED
  BY <1>5, <1>6 DEF Faithful, Quiet

LEMMA PushLoadedFaithful ==
  ASSUME IInv, LedgerInv, PushLoaded
  PROVE  Faithful
<1> USE DEF PushLoaded, workerVars, loadVars, seenVars, endVars
<1>1. PICK r \in batch :
        /\ batch' = batch \ {r}
        /\ IF Room THEN PushNew(r.task, r.attempts) ELSE UNCHANGED <<object, pending>>
  OBVIOUS
<1>2. r.task \in Tasks /\ r.attempts \in 0..MaxRetries /\ r.task \in Batched
  BY DEF IInv, TypeOK, Batched
<1>3. \A o \in InUse : object[o].status # "none"
  BY DEF LedgerInv, StatedInv
<1>4. Tasked' \subseteq Tasked \cup {r.task} /\ \A o \in InUse' : object'[o].status # "none"
  <2>1. CASE PushNew(r.task, r.attempts)
    BY <1>2, <1>3, <2>1, PushNewAdds DEF IInv
  <2>2. CASE UNCHANGED <<object, pending>>
    BY <1>3, <2>2, SameStructs
  <2>3. QED
    BY <1>1, <2>1, <2>2
<1>5. Batched' \subseteq Batched /\ Created' = Created
  BY <1>1 DEF Batched, Created
<1>6. InMemory' \subseteq InMemory
  BY <1>2, <1>4, <1>5, InMemoryParts
<1>7. Quiet
  BY <1>6, LosesSome
<1>8. StatedInv'
  BY <1>1, <1>4 DEF LedgerInv, StatedInv
<1>9. QED
  BY <1>7, <1>8 DEF Faithful

\* Steps of the goroutines that touch no struct and no row
LEMMA AsideFaithful ==
  ASSUME IInv, LedgerInv, Launch \/ PollerExit \/ Stop \/ Cancel \/ UNCHANGED vars
  PROVE  Faithful
<1> USE DEF vars, workerVars, loadVars, seenVars, endVars
<1>1. UNCHANGED <<row, object, pending, enqueuer, held, args, batch, seenVars>>
  BY DEF Launch, PollerExit, Stop, Cancel
<1>2. InUse' = InUse /\ Tasked' = Tasked /\ Batched' = Batched /\ Created' = Created
  BY <1>1, SameStructs DEF Batched, Created
<1>3. Quiet
  BY <1>1, <1>2, InMemoryParts, LosesSome
<1>4. StatedInv'
  <2>1. poller' = "new" => poller = "new"
    BY DEF Launch, PollerExit, Stop, Cancel
  <2>2. \A w \in Workers : step'[w] \in {"claim", "finish"} => step[w] \in {"claim", "finish"}
    BY DEF Launch, PollerExit, Stop, Cancel
  <2>3. QED
    BY <1>1, <1>2, <2>1, <2>2 DEF LedgerInv, StatedInv
<1>5. QED
  BY <1>1, <1>3, <1>4 DEF Faithful

\* The end of the process loses every struct.
LEMMA RebootFaithful ==
  ASSUME IInv, LedgerInv, Reboot
  PROVE  Faithful
<1> USE DEF Reboot, seenVars
<1>1. InUse' = {} /\ batch' = {} /\ Created' = {}
  BY DEF InUse, Queued, Held, Created, IInv, TypeOK
<1>2. InMemory' = {}
  BY <1>1 DEF InMemory
<1>3. Quiet
  BY <1>2, LosesSome
<1>4. StatedInv'
  BY <1>1 DEF StatedInv
<1>5. \A t \in Tasks : enqueuer'[t] = "new" => enqueuer[t] = "new"
  BY DEF IInv, TypeOK
<1>6. QED
  BY <1>3, <1>4, <1>5 DEF Faithful

-----------------------------------------------------------------------------
(* The workers' part of it *)

\* A worker's struct is in use, and its task in memory.
LEMMA HeldInUse ==
  ASSUME IInv, NEW w \in Workers, step[w] \notin {"select", "exited"}
  PROVE  /\ held[w] \in InUse /\ held[w] \in Objects /\ object[held[w]] \in ObjectType
         /\ object[held[w]].task \in Tasks \cap InMemory
<1>1. /\ held[w] \in Objects /\ held[w] # NoObject /\ object[held[w]] \in ObjectType
      /\ object[held[w]].task \in Tasks
  BY HeldType DEF IInv
<1>2. held[w] \in InUse
  BY <1>1 DEF InUse, Held
<1>3. QED
  BY <1>1, <1>2 DEF InMemory

LEMMA TakeFaithful ==
  ASSUME IInv, LedgerInv, NEW w \in Workers, Take(w)
  PROVE  Faithful
<1> USE DEF Take, Goto, loadVars, seenVars, endVars
<1> DEFINE o == Head(pending)
<1>1. o \in Objects /\ o \in Queued /\ Queued' \subseteq Queued
  <2>1. pending \in Seq(Objects) /\ pending # <<>> /\ pending' = Tail(pending)
    BY DEF IInv, TypeOK
  <2>2. Queued = Elements(pending) /\ Queued' = Elements(pending')
    BY DEF Queued, Elements
  <2>3. QED
    BY <2>1, <2>2, TailElements
<1>2. /\ held' = [held EXCEPT ![w] = o] /\ object' = [object EXCEPT ![o].status = "running"]
      /\ args' = [args EXCEPT ![w] = Row("running", object[o].attempts)]
      /\ step' = [step EXCEPT ![w] = "claim"]
  OBVIOUS
<1>3. InUse' \subseteq InUse /\ InUse \subseteq Objects
  <2>1. Held' \subseteq Held \cup {o}
    BY <1>2 DEF Held, IInv, TypeOK
  <2>2. o # NoObject
    BY <1>1, Constants
  <2>3. QED
    BY <1>1, <2>1, <2>2, UsedObjects DEF InUse, IInv
<1>4. /\ object'[o] = [object[o] EXCEPT !.status = "running"]
      /\ \A p \in Objects \ {o} : object'[p] = object[p]
  BY <1>1, <1>2 DEF IInv, TypeOK
<1>5. \A p \in InUse : /\ object'[p].task = object[p].task
                       /\ object'[p].status # "none"
  <2>1. object[o] \in ObjectType
    BY <1>1 DEF IInv, TypeOK, ObjectType
  <2>2. object'[o].task = object[o].task /\ object'[o].status = "running"
    BY <1>4, <2>1 DEF ObjectType
  <2>3. QED
    BY <1>3, <1>4, <2>2 DEF LedgerInv, StatedInv
<1>6. Tasked' \subseteq Tasked /\ Batched' = Batched /\ Created' = Created
  BY <1>3, <1>5 DEF Tasked, Batched, Created
<1>7. Quiet
  BY <1>6, InMemoryParts, LosesSome
<1>8. StatedInv'
  BY <1>2, <1>3, <1>5 DEF LedgerInv, StatedInv, IInv, TypeOK, Row
<1>9. QED
  BY <1>7, <1>8 DEF Faithful

\* UpdateTask records what is true of a task in memory, or nothing.  The struct may be
\* dropped with it.
LEMMA UpdateWrites ==
  ASSUME IInv, LedgerInv, NEW w \in Workers, step[w] \in {"claim", "finish"}, Update(w),
         UNCHANGED <<succeeded, failures>>,
         InMemory' \in {InMemory, InMemory \ {object[held[w]].task}}
  PROVE  Quiet
<1> DEFINE t == object[held[w]].task
<1>1. CASE UNCHANGED row
  BY <1>1, LosesSome
<1>2. CASE row' = [row EXCEPT ![t] = args[w]]
  <2>1. t \in Tasks \cap InMemory /\ held[w] # NoObject
    BY HeldInUse, HeldType DEF IInv
  <2>2. args[w] \in Ledger!Records
    BY DEF LedgerInv, StatedInv, IInv, TypeOK, Statuses, Ledger!Records
  <2>3. Ledger!Earned(t, args[w])
    BY <2>1 DEF IInv, ArgsHonest, Honest, Ledger!Earned
  <2>4. Ledger!Write(t)
    BY <1>2, <2>1, <2>2, <2>3 DEF Ledger!Write
  <2>5. QED
    BY <2>1, <2>4 DEF Quiet
<1>3. QED
  BY <1>1, <1>2 DEF Update

LEMMA WriteRunningFaithful ==
  ASSUME IInv, LedgerInv, NEW w \in Workers, WriteRunning(w)
  PROVE  Faithful
<1> USE DEF WriteRunning, Goto, loadVars, seenVars, endVars
<1>1. InUse' = InUse /\ Tasked' = Tasked /\ Batched' = Batched /\ Created' = Created
  BY SameStructs DEF Batched, Created
<1>2. Quiet
  BY <1>1, InMemoryParts, UpdateWrites
<1>3. args' = [args EXCEPT ![w] = NoArgs] /\ step' = [step EXCEPT ![w] = "execute"]
  BY DEF Update
<1>4. StatedInv'
  BY <1>1, <1>3 DEF LedgerInv, StatedInv, IInv, TypeOK
<1>5. QED
  BY <1>2, <1>4 DEF Faithful

\* An execution ends in one of the worker's own structs: the task stays the same, and a
\* status is given.
LEMMA ResultStructs ==
  ASSUME IInv, LedgerInv, NEW w \in Workers, step[w] = "execute",
         NEW st \in Statuses \ {"none"}, NEW n \in 0..(MaxRetries + 1),
         object' = [object EXCEPT ![held[w]].status = st, ![held[w]].attempts = n],
         UNCHANGED <<pending, held>>
  PROVE  InUse' = InUse /\ Tasked' = Tasked /\ \A o \in InUse' : object'[o].status # "none"
<1> DEFINE h == held[w]
<1>1. h \in Objects /\ object[h] \in ObjectType /\ object \in [Objects -> ObjectType]
  BY HeldInUse DEF IInv, TypeOK, ObjectType
<1>2. /\ object'[h] = [object[h] EXCEPT !.status = st, !.attempts = n]
      /\ \A o \in Objects \ {h} : object'[o] = object[o]
  BY <1>1
<1>3. object'[h].task = object[h].task /\ object'[h].status = st
  BY <1>1, <1>2 DEF ObjectType
<1>4. InUse \subseteq Objects
  BY UsedObjects DEF InUse, IInv
<1>5. \A o \in InUse : object'[o].task = object[o].task
  BY <1>2, <1>3, <1>4
<1>6. InUse' = InUse /\ Tasked' = Tasked
  BY <1>5, SameStructs
<1>7. QED
  BY <1>2, <1>3, <1>4, <1>6 DEF LedgerInv, StatedInv

LEMMA ExecuteSucceedsFaithful ==
  ASSUME IInv, LedgerInv, NEW w \in Workers, ExecuteSucceeds(w)
  PROVE  Faithful
<1> USE DEF ExecuteSucceeds, SetAndWrite, Goto, loadVars, seenVars, endVars
<1> DEFINE t == object[held[w]].task
           a == object[held[w]].attempts
<1>1. t \in Tasks \cap InMemory /\ a \in 0..(MaxRetries + 1)
  BY HeldInUse DEF ObjectType
<1>2. InUse' = InUse /\ Tasked' = Tasked /\ \A o \in InUse' : object'[o].status # "none"
  <2>1. /\ step[w] = "execute" /\ "completed" \in Statuses \ {"none"}
        /\ object' = [object EXCEPT ![held[w]].status = "completed", ![held[w]].attempts = a]
        /\ UNCHANGED <<pending, held>>
    BY DEF Statuses
  <2>2. QED
    BY <1>1, <2>1, ResultStructs
<1>3. InMemory' = InMemory
  BY <1>2, InMemoryParts DEF Batched, Created
<1>4. Ledger!Succeed(t)
  BY <1>1, <1>3 DEF Ledger!Succeed
<1>5. StatedInv'
  <2>1. args'[w].status = "completed"
    BY DEF IInv, TypeOK, Row
  <2>2. \A v \in Workers \ {w} : args'[v] = args[v] /\ step'[v] = step[v]
    BY DEF IInv, TypeOK
  <2>3. QED
    BY <1>2, <2>1, <2>2 DEF LedgerInv, StatedInv
<1>6. QED
  BY <1>1, <1>4, <1>5 DEF Faithful, Quiet

\* A failure that is counted no more, as the count is at its limit, changes nothing.
LEMMA ExecuteFailsFaithful ==
  ASSUME IInv, LedgerInv, NEW w \in Workers, ExecuteFails(w)
  PROVE  Faithful
<1> USE DEF ExecuteFails, Goto, loadVars, seenVars, endVars
<1> DEFINE t == object[held[w]].task
           n == object[held[w]].attempts + 1
<1>1. /\ step[w] = "execute" /\ UNCHANGED <<row, pending, enqueuer, held, loadVars, succeeded>>
      /\ failures' = [failures EXCEPT ![t] = CapAt(MaxRetries + 1, @ + 1)]
  OBVIOUS
<1>2. /\ t \in Tasks \cap InMemory /\ n \in 0..(MaxRetries + 1)
      /\ failures[t] \in 0..(MaxRetries + 1)
  <2>1. object[held[w]] \in ObjectType /\ t \in Tasks \cap InMemory
    BY <1>1, HeldInUse
  <2>2. Honest(t, object[held[w]]) /\ object[held[w]].status = "running"
    BY <1>1, HeldType DEF IInv, StatusInv
  <2>3. QED
    BY <2>1, <2>2, Constants DEF Honest, ObjectType, IInv, TypeOK
<1>3. PICK st \in {"failed", "pending"} :
        /\ object' = [object EXCEPT ![held[w]].status = st, ![held[w]].attempts = n]
        /\ \/ args' = [args EXCEPT ![w] = Row(st, n)] /\ step' = [step EXCEPT ![w] = "finish"]
           \/ args' = args /\ step' = [step EXCEPT ![w] = "requeue"]
  BY DEF SetAndWrite
<1>4. InUse' = InUse /\ Tasked' = Tasked /\ \A o \in InUse' : object'[o].status # "none"
  <2>1. st \in Statuses \ {"none"}
    BY DEF Statuses
  <2> HIDE DEF n
  <2>2. QED
    BY <1>1, <1>2, <1>3, <2>1, ResultStructs
<1>5. InMemory' = InMemory
  BY <1>1, <1>4, InMemoryParts DEF Batched, Created
<1>6. Quiet
  <2>1. CASE failures[t] <= MaxRetries
    <3>1. CapAt(MaxRetries + 1, failures[t] + 1) = failures[t] + 1
      BY <1>2, <2>1, Constants DEF CapAt
    <3>2. failures' = [failures EXCEPT ![t] = @ + 1]
      BY <1>1, <3>1
    <3>3. Ledger!Fail(t)
      BY <1>1, <1>2, <1>5, <2>1, <3>2 DEF Ledger!Fail
    <3>4. QED
      BY <1>2, <3>3 DEF Quiet
  <2>2. CASE ~(failures[t] <= MaxRetries)
    <3>1. CapAt(MaxRetries + 1, failures[t] + 1) = failures[t]
      BY <1>2, <2>2, Constants DEF CapAt
    <3>2. failures' = failures
      BY <1>1, <3>1 DEF IInv, TypeOK
    <3>3. QED
      BY <1>1, <1>5, <3>2, LosesSome
  <2>3. QED
    BY <2>1, <2>2
<1>7. StatedInv'
  <2>1. (step'[w] = "finish" /\ args'[w].status = st) \/ step'[w] = "requeue"
    BY <1>3 DEF IInv, TypeOK, Row
  <2>2. \A v \in Workers \ {w} : args'[v] = args[v] /\ step'[v] = step[v]
    BY <1>3 DEF IInv, TypeOK
  <2>3. QED
    BY <1>1, <1>4, <2>1, <2>2 DEF LedgerInv, StatedInv
<1>8. QED
  BY <1>1, <1>6, <1>7 DEF Faithful

LEMMA RequeueFaithful ==
  ASSUME IInv, LedgerInv, NEW w \in Workers, Requeue(w)
  PROVE  Faithful
<1> USE DEF Requeue, AfterSend, Goto, loadVars, seenVars, endVars
<1>1. held[w] \in InUse /\ held[w] \in Objects
  BY HeldInUse
<1>2. Queued' = Queued \cup {held[w]}
  <2>1. pending \in Seq(Objects) /\ pending' = Append(pending, held[w])
    BY DEF IInv, TypeOK
  <2>2. Queued = Elements(pending) /\ Queued' = Elements(pending')
    BY DEF Queued, Elements
  <2>3. QED
    BY <1>1, <2>1, <2>2, AppendElements
<1>3. InUse' = InUse /\ Tasked' = Tasked /\ Batched' = Batched /\ Created' = Created
  <2>1. InUse' = InUse
    BY <1>1, <1>2 DEF InUse, Held
  <2>2. QED
    BY <2>1 DEF Tasked, Batched, Created
<1>4. Quiet
  BY <1>3, InMemoryParts, LosesSome
<1>5. StatedInv'
  BY <1>3 DEF LedgerInv, StatedInv, IInv, TypeOK
<1>6. QED
  BY <1>4, <1>5 DEF Faithful

LEMMA TrailingUpdateFaithful ==
  ASSUME IInv, LedgerInv, NEW w \in Workers, CallTrailingUpdate(w)
  PROVE  Faithful
<1> USE DEF CallTrailingUpdate, Goto, loadVars, seenVars, endVars
<1>1. InUse' = InUse /\ Tasked' = Tasked /\ Batched' = Batched /\ Created' = Created
  BY SameStructs DEF Batched, Created
<1>2. Quiet
  BY <1>1, InMemoryParts, LosesSome
<1>3. object[held[w]].status # "none"
  BY HeldInUse DEF LedgerInv, StatedInv
<1>4. /\ args' = [args EXCEPT ![w] = Row(object[held[w]].status, object[held[w]].attempts)]
      /\ step' = [step EXCEPT ![w] = "finish"]
  OBVIOUS
<1>5. StatedInv'
  BY <1>1, <1>3, <1>4 DEF LedgerInv, StatedInv, IInv, TypeOK, Row
<1>6. QED
  BY <1>2, <1>5 DEF Faithful

\* A worker that drops its struct takes at most its own task out of memory.
LEMMA DropLoses ==
  ASSUME IInv, LedgerInv, NEW w \in Workers, step[w] \in {"requeue", "finish"}, Drop(w),
         UNCHANGED <<pending, enqueuer, batch>>
  PROVE  /\ InMemory' \in {InMemory, InMemory \ {object[held[w]].task}}
         /\ \A o \in InUse' : object'[o].status # "none"
<1> DEFINE h == held[w]
           t == object[held[w]].task
<1>1. h \in InUse /\ h \in Objects
  BY HeldInUse
<1>2. held' = [held EXCEPT ![w] = NoObject]
  BY DEF Drop
<1>3. InUse' \subseteq InUse /\ InUse \ {h} \subseteq InUse' /\ InUse \subseteq Objects
  <2>1. Queued' = Queued /\ Held' \subseteq Held \cup {NoObject} /\ Held \ {h} \subseteq Held'
    BY <1>2 DEF Queued, Held, IInv, TypeOK
  <2>2. QED
    BY <2>1, UsedObjects DEF InUse, IInv
<1>4. \A o \in InUse' : object'[o] = object[o]
  <2>1. CASE object' = object
    BY <2>1
  <2>2. CASE /\ object' = [object EXCEPT ![h] = Garbage]
             /\ h \notin Queued /\ \A v \in Workers \ {w} : held[v] # h
    <3>1. h \notin InUse'
      <4>1. Queued' = Queued
        BY DEF Queued
      <4>2. h \notin Held' \ {NoObject}
        BY <1>1, <1>2, <2>2 DEF Held, IInv, TypeOK
      <4>3. QED
        BY <2>2, <4>1, <4>2 DEF InUse
    <3>2. \A o \in Objects \ {h} : object'[o] = object[o]
      BY <1>1, <2>2 DEF IInv, TypeOK
    <3>3. QED
      BY <1>3, <3>1, <3>2
  <2>3. QED
    BY <2>1, <2>2 DEF Drop
<1>5. Tasked' \subseteq Tasked /\ Tasked \ {t} \subseteq Tasked'
  BY <1>3, <1>4 DEF Tasked
<1>6. Batched' = Batched /\ Created' = Created
  BY DEF Batched, Created
<1>7. InMemory' \subseteq InMemory /\ InMemory \ {t} \subseteq InMemory'
  BY <1>5, <1>6, InMemoryParts
<1>8. InMemory' \in {InMemory, InMemory \ {t}}
  BY <1>7
<1>9. \A o \in InUse' : object'[o].status # "none"
  BY <1>3, <1>4 DEF LedgerInv, StatedInv
<1>10. QED
  BY <1>8, <1>9

LEMMA LastStepsFaithful ==
  ASSUME IInv, LedgerInv, NEW w \in Workers, AbandonRetry(w) \/ WriteFinal(w) \/ WorkerExit(w)
  PROVE  Faithful
<1> USE DEF Goto, loadVars, seenVars, endVars
<1>1. CASE AbandonRetry(w)
  <2> USE <1>1 DEF AbandonRetry
  <2>1. /\ InMemory' \in {InMemory, InMemory \ {object[held[w]].task}}
        /\ \A o \in InUse' : object'[o].status # "none"
    BY DropLoses
  <2>2. Quiet
    BY <2>1, LosesSome
  <2>3. StatedInv'
    BY <2>1 DEF LedgerInv, StatedInv, IInv, TypeOK
  <2>4. QED
    BY <2>2, <2>3 DEF Faithful
<1>2. CASE WriteFinal(w)
  <2> USE <1>2 DEF WriteFinal
  <2>1. /\ InMemory' \in {InMemory, InMemory \ {object[held[w]].task}}
        /\ \A o \in InUse' : object'[o].status # "none"
    BY DropLoses
  <2>2. Quiet
    BY <2>1, UpdateWrites
  <2>3. args' = [args EXCEPT ![w] = NoArgs] /\ step' = [step EXCEPT ![w] = "select"]
    BY DEF Update
  <2>4. StatedInv'
    BY <2>1, <2>3 DEF LedgerInv, StatedInv, IInv, TypeOK
  <2>5. QED
    BY <2>2, <2>4 DEF Faithful
<1>3. CASE WorkerExit(w)
  <2> USE <1>3 DEF WorkerExit
  <2>1. InUse' = InUse /\ Tasked' = Tasked /\ Batched' = Batched /\ Created' = Created
    BY SameStructs DEF Batched, Created
  <2>2. Quiet
    BY <2>1, InMemoryParts, LosesSome
  <2>3. StatedInv'
    BY <2>1 DEF LedgerInv, StatedInv, IInv, TypeOK
  <2>4. QED
    BY <2>2, <2>3 DEF Faithful
<1>4. QED
  BY <1>1, <1>2, <1>3

-----------------------------------------------------------------------------
LEMMA NextLedger ==
  ASSUME IInv, LedgerInv, [Next]_vars
  PROVE  LedgerInv' /\ [Ledger!Next]_(Ledger!vars)
<1>1. ASSUME NEW t \in Tasks, CreateTask(t)
      PROVE  LedgerInv' /\ [Ledger!Next]_(Ledger!vars)
  BY <1>1, CreateTaskSubmits DEF Ledger!Next
<1>2. ASSUME NEW t \in Tasks, PushOrLeave(t) PROVE Faithful
  BY <1>2, PushOrLeaveFaithful
<1>3. CASE Load \/ Poll \/ PollerExit \/ Stop \/ Cancel \/ Down \/ UNCHANGED vars
  BY <1>3, LoadRowsFaithful, PushLoadedFaithful, AsideFaithful, FaithfulKeeps DEF Load, Down
<1>4. CASE Reboot
  BY <1>4, RebootFaithful, FaithfulKeeps
<1>5. ASSUME NEW w \in Workers, Worker(w) PROVE Faithful
  BY <1>5, TakeFaithful, WriteRunningFaithful, ExecuteSucceedsFaithful, ExecuteFailsFaithful,
     RequeueFaithful, TrailingUpdateFaithful, LastStepsFaithful DEF Worker
<1>6. QED
  BY <1>1, <1>2, <1>3, <1>4, <1>5, FaithfulKeeps DEF Next

\* What the queue records and what it has in memory are as TaskLedger allows: whatever is
\* lost, loaded twice or written late, a row is only written for a task that is in memory,
\* with a status it has earned, and only pending rows are taken up again.
THEOREM Refinement == Spec => ImplementsLedger
<1>1. Spec => [](IInv /\ LedgerInv)
  BY InitIInv, NextIInv, InitLedger, NextLedger, PTL DEF Spec
<1>2. IInv /\ LedgerInv /\ [Next]_vars => [Ledger!Next]_(Ledger!vars)
  BY NextLedger
<1>3. QED
  BY <1>1, <1>2, InitLedger, PTL DEF Spec, ImplementsLedger, Ledger!Spec

\* A task of which no struct is left stays as its row says unless that is pending: what is
\* completed or failed is never executed again, and a row that says running, as it does when
\* the process dies or stops before a retry, says so for good.
THEOREM ForgottenIsFinal ==
  Spec => [][\A t \in Tasks :
               t \notin InMemory /\ row[t].status \notin {"none", "pending"}
                 => row'[t] = row[t] /\ t \notin InMemory']_vars
<1> DEFINE Final == \A t \in Tasks :
               t \notin InMemory /\ row[t].status \notin {"none", "pending"}
                 => row'[t] = row[t] /\ t \notin InMemory'
<1>1. Spec => [](IInv /\ LedgerInv)
  BY InitIInv, NextIInv, InitLedger, NextLedger, PTL DEF Spec
<1>2. ASSUME IInv, LedgerInv, [Next]_vars PROVE Final
  <2> SUFFICES ASSUME NEW t \in Tasks, t \notin InMemory, row[t].status \notin {"none", "pending"}
               PROVE  row'[t] = row[t] /\ t \notin InMemory'
    OBVIOUS
  <2>1. [Ledger!Next]_(Ledger!vars)
    BY <1>2, NextLedger
  <2>2. row \in [Tasks -> ArgsType]
    BY <1>2 DEF IInv, TypeOK, ArgsType
  <2>3. CASE Ledger!Load \/ Ledger!Lose \/ UNCHANGED Ledger!vars
    BY <2>3 DEF Ledger!Load, Ledger!Lose, Ledger!vars
  <2>4. ASSUME NEW u \in Tasks,
               Ledger!Submit(u) \/ Ledger!Succeed(u) \/ Ledger!Fail(u) \/ Ledger!Write(u)
        PROVE  row'[t] = row[t] /\ t \notin InMemory'
    BY <2>2, <2>4 DEF Ledger!Submit, Ledger!Succeed, Ledger!Fail, Ledger!Write
  <2>5. QED
    BY <2>1, <2>3, <2>4 DEF Ledger!Next
<1>3. QED
  BY <1>1, <1>2, PTL DEF Spec
=============================================================================
