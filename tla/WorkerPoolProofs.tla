-------------------------- MODULE WorkerPoolProofs --------------------------
(***************************************************************************)
(* Proofs about WorkerPool, for any number of tasks, any sizes and any     *)
(* number of restarts: an answer goes to its own task, ids are positions,  *)
(* and the pool implements TaskService.                                    *)
(***************************************************************************)
EXTENDS WorkerPool, SequenceFacts, SequenceTheorems, WellFoundedInduction, TLAPS

\* Every nonempty set of natural numbers has a least element.
LEMMA Least ==
  ASSUME NEW S, S \subseteq Nat, S # {}
  PROVE  \E x \in S : \A y \in S : x <= y
<1> DEFINE R == {p \in Nat \X Nat : p[1] < p[2]}
<1>1. R = OpToRel(<, Nat)
  BY DEF OpToRel
<1>2. IsWellFoundedOn(R, Nat)
  BY <1>1, NatLessThanWellFounded
<1>3. PICK x \in S : \A y \in S : <<y, x>> \notin R
  <2> HIDE DEF R
  <2>1. QED
    BY <1>2, WFMin
<1>4. ASSUME NEW y \in S PROVE x <= y
  <2>1. x \in Nat /\ y \in Nat /\ <<y, x>> \notin R
    BY <1>3
  <2>2. ~(y < x)
    BY <2>1
  <2>3. QED
    BY <2>1, <2>2
<1>5. QED
  BY <1>4

\* getHealthyWorker finds a worker of the slice when there is a healthy one.
LEMMA BestSlotFound ==
  ASSUME TypeOK, HealthySlots # {}
  PROVE  BestSlot \in DOMAIN workers /\ workers[BestSlot] \in Workers
<1> DEFINE Load(i) == count[workers[i]]
           Loads == {Load(i) : i \in HealthySlots}
<1>1. HealthySlots \subseteq Nat /\ \A i \in HealthySlots : workers[i] \in Workers /\ Load(i) \in Nat
  <2>1. DOMAIN workers = 1..Len(workers) /\ Len(workers) \in Nat
        /\ \A i \in 1..Len(workers) : workers[i] \in Workers
    BY DEF TypeOK
  <2>2. \A w \in Workers : count[w] \in Nat
    BY DEF TypeOK
  <2>3. QED
    BY <2>1, <2>2 DEF HealthySlots
<1>2. PICK c \in Loads : \A d \in Loads : c <= d
  <2>1. Loads \subseteq Nat /\ Loads # {}
    BY <1>1
  <2> HIDE DEF Loads
  <2>2. QED
    BY <2>1, Least
<1>3. PICK i \in {j \in HealthySlots : Load(j) = c} :
             \A j \in {k \in HealthySlots : Load(k) = c} : i <= j
  <2> DEFINE Lightest == {j \in HealthySlots : Load(j) = c}
  <2>1. Lightest \subseteq Nat /\ Lightest # {}
    BY <1>1, <1>2
  <2>2. \E i \in Lightest : \A j \in Lightest : i <= j
    <3> HIDE DEF Lightest
    <3>1. QED
      BY <2>1, Least
  <2>3. QED
    BY <2>2
<1>4. \A j \in HealthySlots : Load(i) < Load(j) \/ (Load(i) = Load(j) /\ i <= j)
  <2> SUFFICES ASSUME NEW j \in HealthySlots
               PROVE  Load(i) < Load(j) \/ (Load(i) = Load(j) /\ i <= j)
    OBVIOUS
  <2>1. Load(i) = c /\ c <= Load(j) /\ (Load(j) = c => i <= j)
    BY <1>2, <1>3
  <2>2. c \in Nat /\ Load(j) \in Nat
    BY <1>1, <1>3
  <2>3. QED
    BY <2>1, <2>2
<1>5. BestSlot \in HealthySlots
  BY <1>4 DEF BestSlot
<1>6. QED
  BY <1>1, <1>5 DEF HealthySlots

-----------------------------------------------------------------------------
(* What an action leaves alone keeps its part of the invariant *)

slotVars == <<workers, size, started, id, scaler>>

LEMMA SlotsUntouched ==
  ASSUME TypeOK, PositionsAreIds, SlotsInv, UNCHANGED slotVars
  PROVE  PositionsAreIds' /\ SlotsInv'
BY DEF PositionsAreIds, SlotsInv, slotVars

LEMMA TasksUntouched ==
  ASSUME TasksInv, UNCHANGED <<client, queue, taskVars, mu, performed>>
  PROVE  TasksInv' /\ (QueueInv => QueueInv')
BY DEF TasksInv, TaskInv, Queued, taskVars, QueueInv

LEMMA WorkersUntouched ==
  ASSUME WorkersInv, UNCHANGED <<requests, replies, mu, broken, chosen, call, performed>>
  PROVE  WorkersInv'
BY DEF WorkersInv, WorkerInv

\* The queue in terms of SequenceFacts
LEMMA QueueFacts == Queued = Elements(queue) /\ (QueueInv <=> Distinct(queue))
BY DEF Queued, Elements, QueueInv, Distinct

-----------------------------------------------------------------------------
LEMMA InitIInv == Init => IInv
<1> SUFFICES ASSUME Init PROVE IInv
  OBVIOUS
<1>1. TypeOK
  <2>1. workers \in Seq(Workers) /\ Len(workers) = MinSize /\ DOMAIN workers = 1..MinSize
    BY SizesAssumption, IsASeq DEF Init, Workers
  <2>2. QED
    BY <2>1, SizesAssumption DEF Init, TypeOK, Workers, Reaped
<1>2. PositionsAreIds /\ SlotsInv
  BY SizesAssumption DEF Init, PositionsAreIds, SlotsInv, Workers
<1>3. Queued = {} /\ QueueInv
  BY DEF Init, Queued, QueueInv
<1>4. TasksInv
  BY <1>3, TasksAssumption DEF Init, TasksInv, TaskInv
<1>5. WorkersInv
  BY DEF Init, WorkersInv, WorkerInv
<1>6. QED
  BY <1>1, <1>2, <1>3, <1>4, <1>5 DEF IInv

-----------------------------------------------------------------------------
(* Submit and the dispatcher *)

LEMMA SubmitKeeps ==
  ASSUME IInv, NEW t \in Tasks, Submit(t)
  PROVE  IInv'
<1> USE DEF IInv
<1>1. UNCHANGED slotVars /\ UNCHANGED <<taskVars, mu, performed, requests, replies, broken>>
  BY DEF Submit, Enqueue, Refuse, Abandon, Receive, poolVars, procVars, connVars, slotVars
<1>2. WorkersInv'
  BY <1>1, WorkersUntouched DEF taskVars
<1>3. PositionsAreIds' /\ SlotsInv'
  BY <1>1, SlotsUntouched
<1>4. CASE Enqueue(t)
  <2>1. /\ queue' = Append(queue, t) /\ client[t] = "sending" /\ Len(queue) < QueueCap
        /\ client' = [client EXCEPT ![t] = "waiting"]
        /\ queue \in Seq(Tasks)
    BY <1>4 DEF Enqueue, HasRoom, TypeOK
  <2>2. t \notin Queued /\ runner[t] = "none"
    BY <2>1 DEF TasksInv, TaskInv
  <2>3. QueueInv' /\ Queued' = Queued \cup {t} /\ queue' \in Seq(Tasks)
        /\ Len(queue') = Len(queue) + 1
    BY <2>1, <2>2, AppendElements, QueueFacts DEF Queued, Elements, QueueInv, Distinct
  <2>4. TasksInv'
    BY <1>1, <2>1, <2>2, <2>3 DEF TasksInv, TaskInv, taskVars, TypeOK
  <2>5. TypeOK'
    BY <1>4, <2>1, <2>3, SizesAssumption
    DEF TypeOK, Enqueue, taskVars, poolVars, connVars, procVars
  <2>6. QED
    BY <1>2, <1>3, <2>3, <2>4, <2>5
<1>5. CASE Refuse(t) \/ Abandon(t) \/ Receive(t)
  <2>1. UNCHANGED queue /\ client' = [client EXCEPT ![t] = "gone"]
    BY <1>5 DEF Refuse, Abandon, Receive
  <2>2. TypeOK'
    BY <1>5, <2>1
    DEF TypeOK, Refuse, Abandon, Receive, taskVars, poolVars, connVars, procVars
  <2>3. TasksInv' /\ QueueInv'
    <3>1. Queued' = Queued /\ QueueInv'
      BY <2>1 DEF Queued, QueueInv
    <3>2. QED
      BY <1>1, <2>1, <3>1 DEF TasksInv, TaskInv, taskVars, TypeOK
  <2>4. QED
    BY <1>2, <1>3, <2>2, <2>3
<1>6. QED
  BY <1>4, <1>5 DEF Submit

LEMMA DispatchKeeps ==
  ASSUME IInv, Dispatch \/ DispatcherEnds
  PROVE  IInv'
<1> USE DEF IInv
<1>1. UNCHANGED slotVars /\ UNCHANGED <<client, mu, performed, requests, replies, broken,
                                        box, chosen, call, result>>
  BY DEF Dispatch, DispatcherEnds, poolVars, procVars, connVars, taskVars, slotVars
<1>2. WorkersInv'
  BY <1>1, WorkersUntouched
<1>3. PositionsAreIds' /\ SlotsInv'
  BY <1>1, SlotsUntouched
<1>4. CASE Dispatch
  <2>1. queue \in Seq(Tasks) /\ queue # <<>> /\ queue' = Tail(queue)
        /\ runner' = [runner EXCEPT ![Head(queue)] = "pick"]
    BY <1>4 DEF Dispatch, TypeOK
  <2>2. /\ Head(queue) \in Tasks /\ Head(queue) \in Queued /\ Head(queue) \notin Queued'
        /\ Queued' \subseteq Queued /\ QueueInv' /\ queue' \in Seq(Tasks)
        /\ Len(queue') <= Len(queue)
    <3>1. /\ Tail(queue) \in Seq(Tasks) /\ Len(Tail(queue)) = Len(queue) - 1
          /\ Head(queue) \in Tasks /\ Len(queue) \in Nat
          /\ Elements(Tail(queue)) \subseteq Elements(queue) /\ Head(queue) \in Elements(queue)
          /\ Distinct(Tail(queue)) /\ Head(queue) \notin Elements(Tail(queue))
      BY <2>1, TailElements, QueueFacts
    <3>2. Queued' = Elements(Tail(queue)) /\ (QueueInv' <=> Distinct(Tail(queue)))
      BY <2>1 DEF Queued, Elements, QueueInv, Distinct
    <3>3. QED
      BY <2>1, <3>1, <3>2, QueueFacts
  <2>3. TasksInv'
    BY <1>1, <2>1, <2>2 DEF TasksInv, TaskInv, TypeOK
  <2>4. TypeOK'
    <3>1. queue' \in Seq(Tasks) /\ Len(queue') <= QueueCap
      BY <2>1, <2>2, SizesAssumption DEF TypeOK
    <3>2. runner' \in [Tasks -> {"none", "pick", "select", "done"}]
      BY <2>1, <2>2 DEF TypeOK
    <3>3. UNCHANGED <<client, dispatcher, box, chosen, call, result, poolVars, connVars, procVars>>
      BY <1>4 DEF Dispatch
    <3>4. QED
      BY <3>1, <3>2, <3>3 DEF TypeOK, poolVars, connVars, procVars
  <2>5. QED
    BY <1>2, <1>3, <2>2, <2>3, <2>4
<1>5. CASE DispatcherEnds
  <2>1. TypeOK'
    BY <1>5 DEF TypeOK, DispatcherEnds, taskVars, poolVars, connVars, procVars
  <2>2. QED
    BY <1>1, <1>2, <1>3, <1>5, <2>1, TasksUntouched DEF DispatcherEnds, taskVars
<1>6. QED
  BY <1>4, <1>5

-----------------------------------------------------------------------------
(* executeTask *)

LEMMA ExecuteTaskKeeps ==
  ASSUME IInv, NEW t \in Tasks, ExecuteTask(t)
  PROVE  IInv'
<1> USE DEF IInv
<1>1. UNCHANGED slotVars /\ UNCHANGED <<client, queue, mu, performed, requests, replies, broken,
                                        result>>
  BY DEF ExecuteTask, NoWorker, PickWorker, TakeResult, Timeout, clientVars, poolVars,
         procVars, connVars, slotVars
<1>2. PositionsAreIds' /\ SlotsInv'
  BY <1>1, SlotsUntouched
<1>3. QueueInv'
  BY <1>1 DEF QueueInv
<1>4. CASE PickWorker(t)
  <2>1. /\ runner[t] = "pick" /\ BestSlot \in DOMAIN workers /\ workers[BestSlot] \in Workers
        /\ chosen' = [chosen EXCEPT ![t] = workers[BestSlot]]
        /\ runner' = [runner EXCEPT ![t] = "select"]
        /\ call' = [call EXCEPT ![t] = "lock"] /\ UNCHANGED box
    BY <1>4, BestSlotFound DEF PickWorker
  <2>2. workers[BestSlot] # 0
    BY <2>1 DEF Workers
  <2>3. call[t] = "none" /\ t \notin Queued
    BY <2>1 DEF TasksInv, TaskInv
  <2>4. TasksInv'
    BY <1>1, <2>1, <2>2, <2>3 DEF TasksInv, TaskInv, TypeOK, Queued
  <2>5. WorkersInv'
    BY <1>1, <2>1, <2>3 DEF WorkersInv, WorkerInv, TypeOK
  <2>6. TypeOK'
    <3>1. /\ chosen' \in [Tasks -> Workers \cup {0}]
          /\ runner' \in [Tasks -> {"none", "pick", "select", "done"}]
          /\ call' \in [Tasks -> {"none", "lock", "encode", "decode", "done"}]
      BY <2>1 DEF TypeOK
    <3>2. UNCHANGED <<clientVars, box, result, poolVars, connVars, procVars>>
      BY <1>4 DEF PickWorker
    <3>3. QED
      BY <3>1, <3>2 DEF TypeOK, clientVars, poolVars, connVars, procVars
  <2>7. QED
    BY <1>2, <1>3, <2>4, <2>5, <2>6
<1>5. CASE NoWorker(t) \/ TakeResult(t) \/ Timeout(t)
  <2>1. PICK r \in {"error", result[t]} :
          /\ box' = [box EXCEPT ![t] = r] /\ r # "none"
    BY <1>5 DEF NoWorker, TakeResult, Timeout, Answer
  <2>2. /\ runner[t] \in {"pick", "select"} /\ runner' = [runner EXCEPT ![t] = "done"]
        /\ UNCHANGED <<chosen, call>>
    BY <1>5 DEF NoWorker, TakeResult, Timeout, Finish
  <2>3. r \in {"error", t} /\ (r = t => performed[t] = 1) /\ t \notin Queued
    BY <2>1, <2>2, TasksAssumption DEF TasksInv, TaskInv
  <2>4. TasksInv'
    BY <1>1, <2>1, <2>2, <2>3 DEF TasksInv, TaskInv, TypeOK, Queued
  <2>5. WorkersInv'
    BY <1>1, <2>2, WorkersUntouched
  <2>6. healthy' \subseteq healthy /\ UNCHANGED <<dispatcher, poolVars, count, proc>>
    BY <1>5 DEF NoWorker, TakeResult, Timeout, connVars, procVars, clientVars
  <2>7. TypeOK'
    BY <1>1, <2>1, <2>2, <2>3, <2>6 DEF TypeOK, poolVars
  <2>8. QED
    BY <1>2, <1>3, <2>4, <2>5, <2>7
<1>6. QED
  BY <1>4, <1>5 DEF ExecuteTask

-----------------------------------------------------------------------------
(* BunWorker.execute and the process *)

LEMMA ExecuteFrame ==
  ASSUME NEW t \in Tasks, Execute(t)
  PROVE  /\ UNCHANGED slotVars /\ UNCHANGED <<clientVars, box, runner, chosen, poolVars>>
         /\ UNCHANGED <<proc, performed>>
BY DEF Execute, OwnStep, LockWorker, SendRequest, SendFails, DecodeReply, DecodeFails, EndCall,
       poolVars, slotVars, procVars

LEMMA LockWorkerKeeps ==
  ASSUME IInv, NEW t \in Tasks, LockWorker(t)
  PROVE  IInv'
<1> USE DEF IInv
<1> DEFINE w == chosen[t]
<1>1. /\ UNCHANGED slotVars /\ UNCHANGED <<clientVars, box, runner, chosen, poolVars>>
      /\ UNCHANGED <<proc, performed, result, healthy, broken, requests, replies>>
  BY DEF LockWorker, procVars, poolVars, slotVars
<1>2. /\ call[t] = "lock" /\ mu[w] = "free" /\ w \in Workers /\ performed[t] = 0
      /\ call' = [call EXCEPT ![t] = "encode"]
      /\ mu' = [mu EXCEPT ![w] = t]
      /\ count' = [count EXCEPT ![w] = @ + 1]
  <2>1. call[t] = "lock" /\ chosen[t] # 0 /\ performed[t] = 0
    BY DEF LockWorker, TasksInv, TaskInv
  <2>2. w \in Workers
    BY <2>1 DEF TypeOK
  <2>3. QED
    BY <2>1, <2>2 DEF LockWorker
<1>3. t # "free"
  BY TasksAssumption
<1>4. PositionsAreIds' /\ SlotsInv'
  BY <1>1, SlotsUntouched
<1>5. Queued' = Queued /\ QueueInv'
  BY <1>1 DEF QueueInv, Queued, clientVars
<1>6. ASSUME NEW s \in Tasks PROVE TaskInv(s)'
  <2>1. /\ call'[s] = IF s = t THEN "encode" ELSE call[s]
        /\ mu'[w] = t /\ \A v \in Workers \ {w} : mu'[v] = mu[v]
    BY <1>2 DEF TypeOK
  <2>2. call[s] \in {"encode", "decode"} => mu[chosen[s]] = s /\ chosen[s] \in Workers
    BY DEF TasksInv, TaskInv, TypeOK
  <2>3. call'[s] \in {"encode", "decode"} => mu'[chosen[s]] = s
    BY <1>2, <1>3, <2>1, <2>2, TasksAssumption
  <2>4. TaskInv(s) /\ TaskInv(t)
    BY DEF TasksInv
  <2>5. QED
    BY <1>1, <1>2, <1>5, <2>1, <2>3, <2>4 DEF TaskInv, clientVars
<1>7. ASSUME NEW v \in Workers PROVE WorkerInv(v)'
  <2>1. \A s \in requests[v] : s # t /\ call'[s] = call[s]
    BY <1>2 DEF WorkersInv, WorkerInv, TypeOK
  <2>2. CASE v # w
    BY <1>1, <1>2, <2>1, <2>2 DEF WorkersInv, WorkerInv, TypeOK
  <2>3. CASE v = w
    <3>1. mu'[w] = t
      BY <1>2 DEF TypeOK
    <3>2. w \notin broken => requests[w] = {} /\ replies[w] = <<>>
      BY <1>2 DEF WorkersInv, WorkerInv
    <3>3. QED
      BY <1>1, <1>2, <1>3, <2>1, <2>3, <3>1, <3>2 DEF WorkersInv, WorkerInv, TypeOK
  <2>4. QED
    BY <2>2, <2>3
<1>8. TypeOK'
  <2>1. /\ call' \in [Tasks -> {"none", "lock", "encode", "decode", "done"}]
        /\ mu' \in [Workers -> Tasks \cup {"free"}] /\ count' \in [Workers -> Nat]
    <3>1. /\ call \in [Tasks -> {"none", "lock", "encode", "decode", "done"}]
          /\ mu \in [Workers -> Tasks \cup {"free"}] /\ count \in [Workers -> Nat]
      BY DEF TypeOK
    <3>2. QED
      BY <1>2, <3>1
  <2>2. QED
    BY <1>1, <2>1 DEF TypeOK, clientVars, poolVars
<1>9. QED
  BY <1>4, <1>5, <1>6, <1>7, <1>8 DEF TasksInv, WorkersInv

\* Before its request is sent, nothing of the holder of the mutex is in process or socket.
LEMMA EncodeFacts ==
  ASSUME IInv, NEW t \in Tasks, call[t] = "encode"
  PROVE  /\ chosen[t] \in Workers /\ mu[chosen[t]] = t /\ performed[t] = 0
         /\ chosen[t] \notin broken => requests[chosen[t]] = {} /\ replies[chosen[t]] = <<>>
<1> DEFINE w == chosen[t]
<1>1. w \in Workers /\ mu[w] = t /\ performed[t] = 0 /\ t # "free"
  BY TasksAssumption DEF IInv, TypeOK, TasksInv, TaskInv
<1>2. t \notin requests[w]
  BY <1>1 DEF IInv, WorkersInv, WorkerInv
<1>3. QED
  BY <1>1, <1>2 DEF IInv, WorkersInv, WorkerInv

LEMMA SendRequestKeeps ==
  ASSUME IInv, NEW t \in Tasks, SendRequest(t)
  PROVE  IInv'
<1> USE DEF IInv
<1> DEFINE w == chosen[t]
<1>1. /\ UNCHANGED slotVars /\ UNCHANGED <<clientVars, box, runner, chosen, poolVars>>
      /\ UNCHANGED <<proc, performed, result, connVars, replies>>
  BY DEF SendRequest, poolVars, slotVars
<1>2. /\ call[t] = "encode" /\ call' = [call EXCEPT ![t] = "decode"]
      /\ \/ requests' = [requests EXCEPT ![w] = @ \cup {t}]
         \/ requests' = [requests EXCEPT ![w] = @]
  BY DEF SendRequest
<1>3. /\ w \in Workers /\ mu[w] = t /\ performed[t] = 0 /\ t # "free"
      /\ w \notin broken => requests[w] = {} /\ replies[w] = <<>>
  BY <1>2, EncodeFacts, TasksAssumption
<1>4. PositionsAreIds' /\ SlotsInv'
  BY <1>1, SlotsUntouched
<1>5. Queued' = Queued /\ QueueInv'
  BY <1>1 DEF QueueInv, Queued, clientVars
<1>6. ASSUME NEW s \in Tasks PROVE TaskInv(s)'
  <2>1. call'[s] = IF s = t THEN "decode" ELSE call[s]
    BY <1>2 DEF TypeOK
  <2>2. TaskInv(s) /\ UNCHANGED mu
    BY <1>1 DEF TasksInv, connVars
  <2>3. QED
    BY <1>1, <1>2, <1>3, <1>5, <2>1, <2>2 DEF TaskInv, clientVars
<1>7. ASSUME NEW v \in Workers PROVE WorkerInv(v)'
  <2>1. UNCHANGED <<mu, broken>>
    BY <1>1 DEF connVars
  <2>2. CASE v # w
    BY <1>1, <1>2, <2>1, <2>2 DEF WorkersInv, WorkerInv, TypeOK
  <2>3. CASE v = w
    <3>1. requests'[w] \in {requests[w], requests[w] \cup {t}}
      BY <1>2, <1>3 DEF TypeOK
    <3>2. QED
      BY <1>1, <1>2, <1>3, <2>1, <2>3, <3>1 DEF WorkersInv, WorkerInv, TypeOK
  <2>4. QED
    BY <2>2, <2>3
<1>8. TypeOK'
  <2>1. /\ call' \in [Tasks -> {"none", "lock", "encode", "decode", "done"}]
        /\ requests' \in [Workers -> SUBSET Tasks]
    <3>1. /\ call \in [Tasks -> {"none", "lock", "encode", "decode", "done"}]
          /\ requests \in [Workers -> SUBSET Tasks]
      BY DEF TypeOK
    <3>2. QED
      BY <1>2, <1>3, <3>1
  <2>2. QED
    BY <1>1, <2>1 DEF TypeOK, clientVars, poolVars, connVars
<1>9. QED
  BY <1>4, <1>5, <1>6, <1>7, <1>8 DEF TasksInv, WorkersInv

\* The end of a call, with a result of its own, that gives the mutex back
LEMMA CallEnds ==
  ASSUME IInv, NEW t \in Tasks, NEW w, w = chosen[t], NEW r \in {"error", t}, EndCall(t, r),
         mu' = [mu EXCEPT ![w] = "free"],
         \/ call[t] = "encode" /\ UNCHANGED <<replies, broken>>
         \/ /\ call[t] = "decode"
            /\ \/ broken' = broken \cup {w} /\ UNCHANGED replies
               \/ /\ w \notin broken /\ UNCHANGED broken /\ replies[w] # <<>>
                  /\ replies' = [replies EXCEPT ![w] = Tail(@)],
         r = t => performed[t] = 1,
         UNCHANGED <<proc, performed, requests>>,
         healthy' \subseteq healthy, count' \in [Workers -> Nat]
  PROVE  IInv'
<1> USE DEF IInv
<1>1. /\ UNCHANGED slotVars /\ UNCHANGED <<clientVars, box, runner, chosen, poolVars>>
      /\ result' = [result EXCEPT ![t] = r] /\ call' = [call EXCEPT ![t] = "done"]
  BY DEF EndCall, poolVars, slotVars
<1>2. w \in Workers /\ "free" \notin Tasks /\ "error" \notin Tasks
  BY TasksAssumption DEF TypeOK, TasksInv, TaskInv
<1>3. mu[w] = t
  BY DEF TasksInv, TaskInv
<1>4. PositionsAreIds' /\ SlotsInv'
  BY <1>1, SlotsUntouched
<1>5. Queued' = Queued /\ QueueInv'
  BY <1>1 DEF QueueInv, Queued, clientVars
<1>6. ASSUME NEW s \in Tasks PROVE TaskInv(s)'
  <2>1. CASE s = t
    BY <1>1, <1>5, <2>1 DEF TasksInv, TaskInv, TypeOK, clientVars
  <2>2. CASE s # t
    <3>1. call'[s] = call[s] /\ result'[s] = result[s]
      BY <1>1, <2>2 DEF TypeOK
    <3>2. call[s] \in {"encode", "decode"} => mu[chosen[s]] = s /\ chosen[s] # 0
      BY DEF TasksInv, TaskInv
    <3>3. call[s] \in {"encode", "decode"} => mu'[chosen[s]] = s
      BY <1>2, <1>3, <2>2, <3>2 DEF TypeOK
    <3>4. QED
      BY <1>1, <1>5, <3>1, <3>3 DEF TasksInv, TaskInv, clientVars
  <2>3. QED
    BY <2>1, <2>2
<1>7. ASSUME NEW v \in Workers PROVE WorkerInv(v)'
  <2>1. \A s \in requests[v] : chosen[s] = v /\ call'[s] \in {"decode", "done"} /\ performed[s] = 0
    BY <1>1 DEF WorkersInv, WorkerInv, TypeOK
  <2>2. CASE v # w
    <3>1. mu'[v] = mu[v] /\ replies'[v] = replies[v] /\ (v \in broken' <=> v \in broken)
      BY <2>2 DEF TypeOK
    <3>2. WorkerInv(v)
      BY DEF WorkersInv
    <3>3. requests' = requests /\ performed' = performed /\ chosen' = chosen
      BY <1>1
    <3>4. QED
      BY <2>1, <3>1, <3>2, <3>3 DEF WorkerInv
  <2>3. CASE v = w
    <3>0. CASE call[t] = "encode" /\ UNCHANGED <<replies, broken>>
      <4>1. w \notin broken => requests[w] = {} /\ replies[w] = <<>>
        BY <3>0, EncodeFacts
      <4>2. mu'[w] = "free"
        BY <1>2 DEF TypeOK
      <4>3. QED
        BY <1>1, <2>1, <2>3, <3>0, <4>1, <4>2 DEF WorkerInv
    <3>1. CASE broken' = broken \cup {w}
      BY <1>1, <2>1, <2>3, <3>1 DEF WorkerInv
    <3>2. CASE /\ w \notin broken /\ replies[w] # <<>>
               /\ replies' = [replies EXCEPT ![w] = Tail(@)]
      <4>1. replies[w] = <<t>> /\ requests[w] = {}
        BY <1>2, <1>3, <2>3, <3>2 DEF WorkersInv, WorkerInv, TypeOK
      <4>2. replies'[w] = <<>>
        BY <1>2, <3>2, <4>1 DEF TypeOK
      <4>3. mu'[w] = "free"
        BY <1>2, <2>3 DEF TypeOK
      <4>4. QED
        BY <2>1, <2>3, <4>1, <4>2, <4>3 DEF WorkerInv
    <3>3. QED
      BY <3>0, <3>1, <3>2
  <2>4. QED
    BY <2>2, <2>3
<1>8. TypeOK'
  <2>1. replies' \in [Workers -> Seq(Tasks)]
    <3>1. replies \in [Workers -> Seq(Tasks)]
      BY DEF TypeOK
    <3>2. CASE UNCHANGED replies
      BY <3>1, <3>2
    <3>3. CASE replies[w] # <<>> /\ replies' = [replies EXCEPT ![w] = Tail(@)]
      <4>1. Tail(replies[w]) \in Seq(Tasks)
        BY <1>2, <3>1, <3>3
      <4>2. QED
        BY <3>1, <3>3, <4>1
    <3>4. QED
      BY <3>2, <3>3
  <2>2. /\ result' \in [Tasks -> {"none", "error"} \cup Tasks]
        /\ call' \in [Tasks -> {"none", "lock", "encode", "decode", "done"}]
        /\ mu' \in [Workers -> Tasks \cup {"free"}]
        /\ healthy' \subseteq Workers /\ broken' \subseteq Workers
    <3>1. /\ result \in [Tasks -> {"none", "error"} \cup Tasks]
          /\ call \in [Tasks -> {"none", "lock", "encode", "decode", "done"}]
          /\ mu \in [Workers -> Tasks \cup {"free"}]
          /\ healthy \subseteq Workers /\ broken \subseteq Workers
      BY DEF TypeOK
    <3>2. QED
      BY <1>1, <1>2, <3>1
  <2>3. QED
    BY <1>1, <2>1, <2>2 DEF TypeOK, clientVars, poolVars
<1>9. QED
  BY <1>4, <1>5, <1>6, <1>7, <1>8 DEF TasksInv, WorkersInv

LEMMA ExecuteKeeps ==
  ASSUME IInv, NEW t \in Tasks, Execute(t)
  PROVE  IInv'
<1> DEFINE w == chosen[t]
<1>1. count \in [Workers -> Nat]
  BY DEF IInv, TypeOK
<1>2. CASE SendFails(t)
  <2>1. /\ call[t] = "encode" /\ EndCall(t, "error") /\ mu' = [mu EXCEPT ![w] = "free"]
        /\ healthy' = healthy \ {w}
        /\ UNCHANGED <<count, broken, proc, requests, replies, performed>>
    BY <1>2 DEF SendFails, Unlock, procVars
  <2>2. "error" # t
    BY TasksAssumption
  <2>3. healthy' \subseteq healthy /\ count' \in [Workers -> Nat]
    BY <1>1, <2>1
  <2>4. QED
    BY <2>1, <2>2, <2>3, CallEnds
<1>3. CASE DecodeFails(t)
  <2>1. /\ call[t] = "decode" /\ EndCall(t, "error") /\ mu' = [mu EXCEPT ![w] = "free"]
        /\ UNCHANGED count /\ broken' = broken \cup {w} /\ healthy' = healthy \ {w}
        /\ UNCHANGED <<proc, requests, replies, performed>>
    BY <1>3 DEF DecodeFails, Unlock, KeepError, procVars
  <2>2. "error" # t
    BY TasksAssumption
  <2>3. healthy' \subseteq healthy /\ count' \in [Workers -> Nat]
    BY <1>1, <2>1
  <2>4. QED
    BY <2>1, <2>2, <2>3, CallEnds
<1>4. CASE DecodeReply(t)
  <2>1. /\ call[t] = "decode" /\ w \notin broken /\ replies[w] # <<>>
        /\ \E r \in {Head(replies[w]), "error"} : EndCall(t, r)
        /\ mu' = [mu EXCEPT ![w] = "free"]
        /\ replies' = [replies EXCEPT ![w] = Tail(@)]
        /\ UNCHANGED <<healthy, broken, proc, requests, performed, count>>
    BY <1>4 DEF DecodeReply, Unlock
  <2>2. mu[w] = t /\ w \in Workers /\ t # "free" /\ t # "error"
    BY <2>1, TasksAssumption DEF IInv, TasksInv, TaskInv, TypeOK
  <2>3. Head(replies[w]) = t /\ performed[t] = 1
    BY <2>1, <2>2 DEF IInv, WorkersInv, WorkerInv
  <2>4. QED
    BY <1>1, <2>1, <2>3, CallEnds
<1>5. QED
  BY <1>2, <1>3, <1>4, LockWorkerKeeps, SendRequestKeeps DEF Execute, OwnStep

LEMMA ProcessKeeps ==
  ASSUME IInv, NEW w \in Workers, (\E t \in Tasks : Perform(w, t)) \/ Crash(w)
  PROVE  IInv'
<1> USE DEF IInv
<1>1. /\ UNCHANGED slotVars /\ UNCHANGED <<clientVars, taskVars, poolVars, connVars>>
  BY DEF Perform, Crash, poolVars, slotVars
<1>2. PositionsAreIds' /\ SlotsInv'
  BY <1>1, SlotsUntouched
<1>3. Queued' = Queued /\ QueueInv'
  BY <1>1 DEF QueueInv, Queued, clientVars
<1>4. ASSUME NEW t \in Tasks, Perform(w, t) PROVE IInv'
  <2>1. /\ t \in requests[w] /\ UNCHANGED proc
        /\ requests' = [requests EXCEPT ![w] = @ \ {t}]
        /\ replies' = [replies EXCEPT ![w] = Append(@, t)]
        /\ performed' = [performed EXCEPT ![t] = @ + 1]
    BY <1>4 DEF Perform
  <2>2. chosen[t] = w /\ call[t] \in {"decode", "done"} /\ performed[t] = 0
    BY <2>1 DEF WorkersInv, WorkerInv
  <2>3. performed'[t] = 1 /\ \A s \in Tasks \ {t} : performed'[s] = performed[s]
    BY <2>1, <2>2 DEF TypeOK
  <2>4. ASSUME NEW s \in Tasks PROVE TaskInv(s)'
    BY <1>1, <1>3, <2>2, <2>3 DEF TasksInv, TaskInv, clientVars, taskVars, connVars
  <2>5. ASSUME NEW v \in Workers PROVE WorkerInv(v)'
    <3>1. requests[v] \subseteq Tasks /\ requests'[v] \subseteq requests[v] \ {t}
      <4>1. CASE v = w
        BY <2>1, <4>1 DEF TypeOK
      <4>2. CASE v # w
        <5>1. t \notin requests[v]
          BY <2>2, <4>2 DEF WorkersInv, WorkerInv
        <5>2. QED
          BY <2>1, <4>2, <5>1 DEF TypeOK
      <4>3. QED
        BY <4>1, <4>2
    <3>2. \A s \in requests'[v] : chosen[s] = v /\ call[s] \in {"decode", "done"} /\ performed'[s] = 0
      BY <2>3, <3>1 DEF WorkersInv, WorkerInv
    <3>3. CASE v # w
      <4>1. replies'[v] = replies[v]
        BY <2>1, <3>3 DEF TypeOK
      <4>2. mu[v] \in Tasks \cup {"free"}
        BY DEF TypeOK
      <4>3. QED
        BY <1>1, <2>2, <2>3, <3>1, <3>2, <4>1, <4>2
        DEF WorkersInv, WorkerInv, connVars, taskVars
    <3>4. CASE v = w
      <4>1. w \notin broken => mu[w] # "free" /\ mu[w] = t /\ replies[w] = <<>> /\ requests[w] = {t}
        BY <2>1 DEF WorkersInv, WorkerInv
      <4>2. w \notin broken => replies'[w] = <<t>> /\ requests'[w] = {}
        BY <2>1, <4>1 DEF TypeOK
      <4>3. QED
        BY <1>1, <2>3, <3>2, <3>4, <4>1, <4>2 DEF WorkerInv, connVars, taskVars
    <3>5. QED
      BY <3>3, <3>4
  <2>6. TypeOK'
    <3>1. /\ requests' \in [Workers -> SUBSET Tasks] /\ performed' \in [Tasks -> Nat]
          /\ replies' \in [Workers -> Seq(Tasks)]
      <4>1. /\ requests \in [Workers -> SUBSET Tasks] /\ performed \in [Tasks -> Nat]
            /\ replies \in [Workers -> Seq(Tasks)]
        BY DEF TypeOK
      <4>2. Append(replies[w], t) \in Seq(Tasks) /\ performed[t] + 1 \in Nat
        BY <4>1
      <4>3. QED
        BY <2>1, <4>1, <4>2
    <3>2. QED
      BY <1>1, <2>1, <3>1 DEF TypeOK, clientVars, taskVars, poolVars, connVars
  <2>7. QED
    BY <1>2, <1>3, <2>4, <2>5, <2>6 DEF TasksInv, WorkersInv
<1>5. CASE Crash(w)
  <2>1. /\ UNCHANGED <<replies, performed>> /\ requests' = [requests EXCEPT ![w] = {}]
        /\ proc' = [proc EXCEPT ![w] = "crashed"]
    BY <1>5 DEF Crash
  <2>2. TasksInv'
    BY <1>1, <2>1, TasksUntouched DEF clientVars, connVars
  <2>3. WorkersInv'
    BY <1>1, <2>1 DEF WorkersInv, WorkerInv, TypeOK, connVars, taskVars
  <2>4. TypeOK'
    <3>1. /\ requests' \in [Workers -> SUBSET Tasks]
          /\ proc' \in [Workers -> {"none", "up", "crashed"} \cup Reaped]
      BY <2>1 DEF TypeOK
    <3>2. QED
      BY <1>1, <2>1, <3>1 DEF TypeOK, clientVars, taskVars, poolVars, connVars
  <2>5. QED
    BY <1>2, <1>3, <2>2, <2>3, <2>4
<1>6. QED
  BY <1>4, <1>5

-----------------------------------------------------------------------------
(* Workers are shut down and started *)

\* What ShutdownWorker does to the invariant, whoever calls it
LEMMA ShutdownWorkerKeeps ==
  ASSUME IInv, NEW w, ShutdownWorker(w), UNCHANGED <<clientVars, taskVars, connVars>>
  PROVE  /\ TasksInv' /\ WorkersInv' /\ QueueInv'
         /\ proc' \in [Workers -> {"none", "up", "crashed"} \cup Reaped]
         /\ requests' \in [Workers -> SUBSET Tasks]
         /\ replies' \in [Workers -> Seq(Tasks)]
         /\ performed' \in [Tasks -> Nat]
<1> USE DEF IInv
<1>1. PICK how \in Reaped : proc' = [proc EXCEPT ![w] = how]
  BY DEF ShutdownWorker
<1>2. /\ mu[w] = "free" /\ UNCHANGED performed
      /\ requests' = [requests EXCEPT ![w] = {}] /\ replies' = [replies EXCEPT ![w] = <<>>]
  BY DEF ShutdownWorker
<1>3. /\ requests \in [Workers -> SUBSET Tasks] /\ replies \in [Workers -> Seq(Tasks)]
      /\ proc \in [Workers -> {"none", "up", "crashed"} \cup Reaped]
      /\ performed \in [Tasks -> Nat]
  BY DEF TypeOK
<1>4. /\ proc' \in [Workers -> {"none", "up", "crashed"} \cup Reaped]
      /\ requests' \in [Workers -> SUBSET Tasks]
      /\ replies' \in [Workers -> Seq(Tasks)] /\ performed' \in [Tasks -> Nat]
  <2>1. proc' \in [Workers -> {"none", "up", "crashed"} \cup Reaped]
    BY <1>1, <1>3
  <2>2. requests' \in [Workers -> SUBSET Tasks]
    BY <1>2, <1>3
  <2>3. replies' \in [Workers -> Seq(Tasks)]
    <3>1. <<>> \in Seq(Tasks)
      OBVIOUS
    <3>2. DOMAIN replies' = Workers /\ \A v \in Workers : replies'[v] \in {<<>>, replies[v]}
      BY <1>2, <1>3
    <3>3. replies' = [v \in Workers |-> replies'[v]]
      BY <1>2, <1>3
    <3>4. QED
      BY <1>3, <3>1, <3>2, <3>3
  <2>4. QED
    BY <1>2, <1>3, <2>1, <2>2, <2>3
<1>5. TasksInv' /\ QueueInv'
  BY <1>2, TasksUntouched DEF clientVars, connVars
<1>6. ASSUME NEW v \in Workers PROVE WorkerInv(v)'
  <2>1. CASE v # w
    <3>1. requests'[v] = requests[v] /\ replies'[v] = replies[v]
      BY <1>2, <1>3, <2>1
    <3>2. WorkerInv(v)
      BY DEF WorkersInv
    <3>3. UNCHANGED <<chosen, call, performed, broken, mu>>
      BY <1>2 DEF taskVars, connVars
    <3>4. QED
      BY <3>1, <3>2, <3>3 DEF WorkerInv
  <2>2. CASE v = w
    <3>1. requests'[v] = {} /\ replies'[v] = <<>> /\ mu'[v] = "free"
      BY <1>2, <1>3, <2>2 DEF connVars
    <3>2. QED
      BY <3>1 DEF WorkerInv
  <2>3. QED
    BY <2>1, <2>2
<1>7. QED
  BY <1>4, <1>5, <1>6 DEF WorkersInv

\* The same of StartWorker, for what it changes besides the slice
LEMMA StartWorkerKeeps ==
  ASSUME IInv, NEW n \in Workers, NEW i \in Nat, StartWorker(n, i),
         UNCHANGED <<clientVars, taskVars>>
  PROVE  /\ TasksInv' /\ WorkersInv' /\ QueueInv'
         /\ proc' \in [Workers -> {"none", "up", "crashed"} \cup Reaped]
         /\ id' \in [Workers -> Nat] /\ healthy' \subseteq Workers
         /\ started' \in MinSize..MaxStarts /\ started' = started + 1 /\ n = started + 1
         /\ id'[n] = i /\ \A v \in Workers \ {n} : id'[v] = id[v]
         /\ UNCHANGED <<count, mu, broken, requests, replies, performed>>
<1> USE DEF IInv
<1>1. /\ n = started + 1 /\ started' = n /\ started < MaxStarts
      /\ id' = [id EXCEPT ![n] = i] /\ healthy' = healthy \cup {n}
      /\ proc' = [proc EXCEPT ![n] = "up"]
      /\ UNCHANGED <<count, mu, broken, requests, replies, performed>>
  BY DEF StartWorker
<1>2. /\ id \in [Workers -> Nat] /\ healthy \subseteq Workers /\ started \in MinSize..MaxStarts
      /\ proc \in [Workers -> {"none", "up", "crashed"} \cup Reaped]
  BY DEF TypeOK
<1>3. TasksInv' /\ QueueInv'
  BY <1>1, TasksUntouched DEF clientVars
<1>4. WorkersInv'
  BY <1>1, WorkersUntouched DEF taskVars
<1>5. started' \in MinSize..MaxStarts
  BY <1>1, <1>2, SizesAssumption
<1>6. QED
  BY <1>1, <1>2, <1>3, <1>4, <1>5

\* The steps of monitors, scaler and Shutdown that touch no worker
LEMMA PlainStepKeeps ==
  ASSUME IInv, UNCHANGED <<clientVars, taskVars, procVars, workers, size, started, id,
                           count, mu, broken>>,
         healthy' \subseteq healthy,
         monitor' \in [Workers -> {"none", "watch", "stop", "start", "ended"}],
         restartMu' \in {"free", "monitor", "scaler"},
         scaler' \in {"tick", "up", "down", "stop", "end"},
         scaler = "stop" => scaler' = "stop", scaler' = "stop" => scaler = "stop",
         scaler' = "down" => scaler = "down" \/ MinSize < size,
         victim' = victim, stop' \in {"no", "wait", "stop", "done"}, doomed' \in Seq(Workers)
  PROVE  IInv'
<1> USE DEF IInv
<1>1. TasksInv' /\ QueueInv'
  BY TasksUntouched DEF clientVars, procVars
<1>2. WorkersInv'
  BY WorkersUntouched DEF taskVars, procVars
<1>3. PositionsAreIds' /\ SlotsInv'
  BY DEF PositionsAreIds, SlotsInv
<1>4. TypeOK'
  BY DEF TypeOK, clientVars, taskVars, procVars
<1>5. QED
  BY <1>1, <1>2, <1>3, <1>4

LEMMA StopOldKeeps ==
  ASSUME IInv, NEW w \in Workers, StopOld(w)
  PROVE  IInv'
<1> USE DEF IInv
<1>1. /\ ShutdownWorker(w) /\ monitor' = [monitor EXCEPT ![w] = "start"]
      /\ UNCHANGED <<clientVars, taskVars, workers, size, started, id, restartMu, scaler,
                     victim, stop, doomed, connVars>>
  BY DEF StopOld
<1>2. PositionsAreIds' /\ SlotsInv'
  BY <1>1, SlotsUntouched DEF slotVars
<1>3. monitor' \in [Workers -> {"none", "watch", "stop", "start", "ended"}]
  BY <1>1 DEF TypeOK
<1>4. /\ TasksInv' /\ WorkersInv' /\ QueueInv'
      /\ proc' \in [Workers -> {"none", "up", "crashed"} \cup Reaped]
      /\ requests' \in [Workers -> SUBSET Tasks] /\ replies' \in [Workers -> Seq(Tasks)]
      /\ performed' \in [Tasks -> Nat]
  BY <1>1, ShutdownWorkerKeeps
<1>5. TypeOK'
  BY <1>1, <1>3, <1>4 DEF TypeOK, clientVars, taskVars, connVars
<1>6. QED
  BY <1>2, <1>4, <1>5

\* The new worker takes the id and the place of the old one, if it has one.
LEMMA StartNewKeeps ==
  ASSUME IInv, NEW w \in Workers, StartNew(w)
  PROVE  IInv'
<1> USE DEF IInv
<1>1. PICK n \in Workers : /\ StartWorker(n, id[w]) /\ workers' = Replaced(w, n)
                            /\ monitor' = [monitor EXCEPT ![w] = "ended", ![n] = "watch"]
  BY DEF StartNew
<1>2. UNCHANGED <<clientVars, taskVars, size, scaler, victim, stop, doomed>> /\ restartMu' = "free"
  BY DEF StartNew
<1>3. id[w] \in Nat /\ workers \in Seq(Workers)
  BY DEF TypeOK
<1>4. /\ TasksInv' /\ WorkersInv' /\ QueueInv'
      /\ proc' \in [Workers -> {"none", "up", "crashed"} \cup Reaped]
      /\ id' \in [Workers -> Nat] /\ healthy' \subseteq Workers
      /\ started' \in MinSize..MaxStarts /\ started' = started + 1 /\ n = started + 1
      /\ id'[n] = id[w] /\ \A v \in Workers \ {n} : id'[v] = id[v]
      /\ UNCHANGED <<count, mu, broken, requests, replies, performed>>
  BY <1>1, <1>2, <1>3, StartWorkerKeeps
<1>5. /\ workers' \in Seq(Workers) /\ Len(workers') = Len(workers)
      /\ \A i \in 1..Len(workers) :
           workers'[i] = IF id[workers[i]] = id[w] THEN n ELSE workers[i]
  BY <1>1, <1>3 DEF Replaced
<1>6. \A i \in 1..Len(workers) :
        id[workers[i]] = i - 1 /\ workers[i] \in Workers \ {n} /\ workers[i] <= started
  <2>1. DOMAIN workers = 1..Len(workers) /\ \A i \in 1..Len(workers) : workers[i] \in Workers
    BY <1>3
  <2>2. \A v \in Workers : v \in Nat
    BY DEF Workers
  <2>3. started \in Nat
    BY SizesAssumption DEF TypeOK
  <2>4. n = started + 1 /\ \A v \in Nat : v <= started => v # n
    BY <1>4, <2>3
  <2>5. ASSUME NEW i \in 1..Len(workers)
        PROVE  id[workers[i]] = i - 1 /\ workers[i] \in Workers \ {n} /\ workers[i] <= started
    <3>1. id[workers[i]] = i - 1
      BY <2>1 DEF PositionsAreIds
    <3>2. workers[i] <= started /\ workers[i] \in Workers /\ workers[i] \in Nat
      BY <2>1, <2>2 DEF SlotsInv
    <3>3. QED
      BY <2>4, <3>1, <3>2
  <2>6. QED
    BY <2>5
<1>7. \A i \in 1..Len(workers') : id'[workers'[i]] = i - 1 /\ workers'[i] <= started'
  <2> SUFFICES ASSUME NEW i \in 1..Len(workers)
               PROVE  id'[workers'[i]] = i - 1 /\ workers'[i] <= started'
    BY <1>5
  <2>1. started \in Nat /\ Workers \subseteq Nat
    BY SizesAssumption DEF TypeOK, Workers
  <2>2. CASE id[workers[i]] = id[w]
    BY <1>4, <1>5, <1>6, <2>1, <2>2
  <2>3. CASE id[workers[i]] # id[w]
    <3>1. workers'[i] = workers[i] /\ workers[i] \in Workers \ {n} /\ workers[i] <= started
      BY <1>5, <1>6, <2>3
    <3>2. id'[workers[i]] = id[workers[i]] /\ id[workers[i]] = i - 1
      BY <1>4, <1>6, <3>1
    <3>3. workers[i] <= started'
      <4>1. workers[i] \in Nat
        BY <2>1, <3>1
      <4>2. workers[i] <= started /\ started' = started + 1
        BY <1>4, <3>1
      <4>3. QED
        BY <2>1, <4>1, <4>2
    <3>4. QED
      BY <3>1, <3>2, <3>3
  <2>4. QED
    BY <2>2, <2>3
<1>8. PositionsAreIds'
  BY <1>2, <1>5, <1>7 DEF PositionsAreIds
<1>9. SlotsInv'
  BY <1>2, <1>7 DEF SlotsInv
<1>10. monitor' \in [Workers -> {"none", "watch", "stop", "start", "ended"}]
  BY <1>1 DEF TypeOK
<1>11. TypeOK'
  BY <1>2, <1>4, <1>5, <1>10 DEF TypeOK, clientVars, taskVars
<1>12. QED
  BY <1>4, <1>8, <1>9, <1>11

LEMMA MonitorKeeps ==
  ASSUME IInv, NEW w \in Workers, Restart(w) \/ MonitorEnds(w)
  PROVE  IInv'
<1>1. CASE BeginRestart(w) \/ RestartFails(w) \/ MonitorEnds(w)
  <2>1. PICK s \in {"stop", "ended"} : monitor' = [monitor EXCEPT ![w] = s]
    BY <1>1 DEF BeginRestart, RestartFails, MonitorEnds
  <2>2. /\ healthy' \subseteq healthy /\ restartMu' \in {"free", "monitor", restartMu}
        /\ UNCHANGED <<clientVars, taskVars, procVars, workers, size, started, id, count, mu,
                       broken, scaler, victim, stop, doomed>>
    BY <1>1 DEF BeginRestart, RestartFails, MonitorEnds, connVars
  <2>3. /\ monitor' \in [Workers -> {"none", "watch", "stop", "start", "ended"}]
        /\ restartMu' \in {"free", "monitor", "scaler"}
        /\ scaler \in {"tick", "up", "down", "stop", "end"}
        /\ stop \in {"no", "wait", "stop", "done"} /\ doomed \in Seq(Workers)
    BY <2>1, <2>2 DEF IInv, TypeOK
  <2>4. QED
    BY <2>2, <2>3, PlainStepKeeps
<1>2. QED
  BY <1>1, StopOldKeeps, StartNewKeeps DEF Restart

-----------------------------------------------------------------------------
(* scaler *)

LEMMA TickKeeps ==
  ASSUME IInv, Tick \/ ScaleUpFails \/ ScalerEnds
  PROVE  IInv'
<1>1. /\ UNCHANGED <<clientVars, taskVars, procVars, workers, size, started, id, count, mu,
                     broken, healthy, monitor, restartMu, victim, stop, doomed>>
      /\ scaler \in {"tick", "up"} /\ scaler' \in {"up", "down", "tick", "end"}
      /\ scaler' = "down" => size > MinSize
  BY DEF Tick, ScaleUpFails, ScalerEnds, connVars
<1>2. /\ monitor \in [Workers -> {"none", "watch", "stop", "start", "ended"}]
      /\ restartMu \in {"free", "monitor", "scaler"} /\ size \in Nat /\ MinSize \in Nat
      /\ stop \in {"no", "wait", "stop", "done"} /\ doomed \in Seq(Workers)
  BY SizesAssumption DEF IInv, TypeOK
<1>3. scaler' = "down" => MinSize < size
  BY <1>1, <1>2
<1>4. QED
  BY <1>1, <1>2, <1>3, PlainStepKeeps

\* The new worker's id is the old size, which is its position.
LEMMA ScaleUpKeeps ==
  ASSUME IInv, ScaleUp
  PROVE  IInv'
<1> USE DEF IInv
<1>1. PICK n \in Workers : /\ StartWorker(n, size) /\ workers' = Append(workers, n)
                            /\ monitor' = [monitor EXCEPT ![n] = "watch"]
  BY DEF ScaleUp
<1>2. /\ UNCHANGED <<clientVars, taskVars, restartMu, victim, stop, doomed>>
      /\ scaler = "up" /\ size' = size + 1 /\ scaler' = "tick"
  BY DEF ScaleUp
<1>3. workers \in Seq(Workers) /\ size \in Nat /\ Len(workers) \in Nat /\ size = Len(workers)
      /\ DOMAIN workers = 1..Len(workers)
      /\ \A i \in 1..Len(workers) : workers[i] \in Workers
  <2>1. /\ workers \in Seq(Workers) /\ Len(workers) \in Nat
        /\ DOMAIN workers = 1..Len(workers)
        /\ \A i \in 1..Len(workers) : workers[i] \in Workers
    <3>1. workers \in Seq(Workers)
      BY DEF TypeOK
    <3>2. QED
      BY <3>1
  <2>2. size \in Nat /\ size = Len(workers)
    <3>1. scaler = "up" /\ PositionsAreIds
      BY <1>2
    <3>2. size = Len(workers)
      BY <3>1 DEF PositionsAreIds
    <3>3. QED
      BY <2>1, <3>2
  <2>3. QED
    BY <2>1, <2>2
<1>Nats. MinSize \in Nat /\ started \in Nat /\ \A v \in Workers : v \in Nat
  <2>1. MinSize \in Nat /\ started \in Nat
    BY SizesAssumption DEF TypeOK
  <2>2. \A v \in Workers : v \in Nat
    BY DEF Workers
  <2>3. QED
    BY <2>1, <2>2
<1>4. /\ TasksInv' /\ WorkersInv' /\ QueueInv'
      /\ proc' \in [Workers -> {"none", "up", "crashed"} \cup Reaped]
      /\ id' \in [Workers -> Nat] /\ healthy' \subseteq Workers
      /\ started' \in MinSize..MaxStarts /\ started' = started + 1 /\ n = started + 1
      /\ id'[n] = size /\ \A v \in Workers \ {n} : id'[v] = id[v]
      /\ UNCHANGED <<count, mu, broken, requests, replies, performed>>
  BY <1>1, <1>2, <1>3, StartWorkerKeeps
<1>5. /\ workers' \in Seq(Workers) /\ Len(workers') = Len(workers) + 1
      /\ DOMAIN workers' = 1..Len(workers')
      /\ \A i \in 1..Len(workers) : workers'[i] = workers[i]
      /\ workers'[Len(workers) + 1] = n
  BY <1>1, <1>3
<1>6. ASSUME NEW i \in 1..Len(workers')
      PROVE  id'[workers'[i]] = i - 1 /\ workers'[i] <= started'
  <2>1. CASE i = Len(workers) + 1
    <3>1. workers'[i] = n /\ id'[n] = i - 1
      BY <1>3, <1>4, <1>5, <2>1
    <3>2. n <= started'
      BY <1>Nats, <1>4
    <3>3. QED
      BY <3>1, <3>2
  <2>2. CASE i # Len(workers) + 1
    <3>1. i \in 1..Len(workers) /\ workers'[i] = workers[i]
      BY <1>3, <1>5, <2>2
    <3>2. id[workers[i]] = i - 1 /\ workers[i] <= started /\ workers[i] \in Workers
      BY <1>3, <3>1 DEF PositionsAreIds, SlotsInv
    <3>3. workers[i] # n /\ workers[i] <= started'
      <4>1. workers[i] \in Nat /\ started \in Nat
        BY <1>Nats, <3>2
      <4>2. n = started + 1 /\ started' = started + 1
        BY <1>4
      <4>3. QED
        BY <3>2, <4>1, <4>2
    <3>4. QED
      BY <1>4, <3>1, <3>2, <3>3
  <2>3. QED
    BY <2>1, <2>2
<1>7. PositionsAreIds'
  BY <1>2, <1>3, <1>5, <1>6 DEF PositionsAreIds
<1>8. SlotsInv'
  <2>1. MinSize <= size + 1
    <3>1. MinSize <= size
      BY DEF SlotsInv
    <3>2. MinSize \in Nat /\ size \in Nat
      BY <1>3, <1>Nats
    <3>3. QED
      BY <3>1, <3>2
  <2>2. QED
    BY <1>2, <1>6, <2>1 DEF SlotsInv
<1>9. monitor' \in [Workers -> {"none", "watch", "stop", "start", "ended"}] /\ size' \in Nat
  BY <1>1, <1>2, <1>3 DEF TypeOK
<1>10. TypeOK'
  BY <1>2, <1>4, <1>5, <1>9 DEF TypeOK, clientVars, taskVars
<1>11. QED
  BY <1>4, <1>7, <1>8, <1>10

\* The slice loses its last worker at once, the size is one less after the worker's end.
LEMMA ScaleDownKeeps ==
  ASSUME IInv, ScaleDown
  PROVE  IInv'
<1> USE DEF IInv
<1>1. /\ scaler = "down" /\ scaler' = "stop" /\ restartMu' = "scaler"
      /\ victim' = workers[Len(workers)] /\ workers' = SubSeq(workers, 1, Len(workers) - 1)
      /\ UNCHANGED <<clientVars, taskVars, size, started, id, monitor, stop, doomed,
                     connVars, procVars>>
  BY DEF ScaleDown
<1>2. /\ workers \in Seq(Workers) /\ Len(workers) \in Nat /\ size = Len(workers)
      /\ DOMAIN workers = 1..Len(workers)
      /\ \A i \in 1..Len(workers) : workers[i] \in Workers
      /\ MinSize \in Nat \ {0} /\ MinSize < size
  BY <1>1, SizesAssumption DEF TypeOK, PositionsAreIds, SlotsInv
<1>3. Len(workers) >= 1 /\ workers[Len(workers)] \in Workers
  BY <1>2
<1>4. /\ workers' \in Seq(Workers) /\ Len(workers') = Len(workers) - 1
      /\ DOMAIN workers' = 1..(Len(workers) - 1)
      /\ \A i \in 1..(Len(workers) - 1) : workers'[i] = workers[i]
  <2>1. \A i \in 1..(Len(workers) - 1) : workers[i] \in Workers
    BY <1>2
  <2>2. /\ SubSeq(workers, 1, Len(workers) - 1) \in Seq(Workers)
        /\ Len(SubSeq(workers, 1, Len(workers) - 1)) = Len(workers) - 1
        /\ \A i \in 1..(Len(workers) - 1) :
             SubSeq(workers, 1, Len(workers) - 1)[i] = workers[i]
    BY <1>2, <1>3, <2>1
  <2>3. QED
    BY <1>1, <2>2
<1>5. \A i \in 1..(Len(workers) - 1) :
        i \in 1..Len(workers) /\ id[workers[i]] = i - 1 /\ workers[i] <= started
  BY <1>2 DEF PositionsAreIds, SlotsInv
<1>6. PositionsAreIds'
  BY <1>1, <1>2, <1>3, <1>4, <1>5 DEF PositionsAreIds
<1>7. SlotsInv'
  BY <1>1, <1>2, <1>4, <1>5 DEF SlotsInv
<1>8. TasksInv' /\ QueueInv' /\ WorkersInv'
  BY <1>1, TasksUntouched, WorkersUntouched DEF clientVars, taskVars, connVars, procVars
<1>9. TypeOK'
  BY <1>1, <1>3, <1>4 DEF TypeOK, clientVars, taskVars, connVars, procVars
<1>10. QED
  BY <1>6, <1>7, <1>8, <1>9

LEMMA StopVictimKeeps ==
  ASSUME IInv, StopVictim
  PROVE  IInv'
<1> USE DEF IInv
<1>1. /\ ShutdownWorker(victim) /\ size' = size - 1 /\ victim' = 0
      /\ restartMu' = "free" /\ scaler = "stop" /\ scaler' = "tick"
      /\ UNCHANGED <<clientVars, taskVars, workers, started, id, monitor, stop, doomed, connVars>>
  BY DEF StopVictim
<1>2. /\ TasksInv' /\ WorkersInv' /\ QueueInv'
      /\ proc' \in [Workers -> {"none", "up", "crashed"} \cup Reaped]
      /\ requests' \in [Workers -> SUBSET Tasks] /\ replies' \in [Workers -> Seq(Tasks)]
      /\ performed' \in [Tasks -> Nat]
  BY <1>1, ShutdownWorkerKeeps
<1>3. size \in Nat /\ MinSize \in Nat \ {0} /\ MinSize < size /\ size = Len(workers) + 1
  BY <1>1, SizesAssumption DEF TypeOK, SlotsInv, PositionsAreIds
<1>4. PositionsAreIds' /\ SlotsInv'
  <2>1. size' = Len(workers) /\ MinSize <= size'
    BY <1>1, <1>3 DEF TypeOK
  <2>2. QED
    BY <1>1, <1>3, <2>1 DEF PositionsAreIds, SlotsInv
<1>5. size' \in Nat
  BY <1>1, <1>3
<1>6. TypeOK'
  BY <1>1, <1>2, <1>5 DEF TypeOK, clientVars, taskVars, connVars
<1>7. QED
  BY <1>2, <1>4, <1>6

-----------------------------------------------------------------------------
(* Shutdown *)

LEMMA ShutdownKeeps ==
  ASSUME IInv, Shutdown
  PROVE  IInv'
<1>1. CASE BeginShutdown \/ CopyWorkers \/ ShutdownDone
  <2>1. /\ UNCHANGED <<clientVars, taskVars, procVars, workers, size, started, id, count, mu,
                       broken, healthy, monitor, restartMu, scaler, victim>>
        /\ stop' \in {"wait", "stop", "done"} /\ doomed' \in {doomed, workers}
    BY <1>1 DEF BeginShutdown, CopyWorkers, ShutdownDone, connVars
  <2>2. /\ monitor \in [Workers -> {"none", "watch", "stop", "start", "ended"}]
        /\ restartMu \in {"free", "monitor", "scaler"}
        /\ scaler \in {"tick", "up", "down", "stop", "end"}
        /\ doomed \in Seq(Workers) /\ workers \in Seq(Workers)
    BY DEF IInv, TypeOK
  <2>3. QED
    BY <2>1, <2>2, PlainStepKeeps
<1>2. CASE StopNext
  <2> USE DEF IInv
  <2>1. /\ doomed # <<>> /\ ShutdownWorker(Head(doomed)) /\ doomed' = Tail(doomed)
        /\ UNCHANGED <<clientVars, taskVars, workers, size, started, id, monitor, restartMu,
                       scaler, victim, stop, connVars>>
    BY <1>2 DEF StopNext
  <2>2. /\ TasksInv' /\ WorkersInv' /\ QueueInv'
        /\ proc' \in [Workers -> {"none", "up", "crashed"} \cup Reaped]
        /\ requests' \in [Workers -> SUBSET Tasks] /\ replies' \in [Workers -> Seq(Tasks)]
        /\ performed' \in [Tasks -> Nat]
    BY <2>1, ShutdownWorkerKeeps
  <2>3. PositionsAreIds' /\ SlotsInv'
    BY <2>1, SlotsUntouched DEF slotVars
  <2>4. doomed' \in Seq(Workers)
    BY <2>1 DEF TypeOK
  <2>5. TypeOK'
    BY <2>1, <2>2, <2>4 DEF TypeOK, clientVars, taskVars, connVars
  <2>6. QED
    BY <2>2, <2>3, <2>5
<1>3. QED
  BY <1>1, <1>2 DEF Shutdown

-----------------------------------------------------------------------------
LEMMA StutterKeeps ==
  ASSUME IInv, UNCHANGED vars
  PROVE  IInv'
<1> USE DEF IInv, vars
<1>1. TypeOK'
  BY DEF TypeOK, clientVars, taskVars, poolVars, connVars, procVars
<1>2. PositionsAreIds' /\ SlotsInv'
  BY SlotsUntouched DEF slotVars, poolVars
<1>3. TasksInv' /\ QueueInv' /\ WorkersInv'
  BY TasksUntouched, WorkersUntouched DEF clientVars, taskVars, connVars, procVars
<1>4. QED
  BY <1>1, <1>2, <1>3

LEMMA NextIInv == IInv /\ [Next]_vars => IInv'
<1> SUFFICES ASSUME IInv, [Next]_vars PROVE IInv'
  OBVIOUS
<1>1. ASSUME NEW t \in Tasks, Submit(t) \/ ExecuteTask(t) \/ Execute(t) PROVE IInv'
  BY <1>1, SubmitKeeps, ExecuteTaskKeeps, ExecuteKeeps
<1>2. CASE Dispatch \/ DispatcherEnds
  BY <1>2, DispatchKeeps
<1>3. ASSUME NEW w \in Workers, \/ \E t \in Tasks : Perform(w, t)
                                \/ Crash(w) \/ Restart(w) \/ MonitorEnds(w)
      PROVE  IInv'
  BY <1>3, ProcessKeeps, MonitorKeeps
<1>4. CASE Scale \/ ScalerEnds
  BY <1>4, TickKeeps, ScaleUpKeeps, ScaleDownKeeps, StopVictimKeeps DEF Scale
<1>5. CASE Shutdown
  BY <1>5, ShutdownKeeps
<1>6. CASE Quiet \/ UNCHANGED vars
  BY <1>6, StutterKeeps DEF Quiet
<1>7. QED
  BY <1>1, <1>2, <1>3, <1>4, <1>5, <1>6 DEF Next

\* The slice, the tasks and the connections agree in every reachable state, for any tasks,
\* sizes, restarts and crashes.
THEOREM Invariance == Spec => []IInv
BY InitIInv, NextIInv, PTL DEF Spec

\* The types hold for any sizes: scaleDown never meets an empty slice, and a call of
\* execute has a worker.
THEOREM TypeCorrect == Spec => []TypeOK
<1>1. IInv => TypeOK
  BY DEF IInv
<1>2. QED
  BY <1>1, Invariance, PTL

\* However workers are restarted, added and removed, a worker's id is its position and
\* no two of the slice share a socket.
THEOREM IdsArePositions == Spec => []PositionsAreIds
<1>1. IInv => PositionsAreIds
  BY DEF IInv
<1>2. QED
  BY <1>1, Invariance, PTL

\* No timeout, late answer or restart gives a caller the data of another task.
THEOREM AnswersAreOwn == Spec => []AnswerIsOwn
<1>1. IInv => AnswerIsOwn
  BY DEF IInv, TasksInv, TaskInv, AnswerIsOwn
<1>2. QED
  BY <1>1, Invariance, PTL

-----------------------------------------------------------------------------
(* The pool implements TaskService *)

Requested == [t \in Tasks |-> Request(t)]

LEMMA ServiceVars == Service!vars = <<Requested, box, performed>>
BY DEF Service!vars, Requested

\* A step that is not seen by callers
LEMMA Unseen ==
  ASSUME UNCHANGED <<client, box, performed>>
  PROVE  UNCHANGED Service!vars
BY DEF Service!vars, Request

LEMMA SubmitImplements ==
  ASSUME IInv, NEW t \in Tasks, Submit(t)
  PROVE  [Service!Next]_(Service!vars)
<1>1. UNCHANGED <<box, performed>> /\ client \in [Tasks -> {"sending", "waiting", "gone"}]
  BY DEF Submit, Enqueue, Refuse, Abandon, Receive, taskVars, procVars, IInv, TypeOK
<1>2. CASE Enqueue(t)
  <2>1. client[t] = "sending" /\ client' = [client EXCEPT ![t] = "waiting"]
    BY <1>2 DEF Enqueue
  <2>2. Requested' = [Requested EXCEPT ![t] = "accepted"] /\ Requested[t] = "new"
    BY <1>1, <2>1 DEF Requested, Request
  <2>3. Service!Accept(t)
    BY <1>1, <2>2 DEF Service!Accept, Requested
  <2>4. QED
    BY <2>3 DEF Service!Next
<1>3. CASE Refuse(t) \/ Abandon(t) \/ Receive(t)
  <2>1. client[t] \in {"sending", "waiting"} /\ client' = [client EXCEPT ![t] = "gone"]
    BY <1>3 DEF Refuse, Abandon, Receive
  <2>2. Requested' = [Requested EXCEPT ![t] = "over"] /\ Requested[t] # "over"
    BY <1>1, <2>1 DEF Requested, Request
  <2>3. Service!Leave(t)
    BY <1>1, <2>2 DEF Service!Leave, Requested
  <2>4. QED
    BY <2>3 DEF Service!Next
<1>4. QED
  BY <1>2, <1>3 DEF Submit

LEMMA AnswerImplements ==
  ASSUME IInv, NEW t \in Tasks, ExecuteTask(t)
  PROVE  [Service!Next]_(Service!vars)
<1>1. CASE PickWorker(t)
  BY <1>1, Unseen DEF PickWorker, clientVars, procVars
<1>2. CASE NoWorker(t) \/ TakeResult(t) \/ Timeout(t)
  <2>1. PICK r \in {"error", result[t]} : box' = [box EXCEPT ![t] = r] /\ r # "none"
    BY <1>2 DEF NoWorker, TakeResult, Timeout, Answer
  <2>2. runner[t] \in {"pick", "select"} /\ UNCHANGED <<client, performed>>
    BY <1>2 DEF NoWorker, TakeResult, Timeout, clientVars, procVars
  <2>3. client[t] # "sending" /\ box[t] = "none" /\ (r = "error" \/ (r = t /\ performed[t] = 1))
    BY <2>1, <2>2 DEF IInv, TasksInv, TaskInv
  <2>4. Requested' = Requested /\ Requested[t] # "new"
    BY <2>2, <2>3 DEF Requested, Request
  <2>5. Service!Answer(t)
    BY <2>1, <2>2, <2>3, <2>4 DEF Service!Answer, Requested
  <2>6. QED
    BY <2>5 DEF Service!Next
<1>3. QED
  BY <1>1, <1>2 DEF ExecuteTask

LEMMA PerformImplements ==
  ASSUME IInv, NEW w \in Workers, NEW t \in Tasks, Perform(w, t)
  PROVE  Service!Next
<1>1. /\ t \in requests[w] /\ performed' = [performed EXCEPT ![t] = @ + 1]
      /\ UNCHANGED <<client, box>>
  BY DEF Perform, clientVars, taskVars
<1>2. call[t] # "none" /\ performed[t] = 0
  BY <1>1 DEF IInv, WorkersInv, WorkerInv
<1>3. client[t] # "sending"
  BY <1>2 DEF IInv, TasksInv, TaskInv
<1>4. Requested' = Requested /\ Requested[t] # "new"
  BY <1>1, <1>3 DEF Requested, Request
<1>5. performed' = [performed EXCEPT ![t] = 1]
  BY <1>1, <1>2
<1>6. QED
  BY <1>1, <1>2, <1>4, <1>5 DEF Service!Next, Service!Perform, Requested

\* Whatever the pool does, its callers see TaskService: a task is accepted once, performed
\* at most once, and answered at most once, with its own data only if it was performed.
THEOREM Refinement == Spec => ImplementsTaskService
<1>1. Init => Service!Init
  BY DEF Init, Service!Init, Request
<1>2. IInv /\ [Next]_vars => [Service!Next]_(Service!vars)
  <2> SUFFICES ASSUME IInv, [Next]_vars PROVE [Service!Next]_(Service!vars)
    OBVIOUS
  <2>1. ASSUME NEW t \in Tasks, Submit(t) \/ ExecuteTask(t) PROVE [Service!Next]_(Service!vars)
    BY <2>1, SubmitImplements, AnswerImplements
  <2>2. ASSUME NEW t \in Tasks, Execute(t) PROVE UNCHANGED Service!vars
    BY <2>2, ExecuteFrame, Unseen DEF clientVars
  <2>3. ASSUME NEW w \in Workers, NEW t \in Tasks, Perform(w, t) PROVE Service!Next
    BY <2>3, PerformImplements
  <2>4. CASE Dispatch \/ DispatcherEnds
    BY <2>4, Unseen DEF Dispatch, DispatcherEnds, taskVars, procVars
  <2>5. ASSUME NEW w \in Workers, Crash(w) \/ Restart(w) \/ MonitorEnds(w)
        PROVE  UNCHANGED Service!vars
    <3>1. UNCHANGED <<client, box, performed>>
      BY <2>5 DEF Crash, Restart, BeginRestart, StopOld, StartNew, RestartFails, MonitorEnds,
             ShutdownWorker, StartWorker, clientVars, taskVars, procVars
    <3>2. QED
      BY <3>1, Unseen
  <2>6. CASE Scale \/ ScalerEnds
    <3>1. UNCHANGED <<client, box, performed>>
      BY <2>6 DEF Scale, Tick, ScaleUp, ScaleUpFails, ScaleDown, StopVictim, ScalerEnds,
             ShutdownWorker, StartWorker, clientVars, taskVars, procVars
    <3>2. QED
      BY <3>1, Unseen
  <2>7. CASE Shutdown
    <3>1. UNCHANGED <<client, box, performed>>
      BY <2>7 DEF Shutdown, BeginShutdown, CopyWorkers, StopNext, ShutdownDone,
             ShutdownWorker, clientVars, taskVars, procVars
    <3>2. QED
      BY <3>1, Unseen
  <2>8. CASE Quiet \/ UNCHANGED vars
    BY <2>8, Unseen DEF Quiet, vars, clientVars, taskVars, procVars
  <2>9. QED
    BY <2>1, <2>2, <2>3, <2>4, <2>5, <2>6, <2>7, <2>8 DEF Next
<1>3. QED
  BY <1>1, <1>2, Invariance, PTL DEF Spec, ImplementsTaskService, Service!Spec
=============================================================================
