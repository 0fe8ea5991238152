------------------------ MODULE WorkflowRunnerProofs ------------------------
(***************************************************************************)
(* Proofs about WorkflowRunner, for every set of nodes, every workflow and *)
(* every limit, and about WorkflowExecution, where Validate comes first.   *)
(***************************************************************************)
EXTENDS WorkflowExecution, FiniteSetTheorems, SequenceTheorems, TLAPS

\* A subset of Nodes that gains a node counts one more.
LEMMA CardinalityAdd ==
  ASSUME NEW S, S \subseteq Nodes, NEW n \in Nodes, n \notin S
  PROVE  /\ Cardinality(S \cup {n}) = Cardinality(S) + 1
         /\ Cardinality(S) \in Nat
<1>1. IsFiniteSet(S)
  BY NodesAssumption, FS_Subset
<1>2. QED
  BY <1>1, FS_AddElement, FS_CardinalityType

\* A subset of Nodes that loses a node counts one less.
LEMMA CardinalityRemove ==
  ASSUME NEW S, S \subseteq Nodes, NEW n \in S
  PROVE  /\ Cardinality(S \ {n}) = Cardinality(S) - 1
         /\ Cardinality(S) \in Nat \ {0}
<1>1. IsFiniteSet(S)
  BY NodesAssumption, FS_Subset
<1>2. Cardinality(S) \in Nat /\ Cardinality(S \ {n}) = Cardinality(S) - 1
  BY <1>1, FS_RemoveElement, FS_CardinalityType
<1>3. Cardinality(S) # 0
  BY <1>1, FS_EmptySet
<1>4. QED
  BY <1>2, <1>3

\* What the counters count is finite.
LEMMA CountersFinite == Cardinality(InFlight) \in Nat /\ Cardinality(Holding) \in Nat
<1>1. IsFiniteSet(InFlight) /\ IsFiniteSet(Holding)
  BY NodesAssumption, FS_Subset DEF InFlight, Holding
<1>2. QED
  BY <1>1, FS_CardinalityType

LEMMA InitIInv == Init => IInv
<1> SUFFICES ASSUME Init PROVE IInv
  OBVIOUS
<1>1. Holding = {} /\ InFlight = {} /\ Over = {}
  BY DEF Init, Holding, InFlight, Over, Working
<1>2. Cardinality({}) = 0
  BY FS_EmptySet
<1>3. TypeOK
  <2>1. sem \in 0..MaxConcurrentNodes /\ wg \in Nat
    BY LimitsAssumption DEF Init
  <2>2. node \in [Nodes -> NodeSteps] /\ tries \in [Nodes -> 0..MaxAttempts]
    BY LimitsAssumption DEF Init, NodeSteps, Working
  <2>3. errChan \in Seq(Nodes)
    BY DEF Init
  <2>4. QED
    BY <2>1, <2>2, <2>3 DEF Init, TypeOK
<1>4. CountersInv
  BY <1>1, <1>2 DEF Init, CountersInv
<1>5. NodesInv /\ ErrorsInv /\ RunInv /\ QuiescenceInv
  BY <1>1, LimitsAssumption DEF Init, NodesInv, ErrorsInv, RunInv, QuiescenceInv
<1>6. QED
  BY <1>3, <1>4, <1>5 DEF IInv

-----------------------------------------------------------------------------
(* Steps of a node's goroutine *)

\* The steps between the launch of a node and the release of its slot
Inside == Working \ {"release"}

\* A goroutine that moves on inside its work leaves the counted sets alone.
LEMMA StepInside ==
  ASSUME node \in [Nodes -> NodeSteps], NEW n \in Nodes, NEW step \in Inside,
         node[n] \in Inside, Goto(n, step)
  PROVE  /\ node' \in [Nodes -> NodeSteps]
         /\ Holding' = Holding /\ InFlight' = InFlight /\ Over' = Over
         /\ n \in InFlight
         /\ node'[n] = step /\ \A m \in Nodes : m # n => node'[m] = node[m]
<1>1. node' \in [Nodes -> NodeSteps]
  BY DEF Goto, NodeSteps, Inside, Working
<1>2. node'[n] = step /\ \A m \in Nodes : m # n => node'[m] = node[m]
  BY DEF Goto
<1>3. Holding' = Holding /\ InFlight' = InFlight /\ Over' = Over
  BY <1>1, <1>2 DEF Holding, InFlight, Over, Inside, Working, NodeSteps
<1>4. QED
  BY <1>1, <1>2, <1>3 DEF InFlight, Inside, Working

\* While some node is in flight Run has not returned nil, and an end that is not
\* cancelled is still to come.
LEMMA InFlightFacts ==
  ASSUME IInv, NEW n \in InFlight
  PROVE  /\ verdict # "ok" /\ pc \notin {"create", "plan", "collect"}
         /\ pc \in {"marshal", "persist"} => ctxDone
BY DEF IInv, RunInv, QuiescenceInv, InFlight, Working

\* A step inside a node's work that touches nothing of Run keeps the invariant, if it
\* has a result before it saves one and an attempt left before it makes one.
LEMMA InsideInv ==
  ASSUME IInv, NEW n \in Nodes, NEW step \in Inside, node[n] \in Inside, Goto(n, step),
         UNCHANGED <<runVars, executed, ctxDone, row, rowState>>,
         results' \in {results, results \cup {n}}, saved' \subseteq Nodes,
         tries' \in [Nodes -> 0..MaxAttempts],
         \A m \in Nodes : m # n => tries'[m] = tries[m],
         step \in {"wait", "call", "backoff"} => tries'[n] < MaxAttempts,
         step \in {"save", "mark"} => n \in results'
  PROVE  IInv'
<1> USE DEF IInv
<1>1. /\ node' \in [Nodes -> NodeSteps]
      /\ Holding' = Holding /\ InFlight' = InFlight /\ Over' = Over /\ n \in InFlight
      /\ node'[n] = step /\ \A m \in Nodes : m # n => node'[m] = node[m]
  BY StepInside DEF TypeOK
<1>2. TypeOK'
  BY <1>1 DEF TypeOK, runVars
<1>3. CountersInv'
  BY <1>1 DEF CountersInv, runVars
<1>4. NodesInv'
  <2>1. \A m \in Nodes : Dependencies(m)' = Dependencies(m)
    BY DEF Dependencies, runVars
  <2>2. executed' \subseteq Over' /\ executed' \subseteq results'
    BY <1>1 DEF NodesInv
  <2>3. \A m \in Nodes : node'[m] \in {"save", "mark"} => m \in results'
    BY <1>1 DEF NodesInv
  <2>4. \A m \in Nodes : m \in ready' \/ node'[m] # "idle" => Dependencies(m)' \subseteq executed'
    BY <1>1, <2>1 DEF NodesInv, runVars, Inside, Working
  <2>5. \A m \in ready' : node'[m] = "idle"
    BY <1>1 DEF NodesInv, runVars, Inside, Working, TypeOK
  <2>6. \A m \in Nodes :
          node'[m] \in {"idle", "wait", "call", "backoff"} => tries'[m] < MaxAttempts
    BY <1>1 DEF NodesInv, Inside, Working
  <2>7. QED
    BY <2>2, <2>3, <2>4, <2>5, <2>6 DEF NodesInv
<1>5. ErrorsInv'
  BY <1>1 DEF ErrorsInv, runVars
<1>6. RunInv'
  <2>1. StartNodes' = StartNodes
    BY DEF StartNodes, runVars
  <2>2. verdict # "ok" /\ pc \notin {"create", "plan", "collect"}
    BY <1>1, InFlightFacts
  <2>3. QED
    BY <1>1, <2>1, <2>2 DEF RunInv, runVars
<1>7. QuiescenceInv'
  BY <1>1, InFlightFacts DEF QuiescenceInv, runVars
<1>8. QED
  BY <1>2, <1>3, <1>4, <1>5, <1>6, <1>7

\* Prepare, the attempts, Backoff and SaveResult are such steps.
LEMMA WorkInv ==
  ASSUME IInv, NEW n \in Nodes,
         \/ Prepare(n) \/ CallSucceeds(n) \/ CallFailsRetryably(n) \/ CallFails(n)
         \/ Backoff(n) \/ SaveResult(n)
  PROVE  IInv'
<1>1. /\ tries \in [Nodes -> 0..MaxAttempts] /\ results \subseteq Nodes /\ saved \subseteq Nodes
      /\ node[n] \in {"wait", "call", "backoff"} => tries[n] < MaxAttempts
      /\ node[n] \in {"save", "mark"} => n \in results
  BY DEF IInv, TypeOK, NodesInv
<1>2. {"wait", "call", "backoff", "save", "mark", "send"} = Inside
  BY DEF Inside, Working
<1>3. CASE Prepare(n)
  <2>1. PICK step \in {"call", "send"} : Goto(n, step)
    BY <1>3 DEF Prepare
  <2>2. QED
    BY <1>1, <1>2, <1>3, <2>1, InsideInv DEF Prepare, dbVars
<1>4. CASE CallSucceeds(n)
  BY <1>1, <1>2, <1>4, InsideInv DEF CallSucceeds, dbVars
<1>5. CASE CallFailsRetryably(n)
  <2>1. PICK step \in {"backoff", "send"} :
          Goto(n, step) /\ (step = "backoff" => tries[n] + 1 < MaxAttempts)
    BY <1>5 DEF CallFailsRetryably
  <2>2. /\ tries' \in [Nodes -> 0..MaxAttempts]
        /\ tries'[n] = tries[n] + 1
        /\ \A m \in Nodes : m # n => tries'[m] = tries[m]
    BY <1>1, <1>5, LimitsAssumption DEF CallFailsRetryably
  <2>3. QED
    BY <1>1, <1>2, <1>5, <2>1, <2>2, InsideInv DEF CallFailsRetryably, dbVars
<1>6. CASE CallFails(n)
  BY <1>1, <1>2, <1>6, InsideInv DEF CallFails, dbVars
<1>7. CASE Backoff(n)
  <2>1. PICK step \in {"call", "send"} : Goto(n, step)
    BY <1>7 DEF Backoff
  <2>2. QED
    BY <1>1, <1>2, <1>7, <2>1, InsideInv DEF Backoff, dbVars
<1>8. CASE SaveResult(n)
  <2>1. saved' \subseteq Nodes
    BY <1>1, <1>8 DEF SaveResult
  <2>2. QED
    BY <1>1, <1>2, <1>8, <2>1, InsideInv DEF SaveResult
<1>9. QED
  BY <1>3, <1>4, <1>5, <1>6, <1>7, <1>8

\* MarkExecuted moves a node with a result from its work to those that are over.
LEMMA MarkExecutedInv ==
  ASSUME IInv, NEW n \in Nodes, MarkExecuted(n)
  PROVE  IInv'
<1> USE DEF IInv
<1>1. /\ node[n] = "mark" /\ n \in InFlight /\ n \in results /\ n \notin executed
      /\ node' \in [Nodes -> NodeSteps]
      /\ node'[n] = "release" /\ \A m \in Nodes : m # n => node'[m] = node[m]
      /\ executed' = executed \cup {n}
      /\ UNCHANGED <<runVars, tries, results, ctxDone, dbVars>>
  BY DEF MarkExecuted, Goto, TypeOK, NodesInv, InFlight, Over, NodeSteps, Working
<1>2. Holding' = Holding /\ InFlight' = InFlight /\ Over' = Over \cup {n}
  BY <1>1 DEF Holding, InFlight, Over, Working
<1>3. TypeOK'
  BY <1>1 DEF TypeOK, runVars, dbVars
<1>4. CountersInv'
  BY <1>1, <1>2 DEF CountersInv, runVars
<1>5. NodesInv'
  <2>1. \A m \in Nodes : Dependencies(m)' = Dependencies(m)
    BY <1>1 DEF Dependencies, runVars
  <2>2. executed' \subseteq Over' /\ executed' \subseteq results'
    BY <1>1, <1>2 DEF NodesInv
  <2>3. \A m \in Nodes : m \in ready' \/ node'[m] # "idle" => Dependencies(m)' \subseteq executed'
    BY <1>1, <2>1 DEF NodesInv, runVars
  <2>4. QED
    BY <1>1, <2>2, <2>3 DEF NodesInv, runVars, TypeOK
<1>6. ErrorsInv'
  BY <1>1, <1>2 DEF ErrorsInv, runVars
<1>7. RunInv'
  <2>1. StartNodes' = StartNodes
    BY <1>1 DEF StartNodes, runVars
  <2>2. verdict # "ok" /\ pc \notin {"create", "plan", "collect"}
    BY <1>1, InFlightFacts
  <2>3. QED
    BY <1>1, <2>1, <2>2 DEF RunInv, runVars, dbVars
<1>8. QuiescenceInv'
  BY <1>1, InFlightFacts DEF QuiescenceInv, runVars
<1>9. QED
  BY <1>3, <1>4, <1>5, <1>6, <1>7, <1>8

\* SendError moves a node that gave up to those that are over, its error in the channel.
LEMMA SendErrorInv ==
  ASSUME IInv, NEW n \in Nodes, SendError(n)
  PROVE  IInv'
<1> USE DEF IInv
<1>1. /\ node[n] = "send" /\ n \in InFlight
      /\ node' \in [Nodes -> NodeSteps]
      /\ node'[n] = "release" /\ \A m \in Nodes : m # n => node'[m] = node[m]
      /\ errChan' = Append(errChan, n)
      /\ UNCHANGED <<edges, pc, ready, sem, wg, final, verdict, snapshot,
                     tries, executed, results, ctxDone, dbVars>>
  BY DEF SendError, Goto, TypeOK, InFlight, NodeSteps, Working
<1>2. Holding' = Holding /\ InFlight' = InFlight /\ Over' = Over \cup {n}
  BY <1>1 DEF Holding, InFlight, Over, Working
<1>3. errChan' \in Seq(Nodes) /\ errChan' # <<>>
  BY <1>1 DEF TypeOK
<1>4. TypeOK'
  BY <1>1, <1>3 DEF TypeOK, dbVars
<1>5. CountersInv'
  BY <1>1, <1>2 DEF CountersInv
<1>6. NodesInv'
  <2>1. \A m \in Nodes : Dependencies(m)' = Dependencies(m)
    BY <1>1 DEF Dependencies
  <2>2. QED
    BY <1>1, <1>2, <2>1 DEF NodesInv, TypeOK
<1>7. ErrorsInv'
  BY <1>3 DEF ErrorsInv
<1>8. RunInv'
  <2>1. StartNodes' = StartNodes
    BY <1>1 DEF StartNodes
  <2>2. verdict # "ok" /\ pc \notin {"create", "plan", "collect"}
    BY <1>1, InFlightFacts
  <2>3. QED
    BY <1>1, <2>1, <2>2 DEF RunInv, dbVars
<1>9. QuiescenceInv'
  BY <1>1, InFlightFacts DEF QuiescenceInv
<1>10. QED
  BY <1>4, <1>5, <1>6, <1>7, <1>8, <1>9

\* Release gives back the slot the node holds.
LEMMA ReleaseInv ==
  ASSUME IInv, NEW n \in Nodes, Release(n)
  PROVE  IInv'
<1> USE DEF IInv
<1>1. /\ node[n] = "release" /\ n \in InFlight /\ n \in Holding
      /\ node' \in [Nodes -> NodeSteps]
      /\ node'[n] = "finish" /\ \A m \in Nodes : m # n => node'[m] = node[m]
      /\ sem' = sem - 1
      /\ UNCHANGED <<edges, pc, ready, wg, errChan, final, verdict, snapshot,
                     tries, executed, results, ctxDone, dbVars>>
  BY DEF Release, Goto, TypeOK, InFlight, Holding, NodeSteps, Working
<1>2. Holding' = Holding \ {n} /\ InFlight' = InFlight /\ Over' = Over
  BY <1>1 DEF Holding, InFlight, Over, Working
<1>3. sem' = Cardinality(Holding') /\ sem' \in 0..MaxConcurrentNodes
  <2>1. Holding \subseteq Nodes /\ sem = Cardinality(Holding) /\ sem \in 0..MaxConcurrentNodes
    BY DEF Holding, CountersInv, TypeOK
  <2>2. QED
    BY <1>1, <1>2, <2>1, CardinalityRemove, LimitsAssumption
<1>4. TypeOK'
  BY <1>1, <1>3 DEF TypeOK, dbVars
<1>5. CountersInv'
  BY <1>1, <1>2, <1>3 DEF CountersInv
<1>6. NodesInv'
  <2>1. \A m \in Nodes : Dependencies(m)' = Dependencies(m)
    BY <1>1 DEF Dependencies
  <2>2. QED
    BY <1>1, <1>2, <2>1 DEF NodesInv, TypeOK
<1>7. ErrorsInv'
  BY <1>1, <1>2 DEF ErrorsInv
<1>8. RunInv'
  <2>1. StartNodes' = StartNodes
    BY <1>1 DEF StartNodes
  <2>2. verdict # "ok" /\ pc \notin {"create", "plan", "collect"}
    BY <1>1, InFlightFacts
  <2>3. QED
    BY <1>1, <2>1, <2>2 DEF RunInv, dbVars
<1>9. QuiescenceInv'
  BY <1>1, InFlightFacts DEF QuiescenceInv
<1>10. QED
  BY <1>4, <1>5, <1>6, <1>7, <1>8, <1>9

\* Finish counts the node out of the wait group.
LEMMA FinishInv ==
  ASSUME IInv, NEW n \in Nodes, Finish(n)
  PROVE  IInv'
<1> USE DEF IInv
<1>1. /\ node[n] = "finish" /\ n \in InFlight
      /\ node' \in [Nodes -> NodeSteps]
      /\ node'[n] = "done" /\ \A m \in Nodes : m # n => node'[m] = node[m]
      /\ wg' = wg - 1
      /\ UNCHANGED <<edges, pc, ready, sem, errChan, final, verdict, snapshot,
                     tries, executed, results, ctxDone, dbVars>>
  BY DEF Finish, Goto, TypeOK, InFlight, NodeSteps, Working
<1>2. Holding' = Holding /\ InFlight' = InFlight \ {n} /\ Over' = Over
  BY <1>1 DEF Holding, InFlight, Over, Working
<1>3. wg' = Cardinality(InFlight') + (IF pc' = "acquire" THEN 1 ELSE 0) /\ wg' \in Nat
  <2>1. InFlight \subseteq Nodes /\ wg = Cardinality(InFlight) + (IF pc = "acquire" THEN 1 ELSE 0)
    BY DEF InFlight, CountersInv
  <2>2. Cardinality(InFlight') = Cardinality(InFlight) - 1 /\ Cardinality(InFlight) \in Nat \ {0}
    BY <1>1, <1>2, <2>1, CardinalityRemove
  <2>3. pc' = pc /\ wg' = wg - 1
    BY <1>1
  <2>4. QED
    BY <2>1, <2>2, <2>3
<1>4. TypeOK'
  BY <1>1, <1>3 DEF TypeOK, dbVars
<1>5. CountersInv'
  BY <1>1, <1>2, <1>3 DEF CountersInv
<1>6. NodesInv'
  <2>1. \A m \in Nodes : Dependencies(m)' = Dependencies(m)
    BY <1>1 DEF Dependencies
  <2>2. QED
    BY <1>1, <1>2, <2>1 DEF NodesInv, TypeOK
<1>7. ErrorsInv'
  BY <1>1, <1>2 DEF ErrorsInv
<1>8. RunInv'
  <2>1. StartNodes' = StartNodes
    BY <1>1 DEF StartNodes
  <2>2. verdict # "ok" /\ pc \notin {"create", "plan", "collect"}
    BY <1>1, InFlightFacts
  <2>3. QED
    BY <1>1, <2>1, <2>2 DEF RunInv, dbVars
<1>9. QuiescenceInv'
  BY <1>1, InFlightFacts DEF QuiescenceInv
<1>10. QED
  BY <1>4, <1>5, <1>6, <1>7, <1>8, <1>9

-----------------------------------------------------------------------------
(* Steps of Run *)

\* Acquire starts a ready node: it takes a slot, and was counted by NextNode already.
LEMMA AcquireInv ==
  ASSUME IInv, NEW n \in Nodes, Acquire(n)
  PROVE  IInv'
<1> USE DEF IInv
<1>1. /\ pc = "acquire" /\ pc' = "launch" /\ n \in ready /\ ready' = ready \ {n}
      /\ sem < MaxConcurrentNodes /\ sem' = sem + 1
      /\ node[n] = "idle" /\ n \notin InFlight /\ n \notin Holding
      /\ node' \in [Nodes -> NodeSteps]
      /\ node'[n] = "wait" /\ \A m \in Nodes : m # n => node'[m] = node[m]
      /\ UNCHANGED <<edges, wg, errChan, final, verdict, snapshot,
                     tries, executed, results, ctxDone, dbVars>>
  BY DEF Acquire, SlotFree, Goto, TypeOK, NodesInv, InFlight, Holding, NodeSteps, Working
<1>2. Holding' = Holding \cup {n} /\ InFlight' = InFlight \cup {n} /\ Over' = Over
  BY <1>1 DEF Holding, InFlight, Over, Working
<1>3. sem' = Cardinality(Holding') /\ sem' \in 0..MaxConcurrentNodes
  <2>1. Holding \subseteq Nodes /\ sem = Cardinality(Holding) /\ sem \in 0..MaxConcurrentNodes
    BY DEF Holding, CountersInv, TypeOK
  <2>2. Cardinality(Holding') = Cardinality(Holding) + 1
    BY <1>1, <1>2, <2>1, CardinalityAdd
  <2>3. QED
    BY <1>1, <2>1, <2>2, LimitsAssumption
<1>4. wg' = Cardinality(InFlight') + (IF pc' = "acquire" THEN 1 ELSE 0)
  <2>1. InFlight \subseteq Nodes /\ wg = Cardinality(InFlight) + 1
    BY <1>1 DEF InFlight, CountersInv
  <2>2. Cardinality(InFlight') = Cardinality(InFlight) + 1 /\ Cardinality(InFlight) \in Nat
    BY <1>1, <1>2, <2>1, CardinalityAdd
  <2>3. wg' = wg /\ pc' # "acquire"
    BY <1>1
  <2>4. QED
    BY <2>1, <2>2, <2>3
<1>5. TypeOK'
  BY <1>1, <1>3 DEF TypeOK, dbVars
<1>6. CountersInv'
  BY <1>3, <1>4 DEF CountersInv
<1>7. NodesInv'
  <2>1. \A m \in Nodes : Dependencies(m)' = Dependencies(m)
    BY <1>1 DEF Dependencies
  <2>2. QED
    BY <1>1, <1>2, <2>1 DEF NodesInv, TypeOK
<1>8. ErrorsInv'
  BY <1>1, <1>2 DEF ErrorsInv
<1>9. RunInv'
  BY <1>1 DEF RunInv, dbVars
<1>10. QuiescenceInv'
  BY <1>1 DEF QuiescenceInv
<1>11. QED
  BY <1>5, <1>6, <1>7, <1>8, <1>9, <1>10

\* The other steps of Run leave the node goroutines alone.
LEMMA NodesUntouched ==
  ASSUME IInv, UNCHANGED <<edges, node, tries, executed, results>>,
         \A n \in ready' : n \in Nodes /\ node[n] = "idle" /\ Dependencies(n) \subseteq executed
  PROVE  /\ Holding' = Holding /\ InFlight' = InFlight /\ Over' = Over
         /\ StartNodes' = StartNodes /\ ReadyNodes' = ReadyNodes
         /\ NodesInv'
<1>1. Holding' = Holding /\ InFlight' = InFlight /\ Over' = Over
  BY DEF Holding, InFlight, Over
<1>2. \A m \in Nodes : Dependencies(m)' = Dependencies(m)
  BY DEF Dependencies
<1>3. StartNodes' = StartNodes /\ ReadyNodes' = ReadyNodes
  BY <1>2 DEF StartNodes, ReadyNodes
<1>4. NodesInv'
  BY <1>1, <1>2 DEF IInv, NodesInv
<1>5. QED
  BY <1>1, <1>3, <1>4

\* The nodes that are already ready stay so.
LEMMA ReadyFacts ==
  ASSUME IInv
  PROVE  \A n \in ready : n \in Nodes /\ node[n] = "idle" /\ Dependencies(n) \subseteq executed
BY DEF IInv, TypeOK, NodesInv

LEMMA CreateExecutionInv ==
  ASSUME IInv, CreateExecution
  PROVE  IInv'
<1> USE DEF IInv
<1>1. /\ pc = "create" /\ verdict = "none" /\ row = "none"
      /\ \/ row' = "running" /\ pc' = "plan" /\ verdict' = verdict
         \/ row' = row /\ pc' = "returned" /\ verdict' = "error"
      /\ UNCHANGED <<edges, ready, sem, wg, errChan, final, snapshot, nodeVars,
                     ctxDone, rowState, saved>>
  BY DEF CreateExecution, Return, RunInv, TypeOK
<1>2. /\ Holding' = Holding /\ InFlight' = InFlight /\ Over' = Over
      /\ StartNodes' = StartNodes /\ ReadyNodes' = ReadyNodes
      /\ NodesInv'
  BY <1>1, ReadyFacts, NodesUntouched DEF nodeVars
<1>3. TypeOK'
  BY <1>1 DEF TypeOK, nodeVars
<1>4. CountersInv' /\ ErrorsInv' /\ QuiescenceInv'
  BY <1>1, <1>2 DEF CountersInv, ErrorsInv, QuiescenceInv, RunInv, nodeVars
<1>5. RunInv'
  BY <1>1, <1>2 DEF RunInv, nodeVars
<1>6. QED
  BY <1>2, <1>3, <1>4, <1>5

LEMMA PlanInv ==
  ASSUME IInv, Plan
  PROVE  IInv'
<1> USE DEF IInv
<1>1. /\ pc = "plan" /\ verdict = "none" /\ final = "completed" /\ row = "running"
      /\ executed = {} /\ ready = {} /\ \A n \in Nodes : node[n] = "idle"
      /\ UNCHANGED <<edges, sem, wg, errChan, snapshot, nodeVars, ctxDone, dbVars>>
  BY DEF Plan, RunInv, TypeOK
<1>2. \/ /\ StartNodes = {} /\ final' = final
         /\ verdict' = "error" /\ pc' = "marshal" /\ ready' = ready
      \/ /\ verdict' = "error" /\ final' = "failed" /\ pc' = "marshal" /\ ready' = ready
      \/ /\ verdict' = verdict /\ final' = final /\ pc' = "launch" /\ ready' = ReadyNodes
  BY DEF Plan, FailRun, Return
<1>3. \A n \in ready' : n \in Nodes /\ node[n] = "idle" /\ Dependencies(n) \subseteq executed
  BY <1>1, <1>2 DEF ReadyNodes
<1>4. /\ Holding' = Holding /\ InFlight' = InFlight /\ Over' = Over
      /\ StartNodes' = StartNodes /\ ReadyNodes' = ReadyNodes
      /\ NodesInv'
  BY <1>1, <1>3, NodesUntouched DEF nodeVars
<1>5. InFlight = {}
  BY <1>1 DEF InFlight, Working
<1>6. TypeOK'
  BY <1>1, <1>2, <1>3 DEF TypeOK, nodeVars, dbVars
<1>7. CountersInv' /\ ErrorsInv' /\ QuiescenceInv'
  BY <1>1, <1>2, <1>4, <1>5 DEF CountersInv, ErrorsInv, QuiescenceInv, nodeVars
<1>8. RunInv'
  BY <1>1, <1>2, <1>4 DEF RunInv, nodeVars, dbVars
<1>9. QED
  BY <1>4, <1>6, <1>7, <1>8

LEMMA NextNodeInv ==
  ASSUME IInv, NextNode
  PROVE  IInv'
<1> USE DEF IInv
<1>1. /\ pc = "launch" /\ verdict = "none" /\ final = "completed" /\ row = "running" /\ ready # {}
      /\ UNCHANGED <<edges, ready, sem, errChan, snapshot, nodeVars, ctxDone, dbVars>>
  BY DEF NextNode, RunInv, TypeOK
<1>2. \/ /\ ctxDone /\ verdict' = "error" /\ final' = "failed" /\ pc' = "marshal" /\ wg' = wg
      \/ wg' = wg + 1 /\ pc' = "acquire" /\ final' = final /\ verdict' = verdict
  BY DEF NextNode, FailRun, Return
<1>3. /\ Holding' = Holding /\ InFlight' = InFlight /\ Over' = Over
      /\ StartNodes' = StartNodes /\ ReadyNodes' = ReadyNodes
      /\ NodesInv'
  BY <1>1, ReadyFacts, NodesUntouched DEF nodeVars
<1>4. TypeOK'
  BY <1>1, <1>2 DEF TypeOK, nodeVars, dbVars
<1>5. CountersInv'
  <2>1. wg = Cardinality(InFlight) /\ wg \in Nat
    BY <1>1, CountersFinite DEF CountersInv
  <2>2. wg' = Cardinality(InFlight') + (IF pc' = "acquire" THEN 1 ELSE 0)
    BY <1>2, <1>3, <2>1
  <2>3. QED
    BY <1>1, <1>3, <2>2 DEF CountersInv
<1>6. ErrorsInv' /\ QuiescenceInv'
  BY <1>1, <1>2, <1>3 DEF ErrorsInv, QuiescenceInv, nodeVars
<1>7. RunInv'
  BY <1>1, <1>2, <1>3 DEF RunInv, nodeVars, dbVars
<1>8. QED
  BY <1>3, <1>4, <1>5, <1>6, <1>7

\* The wait group is zero only when no node is in flight.
LEMMA WaitWaveInv ==
  ASSUME IInv, WaitWave
  PROVE  IInv'
<1> USE DEF IInv
<1>1. /\ pc = "launch" /\ pc' = "collect" /\ ready = {} /\ wg = 0
      /\ UNCHANGED <<edges, ready, sem, wg, errChan, final, verdict, snapshot,
                     nodeVars, ctxDone, dbVars>>
  BY DEF WaitWave
<1>2. InFlight = {}
  <2>1. Cardinality(InFlight) = 0
    BY <1>1, CountersFinite DEF CountersInv
  <2>2. IsFiniteSet(InFlight)
    BY NodesAssumption, FS_Subset DEF InFlight
  <2>3. QED
    BY <2>1, <2>2, FS_EmptySet
<1>3. /\ Holding' = Holding /\ InFlight' = InFlight /\ Over' = Over
      /\ StartNodes' = StartNodes /\ ReadyNodes' = ReadyNodes
      /\ NodesInv'
  BY <1>1, ReadyFacts, NodesUntouched DEF nodeVars
<1>4. TypeOK'
  BY <1>1 DEF TypeOK, nodeVars, dbVars
<1>5. CountersInv' /\ ErrorsInv' /\ QuiescenceInv'
  BY <1>1, <1>3 DEF CountersInv, ErrorsInv, QuiescenceInv, nodeVars
<1>6. RunInv'
  BY <1>1, <1>2, <1>3 DEF RunInv, nodeVars, dbVars
<1>7. QED
  BY <1>3, <1>4, <1>5, <1>6

\* A wave without an error left nothing but executed nodes, so the nodes found ready
\* next were never launched.
LEMMA CollectWaveInv ==
  ASSUME IInv, CollectWave
  PROVE  IInv'
<1> USE DEF IInv
<1>1. /\ pc = "collect" /\ verdict = "none" /\ final = "completed" /\ row = "running"
      /\ ready = {} /\ InFlight = {}
      /\ UNCHANGED <<edges, sem, wg, snapshot, nodeVars, ctxDone, dbVars>>
  BY DEF CollectWave, RunInv, TypeOK
<1>2. \/ /\ errChan # <<>> /\ errChan' = Tail(errChan) /\ ready' = ready
         /\ verdict' = "error" /\ final' = "failed" /\ pc' = "marshal"
      \/ /\ errChan = <<>> /\ errChan' = errChan /\ ready' = ReadyNodes /\ final' = final
         /\ \/ ReadyNodes = {} /\ verdict' = "ok" /\ pc' = "marshal"
            \/ ReadyNodes # {} /\ verdict' = verdict /\ pc' = "launch"
  BY DEF CollectWave, FailRun, Return
<1>3. errChan = <<>> => Over \subseteq executed
  BY <1>1 DEF ErrorsInv
<1>4. errChan = <<>> => \A n \in Nodes : node[n] # "idle" => n \in executed
  BY <1>1, <1>3 DEF InFlight, Over, TypeOK, NodeSteps, Working
<1>5. \A n \in ready' : n \in Nodes /\ node[n] = "idle" /\ Dependencies(n) \subseteq executed
  BY <1>1, <1>2, <1>4 DEF ReadyNodes
<1>6. /\ Holding' = Holding /\ InFlight' = InFlight /\ Over' = Over
      /\ StartNodes' = StartNodes /\ ReadyNodes' = ReadyNodes
      /\ NodesInv'
  BY <1>1, <1>5, NodesUntouched DEF nodeVars
<1>7. errChan' \in Seq(Nodes)
  <2>1. errChan \in Seq(Nodes)
    BY DEF TypeOK
  <2>2. errChan # <<>> => Tail(errChan) \in Seq(Nodes)
    BY <2>1, HeadTailProperties
  <2>3. QED
    BY <1>2, <2>1, <2>2
<1>8. TypeOK'
  BY <1>1, <1>2, <1>5, <1>7 DEF TypeOK, nodeVars, dbVars
<1>9. CountersInv' /\ ErrorsInv' /\ QuiescenceInv'
  BY <1>1, <1>2, <1>6 DEF CountersInv, ErrorsInv, QuiescenceInv, nodeVars
<1>10. RunInv'
  BY <1>1, <1>2, <1>3, <1>6 DEF RunInv, nodeVars, dbVars
<1>11. QED
  BY <1>6, <1>8, <1>9, <1>10

LEMMA MarshalStateInv ==
  ASSUME IInv, MarshalState
  PROVE  IInv'
<1> USE DEF IInv
<1>1. /\ pc = "marshal" /\ pc' = "persist" /\ snapshot' = results
      /\ UNCHANGED <<edges, ready, sem, wg, errChan, final, verdict, nodeVars,
                     ctxDone, dbVars>>
  BY DEF MarshalState
<1>2. /\ Holding' = Holding /\ InFlight' = InFlight /\ Over' = Over
      /\ StartNodes' = StartNodes /\ ReadyNodes' = ReadyNodes
      /\ NodesInv'
  BY <1>1, ReadyFacts, NodesUntouched DEF nodeVars
<1>3. TypeOK'
  BY <1>1 DEF TypeOK, nodeVars, dbVars
<1>4. CountersInv' /\ ErrorsInv' /\ QuiescenceInv'
  BY <1>1, <1>2 DEF CountersInv, ErrorsInv, QuiescenceInv, nodeVars
<1>5. RunInv'
  BY <1>1, <1>2 DEF RunInv, nodeVars, dbVars
<1>6. QED
  BY <1>2, <1>3, <1>4, <1>5

LEMMA PersistStatusInv ==
  ASSUME IInv, PersistStatus
  PROVE  IInv'
<1> USE DEF IInv
<1>1. /\ pc = "persist" /\ pc' = "returned" /\ ctxDone' = TRUE
      /\ \/ row' = final /\ rowState' = snapshot
         \/ row' = row /\ rowState' = rowState
      /\ UNCHANGED <<edges, ready, sem, wg, errChan, final, verdict, snapshot,
                     nodeVars, saved>>
  BY DEF PersistStatus
<1>2. /\ Holding' = Holding /\ InFlight' = InFlight /\ Over' = Over
      /\ StartNodes' = StartNodes /\ ReadyNodes' = ReadyNodes
      /\ NodesInv'
  BY <1>1, ReadyFacts, NodesUntouched DEF nodeVars
<1>3. TypeOK'
  BY <1>1 DEF TypeOK, nodeVars
<1>4. CountersInv' /\ ErrorsInv' /\ QuiescenceInv'
  BY <1>1, <1>2 DEF CountersInv, ErrorsInv, QuiescenceInv, nodeVars
<1>5. RunInv'
  BY <1>1, <1>2 DEF RunInv, TypeOK, nodeVars
<1>6. QED
  BY <1>2, <1>3, <1>4, <1>5

LEMMA CancelContextInv ==
  ASSUME IInv, CancelContext
  PROVE  IInv'
<1> USE DEF IInv
<1>1. ctxDone' = TRUE /\ UNCHANGED <<runVars, nodeVars, dbVars>>
  BY DEF CancelContext
<1>2. /\ Holding' = Holding /\ InFlight' = InFlight /\ Over' = Over
      /\ StartNodes' = StartNodes /\ ReadyNodes' = ReadyNodes
      /\ NodesInv'
  BY <1>1, ReadyFacts, NodesUntouched DEF nodeVars, runVars
<1>3. TypeOK'
  BY <1>1 DEF TypeOK, nodeVars, runVars, dbVars
<1>4. CountersInv' /\ ErrorsInv' /\ QuiescenceInv'
  BY <1>1, <1>2 DEF CountersInv, ErrorsInv, QuiescenceInv, nodeVars, runVars
<1>5. RunInv'
  BY <1>1, <1>2 DEF RunInv, nodeVars, runVars, dbVars
<1>6. QED
  BY <1>2, <1>3, <1>4, <1>5

LEMMA StutterInv ==
  ASSUME IInv, UNCHANGED vars
  PROVE  IInv'
<1> USE DEF IInv
<1>1. UNCHANGED <<runVars, nodeVars, ctxDone, dbVars>>
  BY DEF vars
<1>2. /\ Holding' = Holding /\ InFlight' = InFlight /\ Over' = Over
      /\ StartNodes' = StartNodes /\ ReadyNodes' = ReadyNodes
      /\ NodesInv'
  BY <1>1, ReadyFacts, NodesUntouched DEF nodeVars, runVars
<1>3. TypeOK'
  BY <1>1 DEF TypeOK, nodeVars, runVars, dbVars
<1>4. CountersInv' /\ ErrorsInv' /\ QuiescenceInv'
  BY <1>1, <1>2 DEF CountersInv, ErrorsInv, QuiescenceInv, nodeVars, runVars
<1>5. RunInv'
  BY <1>1, <1>2 DEF RunInv, nodeVars, runVars, dbVars
<1>6. QED
  BY <1>2, <1>3, <1>4, <1>5

LEMMA NextIInv == IInv /\ [Next]_vars => IInv'
<1> SUFFICES ASSUME IInv, [Next]_vars PROVE IInv'
  OBVIOUS
<1>1. CASE RunStep
  BY <1>1, CreateExecutionInv, PlanInv, NextNodeInv, AcquireInv, WaitWaveInv,
     CollectWaveInv, MarshalStateInv, PersistStatusInv DEF RunStep
<1>2. ASSUME NEW n \in Nodes, NodeStep(n) PROVE IInv'
  BY <1>2, WorkInv, MarkExecutedInv, SendErrorInv, ReleaseInv, FinishInv DEF NodeStep
<1>3. CASE CancelContext
  BY <1>3, CancelContextInv
<1>4. CASE Finished \/ UNCHANGED vars
  BY <1>4, StutterInv DEF Finished
<1>5. QED
  BY <1>1, <1>2, <1>3, <1>4 DEF Next

\* IInv is an invariant of every run.
THEOREM Invariance == Spec => []IInv
BY InitIInv, NextIInv, PTL DEF Spec

-----------------------------------------------------------------------------
(* What follows *)

\* The types of WorkflowRunner's variables, the bound on the semaphore among them:
\* never more than MaxConcurrentNodes nodes hold a slot.
THEOREM TypeCorrect == Spec => []TypeOK
<1>1. IInv => TypeOK
  BY DEF IInv
<1>2. QED
  BY <1>1, Invariance, PTL

\* However the goroutines of executeGraph interleave, a node runs only when all its
\* dependencies are executed and their results are in the execution context.
THEOREM DependenciesFirst == Spec => []DependencyOrder
<1>1. IInv => DependencyOrder
  BY DEF IInv, NodesInv, DependencyOrder
<1>2. QED
  BY <1>1, Invariance, PTL

LEMMA CompletedWhenDone == IInv => CompletedMeansAll
<1>1. ASSUME IInv, Validated, row = "completed" PROVE executed = Nodes /\ verdict = "ok"
  <2>1. row = final /\ verdict \in {"ok", "error"} /\ pc = "returned"
    BY <1>1 DEF IInv, RunInv, TypeOK
  <2>2. StartNodes # {}
    <3>1. PICK n \in Nodes : \A d \in Nodes : <<d, n>> \notin edges
      BY <1>1 DEF Validated, Executable, Acyclic
    <3>2. ASSUME NEW e \in edges, e[2] = n PROVE FALSE
      <4>1. e = <<e[1], e[2]>>
        BY <1>1, WorkflowsAssumption DEF IInv, TypeOK
      <4>2. e[1] \in Nodes
        BY <1>1 DEF Validated, Executable, KnownEndpoints
      <4>3. QED
        BY <3>1, <3>2, <4>1, <4>2
    <3>3. QED
      BY <3>1, <3>2 DEF StartNodes, FindStartNodes
  <2>3. verdict = "ok"
    BY <1>1, <2>1, <2>2 DEF IInv, RunInv
  <2>4. ReadyNodes = {}
    BY <1>1, <2>3 DEF IInv, RunInv
  <2>5. ASSUME Nodes \ executed # {} PROVE FALSE
    <3>1. PICK n \in Nodes \ executed : \A d \in Nodes \ executed : <<d, n>> \notin edges
      BY <1>1, <2>5 DEF Validated, Executable, Acyclic
    <3>2. Dependencies(n) \subseteq executed
      BY <3>1 DEF Dependencies
    <3>3. QED
      BY <2>4, <3>1, <3>2 DEF ReadyNodes
  <2>6. QED
    BY <1>1, <2>3, <2>5 DEF IInv, TypeOK
<1>2. QED
  BY <1>1 DEF CompletedMeansAll

\* For a workflow that WorkflowValidator accepts, an execution recorded as completed has
\* executed every node: the wave loop cannot run dry before the end, since the nodes
\* that are left would be a set in which each waits for another.
THEOREM CompletedIsComplete == Spec => []CompletedMeansAll
BY CompletedWhenDone, Invariance, PTL

\* The row is updated last, and only under a live context
LEMMA TerminalStep ==
  IInv /\ [Next]_vars =>
    [row' # row /\ row' # "running" => InFlight = {} /\ rowState' = results]_vars
<1> SUFFICES ASSUME IInv, Next, row' # row, row' # "running"
             PROVE  InFlight = {} /\ rowState' = results
  OBVIOUS
<1>1. PersistStatus
  BY DEF Next, RunStep, NodeStep, CancelContext, Finished, vars, runVars, nodeVars, dbVars,
         CreateExecution, Plan, NextNode, Acquire, WaitWave, CollectWave, MarshalState,
         Prepare, CallSucceeds, CallFailsRetryably, CallFails, Backoff, SaveResult,
         MarkExecuted, SendError, Release, Finish
<1>2. ~ctxDone /\ pc = "persist" /\ rowState' = snapshot
  BY <1>1 DEF PersistStatus, UpdateCanSucceed
<1>3. QED
  BY <1>2 DEF IInv, QuiescenceInv

\* A terminal status is never written under a running node, and the state column holds
\* every result there is.
THEOREM TerminalRowIsQuiescent == Spec => TerminalRowQuiescent
BY TerminalStep, Invariance, PTL DEF Spec, TerminalRowQuiescent

-----------------------------------------------------------------------------
(* Run implements Dataflow *)

\* The refinement mapping, by name
Started == {n \in Nodes : node[n] # "idle"}
GaveUp  == Over \ executed

LEMMA Mapping ==
  /\ Abstract!vars = <<edges, Started, executed, GaveUp, verdict>>
  /\ \A n \in Nodes : Abstract!Sources(n) = Dependencies(n)
BY DEF Abstract!vars, Started, GaveUp, Over, Abstract!Sources, Dependencies

\* A step that changes neither the verdict nor what the nodes look like from outside
LEMMA Invisible ==
  ASSUME UNCHANGED <<edges, executed, verdict>>, Started' = Started, Over' = Over
  PROVE  UNCHANGED Abstract!vars
BY DEF Abstract!vars, Started, Over

LEMMA VisibleSteps ==
  ASSUME IInv, Next
  PROVE  [Abstract!Next]_(Abstract!vars)
<1> USE DEF IInv
<1>1. ASSUME NEW n \in Nodes, Acquire(n) PROVE Abstract!Start(n)
  <2>1. /\ verdict = "none" /\ node[n] = "idle" /\ Dependencies(n) \subseteq executed
        /\ node' = [node EXCEPT ![n] = "wait"]
        /\ UNCHANGED <<edges, executed, verdict>>
    BY <1>1 DEF Acquire, Goto, NodesInv, RunInv
  <2>2. Started' = Started \cup {n} /\ n \notin Started /\ Over' = Over
    BY <2>1 DEF Started, Over, TypeOK
  <2>3. QED
    BY <2>1, <2>2 DEF Abstract!Start, Abstract!Sources, Dependencies, Started, Over
<1>2. ASSUME NEW n \in Nodes, MarkExecuted(n) PROVE Abstract!Succeed(n)
  <2>1. /\ node[n] = "mark" /\ n \notin Over /\ n \notin executed
        /\ node' = [node EXCEPT ![n] = "release"] /\ executed' = executed \cup {n}
        /\ UNCHANGED <<edges, verdict>>
    BY <1>2 DEF MarkExecuted, Goto, runVars, Over, NodesInv
  <2>2. Started' = Started /\ n \in Started /\ Over' = Over \cup {n}
    BY <2>1 DEF Started, Over, TypeOK
  <2>3. GaveUp' = GaveUp /\ n \notin GaveUp
    BY <2>1, <2>2 DEF GaveUp
  <2>4. QED
    BY <2>1, <2>2, <2>3 DEF Abstract!Succeed, Started, GaveUp, Over
<1>3. ASSUME NEW n \in Nodes, SendError(n) PROVE Abstract!Fail(n)
  <2>1. /\ node[n] = "send" /\ n \notin Over /\ n \notin executed
        /\ node' = [node EXCEPT ![n] = "release"]
        /\ UNCHANGED <<edges, executed, verdict>>
    BY <1>3 DEF SendError, Goto, Over, NodesInv
  <2>2. Started' = Started /\ n \in Started /\ Over' = Over \cup {n}
    BY <2>1 DEF Started, Over, TypeOK
  <2>3. GaveUp' = GaveUp \cup {n} /\ n \notin GaveUp
    BY <2>1, <2>2 DEF GaveUp
  <2>4. QED
    BY <2>1, <2>2, <2>3 DEF Abstract!Fail, Started, GaveUp, Over
<1>4. ASSUME NEW n \in Nodes,
             \/ Prepare(n) \/ CallSucceeds(n) \/ CallFailsRetryably(n) \/ CallFails(n)
             \/ Backoff(n) \/ SaveResult(n) \/ Release(n) \/ Finish(n)
      PROVE  UNCHANGED Abstract!vars
  <2>1. UNCHANGED <<edges, executed, verdict>>
    BY <1>4 DEF Prepare, CallSucceeds, CallFailsRetryably, CallFails, Backoff, SaveResult,
           Release, Finish, runVars
  <2>2. Started' = Started /\ Over' = Over
    <3>1. PICK step \in {"call", "send", "save", "backoff", "mark"} :
            \/ node[n] \in {"wait", "call", "backoff", "save"} /\ Goto(n, step)
            \/ node[n] = "release" /\ Goto(n, "finish")
            \/ node[n] = "finish" /\ Goto(n, "done")
      BY <1>4 DEF Prepare, CallSucceeds, CallFailsRetryably, CallFails, Backoff, SaveResult,
             Release, Finish
    <3>2. QED
      BY <3>1 DEF Goto, Started, Over, TypeOK
  <2>3. QED
    BY <2>1, <2>2, Invisible
<1>5. CASE /\ UNCHANGED <<edges, node, executed>>
           /\ \/ verdict' = verdict
              \/ verdict = "none" /\ verdict' = "error"
              \/ /\ verdict = "none" /\ verdict' = "ok"
                 /\ InFlight = {} /\ Over \subseteq executed /\ ReadyNodes = {}
  <2>1. Started' = Started /\ Over' = Over
    BY <1>5 DEF Started, Over
  <2>2. CASE verdict' = verdict
    BY <1>5, <2>1, <2>2, Invisible
  <2>3. CASE verdict = "none" /\ verdict' = "error"
    BY <1>5, <2>1, <2>3 DEF Abstract!Next, Abstract!ConcludeError, Started, Over
  <2>4. CASE /\ verdict = "none" /\ verdict' = "ok"
             /\ InFlight = {} /\ Over \subseteq executed /\ ReadyNodes = {}
    <3>1. Started = executed /\ GaveUp = {}
      BY <2>4 DEF Started, GaveUp, InFlight, Over, NodesInv, TypeOK, NodeSteps, Working
    <3>2. \A n \in Nodes : Dependencies(n) \subseteq executed => n \in Started
      BY <2>4, <3>1 DEF ReadyNodes
    <3>3. Abstract!ConcludeOk
      BY <1>5, <2>1, <2>4, <3>1, <3>2
      DEF Abstract!ConcludeOk, Abstract!Sources, Dependencies, Started, GaveUp, Over
    <3>4. QED
      BY <3>3 DEF Abstract!Next
  <2>5. QED
    BY <1>5, <2>2, <2>3, <2>4
<1>6. CASE \/ CreateExecution \/ Plan \/ NextNode \/ WaitWave \/ CollectWave
           \/ MarshalState \/ PersistStatus \/ CancelContext \/ Finished
  <2>1. UNCHANGED <<edges, node, executed>>
    BY <1>6 DEF CreateExecution, Plan, NextNode, WaitWave, CollectWave, MarshalState,
           PersistStatus, CancelContext, Finished, vars, runVars, nodeVars
  <2>2. \/ verdict' = verdict
        \/ verdict' = "error" /\ pc \in {"create", "plan", "launch", "collect"}
        \/ verdict' = "ok" /\ pc = "collect" /\ errChan = <<>> /\ ReadyNodes = {}
    BY <1>6 DEF CreateExecution, Plan, NextNode, WaitWave, CollectWave, MarshalState,
           PersistStatus, CancelContext, Finished, vars, runVars, FailRun, Return
  <2>3. pc \in {"create", "plan", "launch", "collect"} => verdict = "none"
    BY DEF RunInv
  <2>4. pc = "collect" /\ errChan = <<>> => InFlight = {} /\ Over \subseteq executed
    BY DEF RunInv, ErrorsInv
  <2>5. QED
    BY <1>5, <2>1, <2>2, <2>3, <2>4
<1>7. QED
  BY <1>1, <1>2, <1>3, <1>4, <1>6 DEF Next, RunStep, NodeStep, Abstract!Next

LEMMA AbstractInit == Init => Abstract!Init
BY DEF Init, Abstract!Init

LEMMA AbstractStep == IInv /\ [Next]_vars => [Abstract!Next]_(Abstract!vars)
<1>1. ASSUME UNCHANGED vars PROVE UNCHANGED Abstract!vars
  BY <1>1 DEF vars, runVars, nodeVars, Abstract!vars
<1>2. QED
  BY <1>1, VisibleSteps

\* Whatever Run does, seen as nodes started, executed and given up and a verdict, is what
\* Dataflow allows: no node twice, none before its dependencies, no success with a
\* failure or with work left.
THEOREM Refinement == Spec => ImplementsDataflow
BY AbstractInit, AbstractStep, Invariance, PTL DEF Spec, ImplementsDataflow, Abstract!Spec

-----------------------------------------------------------------------------
(* Executions: validated, then run *)

Checks == INSTANCE ValidatorProofs WITH edges <- slice, pc <- check

\* Between validation and run: the set of the slice's edges is what is run, on all nodes
Handover == edges = Checks!EdgeSet /\ (pc # "create" => nodes = Nodes)

\* The invariants of both, and what one hands to the other
ExecutionInv == IInv /\ (check = "skipped" \/ Checks!IInv) /\ Handover

\* No step of Run changes the workflow.
LEMMA EdgesStay == [Next]_vars => edges' = edges
BY DEF Next, RunStep, NodeStep, CreateExecution, Plan, NextNode, Acquire, WaitWave, CollectWave,
       MarshalState, PersistStatus, Prepare, CallSucceeds, CallFailsRetryably, CallFails, Backoff,
       SaveResult, MarkExecuted, SendError, Release, Finish, CancelContext, Finished, vars, runVars

\* Validation is a call of Validate, which changes neither slice nor nodes.
LEMMA ValidateIsValidator ==
  ASSUME Validation!Next
  PROVE  Checks!Next /\ check # "skipped" /\ UNCHANGED <<nodes, slice, formed>>
<1>1. Checks!Next
  BY DEF Validation!Next, Validation!CheckNodes, Validation!CheckEdges, Validation!Root,
         Validation!Descend, Validation!FindCycle, Validation!Skip, Validation!Return,
         Validation!SearchEnds, Validation!CheckStart, Validation!Returned, Validation!PassTo,
         Validation!Reject, Validation!Call, Validation!Top, Validation!Advanced,
         Validation!InLoop, Validation!Edge, Validation!LeaveStack, Validation!Results,
         Validation!EdgeSet, Validation!StartNodes, Validation!workflow, Validation!marks,
         Validation!vars, Validation!KnownEndpoints, Validation!FindStartNodes,
         Checks!KnownEndpoints, Checks!FindStartNodes, Checks!Next, Checks!CheckNodes,
         Checks!CheckEdges, Checks!Root, Checks!Descend, Checks!FindCycle, Checks!Skip, Checks!Return, Checks!SearchEnds, Checks!CheckStart,
         Checks!Returned, Checks!PassTo, Checks!Reject, Checks!Call, Checks!Top,
         Checks!Advanced, Checks!InLoop, Checks!Edge, Checks!LeaveStack, Checks!Results,
         Checks!EdgeSet, Checks!StartNodes, Checks!workflow, Checks!marks, Checks!vars
<1>2. check # "skipped" /\ UNCHANGED <<nodes, slice, formed>>
  BY DEF Validation!Next, Validation!CheckNodes, Validation!CheckEdges, Validation!Root,
         Validation!Descend, Validation!FindCycle, Validation!Skip, Validation!Return,
         Validation!SearchEnds, Validation!CheckStart, Validation!Returned, Validation!InLoop,
         Validation!Results, Validation!workflow, Validation!vars
<1>3. QED
  BY <1>1, <1>2

LEMMA InitExecution == ExecutionInit => ExecutionInv
<1> SUFFICES ASSUME ExecutionInit PROVE ExecutionInv
  OBVIOUS
<1>1. IInv
  BY InitIInv DEF ExecutionInit
<1>2. Handover
  BY DEF ExecutionInit, Init, Handover, Validation!EdgeSet, Checks!EdgeSet
<1>3. CASE check = "nodes"
  <2>1. slice \in Seq(Ids \X Ids) /\ nodes \in SUBSET Ids
    BY IdsAssumption DEF ExecutionInit
  <2>2. Checks!Init
    BY <1>3, <2>1 DEF ExecutionInit, Checks!Init
  <2>3. QED
    BY <1>1, <1>2, <2>2, Checks!InitIInv DEF ExecutionInv
<1>4. CASE check = "skipped"
  BY <1>1, <1>2, <1>4 DEF ExecutionInv
<1>5. QED
  BY <1>3, <1>4 DEF ExecutionInit

LEMMA NextExecution == ExecutionInv /\ [ExecutionNext]_allVars => ExecutionInv'
<1> SUFFICES ASSUME ExecutionInv, [ExecutionNext]_allVars PROVE ExecutionInv'
  OBVIOUS
<1>1. [Next]_vars
  BY DEF ExecutionNext, Validate, NotRun, allVars
<1>2. IInv' /\ edges' = edges
  BY <1>1, NextIInv, EdgesStay DEF ExecutionInv
<1>3. CASE Validate
  <2>1. Checks!Next /\ check # "skipped" /\ UNCHANGED <<nodes, slice, formed>> /\ UNCHANGED vars
    BY <1>3, ValidateIsValidator DEF Validate
  <2>2. Checks!IInv'
    BY <2>1, Checks!NextIInv DEF ExecutionInv
  <2>3. Handover'
    BY <2>1 DEF ExecutionInv, Handover, Checks!EdgeSet, vars, runVars
  <2>4. QED
    BY <1>2, <2>2, <2>3 DEF ExecutionInv
<1>4. CASE UNCHANGED checkVars
  <2>1. UNCHANGED <<Checks!vars, check, nodes, slice>>
    BY <1>4 DEF checkVars, Checks!vars, Checks!workflow, Checks!marks
  <2>2. check = "skipped" \/ Checks!IInv => (check = "skipped" \/ Checks!IInv)'
    BY <2>1, Checks!NextIInv
  <2>3. Runs \/ pc' = pc
    BY DEF ExecutionNext, Validate, NotRun, allVars, vars, runVars
  <2>4. Handover'
    BY <1>2, <2>1, <2>3 DEF ExecutionInv, Handover, Checks!EdgeSet, Runs, Bound
  <2>5. QED
    BY <1>2, <2>2, <2>4 DEF ExecutionInv
<1>5. QED
  BY <1>3, <1>4 DEF ExecutionNext, Runs, NotRun, allVars

THEOREM ExecutionInvariance == ExecutionSpec => []ExecutionInv
BY InitExecution, NextExecution, PTL DEF ExecutionSpec

\* A run that follows a validation, or comes without one, is a run: all that is said of runs
\* above holds of it, as far as it does not speak of their fairness.
THEOREM ExecutionsAreRuns ==
  ExecutionSpec => /\ [](TypeOK /\ DependencyOrder /\ CompletedMeansAll)
                   /\ TerminalRowQuiescent /\ ImplementsDataflow
<1>1. ExecutionInit => Init
  BY DEF ExecutionInit
<1>2. [ExecutionNext]_allVars => [Next]_vars
  BY DEF ExecutionNext, Validate, NotRun, allVars
<1>3. ExecutionInv => IInv
  BY DEF ExecutionInv
<1>4. IInv => TypeOK /\ DependencyOrder /\ CompletedMeansAll
  BY CompletedWhenDone DEF IInv, NodesInv, DependencyOrder
<1>5. QED
  BY <1>1, <1>2, <1>3, <1>4, AbstractInit, AbstractStep, TerminalStep, ExecutionInvariance, PTL
  DEF ExecutionSpec, TerminalRowQuiescent, ImplementsDataflow, Abstract!Spec

\* In an execution too Validate accepts exactly what can be executed.
THEOREM ValidationIsExact == ExecutionSpec => []ValidatorAgrees
<1>1. ExecutionInv => ValidatorAgrees
  BY Checks!SearchIsExact
  DEF ExecutionInv, ValidatorAgrees, Validation!ValidatorAgrees, Validation!Results,
      Validation!EdgeSet, Validation!Executable, Validation!KnownEndpoints, Validation!Acyclic,
      Checks!ValidatorAgrees, Checks!Results, Checks!EdgeSet, Checks!Executable,
      Checks!KnownEndpoints, Checks!Acyclic
<1>2. QED
  BY <1>1, ExecutionInvariance, PTL

\* What Validate has accepted is executed completely, or not recorded as completed: the
\* row says so only when every node is executed and Run returned nil.
THEOREM AcceptedIsCompleted ==
  ExecutionSpec =>
    [](check = "accepted" /\ row = "completed" => executed = Nodes /\ verdict = "ok")
<1>1. ASSUME ExecutionInv, check = "accepted", row = "completed"
      PROVE  executed = Nodes /\ verdict = "ok"
  <2>1. Checks!ValidatorAgrees
    BY <1>1, Checks!SearchIsExact DEF ExecutionInv
  <2>2. Executable(nodes, Checks!EdgeSet)
    BY <1>1, <2>1
    DEF Checks!ValidatorAgrees, Checks!Results, Checks!Executable, Checks!KnownEndpoints,
        Checks!Acyclic, Executable, KnownEndpoints, Acyclic
  <2>3. edges = Checks!EdgeSet /\ nodes = Nodes
    BY <1>1 DEF ExecutionInv, Handover, IInv, RunInv
  <2>4. Validated
    BY <2>2, <2>3 DEF Validated
  <2>5. QED
    BY <1>1, <2>4, CompletedWhenDone DEF ExecutionInv, CompletedMeansAll
<1>2. QED
  BY <1>1, ExecutionInvariance, PTL
=============================================================================
