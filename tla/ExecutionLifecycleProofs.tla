---------------------- MODULE ExecutionLifecycleProofs ----------------------
(***************************************************************************)
(* Proofs about ExecutionLifecycle, for any number of executions, requests *)
(* and calls of Stop: storage is closed last, the registry is exact, and   *)
(* the runtime implements ExecutionRecord.                                 *)
(***************************************************************************)
EXTENDS ExecutionLifecycle, FiniteSetTheorems, TLAPS

-----------------------------------------------------------------------------
(* The order of the hooks *)

Hook == [name : STRING, priority : Int]

\* g is h with hooks i and j in order.
InOrder(h, g, i, j) ==
  /\ g \in [1..4 -> Hook]
  /\ g[i].priority >= g[j].priority
  /\ g[i].priority >= h[i].priority
  /\ \A k \in 1..4 : k # i /\ k # j => g[k] = h[k]
  /\ (g[i] = h[i] /\ g[j] = h[j]) \/ (g[i] = h[j] /\ g[j] = h[i])

LEMMA ExchangeOrders ==
  ASSUME NEW h \in [1..4 -> Hook], NEW i \in 1..4, NEW j \in 1..4
  PROVE  /\ i < j => InOrder(h, Exchange(h, i, j), i, j)
         /\ i >= j => Exchange(h, i, j) = h
<1>1. CASE i < j /\ Precedes(h[i], h[j])
  BY <1>1 DEF Exchange, Precedes, Hook, InOrder
<1>2. CASE i < j /\ ~Precedes(h[i], h[j])
  BY <1>2 DEF Exchange, Precedes, Hook, InOrder
<1>3. CASE i >= j
  BY <1>3 DEF Exchange
<1>4. QED
  BY <1>1, <1>2, <1>3

\* sortHooksByPriority sorts: of any four hooks, whatever their priorities, none comes
\* before one with a higher priority, and none is lost.
THEOREM SortsByPriority ==
  ASSUME NEW h \in [1..4 -> Hook]
  PROVE  /\ Sorted(h) \in [1..4 -> Hook]
         /\ \A i, j \in 1..4 : i < j => Sorted(h)[i].priority >= Sorted(h)[j].priority
         /\ \A k \in 1..4 : \E m \in 1..4 : Sorted(h)[m] = h[k]
<1> DEFINE a == Exchange(h, 1, 2)
           b == Exchange(a, 1, 3)
           c == Exchange(b, 1, 4)
           d == Exchange(c, 2, 3)
           e == Exchange(d, 2, 4)
           f == Exchange(e, 3, 4)
<1>1. a \in [1..4 -> Hook] /\ InOrder(h, a, 1, 2)
  <2>1. InOrder(h, a, 1, 2)
    BY ExchangeOrders
  <2>2. QED
    BY <2>1 DEF InOrder
<1>2. b \in [1..4 -> Hook] /\ InOrder(a, b, 1, 3)
  <2>1. InOrder(a, b, 1, 3)
    BY <1>1, ExchangeOrders
  <2>2. QED
    BY <2>1 DEF InOrder
<1>3. c \in [1..4 -> Hook] /\ InOrder(b, c, 1, 4)
  <2>1. InOrder(b, c, 1, 4)
    BY <1>2, ExchangeOrders
  <2>2. QED
    BY <2>1 DEF InOrder
<1>4. d \in [1..4 -> Hook] /\ InOrder(c, d, 2, 3)
  <2>1. InOrder(c, d, 2, 3)
    BY <1>3, ExchangeOrders
  <2>2. QED
    BY <2>1 DEF InOrder
<1>5. e \in [1..4 -> Hook] /\ InOrder(d, e, 2, 4)
  <2>1. InOrder(d, e, 2, 4)
    BY <1>4, ExchangeOrders
  <2>2. QED
    BY <2>1 DEF InOrder
<1>6. f \in [1..4 -> Hook] /\ InOrder(e, f, 3, 4)
  <2>1. InOrder(e, f, 3, 4)
    BY <1>5, ExchangeOrders
  <2>2. QED
    BY <2>1 DEF InOrder
<1>7. Sorted(h) = f
  <2>1. Pass(h, 1) = c
    BY DEF Pass
  <2>2. Pass(c, 2) = e
    <3>1. Exchange(c, 2, 2) = c
      BY <1>3, ExchangeOrders
    <3>2. QED
      BY <3>1 DEF Pass
  <2>3. Pass(e, 3) = f
    <3>1. Exchange(e, 3, 2) = e /\ Exchange(e, 3, 3) = e
      BY <1>5, ExchangeOrders
    <3>2. QED
      BY <3>1 DEF Pass
  <2>4. QED
    BY <2>1, <2>2, <2>3 DEF Sorted
<1> HIDE DEF a, b, c, d, e, f
<1>8. /\ c[1].priority >= c[2].priority /\ c[1].priority >= c[3].priority
      /\ c[1].priority >= c[4].priority
  BY <1>1, <1>2, <1>3 DEF InOrder, Hook
<1>9. /\ e[1].priority >= e[2].priority /\ e[1].priority >= e[3].priority
      /\ e[1].priority >= e[4].priority
      /\ e[2].priority >= e[3].priority /\ e[2].priority >= e[4].priority
  BY <1>3, <1>4, <1>5, <1>8 DEF InOrder, Hook
<1>10. /\ f[1].priority >= f[2].priority /\ f[1].priority >= f[3].priority
       /\ f[1].priority >= f[4].priority /\ f[2].priority >= f[3].priority
       /\ f[2].priority >= f[4].priority /\ f[3].priority >= f[4].priority
  BY <1>5, <1>6, <1>9 DEF InOrder, Hook
<1>11. \A i, j \in 1..4 : i < j => f[i].priority >= f[j].priority
  BY <1>10
<1>12. \A k \in 1..4 : \E m \in 1..4 : f[m] = h[k]
  <2>1. {h[1], h[2], h[3], h[4]} = {c[1], c[2], c[3], c[4]}
    BY <1>1, <1>2, <1>3 DEF InOrder
  <2>2. {c[1], c[2], c[3], c[4]} = {f[1], f[2], f[3], f[4]}
    BY <1>4, <1>5, <1>6 DEF InOrder
  <2>3. QED
    BY <2>1, <2>2
<1>13. QED
  BY <1>6, <1>7, <1>11, <1>12

\* registerShutdownHooks registers the hooks in the order of their priorities.
LEMMA HooksAreSorted == SortedHooks = Hooks
<1>1. \A i, j \in 1..4 : i < j => ~Precedes(Hooks[i], Hooks[j])
  BY DEF Hooks, Precedes
<1>2. \A i, j \in 1..4 : Exchange(Hooks, i, j) = Hooks
  BY <1>1 DEF Exchange, Hooks
<1>3. \A i \in 1..4 : Pass(Hooks, i) = Hooks
  BY <1>2 DEF Pass
<1>4. QED
  BY <1>3 DEF SortedHooks, Sorted

LEMMA HookFacts ==
  /\ Len(SortedHooks) = 4
  /\ SortedHooks[1].name = "cancel_executions" /\ SortedHooks[2].name = "cleanup_job"
  /\ SortedHooks[3].name = "worker_pool"       /\ SortedHooks[4].name = "storage"
BY HooksAreSorted DEF Hooks

\* The hooks are run in this order.
LEMMA HookRuns ==
  ASSUME TypeOK, NEW name, RunsHook(name)
  PROVE  /\ hook \in 1..4 /\ hook' = hook + 1 /\ stopping
         /\ name = "cancel_executions" => hook = 1
         /\ name = "cleanup_job" => hook = 2
         /\ name = "worker_pool" => hook = 3
         /\ name = "storage" => hook = 4
         /\ UNCHANGED <<up, stopping, stops, once, cleaners, before, caller, run, result,
                        row, completed, request>>
<1>1. hook \in 1..4 /\ SortedHooks[hook].name = name
  BY HookFacts DEF RunsHook, TypeOK
<1>2. QED
  BY <1>1, HookFacts DEF RunsHook

-----------------------------------------------------------------------------
(* Ids *)

LEMMA IdsDiffer ==
  /\ \A e, f \in Runs : HandleId(e) = HandleId(f) => e = f
  /\ \A e, f \in Runs : HandleId(e) # RowId(f)
  /\ \A e \in Runs : HandleId(e) \in Ids
BY DEF HandleId, RowId, Ids

\* Wait looks for the row under the id of the handle, and finds none.
LEMMA WaitFindsNothing ==
  ASSUME TypeOK, NEW e \in Runs, Wait(e)
  PROVE  UNCHANGED vars
<1>1. RowsOf(HandleId(e)) = {}
  BY IdsDiffer DEF RowsOf
<1>2. completed' = [completed EXCEPT ![e] = @ + Cardinality({})]
  <2>1. {f \in RowsOf(HandleId(e)) : store = "open" /\ row[f] \in {"completed", "failed"}} = {}
    BY <1>1
  <2>2. QED
    BY <2>1 DEF Wait
<1>3. Cardinality({}) = 0
  BY FS_EmptySet
<1>4. completed' = completed
  BY <1>2, <1>3 DEF TypeOK
<1>5. QED
  BY <1>4 DEF Wait, vars, runVars, runtimeVars

\* A handler finds no run to cancel, and never gets to write.
LEMMA CancelFindsNothing ==
  ASSUME IInv, NEW q \in Requests, RequestStep(q)
  PROVE  /\ At(q, "done")
         /\ UNCHANGED <<runtimeVars, registry, runVars>>
<1>1. request[q].step = "cancel" /\ request[q].run \in Runs
  BY DEF RequestStep, IInv, NothingToWrite, TypeOK
<1>2. RowId(request[q].run) \notin registry
  BY <1>1, IdsDiffer DEF IInv, RegistryInv
<1>3. QED
  BY <1>1, <1>2 DEF RequestStep, CancelRequested, runVars

-----------------------------------------------------------------------------
(* Parts that a step leaves alone *)

LEMMA HooksUntouched ==
  ASSUME HooksInv, UNCHANGED runtimeVars
  PROVE  HooksInv'
BY DEF HooksInv, runtimeVars

LEMMA RunsUntouched ==
  ASSUME RegistryIsExact, RegistryInv, RowsInv, UNCHANGED <<registry, runVars>>
  PROVE  RegistryIsExact' /\ RegistryInv' /\ RowsInv'
BY DEF RegistryIsExact, RegistryInv, RowsInv, InProgress, runVars

LEMMA RequestsUntouched ==
  ASSUME NothingToWrite, UNCHANGED request
  PROVE  NothingToWrite'
BY DEF NothingToWrite

\* A step that ends contexts and removes what they are registered under
LEMMA FewerLive ==
  ASSUME IInv, UNCHANGED <<caller, run, result, row, completed>>,
         registry' \subseteq registry, live' \subseteq live,
         \A e \in live' : HandleId(e) \in registry => HandleId(e) \in registry'
  PROVE  RegistryIsExact' /\ RegistryInv' /\ RowsInv' /\ registry' \subseteq Ids /\ live' \subseteq Runs
<1> USE DEF IInv
<1>1. RowsInv'
  BY DEF RowsInv
<1>2. RegistryInv'
  BY DEF RegistryInv
<1>3. RegistryIsExact'
  BY DEF RegistryIsExact, InProgress
<1>4. QED
  BY <1>1, <1>2, <1>3 DEF TypeOK

-----------------------------------------------------------------------------
LEMMA InitIInv == Init => IInv
<1> SUFFICES ASSUME Init PROVE IInv
  OBVIOUS
<1> USE DEF Init
<1>1. (CHOOSE e \in Runs : TRUE) \in Runs
  BY RunsAssumption
<1>2. TypeOK
  <2>1. request \in [Requests -> [step : {"new", "cancel", "write", "done"}, run : Runs]]
    BY <1>1 DEF NoRequest
  <2>2. stops \in 0..MaxStops /\ cleaners \in 0..MaxStops + 1 /\ hook \in 1..Len(SortedHooks) + 1
    BY StopsAssumption, HookFacts
  <2>3. /\ caller \in [Runs -> {"new", "register", "launch", "returned", "restart"}]
        /\ run \in [Runs -> {"none", "create", "execute", "persist", "return", "over"}]
        /\ result \in [Runs -> {"none", "completed", "failed"}]
        /\ row \in [Runs -> Statuses \cup {"none", "deleted"}]
        /\ completed \in [Runs -> Nat]
    OBVIOUS
  <2>4. QED
    BY <2>1, <2>2, <2>3 DEF TypeOK
<1>3. HooksInv
  BY HookFacts DEF HooksInv
<1>4. RegistryIsExact /\ RegistryInv /\ RowsInv /\ NothingToWrite
  BY DEF RegistryIsExact, RegistryInv, RowsInv, NothingToWrite, NoRequest, InProgress
<1>5. QED
  BY <1>2, <1>3, <1>4 DEF IInv

-----------------------------------------------------------------------------
(* Start, Stop and the hooks *)

LEMMA StartStopKeep ==
  ASSUME IInv, Start \/ Stop \/ StopReturns \/ CleanerEnds
  PROVE  IInv'
<1> USE DEF IInv
<1>1. UNCHANGED <<registry, runVars, request, pool, store, closes>>
  BY DEF Start, Stop, StopReturns, CleanerEnds
<1>2. RegistryIsExact' /\ RegistryInv' /\ RowsInv' /\ NothingToWrite'
  BY <1>1, RunsUntouched, RequestsUntouched
<1>3. /\ cleaners \in Nat /\ stops \in 0..MaxStops /\ MaxStops \in Nat /\ hook \in 1..5
      /\ up \in BOOLEAN /\ stopping \in BOOLEAN /\ once \in BOOLEAN
  BY HookFacts, StopsAssumption DEF TypeOK
<1>4. HooksInv' /\ cleaners' \in Nat /\ stops' \in 0..MaxStops /\ hook' \in 1..5
      /\ up' \in BOOLEAN /\ stopping' \in BOOLEAN /\ once' \in BOOLEAN
  <2>1. CASE Start
    BY <1>1, <1>3, <2>1, HookFacts DEF HooksInv, Start, NotRunning
  <2>2. CASE Stop
    BY <1>1, <1>3, <2>2, HookFacts DEF HooksInv, Stop, FirstTime
  <2>3. CASE StopReturns
    <3>1. /\ stopping /\ hook > Len(SortedHooks) /\ ~stopping' /\ ~up'
          /\ stopping' \in BOOLEAN /\ up' \in BOOLEAN
          /\ UNCHANGED <<stops, once, hook, pool, store, cleaners, closes>>
      BY <2>3 DEF StopReturns
    <3>2. hook = Len(SortedHooks) + 1
      BY <1>3, <3>1, HookFacts
    <3>3. cleaners <= stops /\ once
      BY <3>1 DEF HooksInv
    <3>4. HooksInv'
      BY <3>1, <3>2, <3>3 DEF HooksInv
    <3>5. QED
      BY <1>3, <3>1, <3>4
  <2>4. CASE CleanerEnds
    <3>1. /\ cleaners > 0 /\ cleaners' = cleaners - 1
          /\ UNCHANGED <<up, stopping, stops, once, hook, pool, store, closes>>
      BY <2>4 DEF CleanerEnds
    <3>2. cleaners \in Nat /\ stops \in Nat
      BY <1>3
    <3>3. cleaners' \in Nat /\ cleaners' <= cleaners
      BY <3>1, <3>2
    <3>4. cleaners' <= stops' + 1 /\ (cleaners' <= stops' \/ (up' /\ ~stopping'))
      BY <3>1, <3>2, <3>3 DEF HooksInv
    <3>5. HooksInv'
      BY <3>1, <3>4 DEF HooksInv
    <3>6. QED
      BY <1>3, <3>1, <3>3, <3>5
  <2>5. QED
    BY <2>1, <2>2, <2>3, <2>4
<1>5. cleaners' \in 0..MaxStops + 1
  <2>1. cleaners' <= stops' + 1
    BY <1>4 DEF HooksInv
  <2>2. MaxStops \in Nat
    BY StopsAssumption
  <2>3. cleaners' \in Nat /\ stops' \in Nat /\ stops' <= MaxStops
    BY <1>4, <2>2
  <2>4. \A c, s, m \in Nat : c <= s + 1 /\ s <= m => c \in 0..m + 1
    OBVIOUS
  <2>5. QED
    BY <2>1, <2>2, <2>3, <2>4
<1>6. before' \subseteq Runs
  BY DEF TypeOK, Start, Stop, StopReturns, CleanerEnds
<1>7. TypeOK'
  BY <1>1, <1>4, <1>5, <1>6, HookFacts DEF TypeOK, runVars
<1>8. QED
  BY <1>2, <1>4, <1>7

LEMMA HookKeeps ==
  ASSUME IInv, CancelAll \/ StopCleanup \/ ShutdownPool \/ CloseStorage
  PROVE  IInv'
<1> USE DEF IInv
<1>1. /\ hook \in 1..4 /\ hook' = hook + 1 /\ stopping
      /\ UNCHANGED <<up, stopping, stops, once, cleaners, before, caller, run, result, row,
                     completed, request>>
  BY HookRuns DEF CancelAll, StopCleanup, ShutdownPool, CloseStorage
<1>2. (CancelAll => hook = 1) /\ (StopCleanup => hook = 2)
  BY HookRuns DEF CancelAll, StopCleanup
<1>3. /\ registry' \subseteq registry /\ live' \subseteq live
      /\ \A e \in live' : HandleId(e) \in registry => HandleId(e) \in registry'
  BY DEF CancelAll, StopCleanup, ShutdownPool, CloseStorage
<1>4. /\ RegistryIsExact' /\ RegistryInv' /\ RowsInv' /\ NothingToWrite'
      /\ registry' \subseteq Ids /\ live' \subseteq Runs
  BY <1>1, <1>3, FewerLive, RequestsUntouched
<1>5. HooksInv' /\ closes' \in Nat /\ pool' \in {"up", "shut"} /\ store' \in {"open", "closed"}
  <2>1. closes \in Nat /\ pool \in {"up", "shut"} /\ store \in {"open", "closed"}
    BY DEF TypeOK
  <2>2. CASE CancelAll
    <3>1. hook = 1 /\ UNCHANGED <<pool, store, closes>>
      BY <2>2, HookRuns DEF CancelAll
    <3>2. QED
      BY <1>1, <2>1, <3>1 DEF HooksInv
  <2>3. CASE StopCleanup
    <3>1. hook = 2 /\ closes' = closes + 1 /\ UNCHANGED <<pool, store>>
      BY <2>3, HookRuns DEF StopCleanup
    <3>2. QED
      BY <1>1, <2>1, <3>1 DEF HooksInv
  <2>4. CASE ShutdownPool
    <3>1. hook = 3 /\ pool' = "shut" /\ UNCHANGED <<store, closes>>
      BY <2>4, HookRuns DEF ShutdownPool
    <3>2. QED
      BY <1>1, <2>1, <3>1 DEF HooksInv
  <2>5. CASE CloseStorage
    <3>1. hook = 4 /\ store' = "closed" /\ UNCHANGED <<pool, closes>>
      BY <2>5, HookRuns DEF CloseStorage
    <3>2. QED
      BY <1>1, <2>1, <3>1 DEF HooksInv
  <2>6. QED
    BY <2>2, <2>3, <2>4, <2>5
<1>6. TypeOK'
  BY <1>1, <1>4, <1>5, HookFacts DEF TypeOK
<1>7. QED
  BY <1>4, <1>5, <1>6

-----------------------------------------------------------------------------
(* Execute and the goroutine of a run *)

\* What the steps of runs have in common
RunsInv == RegistryIsExact /\ RegistryInv /\ RowsInv

LEMMA ExecuteKeeps ==
  ASSUME IInv, NEW e \in Runs, Execute(e) \/ Register(e) \/ Launch(e)
  PROVE  IInv'
<1> USE DEF IInv
<1>1. UNCHANGED <<runtimeVars, request, result, row, completed>>
  BY DEF Execute, Register, Launch
<1>2. HooksInv' /\ NothingToWrite'
  BY <1>1, HooksUntouched, RequestsUntouched
<1>3. CASE Execute(e)
  <2>1. /\ caller[e] = "new" /\ caller' = [caller EXCEPT ![e] = "register"]
        /\ UNCHANGED <<registry, live, run>>
    BY <1>3 DEF Execute, Then
  <2>2. RunsInv'
    BY <1>1, <2>1 DEF RunsInv, RegistryIsExact, RegistryInv, RowsInv, InProgress, TypeOK
  <2>3. TypeOK'
    BY <1>1, <2>1 DEF TypeOK, runtimeVars
  <2>4. QED
    BY <1>2, <2>2, <2>3 DEF RunsInv
<1>4. CASE Register(e)
  <2>1. /\ caller[e] = "register" /\ caller' = [caller EXCEPT ![e] = "launch"]
        /\ registry' = registry \cup {HandleId(e)} /\ live' = live \cup {e} /\ UNCHANGED run
    BY <1>4 DEF Register, Then
  <2>2. \A f \in Runs \ {e} : caller'[f] = caller[f] /\ (HandleId(f) \in registry' <=> HandleId(f) \in registry)
    BY <2>1, IdsDiffer DEF TypeOK
  <2>3. RegistryInv'
    BY <2>1, <2>2 DEF RegistryInv, TypeOK
  <2>4. RegistryIsExact' /\ RowsInv'
    BY <1>1, <2>1, <2>2 DEF RegistryIsExact, RegistryInv, RowsInv, InProgress, TypeOK
  <2>5. TypeOK'
    BY <1>1, <2>1, IdsDiffer DEF TypeOK, runtimeVars
  <2>6. QED
    BY <1>2, <2>3, <2>4, <2>5
<1>5. CASE Launch(e)
  <2>1. /\ caller[e] = "launch" /\ caller' = [caller EXCEPT ![e] = "returned"]
        /\ run' = [run EXCEPT ![e] = "create"] /\ UNCHANGED <<registry, live>>
    BY <1>5 DEF Launch, Then
  <2>2. RunsInv'
    BY <1>1, <2>1 DEF RunsInv, RegistryIsExact, RegistryInv, RowsInv, InProgress, TypeOK
  <2>3. TypeOK'
    BY <1>1, <2>1 DEF TypeOK, runtimeVars
  <2>4. QED
    BY <1>2, <2>2, <2>3 DEF RunsInv
<1>6. QED
  BY <1>3, <1>4, <1>5

\* A run creates its row, executes and writes its status.
LEMMA GoroutineKeeps ==
  ASSUME IInv, NEW e \in Runs, CreateExecution(e) \/ ExecuteGraph(e) \/ Persist(e)
  PROVE  IInv'
<1> USE DEF IInv
<1>1. UNCHANGED <<runtimeVars, registry, caller, live, completed, request>>
  BY DEF CreateExecution, ExecuteGraph, Persist
<1>2. HooksInv' /\ NothingToWrite'
  BY <1>1, HooksUntouched, RequestsUntouched
<1>3. /\ run[e] \in {"create", "execute", "persist"}
      /\ \E s \in {"execute", "persist", "return"} : run' = [run EXCEPT ![e] = s]
  BY DEF CreateExecution, ExecuteGraph, Persist
<1>4. RegistryIsExact' /\ RegistryInv'
  BY <1>1, <1>3 DEF RegistryIsExact, RegistryInv, InProgress, TypeOK
<1>5. RowsInv' /\ result' \in [Runs -> {"none", "completed", "failed"}]
      /\ row' \in [Runs -> Statuses \cup {"none", "deleted"}]
  <2> /\ run \in [Runs -> {"none", "create", "execute", "persist", "return", "over"}]
      /\ result \in [Runs -> {"none", "completed", "failed"}]
      /\ row \in [Runs -> Statuses \cup {"none", "deleted"}]
    BY DEF TypeOK
  <2>1. CASE CreateExecution(e)
    BY <1>1, <2>1 DEF CreateExecution, RowsInv, Statuses
  <2>2. CASE ExecuteGraph(e)
    BY <1>1, <2>2 DEF ExecuteGraph, RowsInv
  <2>3. CASE Persist(e)
    <3>1. run[e] = "persist" /\ row[e] = "running" /\ result[e] \in {"completed", "failed"}
      BY <2>3 DEF Persist, RowsInv
    <3>2. /\ row' = row \/ row' = [row EXCEPT ![e] = result[e]]
          /\ run' = [run EXCEPT ![e] = "return"] /\ result' = [result EXCEPT ![e] = "none"]
      BY <2>3, <3>1 DEF Persist, SetStatus
    <3>3. QED
      BY <1>1, <3>1, <3>2 DEF RowsInv, Statuses, Terminal
  <2>4. QED
    BY <2>1, <2>2, <2>3
<1>6. run' \in [Runs -> {"none", "create", "execute", "persist", "return", "over"}]
  BY <1>3 DEF TypeOK
<1>7. TypeOK'
  BY <1>1, <1>5, <1>6 DEF TypeOK, runtimeVars
<1>8. QED
  BY <1>2, <1>4, <1>5, <1>7

\* The end of a run tells OnExecutionComplete and leaves the registry, unless the run was
\* begun by RestartExecution.
LEMMA RunReturnsKeeps ==
  ASSUME IInv, NEW e \in Runs, RunReturns(e)
  PROVE  IInv'
<1> USE DEF IInv
<1>1. /\ UNCHANGED <<runtimeVars, request, caller, result, row>>
      /\ run[e] = "return" /\ run' = [run EXCEPT ![e] = "over"] /\ live' = live \ {e}
  BY DEF RunReturns
<1>2. HooksInv' /\ NothingToWrite'
  BY <1>1, HooksUntouched, RequestsUntouched
<1>3. caller[e] \in {"returned", "restart"}
  BY <1>1 DEF TypeOK, RegistryInv
<1>4. registry' = registry \ {HandleId(e)}
  BY <1>1 DEF RunReturns, RegistryInv
<1>5. \A f \in Runs \ {e} : run'[f] = run[f] /\ (HandleId(f) \in registry' <=> HandleId(f) \in registry)
  BY <1>1, <1>4, IdsDiffer DEF TypeOK
<1>6. run'[e] = "over" /\ HandleId(e) \notin registry' /\ e \notin live'
  BY <1>1, <1>4 DEF TypeOK
<1>7. RegistryIsExact' /\ RegistryInv'
  BY <1>1, <1>3, <1>4, <1>5, <1>6 DEF RegistryIsExact, RegistryInv, InProgress
<1>8. RowsInv' /\ completed' \in [Runs -> Nat]
  <2>1. completed[e] = 0
    BY <1>1 DEF RowsInv
  <2>2. CASE caller[e] = "restart"
    BY <1>1, <1>5, <1>6, <2>1, <2>2 DEF RunReturns, RowsInv, TypeOK
  <2>3. CASE caller[e] = "returned"
    <3>1. completed' = [completed EXCEPT ![e] = 1]
      BY <2>1, <2>3 DEF RunReturns, TypeOK
    <3>2. QED
      BY <1>1, <1>5, <1>6, <2>3, <3>1 DEF RowsInv, TypeOK
  <2>4. QED
    BY <1>3, <2>2, <2>3
<1>9. TypeOK'
  <2>1. registry' \subseteq Ids /\ live' \subseteq Runs
    BY <1>1, <1>4 DEF TypeOK
  <2>2. run' \in [Runs -> {"none", "create", "execute", "persist", "return", "over"}]
    BY <1>1 DEF TypeOK
  <2>3. QED
    BY <1>1, <1>8, <2>1, <2>2 DEF TypeOK, runtimeVars
<1>10. QED
  BY <1>2, <1>7, <1>8, <1>9

\* A context ends by itself, or because the handle's Stop cancels it.
LEMMA ContextKeeps ==
  ASSUME IInv, NEW e \in Runs, ContextEnds(e) \/ HandleStop(e)
  PROVE  IInv'
<1> USE DEF IInv
<1>1. UNCHANGED <<runtimeVars, caller, run, result, row, completed, request>>
  BY DEF ContextEnds, HandleStop
<1>2. /\ registry' \subseteq registry /\ live' \subseteq live
      /\ \A f \in live' : HandleId(f) \in registry => HandleId(f) \in registry'
  BY DEF ContextEnds, HandleStop, Cancel
<1>3. /\ RegistryIsExact' /\ RegistryInv' /\ RowsInv'
      /\ registry' \subseteq Ids /\ live' \subseteq Runs
  BY <1>1, <1>2, FewerLive
<1>4. HooksInv' /\ NothingToWrite'
  BY <1>1, HooksUntouched, RequestsUntouched
<1>5. TypeOK'
  BY <1>1, <1>3 DEF TypeOK, runtimeVars
<1>6. QED
  BY <1>3, <1>4, <1>5

LEMMA CleanUpKeeps ==
  ASSUME IInv, CleanUp
  PROVE  IInv'
<1> USE DEF IInv
<1>1. UNCHANGED <<runtimeVars, registry, caller, run, live, result, completed, request>>
  BY DEF CleanUp
<1>2. HooksInv' /\ NothingToWrite'
  BY <1>1, HooksUntouched, RequestsUntouched
<1>3. RegistryIsExact' /\ RegistryInv'
  BY <1>1 DEF RegistryIsExact, RegistryInv, InProgress
<1>4. RowsInv' /\ row' \in [Runs -> Statuses \cup {"none", "deleted"}]
  <2>1. PICK e \in Runs : row[e] \in Terminal /\ row' = [row EXCEPT ![e] = "deleted"]
    BY DEF CleanUp
  <2>2. run[e] \notin {"none", "create", "execute", "persist"}
    BY <2>1 DEF RowsInv, Terminal
  <2>3. QED
    BY <1>1, <2>1, <2>2 DEF RowsInv, TypeOK
<1>5. TypeOK'
  BY <1>1, <1>4 DEF TypeOK, runtimeVars
<1>6. QED
  BY <1>2, <1>3, <1>4, <1>5

-----------------------------------------------------------------------------
(* Requests *)

LEMMA NoRequestType ==
  ASSUME NEW s \in {"new", "cancel", "write", "done"}
  PROVE  NoRequest(s) \in [step : {"new", "cancel", "write", "done"}, run : Runs]
<1>1. (CHOOSE e \in Runs : TRUE) \in Runs
  BY RunsAssumption
<1>2. QED
  BY <1>1 DEF NoRequest

LEMMA RequestKeeps ==
  ASSUME IInv, NEW q \in Requests,
         RequestStep(q) \/ \E e \in Runs : StopExecution(q, e) \/ BatchStopExecutions(q, e)
  PROVE  IInv'
<1> USE DEF IInv
<1>1. UNCHANGED <<runtimeVars, registry, runVars>>
  BY CancelFindsNothing DEF StopExecution, BatchStopExecutions
<1>2. \/ request' = [request EXCEPT ![q] = NoRequest("done")]
      \/ \E e \in Runs : request' = [request EXCEPT ![q] = [step |-> "cancel", run |-> e]]
  BY CancelFindsNothing DEF StopExecution, BatchStopExecutions, At
<1>3. /\ request' \in [Requests -> [step : {"new", "cancel", "write", "done"}, run : Runs]]
      /\ NothingToWrite'
  <2>1. NoRequest("done").step = "done"
    BY DEF NoRequest
  <2>2. PICK v \in [step : {"new", "cancel", "write", "done"}, run : Runs] :
          request' = [request EXCEPT ![q] = v] /\ v.step \in {"done", "cancel"}
    BY <1>2, <2>1, NoRequestType
  <2>3. QED
    BY <2>2 DEF TypeOK, NothingToWrite
<1>4. HooksInv' /\ RegistryIsExact' /\ RegistryInv' /\ RowsInv'
  BY <1>1, HooksUntouched, RunsUntouched
<1>5. TypeOK'
  BY <1>1, <1>3 DEF TypeOK, runtimeVars, runVars
<1>6. QED
  BY <1>3, <1>4, <1>5

LEMMA RestartKeeps ==
  ASSUME IInv, NEW q \in Requests, NEW e \in Runs, NEW f \in Runs, RestartExecution(q, e, f)
  PROVE  IInv'
<1> USE DEF IInv
<1>1. /\ UNCHANGED <<runtimeVars, registry, result, row, completed>> /\ caller[f] = "new"
      /\ caller' = [caller EXCEPT ![f] = "restart"] /\ run' = [run EXCEPT ![f] = "create"]
      /\ live' = live \cup {f} /\ request' = [request EXCEPT ![q] = NoRequest("done")]
  BY DEF RestartExecution, At
<1>2. /\ request' \in [Requests -> [step : {"new", "cancel", "write", "done"}, run : Runs]]
      /\ NothingToWrite'
  BY <1>1, NoRequestType DEF TypeOK, NothingToWrite, NoRequest
<1>3. HooksInv'
  BY <1>1, HooksUntouched
<1>4. run[f] = "none" /\ HandleId(f) \notin registry
  BY <1>1 DEF RegistryInv
<1>5. RegistryIsExact' /\ RegistryInv' /\ RowsInv'
  BY <1>1, <1>4 DEF RegistryIsExact, RegistryInv, RowsInv, InProgress, TypeOK
<1>6. TypeOK'
  BY <1>1, <1>2 DEF TypeOK, runtimeVars
<1>7. QED
  BY <1>2, <1>3, <1>5, <1>6

-----------------------------------------------------------------------------
LEMMA StutterKeeps ==
  ASSUME IInv, UNCHANGED vars
  PROVE  IInv'
<1>1. HooksInv' /\ RegistryIsExact' /\ RegistryInv' /\ RowsInv' /\ NothingToWrite'
  BY HooksUntouched, RunsUntouched, RequestsUntouched DEF IInv, vars
<1>2. TypeOK'
  BY DEF IInv, TypeOK, vars, runtimeVars, runVars
<1>3. QED
  BY <1>1, <1>2 DEF IInv

LEMMA NextIInv == IInv /\ [Next]_vars => IInv'
<1> SUFFICES ASSUME IInv, [Next]_vars PROVE IInv'
  OBVIOUS
<1>1. CASE Start \/ Stop \/ StopStep \/ CleanUp \/ CleanerEnds
  BY <1>1, StartStopKeep, HookKeeps, CleanUpKeeps DEF StopStep
<1>2. ASSUME NEW e \in Runs,
             \/ Execute(e) \/ RunStep(e) \/ ExecuteGraph(e) \/ ContextEnds(e) \/ HandleStop(e)
      PROVE  IInv'
  BY <1>2, ExecuteKeeps, GoroutineKeeps, RunReturnsKeeps, ContextKeeps DEF RunStep
<1>3. ASSUME NEW e \in Runs, Wait(e) PROVE IInv'
  BY <1>3, WaitFindsNothing, StutterKeeps DEF IInv
<1>4. ASSUME NEW q \in Requests,
             \/ RequestStep(q) \/ \E e \in Runs : StopExecution(q, e) \/ BatchStopExecutions(q, e)
             \/ \E e, f \in Runs : RestartExecution(q, e, f)
      PROVE  IInv'
  BY <1>4, RequestKeeps, RestartKeeps
<1>5. CASE UNCHANGED vars
  BY <1>5, StutterKeeps
<1>6. QED
  BY <1>1, <1>2, <1>3, <1>4, <1>5 DEF Next

\* The hooks, the registry and the rows agree in every reachable state, for any number of
\* executions, requests and calls of Stop.
THEOREM Invariance == Spec => []IInv
BY InitIInv, NextIInv, PTL DEF Spec

\* The types hold, and each Start that found the runtime stopped accounts for one goroutine
\* of the cleanup job.
THEOREM TypeCorrect == Spec => []TypeOK
<1>1. IInv => TypeOK
  BY DEF IInv
<1>2. QED
  BY <1>1, Invariance, PTL

\* Every registered id belongs to a run that has not ended, and every run of Execute with
\* a live context can be cancelled.
THEOREM RegistryExact == Spec => []RegistryIsExact
<1>1. IInv => RegistryIsExact
  BY DEF IInv
<1>2. QED
  BY <1>1, Invariance, PTL

\* The runs that were registered when Stop began

LEMMA StillCancelled ==
  ASSUME CancelledInv, UNCHANGED <<hook, before>>,
         \A e \in before : /\ caller'[e] = caller[e] \/ caller'[e] = "returned"
                           /\ e \in live' => e \in live
  PROVE  CancelledInv'
BY DEF CancelledInv

LEMMA StopCancelled ==
  ASSUME IInv, CancelledInv, Stop
  PROVE  CancelledInv'
<1>1. UNCHANGED <<caller, live, registry>> /\ ~stopping
  BY DEF Stop, runVars
<1>2. CASE FirstTime
  <2>1. hook' = 1 /\ before' = {e \in Runs : HandleId(e) \in registry}
    BY <1>2 DEF Stop
  <2>2. \A e \in before' : caller[e] \in {"launch", "returned"}
    BY <2>1 DEF IInv, RegistryInv, TypeOK
  <2>3. QED
    BY <1>1, <2>1, <2>2 DEF CancelledInv
<1>3. CASE ~FirstTime
  <2>1. hook > 1 /\ before' = before
    BY <1>1, <1>3, HookFacts DEF IInv, HooksInv, FirstTime, Stop
  <2>2. QED
    BY <1>1, <2>1 DEF CancelledInv
<1>4. QED
  BY <1>2, <1>3

\* The cancel hook finds each of them registered, unless its context has ended.
LEMMA HookCancels ==
  ASSUME IInv, CancelledInv, CancelAll \/ StopCleanup \/ ShutdownPool \/ CloseStorage
  PROVE  CancelledInv'
<1>1. hook \in 1..4 /\ hook' = hook + 1 /\ UNCHANGED <<before, caller>>
  BY HookRuns DEF IInv, CancelAll, StopCleanup, ShutdownPool, CloseStorage
<1>2. CASE CancelAll
  <2>1. live' = {e \in live : HandleId(e) \notin registry}
    BY <1>2 DEF CancelAll
  <2>2. ASSUME NEW e \in before, e \in live PROVE HandleId(e) \in registry
    <3>1. e \in Runs /\ caller[e] \in {"launch", "returned"}
      BY <2>2 DEF IInv, TypeOK, CancelledInv
    <3>2. caller[e] = "returned" => InProgress(e)
      BY <2>2, <3>1 DEF IInv, RegistryInv, InProgress
    <3>3. QED
      BY <2>2, <3>1, <3>2 DEF IInv, RegistryInv, RegistryIsExact
  <2>3. QED
    BY <1>1, <2>1, <2>2 DEF CancelledInv
<1>3. CASE StopCleanup \/ ShutdownPool \/ CloseStorage
  <2>1. hook > 1 /\ live' = live
    BY <1>1, <1>3, HookRuns DEF IInv, StopCleanup, ShutdownPool, CloseStorage
  <2>2. QED
    BY <1>1, <2>1 DEF CancelledInv
<1>4. QED
  BY <1>2, <1>3

LEMMA NextCancelled == IInv /\ CancelledInv /\ [Next]_vars => CancelledInv'
<1> SUFFICES ASSUME IInv, CancelledInv, [Next]_vars PROVE CancelledInv'
  OBVIOUS
<1>1. CASE Start \/ StopReturns \/ CleanerEnds \/ CleanUp \/ UNCHANGED vars
  <2>1. UNCHANGED <<hook, before, caller, live>>
    BY <1>1 DEF Start, StopReturns, CleanerEnds, CleanUp, vars, runVars, runtimeVars
  <2>2. QED
    BY <2>1, StillCancelled
<1>2. CASE Stop \/ StopStep
  BY <1>1, <1>2, StopCancelled, HookCancels DEF StopStep
<1>3. ASSUME NEW e \in Runs, Execute(e) \/ Register(e) \/ Launch(e) PROVE CancelledInv'
  <2>1. /\ caller[e] \in {"new", "register", "launch"}
        /\ caller' = [caller EXCEPT ![e] = Then(caller[e])]
        /\ live' = live \/ (Register(e) /\ live' = live \cup {e})
        /\ UNCHANGED <<hook, before>>
    BY <1>3 DEF Execute, Register, Launch, runtimeVars
  <2>2. e \in before => caller[e] = "launch" /\ live' = live
    BY <2>1 DEF CancelledInv, Register
  <2>3. e \in before => caller'[e] = "returned"
    BY <2>1, <2>2 DEF IInv, TypeOK, Then
  <2>4. QED
    BY <2>1, <2>2, <2>3, StillCancelled DEF IInv, TypeOK
<1>4. ASSUME NEW e \in Runs,
             \/ CreateExecution(e) \/ ExecuteGraph(e) \/ Persist(e) \/ RunReturns(e)
             \/ ContextEnds(e) \/ HandleStop(e) \/ Wait(e)
      PROVE  CancelledInv'
  <2>1. UNCHANGED <<hook, before, caller>> /\ live' \subseteq live
    BY <1>4 DEF CreateExecution, ExecuteGraph, Persist, RunReturns, ContextEnds, HandleStop,
                Cancel, Wait, runtimeVars
  <2>2. QED
    BY <2>1, StillCancelled
<1>5. ASSUME NEW q \in Requests,
             RequestStep(q) \/ \E e \in Runs : StopExecution(q, e) \/ BatchStopExecutions(q, e)
      PROVE  CancelledInv'
  <2>1. UNCHANGED <<hook, before, caller, live>>
    BY <1>5, CancelFindsNothing
       DEF StopExecution, BatchStopExecutions, runtimeVars, runVars
  <2>2. QED
    BY <2>1, StillCancelled
<1>6. ASSUME NEW q \in Requests, NEW e \in Runs, NEW f \in Runs, RestartExecution(q, e, f)
      PROVE  CancelledInv'
  <2>1. /\ caller[f] = "new" /\ caller' = [caller EXCEPT ![f] = "restart"]
        /\ live' = live \cup {f} /\ UNCHANGED <<hook, before>>
    BY <1>6 DEF RestartExecution, runtimeVars
  <2>2. f \notin before
    BY <2>1 DEF CancelledInv
  <2>3. QED
    BY <2>1, <2>2, StillCancelled DEF IInv, TypeOK
<1>7. QED
  BY <1>1, <1>2, <1>3, <1>4, <1>5, <1>6 DEF Next, RunStep

\* When the hook that closes the storage has run, the runs that Stop found registered have
\* no context any more, and neither the cleanup job nor the pool is left.
THEOREM StorageClosedLast == Spec => []StorageIsLast
<1>1. Init => CancelledInv
  BY DEF Init, CancelledInv
<1>2. IInv /\ CancelledInv => StorageIsLast
  <2> SUFFICES ASSUME IInv, CancelledInv, store = "closed"
               PROVE  before \cap live = {} /\ closes > 0 /\ pool = "shut"
    BY DEF StorageIsLast
  <2>1. hook > 4 /\ hook \in 1..5
    BY HookFacts DEF IInv, HooksInv, TypeOK
  <2>2. closes > 0 /\ pool = "shut"
    BY <2>1 DEF IInv, HooksInv
  <2>3. before \cap live = {}
    BY <2>1 DEF CancelledInv
  <2>4. QED
    BY <2>2, <2>3
<1>3. QED
  BY <1>1, <1>2, NextCancelled, Invariance, PTL DEF Spec

\* However Start and Stop alternate, the cleanup job's channel is closed once at most.
THEOREM ChannelClosedOnce == Spec => []ClosedOnce
<1>1. IInv => ClosedOnce
  BY DEF IInv, HooksInv, ClosedOnce
<1>2. QED
  BY <1>1, Invariance, PTL

-----------------------------------------------------------------------------
(* The record of an execution *)

LEMMA InitRecord == Init => Record!Init
BY DEF Init, Record!Init

\* Only the run creates its row, while there is none, and it gets no other id.
LEMMA CreateBegins ==
  ASSUME IInv, NEW e \in Runs, CreateExecution(e)
  PROVE  Record!Begin(e) \/ UNCHANGED Record!vars
<1>1. row[e] = "none" /\ completed[e] = 0
  BY DEF IInv, RowsInv, CreateExecution
<1>2. UNCHANGED <<completed, store>>
  BY DEF CreateExecution, runtimeVars
<1>3. row' = row \/ (store = "open" /\ row' = [row EXCEPT ![e] = "running"])
  BY DEF CreateExecution, StoreWorks
<1>4. QED
  BY <1>1, <1>2, <1>3 DEF Record!Begin, Record!Write, Record!vars

\* Run writes its last status before it returns, and so before OnExecutionComplete.
LEMMA PersistEnds ==
  ASSUME IInv, NEW e \in Runs, Persist(e)
  PROVE  Record!End(e) \/ UNCHANGED Record!vars
<1>1. /\ row[e] = "running" /\ completed[e] = 0
      /\ result[e] \in {"completed", "failed"}
  BY DEF IInv, RowsInv, Persist, TypeOK
<1>2. UNCHANGED <<completed, store>>
  BY DEF Persist, runtimeVars
<1>3. row' = row \/ (store = "open" /\ row' = [row EXCEPT ![e] = result[e]])
  BY <1>1 DEF Persist, StoreWorks, SetStatus
<1>4. QED
  BY <1>1, <1>2, <1>3 DEF Record!End, Record!Write, Record!Ended, Record!vars

\* The goroutine of Execute is the only one to call OnExecutionComplete.
LEMMA ReturnTells ==
  ASSUME IInv, NEW e \in Runs, RunReturns(e)
  PROVE  Record!Tell(e) \/ UNCHANGED Record!vars
<1>1. completed[e] = 0
  BY DEF IInv, RowsInv, RunReturns
<1>2. UNCHANGED <<row, store>>
  BY DEF RunReturns, runtimeVars
<1>3. completed' = completed \/ completed' = [completed EXCEPT ![e] = 1]
  BY <1>1 DEF RunReturns, IInv, TypeOK
<1>4. QED
  BY <1>1, <1>2, <1>3 DEF Record!Tell, Record!vars

LEMMA CleanUpDeletes ==
  ASSUME IInv, CleanUp
  PROVE  \E e \in Runs : Record!Delete(e)
<1>1. PICK e \in Runs : row[e] \in Terminal /\ row' = [row EXCEPT ![e] = "deleted"]
  BY DEF CleanUp
<1>2. Record!Delete(e)
  BY <1>1 DEF CleanUp, runtimeVars, Terminal, Record!Delete, Record!Write, Record!Ended
<1>3. QED
  BY <1>2

\* The storage hook finds the storage open: it runs once.
LEMMA HookCloses ==
  ASSUME IInv, CancelAll \/ StopCleanup \/ ShutdownPool \/ CloseStorage
  PROVE  Record!Close \/ UNCHANGED Record!vars
<1>1. UNCHANGED <<row, completed>>
  BY DEF CancelAll, StopCleanup, ShutdownPool, CloseStorage, RunsHook
<1>2. CASE CloseStorage
  <2>1. hook = 4
    BY <1>2, HookRuns DEF CloseStorage, IInv
  <2>2. store = "open" /\ store' = "closed"
    BY <1>2, <2>1 DEF CloseStorage, IInv, HooksInv, TypeOK
  <2>3. QED
    BY <1>1, <2>2 DEF Record!Close
<1>3. CASE CancelAll \/ StopCleanup \/ ShutdownPool
  BY <1>1, <1>3 DEF CancelAll, StopCleanup, ShutdownPool, Record!vars
<1>4. QED
  BY <1>2, <1>3

\* Nothing else changes a record, neither a request nor a call of Wait.
LEMMA OthersStutter ==
  ASSUME IInv,
         \/ Start \/ Stop \/ StopReturns \/ CleanerEnds \/ UNCHANGED vars
         \/ \E e \in Runs : \/ Execute(e) \/ Register(e) \/ Launch(e) \/ ExecuteGraph(e)
                            \/ ContextEnds(e) \/ HandleStop(e) \/ Wait(e)
         \/ \E q \in Requests :
              \/ RequestStep(q)
              \/ \E e \in Runs : StopExecution(q, e) \/ BatchStopExecutions(q, e)
              \/ \E e, f \in Runs : RestartExecution(q, e, f)
  PROVE  UNCHANGED Record!vars
<1> SUFFICES UNCHANGED <<row, completed, store>>
  BY DEF Record!vars
<1>1. CASE Start \/ Stop \/ StopReturns \/ CleanerEnds \/ UNCHANGED vars
  BY <1>1 DEF Start, Stop, StopReturns, CleanerEnds, vars, runVars, runtimeVars
<1>2. ASSUME NEW e \in Runs,
             \/ Execute(e) \/ Register(e) \/ Launch(e) \/ ExecuteGraph(e)
             \/ ContextEnds(e) \/ HandleStop(e)
      PROVE  UNCHANGED <<row, completed, store>>
  BY <1>2 DEF Execute, Register, Launch, ExecuteGraph, ContextEnds, HandleStop, runtimeVars
<1>3. ASSUME NEW e \in Runs, Wait(e) PROVE UNCHANGED <<row, completed, store>>
  BY <1>3, WaitFindsNothing DEF IInv, vars, runVars, runtimeVars
<1>4. ASSUME NEW q \in Requests, RequestStep(q) PROVE UNCHANGED <<row, completed, store>>
  BY <1>4, CancelFindsNothing DEF runVars, runtimeVars
<1>5. ASSUME NEW q \in Requests, NEW e \in Runs, NEW f \in Runs,
             StopExecution(q, e) \/ BatchStopExecutions(q, e) \/ RestartExecution(q, e, f)
      PROVE  UNCHANGED <<row, completed, store>>
  BY <1>5 DEF StopExecution, BatchStopExecutions, RestartExecution, runVars, runtimeVars
<1>6. QED
  BY <1>1, <1>2, <1>3, <1>4, <1>5

LEMMA NextRecord == IInv /\ [Next]_vars => [Record!Next]_(Record!vars)
<1> SUFFICES ASSUME IInv, [Next]_vars PROVE Record!Next \/ UNCHANGED Record!vars
  OBVIOUS
<1> USE DEF Record!Next
<1>1. CASE Start \/ Stop \/ StopStep \/ CleanUp \/ CleanerEnds
  BY <1>1, CleanUpDeletes, HookCloses, OthersStutter DEF StopStep
<1>2. ASSUME NEW e \in Runs, CreateExecution(e) \/ Persist(e) \/ RunReturns(e)
      PROVE  Record!Next \/ UNCHANGED Record!vars
  BY <1>2, CreateBegins, PersistEnds, ReturnTells
<1>3. ASSUME NEW e \in Runs,
             \/ Execute(e) \/ Register(e) \/ Launch(e) \/ ExecuteGraph(e)
             \/ ContextEnds(e) \/ HandleStop(e) \/ Wait(e)
      PROVE  UNCHANGED Record!vars
  BY <1>3, OthersStutter
<1>4. ASSUME NEW q \in Requests,
             \/ RequestStep(q)
             \/ \E e \in Runs : StopExecution(q, e) \/ BatchStopExecutions(q, e)
             \/ \E e, f \in Runs : RestartExecution(q, e, f)
      PROVE  UNCHANGED Record!vars
  BY <1>4, OthersStutter
<1>5. CASE UNCHANGED vars
  BY <1>5, OthersStutter
<1>6. QED
  BY <1>1, <1>2, <1>3, <1>4, <1>5 DEF Next, RunStep

\* The runtime, its handles, the handlers and the cleanup job together keep the promise of
\* ExecutionRecord: whatever they do at the same time, a terminal status stays until the row
\* is deleted, OnExecutionComplete is told once and after the last status, and a closed
\* storage is not written.
THEOREM Refinement == Spec => ImplementsRecord
BY InitRecord, NextRecord, Invariance, PTL DEF Spec, ImplementsRecord, Record!Spec

\* A request to stop an execution ends with "not found" whenever it comes: the id it gives
\* is the row's, and runs are registered under another one (StopExecution, Execute).
THEOREM StopRequestsFindNothing == Spec => []NothingToWrite
<1>1. IInv => NothingToWrite
  BY DEF IInv
<1>2. QED
  BY <1>1, Invariance, PTL
=============================================================================
