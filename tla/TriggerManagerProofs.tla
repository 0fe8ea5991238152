------------------------ MODULE TriggerManagerProofs ------------------------
(***************************************************************************)
(* Proofs about TriggerManager, for any number of triggers, requests,      *)
(* runners and calls of Fire: no schedule or process is lost, no runner is *)
(* stopped twice, rows and runners agree, StopAll is the end of it, and    *)
(* the manager implements TriggerService.                                  *)
(***************************************************************************)
EXTENDS TriggerManager, TLAPS

-----------------------------------------------------------------------------
(* Types *)

Steps == {"new", "write", "deleteRow", "register", "starting", "unregister", "stopping",
          "find", "check", "deliver", "invoke", "answer", "done"}

CallType(n) ==
  [step : Steps, id : Ids, type : Types, enabled : {"on", "off"}, was : {"none", "on", "off"},
   then : {"done", "register", "deleteRow"}, got : 0..n]

RunnerType ==
  [id : Ids, type : Types, live : BOOLEAN, told : BOOLEAN, ready : BOOLEAN,
   invoked : BOOLEAN, hung : BOOLEAN, job : BOOLEAN, stops : Nat]

RowType == [enabled : {"none", "off", "on"}, type : Types]

FireType ==
  [step : {"none", "lookup", "execute", "record", "over"},
   id : Ids, ctx : Requests \cup {"background", "event", "ended"},
   outcome : {"none", "success", "failed"}, records : SUBSET {"success", "failed"}]

LEMMA TypeOKParts ==
  TypeOK <=> /\ row \in [Ids -> RowType] /\ used \subseteq Ids /\ todo \subseteq Ids
             /\ triggers \in [Ids -> 0..next] /\ next \in 0..MaxRunners
             /\ tmMu \in Callers \cup {"free"} /\ runner \in [Runners -> RunnerType]
             /\ server \in {"load", "serve", "stop", "end", "crashed"}
             /\ call \in [Callers -> CallType(next)] /\ overlap \in BOOLEAN
             /\ fire \in [Fires -> FireType]
BY DEF TypeOK, RowType, RunnerType, CallType, Steps, FireType

LEMMA Constants ==
  /\ AnId \in Ids /\ AType \in Types /\ MaxRunners \in Nat
  /\ Server \in Callers /\ Server \notin Requests /\ Requests \subseteq Callers
  /\ "free" \notin Callers
<1>1. AnId \in Ids /\ AType \in Types
  BY SetsAssumption DEF AnId, AType
<1>2. "free" \notin Callers /\ Server \notin Requests
  BY SetsAssumption DEF Callers, Server
<1>3. QED
  BY <1>1, <1>2, BoundsAssumption DEF Callers

LEMMA HandlerType ==
  ASSUME NEW n \in Nat, NEW s \in Steps, NEW i \in Ids
  PROVE  /\ Handler(s, i) \in CallType(n)
         /\ Handler(s, i).step = s /\ Handler(s, i).id = i /\ Handler(s, i).then = "done"
BY Constants DEF Handler, CallType

\* A call that becomes v
LEMMA CallBecomes ==
  ASSUME TypeOK, NEW c \in Callers, NEW v \in CallType(next'), call' = [call EXCEPT ![c] = v],
         next' \in 0..MaxRunners, next <= next'
  PROVE  /\ call'[c] = v /\ \A d \in Callers : d # c => call'[d] = call[d]
         /\ call' \in [Callers -> CallType(next')]
<1>1. call \in [Callers -> CallType(next)] /\ next \in Nat /\ next' \in Nat
  BY TypeOKParts, Constants
<1>2. \A n, m \in Nat : n <= m => 0..n \subseteq 0..m
  OBVIOUS
<1>3. CallType(next) \subseteq CallType(next')
  BY <1>1, <1>2 DEF CallType
<1>4. QED
  BY <1>1, <1>3

LEMMA GotoBecomes ==
  ASSUME TypeOK, NEW c \in Callers, NEW s \in Steps, Goto(c, s),
         next' \in 0..MaxRunners, next <= next'
  PROVE  /\ call'[c].step = s /\ \A d \in Callers : d # c => call'[d] = call[d]
         /\ s # "done" => call'[c] = [call[c] EXCEPT !.step = s]
         /\ s # "done" => /\ call'[c].id = call[c].id /\ call'[c].type = call[c].type
                          /\ call'[c].then = call[c].then
         /\ call' \in [Callers -> CallType(next')]
<1>1. call[c] \in CallType(next) /\ next \in Nat /\ next' \in Nat
  BY TypeOKParts, Constants
<1>2. \A n, m \in Nat : n <= m => 0..n \subseteq 0..m
  OBVIOUS
<1>3. CallType(next) \subseteq CallType(next')
  BY <1>1, <1>2 DEF CallType
<1>4. CASE s = "done"
  <2>1. /\ call' = [call EXCEPT ![c] = Handler("done", AnId)]
        /\ Handler("done", AnId) \in CallType(next') /\ Handler("done", AnId).step = "done"
    BY <1>1, <1>4, Constants, HandlerType DEF Goto, Steps
  <2>2. QED
    BY <1>4, <2>1, CallBecomes
<1>5. CASE s # "done"
  <2> DEFINE v == [call[c] EXCEPT !.step = s]
  <2>1. call' = [call EXCEPT ![c] = v]
    BY <1>5 DEF Goto
  <2>2. v \in CallType(next) /\ v.step = s /\ v.id = call[c].id /\ v.type = call[c].type
        /\ v.then = call[c].then
    BY <1>1 DEF CallType
  <2>3. v \in CallType(next')
    BY <1>3, <2>2
  <2> HIDE DEF v
  <2>4. call'[c] = v /\ (\A d \in Callers : d # c => call'[d] = call[d])
        /\ call' \in [Callers -> CallType(next')]
    BY <2>1, <2>3, CallBecomes
  <2>5. QED
    BY <1>5, <2>2, <2>4 DEF v
<1>6. QED
  BY <1>4, <1>5

-----------------------------------------------------------------------------
(* Steps that leave map and lock alone *)

\* Runners get no new life, id, type or stop.
NoNewLife ==
  /\ runner' \in [Runners -> RunnerType]
  /\ \A r \in Runners :
       /\ runner'[r].id = runner[r].id /\ runner'[r].type = runner[r].type
       /\ runner'[r].stops = runner[r].stops
       /\ runner'[r].live => runner[r].live

LEMMA SameRunner ==
  ASSUME TypeOK, UNCHANGED runner
  PROVE  NoNewLife
BY TypeOKParts DEF NoNewLife

\* What the parts of the invariant that speak of runners need of such a step
LEMMA RunnersKeep ==
  ASSUME IInv, NoNewLife, UNCHANGED <<triggers, tmMu, next, server, todo>>,
         Step(Server)' = Step(Server), Id(Server)' = Id(Server),
         \A c \in Callers : Step(c)' \in {"starting", "stopping"} => call'[c] = call[c],
         \A c \in Callers : Step(c) = "starting" => Step(c)' = "starting"
  PROVE  NoOrphanRunner' /\ StoppedOnce' /\ MapInv' /\ StopsInv'
<1> USE DEF IInv
<1>1. next \in Nat /\ \A i \in Ids : triggers[i] # 0 => triggers[i] \in Runners
  BY TypeOKParts, Constants DEF Runners
<1>2. \A r \in Runners : runner[r].id \in Ids
  BY TypeOKParts DEF RunnerType
<1>3. NoOrphanRunner'
  <2>1. ASSUME NEW r \in Runners, Starting(r) PROVE Starting(r)'
    <3>1. tmMu \in Callers /\ call[tmMu].step = "starting"
      BY <2>1, TypeOKParts DEF Starting
    <3>2. QED
      BY <2>1, <3>1 DEF Starting, Step
  <2>2. QED
    BY <2>1 DEF NoOrphanRunner, NoNewLife
<1>4. StoppedOnce'
  BY DEF StoppedOnce, NoNewLife
<1>5. MapInv'
  <2>1. \A i \in Ids : triggers'[i] # 0 => runner'[triggers'[i]].id = i
    BY <1>1 DEF MapInv, NoNewLife
  <2>2. ASSUME NEW c \in Callers, Step(c)' = "starting"
        PROVE  /\ next' \in Runners /\ runner'[next'].id = Id(c)'
               /\ runner'[next'].type = call'[c].type
               /\ runner'[next'].stops = 0 /\ triggers'[Id(c)'] = 0
               /\ \A i \in Ids : triggers'[i] # next'
    BY <2>2 DEF MapInv, NoNewLife, Step, Id
  <2>3. \A c \in Callers : Step(c)' = "stopping" => triggers'[Id(c)'] # 0
    BY DEF MapInv, Step, Id
  <2>4. \A r \in Runners : r > next' => ~runner'[r].live /\ runner'[r].stops = 0
    BY DEF MapInv, NoNewLife
  <2>5. QED
    BY <2>1, <2>2, <2>3, <2>4 DEF MapInv
<1>6. StopsInv'
  <2>1. \A i \in Ids : StoppedByAll(i)' = StoppedByAll(i)
    BY DEF StoppedByAll
  <2>2. \A i \in Ids : triggers'[i] # 0 =>
          IF StoppedByAll(i)' THEN ~runner'[triggers'[i]].live ELSE runner'[triggers'[i]].stops = 0
    BY <1>1, <2>1 DEF StopsInv, NoNewLife
  <2>3. QED
    BY <2>2 DEF StopsInv, Idle, Step
<1>7. QED
  BY <1>3, <1>4, <1>5, <1>6

\* A step that only lets time pass, on runners or calls of Fire
LEMMA AsideKeeps ==
  ASSUME IInv, NoNewLife, UNCHANGED <<storeVars, triggers, tmMu, next, serverVars, call>>,
         fire' \in [Fires -> FireType], OutcomesInv'
  PROVE  IInv'
<1> USE DEF IInv
<1>1. UNCHANGED <<row, used, triggers, tmMu, next, server, todo, overlap, call>>
  BY DEF storeVars, serverVars
<1>2. TypeOK'
  <2>1. runner' \in [Runners -> RunnerType]
    BY DEF NoNewLife
  <2>2. QED
    BY <1>1, <2>1 DEF TypeOK, RunnerType, FireType
<1>3. NoOrphanRunner' /\ StoppedOnce' /\ MapInv' /\ StopsInv'
  BY <1>1, RunnersKeep DEF Step, Id
<1>4. LockInv' /\ UsedInv' /\ StoppedInv'
  BY <1>1 DEF LockInv, UsedInv, StoppedInv, Step, Idle, Id
<1>5. SerialInv'
  <2>1. \A i \in Ids : triggers[i] # 0 => triggers[i] \in Runners
    BY TypeOKParts, Constants DEF Runners
  <2>2. \A i \in Ids : Agrees(i) => Agrees(i)'
    BY <1>1, <2>1 DEF Agrees, NoNewLife
  <2>3. QED
    BY <1>1, <2>2 DEF SerialInv, Step, Id, Idle
<1>6. QED
  BY <1>2, <1>3, <1>4, <1>5

LEMMA FireBecomes ==
  ASSUME TypeOK, OutcomesInv, NEW f \in Fires, NEW v \in FireType, v.step = "record" => v.outcome # "none",
         fire' = [fire EXCEPT ![f] = v]
  PROVE  fire' \in [Fires -> FireType] /\ OutcomesInv'
BY TypeOKParts DEF OutcomesInv

LEMMA FireAnyKeeps ==
  ASSUME TypeOK, OutcomesInv, NEW i \in Ids, NEW ctx \in Requests \cup {"background", "event"},
         FireAny(i, ctx)
  PROVE  fire' \in [Fires -> FireType] /\ OutcomesInv'
<1>1. CASE UNCHANGED fire
  BY <1>1, TypeOKParts DEF OutcomesInv
<1>2. ASSUME NEW f \in Fires, Fire(f, i, ctx)
      PROVE  fire' \in [Fires -> FireType] /\ OutcomesInv'
  <2> DEFINE v == [fire[f] EXCEPT !.step = "lookup", !.id = i, !.ctx = ctx]
  <2>1. fire[f] \in FireType
    BY TypeOKParts
  <2>2. v \in FireType /\ v.step = "lookup"
    BY <2>1 DEF FireType
  <2>3. fire' = [fire EXCEPT ![f] = v]
    BY <1>2 DEF Fire
  <2> HIDE DEF v
  <2>4. QED
    BY <2>2, <2>3, FireBecomes
<1>3. QED
  BY <1>1, <1>2 DEF FireAny

\* Ticks, jobs, and what becomes of a process
LEMMA RunnerStepKeeps ==
  ASSUME IInv, NEW r \in Runners, RunnerStep(r) \/ CronJob(r)
  PROVE  IInv'
<1> USE DEF IInv
<1>1. UNCHANGED <<storeVars, triggers, tmMu, next, serverVars, call>>
  BY DEF RunnerStep, Tick, CronTick, CronJob, ProcessDies, ProcessHangs, managerVars
<1>2. runner[r] \in RunnerType /\ runner[r].id \in Ids
  BY TypeOKParts DEF RunnerType
<1>3. NoNewLife
  <2>1. CASE UNCHANGED runner
    BY <2>1, SameRunner
  <2>2. CASE \E b \in BOOLEAN : runner' = [runner EXCEPT ![r].job = b]
    BY <2>2, TypeOKParts DEF NoNewLife, RunnerType
  <2>3. CASE runner' = [runner EXCEPT ![r].live = FALSE]
    BY <2>3, TypeOKParts DEF NoNewLife, RunnerType
  <2>4. CASE runner' = [runner EXCEPT ![r].hung = TRUE]
    BY <2>4, TypeOKParts DEF NoNewLife, RunnerType
  <2>5. QED
    BY <2>1, <2>2, <2>3, <2>4
       DEF RunnerStep, Tick, CronTick, CronJob, ProcessDies, ProcessHangs, managerVars
<1>4. fire' \in [Fires -> FireType] /\ OutcomesInv'
  <2>1. CASE UNCHANGED fire
    BY <2>1, TypeOKParts DEF OutcomesInv
  <2>2. CASE \E ctx \in {"background", "event"} : FireAny(runner[r].id, ctx)
    BY <1>2, <2>2, FireAnyKeeps
  <2>3. QED
    BY <2>1, <2>2 DEF RunnerStep, Tick, CronTick, CronJob, ProcessDies, ProcessHangs
<1>5. QED
  BY <1>1, <1>3, <1>4, AsideKeeps

\* The goroutine of Fire
LEMMA FireStepKeeps ==
  ASSUME IInv, NEW f \in Fires, FireStep(f) \/ EventReturns(f)
  PROVE  IInv'
<1> USE DEF IInv
<1>1. UNCHANGED <<storeVars, managerVars, serverVars, call>>
  BY DEF FireStep, Lookup, Execute, Record, EventReturns
<1>2. UNCHANGED <<triggers, tmMu, next, runner>>
  BY <1>1 DEF managerVars
<1>3. NoNewLife
  BY <1>2, SameRunner
<1>4. fire[f] \in FireType
  BY TypeOKParts
<1>5. ASSUME NEW s \in SUBSET {"success", "failed"}, fire' = Over(f, s)
      PROVE  fire' \in [Fires -> FireType] /\ OutcomesInv'
  <2> DEFINE v == [NoFire EXCEPT !.step = "over", !.records = s]
  <2>1. v \in FireType /\ v.step = "over"
    BY Constants DEF NoFire, FireType
  <2>2. fire' = [fire EXCEPT ![f] = v]
    BY <1>5 DEF Over
  <2> HIDE DEF v
  <2>3. QED
    BY <2>1, <2>2, FireBecomes
<1>6. fire' \in [Fires -> FireType] /\ OutcomesInv'
  <2>1. CASE Lookup(f)
    <3>1. {} \in SUBSET {"success", "failed"}
      OBVIOUS
    <3>2. CASE fire' = Over(f, {})
      BY <1>5, <3>1, <3>2
    <3>3. CASE fire' = [fire EXCEPT ![f].step = "execute"]
      <4> DEFINE v == [fire[f] EXCEPT !.step = "execute"]
      <4>1. v \in FireType /\ v.step = "execute" /\ fire' = [fire EXCEPT ![f] = v]
        BY <1>4, <3>3 DEF FireType
      <4> HIDE DEF v
      <4>2. QED
        BY <4>1, FireBecomes
    <3>4. QED
      BY <2>1, <3>2, <3>3 DEF Lookup
  <2>2. CASE Execute(f)
    <3>1. PICK o \in {"success", "failed"} : fire' = [fire EXCEPT ![f].step = "record", ![f].outcome = o]
      BY <2>2 DEF Execute
    <3> DEFINE v == [fire[f] EXCEPT !.step = "record", !.outcome = o]
    <3>2. v \in FireType /\ v.outcome = o /\ fire' = [fire EXCEPT ![f] = v]
      BY <1>4, <3>1 DEF FireType
    <3> HIDE DEF v
    <3>3. QED
      BY <3>2, FireBecomes
  <2>3. CASE Record(f)
    <3>1. fire[f].records \in SUBSET {"success", "failed"} /\ fire[f].outcome \in {"success", "failed"}
      BY <1>4, <2>3 DEF FireType, Record, OutcomesInv
    <3>2. fire[f].records \cup {fire[f].outcome} \in SUBSET {"success", "failed"}
      BY <3>1
    <3>3. QED
      BY <1>5, <2>3, <3>1, <3>2 DEF Record, RecordedStatus
  <2>4. CASE EventReturns(f)
    <3> DEFINE v == [fire[f] EXCEPT !.ctx = "ended"]
    <3>1. v \in FireType /\ v.step = fire[f].step /\ v.outcome = fire[f].outcome
          /\ fire' = [fire EXCEPT ![f] = v]
      BY <1>4, <2>4 DEF FireType, EventReturns
    <3> HIDE DEF v
    <3>2. QED
      BY <3>1, FireBecomes DEF OutcomesInv
  <2>5. QED
    BY <2>1, <2>2, <2>3, <2>4 DEF FireStep
<1>7. QED
  BY <1>1, <1>2, <1>3, <1>6, AsideKeeps

-----------------------------------------------------------------------------
(* Steps of a handler that change no row, map or lock *)

\* Steps at which a caller holds no lock and is about to stop nobody
Plain == {"write", "deleteRow", "register", "find", "check", "deliver", "invoke", "answer"}

\* Steps that the invariant asks nothing of
Idling == {"find", "check", "deliver", "invoke", "answer", "done"}

LEMMA PlainKeeps ==
  ASSUME IInv, NoNewLife, NEW c \in Callers, Step(c) \in Plain,
         UNCHANGED <<storeVars, triggers, tmMu, next, serverVars>>,
         Step(c)' \in Idling, Step(c)' # "done" => Id(c)' = Id(c) /\ c # Server,
         \A d \in Callers : d # c => call'[d] = call[d],
         call' \in [Callers -> CallType(next')],
         fire' \in [Fires -> FireType], OutcomesInv'
  PROVE  IInv'
<1> USE DEF IInv
<1>1. UNCHANGED <<row, used, triggers, tmMu, next, server, todo, overlap>>
  BY DEF storeVars, serverVars
<1>2. \A d \in Callers : d # c => Step(d)' = Step(d) /\ Id(d)' = Id(d)
  BY DEF Step, Id
<1>3. TypeOK'
  <2>1. runner' \in [Runners -> RunnerType]
    BY DEF NoNewLife
  <2>2. QED
    BY <1>1, <2>1 DEF TypeOK, RunnerType, FireType, CallType, Steps
<1>4. c = Server => Step(c) = "register" /\ Step(c)' = "done" /\ server = "load"
  BY DEF LockInv, Plain, Idling
<1>5. NoOrphanRunner' /\ StoppedOnce'
  <2>1. ASSUME NEW r \in Runners, Starting(r) PROVE Starting(r)'
    <3>1. tmMu \in Callers /\ call[tmMu].step = "starting" /\ tmMu # c
      BY <2>1, TypeOKParts DEF Starting, Step, Plain
    <3>2. QED
      BY <1>1, <2>1, <3>1 DEF Starting
  <2>2. QED
    BY <1>1, <2>1 DEF NoOrphanRunner, StoppedOnce, NoNewLife
<1>6. LockInv'
  <2>1. \A q \in Requests : q # Server /\ q \in Callers
    BY Constants
  <2>2. \A d \in Callers : Step(d)' \in {"starting", "stopping"} => d # c /\ Step(d) = Step(d)'
    BY <1>2 DEF Idling
  <2>3. \A d \in Callers : Step(d) \in {"starting", "stopping", "new"} => d # c /\ Step(d)' = Step(d)
    BY <1>2 DEF Plain
  <2>4. Step(Server)' = Step(Server) \/ (Step(Server) = "register" /\ Step(Server)' = "done")
    BY <1>2, <1>4, Constants
  <2>5. QED
    BY <1>1, <2>1, <2>2, <2>3, <2>4, Constants DEF LockInv
<1>7. MapInv'
  <2>1. \A i \in Ids : triggers[i] # 0 => triggers[i] \in Runners
    BY TypeOKParts, Constants DEF Runners
  <2>2. \A d \in Callers : Step(d)' \in {"starting", "stopping"} => call'[d] = call[d]
    BY DEF Idling
  <2>3. QED
    BY <1>1, <2>1, <2>2 DEF MapInv, NoNewLife, Step, Id
<1>8. StopsInv'
  <2>1. \A i \in Ids : triggers[i] # 0 => triggers[i] \in Runners
    BY TypeOKParts, Constants DEF Runners
  <2>2. server = "stop" => Step(Server)' = Step(Server) /\ Id(Server)' = Id(Server)
    BY <1>2, <1>4, Constants
  <2>3. \A i \in Ids : StoppedByAll(i)' = StoppedByAll(i)
    BY <1>1, <2>2 DEF StoppedByAll
  <2>4. ~Idle(Server)' => ~Idle(Server) /\ Id(Server)' = Id(Server)
    BY <1>2, <1>4, Constants DEF Idle, Step
  <2>5. QED
    BY <1>1, <2>1, <2>2, <2>3, <2>4 DEF StopsInv, NoNewLife
<1>9. \A d \in Callers : ~Idle(d)' => ~Idle(d) /\ Id(d)' = Id(d)
  <2>1. ~Idle(c) /\ (~Idle(c)' => Id(c)' = Id(c))
    BY DEF Idle, Plain, Step
  <2>2. QED
    BY <1>2, <2>1 DEF Idle, Step
<1>10. UsedInv'
  BY <1>1, <1>9 DEF UsedInv
<1>11. StoppedInv'
  BY <1>1, <1>9, Constants DEF StoppedInv
<1>12. SerialInv'
  <2>1. \A i \in Ids : triggers[i] # 0 => triggers[i] \in Runners
    BY TypeOKParts, Constants DEF Runners
  <2>2. \A i \in Ids : Agrees(i) => Agrees(i)'
    BY <1>1, <2>1 DEF Agrees, NoNewLife
  <2>3. \A d \in Callers : Step(d) \in {"unregister", "stopping"} =>
          Step(d)' = Step(d) /\ Id(d)' = Id(d)
    BY <1>2 DEF Plain
  <2>4. \A d \in Callers : Step(d)' \in {"register", "starting", "unregister", "stopping", "deleteRow", "write"}
          => call'[d] = call[d]
    BY DEF Idling
  <2> SUFFICES ASSUME ~overlap, server \in {"load", "serve"}
               PROVE  SerialInv'
    BY <1>1 DEF SerialInv
  <2>5. \A d, e \in Callers : ~Idle(d)' /\ ~Idle(e)' => d = e
    BY <1>9 DEF SerialInv
  <2>6. \A i \in Ids : Agrees(i)' \/ \E d \in Callers : Step(d)' \in {"unregister", "stopping"} /\ Id(d)' = i
    BY <2>2, <2>3 DEF SerialInv
  <2>7. \A d \in Callers :
         /\ Step(d)' \in {"register", "starting"}
              \/ (Step(d)' \in {"unregister", "stopping"} /\ call'[d].then = "register")
            => row'[Id(d)'] = [enabled |-> "on", type |-> call'[d].type]
         /\ Step(d)' \in {"register", "starting", "deleteRow"} => triggers'[Id(d)'] = 0
         /\ Step(d)' = "write" => call'[d].was = row'[Id(d)'].enabled
    BY <1>1, <2>4 DEF SerialInv, Step, Id
  <2>8. QED
    BY <1>1, <2>5, <2>6, <2>7 DEF SerialInv
<1>13. QED
  BY <1>3, <1>5, <1>6, <1>7, <1>8, <1>10, <1>11, <1>12

LEMMA SameFire ==
  ASSUME TypeOK, OutcomesInv, UNCHANGED fire
  PROVE  fire' \in [Fires -> FireType] /\ OutcomesInv'
BY TypeOKParts DEF OutcomesInv

\* A registration that is refused, and writes that fail
LEMMA GivesUpKeeps ==
  ASSUME IInv, NEW c \in Callers, Step(c) \in Plain, Goto(c, "done"),
         UNCHANGED <<storeVars, managerVars, serverVars, fire>>
  PROVE  IInv'
<1> USE DEF IInv
<1>1. UNCHANGED <<triggers, tmMu, next, runner>>
  BY DEF managerVars
<1>2. next' \in 0..MaxRunners /\ next <= next' /\ "done" \in Steps
  BY <1>1, TypeOKParts, Constants DEF Steps
<1>3. /\ call'[c].step = "done" /\ \A d \in Callers : d # c => call'[d] = call[d]
      /\ call' \in [Callers -> CallType(next')]
  BY <1>2, GotoBecomes
<1>4. NoNewLife
  BY <1>1, SameRunner
<1>5. QED
  BY <1>1, <1>3, <1>4, SameFire, PlainKeeps DEF Step, Idling

\* HandleWebhook
LEMMA WebhookKeeps ==
  ASSUME IInv, NEW q \in Requests,
         \/ FindRunner(q) \/ CheckRow(q) \/ FireRequest(q) \/ Invoke(q) \/ InvokeEnds(q)
         \/ AnswerRequest(q)
  PROVE  IInv'
<1> USE DEF IInv
<1>1. UNCHANGED <<storeVars, triggers, tmMu, next, serverVars>>
  BY DEF FindRunner, CheckRow, FireRequest, Invoke, InvokeEnds, AnswerRequest, managerVars
<1>2. next' \in 0..MaxRunners /\ next <= next' /\ next' = next /\ next \in Nat
  BY <1>1, TypeOKParts, Constants
<1>3. q \in Callers /\ q # Server /\ call[q] \in CallType(next) /\ Id(q) \in Ids
  BY TypeOKParts, Constants DEF CallType, Id
<1>4. Step(q) \in Plain
  BY DEF FindRunner, CheckRow, FireRequest, Invoke, InvokeEnds, AnswerRequest, Step, Plain
<1>5. /\ Step(q)' \in Idling /\ (Step(q)' # "done" => Id(q)' = Id(q))
      /\ \A d \in Callers : d # q => call'[d] = call[d]
      /\ call' \in [Callers -> CallType(next')]
  <2>1. ASSUME NEW s \in Idling, Goto(q, s)
        PROVE  /\ Step(q)' \in Idling /\ (Step(q)' # "done" => Id(q)' = Id(q))
               /\ \A d \in Callers : d # q => call'[d] = call[d]
               /\ call' \in [Callers -> CallType(next')]
    <3>1. s \in Steps
      BY DEF Idling, Steps
    <3>2. /\ call'[q].step = s /\ \A d \in Callers : d # q => call'[d] = call[d]
          /\ s # "done" => call'[q].id = call[q].id
          /\ call' \in [Callers -> CallType(next')]
      BY <1>2, <1>3, <2>1, <3>1, GotoBecomes
    <3>3. QED
      BY <3>2 DEF Step, Id
  <2>2. CASE call' = [call EXCEPT ![q].step = "check", ![q].got = triggers[Id(q)]]
    <3> DEFINE v == [call[q] EXCEPT !.step = "check", !.got = triggers[Id(q)]]
    <3>1. triggers[Id(q)] \in 0..next
      BY <1>3, TypeOKParts
    <3>2. v \in CallType(next') /\ v.step = "check" /\ v.id = Id(q) /\ call' = [call EXCEPT ![q] = v]
      BY <1>2, <1>3, <2>2, <3>1 DEF CallType, Steps, Id
    <3> HIDE DEF v
    <3>3. QED
      BY <1>2, <1>3, <3>2, CallBecomes DEF Step, Id, Idling
  <2>3. QED
    BY <2>1, <2>2
       DEF FindRunner, CheckRow, FireRequest, Invoke, InvokeEnds, AnswerRequest, Idling
<1>6. NoNewLife
  <2>1. CASE UNCHANGED runner
    BY <2>1, SameRunner
  <2>2. ASSUME NEW b \in BOOLEAN, runner' = [runner EXCEPT ![call[q].got].invoked = b]
        PROVE  NoNewLife
    <3> DEFINE r == call[q].got
               v == [runner[r] EXCEPT !.invoked = b]
    <3>1. CASE r \in Runners
      <4>1. v \in RunnerType /\ v.id = runner[r].id /\ v.type = runner[r].type
            /\ v.stops = runner[r].stops /\ v.live = runner[r].live
        BY <3>1, TypeOKParts DEF RunnerType
      <4>2. runner' = [runner EXCEPT ![r] = v] /\ runner \in [Runners -> RunnerType]
        BY <2>2, TypeOKParts
      <4> HIDE DEF r, v
      <4>3. QED
        BY <3>1, <4>1, <4>2 DEF NoNewLife
    <3>2. CASE r \notin Runners
      <4>1. runner \in [Runners -> RunnerType] /\ runner' = [runner EXCEPT ![r] = v]
        BY <2>2, TypeOKParts
      <4> HIDE DEF r, v
      <4>2. UNCHANGED runner
        BY <3>2, <4>1
      <4>3. QED
        BY <4>2, SameRunner
    <3>3. QED
      BY <3>1, <3>2
  <2>3. CASE Invoke(q) \/ InvokeEnds(q)
    BY <2>1, <2>2, <2>3 DEF Invoke, InvokeEnds
  <2>4. CASE FindRunner(q) \/ CheckRow(q) \/ FireRequest(q) \/ AnswerRequest(q)
    BY <2>1, <2>4 DEF FindRunner, CheckRow, FireRequest, AnswerRequest, managerVars
  <2>5. QED
    BY <2>3, <2>4
<1>7. fire' \in [Fires -> FireType] /\ OutcomesInv'
  <2>1. CASE FireAny(Id(q), q)
    BY <1>3, <2>1, FireAnyKeeps
  <2>2. QED
    BY <2>1, SameFire DEF FindRunner, CheckRow, FireRequest, Invoke, InvokeEnds, AnswerRequest
<1>8. QED
  BY <1>1, <1>3, <1>4, <1>5, <1>6, <1>7, PlainKeeps

-----------------------------------------------------------------------------
(* Steps of a handler that change its row, and leave map and lock alone *)

\* From these steps, to these
Before == Plain \cup {"new", "unregister"}
After  == {"write", "register", "unregister", "deleteRow", "find", "done"}

LEMMA HandlerKeeps ==
  ASSUME IInv, NEW q \in Requests, NEW v \in CallType(next), call' = [call EXCEPT ![q] = v],
         UNCHANGED <<managerVars, server, todo, fire>>,
         Step(q) \in Before, v.step \in After, v.step # "done" => v.id \in used',
         server # "load", server = "serve" \/ Step(q) # "new",
         overlap' \in BOOLEAN, overlap => overlap',
         row' \in [Ids -> RowType], used \subseteq used', used' \subseteq Ids,
         \A i \in Ids : row'[i].enabled # "none" => i \in used',
         ~overlap' /\ server = "serve" =>
           /\ \A c \in Callers : c # q => Idle(c)
           /\ \A i \in Ids : Agrees(i)' \/ (v.step = "unregister" /\ v.id = i)
           /\ v.step = "register" \/ (v.step = "unregister" /\ v.then = "register") =>
                row'[v.id] = [enabled |-> "on", type |-> v.type]
           /\ v.step \in {"register", "deleteRow"} => triggers[v.id] = 0
           /\ v.step = "write" => v.was = row'[v.id].enabled
  PROVE  IInv'
<1> USE DEF IInv
<1>1. UNCHANGED <<triggers, tmMu, next, runner, server, todo, fire>>
  BY DEF managerVars
<1>2. q \in Callers /\ q # Server /\ next' \in 0..MaxRunners /\ next <= next' /\ next' = next
  BY <1>1, TypeOKParts, Constants
<1>3. /\ call'[q] = v /\ \A d \in Callers : d # q => call'[d] = call[d]
      /\ call' \in [Callers -> CallType(next')]
  BY <1>2, CallBecomes
<1>4. \A d \in Callers : d # q => Step(d)' = Step(d) /\ Id(d)' = Id(d) /\ Idle(d)' = Idle(d)
  BY <1>3 DEF Step, Id, Idle
<1>5. Step(q)' = v.step /\ Id(q)' = v.id /\ (Idle(q)' <=> v.step = "done")
  BY <1>3 DEF Step, Id, Idle, After
<1>6. TypeOK'
  BY <1>1, <1>3, TypeOKParts DEF TypeOK, RowType, RunnerType, CallType, Steps, FireType
<1>7. NoOrphanRunner' /\ StoppedOnce' /\ MapInv' /\ StopsInv'
  <2>1. NoNewLife
    BY <1>1, SameRunner
  <2>2. \A c \in Callers : Step(c)' \in {"starting", "stopping"} => call'[c] = call[c]
    BY <1>3, <1>5 DEF After
  <2>3. \A c \in Callers : Step(c) = "starting" => Step(c)' = "starting"
    BY <1>4 DEF Before, Plain
  <2>4. Step(Server)' = Step(Server) /\ Id(Server)' = Id(Server)
    BY <1>2, <1>4, Constants
  <2>5. QED
    BY <1>1, <2>1, <2>2, <2>3, <2>4, RunnersKeep
<1>8. LockInv'
  <2>1. \A c \in Callers : Step(c)' \in {"starting", "stopping"} => Step(c) = Step(c)'
    BY <1>4, <1>5 DEF After
  <2>2. \A c \in Callers : Step(c) \in {"starting", "stopping"} => Step(c)' = Step(c)
    BY <1>4 DEF Before, Plain
  <2>3. Step(Server)' = Step(Server)
    BY <1>2, <1>4, Constants
  <2>4. QED
    BY <1>1, <2>1, <2>2, <2>3, Constants DEF LockInv
<1>9. UsedInv'
  BY <1>1, <1>4, <1>5 DEF UsedInv
<1>10. StoppedInv'
  <2>1. ~overlap' /\ server \in {"stop", "end"} => FALSE
    <3>1. Step(q) # "new" /\ Step(q) # "done" => ~Idle(q)
      BY DEF Idle, Step
    <3>2. QED
      BY <3>1 DEF StoppedInv, Before, Plain
  <2>2. QED
    BY <1>1, <2>1 DEF StoppedInv
<1>11. SerialInv'
  <2> SUFFICES ASSUME ~overlap', server = "serve"
               PROVE  SerialInv'
    BY <1>1 DEF SerialInv
  <2>1. \A c \in Callers : c # q => Idle(c)'
    BY <1>4
  <2>2. \A i \in Ids : Agrees(i)' \/ \E c \in Callers : Step(c)' \in {"unregister", "stopping"} /\ Id(c)' = i
    BY <1>2, <1>5
  <2>3. \A c \in Callers : Idle(c)' => Step(c)' \notin {"register", "starting", "unregister", "stopping", "deleteRow", "write"}
    BY DEF Idle, Step
  <2>4. ASSUME NEW c \in Callers
        PROVE  /\ Step(c)' \in {"register", "starting"}
                    \/ (Step(c)' \in {"unregister", "stopping"} /\ call'[c].then = "register")
                  => row'[Id(c)'] = [enabled |-> "on", type |-> call'[c].type]
               /\ Step(c)' \in {"register", "starting", "deleteRow"} => triggers'[Id(c)'] = 0
               /\ Step(c)' = "write" => call'[c].was = row'[Id(c)'].enabled
    <3>1. CASE c # q
      BY <2>1, <2>3, <3>1
    <3>2. CASE c = q
      BY <1>1, <1>3, <1>5, <3>2 DEF After
    <3>3. QED
      BY <3>1, <3>2
  <2>5. QED
    BY <1>1, <2>1, <2>2, <2>4 DEF SerialInv
<1>12. QED
  BY <1>1, <1>6, <1>7, <1>8, <1>9, <1>10, <1>11, SameFire

\* Main is at rest while the server serves
LEMMA ServerRests ==
  ASSUME IInv, server = "serve"
  PROVE  Idle(Server)
BY DEF IInv, LockInv, Idle, Step

\* Create, Update, Delete and HandleWebhook begin
LEMMA BeginKeeps ==
  ASSUME IInv, NEW q \in Requests, NEW v \in CallType(next), Begin(q, v),
         v.step \in After \ {"deleteRow"}, v.step # "done" => v.id \in used',
         v.step = "unregister" => v.then # "register",
         row' \in [Ids -> RowType], used \subseteq used', used' \subseteq Ids,
         \A i \in Ids : row'[i].enabled # "none" => i \in used',
         \A i \in Ids : triggers[i] # 0 => row'[i] = row[i],
         v.step = "register" => /\ row'[v.id] = [enabled |-> "on", type |-> v.type]
                                /\ triggers[v.id] = 0,
         v.step = "write" => v.was = row'[v.id].enabled
  PROVE  IInv'
<1> USE DEF IInv
<1>1. /\ server = "serve" /\ Step(q) = "new" /\ call' = [call EXCEPT ![q] = v]
      /\ overlap' = (overlap \/ \E c \in Requests : ~Idle(c))
      /\ UNCHANGED <<server, todo, managerVars, fire>>
  BY DEF Begin, Step
<1>2. overlap' \in BOOLEAN /\ (overlap => overlap')
  BY <1>1, TypeOKParts
<1>3. UNCHANGED <<triggers, runner>>
  BY <1>1 DEF managerVars
<1>4. ASSUME ~overlap'
      PROVE  /\ \A c \in Callers : Idle(c)
             /\ \A i \in Ids : Agrees(i)'
  <2>1. \A c \in Callers : Idle(c)
    BY <1>1, <1>4, ServerRests, Constants DEF Callers
  <2>2. \A c \in Callers : Step(c) \notin {"unregister", "stopping"}
    BY <2>1 DEF Idle, Step
  <2>3. \A i \in Ids : Agrees(i)
    BY <1>1, <1>2, <1>4, <2>2 DEF SerialInv
  <2>4. QED
    BY <1>3, <2>1, <2>3 DEF Agrees
<1>5. Step(q) \in Before /\ v.step \in After
  BY <1>1 DEF Before
<1>6. ~overlap' /\ server = "serve" =>
        /\ \A c \in Callers : c # q => Idle(c)
        /\ \A i \in Ids : Agrees(i)' \/ (v.step = "unregister" /\ v.id = i)
        /\ v.step = "register" \/ (v.step = "unregister" /\ v.then = "register") =>
             row'[v.id] = [enabled |-> "on", type |-> v.type]
        /\ v.step \in {"register", "deleteRow"} => triggers[v.id] = 0
        /\ v.step = "write" => v.was = row'[v.id].enabled
  BY <1>4
<1>7. QED
  BY <1>1, <1>2, <1>5, <1>6, HandlerKeeps

LEMMA RowInType ==
  ASSUME NEW e \in {"none", "off", "on"}, NEW k \in Types
  PROVE  /\ Row(e, k) \in RowType /\ Row(e, k).enabled = e /\ Row(e, k).type \in Types
         /\ e = "on" => Row(e, k) = [enabled |-> "on", type |-> k]
BY Constants DEF Row, RowType

LEMMA ClientStepKeeps ==
  ASSUME IInv, NEW q \in Requests, ClientStep(q)
  PROVE  IInv'
<1> USE DEF IInv
<1>1. row \in [Ids -> RowType] /\ used \subseteq Ids
      /\ (\A i \in Ids : row[i].enabled # "none" => i \in used) /\ next \in Nat
  BY TypeOKParts, Constants DEF UsedInv
<1>2. PICK i \in Ids :
        \/ Delete(q, i) \/ Webhook(q, i)
        \/ \E k \in Types, e \in {"on", "off"} : Create(q, i, k, e) \/ Update(q, i, k, e)
  BY DEF ClientStep
<1>3. CASE Delete(q, i)
  <2> DEFINE v == [Handler("unregister", i) EXCEPT !.then = "deleteRow"]
  <2>1. v \in CallType(next) /\ v.step = "unregister" /\ v.id = i /\ v.then = "deleteRow"
    <3>1. Handler("unregister", i) \in CallType(next)
          /\ Handler("unregister", i).step = "unregister" /\ Handler("unregister", i).id = i
      BY <1>1, HandlerType DEF Steps
    <3>2. QED
      BY <3>1 DEF CallType
  <2>2. Begin(q, v) /\ i \in used /\ UNCHANGED <<row, used>>
    BY <1>3 DEF Delete, storeVars
  <2> HIDE DEF v
  <2>3. v.step \in After \ {"deleteRow"}
    BY <2>1 DEF After
  <2>4. QED
    BY <1>1, <2>1, <2>2, <2>3, BeginKeeps
<1>4. CASE Webhook(q, i)
  <2> DEFINE v == Handler("find", i)
  <2>1. v \in CallType(next) /\ v.step = "find" /\ v.id = i
    BY <1>1, HandlerType DEF Steps
  <2>2. Begin(q, v) /\ i \in used /\ UNCHANGED <<row, used>>
    BY <1>4 DEF Webhook, storeVars
  <2> HIDE DEF v
  <2>3. v.step \in After \ {"deleteRow"}
    BY <2>1 DEF After
  <2>4. QED
    BY <1>1, <2>1, <2>2, <2>3, BeginKeeps
<1>5. ASSUME NEW k \in Types, NEW e \in {"on", "off"}, Create(q, i, k, e)
      PROVE  IInv'
  <2> DEFINE w == Row(e, k)
             v == IF e = "on" THEN [Handler("register", i) EXCEPT !.type = k]
                              ELSE Handler("done", AnId)
  <2>1. w \in RowType /\ (e = "on" => w = [enabled |-> "on", type |-> k])
    BY RowInType
  <2>2. v \in CallType(next) /\ (e = "on" => v.step = "register" /\ v.id = i /\ v.type = k)
        /\ (e = "off" => v.step = "done")
    <3>1. Handler("register", i) \in CallType(next)
          /\ Handler("register", i).step = "register" /\ Handler("register", i).id = i
          /\ Handler("done", AnId) \in CallType(next) /\ Handler("done", AnId).step = "done"
      BY <1>1, HandlerType, Constants DEF Steps
    <3>2. QED
      BY <3>1 DEF CallType
  <2>3. Begin(q, v) /\ i \notin used /\ row' = [row EXCEPT ![i] = w] /\ used' = used \cup {i}
    BY <1>5 DEF Create
  <2> HIDE DEF v, w
  <2>4. triggers[i] = 0
    BY <2>3 DEF UsedInv
  <2>5. /\ row' \in [Ids -> RowType] /\ row'[i] = w
        /\ \A j \in Ids : j # i => row'[j] = row[j]
    BY <1>1, <2>1, <2>3
  <2>6. /\ \A j \in Ids : row'[j].enabled # "none" => j \in used'
        /\ \A j \in Ids : triggers[j] # 0 => row'[j] = row[j]
    BY <1>1, <2>3, <2>4, <2>5
  <2>7. v.step \in {"register", "done"} /\ v.step \in After \ {"deleteRow"}
        /\ (v.step = "register" => e = "on" /\ v.id = i /\ v.type = k)
    BY <2>2 DEF After
  <2>8. used \subseteq used' /\ used' \subseteq Ids /\ i \in used'
    BY <1>1, <2>3
  <2>9. v.step = "register" => /\ row'[v.id] = [enabled |-> "on", type |-> v.type]
                               /\ triggers[v.id] = 0
    BY <2>1, <2>4, <2>5, <2>7
  <2>10. QED
    BY <2>2, <2>3, <2>5, <2>6, <2>7, <2>8, <2>9, BeginKeeps
<1>6. ASSUME NEW k \in Types, NEW e \in {"on", "off"}, Update(q, i, k, e)
      PROVE  IInv'
  <2> DEFINE v == [Handler("write", i) EXCEPT !.type = Row(e, k).type, !.enabled = e,
                                              !.was = row[i].enabled]
  <2>1. v \in CallType(next) /\ v.step = "write" /\ v.id = i /\ v.was = row[i].enabled
    <3>1. Handler("write", i) \in CallType(next)
          /\ Handler("write", i).step = "write" /\ Handler("write", i).id = i
      BY <1>1, HandlerType DEF Steps
    <3>2. Row(e, k).type \in Types /\ row[i].enabled \in {"none", "on", "off"}
      BY <1>1, RowInType DEF RowType
    <3>3. QED
      BY <3>1, <3>2 DEF CallType
  <2>2. Begin(q, v) /\ row[i].enabled # "none" /\ UNCHANGED <<row, used>>
    BY <1>6 DEF Update, storeVars
  <2> HIDE DEF v
  <2>3. v.step \in After \ {"deleteRow"}
    BY <2>1 DEF After
  <2>4. QED
    BY <1>1, <2>1, <2>2, <2>3, BeginKeeps
<1>7. QED
  BY <1>2, <1>3, <1>4, <1>5, <1>6

\* What a handler under way tells of the others, while nobody overlaps
LEMMA AloneInService ==
  ASSUME IInv, NEW q \in Requests, ~Idle(q), ~overlap, server = "serve"
  PROVE  /\ \A c \in Callers : c # q => Idle(c)
         /\ \A i \in Ids : Agrees(i) \/ (Step(q) \in {"unregister", "stopping"} /\ Id(q) = i)
<1>1. \A c \in Callers : c # q => Idle(c)
  BY Constants DEF IInv, SerialInv
<1>2. \A c \in Callers : Step(c) \in {"unregister", "stopping"} => c = q
  BY <1>1 DEF Idle, Step
<1>3. QED
  BY <1>1, <1>2 DEF IInv, SerialInv

\* UpdateTrigger
LEMMA WriteRowKeeps ==
  ASSUME IInv, NEW q \in Requests, WriteRow(q)
  PROVE  IInv'
<1> USE DEF IInv
<1>1. Step(q) = "write" /\ ~Idle(q) /\ Step(q) \in Before /\ Step(q) \in Plain
  BY DEF WriteRow, Step, Idle, Before, Plain
<1>2. UNCHANGED <<used, managerVars, serverVars, fire>>
  BY DEF WriteRow
<1>3. UNCHANGED <<triggers, runner, used, overlap, server, todo>>
  BY <1>2 DEF managerVars, serverVars
<1>4. CASE Goto(q, "done") /\ UNCHANGED row
  BY <1>1, <1>2, <1>4, GivesUpKeeps, Constants DEF storeVars
<1>5. CASE row[Id(q)].enabled # "none" /\ row' = [row EXCEPT ![Id(q)] = Row(call[q].enabled, call[q].type)]
           /\ IF AfterWrite(q)[1] = "done"
                THEN Goto(q, "done")
                ELSE call' = [call EXCEPT ![q] =
                       [Handler(AfterWrite(q)[1], Id(q)) EXCEPT
                          !.then = AfterWrite(q)[2], !.type = call[q].type]]
  <2> DEFINE i == Id(q)
             k == call[q].type
             e == call[q].enabled
             was == call[q].was
             w == Row(e, k)
             s == AfterWrite(q)[1]
             t == AfterWrite(q)[2]
             v == IF s = "done" THEN Handler("done", AnId)
                  ELSE [Handler(s, i) EXCEPT !.then = t, !.type = k]
  <2>1. q \in Callers /\ call[q] \in CallType(next) /\ i \in Ids /\ k \in Types
        /\ e \in {"on", "off"} /\ was \in {"none", "on", "off"} /\ next \in Nat
    BY TypeOKParts, Constants DEF CallType, Id
  <2>2. /\ s \in {"unregister", "register", "done"} /\ t \in {"done", "register"}
        /\ s = "done" => was = "none" \/ (was = "off" /\ e = "off")
        /\ s = "register" => was = "off" /\ e = "on"
        /\ s = "unregister" => (t = "register" => e = "on")
    BY <2>1 DEF AfterWrite
  <2>3. call' = [call EXCEPT ![q] = v]
    BY <1>5 DEF Goto
  <2>4. w \in RowType /\ w.enabled = e /\ (e = "on" => w = [enabled |-> "on", type |-> k])
    BY <2>1, RowInType
  <2>5. v \in CallType(next) /\ v.step = s
        /\ (s # "done" => v.id = i /\ v.type = k /\ v.then = t)
    <3> HIDE DEF s, t, i, k
    <3>1. Handler("done", AnId) \in CallType(next) /\ Handler("done", AnId).step = "done"
          /\ Handler(s, i) \in CallType(next) /\ Handler(s, i).step = s /\ Handler(s, i).id = i
      BY <2>1, <2>2, HandlerType, Constants DEF Steps
    <3>2. QED
      BY <2>1, <2>2, <3>1 DEF CallType
  <2>6. row \in [Ids -> RowType] /\ row[i].enabled # "none" /\ row' = [row EXCEPT ![i] = w]
    BY <1>5, TypeOKParts
  <2>7. i \in used /\ used \subseteq Ids
    BY <1>1, <2>1, TypeOKParts DEF UsedInv
  <2>8. ~overlap /\ server = "serve" =>
          was = row[i].enabled /\ (s \in {"register", "done"} => triggers[i] = 0)
    <3>1. ~overlap /\ server = "serve" => was = row[i].enabled /\ Agrees(i)
      BY <1>1, <2>1, AloneInService DEF SerialInv, Step
    <3>2. QED
      BY <2>2, <2>6, <3>1 DEF Agrees
  <2>9. \A j \in Ids : j # i => row'[j] = row[j]
    BY <2>6
  <2>10. ~overlap /\ server = "serve" => \A j \in Ids : j # i => Agrees(j)
    BY <1>1, AloneInService
  <2> HIDE DEF i, k, e, was, w, s, t, v
  <2>11. row' \in [Ids -> RowType] /\ row'[i] = w
    BY <2>1, <2>4, <2>6
  <2>12. \A j \in Ids : row'[j].enabled # "none" => j \in used'
    BY <1>3, <2>7, <2>9 DEF UsedInv
  <2>13. ~overlap' /\ server = "serve" =>
          /\ \A c \in Callers : c # q => Idle(c)
          /\ \A j \in Ids : Agrees(j)' \/ (v.step = "unregister" /\ v.id = j)
          /\ v.step = "register" \/ (v.step = "unregister" /\ v.then = "register") =>
               row'[v.id] = [enabled |-> "on", type |-> v.type]
          /\ v.step \in {"register", "deleteRow"} => triggers[v.id] = 0
          /\ v.step = "write" => v.was = row'[v.id].enabled
    <3> SUFFICES ASSUME ~overlap, server = "serve"
                 PROVE  /\ \A c \in Callers : c # q => Idle(c)
                        /\ \A j \in Ids : Agrees(j)' \/ (v.step = "unregister" /\ v.id = j)
                        /\ v.step = "register" \/ (v.step = "unregister" /\ v.then = "register") =>
                             row'[v.id] = [enabled |-> "on", type |-> v.type]
                        /\ v.step \in {"register", "deleteRow"} => triggers[v.id] = 0
                        /\ v.step = "write" => v.was = row'[v.id].enabled
      BY <1>3
    <3>1. \A c \in Callers : c # q => Idle(c)
      BY <1>1, AloneInService
    <3>2. \A j \in Ids : j # i => Agrees(j)'
      BY <1>3, <2>9, <2>10 DEF Agrees
    <3>3. \A j \in Ids : j = i => Agrees(j)' \/ (v.step = "unregister" /\ v.id = j)
      BY <1>3, <2>2, <2>5, <2>8 DEF Agrees
    <3>4. v.step = "register" \/ (v.step = "unregister" /\ v.then = "register") =>
            row'[v.id] = [enabled |-> "on", type |-> v.type]
      BY <2>2, <2>4, <2>5, <2>11
    <3>5. (v.step \in {"register", "deleteRow"} => triggers[v.id] = 0) /\ v.step # "write"
      BY <2>2, <2>5, <2>8
    <3>6. QED
      BY <3>1, <3>2, <3>3, <3>4, <3>5
  <2>14. v.step \in After /\ (v.step # "done" => v.id \in used') /\ server # "load"
    BY <1>1, <1>3, <2>2, <2>5, <2>7 DEF After, LockInv
  <2>15. QED
    BY <1>1, <1>2, <1>3, <2>3, <2>5, <2>7, <2>11, <2>12, <2>13, <2>14, HandlerKeeps, TypeOKParts
<1>6. QED
  BY <1>4, <1>5 DEF WriteRow

\* DeleteTrigger
LEMMA DeleteRowKeeps ==
  ASSUME IInv, NEW q \in Requests, DeleteRow(q)
  PROVE  IInv'
<1> USE DEF IInv
<1>1. Step(q) = "deleteRow" /\ ~Idle(q) /\ Step(q) \in Before /\ Step(q) \in Plain
  BY DEF DeleteRow, Step, Idle, Before, Plain
<1>2. UNCHANGED <<used, managerVars, serverVars, fire>> /\ Goto(q, "done")
  BY DEF DeleteRow
<1>3. UNCHANGED <<triggers, runner, used, overlap, server, todo>>
  BY <1>2 DEF managerVars, serverVars
<1>4. CASE UNCHANGED row
  BY <1>1, <1>2, <1>4, GivesUpKeeps, Constants DEF storeVars
<1>5. CASE row' = [row EXCEPT ![Id(q)] = Row("none", AType)]
  <2> DEFINE i == Id(q)
             w == Row("none", AType)
             v == Handler("done", AnId)
  <2>1. i \in Ids /\ next \in Nat /\ w \in RowType /\ w.enabled = "none"
    BY TypeOKParts, RowInType, Constants DEF CallType, Id
  <2>2. v \in CallType(next) /\ v.step = "done"
    BY <2>1, HandlerType, Constants DEF Steps
  <2>3. call' = [call EXCEPT ![q] = v] /\ row \in [Ids -> RowType] /\ row' = [row EXCEPT ![i] = w]
    BY <1>2, <1>5, TypeOKParts DEF Goto
  <2>4. \A j \in Ids : j # i => row'[j] = row[j]
    BY <2>3
  <2>5. ~overlap /\ server = "serve" => triggers[i] = 0 /\ \A j \in Ids : j # i => Agrees(j)
    BY <1>1, AloneInService, Constants DEF SerialInv
  <2> HIDE DEF i, w, v
  <2>6. row' \in [Ids -> RowType] /\ row'[i].enabled = "none"
    BY <2>1, <2>3
  <2>7. ~overlap' /\ server = "serve" =>
          (\A c \in Callers : c # q => Idle(c)) /\ \A j \in Ids : Agrees(j)'
    <3> SUFFICES ASSUME ~overlap, server = "serve"
                 PROVE  (\A c \in Callers : c # q => Idle(c)) /\ \A j \in Ids : Agrees(j)'
      BY <1>3
    <3>1. \A c \in Callers : c # q => Idle(c)
      BY <1>1, AloneInService
    <3>2. \A j \in Ids : Agrees(j)'
      BY <1>3, <2>4, <2>5 DEF Agrees
    <3>3. QED
      BY <3>1, <3>2
  <2>8. \A j \in Ids : row'[j].enabled # "none" => j \in used'
    BY <1>3, <2>4, <2>6 DEF UsedInv
  <2>9. v.step \in After /\ server # "load"
    BY <1>1, <2>2 DEF After, LockInv
  <2>10. QED
    BY <1>1, <1>2, <1>3, <2>2, <2>3, <2>6, <2>7, <2>8, <2>9, HandlerKeeps, TypeOKParts
<1>6. QED
  BY <1>4, <1>5 DEF DeleteRow

-----------------------------------------------------------------------------
(* Unregister *)

\* Nobody stops or starts a runner while tm.mu is free
LEMMA LockFree ==
  ASSUME IInv, tmMu = "free"
  PROVE  /\ server # "stop" /\ \A c \in Callers : Step(c) \notin {"starting", "stopping"}
         /\ \A r \in Runners : ~Starting(r)
<1>1. server # "stop"
  BY Constants DEF IInv, LockInv
<1>2. \A c \in Callers : c = Server \/ c \in Requests
  BY DEF Callers
<1>3. \A c \in Callers : Step(c) \notin {"starting", "stopping"}
  BY <1>1, <1>2, Constants DEF IInv, LockInv
<1>4. QED
  BY <1>1, <1>3 DEF Starting

\* Nothing to stop
LEMMA NothingToStopKeeps ==
  ASSUME IInv, NEW q \in Requests, Unregister(q), triggers[Id(q)] = 0
  PROVE  IInv'
<1> USE DEF IInv
<1>1. Step(q) = "unregister" /\ ~Idle(q) /\ Step(q) \in Before
  BY DEF Unregister, Step, Idle, Before
<1>2. UNCHANGED <<storeVars, triggers, next, tmMu, runner, serverVars, fire>>
      /\ Goto(q, call[q].then)
  BY DEF Unregister
<1>3. UNCHANGED <<managerVars, row, used, overlap, server, todo, triggers, runner, fire>>
  BY <1>2 DEF managerVars, storeVars, serverVars
<1> DEFINE s == call[q].then
           v == IF s = "done" THEN Handler("done", AnId) ELSE [call[q] EXCEPT !.step = s]
<1>4. call[q] \in CallType(next) /\ Id(q) \in Ids /\ next \in Nat
      /\ s \in {"done", "register", "deleteRow"}
  BY TypeOKParts, Constants DEF CallType, Id
<1>5. v \in CallType(next) /\ v.step = s
      /\ (s # "done" => v.id = Id(q) /\ v.type = call[q].type)
  <2>1. Handler("done", AnId) \in CallType(next) /\ Handler("done", AnId).step = "done"
    BY <1>4, HandlerType, Constants DEF Steps
  <2>2. QED
    BY <1>4, <2>1 DEF CallType, Steps, Id
<1>6. call' = [call EXCEPT ![q] = v]
  BY <1>2 DEF Goto
<1>7. ~overlap /\ server = "serve" /\ s = "register" =>
        row[Id(q)] = [enabled |-> "on", type |-> call[q].type]
  BY <1>1, Constants DEF SerialInv
<1> HIDE DEF s, v
<1>8. v.step \in After /\ server # "load" /\ (v.step # "done" => v.id \in used')
  BY <1>1, <1>3, <1>4, <1>5, Constants DEF After, LockInv, UsedInv
<1>9. ~overlap' /\ server = "serve" =>
        /\ \A c \in Callers : c # q => Idle(c)
        /\ \A j \in Ids : Agrees(j)'
  <2> SUFFICES ASSUME ~overlap, server = "serve"
               PROVE  (\A c \in Callers : c # q => Idle(c)) /\ \A j \in Ids : Agrees(j)'
    BY <1>3
  <2>1. \A c \in Callers : c # q => Idle(c)
    BY <1>1, AloneInService
  <2>2. \A j \in Ids : Agrees(j)
    BY <1>1, AloneInService DEF Agrees
  <2>3. QED
    BY <1>3, <2>1, <2>2 DEF Agrees
<1>10. ~overlap' /\ server = "serve" =>
        /\ v.step = "register" \/ (v.step = "unregister" /\ v.then = "register") =>
             row'[v.id] = [enabled |-> "on", type |-> v.type]
        /\ v.step \in {"register", "deleteRow"} => triggers[v.id] = 0
        /\ v.step = "write" => v.was = row'[v.id].enabled
  BY <1>3, <1>4, <1>5, <1>7
<1>11. /\ row' \in [Ids -> RowType] /\ used \subseteq used' /\ used' \subseteq Ids
       /\ (\A i \in Ids : row'[i].enabled # "none" => i \in used')
       /\ overlap' \in BOOLEAN /\ (overlap => overlap')
  BY <1>3, TypeOKParts DEF UsedInv
<1>12. QED
  BY <1>1, <1>3, <1>5, <1>6, <1>8, <1>9, <1>10, <1>11, HandlerKeeps

\* Stop begins, with tm.mu held
LEMMA StopBeginsType ==
  ASSUME TypeOK, NEW r \in Runners, StopBegins(r)
  PROVE  NoNewLife
<1> DEFINE v == [runner[r] EXCEPT !.live = runner[r].live /\ runner[r].type # "cron"]
<1>1. v \in RunnerType /\ v.id = runner[r].id /\ v.type = runner[r].type
      /\ v.stops = runner[r].stops /\ (v.live => runner[r].live)
  BY TypeOKParts DEF RunnerType
<1>2. runner' = [runner EXCEPT ![r] = v] /\ runner \in [Runners -> RunnerType]
  BY TypeOKParts DEF StopBegins
<1> HIDE DEF v
<1>3. QED
  BY <1>1, <1>2 DEF NoNewLife

LEMMA MappedRunner ==
  ASSUME TypeOK
  PROVE  /\ next \in Nat
         /\ \A i \in Ids : triggers[i] \in 0..next /\ (triggers[i] # 0 => triggers[i] \in Runners)
         /\ 0 \notin Runners
BY TypeOKParts, Constants DEF Runners

LEMMA UnregisterKeeps ==
  ASSUME IInv, NEW q \in Requests, Unregister(q), triggers[Id(q)] # 0
  PROVE  IInv'
<1> USE DEF IInv
<1>1. Step(q) = "unregister" /\ ~Idle(q) /\ tmMu = "free" /\ q \in Callers /\ q # Server
      /\ Id(q) \in Ids /\ call[q] \in CallType(next)
  BY TypeOKParts, Constants DEF Unregister, Step, Idle, CallType, Id
<1>2. /\ UNCHANGED <<storeVars, triggers, next, serverVars, fire>> /\ tmMu' = q
      /\ StopBegins(triggers[Id(q)]) /\ Goto(q, "stopping")
  BY DEF Unregister
<1>3. UNCHANGED <<row, used, triggers, next, server, todo, overlap, fire>>
  BY <1>2 DEF storeVars, serverVars
<1>4. /\ call'[q].step = "stopping" /\ call'[q].id = call[q].id /\ call'[q].type = call[q].type
      /\ call'[q].then = call[q].then /\ call' \in [Callers -> CallType(next')]
      /\ \A d \in Callers : d # q => call'[d] = call[d]
  <2>1. "stopping" \in Steps /\ next' \in 0..MaxRunners /\ next <= next'
    BY <1>3, TypeOKParts, Constants DEF Steps
  <2>2. QED
    BY <1>1, <1>2, <2>1, GotoBecomes
<1>5. NoNewLife
  BY <1>1, <1>2, MappedRunner, StopBeginsType
<1>6. server # "stop" /\ (\A c \in Callers : Step(c) \notin {"starting", "stopping"})
      /\ (\A r \in Runners : ~Starting(r)) /\ server # "load"
  BY <1>1, LockFree, Constants DEF LockInv
<1>7. Step(q)' = "stopping" /\ Id(q)' = Id(q)
      /\ \A d \in Callers : d # q => Step(d)' = Step(d) /\ Id(d)' = Id(d) /\ Idle(d)' = Idle(d)
  BY <1>4 DEF Step, Id, Idle
<1>8. TypeOK'
  <2>1. runner' \in [Runners -> RunnerType]
    BY <1>5 DEF NoNewLife
  <2>2. tmMu' \in Callers \cup {"free"}
    BY <1>1, <1>2
  <2>3. QED
    BY <1>3, <1>4, <2>1, <2>2, TypeOKParts DEF TypeOK, RowType, RunnerType, CallType, Steps, FireType
<1>9. NoOrphanRunner' /\ StoppedOnce'
  BY <1>3, <1>5, <1>6 DEF NoOrphanRunner, StoppedOnce, NoNewLife
<1>10. LockInv'
  <2>1. \A c \in Callers : Step(c)' # "starting"
    BY <1>6, <1>7
  <2>2. \A c \in Requests : Step(c)' = "stopping" => c = q
    BY <1>6, <1>7, Constants
  <2>3. QED
    BY <1>1, <1>2, <1>3, <1>6, <1>7, <2>1, <2>2, Constants DEF LockInv
<1>11. MapInv'
  <2>1. \A c \in Callers : Step(c)' # "starting" /\ (Step(c)' = "stopping" => c = q)
    BY <1>6, <1>7
  <2>2. \A i \in Ids : triggers[i] # 0 => triggers[i] \in Runners
    BY MappedRunner
  <2>3. QED
    BY <1>3, <1>5, <1>7, <2>1, <2>2 DEF MapInv, NoNewLife
<1>12. StopsInv'
  <2>1. \A i \in Ids : ~StoppedByAll(i) /\ ~StoppedByAll(i)'
    BY <1>3, <1>6 DEF StoppedByAll
  <2>2. ~Idle(Server)' => ~Idle(Server) /\ Id(Server)' = Id(Server)
    BY <1>1, <1>7, Constants
  <2>3. \A i \in Ids : triggers[i] # 0 => triggers[i] \in Runners
    BY MappedRunner
  <2>4. QED
    BY <1>3, <1>5, <1>6, <2>1, <2>2, <2>3 DEF StopsInv, NoNewLife
<1>13. UsedInv'
  BY <1>1, <1>3, <1>7 DEF UsedInv
<1>14. StoppedInv'
  BY <1>1, <1>3, <1>6, <1>7, Constants DEF StoppedInv
<1>15. SerialInv'
  <2> SUFFICES ASSUME ~overlap, server = "serve"
               PROVE  SerialInv'
    BY <1>3, <1>6 DEF SerialInv
  <2>1. \A c \in Callers : c # q => Idle(c)
    BY <1>1, AloneInService
  <2>2. \A c \in Callers : c # q => Idle(c)' /\ Step(c)' \in {"new", "done"}
    BY <1>7, <2>1 DEF Idle, Step
  <2>3. \A i \in Ids : Agrees(i)' \/ Id(q)' = i
    <3>1. \A i \in Ids : Agrees(i) \/ Id(q) = i
      BY <1>1, AloneInService
    <3>2. \A i \in Ids : triggers[i] # 0 => triggers[i] \in Runners
      BY MappedRunner
    <3>3. QED
      BY <1>3, <1>5, <1>7, <3>1, <3>2 DEF Agrees, NoNewLife
  <2>4. call'[q].then = "register" => row'[Id(q)'] = [enabled |-> "on", type |-> call'[q].type]
    BY <1>1, <1>3, <1>4, <1>7 DEF SerialInv
  <2>5. QED
    BY <1>1, <1>3, <1>7, <2>2, <2>3, <2>4 DEF SerialInv
<1>16. QED
  BY <1>3, <1>8, <1>9, <1>10, <1>11, <1>12, <1>13, <1>14, <1>15, SameFire

\* The runner does nothing any more
LEMMA StopEndsType ==
  ASSUME TypeOK, NEW r \in Runners, StopEnds(r)
  PROVE  /\ runner' \in [Runners -> RunnerType]
         /\ runner'[r].id = runner[r].id /\ runner'[r].type = runner[r].type
         /\ ~runner'[r].live /\ runner'[r].stops = runner[r].stops + 1
         /\ \A d \in Runners : d # r => runner'[d] = runner[d]
<1> DEFINE v == [runner[r] EXCEPT !.live = FALSE, !.ready = FALSE, !.hung = FALSE,
                                  !.stops = runner[r].stops + 1]
<1>1. v \in RunnerType /\ v.id = runner[r].id /\ v.type = runner[r].type
      /\ v.stops = runner[r].stops + 1 /\ ~v.live
  <2>1. runner[r] \in RunnerType
    BY TypeOKParts
  <2>2. runner[r].stops + 1 \in Nat
    BY <2>1 DEF RunnerType
  <2>3. QED
    BY <2>1, <2>2 DEF RunnerType
<1>2. runner' = [runner EXCEPT ![r] = v] /\ runner \in [Runners -> RunnerType]
  BY TypeOKParts DEF StopEnds
<1> HIDE DEF v
<1>3. QED
  BY <1>1, <1>2

\* A runner is in the map for one id only
LEMMA MappedOnce ==
  ASSUME IInv, NEW i \in Ids, NEW j \in Ids, i # j, triggers[i] # 0
  PROVE  triggers[i] # triggers[j]
BY DEF IInv, MapInv

LEMMA UnregisteredKeeps ==
  ASSUME IInv, NEW q \in Requests, Unregistered(q)
  PROVE  IInv'
<1> USE DEF IInv
<1> DEFINE k == Id(q)
           r == triggers[k]
<1>1. Step(q) = "stopping" /\ ~Idle(q) /\ tmMu = q /\ q \in Callers /\ q # Server
      /\ k \in Ids /\ call[q] \in CallType(next) /\ q # "free"
  BY TypeOKParts, Constants DEF Unregistered, Step, Idle, CallType, Id, LockInv
<1>2. /\ UNCHANGED <<storeVars, next, serverVars, fire>> /\ tmMu' = "free"
      /\ StopEnds(r) /\ Goto(q, call[q].then) /\ triggers' = [triggers EXCEPT ![k] = 0]
  BY DEF Unregistered
<1>3. UNCHANGED <<row, used, next, server, todo, overlap, fire>>
  BY <1>2 DEF storeVars, serverVars
<1>4. call[q].then \in {"done", "register", "deleteRow"}
  BY <1>1 DEF CallType
<1>5. /\ call'[q].step = call[q].then /\ call' \in [Callers -> CallType(next')]
      /\ call[q].then # "done" => call'[q].id = call[q].id /\ call'[q].type = call[q].type
      /\ \A d \in Callers : d # q => call'[d] = call[d]
  <2>1. call[q].then \in Steps /\ next' \in 0..MaxRunners /\ next <= next'
    BY <1>3, <1>4, TypeOKParts, Constants DEF Steps
  <2>2. QED
    BY <1>1, <1>2, <2>1, GotoBecomes
<1>6. r \in Runners /\ r # 0 /\ ~(r > next)
  <2>1. r # 0
    BY <1>1 DEF MapInv
  <2>2. r \in 0..next /\ next \in Nat
    BY <1>1, MappedRunner
  <2>3. \A a, b \in Nat : a \in 0..b => ~(a > b)
    OBVIOUS
  <2>4. QED
    BY <1>1, <2>1, <2>2, <2>3, MappedRunner
<1>7. /\ runner' \in [Runners -> RunnerType]
      /\ runner'[r].id = runner[r].id /\ runner'[r].type = runner[r].type
      /\ ~runner'[r].live /\ runner'[r].stops = runner[r].stops + 1
      /\ \A d \in Runners : d # r => runner'[d] = runner[d]
  BY <1>2, <1>6, StopEndsType
<1>8. server # "stop" /\ server # "load" /\ \A c \in Callers : Step(c) # "starting" /\ (Step(c) = "stopping" => c = q)
  <2>1. server # "stop" /\ server # "load"
    BY <1>1, Constants DEF LockInv
  <2>2. \A c \in Callers : c = Server \/ c \in Requests
    BY DEF Callers
  <2>3. QED
    BY <1>1, <2>1, <2>2, Constants DEF LockInv
<1>9. triggers' \in [Ids -> 0..next] /\ triggers'[k] = 0
      /\ \A i \in Ids : i # k => triggers'[i] = triggers[i] /\ triggers[i] # r
      /\ triggers \in [Ids -> 0..next] /\ next \in Nat
  <2>1. triggers \in [Ids -> 0..next] /\ next \in Nat
    BY TypeOKParts, MappedRunner
  <2>2. 0 \in 0..next
    BY <2>1
  <2>3. \A i \in Ids : i # k => triggers[i] # r
    BY <1>1, <1>6, MappedOnce
  <2> HIDE DEF k, r
  <2>4. QED
    BY <1>1, <1>2, <2>1, <2>2, <2>3
<1>10. Step(q)' = call[q].then /\ (Step(q)' # "done" => Id(q)' = k)
      /\ \A d \in Callers : d # q => Step(d)' = Step(d) /\ Id(d)' = Id(d) /\ Idle(d)' = Idle(d)
  BY <1>5 DEF Step, Id, Idle
<1>11. runner[r].id = k /\ runner[r].stops = 0
  <2>1. ~StoppedByAll(k)
    BY <1>8 DEF StoppedByAll
  <2>2. QED
    BY <1>1, <1>6, <2>1 DEF MapInv, StopsInv
<1>12. \A i \in Ids : triggers'[i] # 0 => /\ i # k /\ triggers'[i] = triggers[i]
                                       /\ triggers[i] \in Runners
                                       /\ runner'[triggers'[i]] = runner[triggers[i]]
  <2>1. \A i \in Ids : triggers[i] # 0 => triggers[i] \in Runners
    BY MappedRunner
  <2> HIDE DEF k, r
  <2>2. QED
    BY <1>7, <1>9, <2>1
<1> HIDE DEF r, k
<1>13. TypeOK'
  <2>1. tmMu' \in Callers \cup {"free"}
    BY <1>2
  <2>2. QED
    BY <1>3, <1>5, <1>7, <1>9, <2>1, TypeOKParts
       DEF TypeOK, RowType, RunnerType, CallType, Steps, FireType
<1>14. NoOrphanRunner'
  <2>1. \A d \in Runners : ~Starting(d)
    BY <1>1, <1>8 DEF Starting, Step
  <2>2. \A d \in Runners : runner[d].id \in Ids
    BY TypeOKParts DEF RunnerType
  <2>3. ASSUME NEW d \in Runners, runner'[d].live
        PROVE  triggers'[runner'[d].id] = d
    <3>1. d # r /\ runner'[d] = runner[d]
      BY <1>7, <2>3
    <3>2. triggers[runner[d].id] = d
      BY <2>1, <2>3, <3>1 DEF NoOrphanRunner
    <3>3. runner[d].id # k
      BY <1>11, <3>1, <3>2 DEF r
    <3>4. QED
      BY <1>9, <2>2, <3>1, <3>2, <3>3
  <2>4. QED
    BY <2>3 DEF NoOrphanRunner
<1>15. StoppedOnce'
  BY <1>7, <1>11 DEF StoppedOnce
<1>16. LockInv'
  <2>1. \A c \in Callers : Step(c)' \notin {"starting", "stopping"}
    BY <1>4, <1>8, <1>10
  <2>2. QED
    BY <1>1, <1>2, <1>3, <1>8, <1>10, <2>1, Constants DEF LockInv
<1>17. MapInv'
  <2>1. \A c \in Callers : Step(c)' \notin {"starting", "stopping"}
    BY <1>4, <1>8, <1>10
  <2>2. \A d \in Runners : d > next => ~runner'[d].live /\ runner'[d].stops = 0
    <3>1. \A d \in Runners : d > next => d # r
      BY <1>6
    <3>2. QED
      BY <1>7, <3>1 DEF MapInv
  <2>3. \A i \in Ids : triggers'[i] # 0 => runner'[triggers'[i]].id = i
    BY <1>12 DEF MapInv
  <2>4. QED
    BY <1>3, <2>1, <2>2, <2>3 DEF MapInv
<1>18. StopsInv'
  <2>1. \A i \in Ids : ~StoppedByAll(i) /\ ~StoppedByAll(i)'
    BY <1>3, <1>8 DEF StoppedByAll
  <2>2. ~Idle(Server)' => ~Idle(Server) /\ Id(Server)' = Id(Server)
    BY <1>1, <1>10, Constants
  <2>3. QED
    BY <1>3, <1>8, <1>12, <2>1, <2>2 DEF StopsInv
<1>19. UsedInv'
  <2>1. k \in used
    BY <1>1 DEF UsedInv, k
  <2>2. \A d \in Callers : ~Idle(d)' => (d # q /\ ~Idle(d) /\ Id(d)' = Id(d)) \/ Id(d)' = k
    BY <1>10 DEF Idle, Step
  <2>3. QED
    BY <1>3, <1>12, <2>1, <2>2 DEF UsedInv
<1>20. StoppedInv'
  BY <1>1, <1>3, <1>8, <1>12, Constants DEF StoppedInv
<1>21. SerialInv'
  <2> SUFFICES ASSUME ~overlap, server = "serve"
               PROVE  SerialInv'
    BY <1>3, <1>8 DEF SerialInv
  <2>1. \A c \in Callers : c # q => Idle(c)
    BY <1>1, AloneInService
  <2>2. \A c \in Callers : c # q => Idle(c)' /\ Step(c)' \in {"new", "done"}
    BY <1>10, <2>1 DEF Idle, Step
  <2>3. \A i \in Ids : Agrees(i) \/ i = k
    BY <1>1, AloneInService DEF k
  <2>4. \A i \in Ids : Agrees(i)'
    BY <1>3, <1>12, <2>3 DEF Agrees
  <2>5. call[q].then = "register" => row[k] = [enabled |-> "on", type |-> call[q].type]
    BY <1>1 DEF SerialInv, k
  <2>6. ASSUME NEW c \in Callers
        PROVE  /\ Step(c)' \in {"register", "starting"}
                    \/ (Step(c)' \in {"unregister", "stopping"} /\ call'[c].then = "register")
                  => row'[Id(c)'] = [enabled |-> "on", type |-> call'[c].type]
               /\ Step(c)' \in {"register", "starting", "deleteRow"} => triggers'[Id(c)'] = 0
               /\ Step(c)' = "write" => call'[c].was = row'[Id(c)'].enabled
    <3>1. CASE c # q
      BY <2>2, <3>1
    <3>2. CASE c = q
      BY <1>3, <1>4, <1>5, <1>9, <1>10, <2>5, <3>2
    <3>3. QED
      BY <3>1, <3>2
  <2>7. QED
    BY <1>3, <2>2, <2>4, <2>6 DEF SerialInv
<1>22. QED
  BY <1>3, <1>13, <1>14, <1>15, <1>16, <1>17, <1>18, <1>19, <1>20, <1>21, SameFire

-----------------------------------------------------------------------------
(* Register *)

\* The runner that is made has never been stopped, and is in the map nowhere
LEMMA NewRunnerType ==
  ASSUME IInv, NEW c \in Callers, NewRunner(c)
  PROVE  /\ next' \in Runners /\ next' \in 0..MaxRunners /\ next <= next'
         /\ runner' \in [Runners -> RunnerType]
         /\ runner'[next'].id = Id(c) /\ runner'[next'].type = call[c].type
         /\ runner'[next'].stops = 0
         /\ \A r \in Runners : r # next' => runner'[r] = runner[r]
         /\ \A r \in Runners : r > next' => r > next
         /\ \A i \in Ids : triggers[i] # next'
<1>1. next \in Nat /\ next < MaxRunners /\ next' = next + 1 /\ MaxRunners \in Nat
  BY TypeOKParts, Constants DEF IInv, NewRunner
<1>2. \A n, m \in Nat : n < m => n + 1 \in 1..m /\ n + 1 \in 0..m /\ n <= n + 1 /\ n + 1 > n
  OBVIOUS
<1>3. next' \in Runners /\ next' \in 0..MaxRunners /\ next <= next' /\ next' > next
  BY <1>1, <1>2 DEF Runners
<1>4. \A i \in Ids : triggers[i] # next'
  <2>1. \A n \in Nat : \A a \in 0..n : a # n + 1
    OBVIOUS
  <2>2. QED
    BY <1>1, <2>1, MappedRunner DEF IInv
<1>5. \A r \in Runners : r > next' => r > next
  <2>1. \A r, n \in Int : r > n + 1 => r > n
    OBVIOUS
  <2>2. QED
    BY <1>1, <2>1 DEF Runners
<1> DEFINE n == next + 1
           v == [runner[n] EXCEPT !.id = Id(c), !.type = call[c].type,
                                  !.live = call[c].type # "webhook"]
<1>6. n \in Runners /\ n = next'
  BY <1>1, <1>3
<1>7. runner[n] \in RunnerType /\ runner[n].stops = 0
  BY <1>3, <1>6, TypeOKParts DEF IInv, MapInv
<1>8. Id(c) \in Ids /\ call[c].type \in Types
  BY TypeOKParts DEF IInv, CallType, Id
<1>9. v \in RunnerType /\ v.id = Id(c) /\ v.type = call[c].type /\ v.stops = 0
  BY <1>7, <1>8 DEF RunnerType
<1>10. runner' = [runner EXCEPT ![n] = v] /\ runner \in [Runners -> RunnerType]
  BY TypeOKParts DEF NewRunner, IInv
<1> HIDE DEF n, v
<1>11. runner' \in [Runners -> RunnerType] /\ runner'[n] = v
       /\ \A r \in Runners : r # n => runner'[r] = runner[r]
  BY <1>6, <1>9, <1>10
<1>12. QED
  BY <1>3, <1>4, <1>5, <1>6, <1>9, <1>11

\* A caller that registers is alone, and has found no runner for its id
LEMMA RegistersAlone ==
  ASSUME IInv, NEW c \in Callers, Step(c) = "starting" \/ (Step(c) = "register" /\ tmMu = "free")
  PROVE  /\ Id(c) \in Ids /\ ~Idle(c) /\ server # "stop"
         /\ \A d \in Callers : d # c => Step(d) \notin {"starting", "stopping"}
         /\ Step(c) = "starting" => tmMu = c
         /\ c # Server => server # "load"
         /\ c = Server => server = "load"
<1>1. Id(c) \in Ids /\ ~Idle(c) /\ (c # Server => server # "load") /\ (c = Server => server = "load")
  BY TypeOKParts DEF IInv, CallType, Id, Idle, Step, LockInv, Callers
<1>2. CASE tmMu = "free"
  BY <1>1, <1>2, LockFree
<1>3. CASE Step(c) = "starting"
  <2>1. tmMu = c /\ server # "stop"
    BY <1>1, <1>3, Constants DEF IInv, LockInv
  <2>2. \A d \in Callers : d = Server \/ d \in Requests
    BY DEF Callers
  <2>3. QED
    BY <1>1, <2>1, <2>2, Constants DEF IInv, LockInv
<1>4. QED
  BY <1>2, <1>3

\* The last part of a registration: runner m gets into the map
LEMMA RegisteredKeeps ==
  ASSUME IInv, NEW c \in Callers, Step(c) = "starting" \/ (Step(c) = "register" /\ tmMu = "free"),
         NEW m \in Runners, next' = m, m \in 0..MaxRunners, next <= m,
         triggers[Id(c)] = 0, \A i \in Ids : triggers[i] # m,
         \A r \in Runners : Starting(r) => r = m, \A r \in Runners : r > m => r > next,
         runner' \in [Runners -> RunnerType], runner'[m].id = Id(c),
         runner'[m].type = call[c].type, runner'[m].stops = 0,
         \A r \in Runners : r # m => runner'[r] = runner[r],
         triggers' = [triggers EXCEPT ![Id(c)] = m], tmMu' = "free", Goto(c, "done"),
         UNCHANGED <<storeVars, serverVars, fire>>
  PROVE  IInv'
<1> USE DEF IInv
<1> DEFINE k == Id(c)
<1>1. UNCHANGED <<row, used, server, todo, overlap, fire>>
  BY DEF storeVars, serverVars
<1>2. /\ k \in Ids /\ ~Idle(c) /\ server # "stop"
      /\ \A d \in Callers : d # c => Step(d) \notin {"starting", "stopping"}
      /\ c # Server => server # "load"
      /\ c = Server => server = "load"
  BY RegistersAlone
<1>3. /\ call'[c].step = "done" /\ call' \in [Callers -> CallType(next')]
      /\ \A d \in Callers : d # c => call'[d] = call[d]
  <2>1. "done" \in Steps
    BY DEF Steps
  <2>2. QED
    BY <2>1, GotoBecomes
<1>4. Step(c)' = "done" /\ Idle(c)'
      /\ \A d \in Callers : d # c => Step(d)' = Step(d) /\ Id(d)' = Id(d) /\ Idle(d)' = Idle(d)
  BY <1>3 DEF Step, Id, Idle
<1>5. \A d \in Callers : Step(d)' \notin {"starting", "stopping"}
  BY <1>2, <1>4
<1>6. \A d \in Callers : ~Idle(d)' => d # c /\ ~Idle(d) /\ Id(d)' = Id(d)
  BY <1>4
<1>7. /\ triggers' \in [Ids -> 0..next'] /\ triggers'[k] = m
      /\ \A i \in Ids : i # k => triggers'[i] = triggers[i]
  <2>1. triggers \in [Ids -> 0..next] /\ next \in Nat /\ m \in Nat
    BY TypeOKParts, MappedRunner, Constants
  <2>2. \A a, b \in Nat : a <= b => 0..a \subseteq 0..b /\ b \in 0..b
    OBVIOUS
  <2>3. triggers \in [Ids -> 0..m] /\ m \in 0..m
    BY <2>1, <2>2
  <2> HIDE DEF k
  <2>4. QED
    BY <1>2, <2>3 DEF k
<1>8. \A i \in Ids : triggers'[i] # 0 =>
        \/ i = k /\ triggers'[i] = m
        \/ /\ i # k /\ triggers[i] # 0 /\ triggers'[i] = triggers[i] /\ triggers[i] \in Runners
           /\ runner'[triggers'[i]] = runner[triggers[i]]
  <2>1. \A i \in Ids : triggers[i] # 0 => triggers[i] \in Runners
    BY MappedRunner
  <2> HIDE DEF k
  <2>2. QED
    BY <1>7, <2>1
<1>9. runner'[m].id = k /\ triggers[k] = 0 /\ (~Idle(Server) /\ c = Server => k \notin todo)
  BY DEF StopsInv
<1>10. k \in used
  BY <1>2 DEF UsedInv
<1> HIDE DEF k
<1>11. TypeOK'
  BY <1>1, <1>3, <1>7, TypeOKParts DEF TypeOK, RowType, RunnerType, CallType, Steps, FireType
<1>12. NoOrphanRunner'
  <2>1. \A r \in Runners : runner[r].id \in Ids /\ r # 0
    BY TypeOKParts, MappedRunner DEF RunnerType
  <2>2. ASSUME NEW r \in Runners, runner'[r].live
        PROVE  triggers'[runner'[r].id] = r
    <3>1. CASE r = m
      BY <1>7, <1>9, <3>1
    <3>2. CASE r # m
      <4>1. triggers[runner[r].id] = r /\ runner'[r] = runner[r]
        BY <2>2, <3>2 DEF NoOrphanRunner
      <4>2. runner[r].id # k
        BY <1>9, <2>1, <4>1
      <4>3. QED
        BY <1>7, <2>1, <4>1, <4>2
    <3>3. QED
      BY <3>1, <3>2
  <2>3. QED
    BY <2>2 DEF NoOrphanRunner
<1>13. StoppedOnce'
  BY DEF StoppedOnce
<1>14. LockInv'
  <2>1. Step(Server)' = Step(Server) \/ Step(Server)' = "done"
    BY <1>4, Constants
  <2>2. \A q \in Requests : Step(q) = "new" => Step(q)' = "new"
    BY <1>2, <1>4, Constants DEF Idle, Step
  <2>3. \A q \in Requests : q # "free"
    BY Constants
  <2>4. QED
    BY <1>1, <1>2, <1>5, <2>1, <2>2, <2>3, Constants DEF LockInv
<1>15. MapInv'
  <2>1. \A i \in Ids : triggers'[i] # 0 => runner'[triggers'[i]].id = i
    BY <1>8, <1>9 DEF MapInv
  <2>2. \A r \in Runners : r > next' => ~runner'[r].live /\ runner'[r].stops = 0
    <3>1. \A r \in Runners : r > m => r # m
      <4>1. \A a \in Int : ~(a > a)
        OBVIOUS
      <4>2. m \in Int
        BY Constants
      <4>3. QED
        BY <4>1, <4>2
    <3>2. QED
      BY <3>1 DEF MapInv
  <2>3. QED
    BY <1>5, <2>1, <2>2 DEF MapInv
<1>16. StopsInv'
  <2>1. \A i \in Ids : ~StoppedByAll(i) /\ ~StoppedByAll(i)'
    BY <1>1, <1>2 DEF StoppedByAll
  <2>2. \A i \in Ids : triggers'[i] # 0 => runner'[triggers'[i]].stops = 0
    BY <1>8, <2>1 DEF StopsInv
  <2>3. ~Idle(Server)' => ~Idle(Server) /\ Id(Server)' = Id(Server)
    BY <1>6, Constants
  <2>4. QED
    BY <1>1, <1>2, <2>1, <2>2, <2>3 DEF StopsInv
<1>17. UsedInv'
  BY <1>1, <1>6, <1>8, <1>10 DEF UsedInv
<1>18. StoppedInv'
  <2>1. server = "end" /\ ~overlap => FALSE
    BY <1>2, Constants DEF StoppedInv, Callers
  <2>2. QED
    BY <1>1, <1>2, <2>1 DEF StoppedInv
<1>19. SerialInv'
  <2> SUFFICES ASSUME ~overlap, server \in {"load", "serve"}
               PROVE  SerialInv'
    BY <1>1 DEF SerialInv
  <2>1. \A d \in Callers : Idle(d)'
    BY <1>2, <1>4 DEF SerialInv
  <2>2. \A d \in Callers : Step(d)' \in {"new", "done"}
    BY <2>1 DEF Idle, Step
  <2>3. row[k] = [enabled |-> "on", type |-> call[c].type]
    BY DEF SerialInv, k
  <2>4. \A i \in Ids : i # k => Agrees(i)
    <3>1. \A d \in Callers : Step(d) \in {"unregister", "stopping"} => FALSE
      BY <1>2 DEF SerialInv, Idle, Step
    <3>2. QED
      BY <3>1 DEF SerialInv
  <2>5. \A i \in Ids : Agrees(i)'
    BY <1>1, <1>8, <2>3, <2>4 DEF Agrees
  <2>6. server = "load" => \A i \in todo : row[i].enabled = "on" /\ triggers'[i] = 0
    <3>1. server = "load" => c = Server /\ k \notin todo
      BY <1>2, <1>9
    <3>2. todo \subseteq Ids
      BY TypeOKParts
    <3>3. QED
      BY <1>7, <3>1, <3>2 DEF SerialInv
  <2>7. QED
    BY <1>1, <2>1, <2>2, <2>5, <2>6 DEF SerialInv
<1>20. QED
  BY <1>1, <1>11, <1>12, <1>13, <1>14, <1>15, <1>16, <1>17, <1>18, <1>19, SameFire

LEMMA RegisterKeeps ==
  ASSUME IInv, NEW c \in Callers, Register(c)
  PROVE  IInv'
<1>1. Step(c) = "register" /\ tmMu = "free" /\ tmMu' = "free" /\ NewRunner(c)
      /\ triggers[Id(c)] = 0 /\ Goto(c, "done") /\ UNCHANGED <<storeVars, serverVars, fire>>
      /\ triggers' = [triggers EXCEPT ![Id(c)] = next + 1] /\ next' = next + 1
  BY DEF Register, NewRunner, NotRegistered, Step
<1>2. \A r \in Runners : ~Starting(r)
  BY <1>1 DEF Starting
<1>3. QED
  BY <1>1, <1>2, NewRunnerType, RegisteredKeeps

\* The reader of the process's messages
LEMMA ProcessReadyKeeps ==
  ASSUME IInv, NEW c \in Callers, ProcessReady(c)
  PROVE  IInv'
<1> USE DEF IInv
<1>1. Step(c) = "starting" /\ tmMu' = "free" /\ Goto(c, "done")
      /\ UNCHANGED <<storeVars, next, serverVars, fire>>
      /\ triggers' = [triggers EXCEPT ![Id(c)] = next]
      /\ runner' = [runner EXCEPT ![next].ready = TRUE]
  BY DEF ProcessReady, Step
<1>2. /\ next \in Runners /\ runner[next].id = Id(c) /\ runner[next].type = call[c].type
      /\ runner[next].stops = 0 /\ triggers[Id(c)] = 0
      /\ \A i \in Ids : triggers[i] # next
  BY <1>1 DEF MapInv
<1>3. \A r \in Runners : Starting(r) => r = next
  BY DEF Starting
<1>4. next \in 0..MaxRunners /\ next <= next
  BY TypeOKParts, Constants
<1> DEFINE v == [runner[next] EXCEPT !.ready = TRUE]
<1>5. v \in RunnerType /\ v.id = runner[next].id /\ v.type = runner[next].type
      /\ v.stops = runner[next].stops
  BY <1>2, TypeOKParts DEF RunnerType
<1>6. runner' = [runner EXCEPT ![next] = v] /\ runner \in [Runners -> RunnerType]
  BY <1>1, TypeOKParts
<1> HIDE DEF v
<1>7. /\ runner' \in [Runners -> RunnerType] /\ runner'[next] = v
      /\ \A r \in Runners : r # next => runner'[r] = runner[r]
  BY <1>2, <1>5, <1>6
<1>8. runner'[next].id = Id(c) /\ runner'[next].type = call[c].type /\ runner'[next].stops = 0
  BY <1>2, <1>5, <1>7
<1>9. next' = next /\ \A r \in Runners : r > next => r > next
  BY <1>1
<1>10. QED
  BY <1>1, <1>2, <1>3, <1>4, <1>7, <1>8, <1>9, RegisteredKeeps

\* The process runs, tm.mu is held, the map is as it was
LEMMA StartProcessKeeps ==
  ASSUME IInv, NEW c \in Callers, StartProcess(c)
  PROVE  IInv'
<1> USE DEF IInv
<1>1. Step(c) = "register" /\ tmMu = "free" /\ tmMu' = c /\ NewRunner(c)
      /\ triggers[Id(c)] = 0 /\ Goto(c, "starting")
      /\ UNCHANGED <<storeVars, serverVars, fire, triggers>>
  BY DEF StartProcess, NewRunner, NotRegistered, Step
<1>2. UNCHANGED <<row, used, server, todo, overlap, fire, triggers>>
  BY <1>1 DEF storeVars, serverVars
<1>3. /\ Id(c) \in Ids /\ ~Idle(c) /\ server # "stop"
      /\ \A d \in Callers : d # c => Step(d) \notin {"starting", "stopping"}
      /\ c # Server => server # "load"
      /\ c = Server => server = "load"
  BY <1>1, RegistersAlone
<1>4. /\ next' \in Runners /\ next' \in 0..MaxRunners /\ next <= next'
      /\ runner' \in [Runners -> RunnerType]
      /\ runner'[next'].id = Id(c) /\ runner'[next'].type = call[c].type
      /\ runner'[next'].stops = 0
      /\ \A r \in Runners : r # next' => runner'[r] = runner[r]
      /\ \A r \in Runners : r > next' => r > next
      /\ \A i \in Ids : triggers[i] # next'
  BY <1>1, NewRunnerType
<1>5. /\ call'[c].step = "starting" /\ call'[c].id = call[c].id /\ call'[c].type = call[c].type
      /\ call' \in [Callers -> CallType(next')]
      /\ \A d \in Callers : d # c => call'[d] = call[d]
  <2>1. "starting" \in Steps
    BY DEF Steps
  <2>2. QED
    BY <1>1, <1>4, <2>1, GotoBecomes
<1>6. Step(c)' = "starting" /\ ~Idle(c)' /\ Id(c)' = Id(c)
      /\ \A d \in Callers : d # c => Step(d)' = Step(d) /\ Id(d)' = Id(d) /\ Idle(d)' = Idle(d)
  BY <1>5 DEF Step, Id, Idle
<1>7. \A i \in Ids : triggers[i] # 0 => triggers[i] \in Runners /\ runner'[triggers[i]] = runner[triggers[i]]
  BY <1>4, MappedRunner
<1>8. TypeOK'
  <2>1. triggers \in [Ids -> 0..next] /\ next \in Nat /\ next' \in Nat
    BY <1>4, TypeOKParts, MappedRunner, Constants
  <2>2. \A a, b \in Nat : a <= b => 0..a \subseteq 0..b
    OBVIOUS
  <2>3. triggers' \in [Ids -> 0..next'] /\ tmMu' \in Callers \cup {"free"}
    BY <1>1, <1>2, <1>4, <2>1, <2>2
  <2>4. QED
    BY <1>2, <1>4, <1>5, <2>3, TypeOKParts
       DEF TypeOK, RowType, RunnerType, CallType, Steps, FireType
<1>9. NoOrphanRunner'
  <2>1. Starting(next)'
    BY <1>1, <1>5, Constants DEF Starting
  <2>2. \A r \in Runners : ~Starting(r)
    BY <1>1 DEF Starting
  <2>3. \A r \in Runners : r # next' => (runner'[r].live => triggers'[runner'[r].id] = r)
    BY <1>2, <1>4, <2>2 DEF NoOrphanRunner
  <2>4. \A r \in Runners : r = next' => Starting(r)'
    BY <2>1 DEF Starting
  <2>5. QED
    BY <2>3, <2>4 DEF NoOrphanRunner
<1>10. StoppedOnce'
  BY <1>4 DEF StoppedOnce
<1>11. LockInv'
  <2>1. \A d \in Callers : Step(d)' \in {"starting", "stopping"} => d = c
    BY <1>3, <1>6
  <2>2. \A q \in Requests : Step(q) = "new" => Step(q)' = "new"
    BY <1>3, <1>6, Constants DEF Idle, Step
  <2>3. Step(Server)' = Step(Server) \/ c = Server
    BY <1>6, Constants
  <2>4. QED
    BY <1>1, <1>2, <1>3, <1>6, <2>1, <2>2, <2>3, Constants DEF LockInv
<1>12. MapInv'
  <2>1. \A i \in Ids : triggers'[i] # 0 => runner'[triggers'[i]].id = i
    BY <1>2, <1>7 DEF MapInv
  <2>2. \A r \in Runners : r > next' => ~runner'[r].live /\ runner'[r].stops = 0
    <3>1. \A r \in Runners : r > next' => r # next'
      <4>1. \A a \in Int : ~(a > a)
        OBVIOUS
      <4>2. next' \in Int
        BY <1>4, Constants
      <4>3. QED
        BY <4>1, <4>2
    <3>2. QED
      BY <1>4, <3>1 DEF MapInv
  <2>3. \A d \in Callers : Step(d)' \in {"starting", "stopping"} => d = c
    BY <1>3, <1>6
  <2>4. triggers'[Id(c)'] = 0 /\ \A i \in Ids : triggers'[i] # next'
    BY <1>1, <1>2, <1>4, <1>6
  <2>5. next' \in Runners /\ runner'[next'].id = Id(c)' /\ runner'[next'].type = call'[c].type
        /\ runner'[next'].stops = 0
    BY <1>4, <1>5, <1>6
  <2>6. QED
    BY <1>6, <2>1, <2>2, <2>3, <2>4, <2>5 DEF MapInv
<1>13. StopsInv'
  <2>1. \A i \in Ids : ~StoppedByAll(i) /\ ~StoppedByAll(i)'
    BY <1>2, <1>3 DEF StoppedByAll
  <2>2. ~Idle(Server)' => ~Idle(Server) /\ Id(Server)' = Id(Server)
    BY <1>3, <1>6, Constants
  <2>3. QED
    BY <1>2, <1>3, <1>7, <2>1, <2>2 DEF StopsInv
<1>14. \A d \in Callers : (Idle(d)' <=> Idle(d)) /\ (~Idle(d) => Id(d)' = Id(d))
  BY <1>3, <1>6
<1>15. UsedInv'
  BY <1>2, <1>14 DEF UsedInv
<1>16. StoppedInv'
  BY <1>2, <1>14, Constants DEF StoppedInv
<1>17. SerialInv'
  <2> SUFFICES ASSUME ~overlap, server \in {"load", "serve"}
               PROVE  SerialInv'
    BY <1>2 DEF SerialInv
  <2>1. \A d \in Callers : d # c => Idle(d)' /\ Step(d)' \in {"new", "done"}
    BY <1>3, <1>6 DEF SerialInv, Idle, Step
  <2>2. \A i \in Ids : Agrees(i)'
    <3>1. \A d \in Callers : Step(d) \in {"unregister", "stopping"} => FALSE
      BY <1>1, <1>3 DEF SerialInv, Idle, Step
    <3>2. \A i \in Ids : Agrees(i)
      BY <3>1 DEF SerialInv
    <3>3. QED
      BY <1>2, <1>7, <3>2 DEF Agrees
  <2>3. row'[Id(c)'] = [enabled |-> "on", type |-> call'[c].type]
    BY <1>1, <1>2, <1>5, <1>6 DEF SerialInv
  <2>4. QED
    BY <1>1, <1>2, <1>6, <2>1, <2>2, <2>3 DEF SerialInv
<1>18. QED
  BY <1>2, <1>8, <1>9, <1>10, <1>11, <1>12, <1>13, <1>15, <1>16, <1>17, SameFire

\* The process is killed, and tm.mu released
LEMMA ProcessNotReadyKeeps ==
  ASSUME IInv, NEW c \in Callers, ProcessNotReady(c)
  PROVE  IInv'
<1> USE DEF IInv
<1>1. Step(c) = "starting" /\ tmMu' = "free" /\ Goto(c, "done")
      /\ UNCHANGED <<storeVars, triggers, next, serverVars, fire>>
      /\ runner' = [runner EXCEPT ![next].live = FALSE]
  BY DEF ProcessNotReady, Step
<1>2. UNCHANGED <<row, used, triggers, next, server, todo, overlap, fire>>
  BY <1>1 DEF storeVars, serverVars
<1>3. /\ Id(c) \in Ids /\ ~Idle(c) /\ server # "stop"
      /\ \A d \in Callers : d # c => Step(d) \notin {"starting", "stopping"}
      /\ c # Server => server # "load"
      /\ c = Server => server = "load"
  BY <1>1, RegistersAlone
<1>4. next \in Runners
  BY <1>1 DEF MapInv
<1>5. NoNewLife /\ ~runner'[next].live
  <2> DEFINE v == [runner[next] EXCEPT !.live = FALSE]
  <2>1. v \in RunnerType /\ v.id = runner[next].id /\ v.type = runner[next].type
        /\ v.stops = runner[next].stops /\ ~v.live
    BY <1>4, TypeOKParts DEF RunnerType
  <2>2. runner' = [runner EXCEPT ![next] = v] /\ runner \in [Runners -> RunnerType]
    BY <1>1, TypeOKParts
  <2> HIDE DEF v
  <2>3. QED
    BY <1>4, <2>1, <2>2 DEF NoNewLife
<1>6. /\ call'[c].step = "done" /\ call' \in [Callers -> CallType(next')]
      /\ \A d \in Callers : d # c => call'[d] = call[d]
  <2>1. "done" \in Steps /\ next' \in 0..MaxRunners /\ next <= next'
    BY <1>2, TypeOKParts, Constants DEF Steps
  <2>2. QED
    BY <1>1, <2>1, GotoBecomes
<1>7. Step(c)' = "done" /\ Idle(c)'
      /\ \A d \in Callers : d # c => Step(d)' = Step(d) /\ Id(d)' = Id(d) /\ Idle(d)' = Idle(d)
  BY <1>6 DEF Step, Id, Idle
<1>8. \A i \in Ids : triggers[i] # 0 => triggers[i] \in Runners
  BY MappedRunner
<1>9. TypeOK'
  <2>1. runner' \in [Runners -> RunnerType] /\ tmMu' \in Callers \cup {"free"}
    BY <1>1, <1>5 DEF NoNewLife
  <2>2. QED
    BY <1>2, <1>6, <2>1, TypeOKParts
       DEF TypeOK, RowType, RunnerType, CallType, Steps, FireType
<1>10. NoOrphanRunner' /\ StoppedOnce'
  <2>1. \A r \in Runners : runner'[r].live => r # next /\ ~Starting(r)
    BY <1>5 DEF Starting
  <2>2. QED
    BY <1>2, <1>5, <2>1 DEF NoOrphanRunner, StoppedOnce, NoNewLife
<1>11. \A d \in Callers : Step(d)' \notin {"starting", "stopping"}
  BY <1>3, <1>7
<1>12. LockInv'
  <2>1. Step(Server)' = Step(Server) \/ Step(Server)' = "done"
    BY <1>7, Constants
  <2>2. \A q \in Requests : Step(q) = "new" => Step(q)' = "new"
    BY <1>3, <1>7, Constants DEF Idle, Step
  <2>3. \A q \in Requests : q # "free"
    BY Constants
  <2>4. QED
    BY <1>1, <1>2, <1>3, <1>11, <2>1, <2>2, <2>3, Constants DEF LockInv
<1>13. MapInv'
  BY <1>2, <1>5, <1>8, <1>11 DEF MapInv, NoNewLife
<1>14. \A d \in Callers : ~Idle(d)' => ~Idle(d) /\ Id(d)' = Id(d)
  BY <1>7
<1>15. StopsInv'
  <2>1. \A i \in Ids : ~StoppedByAll(i) /\ ~StoppedByAll(i)'
    BY <1>2, <1>3 DEF StoppedByAll
  <2>2. \A i \in Ids : triggers'[i] # 0 => runner'[triggers'[i]].stops = 0
    BY <1>2, <1>5, <1>8, <2>1 DEF StopsInv, NoNewLife
  <2>3. QED
    BY <1>2, <1>3, <1>14, <2>1, <2>2, Constants DEF StopsInv
<1>16. UsedInv'
  BY <1>2, <1>14 DEF UsedInv
<1>17. StoppedInv'
  BY <1>2, <1>14, Constants DEF StoppedInv
<1>18. SerialInv'
  <2> SUFFICES ASSUME ~overlap, server \in {"load", "serve"}
               PROVE  SerialInv'
    BY <1>2 DEF SerialInv
  <2>1. \A d \in Callers : Idle(d)' /\ Step(d)' \in {"new", "done"}
    BY <1>3, <1>7 DEF SerialInv, Idle, Step
  <2>2. \A i \in Ids : Agrees(i)'
    <3>1. \A d \in Callers : Step(d) \in {"unregister", "stopping"} => FALSE
      BY <1>1, <1>3 DEF SerialInv, Idle, Step
    <3>2. \A i \in Ids : Agrees(i)
      BY <3>1 DEF SerialInv
    <3>3. QED
      BY <1>2, <1>5, <1>8, <3>2 DEF Agrees, NoNewLife
  <2>3. QED
    BY <1>2, <2>1, <2>2 DEF SerialInv
<1>19. QED
  BY <1>2, <1>9, <1>10, <1>12, <1>13, <1>15, <1>16, <1>17, <1>18, SameFire

\* The start message is written
LEMMA StartSentStep ==
  ASSUME IInv, NEW c \in Callers, StartSent(c)
  PROVE  /\ NoNewLife /\ \A r \in Runners : runner[r].live => runner'[r].live
         /\ UNCHANGED <<storeVars, triggers, tmMu, next, serverVars, call, fire>>
<1>1. next \in Runners
  BY DEF IInv, MapInv, StartSent, Step
<1>2. runner' = [runner EXCEPT ![next].told = TRUE]
  BY DEF StartSent
<1>3. NoNewLife /\ \A r \in Runners : runner[r].live => runner'[r].live
  BY <1>1, <1>2, TypeOKParts DEF IInv, NoNewLife, RunnerType
<1>4. QED
  BY <1>3 DEF StartSent

LEMMA RegisterStepKeeps ==
  ASSUME IInv, NEW c \in Callers, RegisterStep(c)
  PROVE  IInv'
<1>1. CASE RegisterRefused(c)
  BY <1>1, GivesUpKeeps DEF RegisterRefused, Step, Plain
<1>2. CASE StartSent(c)
  BY <1>2, StartSentStep, SameFire, AsideKeeps DEF IInv
<1>3. QED
  BY <1>1, <1>2, RegisterKeeps, StartProcessKeeps, ProcessReadyKeeps, ProcessNotReadyKeeps
     DEF RegisterStep

-----------------------------------------------------------------------------
(* main: LoadTriggers and StopAll *)

LEMMA LoadNextKeeps ==
  ASSUME IInv, NEW i \in Ids, LoadNext(i)
  PROVE  IInv'
<1> USE DEF IInv
<1>1. server = "load" /\ Idle(Server) /\ i \in todo /\ todo' = todo \ {i}
      /\ UNCHANGED <<server, overlap, storeVars, managerVars, fire>>
  BY DEF LoadNext
<1>2. UNCHANGED <<row, used, triggers, tmMu, next, runner, server, overlap, fire>>
  BY <1>1 DEF storeVars, managerVars
<1> DEFINE v == [Handler("register", i) EXCEPT !.type = row[i].type]
<1>3. row[i] \in RowType /\ next \in Nat /\ Server \in Callers
  BY TypeOKParts, Constants
<1>4. v \in CallType(next) /\ v.step = "register" /\ v.id = i /\ v.type = row[i].type
  <2>1. Handler("register", i) \in CallType(next)
        /\ Handler("register", i).step = "register" /\ Handler("register", i).id = i
    BY <1>3, HandlerType DEF Steps
  <2>2. row[i].type \in Types
    BY <1>3 DEF RowType
  <2>3. QED
    BY <2>1, <2>2 DEF CallType
<1>5. call' = [call EXCEPT ![Server] = v]
  BY DEF LoadNext
<1> HIDE DEF v
<1>6. /\ call'[Server] = v /\ \A d \in Callers : d # Server => call'[d] = call[d]
      /\ call' \in [Callers -> CallType(next')]
  <2>1. next' \in 0..MaxRunners /\ next <= next' /\ v \in CallType(next')
    BY <1>2, <1>3, <1>4, TypeOKParts
  <2>2. QED
    BY <1>3, <1>5, <2>1, CallBecomes
<1>7. Step(Server)' = "register" /\ Id(Server)' = i
      /\ \A d \in Callers : d # Server => Step(d)' = Step(d) /\ Id(d)' = Id(d) /\ (Idle(d)' <=> Idle(d))
  BY <1>4, <1>6 DEF Step, Id, Idle
<1>8. \A q \in Requests : Step(q)' = "new" /\ Step(q) = "new" /\ Idle(q)'
  BY <1>1, <1>7, Constants DEF LockInv, Idle, Step
<1>9. \A c \in Callers : c = Server \/ c \in Requests
  BY DEF Callers
<1>10. \A c \in Callers : Step(c)' \notin {"starting", "stopping"} /\ Step(c) \notin {"starting", "stopping"}
  BY <1>1, <1>7, <1>8, <1>9 DEF Idle, Step
<1>11. TypeOK'
  BY <1>1, <1>2, <1>6, TypeOKParts DEF TypeOK, RowType, RunnerType, CallType, Steps, FireType
<1>12. NoOrphanRunner' /\ StoppedOnce'
  <2>1. \A r \in Runners : ~Starting(r)
    <3>1. \A r \in Runners : Starting(r) => tmMu \in Callers /\ Step(tmMu) = "starting"
      BY TypeOKParts DEF Starting, Step
    <3>2. QED
      BY <1>10, <3>1
  <2>2. QED
    BY <1>2, <2>1 DEF NoOrphanRunner, StoppedOnce
<1>13. LockInv'
  <2>1. tmMu # Server
    BY <1>1, <1>10, Constants DEF LockInv
  <2>2. QED
    BY <1>1, <1>2, <1>7, <1>8, <1>10, <2>1, Constants DEF LockInv
<1>14. MapInv'
  BY <1>2, <1>10 DEF MapInv
<1>15. StopsInv'
  <2>1. \A j \in Ids : ~StoppedByAll(j) /\ ~StoppedByAll(j)'
    BY <1>1, <1>2 DEF StoppedByAll
  <2>2. QED
    BY <1>1, <1>2, <1>7, <2>1 DEF StopsInv
<1>16. UsedInv'
  BY <1>1, <1>2, <1>7 DEF UsedInv
<1>17. StoppedInv'
  BY <1>1, <1>2 DEF StoppedInv
<1>18. SerialInv'
  <2> SUFFICES ASSUME ~overlap
               PROVE  SerialInv'
    BY <1>2 DEF SerialInv
  <2>1. \A c \in Callers : ~Idle(c)' => c = Server
    BY <1>8, <1>9
  <2>2. \A j \in Ids : Agrees(j)'
    <3>1. \A c \in Callers : Step(c) \notin {"unregister", "stopping"}
      BY <1>1, <1>8, <1>9 DEF Idle, Step
    <3>2. QED
      BY <1>1, <1>2, <3>1 DEF SerialInv, Agrees
  <2>3. row[i] = [enabled |-> "on", type |-> row[i].type] /\ triggers[i] = 0
    BY <1>1, <1>3 DEF SerialInv, RowType
  <2>4. ASSUME NEW c \in Callers
        PROVE  /\ Step(c)' \in {"register", "starting"}
                    \/ (Step(c)' \in {"unregister", "stopping"} /\ call'[c].then = "register")
                  => row'[Id(c)'] = [enabled |-> "on", type |-> call'[c].type]
               /\ Step(c)' \in {"register", "starting", "deleteRow"} => triggers'[Id(c)'] = 0
               /\ Step(c)' = "write" => call'[c].was = row'[Id(c)'].enabled
    BY <1>2, <1>4, <1>6, <1>7, <1>8, <1>9, <2>3
  <2>5. \A j \in todo' : row'[j].enabled = "on" /\ triggers'[j] = 0
    BY <1>1, <1>2 DEF SerialInv
  <2>6. QED
    BY <2>1, <2>2, <2>4, <2>5 DEF SerialInv
<1>19. QED
  BY <1>2, <1>11, <1>12, <1>13, <1>14, <1>15, <1>16, <1>17, <1>18, SameFire

\* While main is at rest, everything that is live is in the map
LEMMA ServerAtRest ==
  ASSUME IInv, Idle(Server), server \in {"load", "serve", "stop"}, tmMu \in {"free", Server}
  PROVE  /\ \A c \in Callers : Step(c) \notin {"starting", "stopping"}
         /\ \A r \in Runners : runner[r].live => triggers[runner[r].id] = r
<1> USE DEF IInv
<1>1. \A c \in Callers : c = Server \/ c \in Requests
  BY DEF Callers
<1>2. \A c \in Callers : Step(c) \notin {"starting", "stopping"}
  BY <1>1, Constants DEF LockInv, Idle, Step
<1>3. \A r \in Runners : ~Starting(r)
  <2>1. \A r \in Runners : Starting(r) => tmMu \in Callers /\ Step(tmMu) = "starting"
    BY TypeOKParts DEF Starting, Step
  <2>2. QED
    BY <1>2, <2>1
<1>4. QED
  BY <1>2, <1>3 DEF NoOrphanRunner

LEMMA ServeKeeps ==
  ASSUME IInv, Serve
  PROVE  IInv'
<1> USE DEF IInv
<1>1. server = "load" /\ Idle(Server) /\ todo = {} /\ server' = "serve"
      /\ UNCHANGED <<row, used, triggers, tmMu, next, runner, todo, overlap, call, fire>>
  BY DEF Serve, storeVars, managerVars
<1>2. TypeOK'
  BY <1>1, TypeOKParts DEF TypeOK, RowType, RunnerType, CallType, Steps, FireType
<1>3. NoOrphanRunner' /\ StoppedOnce'
  BY <1>1 DEF NoOrphanRunner, StoppedOnce, Starting
<1>4. Step(Server) \notin {"register", "starting", "stopping"}
  BY <1>1 DEF Idle, Step
<1>5. LockInv'
  BY <1>1, <1>4 DEF LockInv, Step
<1>6. MapInv' /\ UsedInv' /\ StoppedInv'
  BY <1>1 DEF MapInv, UsedInv, StoppedInv, Step, Id, Idle
<1>7. StopsInv'
  BY <1>1 DEF StopsInv, StoppedByAll, Step, Id, Idle
<1>8. SerialInv'
  BY <1>1 DEF SerialInv, Agrees, Step, Id, Idle
<1>9. QED
  BY <1>1, <1>2, <1>3, <1>5, <1>6, <1>7, <1>8, SameFire

\* Nothing is left that could change the map
LEMMA LoadPanicsKeeps ==
  ASSUME IInv, LoadPanics
  PROVE  IInv'
<1> USE DEF IInv
<1>1. Step(Server) = "register" /\ tmMu = "free" /\ server' = "crashed" /\ Goto(Server, "done")
      /\ UNCHANGED <<row, used, triggers, tmMu, next, runner, todo, overlap, fire>>
  BY DEF LoadPanics, storeVars, managerVars
<1>2. server = "load" /\ \A c \in Callers : Step(c) \notin {"starting", "stopping"}
  BY <1>1, LockFree DEF LockInv
<1>3. /\ call'[Server].step = "done" /\ call' \in [Callers -> CallType(next')]
      /\ \A d \in Callers : d # Server => call'[d] = call[d]
  <2>1. "done" \in Steps /\ next' \in 0..MaxRunners /\ next <= next'
    BY <1>1, TypeOKParts, Constants DEF Steps
  <2>2. QED
    BY <1>1, <2>1, Constants, GotoBecomes
<1>4. Step(Server)' = "done" /\ Idle(Server)'
      /\ \A d \in Callers : d # Server => Step(d)' = Step(d) /\ Id(d)' = Id(d) /\ Idle(d)' = Idle(d)
  BY <1>3 DEF Step, Id, Idle
<1>5. TypeOK'
  BY <1>1, <1>3, TypeOKParts DEF TypeOK, RowType, RunnerType, CallType, Steps, FireType
<1>6. NoOrphanRunner' /\ StoppedOnce'
  BY <1>1, LockFree DEF NoOrphanRunner, StoppedOnce
<1>7. \A d \in Callers : Step(d)' \notin {"starting", "stopping"}
  BY <1>2, <1>4
<1>8. LockInv'
  BY <1>1, <1>4, <1>7, Constants DEF LockInv
<1>9. MapInv'
  BY <1>1, <1>7 DEF MapInv
<1>10. StopsInv'
  <2>1. \A i \in Ids : ~StoppedByAll(i) /\ ~StoppedByAll(i)'
    BY <1>1, <1>2 DEF StoppedByAll
  <2>2. QED
    BY <1>1, <1>4, <2>1 DEF StopsInv
<1>11. UsedInv'
  BY <1>1, <1>4 DEF UsedInv
<1>12. SerialInv' /\ StoppedInv'
  BY <1>1 DEF SerialInv, StoppedInv
<1>13. QED
  BY <1>1, <1>5, <1>6, <1>8, <1>9, <1>10, <1>11, <1>12, SameFire

LEMMA StopAllKeeps ==
  ASSUME IInv, StopAll
  PROVE  IInv'
<1> USE DEF IInv
<1>1. server = "serve" /\ tmMu = "free" /\ server' = "stop" /\ tmMu' = Server
      /\ todo' = {i \in Ids : triggers[i] # 0}
      /\ overlap' = (overlap \/ \E q \in Requests : ~Idle(q))
      /\ UNCHANGED <<row, used, triggers, next, runner, call, fire>>
  BY DEF StopAll, storeVars
<1>2. \A c \in Callers : Step(c) \notin {"starting", "stopping"}
  BY <1>1, LockFree
<1>3. Idle(Server) /\ \A r \in Runners : ~Starting(r)
  BY <1>1, ServerRests, LockFree
<1>4. TypeOK'
  BY <1>1, Constants, TypeOKParts DEF TypeOK, RowType, RunnerType, CallType, Steps, FireType
<1>5. NoOrphanRunner' /\ StoppedOnce'
  BY <1>1, <1>3 DEF NoOrphanRunner, StoppedOnce
<1>6. LockInv'
  BY <1>1, <1>2, <1>3, Constants DEF LockInv, Step, Idle
<1>7. MapInv'
  BY <1>1 DEF MapInv, Step, Id
<1>8. UsedInv'
  BY <1>1 DEF UsedInv, Id, Idle
<1>9. StopsInv'
  <2>1. \A i \in Ids : ~StoppedByAll(i) /\ (triggers'[i] # 0 => ~StoppedByAll(i)')
    BY <1>1 DEF StoppedByAll
  <2>2. Idle(Server)'
    BY <1>1, <1>3 DEF Idle
  <2>3. QED
    BY <1>1, <2>1, <2>2 DEF StopsInv
<1>10. StoppedInv'
  BY <1>1 DEF StoppedInv, Idle
<1>11. SerialInv'
  BY <1>1 DEF SerialInv
<1>12. QED
  BY <1>1, <1>4, <1>5, <1>6, <1>7, <1>8, <1>9, <1>10, <1>11, SameFire

LEMMA StopNextKeeps ==
  ASSUME IInv, NEW i \in Ids, StopNext(i)
  PROVE  IInv'
<1> USE DEF IInv
<1>1. server = "stop" /\ Idle(Server) /\ i \in todo /\ todo' = todo \ {i}
      /\ StopBegins(triggers[i])
      /\ UNCHANGED <<row, used, triggers, tmMu, next, server, overlap, fire>>
  BY DEF StopNext, storeVars
<1>2. tmMu = Server /\ tmMu # "free" /\ triggers[i] # 0 /\ triggers[i] \in Runners
  BY <1>1, MappedRunner, Constants DEF LockInv, StopsInv
<1>3. NoNewLife
  BY <1>1, <1>2, StopBeginsType
<1>4. (\A c \in Callers : Step(c) \notin {"starting", "stopping"})
      /\ \A r \in Runners : runner[r].live => triggers[runner[r].id] = r
  BY <1>1, <1>2, ServerAtRest
<1> DEFINE v == [call[Server] EXCEPT !.step = "stopping", !.id = i]
<1>5. v \in CallType(next) /\ v.step = "stopping" /\ v.id = i /\ call' = [call EXCEPT ![Server] = v]
  BY TypeOKParts, Constants DEF StopNext, CallType, Steps
<1> HIDE DEF v
<1>6. /\ call'[Server] = v /\ \A d \in Callers : d # Server => call'[d] = call[d]
      /\ call' \in [Callers -> CallType(next')]
  <2>1. next' \in 0..MaxRunners /\ next <= next' /\ v \in CallType(next')
    BY <1>1, <1>5, TypeOKParts, MappedRunner
  <2>2. QED
    BY <1>5, <2>1, CallBecomes, Constants
<1>7. Step(Server)' = "stopping" /\ Id(Server)' = i
      /\ \A d \in Callers : d # Server => Step(d)' = Step(d) /\ Id(d)' = Id(d) /\ (Idle(d)' <=> Idle(d))
  BY <1>5, <1>6 DEF Step, Id, Idle
<1>8. \A q \in Requests : Step(q)' = Step(q) /\ (Idle(q)' <=> Idle(q)) /\ q # Server
  BY <1>7, Constants
<1>9. \A j \in Ids : triggers[j] # 0 => triggers[j] \in Runners
  BY MappedRunner
<1>10. \A c \in Callers : Step(c)' # "starting" /\ (Step(c)' = "stopping" => c = Server)
  BY <1>4, <1>7
<1>11. TypeOK'
  <2>1. runner' \in [Runners -> RunnerType]
    BY <1>3 DEF NoNewLife
  <2>2. QED
    BY <1>1, <1>6, <2>1, TypeOKParts DEF TypeOK, RowType, RunnerType, CallType, Steps, FireType
<1>12. NoOrphanRunner' /\ StoppedOnce'
  BY <1>1, <1>3, <1>4 DEF NoOrphanRunner, StoppedOnce, NoNewLife
<1>13. LockInv'
  BY <1>1, <1>2, <1>4, <1>7, <1>8, <1>10, Constants DEF LockInv
<1>14. MapInv'
  BY <1>1, <1>2, <1>3, <1>7, <1>9, <1>10 DEF MapInv, NoNewLife
<1>15. StopsInv'
  <2>1. \A j \in Ids : StoppedByAll(j)' <=> (j # i /\ StoppedByAll(j))
    BY <1>1, <1>4, <1>7, Constants DEF StoppedByAll
  <2>2. ~StoppedByAll(i)
    BY <1>1 DEF StoppedByAll
  <2>3. \A j \in Ids : triggers[j] # 0 =>
          IF StoppedByAll(j)' THEN ~runner'[triggers[j]].live ELSE runner'[triggers[j]].stops = 0
    BY <1>3, <1>9, <2>1, <2>2 DEF StopsInv, NoNewLife
  <2>4. QED
    BY <1>1, <1>7, <2>3 DEF StopsInv
<1>16. UsedInv'
  BY <1>1, <1>7 DEF UsedInv
<1>17. StoppedInv'
  BY <1>1, <1>8 DEF StoppedInv
<1>18. SerialInv'
  BY <1>1 DEF SerialInv
<1>19. QED
  BY <1>1, <1>11, <1>12, <1>13, <1>14, <1>15, <1>16, <1>17, <1>18, SameFire

LEMMA StoppedNextKeeps ==
  ASSUME IInv, StoppedNext
  PROVE  IInv'
<1> USE DEF IInv
<1> DEFINE k == Id(Server)
           r == triggers[k]
<1>1. Step(Server) = "stopping" /\ StopEnds(r) /\ Goto(Server, "done") /\ Server \in Callers
      /\ UNCHANGED <<row, used, triggers, tmMu, next, server, todo, overlap, fire>>
  BY Constants DEF StoppedNext, storeVars, serverVars, Step
<1>2. server = "stop" /\ tmMu = Server /\ k \in Ids /\ k \notin todo /\ ~Idle(Server)
  BY <1>1, TypeOKParts DEF LockInv, StopsInv, CallType, Id, Idle, Step
<1>3. r # 0 /\ r \in Runners /\ ~(r > next)
  <2>1. r # 0
    BY <1>1, <1>2 DEF MapInv
  <2>2. r \in 0..next /\ next \in Nat
    BY <1>2, MappedRunner
  <2>3. \A a, b \in Nat : a \in 0..b => ~(a > b)
    OBVIOUS
  <2>4. QED
    BY <1>2, <2>1, <2>2, <2>3, MappedRunner
<1>4. /\ runner' \in [Runners -> RunnerType]
      /\ runner'[r].id = runner[r].id /\ runner'[r].type = runner[r].type
      /\ ~runner'[r].live /\ runner'[r].stops = runner[r].stops + 1
      /\ \A d \in Runners : d # r => runner'[d] = runner[d]
  BY <1>1, <1>3, StopEndsType
<1>5. runner[r].stops = 0
  <2>1. ~StoppedByAll(k)
    BY <1>1 DEF StoppedByAll
  <2>2. QED
    BY <1>2, <1>3, <2>1 DEF StopsInv
<1>6. /\ call'[Server].step = "done" /\ call' \in [Callers -> CallType(next')]
      /\ \A d \in Callers : d # Server => call'[d] = call[d]
  <2>1. "done" \in Steps /\ next' \in 0..MaxRunners /\ next <= next'
    BY <1>1, TypeOKParts, MappedRunner DEF Steps
  <2>2. QED
    BY <1>1, <2>1, GotoBecomes
<1>7. Step(Server)' = "done" /\ Idle(Server)'
      /\ \A d \in Callers : d # Server => Step(d)' = Step(d) /\ Id(d)' = Id(d) /\ (Idle(d)' <=> Idle(d))
  BY <1>6 DEF Step, Id, Idle
<1>8. \A q \in Requests : q # Server /\ Step(q) \notin {"starting", "stopping"}
  BY <1>2, Constants DEF LockInv
<1>9. \A c \in Callers : Step(c)' \notin {"starting", "stopping"}
  <2>1. \A c \in Callers : c = Server \/ c \in Requests
    BY DEF Callers
  <2>2. QED
    BY <1>7, <1>8, <2>1
<1>10. \A i \in Ids : /\ triggers[i] # 0 => triggers[i] \in Runners
                      /\ i # k /\ triggers[i] # 0 => runner'[triggers[i]] = runner[triggers[i]]
  <2>1. \A i \in Ids : i # k => triggers[i] # r
    BY <1>2, <1>3, MappedOnce
  <2>2. \A i \in Ids : triggers[i] # 0 => triggers[i] \in Runners
    BY MappedRunner
  <2>3. QED
    BY <1>4, <2>1, <2>2
<1> HIDE DEF r
<1>11. TypeOK'
  BY <1>1, <1>4, <1>6, TypeOKParts DEF TypeOK, RowType, RunnerType, CallType, Steps, FireType
<1>12. NoOrphanRunner'
  <2>1. \A d \in Runners : ~Starting(d)
    BY <1>1, <1>2 DEF Starting, Step
  <2>2. \A d \in Runners : runner'[d].live => runner'[d] = runner[d]
    BY <1>4
  <2>3. QED
    BY <1>1, <2>1, <2>2 DEF NoOrphanRunner
<1>13. StoppedOnce'
  BY <1>4, <1>5 DEF StoppedOnce
<1>14. LockInv'
  BY <1>1, <1>2, <1>7, <1>8, <1>9, Constants DEF LockInv
<1>15. MapInv'
  <2>1. \A d \in Runners : d > next => d # r
    BY <1>3
  <2>2. \A i \in Ids : triggers[i] # 0 => runner'[triggers[i]].id = i
    <3>1. \A d \in Runners : runner'[d].id = runner[d].id
      BY <1>4
    <3>2. QED
      BY <1>10, <3>1 DEF MapInv
  <2>3. QED
    BY <1>1, <1>4, <1>9, <2>1, <2>2 DEF MapInv
<1>16. StopsInv'
  <2>1. \A j \in Ids : j # k => (StoppedByAll(j)' <=> StoppedByAll(j))
    BY <1>1, <1>7 DEF StoppedByAll
  <2>2. \A j \in Ids : triggers'[j] # 0 =>
          IF StoppedByAll(j)' THEN ~runner'[triggers'[j]].live ELSE runner'[triggers'[j]].stops = 0
    <3>1. \A j \in Ids : j # k /\ triggers'[j] # 0 =>
            IF StoppedByAll(j)' THEN ~runner'[triggers'[j]].live ELSE runner'[triggers'[j]].stops = 0
      BY <1>1, <1>10, <2>1 DEF StopsInv
    <3>2. \A j \in Ids : j = k => StoppedByAll(j)' /\ ~runner'[triggers'[j]].live
      BY <1>1, <1>2, <1>4, <1>7 DEF StoppedByAll, r
    <3>3. QED
      BY <3>1, <3>2
  <2>3. QED
    BY <1>1, <1>7, <2>2 DEF StopsInv
<1>17. UsedInv'
  BY <1>1, <1>7 DEF UsedInv
<1>18. StoppedInv'
  BY <1>1, <1>7, <1>8, Constants DEF StoppedInv
<1>19. SerialInv'
  BY <1>1, <1>2 DEF SerialInv
<1>20. QED
  BY <1>1, <1>11, <1>12, <1>13, <1>14, <1>15, <1>16, <1>17, <1>18, <1>19, SameFire

LEMMA AllStoppedKeeps ==
  ASSUME IInv, AllStopped
  PROVE  IInv'
<1> USE DEF IInv
<1>1. server = "stop" /\ Idle(Server) /\ todo = {} /\ server' = "end" /\ tmMu' = "free"
      /\ triggers' = [i \in Ids |-> 0]
      /\ UNCHANGED <<row, used, next, runner, todo, overlap, call, fire>>
  BY DEF AllStopped, EmptyTriggers, storeVars
<1>2. tmMu = Server
  BY <1>1 DEF LockInv
<1>3. (\A c \in Callers : Step(c) \notin {"starting", "stopping"})
      /\ \A r \in Runners : runner[r].live => triggers[runner[r].id] = r
  BY <1>1, <1>2, ServerAtRest
<1>4. \A r \in Runners : ~runner[r].live
  <2>1. \A i \in Ids : StoppedByAll(i)
    BY <1>1, <1>3, Constants DEF StoppedByAll
  <2>2. \A r \in Runners : runner[r].id \in Ids /\ r # 0
    BY TypeOKParts, MappedRunner DEF RunnerType
  <2>3. QED
    BY <1>3, <2>1, <2>2 DEF StopsInv
<1>5. TypeOK'
  <2>1. triggers' \in [Ids -> 0..next']
    BY <1>1, MappedRunner
  <2>2. tmMu' \in Callers \cup {"free"} /\ server' \in {"load", "serve", "stop", "end"}
    BY <1>1
  <2>3. QED
    BY <1>1, <2>1, <2>2, TypeOKParts DEF TypeOK, RowType, RunnerType, CallType, Steps, FireType
<1>6. NoOrphanRunner' /\ StoppedOnce'
  BY <1>1, <1>4 DEF NoOrphanRunner, StoppedOnce
<1>7. LockInv'
  BY <1>1, <1>2, <1>3, Constants DEF LockInv, Step, Idle
<1>8. MapInv'
  BY <1>1, <1>3 DEF MapInv, Step
<1>9. StopsInv'
  BY <1>1 DEF StopsInv, Idle
<1>10. UsedInv' /\ StoppedInv'
  BY <1>1 DEF UsedInv, StoppedInv, Id, Idle
<1>11. SerialInv'
  BY <1>1 DEF SerialInv
<1>12. QED
  BY <1>1, <1>5, <1>6, <1>7, <1>8, <1>9, <1>10, <1>11, SameFire

-----------------------------------------------------------------------------
(* The invariant *)

LEMMA InitIInv == Init => IInv
<1> SUFFICES ASSUME Init PROVE IInv
  OBVIOUS
<1> USE DEF Init
<1>1. \A e \in {"none", "off", "on"}, k \in Types : Row(e, k) \in RowType
  BY RowInType
<1>2. row \in [Ids -> RowType] /\ used \subseteq Ids /\ todo \subseteq Ids
  BY <1>1
<1> DEFINE h == Handler("new", AnId)
<1>3. h \in CallType(0) /\ h.step = "new"
  BY HandlerType, Constants DEF Steps
<1>4. \A c \in Callers : call[c] = h
  OBVIOUS
<1> HIDE DEF h
<1>5. \A c \in Callers : Step(c) = "new" /\ Idle(c)
  BY <1>3, <1>4 DEF Step, Idle
<1>6. NoRunner \in RunnerType /\ ~NoRunner.live /\ NoRunner.stops = 0
  BY Constants DEF NoRunner, RunnerType
<1>7. \A r \in Runners : runner[r] = NoRunner
  OBVIOUS
<1>8. NoFire \in FireType /\ NoFire.step = "none"
  BY Constants DEF NoFire, FireType
<1>9. TypeOK
  <2>1. 0 \in 0..next /\ next \in 0..MaxRunners
    BY Constants
  <2>2. call \in [Callers -> CallType(next)]
    BY <1>3 DEF h
  <2>3. QED
    BY <1>2, <1>6, <1>8, <2>1, <2>2, TypeOKParts
<1>10. NoOrphanRunner /\ StoppedOnce
  BY <1>6, <1>7 DEF NoOrphanRunner, StoppedOnce
<1>11. LockInv
  BY <1>5, Constants DEF LockInv
<1>12. MapInv
  BY <1>5, <1>6, <1>7 DEF MapInv
<1>13. StopsInv /\ UsedInv
  BY <1>5, Constants DEF StopsInv, UsedInv
<1>14. SerialInv
  BY <1>5 DEF SerialInv, Agrees
<1>15. StoppedInv /\ OutcomesInv
  BY <1>8 DEF StoppedInv, OutcomesInv
<1>16. QED
  BY <1>9, <1>10, <1>11, <1>12, <1>13, <1>14, <1>15 DEF IInv

LEMMA RequestStepKeeps ==
  ASSUME IInv, NEW q \in Requests, RequestStep(q)
  PROVE  IInv'
<1>1. CASE Unregister(q)
  BY <1>1, NothingToStopKeeps, UnregisterKeeps
<1>2. CASE RegisterStep(q)
  BY <1>2, RegisterStepKeeps, Constants
<1>3. QED
  BY <1>1, <1>2, WriteRowKeeps, DeleteRowKeeps, UnregisteredKeeps, WebhookKeeps DEF RequestStep

LEMMA ServerStepKeeps ==
  ASSUME IInv, ServerStep
  PROVE  IInv'
<1>1. CASE RegisterStep(Server)
  BY <1>1, RegisterStepKeeps, Constants
<1>2. QED
  BY <1>1, LoadNextKeeps, LoadPanicsKeeps, StopNextKeeps, ServeKeeps, StoppedNextKeeps,
     AllStoppedKeeps
     DEF ServerStep

LEMMA StutterKeeps ==
  ASSUME IInv, UNCHANGED vars
  PROVE  IInv'
<1>1. UNCHANGED <<storeVars, triggers, tmMu, next, runner, serverVars, call, fire>>
  BY DEF vars, managerVars
<1>2. QED
  BY <1>1, SameRunner, SameFire, AsideKeeps DEF IInv

LEMMA NextIInv == IInv /\ [Next]_vars => IInv'
<1> SUFFICES ASSUME IInv, [Next]_vars PROVE IInv'
  OBVIOUS
<1>1. CASE \E q \in Requests : ClientStep(q) \/ RequestStep(q)
  BY <1>1, ClientStepKeeps, RequestStepKeeps
<1>2. CASE ServerStep \/ StopAll
  BY <1>2, ServerStepKeeps, StopAllKeeps
<1>3. CASE \E r \in Runners : RunnerStep(r) \/ CronJob(r)
  BY <1>3, RunnerStepKeeps
<1>4. CASE \E f \in Fires : FireStep(f) \/ EventReturns(f)
  BY <1>4, FireStepKeeps
<1>5. CASE UNCHANGED vars
  BY <1>5, StutterKeeps
<1>6. QED
  BY <1>1, <1>2, <1>3, <1>4, <1>5 DEF Next

\* Of the manager, main, the handlers and the triggers that fire, in whatever order their
\* steps fall: what the theorems below read off.
THEOREM Invariance == Spec => []IInv
BY InitIInv, NextIInv, PTL DEF Spec

\* Every variable keeps its type, and no row of trigger_executions says "running" (Fire).
THEOREM TypeCorrect == Spec => []TypeOK
<1>1. IInv => TypeOK
  BY DEF IInv
<1>2. QED
  BY <1>1, Invariance, PTL

\* No schedule, ticker or process runs that the map does not lead to, however handlers,
\* LoadTriggers and StopAll interleave: Register and Unregister take tm.mu before they
\* look the map up, and keep it until the map says what they did (trigger.go).
THEOREM NoOrphans == Spec => []NoOrphanRunner
<1>1. IInv => NoOrphanRunner
  BY DEF IInv
<1>2. QED
  BY <1>1, Invariance, PTL

\* Stop of a runner is called once at most, whoever calls it: Stop of an interval trigger
\* closes a channel, and StopAll empties the map (trigger.go).
THEOREM StoppedAtMostOnce == Spec => []StoppedOnce
<1>1. IInv => StoppedOnce
  BY DEF IInv
<1>2. QED
  BY <1>1, Invariance, PTL

\* Between requests that did not overlap, a trigger has a runner only if its row is
\* enabled, and one of the row's type (HandleUpdateTrigger, HandleDeleteTrigger).
THEOREM RowsAgree == Spec => []SerialAgreement
<1>1. IInv => SerialAgreement
  <2> SUFFICES ASSUME IInv, ~overlap, server = "serve", \A c \in Callers : Idle(c)
               PROVE  \A i \in Ids : triggers[i] # 0
                        => row[i].enabled = "on" /\ row[i].type = runner[triggers[i]].type
    BY DEF SerialAgreement
  <2>1. \A c \in Callers : Step(c) \notin {"unregister", "stopping"}
    BY DEF Idle, Step
  <2>2. QED
    BY <2>1 DEF IInv, SerialInv, Agrees
<1>2. QED
  BY <1>1, Invariance, PTL

\* Only the goroutine of Fire itself goes on to run its workflow, and only if it finds a
\* runner in the map.
LEMMA ExecutesWhatIsRegistered ==
  ASSUME TypeOK, [Next]_vars, NEW f \in Fires, fire[f].step = "lookup", fire'[f].step = "execute"
  PROVE  triggers[fire[f].id] # 0
<1>1. fire \in [Fires -> FireType]
  BY TypeOKParts
<1>2. ~UNCHANGED fire
  OBVIOUS
<1>3. ASSUME NEW i, NEW ctx, FireAny(i, ctx) PROVE FALSE
  <2>1. PICK g \in Fires : fire' = [fire EXCEPT ![g].step = "lookup", ![g].id = i, ![g].ctx = ctx]
    BY <1>2, <1>3 DEF FireAny, Fire
  <2>2. QED
    BY <1>1, <2>1 DEF FireType
<1>4. ASSUME NEW q \in Requests, ClientStep(q) \/ RequestStep(q) PROVE FALSE
  <2>1. ~ClientStep(q)
    BY <1>2 DEF ClientStep, Create, Update, Delete, Webhook, Begin
  <2>2. ~FireRequest(q)
    BY <1>3 DEF FireRequest
  <2>3. ~RegisterStep(q)
    BY <1>2 DEF RegisterStep, RegisterRefused, Register, StartProcess, NewRunner, StartSent,
                ProcessReady, ProcessNotReady
  <2>4. QED
    BY <1>2, <1>4, <2>1, <2>2, <2>3
       DEF RequestStep, WriteRow, DeleteRow, Unregister, Unregistered, FindRunner, CheckRow,
           Invoke, InvokeEnds, AnswerRequest
<1>5. ~(ServerStep \/ StopAll)
  BY <1>2 DEF ServerStep, LoadNext, StopNext, Serve, RegisterStep, RegisterRefused, Register,
              StartProcess, NewRunner, StartSent, ProcessReady, ProcessNotReady, LoadPanics,
              StoppedNext, AllStopped, StopAll
<1>6. ASSUME NEW r \in Runners, RunnerStep(r) \/ CronJob(r) PROVE FALSE
  BY <1>2, <1>3, <1>6 DEF RunnerStep, Tick, CronTick, ProcessDies, ProcessHangs, CronJob
<1>7. PICK g \in Fires : FireStep(g) \/ EventReturns(g)
  BY <1>2, <1>4, <1>5, <1>6 DEF Next, vars
<1>8. g = f /\ Lookup(f)
  BY <1>1, <1>7 DEF FireStep, Lookup, Execute, Record, EventReturns, Over, FireType
<1>9. QED
  <2>1. CASE triggers[fire[f].id] = 0
    <3> DEFINE v == [NoFire EXCEPT !.step = "over", !.records = {}]
    <3>1. v.step = "over"
      BY DEF NoFire
    <3>2. fire' = [fire EXCEPT ![f] = v]
      BY <1>8, <2>1 DEF Lookup, Over
    <3> HIDE DEF v
    <3>3. fire'[f] = v
      BY <1>1, <3>2
    <3>4. QED
      BY <3>1, <3>3
  <2>2. QED
    BY <2>1

\* Once StopAll has emptied the map, and no handler overlapped it, no call of Fire that
\* has still to look its trigger up gets to its workflow (Fire, StopAll).
THEOREM NothingRunsAfterStopAll == Spec => NothingRunsAfterStop
<1>1. IInv /\ [Next]_vars =>
        [\A f \in Fires : server = "end" /\ ~overlap /\ fire[f].step = "lookup"
           => fire'[f].step # "execute"]_vars
  <2> SUFFICES ASSUME IInv, [Next]_vars, NEW f \in Fires,
                      server = "end", ~overlap, fire[f].step = "lookup", fire'[f].step = "execute"
               PROVE  FALSE
    OBVIOUS
  <2>1. triggers[fire[f].id] # 0
    BY ExecutesWhatIsRegistered DEF IInv
  <2>2. fire[f].id \in Ids
    BY TypeOKParts DEF IInv, FireType
  <2>3. QED
    BY <2>1, <2>2 DEF IInv, StoppedInv
<1>2. QED
  BY <1>1, Invariance, PTL DEF Spec, NothingRunsAfterStop

-----------------------------------------------------------------------------
(***************************************************************************)
(* TriggerManager implements TriggerService.  A lemma for each kind of     *)
(* step says which step of TriggerService it is, if any.                   *)
(***************************************************************************)

(* What is in service, and what is being started *)

\* Nobody starts a process.
NoStart == \A c \in Callers : Step(c) # "starting"

LEMMA NothingStarts ==
  /\ TypeOK /\ NoStart => InStart = [i \in Ids |-> 0]
  /\ TypeOK' /\ NoStart' => InStart' = [i \in Ids |-> 0]
<1>1. TypeOK /\ NoStart => ~Starting(next)
  BY TypeOKParts DEF NoStart, Starting, Step
<1>2. TypeOK' /\ NoStart' => ~Starting(next)'
  <2>1. TypeOK' => tmMu' \in Callers \cup {"free"}
    BY DEF TypeOK
  <2>2. QED
    BY <2>1 DEF NoStart, Starting, Step
<1>3. QED
  BY <1>1, <1>2 DEF InStart

LEMMA OneStarts ==
  ASSUME IInv, NEW c \in Callers, Step(c) = "starting"
  PROVE  InStart = [i \in Ids |-> IF i = Id(c) THEN next ELSE 0]
<1>1. tmMu = c /\ Starting(next)
  BY Constants DEF IInv, LockInv, Starting, Step
<1>2. QED
  BY <1>1 DEF InStart

LEMMA SameInService ==
  ASSUME UNCHANGED triggers, \A i \in Ids : StoppedByAll(i)' = StoppedByAll(i)
  PROVE  UNCHANGED InService
BY DEF InService

\* While StopAll is not under way, the map says it all.
LEMMA MapInService ==
  ASSUME TypeOK, server # "stop"
  PROVE  InService = triggers
BY TypeOKParts DEF InService, StoppedByAll

\* A step that neither starts, stops nor registers anything
LEMMA SamePromise ==
  ASSUME TypeOK, TypeOK', UNCHANGED <<triggers, next, server, todo>>,
         server = "stop" => call'[Server] = call[Server],
         \/ NoStart /\ NoStart'
         \/ /\ tmMu' = tmMu
            /\ \A c \in Callers :
                 Step(c) = "starting" \/ Step(c)' = "starting" => call'[c] = call[c]
  PROVE  UNCHANGED <<InService, InStart, 1..next>>
<1>1. UNCHANGED InService
  <2>1. \A i \in Ids : StoppedByAll(i)' = StoppedByAll(i)
    BY DEF StoppedByAll, Step, Id
  <2>2. QED
    BY <2>1, SameInService
<1>2. CASE NoStart /\ NoStart'
  BY <1>1, <1>2, NothingStarts
<1>3. CASE /\ tmMu' = tmMu
           /\ \A c \in Callers :
                Step(c) = "starting" \/ Step(c)' = "starting" => call'[c] = call[c]
  <2>1. Starting(next)' <=> Starting(next)
    BY <1>3, TypeOKParts DEF Starting, Step
  <2>2. Starting(next) => Id(tmMu)' = Id(tmMu)
    BY <1>3, TypeOKParts DEF Starting, Step, Id
  <2>3. InStart' = InStart
    BY <2>1, <2>2 DEF InStart
  <2>4. QED
    BY <1>1, <2>3
<1>4. QED
  BY <1>2, <1>3

\* Its whole step, when no runner begins or ends to run, and when one ends
LEMMA NothingEnds ==
  ASSUME TypeOK, NoNewLife, \A r \in Runners : runner[r].live => runner'[r].live,
         UNCHANGED <<InService, InStart, 1..next>>
  PROVE  UNCHANGED Service!vars
<1>1. Stops' = Stops
  BY DEF NoNewLife, Stops
<1>2. Live' = Live
  BY DEF NoNewLife, Live
<1>3. QED
  BY <1>1, <1>2 DEF Service!vars

LEMMA OneEnds ==
  ASSUME TypeOK, NoNewLife, NEW r \in Runners,
         \A s \in Runners : s # r /\ runner[s].live => runner'[s].live,
         UNCHANGED <<InService, InStart, 1..next>>
  PROVE  Service!Next \/ UNCHANGED Service!vars
<1>1. CASE runner[r].live => runner'[r].live
  BY <1>1, NothingEnds
<1>2. CASE runner[r].live /\ ~runner'[r].live
  <2>1. Stops' = Stops
    BY DEF NoNewLife, Stops
  <2>2. Live' = Live \ {r}
    BY <1>2 DEF NoNewLife, Live
  <2>3. Service!End(r)
    BY <2>1, <2>2 DEF Service!End
  <2>4. QED
    BY <2>3 DEF Service!Next
<1>3. QED
  BY <1>1, <1>2

\* A handler that neither starts nor stops a runner
LEMMA HandlerPromise ==
  ASSUME IInv, IInv', NEW q \in Requests, Step(q) \notin {"starting", "stopping"},
         \A d \in Callers : d # q => call'[d] = call[d],
         UNCHANGED <<triggers, tmMu, next, server, todo>>
  PROVE  UNCHANGED <<InService, InStart, 1..next>>
<1>1. Step(q)' # "starting"
  <2>1. tmMu # q
    BY DEF IInv, LockInv
  <2>2. q \in Callers /\ (Step(q)' = "starting" => tmMu' = q)
    BY Constants DEF IInv, LockInv
  <2>3. QED
    BY <2>1, <2>2
<1>2. call'[Server] = call[Server]
  BY Constants
<1>3. \A c \in Callers : Step(c) = "starting" \/ Step(c)' = "starting" => call'[c] = call[c]
  BY <1>1
<1>4. QED
  BY <1>2, <1>3, SamePromise DEF IInv

LEMMA ClientPromise ==
  ASSUME IInv, IInv', NEW q \in Requests, ClientStep(q)
  PROVE  UNCHANGED Service!vars
<1>1. PICK fields : Begin(q, fields)
  <2>1. PICK i \in Ids : \/ Delete(q, i) \/ Webhook(q, i)
                         \/ \E k \in Types, e \in {"on", "off"} : Create(q, i, k, e) \/ Update(q, i, k, e)
    BY DEF ClientStep
  <2>2. QED
    BY <2>1 DEF Delete, Webhook, Create, Update
<1>2. /\ Step(q) = "new" /\ UNCHANGED <<triggers, tmMu, next, runner, server, todo>>
      /\ \A d \in Callers : d # q => call'[d] = call[d]
  BY <1>1, TypeOKParts DEF Begin, managerVars, Step, IInv
<1>3. UNCHANGED <<InService, InStart, 1..next>>
  BY <1>2, HandlerPromise
<1>4. QED
  BY <1>2, <1>3, SameRunner, NothingEnds DEF IInv

LEMMA RequestPromise ==
  ASSUME IInv, IInv', NEW q \in Requests,
         \/ WriteRow(q) \/ DeleteRow(q) \/ RegisterRefused(q) \/ FindRunner(q) \/ CheckRow(q)
         \/ FireRequest(q) \/ Invoke(q) \/ InvokeEnds(q) \/ AnswerRequest(q)
         \/ (Unregister(q) /\ triggers[Id(q)] = 0)
  PROVE  UNCHANGED Service!vars
<1>1. /\ Step(q) \notin {"starting", "stopping"}
      /\ UNCHANGED <<triggers, tmMu, next, server, todo>>
  BY DEF WriteRow, DeleteRow, RegisterRefused, FindRunner, CheckRow, FireRequest, Invoke,
         InvokeEnds, AnswerRequest, Unregister, managerVars, serverVars, Step
<1>2. \E v : call' = [call EXCEPT ![q] = v]
  <2>1. ASSUME NEW s, Goto(q, s) PROVE \E v : call' = [call EXCEPT ![q] = v]
    BY <2>1 DEF Goto
  <2>2. CASE WriteRow(q) \/ DeleteRow(q) \/ RegisterRefused(q)
    BY <2>1, <2>2 DEF WriteRow, DeleteRow, RegisterRefused
  <2>3. CASE FindRunner(q) \/ CheckRow(q) \/ FireRequest(q)
    BY <2>1, <2>3 DEF FindRunner, CheckRow, FireRequest
  <2>4. CASE Invoke(q) \/ InvokeEnds(q) \/ AnswerRequest(q)
    BY <2>1, <2>4 DEF Invoke, InvokeEnds, AnswerRequest
  <2>5. CASE Unregister(q) /\ triggers[Id(q)] = 0
    BY <2>1, <2>5 DEF Unregister
  <2>6. QED
    BY <2>2, <2>3, <2>4, <2>5
<1>3. UNCHANGED <<InService, InStart, 1..next>>
  <2>1. \A d \in Callers : d # q => call'[d] = call[d]
    BY <1>2, TypeOKParts DEF IInv
  <2>2. QED
    BY <1>1, <2>1, HandlerPromise
<1>4. /\ NoNewLife
      /\ \A r \in Runners : runner[r].live => runner'[r].live
  <2>1. CASE UNCHANGED runner
    BY <2>1, SameRunner DEF IInv
  <2>2. CASE \E b \in BOOLEAN : runner' = [runner EXCEPT ![call[q].got].invoked = b]
    <3> DEFINE r == call[q].got
    <3>1. CASE r \in Runners
      BY <2>2, <3>1, TypeOKParts DEF IInv, NoNewLife, RunnerType
    <3>2. CASE r \notin Runners
      <4>1. runner' = runner
        BY <2>2, <3>2, TypeOKParts DEF IInv
      <4>2. QED
        BY <4>1, SameRunner DEF IInv
    <3>3. QED
      BY <3>1, <3>2
  <2>3. QED
    BY <2>1, <2>2 DEF WriteRow, DeleteRow, RegisterRefused, FindRunner, CheckRow, FireRequest,
                      Invoke, InvokeEnds, AnswerRequest, Unregister, managerVars
<1>5. QED
  BY <1>3, <1>4, NothingEnds DEF IInv

\* Calls of Fire, ticks, jobs, and what becomes of a process
LEMMA AsidePromise ==
  ASSUME IInv, IInv',
         \/ \E f \in Fires : FireStep(f) \/ EventReturns(f)
         \/ \E r \in Runners : RunnerStep(r) \/ CronJob(r)
         \/ UNCHANGED vars
  PROVE  Service!Next \/ UNCHANGED Service!vars
<1>1. UNCHANGED <<triggers, tmMu, next, server, todo, call>>
  BY DEF FireStep, Lookup, Execute, Record, EventReturns, RunnerStep, Tick, CronTick, CronJob,
         ProcessDies, ProcessHangs, managerVars, serverVars, vars
<1>2. UNCHANGED <<InService, InStart, 1..next>>
  BY <1>1, SamePromise DEF IInv
<1>3. CASE UNCHANGED runner
  BY <1>2, <1>3, SameRunner, NothingEnds DEF IInv
<1>4. ASSUME NEW r \in Runners, \E b \in BOOLEAN : runner' = [runner EXCEPT ![r].job = b]
      PROVE  UNCHANGED Service!vars
  <2>1. NoNewLife /\ \A s \in Runners : runner[s].live => runner'[s].live
    BY <1>4, TypeOKParts DEF IInv, NoNewLife, RunnerType
  <2>2. QED
    BY <1>2, <2>1, NothingEnds DEF IInv
<1>5. ASSUME NEW r \in Runners, runner' = [runner EXCEPT ![r].hung = TRUE]
      PROVE  UNCHANGED Service!vars
  <2>1. NoNewLife /\ \A s \in Runners : runner[s].live => runner'[s].live
    BY <1>5, TypeOKParts DEF IInv, NoNewLife, RunnerType
  <2>2. QED
    BY <1>2, <2>1, NothingEnds DEF IInv
<1>6. ASSUME NEW r \in Runners, runner' = [runner EXCEPT ![r].live = FALSE]
      PROVE  Service!Next \/ UNCHANGED Service!vars
  <2>1. NoNewLife /\ \A s \in Runners : s # r /\ runner[s].live => runner'[s].live
    BY <1>6, TypeOKParts DEF IInv, NoNewLife, RunnerType
  <2>2. QED
    BY <1>2, <2>1, OneEnds DEF IInv
<1>7. QED
  BY <1>3, <1>4, <1>5, <1>6
     DEF FireStep, Lookup, Execute, Record, EventReturns, RunnerStep, Tick, CronTick, CronJob,
         ProcessDies, ProcessHangs, managerVars, vars

-----------------------------------------------------------------------------
(* Runners start and stop *)

LEMMA StopBeginsPromise ==
  ASSUME IInv, NEW r \in Runners, StopBegins(r), UNCHANGED <<InService, InStart, 1..next>>
  PROVE  Service!Next \/ UNCHANGED Service!vars
<1>1. \A s \in Runners : s # r /\ runner[s].live => runner'[s].live
  BY TypeOKParts DEF IInv, StopBegins
<1>2. NoNewLife
  BY StopBeginsType DEF IInv
<1>3. QED
  BY <1>1, <1>2, OneEnds DEF IInv

LEMMA StopEndsPromise ==
  ASSUME IInv, NEW i \in Ids, triggers[i] # 0, StopEnds(triggers[i]), ~StoppedByAll(i),
         InService' = [InService EXCEPT ![i] = 0], UNCHANGED <<InStart, 1..next>>
  PROVE  Service!Next
<1> DEFINE r == triggers[i]
<1>1. r \in Runners /\ InService[i] = r
  BY MappedRunner DEF IInv, InService
<1>2. /\ ~runner'[r].live /\ runner'[r].stops = runner[r].stops + 1
      /\ \A s \in Runners : s # r => runner'[s] = runner[s]
  BY <1>1, StopEndsType DEF IInv
<1>3. Live' = Live \ {r}
  BY <1>2 DEF Live
<1>4. Stops' = [Stops EXCEPT ![r] = @ + 1]
  BY <1>1, <1>2 DEF Stops
<1>5. Service!Stop(i)
  BY <1>1, <1>3, <1>4 DEF Service!Stop
<1>6. QED
  BY <1>5 DEF Service!Next

LEMMA UnregisterPromise ==
  ASSUME IInv, IInv', NEW q \in Requests, Unregister(q), triggers[Id(q)] # 0
  PROVE  Service!Next \/ UNCHANGED Service!vars
<1>1. /\ tmMu = "free" /\ StopBegins(triggers[Id(q)]) /\ Goto(q, "stopping")
      /\ UNCHANGED <<triggers, next, server, todo>>
  BY DEF Unregister, serverVars
<1>2. call' = [call EXCEPT ![q].step = "stopping"]
  BY <1>1 DEF Goto
<1>3. Step(q)' = "stopping" /\ \A d \in Callers : d # q => call'[d] = call[d]
  BY <1>2, Constants, TypeOKParts DEF IInv, Step, CallType
<1>4. NoStart /\ NoStart' /\ server # "stop"
  BY <1>1, <1>3, LockFree DEF NoStart, Step
<1>5. UNCHANGED <<InService, InStart, 1..next>>
  BY <1>1, <1>4, SamePromise DEF IInv
<1>6. triggers[Id(q)] \in Runners
  BY Constants, MappedRunner, TypeOKParts DEF IInv, CallType, Id
<1>7. QED
  BY <1>1, <1>5, <1>6, StopBeginsPromise

LEMMA UnregisteredPromise ==
  ASSUME IInv, IInv', NEW q \in Requests, Unregistered(q)
  PROVE  Service!Next
<1>1. /\ Step(q) = "stopping" /\ StopEnds(triggers[Id(q)]) /\ tmMu' = "free"
      /\ triggers' = [triggers EXCEPT ![Id(q)] = 0] /\ UNCHANGED <<next, server, todo>>
  BY DEF Unregistered, serverVars, Step
<1>2. /\ tmMu = q /\ q \in Callers /\ Id(q) \in Ids /\ server # "stop" /\ triggers[Id(q)] # 0
  BY <1>1, Constants, TypeOKParts DEF IInv, LockInv, MapInv, CallType, Id
<1>3. NoStart /\ NoStart'
  <2>1. NoStart
    BY <1>1, <1>2 DEF IInv, LockInv, NoStart
  <2>2. NoStart'
    BY <1>1, Constants DEF IInv, LockInv, NoStart
  <2>3. QED
    BY <2>1, <2>2
<1>4. InStart' = InStart
  BY <1>3, NothingStarts DEF IInv
<1>5. InService' = [InService EXCEPT ![Id(q)] = 0] /\ ~StoppedByAll(Id(q))
  BY <1>1, <1>2, TypeOKParts DEF InService, StoppedByAll, IInv
<1>6. QED
  BY <1>1, <1>2, <1>4, <1>5, StopEndsPromise

\* What the two kinds of start have in common
LEMMA FreshPromise ==
  ASSUME IInv, NEW c \in Callers, NewRunner(c)
  PROVE  /\ Id(c) \in Ids /\ next + 1 \in Runners /\ server # "stop" /\ NoStart
         /\ Service!Fresh(next + 1, Id(c))
         /\ Live' = IF call[c].type = "webhook" THEN Live ELSE Live \cup {next + 1}
<1> DEFINE n == next + 1
           i == Id(c)
<1>1. i \in Ids /\ triggers[i] = 0 /\ tmMu = "free" /\ next \in Nat /\ next < MaxRunners
      /\ next' = n /\ MaxRunners \in Nat
  BY Constants, TypeOKParts DEF IInv, NewRunner, NotRegistered, CallType, Id
<1>2. n \in Runners /\ n \notin 1..next /\ 1..n = 1..next \cup {n} /\ n > next
  BY <1>1 DEF Runners
<1>3. server # "stop" /\ NoStart
  BY <1>1, LockFree DEF NoStart
<1>4. InService[i] = 0 /\ InStart[i] = 0
  BY <1>1, <1>3, NothingStarts DEF InService, IInv
<1>5. /\ runner'[n].live = (call[c].type # "webhook") /\ runner'[n].stops = runner[n].stops
      /\ \A r \in Runners : r # n => runner'[r] = runner[r]
  BY <1>2, TypeOKParts DEF NewRunner, IInv, RunnerType
<1>6. Stops' = Stops
  BY <1>5 DEF Stops
<1>7. ~runner[n].live
  BY <1>2 DEF IInv, MapInv
<1>8. Live' = IF call[c].type = "webhook" THEN Live ELSE Live \cup {n}
  BY <1>2, <1>5, <1>7 DEF Live
<1>9. Service!Fresh(n, i)
  BY <1>1, <1>2, <1>4, <1>6 DEF Service!Fresh
<1>10. QED
  BY <1>1, <1>2, <1>3, <1>8, <1>9

LEMMA RegisterPromise ==
  ASSUME IInv, IInv', NEW c \in Callers, Register(c)
  PROVE  Service!Next
<1>1. /\ NewRunner(c) /\ triggers' = [triggers EXCEPT ![Id(c)] = next + 1]
      /\ tmMu' = "free" /\ UNCHANGED server
  BY DEF Register, NewRunner, serverVars
<1>2. /\ Id(c) \in Ids /\ next + 1 \in Runners /\ server # "stop" /\ NoStart
      /\ Service!Fresh(next + 1, Id(c)) /\ Live' \in {Live, Live \cup {next + 1}}
  BY <1>1, FreshPromise
<1>3. InService' = [InService EXCEPT ![Id(c)] = next + 1]
  BY <1>1, <1>2, TypeOKParts DEF IInv, InService, StoppedByAll
<1>4. InStart' = InStart
  <2>1. NoStart'
    BY <1>1, Constants DEF IInv, LockInv, NoStart
  <2>2. QED
    BY <1>2, <2>1, NothingStarts DEF IInv
<1>5. Service!Register(next + 1, Id(c))
  BY <1>2, <1>3, <1>4 DEF Service!Register
<1>6. QED
  BY <1>2, <1>5 DEF Service!Next

LEMMA StartProcessPromise ==
  ASSUME IInv, IInv', NEW c \in Callers, StartProcess(c)
  PROVE  Service!Next
<1>1. /\ NewRunner(c) /\ call[c].type = "typescript" /\ tmMu' = c
      /\ UNCHANGED <<triggers, server>> /\ Goto(c, "starting") /\ next' = next + 1
  BY DEF StartProcess, NewRunner, serverVars
<1>2. /\ Id(c) \in Ids /\ next + 1 \in Runners /\ server # "stop" /\ NoStart
      /\ Service!Fresh(next + 1, Id(c)) /\ Live' = Live \cup {next + 1}
  BY <1>1, FreshPromise
<1>3. InService' = InService
  BY <1>1, <1>2 DEF InService, StoppedByAll
<1>4. call'[c].step = "starting" /\ call'[c].id = call[c].id
  BY <1>1, TypeOKParts DEF Goto, IInv, CallType
<1>5. InStart' = [InStart EXCEPT ![Id(c)] = next + 1]
  <2>1. InStart = [j \in Ids |-> 0]
    BY <1>2, NothingStarts DEF IInv
  <2>2. InStart' = [j \in Ids |-> IF Id(c) = j THEN next + 1 ELSE 0]
    BY <1>1, <1>4, Constants DEF InStart, Starting, Id
  <2>3. QED
    BY <1>2, <2>1, <2>2
<1>6. Service!Begin(next + 1, Id(c))
  BY <1>2, <1>3, <1>5 DEF Service!Begin
<1>7. QED
  BY <1>2, <1>6 DEF Service!Next

LEMMA StartSentPromise ==
  ASSUME IInv, IInv', NEW c \in Callers, StartSent(c)
  PROVE  UNCHANGED Service!vars
<1>1. /\ NoNewLife /\ \A r \in Runners : runner[r].live => runner'[r].live
      /\ UNCHANGED <<triggers, tmMu, next, server, todo, call>>
  BY StartSentStep DEF serverVars
<1>2. UNCHANGED <<InService, InStart, 1..next>>
  BY <1>1, SamePromise DEF IInv
<1>3. QED
  BY <1>1, <1>2, NothingEnds DEF IInv

\* The end of a start: it holds tm.mu, and so it is the only one.
LEMMA StartEndsPromise ==
  ASSUME IInv, IInv', NEW c \in Callers, Step(c) = "starting", tmMu' = "free", UNCHANGED next
  PROVE  /\ Id(c) \in Ids /\ next \in Runners /\ next # 0 /\ server # "stop"
         /\ InStart[Id(c)] = next /\ InStart' = [InStart EXCEPT ![Id(c)] = 0]
<1>1. Id(c) \in Ids /\ next \in Runners /\ next # 0
  BY MappedRunner, TypeOKParts DEF IInv, MapInv, CallType, Id
<1>2. server # "stop"
  BY RegistersAlone
<1>3. InStart = [i \in Ids |-> IF i = Id(c) THEN next ELSE 0]
  BY OneStarts
<1>4. InStart' = [i \in Ids |-> 0]
  <2>1. NoStart'
    BY Constants DEF IInv, LockInv, NoStart
  <2>2. QED
    BY <2>1, NothingStarts DEF IInv
<1>5. QED
  BY <1>1, <1>2, <1>3, <1>4

LEMMA ProcessReadyPromise ==
  ASSUME IInv, IInv', NEW c \in Callers, ProcessReady(c)
  PROVE  Service!Next
<1>1. /\ Step(c) = "starting" /\ tmMu' = "free" /\ UNCHANGED <<next, server>>
      /\ triggers' = [triggers EXCEPT ![Id(c)] = next]
      /\ runner' = [runner EXCEPT ![next].ready = TRUE]
  BY DEF ProcessReady, serverVars, Step
<1>2. /\ Id(c) \in Ids /\ next \in Runners /\ next # 0 /\ server # "stop"
      /\ InStart[Id(c)] = next /\ InStart' = [InStart EXCEPT ![Id(c)] = 0]
  BY <1>1, StartEndsPromise
<1>3. InService' = [InService EXCEPT ![Id(c)] = next]
  BY <1>1, <1>2, TypeOKParts DEF IInv, InService, StoppedByAll
<1>4. Live' = Live /\ Stops' = Stops
  <2>1. \A r \in Runners : runner'[r].live = runner[r].live /\ runner'[r].stops = runner[r].stops
    BY <1>1, <1>2, TypeOKParts DEF IInv, RunnerType
  <2>2. QED
    BY <2>1 DEF Live, Stops
<1>5. Service!Ready(Id(c))
  BY <1>1, <1>2, <1>3, <1>4 DEF Service!Ready
<1>6. QED
  BY <1>2, <1>5 DEF Service!Next

LEMMA ProcessNotReadyPromise ==
  ASSUME IInv, IInv', NEW c \in Callers, ProcessNotReady(c)
  PROVE  Service!Next
<1>1. /\ Step(c) = "starting" /\ tmMu' = "free" /\ UNCHANGED <<triggers, next, server>>
      /\ runner' = [runner EXCEPT ![next].live = FALSE]
  BY DEF ProcessNotReady, serverVars, Step
<1>2. /\ Id(c) \in Ids /\ next \in Runners /\ next # 0 /\ server # "stop"
      /\ InStart[Id(c)] = next /\ InStart' = [InStart EXCEPT ![Id(c)] = 0]
  BY <1>1, StartEndsPromise
<1>3. InService' = InService
  BY <1>1, <1>2 DEF InService, StoppedByAll
<1>4. Live' = Live \ {next} /\ Stops' = Stops
  <2>1. /\ ~runner'[next].live /\ runner'[next].stops = runner[next].stops
        /\ \A r \in Runners : r # next => runner'[r] = runner[r]
    BY <1>1, <1>2, TypeOKParts DEF IInv, RunnerType
  <2>2. Live' = Live \ {next}
    BY <2>1 DEF Live
  <2>3. Stops' = Stops
    BY <2>1 DEF Stops
  <2>4. QED
    BY <2>2, <2>3
<1>5. Service!GiveUp(Id(c))
  BY <1>1, <1>2, <1>3, <1>4 DEF Service!GiveUp
<1>6. QED
  BY <1>2, <1>5 DEF Service!Next

\* main loads the table and serves.  StopAll takes the lock, and the map is as it was.
LEMMA ServerPromise ==
  ASSUME IInv, IInv',
         \/ \E i \in Ids : LoadNext(i)
         \/ Serve \/ RegisterRefused(Server) \/ LoadPanics \/ StopAll \/ AllStopped
  PROVE  UNCHANGED Service!vars
<1>1. UNCHANGED <<next, runner>>
  BY DEF LoadNext, Serve, RegisterRefused, LoadPanics, StopAll, AllStopped, managerVars
<1>2. InService' = InService
  <2>1. CASE server # "stop" /\ server' # "stop" /\ UNCHANGED triggers
    BY <2>1 DEF InService, StoppedByAll
  <2>2. CASE StopAll
    <3>1. /\ server # "stop" /\ todo' = {i \in Ids : triggers[i] # 0} /\ UNCHANGED triggers
      BY <2>2 DEF StopAll
    <3>2. \A i \in Ids : StoppedByAll(i)' => triggers[i] = 0
      BY <3>1 DEF StoppedByAll
    <3>3. \A i \in Ids : ~StoppedByAll(i)
      BY <3>1 DEF StoppedByAll
    <3>4. QED
      BY <3>1, <3>2, <3>3 DEF InService
  <2>3. CASE AllStopped
    <3>1. /\ server = "stop" /\ Idle(Server) /\ todo = {} /\ server' = "end"
          /\ triggers' = [i \in Ids |-> 0]
      BY <2>3 DEF AllStopped, EmptyTriggers
    <3>2. \A i \in Ids : StoppedByAll(i)
      BY <3>1 DEF StoppedByAll, Idle, Step
    <3>3. QED
      BY <3>1, <3>2 DEF InService, StoppedByAll
  <2>4. CASE (\E i \in Ids : LoadNext(i)) \/ Serve \/ RegisterRefused(Server) \/ LoadPanics
    <3>1. UNCHANGED triggers /\ server' \in {server, "serve", "crashed"}
      BY <2>4 DEF LoadNext, Serve, RegisterRefused, LoadPanics, managerVars, serverVars
    <3>2. RegisterRefused(Server) \/ LoadPanics => server # "stop"
      BY LockFree DEF RegisterRefused, LoadPanics
    <3>3. server # "stop" /\ server' # "stop"
      BY <2>4, <3>1, <3>2 DEF LoadNext, Serve
    <3>4. QED
      BY <2>1, <3>1, <3>3
  <2>5. QED
    BY <2>2, <2>3, <2>4
<1>3. InStart' = InStart
  <2>1. NoStart
    <3>1. CASE StopAll \/ RegisterRefused(Server) \/ LoadPanics
      BY <3>1, LockFree DEF StopAll, RegisterRefused, LoadPanics, NoStart
    <3>2. CASE AllStopped \/ Serve \/ \E i \in Ids : LoadNext(i)
      <4>1. Idle(Server) /\ server \in {"load", "stop"}
        BY <3>2 DEF AllStopped, Serve, LoadNext
      <4>2. \A c \in Callers : c = Server \/ c \in Requests
        BY DEF Callers
      <4>3. QED
        BY <4>1, <4>2, Constants DEF IInv, LockInv, NoStart, Idle, Step
    <3>3. QED
      BY <3>1, <3>2
  <2>2. NoStart'
    <3>1. ASSUME NEW c \in Callers, call'[c] = call[c] PROVE Step(c)' # "starting"
      BY <2>1, <3>1 DEF NoStart, Step
    <3>2. CASE StopAll \/ AllStopped \/ Serve
      BY <3>1, <3>2 DEF StopAll, AllStopped, Serve, NoStart
    <3>3. ASSUME NEW i \in Ids, LoadNext(i) PROVE NoStart'
      <4>1. call'[Server].step = "register" /\ \A c \in Callers : c # Server => call'[c] = call[c]
        BY <3>3, Constants, TypeOKParts DEF LoadNext, IInv, Handler
      <4>2. QED
        BY <3>1, <4>1 DEF NoStart, Step
    <3>4. CASE RegisterRefused(Server) \/ LoadPanics
      <4>1. call'[Server].step = "done" /\ \A c \in Callers : c # Server => call'[c] = call[c]
        BY <3>4, Constants, TypeOKParts DEF RegisterRefused, LoadPanics, Goto, IInv, Handler
      <4>2. QED
        BY <3>1, <4>1 DEF NoStart, Step
    <3>5. QED
      BY <3>2, <3>3, <3>4
  <2>3. QED
    BY <2>1, <2>2, NothingStarts DEF IInv
<1>4. QED
  BY <1>1, <1>2, <1>3 DEF Service!vars, Live, Stops

LEMMA StopNextPromise ==
  ASSUME IInv, IInv', NEW i \in Ids, StopNext(i)
  PROVE  Service!Next \/ UNCHANGED Service!vars
<1>1. /\ server = "stop" /\ Idle(Server) /\ i \in todo /\ todo' = todo \ {i}
      /\ StopBegins(triggers[i]) /\ UNCHANGED <<server, triggers, tmMu, next>>
      /\ call' = [call EXCEPT ![Server].step = "stopping", ![Server].id = i]
  BY DEF StopNext
<1>2. /\ call'[Server].step = "stopping" /\ call'[Server].id = i
      /\ \A c \in Callers : c # Server => call'[c] = call[c]
  BY <1>1, Constants, TypeOKParts DEF IInv, CallType
<1>3. \A j \in Ids : StoppedByAll(j)' = StoppedByAll(j)
  BY <1>1, <1>2 DEF StoppedByAll, Idle, Step, Id
<1>4. NoStart /\ NoStart'
  <2>1. \A c \in Callers : c = Server \/ c \in Requests
    BY DEF Callers
  <2>2. NoStart
    BY <1>1, <2>1, Constants DEF IInv, LockInv, NoStart, Idle, Step
  <2>3. NoStart'
    BY <1>2, <2>2 DEF NoStart, Step
  <2>4. QED
    BY <2>2, <2>3
<1>5. UNCHANGED <<InService, InStart, 1..next>>
  BY <1>1, <1>3, <1>4, SameInService, NothingStarts DEF IInv
<1>6. triggers[i] \in Runners
  BY <1>1, MappedRunner DEF IInv, StopsInv
<1>7. QED
  BY <1>1, <1>5, <1>6, StopBeginsPromise

LEMMA StoppedNextPromise ==
  ASSUME IInv, IInv', StoppedNext
  PROVE  Service!Next
<1> PICK i \in Ids : i = Id(Server)
  BY Constants, TypeOKParts DEF IInv, CallType, Id
<1>1. /\ Step(Server) = "stopping" /\ StopEnds(triggers[i]) /\ Goto(Server, "done")
      /\ UNCHANGED <<triggers, next, server, todo>>
  BY DEF StoppedNext, serverVars, Step
<1>2. /\ server = "stop" /\ triggers[i] # 0 /\ i \notin todo
  BY <1>1, Constants, TypeOKParts DEF IInv, LockInv, MapInv, StopsInv, Idle, Step
<1>3. call'[Server].step = "done" /\ \A c \in Callers : c # Server => call'[c] = call[c]
  BY <1>1, Constants, TypeOKParts DEF Goto, IInv, Handler
<1>4. /\ ~StoppedByAll(i) /\ StoppedByAll(i)'
      /\ \A j \in Ids : j # i => (StoppedByAll(j)' <=> StoppedByAll(j))
  <2>1. ~StoppedByAll(i)
    BY <1>1 DEF StoppedByAll
  <2>2. \A j \in Ids : StoppedByAll(j)' <=> j \notin todo
    BY <1>1, <1>2, <1>3 DEF StoppedByAll, Step
  <2>3. \A j \in Ids : j # i => (StoppedByAll(j) <=> j \notin todo)
    BY <1>2 DEF StoppedByAll
  <2>4. QED
    BY <1>2, <2>1, <2>2, <2>3 DEF StoppedByAll
<1>5. InService' = [InService EXCEPT ![i] = 0]
  BY <1>1, <1>2, <1>4 DEF InService
<1>6. InStart' = InStart
  <2>1. \A c \in Callers : c = Server \/ c \in Requests
    BY DEF Callers
  <2>2. NoStart
    BY <1>1, <1>2, <2>1, Constants DEF IInv, LockInv, NoStart
  <2>3. NoStart'
    BY <1>3, <2>2 DEF NoStart, Step
  <2>4. QED
    BY <2>2, <2>3, NothingStarts DEF IInv
<1>7. QED
  BY <1>1, <1>2, <1>4, <1>5, <1>6, StopEndsPromise

-----------------------------------------------------------------------------
LEMMA InitService == Init => Service!Init
<1> SUFFICES ASSUME Init PROVE Service!Init
  OBVIOUS
<1>1. InService = [i \in Ids |-> 0]
  BY DEF Init, InService
<1>2. InStart = [i \in Ids |-> 0]
  BY DEF Init, InStart, Starting
<1>3. 1..next = {} /\ Live = {} /\ Stops = [r \in Runners |-> 0]
  BY DEF Init, Live, Stops, NoRunner
<1>4. QED
  BY <1>1, <1>2, <1>3 DEF Service!Init

LEMMA NextService == IInv /\ [Next]_vars => [Service!Next]_(Service!vars)
<1> SUFFICES ASSUME IInv, [Next]_vars PROVE Service!Next \/ UNCHANGED Service!vars
  OBVIOUS
<1>1. IInv'
  BY NextIInv
<1>2. ASSUME NEW q \in Requests, ClientStep(q) \/ RequestStep(q)
      PROVE  Service!Next \/ UNCHANGED Service!vars
  <2>1. q \in Callers
    BY Constants
  <2>2. QED
    BY <1>1, <1>2, <2>1, ClientPromise, RequestPromise, RegisterPromise, StartProcessPromise,
       StartSentPromise, ProcessReadyPromise, ProcessNotReadyPromise, UnregisterPromise, UnregisteredPromise
       DEF RequestStep, RegisterStep
<1>3. CASE ServerStep \/ StopAll
  BY <1>1, <1>3, Constants, ServerPromise, StopNextPromise, StoppedNextPromise, RegisterPromise,
     StartProcessPromise, StartSentPromise, ProcessReadyPromise, ProcessNotReadyPromise
     DEF ServerStep, RegisterStep
<1>4. CASE \/ \E f \in Fires : FireStep(f) \/ EventReturns(f)
           \/ \E r \in Runners : RunnerStep(r) \/ CronJob(r)
           \/ UNCHANGED vars
  BY <1>1, <1>4, AsidePromise
<1>5. QED
  BY <1>2, <1>3, <1>4 DEF Next

\* The manager keeps the promise of TriggerService: a trigger has one runner at a time, it
\* runs only while it is being started or is in the map, and is stopped once at most,
\* whatever handlers, LoadTriggers and StopAll do at the same time.
THEOREM Refinement == Spec => ImplementsTriggerService
BY InitService, NextService, Invariance, PTL DEF Spec, ImplementsTriggerService, Service!Spec
=============================================================================
