--------------------------- MODULE TriggerManager ---------------------------
(***************************************************************************)
(* The trigger manager (src/internal/engine/trigger.go), the rows of the   *)
(* triggers table, and the HTTP handlers that change both                  *)
(* (src/internal/api/triggers.go).  A handler changes the row and the      *)
(* runner in separate steps, so that two requests, the loading of the      *)
(* table at start-up, StopAll and the firing of triggers interleave        *)
(* between them.  tm.mu is held while a runner starts or stops.            *)
(*                                                                         *)
(* A configuration is its type and whether its runner can start.  Requests *)
(* that are refused before they change anything are left out, and so are   *)
(* those that only read.  A TypeScript trigger's process is the            *)
(* environment: it says that it is ready, or fails, or stays silent, and   *)
(* it may die, or stop reading its input so that the pipe is full and a    *)
(* write to it blocks, under tm.mu, tr.mu or both.                         *)
(***************************************************************************)
EXTENDS Integers, FiniteSets

CONSTANTS
  Ids,             \* trigger ids
  Types,           \* of "cron", "interval", "webhook" and "typescript"
  Requests,        \* HTTP requests
  Fires,           \* bound: calls of Fire that are followed
  MaxRunners,      \* bound: runners that get to their Start
  StoreMayFail,    \* may a storage call fail?
  ProcessMayHang   \* may a TypeScript trigger stop reading its input?

ASSUME SetsAssumption ==
  /\ IsFiniteSet(Ids) /\ IsFiniteSet(Requests) /\ IsFiniteSet(Fires)
  /\ Ids # {} /\ Types # {}
  /\ Types \subseteq {"cron", "interval", "webhook", "typescript"}
  /\ {"free", "server", "background", "event", "ended"} \cap Requests = {}
ASSUME BoundsAssumption ==
  /\ MaxRunners \in Nat
  /\ StoreMayFail \in BOOLEAN /\ ProcessMayHang \in BOOLEAN

Runners == 1..MaxRunners
Server  == "server"             \* the goroutine in main, as a caller of the manager
Callers == Requests \cup {Server}

VARIABLES
  row,       \* [Ids -> enabled ("none" when there is no row), type]
  used,      \* ids that have been given out
  triggers,  \* tm.triggers: [Ids -> runner, 0 for none]
  tmMu,      \* the caller that holds tm.mu for writing, or "free"
  next,      \* number of runners so far
  runner,    \* [Runners -> id; type; live: its schedule, ticker or process runs; told: the
             \* start message is written; ready: isReady; invoked: tr.mu is held by
             \* Invoke; hung: the pipe to the process is full; job: a cron job is
             \* running; stops: calls of Stop]
  server,    \* "load", "serve", "stop" or "end"; "crashed" when the process has ended
  todo,      \* triggers LoadTriggers or StopAll has still to go through
  call,      \* [Callers -> step of the handler; id; type and enabled, from the request
             \* or the row; was: Enabled as Update read it; then: the step after
             \* Unregister; got: the runner HandleWebhook found]
  overlap,   \* did a handler begin, or StopAll, while another handler was under way?
  fire       \* [Fires -> step of the goroutine; id; ctx: "background", "event" (until
             \* Fire has returned), "ended", or the request; outcome; records: statuses
             \* of its rows in trigger_executions]

storeVars   == <<row, used>>
managerVars == <<triggers, tmMu, next, runner>>
serverVars  == <<server, todo, overlap>>
vars        == <<storeVars, managerVars, serverVars, call, fire>>

AnId   == CHOOSE i \in Ids : TRUE
AType  == CHOOSE k \in Types : TRUE

\* A call at a step; what it no longer needs is forgotten
Handler(s, i) ==
  [step |-> s, id |-> i, type |-> AType, enabled |-> "off", was |-> "none",
   then |-> "done", got |-> 0]
Goto(c, s) ==
  call' = [call EXCEPT ![c] =
             IF s = "done" THEN Handler("done", AnId) ELSE [@ EXCEPT !.step = s]]
Step(c)    == call[c].step
Id(c)      == call[c].id
Idle(c)    == call[c].step \in {"new", "done"}

-----------------------------------------------------------------------------
(* Create, Update and Delete *)

\* A handler begins, with its path and its body
Begin(q, fields) ==
  /\ server = "serve" /\ call[q].step = "new"
  /\ call' = [call EXCEPT ![q] = fields]
  /\ overlap' = (overlap \/ \E c \in Requests : ~Idle(c))
  /\ UNCHANGED <<server, todo, managerVars, fire>>

\* The type of a trigger that is not enabled decides nothing
Row(e, k) == [enabled |-> e, type |-> IF e = "on" THEN k ELSE AType]

\* The row is inserted, and its trigger registered if it is enabled
Create(q, i, k, e) ==
  /\ i \notin used
  /\ row' = [row EXCEPT ![i] = Row(e, k)]
  /\ used' = used \cup {i}
  /\ Begin(q, IF e = "on" THEN [Handler("register", i) EXCEPT !.type = k]
                          ELSE Handler("done", AnId))

\* Update begins by reading the row
Update(q, i, k, e) ==
  /\ row[i].enabled # "none"
  /\ Begin(q, [Handler("write", i) EXCEPT !.type = Row(e, k).type, !.enabled = e,
                                       !.was = row[i].enabled])
  /\ UNCHANGED storeVars

\* Faulty variant: a trigger that stays enabled keeps its runner
AfterWriteOnChange(q) ==
  LET enabled == call[q].enabled
      was     == call[q].was
  IN  CASE was = "on"  /\ enabled = "off" -> <<"unregister", "done">>
        [] was = "off" /\ enabled = "on"  -> <<"register", "done">>
        [] OTHER                          -> <<"done", "done">>

\* What Update does with the runner: its next step, and the one after Unregister
AfterWrite(q) ==
  LET enabled == call[q].enabled
      was     == call[q].was
  IN  CASE was = "on"  /\ enabled = "off" -> <<"unregister", "done">>
        [] was = "off" /\ enabled = "on"  -> <<"register", "done">>
        [] was = "on"  /\ enabled = "on"  -> <<"unregister", "register">>
        [] OTHER                          -> <<"done", "done">>

\* UpdateTrigger, which fails when the row is gone by now
WriteRow(q) ==
  /\ call[q].step = "write"
  /\ \/ /\ row[Id(q)].enabled # "none"
        /\ row' = [row EXCEPT ![Id(q)] = Row(call[q].enabled, call[q].type)]
        /\ IF AfterWrite(q)[1] = "done"
             THEN Goto(q, "done")
             ELSE call' = [call EXCEPT ![q] =
                    [Handler(AfterWrite(q)[1], Id(q)) EXCEPT
                       !.then = AfterWrite(q)[2], !.type = call[q].type]]
     \/ /\ row[Id(q)].enabled = "none" \/ StoreMayFail
        /\ Goto(q, "done")
        /\ UNCHANGED row
  /\ UNCHANGED <<used, managerVars, serverVars, fire>>

Delete(q, i) ==
  /\ i \in used
  /\ Begin(q, [Handler("unregister", i) EXCEPT !.then = "deleteRow"])
  /\ UNCHANGED storeVars

DeleteRow(q) ==
  /\ call[q].step = "deleteRow"
  /\ \/ row' = [row EXCEPT ![Id(q)] = Row("none", AType)]
     \/ StoreMayFail /\ UNCHANGED row
  /\ Goto(q, "done")
  /\ UNCHANGED <<used, managerVars, serverVars, fire>>

-----------------------------------------------------------------------------
(* Register, by a handler or by LoadTriggers *)

\* Faulty variant: the map is not looked at
RegisterAnyway(c) == TRUE

NotRegistered(c) == triggers[Id(c)] = 0

\* "trigger already registered", a configuration without its fields, or a Start that
\* fails before anything runs.  The handler only prints a warning; when NewTicker panics,
\* net/http recovers, and tm.mu is unlocked by then.
RegisterRefused(c) ==
  /\ call[c].step = "register" /\ tmMu = "free"
  /\ Goto(c, "done")
  /\ UNCHANGED <<storeVars, managerVars, serverVars, fire>>

\* The next runner, with its schedule, ticker or process; a webhook has none
NewRunner(c) ==
  /\ call[c].step = "register" /\ tmMu = "free" /\ NotRegistered(c) /\ next < MaxRunners
  /\ next' = next + 1
  /\ runner' = [runner EXCEPT ![next + 1].id = Id(c), ![next + 1].type = call[c].type,
                              ![next + 1].live = call[c].type # "webhook"]
  /\ UNCHANGED <<storeVars, serverVars, fire>>

\* Start of a trigger of this process
Register(c) ==
  /\ call[c].type # "typescript"
  /\ NewRunner(c)
  /\ triggers' = [triggers EXCEPT ![Id(c)] = next + 1]
  /\ Goto(c, "done")
  /\ UNCHANGED tmMu

\* NewTicker panics for an interval of less than a second, and nothing recovers main
LoadPanics ==
  /\ Step(Server) = "register" /\ call[Server].type = "interval"
  /\ tmMu = "free" /\ NotRegistered(Server)
  /\ server' = "crashed"
  /\ Goto(Server, "done")
  /\ UNCHANGED <<todo, overlap, storeVars, managerVars, fire>>

\* TSTriggerRunner.Start up to the write of the start message, with tm.mu held
StartProcess(c) ==
  /\ call[c].type = "typescript"
  /\ NewRunner(c)
  /\ tmMu' = c
  /\ Goto(c, "starting")
  /\ UNCHANGED triggers

\* A write blocks while the pipe is full, and fails with EPIPE when the process is dead
WriteReturns(r) == ~(runner[r].hung /\ runner[r].live)

\* The start message is written; no timeout is set yet
StartSent(c) ==
  /\ call[c].step = "starting" /\ ~runner[next].told /\ WriteReturns(next)
  /\ runner' = [runner EXCEPT ![next].told = TRUE]
  /\ UNCHANGED <<storeVars, triggers, tmMu, next, serverVars, call, fire>>

\* The reader got a status message that says ready
ProcessReady(c) ==
  /\ call[c].step = "starting" /\ runner[next].told
  /\ runner' = [runner EXCEPT ![next].ready = TRUE]
  /\ triggers' = [triggers EXCEPT ![Id(c)] = next]
  /\ tmMu' = "free"
  /\ Goto(c, "done")
  /\ UNCHANGED <<storeVars, next, serverVars, fire>>

\* The write has failed, or there was an error message, or ten seconds without any: the
\* process is killed
ProcessNotReady(c) ==
  /\ call[c].step = "starting" /\ (runner[next].told \/ ~runner[next].live)
  /\ runner' = [runner EXCEPT ![next].live = FALSE]
  /\ tmMu' = "free"
  /\ Goto(c, "done")
  /\ UNCHANGED <<storeVars, triggers, next, serverVars, fire>>

-----------------------------------------------------------------------------
(* Unregister *)

\* Stop begins: cron.Stop ends the schedule, the others do not yet change
StopBegins(r) ==
  runner' = [runner EXCEPT ![r].live = @ /\ runner[r].type # "cron"]

\* What it waits for: the jobs of the schedule; tr.mu, and room in the pipe for the kill
\* message (the process is then killed after five seconds at most)
StopMayEnd(r) == ~runner[r].job /\ ~runner[r].invoked /\ WriteReturns(r)

StopEnds(r) ==
  /\ StopMayEnd(r)
  /\ runner' = [runner EXCEPT ![r].live = FALSE, ![r].ready = FALSE, ![r].hung = FALSE,
                              ![r].stops = @ + 1]

Unregister(q) ==
  /\ call[q].step = "unregister" /\ tmMu = "free"
  /\ IF triggers[Id(q)] = 0
       THEN Goto(q, call[q].then) /\ UNCHANGED <<tmMu, runner>>
       ELSE tmMu' = q /\ StopBegins(triggers[Id(q)]) /\ Goto(q, "stopping")
  /\ UNCHANGED <<storeVars, triggers, next, serverVars, fire>>

Unregistered(q) ==
  /\ q # Server /\ call[q].step = "stopping" /\ StopEnds(triggers[Id(q)])
  /\ triggers' = [triggers EXCEPT ![Id(q)] = 0]
  /\ tmMu' = "free"
  /\ Goto(q, call[q].then)
  /\ UNCHANGED <<storeVars, next, serverVars, fire>>

-----------------------------------------------------------------------------
(* main: LoadTriggers before the server listens, StopAll when it has ended *)

\* The next of the rows that ListAllTriggers found
LoadNext(i) ==
  /\ server = "load" /\ Idle(Server) /\ i \in todo
  /\ todo' = todo \ {i}
  /\ call' = [call EXCEPT ![Server] =
               [Handler("register", i) EXCEPT !.type = row[i].type]]
  /\ UNCHANGED <<server, overlap, storeVars, managerVars, fire>>

Serve ==
  /\ server = "load" /\ Idle(Server) /\ todo = {}
  /\ server' = "serve"
  /\ UNCHANGED <<todo, overlap, call, storeVars, managerVars, fire>>

\* A signal, and StopAll takes tm.mu.  Shutdown of the HTTP server waits thirty seconds
\* for the requests, which may go on after that.
StopAll ==
  /\ server = "serve" /\ tmMu = "free"
  /\ server' = "stop"
  /\ tmMu' = Server
  /\ todo' = {i \in Ids : triggers[i] # 0}
  /\ overlap' = (overlap \/ \E q \in Requests : ~Idle(q))
  /\ UNCHANGED <<call, storeVars, triggers, next, runner, fire>>

StopNext(i) ==
  /\ server = "stop" /\ Idle(Server) /\ i \in todo
  /\ todo' = todo \ {i}
  /\ StopBegins(triggers[i])
  /\ call' = [call EXCEPT ![Server].step = "stopping", ![Server].id = i]
  /\ UNCHANGED <<server, overlap, storeVars, triggers, tmMu, next, fire>>

StoppedNext ==
  /\ call[Server].step = "stopping" /\ StopEnds(triggers[Id(Server)])
  /\ Goto(Server, "done")
  /\ UNCHANGED <<storeVars, triggers, tmMu, next, serverVars, fire>>

\* Faulty variant: the stopped runners stay in the map
KeptTriggers == triggers

\* tm.triggers = make(map[string]TriggerRunner)
EmptyTriggers == [i \in Ids |-> 0]

AllStopped ==
  /\ server = "stop" /\ Idle(Server) /\ todo = {}
  /\ server' = "end"
  /\ triggers' = EmptyTriggers
  /\ tmMu' = "free"
  /\ UNCHANGED <<todo, overlap, call, storeVars, next, runner, fire>>

-----------------------------------------------------------------------------
(* Triggers fire *)

NoFire ==
  [step |-> "none", id |-> AnId, ctx |-> "background", outcome |-> "none", records |-> {}]

\* Fire starts a goroutine and returns
Fire(f, i, ctx) ==
  /\ fire[f].step = "none"
  /\ fire' = [fire EXCEPT ![f].step = "lookup", ![f].id = i, ![f].ctx = ctx]

\* At most one call per member of Fires is followed
FireAny(i, ctx) == UNCHANGED fire \/ \E f \in Fires : Fire(f, i, ctx)

\* A ticker's goroutine, or the reader of a process's messages
Tick(r) ==
  /\ runner[r].live /\ runner[r].type \in {"interval", "typescript"}
  /\ FireAny(runner[r].id, IF runner[r].type = "interval" THEN "background" ELSE "event")
  /\ UNCHANGED <<storeVars, managerVars, serverVars, call>>

\* The schedule starts a job, which Stop waits for
CronTick(r) ==
  /\ runner[r].live /\ runner[r].type = "cron" /\ ~runner[r].job
  /\ runner' = [runner EXCEPT ![r].job = TRUE]
  /\ UNCHANGED <<storeVars, triggers, tmMu, next, serverVars, call, fire>>

\* Faulty variant: the job looks the trigger up itself
JobLooksUp == tmMu = "free"

\* The job only starts a goroutine, and waits for nothing
JobRuns == TRUE

CronJob(r) ==
  /\ runner[r].job /\ JobRuns
  /\ runner' = [runner EXCEPT ![r].job = FALSE]
  /\ FireAny(runner[r].id, "background")
  /\ UNCHANGED <<storeVars, triggers, tmMu, next, serverVars, call>>

\* The goroutine that called Fire for an event cancels its context
EventReturns(f) ==
  /\ fire[f].ctx = "event"
  /\ fire' = [fire EXCEPT ![f].ctx = "ended"]
  /\ UNCHANGED <<storeVars, managerVars, serverVars, call>>

\* A request's context ends with its handler
ContextLive(f) ==
  IF fire[f].ctx \in Requests THEN ~Idle(fire[f].ctx) ELSE fire[f].ctx # "ended"

Over(f, statuses) == [fire EXCEPT ![f] = [NoFire EXCEPT !.step = "over", !.records = statuses]]

\* The goroutine of Fire: GetTrigger of the manager, whose runner is not used
Lookup(f) ==
  /\ fire[f].step = "lookup" /\ tmMu = "free"
  /\ fire' = IF triggers[fire[f].id] = 0 THEN Over(f, {}) ELSE [fire EXCEPT ![f].step = "execute"]
  /\ UNCHANGED <<storeVars, managerVars, serverVars, call>>

\* GetTrigger of the store, GetWorkflow, parsing, and Run of the workflow. It may fail in
\* many ways, and cannot succeed without the row and a context.
Execute(f) ==
  /\ fire[f].step = "execute"
  /\ \E o \in {"success", "failed"} :
       /\ o = "success" => row[fire[f].id].enabled # "none" /\ ContextLive(f)
       /\ fire' = [fire EXCEPT ![f].step = "record", ![f].outcome = o]
  /\ UNCHANGED <<storeVars, managerVars, serverVars, call>>

\* Faulty variant: the status is not set again after the run
RecordedAsStarted(f) == "running"

RecordedStatus(f) == fire[f].outcome

\* CreateTriggerExecution, whose error is not looked at
Record(f) ==
  /\ fire[f].step = "record"
  /\ \/ ContextLive(f)
        /\ fire' = Over(f, fire[f].records \cup {RecordedStatus(f)})
     \/ (~ContextLive(f) \/ StoreMayFail) /\ fire' = Over(f, fire[f].records)
  /\ UNCHANGED <<storeVars, managerVars, serverVars, call>>

-----------------------------------------------------------------------------
(* HandleWebhook, and a process that takes what it is sent *)

Webhook(q, i) ==
  /\ i \in used
  /\ Begin(q, Handler("find", i))
  /\ UNCHANGED storeVars

\* GetTrigger of the manager
FindRunner(q) ==
  /\ call[q].step = "find" /\ tmMu = "free"
  /\ IF triggers[Id(q)] = 0
       THEN Goto(q, "done")
       ELSE call' = [call EXCEPT ![q].step = "check", ![q].got = triggers[Id(q)]]
  /\ UNCHANGED <<storeVars, managerVars, serverVars, fire>>

\* GetTrigger of the store, and the checks of its row
CheckRow(q) ==
  LET accepted == row[Id(q)].enabled = "on" /\ row[Id(q)].type \in {"webhook", "typescript"} IN
  /\ call[q].step = "check"
  /\ \/ accepted /\ Goto(q, "deliver")
     \/ (~accepted \/ StoreMayFail) /\ Goto(q, "done")
  /\ UNCHANGED <<storeVars, managerVars, serverVars, fire>>

\* By now the runner it found may have been replaced
FireRequest(q) ==
  /\ call[q].step = "deliver" /\ runner[call[q].got].type # "typescript"
  /\ FireAny(Id(q), q)
  /\ Goto(q, "answer")
  /\ UNCHANGED <<storeVars, managerVars, serverVars>>

\* Invoke takes tr.mu and writes to the pipe, unless the runner was stopped
Invoke(q) ==
  LET r == call[q].got IN
  /\ call[q].step = "deliver" /\ runner[r].type = "typescript" /\ ~runner[r].invoked
  /\ IF runner[r].ready
       THEN runner' = [runner EXCEPT ![r].invoked = TRUE] /\ Goto(q, "invoke")
       ELSE UNCHANGED runner /\ Goto(q, "done")
  /\ UNCHANGED <<storeVars, triggers, tmMu, next, serverVars, fire>>

\* The write returns
InvokeEnds(q) ==
  LET r == call[q].got IN
  /\ call[q].step = "invoke" /\ WriteReturns(r)
  /\ runner' = [runner EXCEPT ![r].invoked = FALSE]
  /\ Goto(q, "done")
  /\ UNCHANGED <<storeVars, triggers, tmMu, next, serverVars, fire>>

\* The handler that fired returns, which ends the request's context
AnswerRequest(q) ==
  /\ call[q].step = "answer"
  /\ Goto(q, "done")
  /\ UNCHANGED <<storeVars, managerVars, serverVars, fire>>

ProcessDies(r) ==
  /\ runner[r].live /\ runner[r].type = "typescript"
  /\ runner' = [runner EXCEPT ![r].live = FALSE]
  /\ UNCHANGED <<storeVars, triggers, tmMu, next, serverVars, call, fire>>

\* It may stop before it has read its start message
ProcessHangs(r) ==
  /\ ProcessMayHang /\ runner[r].live /\ runner[r].type = "typescript" /\ ~runner[r].hung
  /\ runner' = [runner EXCEPT ![r].hung = TRUE]
  /\ UNCHANGED <<storeVars, triggers, tmMu, next, serverVars, call, fire>>

-----------------------------------------------------------------------------

NoRunner ==
  [id |-> AnId, type |-> AType, live |-> FALSE, told |-> FALSE, ready |-> FALSE,
   invoked |-> FALSE, hung |-> FALSE, job |-> FALSE, stops |-> 0]

\* The table as an earlier process left it; LoadTriggers has read it
Init ==
  /\ row \in [Ids -> {Row(e, k) : e \in {"none", "off", "on"}, k \in Types}]
  /\ used = {i \in Ids : row[i].enabled # "none"}
  /\ triggers = [i \in Ids |-> 0]
  /\ tmMu = "free"
  /\ next = 0
  /\ runner = [r \in Runners |-> NoRunner]
  /\ server = "load"
  /\ todo = {i \in Ids : row[i].enabled = "on"}
  /\ call = [c \in Callers |-> Handler("new", AnId)]
  /\ overlap = FALSE
  /\ fire = [f \in Fires |-> NoFire]

\* What goes on by itself once it has begun
RegisterStep(c) ==
  \/ RegisterRefused(c) \/ Register(c)
  \/ StartProcess(c) \/ StartSent(c) \/ ProcessReady(c) \/ ProcessNotReady(c)
RequestStep(q) ==
  \/ WriteRow(q) \/ DeleteRow(q) \/ RegisterStep(q) \/ Unregister(q) \/ Unregistered(q)
  \/ FindRunner(q) \/ CheckRow(q) \/ FireRequest(q) \/ Invoke(q) \/ InvokeEnds(q)
  \/ AnswerRequest(q)
ServerStep ==
  \/ \E i \in Ids : LoadNext(i) \/ StopNext(i)
  \/ Serve \/ RegisterStep(Server) \/ LoadPanics \/ StoppedNext \/ AllStopped
FireStep(f) == Lookup(f) \/ Execute(f) \/ Record(f)

\* What others decide
ClientStep(q) ==
  \E i \in Ids :
    \/ Delete(q, i) \/ Webhook(q, i)
    \/ \E k \in Types, e \in {"on", "off"} : Create(q, i, k, e) \/ Update(q, i, k, e)
RunnerStep(r) == Tick(r) \/ CronTick(r) \/ ProcessDies(r) \/ ProcessHangs(r)

Next ==
  \/ \E q \in Requests : ClientStep(q) \/ RequestStep(q)
  \/ ServerStep \/ StopAll
  \/ /\ server # "crashed"
     /\ \/ \E r \in Runners : RunnerStep(r) \/ CronJob(r)
        \/ \E f \in Fires : FireStep(f) \/ EventReturns(f)

\* The scheduler runs handlers, main and cron jobs; requests, signals and ticks need never
\* come.  Every handler has finitely many steps, so that fairness to all of them together
\* is as much as fairness to each.
HandlerStep == ServerStep \/ \E q \in Requests : RequestStep(q)
Jobs        == server # "crashed" /\ \E r \in Runners : CronJob(r)
Fairness    == WF_vars(HandlerStep) /\ WF_vars(Jobs)

Spec == Init /\ [][Next]_vars /\ Fairness

-----------------------------------------------------------------------------

Starting(r) == tmMu # "free" /\ call[tmMu].step = "starting" /\ r = next

\* What StopAll has been through, and leaves in the map until it has been through everything
StoppedByAll(i) ==
  server = "stop" /\ i \notin todo /\ ~(Step(Server) = "stopping" /\ Id(Server) = i)

\* What the manager promises is TriggerService
InService == [i \in Ids |-> IF StoppedByAll(i) THEN 0 ELSE triggers[i]]
InStart   == [i \in Ids |-> IF Starting(next) /\ Id(tmMu) = i THEN next ELSE 0]
Live      == {r \in Runners : runner[r].live}
Stops     == [r \in Runners |-> runner[r].stops]

Service == INSTANCE TriggerService WITH
  Triggers <- Ids, registered <- InService, starting <- InStart,
  spent <- 1..next, live <- Live, stops <- Stops

\* Every variable has its type.  A row of trigger_executions says success or failed,
\* never running, which is what Fire starts with.
TypeOK ==
  /\ row \in [Ids -> [enabled : {"none", "off", "on"}, type : Types]]
  /\ used \subseteq Ids /\ todo \subseteq Ids
  /\ triggers \in [Ids -> 0..next] /\ next \in 0..MaxRunners
  /\ tmMu \in Callers \cup {"free"}
  /\ runner \in [Runners -> [id : Ids, type : Types, live : BOOLEAN, told : BOOLEAN,
       ready : BOOLEAN, invoked : BOOLEAN, hung : BOOLEAN, job : BOOLEAN, stops : Nat]]
  /\ server \in {"load", "serve", "stop", "end", "crashed"}
  /\ call \in [Callers -> [step : {"new", "write", "deleteRow", "register", "starting",
       "unregister", "stopping", "find", "check", "deliver", "invoke", "answer", "done"},
       id : Ids, type : Types, enabled : {"on", "off"}, was : {"none", "on", "off"},
       then : {"done", "register", "deleteRow"}, got : 0..next]]
  /\ overlap \in BOOLEAN
  /\ fire \in [Fires -> [step : {"none", "lookup", "execute", "record", "over"},
       id : Ids, ctx : Requests \cup {"background", "event", "ended"},
       outcome : {"none", "success", "failed"}, records : SUBSET {"success", "failed"}]]

\* A schedule, ticker or process that runs can be stopped: its runner is the one in the
\* map, or it is being started by the caller that holds tm.mu.  Otherwise nothing could
\* ever end it (Register, Unregister and StopAll).
NoOrphanRunner ==
  \A r \in Runners : runner[r].live => triggers[runner[r].id] = r \/ Starting(r)

\* No runner is stopped twice: Stop of an interval trigger closes a channel, and closing
\* it again would end the process, even by a handler that outlives StopAll.
StoppedOnce == \A r \in Runners : runner[r].stops <= 1

\* As long as handlers have not overlapped, and none is under way, a trigger has a runner
\* only if its row is enabled, and the runner is of the row's type (Update, Delete).
SerialAgreement ==
  ~overlap /\ server = "serve" /\ (\A c \in Callers : Idle(c))
    => \A i \in Ids : triggers[i] # 0
         => row[i].enabled = "on" /\ row[i].type = runner[triggers[i]].type

\* After StopAll, which no handler overlapped, a goroutine of Fire that has not yet looked
\* its trigger up does not run the workflow any more: the worker pool is being shut down.
NothingRunsAfterStop ==
  [][\A f \in Fires : server = "end" /\ ~overlap /\ fire[f].step = "lookup"
       => fire'[f].step # "execute"]_vars

\* The manager keeps that promise, however handlers, LoadTriggers and StopAll interleave: a
\* trigger gets a runner only when it has none, what runs is being started or in service,
\* and a runner is stopped when it is taken out and never again, although StopAll leaves
\* what it stopped in the map until the end (Register, Unregister, StopAll).
ImplementsTriggerService == Service!Spec

\* A process that stops reading reads on, or dies, sooner or later
PipesAreRead == \A r \in Runners : []<>WriteReturns(r)

\* If no pipe stays full for ever, every handler returns, LoadTriggers returns or panics,
\* and StopAll returns: from some point on, since there are finitely many calls, nobody
\* waits for tm.mu, tr.mu or a cron job, none of which is held while its holder waits for
\* another (Register, Unregister, Invoke, Stop).
CallsReturn ==
  PipesAreRead => <>[](server \notin {"load", "stop"} /\ \A q \in Requests : Idle(q))

-----------------------------------------------------------------------------
(* The invariant behind the proofs *)

\* Who holds tm.mu: a caller that starts or stops a runner, or main in StopAll; and main
\* registers before it serves and stops after it.
LockInv ==
  /\ \A c \in Callers : Step(c) = "starting" => tmMu = c
  /\ \A q \in Requests : Step(q) = "stopping" => tmMu = q
  /\ \A q \in Requests : tmMu = q => Step(q) \in {"starting", "stopping"}
  /\ server = "stop" => tmMu = Server
  /\ tmMu = Server => server = "stop" \/ Step(Server) = "starting"
  /\ Step(Server) \in {"new", "register", "starting", "stopping", "done"}
  /\ Step(Server) \in {"register", "starting"} => server = "load"
  /\ Step(Server) = "stopping" => server = "stop"
  /\ server = "load" => \A q \in Requests : Step(q) = "new"

\* A runner is in the map under its own id, and only if it was not stopped, except by the
\* StopAll under way; the one that starts is the last one and not in the map yet.
MapInv ==
  /\ \A i \in Ids : triggers[i] # 0 => runner[triggers[i]].id = i
  /\ \A c \in Callers : Step(c) = "starting" =>
       /\ next \in Runners /\ runner[next].id = Id(c) /\ runner[next].type = call[c].type
       /\ runner[next].stops = 0 /\ triggers[Id(c)] = 0
       /\ \A i \in Ids : triggers[i] # next
  /\ \A c \in Callers : Step(c) = "stopping" => triggers[Id(c)] # 0
  /\ \A r \in Runners : r > next => ~runner[r].live /\ runner[r].stops = 0

\* What StopAll has been through does not run any more; nothing else in the map was stopped.
StopsInv ==
  /\ \A i \in Ids : triggers[i] # 0 =>
       IF StoppedByAll(i) THEN ~runner[triggers[i]].live ELSE runner[triggers[i]].stops = 0
  /\ server = "stop" => \A i \in todo : triggers[i] # 0
  /\ ~Idle(Server) => Id(Server) \notin todo

\* An id with a row, a runner or a handler has been given out; CreateTrigger draws others.
UsedInv ==
  /\ \A i \in Ids : row[i].enabled # "none" \/ triggers[i] # 0 => i \in used
  /\ \A c \in Callers : ~Idle(c) => Id(c) \in used
  /\ todo \subseteq used

\* Row and runner of a trigger that no handler is changing
Agrees(i) ==
  triggers[i] # 0 => row[i].enabled = "on" /\ row[i].type = runner[triggers[i]].type

\* While callers do not overlap, only the one under way may find a runner beside a row
\* that is not its own, and it is about to stop it; what it registers is what the row says.
SerialInv ==
  ~overlap /\ server \in {"load", "serve"} =>
    /\ \A c, d \in Callers : ~Idle(c) /\ ~Idle(d) => c = d
    /\ \A i \in Ids : Agrees(i) \/ \E c \in Callers : Step(c) \in {"unregister", "stopping"} /\ Id(c) = i
    /\ \A c \in Callers :
         /\ Step(c) \in {"register", "starting"}
              \/ (Step(c) \in {"unregister", "stopping"} /\ call[c].then = "register")
            => row[Id(c)] = [enabled |-> "on", type |-> call[c].type]
         /\ Step(c) \in {"register", "starting", "deleteRow"} => triggers[Id(c)] = 0
         /\ Step(c) = "write" => call[c].was = row[Id(c)].enabled
    /\ server = "load" => \A i \in todo : row[i].enabled = "on" /\ triggers[i] = 0

\* After a StopAll that no handler overlapped, nobody registers any more.
StoppedInv ==
  ~overlap =>
    /\ server \in {"stop", "end"} => \A q \in Requests : Idle(q)
    /\ server = "end" => \A i \in Ids : triggers[i] = 0

\* What Record writes has been set
OutcomesInv == \A f \in Fires : fire[f].step = "record" => fire[f].outcome # "none"

IInv ==
  /\ TypeOK /\ NoOrphanRunner /\ StoppedOnce
  /\ LockInv /\ MapInv /\ StopsInv /\ UsedInv /\ SerialInv /\ StoppedInv /\ OutcomesInv
=============================================================================
