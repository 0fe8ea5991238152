------------------------------ MODULE Dataflow ------------------------------
(***************************************************************************)
(* What executing a workflow promises, whatever schedules it: a node       *)
(* starts once, after everything it depends on is done, and the execution  *)
(* is concluded as a success only when nothing failed, nothing is under    *)
(* way and nothing more could start.                                       *)
(***************************************************************************)
CONSTANTS Nodes, Workflows

VARIABLES
  edges,    \* the workflow: <<source, target>> pairs
  started,  \* nodes whose execution was begun
  done,     \* nodes executed
  failed,   \* nodes that gave up
  verdict   \* "none", "ok" or "error"

vars == <<edges, started, done, failed, verdict>>

Sources(n) == {d \in Nodes : <<d, n>> \in edges}

Init ==
  /\ edges \in Workflows
  /\ started = {} /\ done = {} /\ failed = {} /\ verdict = "none"

Start(n) ==
  /\ verdict = "none"
  /\ n \notin started
  /\ Sources(n) \subseteq done
  /\ started' = started \cup {n}
  /\ UNCHANGED <<edges, done, failed, verdict>>

Succeed(n) ==
  /\ n \in started \ (done \cup failed)
  /\ done' = done \cup {n}
  /\ UNCHANGED <<edges, started, failed, verdict>>

Fail(n) ==
  /\ n \in started \ (done \cup failed)
  /\ failed' = failed \cup {n}
  /\ UNCHANGED <<edges, started, done, verdict>>

ConcludeOk ==
  /\ verdict = "none"
  /\ started = done /\ failed = {}
  /\ \A n \in Nodes : Sources(n) \subseteq done => n \in started
  /\ verdict' = "ok"
  /\ UNCHANGED <<edges, started, done, failed>>

ConcludeError ==
  /\ verdict = "none"
  /\ verdict' = "error"
  /\ UNCHANGED <<edges, started, done, failed>>

Next ==
  \/ \E n \in Nodes : Start(n) \/ Succeed(n) \/ Fail(n)
  \/ ConcludeOk \/ ConcludeError

Spec == Init /\ [][Next]_vars
=============================================================================
