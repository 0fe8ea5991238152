----------------------------- MODULE TaskLedger -----------------------------
(***************************************************************************)
(* What PersistentQueue promises of a task: a record that outlasts the     *)
(* process, and work that is done only while a copy of the task is in      *)
(* memory, which may be lost at any time.  The record may lag behind what  *)
(* was done, and be set back, but is never ahead of it and never vanishes. *)
(* Without a copy nothing is done and nothing is recorded, and only a      *)
(* pending record leads to a new copy: one that says completed or failed   *)
(* is final then, and so is one that says running.                         *)
(***************************************************************************)
EXTENDS Naturals

CONSTANTS Tasks, MaxRetries

VARIABLES
  record,     \* [Tasks -> status and attempts]
  inMemory,   \* tasks of which there is a copy
  succeeded,  \* tasks that were executed with success
  failures    \* [Tasks -> executions that failed, counted up to MaxRetries + 1]

vars == <<record, inMemory, succeeded, failures>>

Records ==
  [status : {"pending", "running", "completed", "failed"}, attempts : 0..(MaxRetries + 1)]

Init ==
  /\ record = [t \in Tasks |-> [status |-> "none", attempts |-> 0]]
  /\ inMemory = {}
  /\ succeeded = {} /\ failures = [t \in Tasks |-> 0]

Submit(t) ==
  /\ record[t].status = "none"
  /\ record' = [record EXCEPT ![t] = [status |-> "pending", attempts |-> 0]]
  /\ inMemory' = inMemory \cup {t}
  /\ UNCHANGED <<succeeded, failures>>

Load ==
  /\ \E S \in SUBSET {t \in Tasks : record[t].status = "pending"} : inMemory' = inMemory \cup S
  /\ UNCHANGED <<record, succeeded, failures>>

Lose ==
  /\ \E S \in SUBSET inMemory : inMemory' = inMemory \ S
  /\ UNCHANGED <<record, succeeded, failures>>

Succeed(t) ==
  /\ t \in inMemory
  /\ succeeded' = succeeded \cup {t}
  /\ UNCHANGED <<record, inMemory, failures>>

Fail(t) ==
  /\ t \in inMemory /\ failures[t] <= MaxRetries
  /\ failures' = [failures EXCEPT ![t] = @ + 1]
  /\ UNCHANGED <<record, inMemory, succeeded>>

Earned(t, r) ==
  /\ r.attempts <= failures[t]
  /\ r.status = "completed" => t \in succeeded
  /\ r.status = "failed" => failures[t] = MaxRetries + 1

\* The copy that is recorded may be the last
Write(t) ==
  /\ t \in inMemory
  /\ \E r \in Records : Earned(t, r) /\ record' = [record EXCEPT ![t] = r]
  /\ inMemory' \in {inMemory, inMemory \ {t}}
  /\ UNCHANGED <<succeeded, failures>>

Next ==
  \/ Load \/ Lose
  \/ \E t \in Tasks : Submit(t) \/ Succeed(t) \/ Fail(t) \/ Write(t)

Spec == Init /\ [][Next]_vars
=============================================================================
