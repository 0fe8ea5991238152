-------------------------- MODULE ExecutionRecord --------------------------
(***************************************************************************)
(* What a client of the runtime may count on: the record of an execution   *)
(* goes one way, from running to one terminal status to deleted; whoever   *)
(* waits for the execution is told once, and after its last status was     *)
(* written; and when the storage is closed no record changes any more.     *)
(* Writes may fail: an execution may be over and told of without a record, *)
(* or with one that says running for ever.                                 *)
(***************************************************************************)
EXTENDS Naturals

CONSTANT Executions

VARIABLES
  record,  \* [Executions -> status, or "none" or "deleted"]
  told,    \* [Executions -> how often its end was told]
  open     \* may the storage still be written?

vars == <<record, told, open>>

Ended == {"completed", "failed", "cancelled"}

Init ==
  /\ record = [e \in Executions |-> "none"]
  /\ told = [e \in Executions |-> 0]
  /\ open = TRUE

\* A write of the record
Write(e, s) ==
  /\ open
  /\ record' = [record EXCEPT ![e] = s]
  /\ UNCHANGED <<told, open>>

Begin(e)  == record[e] = "none" /\ told[e] = 0 /\ Write(e, "running")
End(e)    == record[e] = "running" /\ told[e] = 0 /\ \E s \in Ended : Write(e, s)
Delete(e) == record[e] \in Ended /\ Write(e, "deleted")

Tell(e) ==
  /\ told[e] = 0
  /\ told' = [told EXCEPT ![e] = 1]
  /\ UNCHANGED <<record, open>>

Close ==
  /\ open
  /\ open' = FALSE
  /\ UNCHANGED <<record, told>>

Next == Close \/ \E e \in Executions : Begin(e) \/ End(e) \/ Delete(e) \/ Tell(e)

Spec == Init /\ [][Next]_vars
=============================================================================
