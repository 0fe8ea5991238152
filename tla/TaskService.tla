---------------------------- MODULE TaskService ----------------------------
(***************************************************************************)
(* What a caller of WorkerPool.Submit may count on: its block is performed *)
(* at most once, it is answered at most once, with the data of its own     *)
(* block or with an error, and data comes only from a block that ran.  An  *)
(* error or a caller that gave up says nothing about the block: it may be  *)
(* performed all the same, also later.                                     *)
(***************************************************************************)
CONSTANT Tasks

VARIABLES
  request,    \* [Tasks -> "new", "accepted" or "over"], the call of Submit
  answer,     \* [Tasks -> "none", "error" or the task whose data it is]
  performed   \* [Tasks -> how often a worker ran its block to the end]

vars == <<request, answer, performed>>

Init ==
  /\ request = [t \in Tasks |-> "new"]
  /\ answer = [t \in Tasks |-> "none"]
  /\ performed = [t \in Tasks |-> 0]

Accept(t) ==
  /\ request[t] = "new"
  /\ request' = [request EXCEPT ![t] = "accepted"]
  /\ UNCHANGED <<answer, performed>>

Perform(t) ==
  /\ request[t] # "new" /\ performed[t] = 0
  /\ performed' = [performed EXCEPT ![t] = 1]
  /\ UNCHANGED <<request, answer>>

Answer(t) ==
  /\ request[t] # "new" /\ answer[t] = "none"
  /\ \/ answer' = [answer EXCEPT ![t] = "error"]
     \/ performed[t] = 1 /\ answer' = [answer EXCEPT ![t] = t]
  /\ UNCHANGED <<request, performed>>

\* The caller has its answer, or does not wait for it any more
Leave(t) ==
  /\ request[t] # "over"
  /\ request' = [request EXCEPT ![t] = "over"]
  /\ UNCHANGED <<answer, performed>>

Next == \E t \in Tasks : Accept(t) \/ Perform(t) \/ Answer(t) \/ Leave(t)

Spec == Init /\ [][Next]_vars
=============================================================================
