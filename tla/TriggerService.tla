--------------------------- MODULE TriggerService ---------------------------
(***************************************************************************)
(* What the trigger manager promises of its runners: a trigger has one at  *)
(* a time, a runner serves one trigger once, its schedule, ticker or       *)
(* process runs only while it is being started or is registered, and it is *)
(* stopped once at most, when it is taken out.  A process may end before   *)
(* that.                                                                   *)
(***************************************************************************)
EXTENDS Naturals

CONSTANTS Triggers, Runners

VARIABLES
  registered,  \* [Triggers -> its runner, 0 for none]
  starting,    \* [Triggers -> the runner being started, 0 for none]
  spent,       \* runners that have been used
  live,        \* runners whose schedule, ticker or process runs
  stops        \* [Runners -> how often it was stopped]

vars == <<registered, starting, spent, live, stops>>

Init ==
  /\ registered = [i \in Triggers |-> 0]
  /\ starting = [i \in Triggers |-> 0]
  /\ spent = {}
  /\ live = {}
  /\ stops = [r \in Runners |-> 0]

\* A runner nobody has used yet, for a trigger that has none
Fresh(r, i) ==
  /\ r \notin spent /\ registered[i] = 0 /\ starting[i] = 0
  /\ spent' = spent \cup {r}
  /\ UNCHANGED stops

\* A start that is over at once; nothing runs for a webhook
Register(r, i) ==
  /\ Fresh(r, i)
  /\ registered' = [registered EXCEPT ![i] = r]
  /\ live' = live \/ live' = live \cup {r}
  /\ UNCHANGED starting

\* A start that takes time
Begin(r, i) ==
  /\ Fresh(r, i)
  /\ starting' = [starting EXCEPT ![i] = r]
  /\ live' = live \cup {r}
  /\ UNCHANGED registered

Ready(i) ==
  /\ starting[i] # 0
  /\ starting' = [starting EXCEPT ![i] = 0]
  /\ registered' = [registered EXCEPT ![i] = starting[i]]
  /\ UNCHANGED <<spent, live, stops>>

GiveUp(i) ==
  /\ starting[i] # 0
  /\ starting' = [starting EXCEPT ![i] = 0]
  /\ live' = live \ {starting[i]}
  /\ UNCHANGED <<registered, spent, stops>>

\* By itself, or as the first part of being stopped
End(r) ==
  /\ live' = live \ {r}
  /\ UNCHANGED <<registered, starting, spent, stops>>

Stop(i) ==
  /\ registered[i] # 0
  /\ registered' = [registered EXCEPT ![i] = 0]
  /\ live' = live \ {registered[i]}
  /\ stops' = [stops EXCEPT ![registered[i]] = @ + 1]
  /\ UNCHANGED <<starting, spent>>

Next ==
  \/ \E i \in Triggers :
       \/ Ready(i) \/ GiveUp(i) \/ Stop(i)
       \/ \E r \in Runners : Register(r, i) \/ Begin(r, i)
  \/ \E r \in Runners : End(r)

Spec == Init /\ [][Next]_vars
=============================================================================
