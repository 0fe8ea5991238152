--------------------------- MODULE CircuitBreaker ---------------------------
(***************************************************************************)
(* One CircuitBreaker (src/internal/engine/circuit_breaker.go) shared by   *)
(* the node goroutines of one run.  Its fields are separate atomics and    *)
(* only setState and Reset take the mutex, so a call of Execute is a       *)
(* sequence of atomic steps that interleave with those of other calls:     *)
(* what a call read of the state may be stale when it acts on it.          *)
(*                                                                         *)
(* lastFailTime is abstracted to whether Timeout has passed since.  The    *)
(* statistics counters are left out.                                       *)
(***************************************************************************)
EXTENDS Integers, FiniteSets

CONSTANTS
  Threads,          \* goroutines that call Execute
  MaxFailures,      \* cfg.MaxFailures
  HalfOpenMaxReqs,  \* cfg.HalfOpenMaxReqs
  Width             \* number of values of the counters: 2^32 in the code

ASSUME ConfigAssumption ==
  /\ IsFiniteSet(Threads)
  /\ MaxFailures \in Nat \ {0} /\ HalfOpenMaxReqs \in Nat
  /\ Width \in Nat /\ MaxFailures < Width /\ HalfOpenMaxReqs < Width

VARIABLES
  state,         \* cb.state
  failures,      \* cb.failures
  halfOpenReqs,  \* cb.halfOpenReqs
  cooling,       \* time.Since(lastFailTime) <= Timeout
  pc,            \* [Threads -> next atomic step of the call of Execute]
  resetting,     \* next store of Reset, which holds cb.mu; "no" when none runs
  healthy        \* the service behind fn answers every call from now on

vars == <<state, failures, halfOpenReqs, cooling, pc, resetting, healthy>>

States == {"closed", "open", "half-open"}
Steps  == {"idle", "checkTimeout", "toHalfOpen", "count", "uncount",
           "run",    \* in fn, let through by a closed breaker
           "probe",  \* in fn, let through by one that is half-open
           "clearFailures", "close", "closeClearFailures", "clearReqs",
           "stampClosed", "stampOpen", "stampHalfOpen", "addFailure", "trip", "reopen"}
Counter == 0..(Width - 1)

Goto(t, step)  == pc' = [pc EXCEPT ![t] = step]
Plus1(c)       == (c + 1) % Width
\* Faulty variant: a decrement that does not wrap
Below(c)       == c - 1
Minus1(c)      == (c + Width - 1) % Width
MutexFree      == resetting = "no"

-----------------------------------------------------------------------------
(* beforeRequest *)

\* state.Load and the switch on it
BeginRequest(t) ==
  /\ pc[t] = "idle"
  /\ Goto(t, CASE state = "closed"    -> "run"
               [] state = "open"      -> "checkTimeout"
               [] state = "half-open" -> "count")
  /\ UNCHANGED <<state, failures, halfOpenReqs, cooling, resetting, healthy>>

\* Whether time.Since(lastFail) > Timeout; ErrCircuitOpen otherwise
CheckTimeout(t) ==
  /\ pc[t] = "checkTimeout"
  /\ Goto(t, IF cooling THEN "idle" ELSE "toHalfOpen")
  /\ UNCHANGED <<state, failures, halfOpenReqs, cooling, resetting, healthy>>

\* Faulty variant: the request that found the breaker open is not let through
HalfOpenOnly(t) == Goto(t, "idle")

\* The request that sets the breaker half-open goes through uncounted
Probe(t) == Goto(t, "probe")

\* setState(StateHalfOpen), whatever the state has become since it was loaded
ToHalfOpen(t) ==
  /\ pc[t] = "toHalfOpen" /\ MutexFree
  /\ state' = "half-open"
  /\ Probe(t)
  /\ UNCHANGED <<failures, halfOpenReqs, cooling, resetting, healthy>>

\* halfOpenReqs.Add(1) > HalfOpenMaxReqs
CountRequest(t) ==
  /\ pc[t] = "count"
  /\ halfOpenReqs' = Plus1(halfOpenReqs)
  /\ Goto(t, IF Plus1(halfOpenReqs) > HalfOpenMaxReqs THEN "uncount" ELSE "probe")
  /\ UNCHANGED <<state, failures, cooling, resetting, healthy>>

\* halfOpenReqs.Add(^uint32(0)), then ErrTooManyRequests
UncountRequest(t) ==
  /\ pc[t] = "uncount"
  /\ halfOpenReqs' = Minus1(halfOpenReqs)
  /\ Goto(t, "idle")
  /\ UNCHANGED <<state, failures, cooling, resetting, healthy>>

-----------------------------------------------------------------------------
(* afterRequest *)

\* Faulty variant: a success only counts in the closed state
AfterSuccessClosedOnly == IF state = "closed" THEN "clearFailures" ELSE "idle"

\* The switch of onSuccess on the state afterRequest loads
AfterSuccess ==
  CASE state = "closed"    -> "clearFailures"
    [] state = "open"      -> "idle"
    [] state = "half-open" -> "close"

\* fn succeeded; the state is loaded again
CallSucceeds(t) ==
  /\ pc[t] \in {"run", "probe"}
  /\ Goto(t, AfterSuccess)
  /\ UNCHANGED <<state, failures, halfOpenReqs, cooling, resetting, healthy>>

\* fn failed; the state is loaded again and kept for the switch of onFailure
CallFails(t) ==
  /\ pc[t] \in {"run", "probe"} /\ ~healthy
  /\ Goto(t, CASE state = "closed"    -> "stampClosed"
               [] state = "open"      -> "stampOpen"
               [] state = "half-open" -> "stampHalfOpen")
  /\ UNCHANGED <<state, failures, halfOpenReqs, cooling, resetting, healthy>>

\* failures.Store(0) of a success, in the closed state or after closing
ClearFailures(t) ==
  /\ pc[t] \in {"clearFailures", "closeClearFailures"}
  /\ failures' = 0
  /\ Goto(t, IF pc[t] = "clearFailures" THEN "idle" ELSE "clearReqs")
  /\ UNCHANGED <<state, halfOpenReqs, cooling, resetting, healthy>>

\* setState(StateClosed) of a success that saw the breaker half-open
Close(t) ==
  /\ pc[t] = "close" /\ MutexFree
  /\ state' = "closed"
  /\ Goto(t, "closeClearFailures")
  /\ UNCHANGED <<failures, halfOpenReqs, cooling, resetting, healthy>>

\* Faulty variant: only a failure in the closed state opens the breaker
StepAfterStampClosedOnly(t) ==
  IF pc[t] = "stampClosed" THEN "addFailure" ELSE "idle"

\* The switch of onFailure on the state afterRequest loaded
StepAfterStamp(t) ==
  CASE pc[t] = "stampClosed"   -> "addFailure"
    [] pc[t] = "stampOpen"     -> "idle"
    [] pc[t] = "stampHalfOpen" -> "reopen"

\* lastFailTime.Store(now)
StampFailure(t) ==
  /\ pc[t] \in {"stampClosed", "stampOpen", "stampHalfOpen"}
  /\ cooling' = TRUE
  /\ Goto(t, StepAfterStamp(t))
  /\ UNCHANGED <<state, failures, halfOpenReqs, resetting, healthy>>

\* Faulty variant: off by one
ReachesMaxLate(n) == n > MaxFailures

ReachesMax(n) == n >= MaxFailures

\* failures.Add(1) and the comparison of what it returned
AddFailure(t) ==
  /\ pc[t] = "addFailure"
  /\ failures' = Plus1(failures)
  /\ Goto(t, IF ReachesMax(Plus1(failures)) THEN "trip" ELSE "idle")
  /\ UNCHANGED <<state, halfOpenReqs, cooling, resetting, healthy>>

\* setState(StateOpen), of a failure in the closed or in the half-open state
SetOpen(t) ==
  /\ pc[t] \in {"trip", "reopen"} /\ MutexFree
  /\ state' = "open"
  /\ Goto(t, IF pc[t] = "trip" THEN "idle" ELSE "clearReqs")
  /\ UNCHANGED <<failures, halfOpenReqs, cooling, resetting, healthy>>

\* halfOpenReqs.Store(0) after leaving the half-open state
ClearRequests(t) ==
  /\ pc[t] = "clearReqs"
  /\ halfOpenReqs' = 0
  /\ Goto(t, "idle")
  /\ UNCHANGED <<state, failures, cooling, resetting, healthy>>

Execute(t) ==
  \/ BeginRequest(t) \/ CheckTimeout(t) \/ ToHalfOpen(t) \/ CountRequest(t)
  \/ UncountRequest(t) \/ CallSucceeds(t) \/ CallFails(t) \/ ClearFailures(t)
  \/ Close(t) \/ StampFailure(t) \/ AddFailure(t) \/ SetOpen(t) \/ ClearRequests(t)

-----------------------------------------------------------------------------
(* Reset holds the mutex over its three stores; the atomics do not wait for it *)
BeginReset ==
  /\ resetting = "no"
  /\ state' = "closed"
  /\ resetting' = "failures"
  /\ UNCHANGED <<failures, halfOpenReqs, cooling, pc, healthy>>

ResetFailures ==
  /\ resetting = "failures"
  /\ failures' = 0
  /\ resetting' = "requests"
  /\ UNCHANGED <<state, halfOpenReqs, cooling, pc, healthy>>

ResetRequests ==
  /\ resetting = "requests"
  /\ halfOpenReqs' = 0
  /\ resetting' = "no"
  /\ UNCHANGED <<state, failures, cooling, pc, healthy>>

Reset == BeginReset \/ ResetFailures \/ ResetRequests

\* cfg.Timeout passes without another failure
TimeoutPasses ==
  /\ cooling
  /\ cooling' = FALSE
  /\ UNCHANGED <<state, failures, halfOpenReqs, pc, resetting, healthy>>

\* The service behind fn recovers for good
BecomeHealthy ==
  /\ ~healthy
  /\ healthy' = TRUE
  /\ UNCHANGED <<state, failures, halfOpenReqs, cooling, pc, resetting>>

-----------------------------------------------------------------------------
\* lastFailTime is 0 in a new breaker: the timeout is long over
Init ==
  /\ state = "closed" /\ failures = 0 /\ halfOpenReqs = 0 /\ cooling = FALSE
  /\ pc = [t \in Threads |-> "idle"]
  /\ resetting = "no" /\ healthy = FALSE

Next ==
  \/ \E t \in Threads : Execute(t)
  \/ Reset \/ TimeoutPasses \/ BecomeHealthy

\* Calls that were let through end (they have timeouts), time passes, and requests
\* keep coming; nobody is bound to call Reset, but one that began ends.
Fairness ==
  /\ \A t \in Threads : WF_vars(Execute(t))
  /\ WF_vars(ResetFailures \/ ResetRequests)
  /\ WF_vars(TimeoutPasses)

Spec == Init /\ [][Next]_vars /\ Fairness

-----------------------------------------------------------------------------
(* Properties *)

\* The fields keep to the states and to the width of their counters
TypeOK ==
  /\ state \in States
  /\ failures \in Counter /\ halfOpenReqs \in Counter
  /\ cooling \in BOOLEAN /\ healthy \in BOOLEAN
  /\ pc \in [Threads -> Steps]
  /\ resetting \in {"no", "failures", "requests"}

\* A half-open breaker never waits for nobody: some probe is running, or is on its way
\* to closing or reopening it. Without this the breaker would reject everything for
\* ever, since the half-open state has no timeout.
HalfOpenHasProbe ==
  state = "half-open" =>
    \E t \in Threads :
      pc[t] \in {"probe", "close", "stampHalfOpen", "reopen"}

\* No trip is lost: a closed breaker whose counter has reached MaxFailures is about to
\* be opened, or its counter is about to be cleared, however the calls interleave.
NoLostTrip ==
  state = "closed" /\ failures >= MaxFailures =>
    \/ \E t \in Threads : pc[t] \in {"trip", "closeClearFailures"}
    \/ resetting = "failures"

\* A half-open breaker is decided sooner or later.
HalfOpenDecided == state = "half-open" ~> state # "half-open"

\* Once the service answers, the breaker ends up closed and stays so.
RecoversWithService == []<>healthy => <>[](state = "closed")

\* circuit_breaker.go:41 configures HalfOpenMaxReqs and :35 names the error of whoever
\* exceeds it: no more than that many probes run while the breaker is half-open.
HalfOpenLimit ==
  state = "half-open" =>
    Cardinality({t \in Threads : pc[t] = "probe"}) <= HalfOpenMaxReqs
=============================================================================
