------------------------ MODULE CircuitBreakerProofs ------------------------
(***************************************************************************)
(* Proofs about CircuitBreaker, for any number of concurrent calls and any *)
(* configuration.                                                          *)
(***************************************************************************)
EXTENDS CircuitBreaker, TLAPS

\* The arithmetic of uint32 stays in range.
LEMMA CounterArithmetic ==
  ASSUME NEW c \in Counter
  PROVE  Plus1(c) \in Counter /\ Minus1(c) \in Counter
BY ConfigAssumption DEF Plus1, Minus1, Counter

\* Who may still decide a half-open breaker, and who may still act on a full counter
Deciding == {"probe", "close", "stampHalfOpen", "reopen"}
Tripping == {"trip", "closeClearFailures"}

IInv == TypeOK /\ HalfOpenHasProbe /\ NoLostTrip

LEMMA InitIInv == Init => IInv
<1> SUFFICES ASSUME Init PROVE IInv
  OBVIOUS
<1>1. TypeOK
  <2>1. 0 \in Counter
    BY ConfigAssumption DEF Counter
  <2>2. pc \in [Threads -> Steps]
    BY DEF Init, Steps
  <2>3. QED
    BY <2>1, <2>2 DEF Init, TypeOK, States
<1>2. HalfOpenHasProbe /\ NoLostTrip
  BY ConfigAssumption DEF Init, HalfOpenHasProbe, NoLostTrip
<1>3. QED
  BY <1>1, <1>2 DEF IInv

LEMMA ExecuteType ==
  ASSUME TypeOK, NEW t \in Threads, Execute(t)
  PROVE  TypeOK'
<1>1. /\ state' \in States
      /\ \E step \in Steps : pc' = [pc EXCEPT ![t] = step]
      /\ UNCHANGED <<resetting, healthy>> /\ cooling' \in BOOLEAN
  BY DEF Execute, BeginRequest, CheckTimeout, ToHalfOpen, Probe, CountRequest, UncountRequest,
         CallSucceeds, AfterSuccess, CallFails, ClearFailures, Close, StampFailure,
         StepAfterStamp, AddFailure, SetOpen, ClearRequests, Goto, TypeOK, States, Steps
<1>2. failures' \in Counter /\ halfOpenReqs' \in Counter
  BY CounterArithmetic, ConfigAssumption
  DEF Execute, BeginRequest, CheckTimeout, ToHalfOpen, CountRequest, UncountRequest,
      CallSucceeds, CallFails, ClearFailures, Close, StampFailure, AddFailure, SetOpen,
      ClearRequests, TypeOK, Counter
<1>3. QED
  BY <1>1, <1>2 DEF TypeOK

LEMMA OtherType ==
  ASSUME TypeOK, Reset \/ TimeoutPasses \/ BecomeHealthy \/ UNCHANGED vars
  PROVE  TypeOK'
<1>1. 0 \in Counter
  BY ConfigAssumption DEF Counter
<1>2. QED
  BY <1>1 DEF Reset, BeginReset, ResetFailures, ResetRequests, TimeoutPasses, BecomeHealthy,
              vars, TypeOK, States

\* Only ToHalfOpen makes the breaker half-open, and it leaves a probe behind; a probe
\* that ends while the breaker is half-open goes on to decide it; a decision that is
\* taken leaves the half-open state.
LEMMA ExecuteKeepsProbe ==
  ASSUME TypeOK, HalfOpenHasProbe, NEW t \in Threads, Execute(t)
  PROVE  HalfOpenHasProbe'
<1> SUFFICES ASSUME state' = "half-open"
             PROVE  \E u \in Threads : pc'[u] \in Deciding
  BY DEF HalfOpenHasProbe, Deciding
<1> USE DEF TypeOK, Goto
<1>1. CASE ToHalfOpen(t)
  BY <1>1 DEF ToHalfOpen, Probe, Deciding
<1>2. CASE Close(t) \/ SetOpen(t)
  BY <1>2 DEF Close, SetOpen
<1>3. CASE CallSucceeds(t) \/ CallFails(t)
  BY <1>3 DEF CallSucceeds, AfterSuccess, CallFails, Deciding
<1>4. CASE StampFailure(t)
  <2>1. PICK u \in Threads : pc[u] \in Deciding
    BY <1>4 DEF StampFailure, HalfOpenHasProbe, Deciding
  <2>2. pc[t] = "stampHalfOpen" => pc'[t] = "reopen"
    BY <1>4 DEF StampFailure, StepAfterStamp
  <2>3. u = t => pc[t] = "stampHalfOpen"
    BY <1>4, <2>1 DEF StampFailure, Deciding
  <2>4. u # t => pc'[u] = pc[u]
    BY <1>4 DEF StampFailure
  <2>5. QED
    BY <2>1, <2>2, <2>3, <2>4 DEF Deciding
<1>5. CASE \/ BeginRequest(t) \/ CheckTimeout(t) \/ CountRequest(t) \/ UncountRequest(t)
           \/ ClearFailures(t) \/ AddFailure(t) \/ ClearRequests(t)
  <2>1. state = "half-open" /\ pc[t] \notin Deciding /\ \A u \in Threads : u # t => pc'[u] = pc[u]
    BY <1>5 DEF BeginRequest, CheckTimeout, CountRequest, UncountRequest, ClearFailures,
                AddFailure, ClearRequests, Deciding
  <2>2. QED
    BY <2>1 DEF HalfOpenHasProbe, Deciding
<1>6. QED
  BY <1>1, <1>2, <1>3, <1>4, <1>5 DEF Execute

\* A closed breaker whose counter is full: the failure that filled it trips next, and
\* whoever closed the breaker over a full counter clears it next.
LEMMA ExecuteKeepsTrip ==
  ASSUME TypeOK, NoLostTrip, NEW t \in Threads, Execute(t)
  PROVE  NoLostTrip'
<1> SUFFICES ASSUME state' = "closed", failures' >= MaxFailures, resetting' # "failures"
             PROVE  \E u \in Threads : pc'[u] \in Tripping
  BY DEF NoLostTrip, Tripping
<1> USE DEF TypeOK, Goto
<1>1. resetting # "failures"
  BY DEF Execute, BeginRequest, CheckTimeout, ToHalfOpen, CountRequest, UncountRequest,
         CallSucceeds, CallFails, ClearFailures, Close, StampFailure, AddFailure, SetOpen,
         ClearRequests
<1>2. CASE Close(t)
  BY <1>2 DEF Close, Tripping
<1>3. CASE ToHalfOpen(t) \/ SetOpen(t)
  BY <1>3 DEF ToHalfOpen, SetOpen
<1>4. CASE ClearFailures(t)
  BY <1>4, ConfigAssumption DEF ClearFailures
<1>5. CASE AddFailure(t)
  BY <1>5 DEF AddFailure, ReachesMax, Tripping
<1>6. CASE \/ BeginRequest(t) \/ CheckTimeout(t) \/ CountRequest(t) \/ UncountRequest(t)
           \/ CallSucceeds(t) \/ CallFails(t) \/ StampFailure(t) \/ ClearRequests(t)
  <2>1. /\ state = "closed" /\ failures >= MaxFailures
        /\ pc[t] \notin Tripping /\ \A u \in Threads : u # t => pc'[u] = pc[u]
    BY <1>6 DEF BeginRequest, CheckTimeout, CountRequest, UncountRequest, CallSucceeds,
                CallFails, StampFailure, ClearRequests, Tripping
  <2>2. QED
    BY <1>1, <2>1 DEF NoLostTrip, Tripping
<1>7. QED
  BY <1>2, <1>3, <1>4, <1>5, <1>6 DEF Execute

LEMMA OthersKeep ==
  ASSUME IInv, Reset \/ TimeoutPasses \/ BecomeHealthy \/ UNCHANGED vars
  PROVE  HalfOpenHasProbe' /\ NoLostTrip'
<1> USE DEF IInv, HalfOpenHasProbe, NoLostTrip
<1>1. CASE BeginReset
  BY <1>1 DEF BeginReset
<1>2. CASE ResetFailures
  BY <1>2, ConfigAssumption DEF ResetFailures
<1>3. CASE ResetRequests \/ TimeoutPasses \/ BecomeHealthy \/ UNCHANGED vars
  BY <1>3 DEF ResetRequests, TimeoutPasses, BecomeHealthy, vars
<1>4. QED
  BY <1>1, <1>2, <1>3 DEF Reset

LEMMA NextIInv == IInv /\ [Next]_vars => IInv'
<1> SUFFICES ASSUME IInv, [Next]_vars PROVE IInv'
  OBVIOUS
<1>1. ASSUME NEW t \in Threads, Execute(t) PROVE IInv'
  BY <1>1, ExecuteType, ExecuteKeepsProbe, ExecuteKeepsTrip DEF IInv
<1>2. CASE Reset \/ TimeoutPasses \/ BecomeHealthy \/ UNCHANGED vars
  BY <1>2, OtherType, OthersKeep DEF IInv
<1>3. QED
  BY <1>1, <1>2 DEF Next

THEOREM Invariance == Spec => []IInv
BY InitIInv, NextIInv, PTL DEF Spec

\* The fields keep to their states, and the counters to the width they wrap at.
THEOREM TypeCorrect == Spec => []TypeOK
<1>1. IInv => TypeOK
  BY DEF IInv
<1>2. QED
  BY <1>1, Invariance, PTL

\* A half-open breaker is never left without a call that will decide it, however many
\* goroutines use it and however late they act on what they loaded.
THEOREM NeverStuckHalfOpen == Spec => []HalfOpenHasProbe
<1>1. IInv => HalfOpenHasProbe
  BY DEF IInv
<1>2. QED
  BY <1>1, Invariance, PTL

\* MaxFailures counted failures never leave the breaker closed for good.
THEOREM TripIsNotLost == Spec => []NoLostTrip
<1>1. IInv => NoLostTrip
  BY DEF IInv
<1>2. QED
  BY <1>1, Invariance, PTL
=============================================================================
