-------------------------- MODULE MCCircuitBreaker --------------------------
(* CircuitBreaker for TLC: the configurations give the goroutines as model values. *)
EXTENDS CircuitBreaker
=============================================================================
