-------------------------- MODULE MCCircuitBreaker --------------------------
(* CircuitBreaker in minutes: open for 2, a window of 3 instead of 5.         *)
EXTENDS CircuitBreaker
=============================================================================
