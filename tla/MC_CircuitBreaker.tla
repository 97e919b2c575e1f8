-------------------------- MODULE MC_CircuitBreaker --------------------------
(* Model-checking instance of CircuitBreaker: the interchangeable callers   *)
(* of the runs that check no liveness.                                      *)
EXTENDS CircuitBreaker, TLC

Symmetry == Permutations(Callers)
=============================================================================
