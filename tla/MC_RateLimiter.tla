---------------------------- MODULE MC_RateLimiter ----------------------------
(* Model-checking instance of RateLimiter. *)
EXTENDS RateLimiter, TLC

Symmetry == Permutations(Requests)
=============================================================================
