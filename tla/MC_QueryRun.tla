------------------------------ MODULE MC_QueryRun ------------------------------
(* Model-checking instance of QueryRun. *)
EXTENDS QueryRun, TLC

Symmetry == Permutations(Streams)
=============================================================================
