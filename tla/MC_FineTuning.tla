----------------------------- MODULE MC_FineTuning -----------------------------
(* Model-checking instance of FineTuning, with the evaluations it reads. *)
EXTENDS FineTuning, TLC

(* A good answer; a poor one has the metrics of Fallback. *)
GoodMetrics == {<<90, 90, 90, 90>>}

Symmetry == Permutations(Raters) \cup Permutations(Jobs)
=============================================================================
