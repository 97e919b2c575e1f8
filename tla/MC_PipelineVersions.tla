-------------------------- MODULE MC_PipelineVersions --------------------------
(* Model-checking instance of PipelineVersions. *)
EXTENDS PipelineVersions, TLC

CONSTANTS c, x, u1, u2

(* Updates change the name of the created pipeline to the one that a query  *)
(* would give to the unknown pipeline.                                      *)
Names == c :> "a" @@ u1 :> "b" @@ u2 :> "b" @@ x :> "b"

Symmetry == Permutations(Replicas) \cup Permutations(Updaters)
=============================================================================
