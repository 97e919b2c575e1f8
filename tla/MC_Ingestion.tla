----------------------------- MODULE MC_Ingestion -----------------------------
(* Model-checking instance of Ingestion: two uploads of one content, which   *)
(* race, and one of another.                                                 *)
EXTENDS Ingestion, TLC

CONSTANTS r1, r2, r3

MCContentOf == (r1 :> "a") @@ (r2 :> "a") @@ (r3 :> "b")
MCChunksOf == ("a" :> 2) @@ ("b" :> 1)
=============================================================================
