----------------------------- MODULE MC_ProviderCall -----------------------------
(* Model-checking instance of ProviderCall. *)
EXTENDS ProviderCall, TLC

(* What register_model_in_redis appends to a list of Claude alone *)
Tuned == [id |-> "tuned", provider |-> "openai", input |-> 300, output |-> 1200,
          context |-> 128000, vision |-> FALSE, tasks |-> {"rag_generation"},
          tuned |-> TRUE, for |-> "rag_generation"]
ClaudeTuned == <<DefaultModels[3], Tuned>>
Lists == {ClaudeTuned}

ASSUME /\ Route(DefaultModels, Ask("embedding", FALSE)) = Mini
       /\ Route(<<Tuned>>, Ask("evaluation", FALSE)) = Mini
       /\ Route(ClaudeTuned, Ask("rag_generation", FALSE)) = Tuned
       /\ Route(ClaudeTuned, Ask("rag_generation", TRUE)) = DefaultModels[3]
=============================================================================
