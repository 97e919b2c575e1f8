--------------------------------- MODULE Router ---------------------------------
(***************************************************************************)
(* The choice of a model (backend/providers/router.py): from the list that *)
(* Redis has under router:models, or from the default models.  Rates are   *)
(* in cents per million tokens, estimates in millionths of a cent.         *)
(***************************************************************************)
EXTENDS Integers, Sequences

CONSTANT TunedIds  \* the ids of the models that fine-tuning has registered

NoLimit == -1

(* The task types the source routes for *)
Tasks == {"rag_generation", "classification", "evaluation", "embedding", "generation"}
ModelIds == {"gpt-4o-mini", "gpt-4o", "claude-3-5-sonnet", "gemini-flash-latest"} \cup TunedIds
Models == [id : ModelIds, provider : {"openai", "anthropic", "gemini"},
           input : Nat, output : Nat, context : Nat, vision : BOOLEAN,
           tasks : SUBSET Tasks, tuned : BOOLEAN, for : Tasks \cup {"none"}]

Model(id, provider, in, out, window, tasks) ==
  [id |-> id, provider |-> provider, input |-> in, output |-> out, context |-> window,
   vision |-> TRUE, tasks |-> tasks, tuned |-> FALSE, for |-> "none"]

Mini == Model("gpt-4o-mini", "openai", 15, 60, 128000,
              {"rag_generation", "classification", "evaluation", "embedding"})
DefaultModels ==
  << Mini,
     Model("gpt-4o", "openai", 250, 1000, 128000,
           {"rag_generation", "classification", "evaluation", "embedding"}),
     Model("claude-3-5-sonnet", "anthropic", 300, 1500, 200000,
           {"rag_generation", "evaluation", "embedding"}),
     Model("gemini-flash-latest", "gemini", 0, 0, 1000000,
           {"rag_generation", "classification", "evaluation"}) >>

(* RoutingCriteria, without the latency budget, which nothing reads *)
Criteria == [task : Tasks, vision : BOOLEAN, long : BOOLEAN, tuned : BOOLEAN,
             limit : Nat \cup {NoLimit}]

Estimate(m) == 2000 * m.input + 500 * m.output

Suits(m, c) ==
  /\ c.task \in m.tasks
  /\ c.vision => m.vision
  /\ c.long => m.context > 100000
  /\ c.task = "evaluation" => ~m.tuned

Preferred(m, c) == Suits(m, c) /\ m.tuned /\ m.for = c.task

(* The positions of the candidates in the list; a fine-tuned model is      *)
(* preferred before, and whatever, it costs.                               *)
Candidates(models, c) ==
  LET preferred == {i \in DOMAIN models : Preferred(models[i], c)}
      chosen == IF c.task # "evaluation" /\ c.tuned /\ preferred # {}
                  THEN preferred ELSE {i \in DOMAIN models : Suits(models[i], c)}
  IN {i \in chosen : c.limit # NoLimit => Estimate(models[i]) <= c.limit}

(* The first of the cheapest, or gpt-4o-mini, whatever was asked for *)
Route(models, c) ==
  LET candidates == Candidates(models, c)
      cheapest(i) == \A j \in candidates :
        \/ Estimate(models[i]) < Estimate(models[j])
        \/ Estimate(models[i]) = Estimate(models[j]) /\ i <= j
  IN IF candidates = {} THEN Mini ELSE models[CHOOSE i \in candidates : cheapest(i)]
=============================================================================
