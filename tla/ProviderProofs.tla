----------------------------- MODULE ProviderProofs -----------------------------
(***************************************************************************)
(* Proofs about Router, for every list of models and every criteria, and   *)
(* about ProviderCall, for every number of calls and of batches, whatever  *)
(* the providers do.  That calls end is left to model checking.            *)
(***************************************************************************)
EXTENDS ProviderCall, WellFoundedInduction, FiniteSetTheorems, TLAPS

-----------------------------------------------------------------------------
(* The choice of a model *)

(* i is the first of the cheapest among the positions s. *)
FirstCheapest(models, s, i) ==
  \A j \in s : \/ Estimate(models[i]) < Estimate(models[j])
               \/ Estimate(models[i]) = Estimate(models[j]) /\ i <= j

(* A set of numbers that is not empty has a least one. *)
LEMMA Least ==
  ASSUME NEW T, T \subseteq Nat, T # {}
  PROVE  \E n \in T : \A k \in T : n <= k
<1>1. PICK n \in T : \A k \in T : <<k, n>> \notin OpToRel(<, Nat)
  BY WFMin, NatLessThanWellFounded, Zenon
<1>2. \A k \in T : ~(k < n)
  BY <1>1, Zenon DEF OpToRel
<1>3. QED
  BY <1>2

(* The default models are models, *)
LEMMA ModelTypes ==
  ASSUME NEW id \in ModelIds, NEW provider \in {"openai", "anthropic", "gemini"},
         NEW in \in Nat, NEW out \in Nat, NEW window \in Nat, NEW tasks \in SUBSET Tasks
  PROVE  /\ Model(id, provider, in, out, window, tasks) \in Models
         /\ ~Model(id, provider, in, out, window, tasks).tuned
BY DEF Model, Models

(* The default list is one of models, and its fallback is not fine-tuned. *)
LEMMA Defaults == Mini \in Models /\ ~Mini.tuned /\ DefaultModels \in Seq(Models)
<1>1. /\ {"rag_generation", "classification", "evaluation", "embedding"} \subseteq Tasks
      /\ {"rag_generation", "evaluation", "embedding"} \subseteq Tasks
      /\ {"rag_generation", "classification", "evaluation"} \subseteq Tasks
  BY SMT DEF Tasks
<1>2. /\ "gpt-4o-mini" \in ModelIds /\ "gpt-4o" \in ModelIds
      /\ "claude-3-5-sonnet" \in ModelIds /\ "gemini-flash-latest" \in ModelIds
  BY SMT DEF ModelIds
<1>3. Mini \in Models /\ ~Mini.tuned
  BY <1>1, <1>2, ModelTypes, SMT DEF Mini
<1>4. Model("gpt-4o", "openai", 250, 1000, 128000,
            {"rag_generation", "classification", "evaluation", "embedding"}) \in Models
  BY <1>1, <1>2, ModelTypes, SMT
<1>5. Model("claude-3-5-sonnet", "anthropic", 300, 1500, 200000,
            {"rag_generation", "evaluation", "embedding"}) \in Models
  BY <1>1, <1>2, ModelTypes, SMT
<1>6. Model("gemini-flash-latest", "gemini", 0, 0, 1000000,
            {"rag_generation", "classification", "evaluation"}) \in Models
  BY <1>1, <1>2, ModelTypes, SMT
<1>7. QED
  BY <1>3, <1>4, <1>5, <1>6, SMT DEF DefaultModels

(* and the candidates are positions of models that suit. *)
LEMMA CandidatesSuit ==
  ASSUME NEW models \in Seq(Models), NEW c, NEW i \in Candidates(models, c)
  PROVE  /\ i \in 1..Len(models) /\ models[i] \in Models /\ Suits(models[i], c)
         /\ c.limit # NoLimit => Estimate(models[i]) <= c.limit
BY SMT DEF Candidates, Preferred

(* One of the candidates is the first of the cheapest. *)
LEMMA CheapestExists ==
  ASSUME NEW models \in Seq(Models), NEW c, Candidates(models, c) # {}
  PROVE  \E i \in Candidates(models, c) : FirstCheapest(models, Candidates(models, c), i)
<1> DEFINE s == Candidates(models, c)
           estimates == {Estimate(models[i]) : i \in s}
<1>1. \A i \in s : i \in Nat /\ Estimate(models[i]) \in Nat
  <2>1. ASSUME NEW i \in s
        PROVE  i \in Nat /\ Estimate(models[i]) \in Nat
    <3>1. i \in 1..Len(models) /\ models[i] \in Models
      BY CandidatesSuit
    <3>2. models[i].input \in Nat /\ models[i].output \in Nat
      BY <3>1 DEF Models
    <3>3. QED
      BY <3>1, <3>2 DEF Estimate
  <2>2. QED
    BY <2>1
<1>2. PICK e \in estimates : \A k \in estimates : e <= k
  <2>1. estimates \subseteq Nat /\ estimates # {}
    BY <1>1
  <2>2. QED
    BY <2>1, Least
<1> DEFINE first == {i \in s : Estimate(models[i]) = e}
<1>3. PICK i \in first : \A j \in first : i <= j
  <2>1. first \subseteq Nat /\ first # {}
    BY <1>1, <1>2
  <2>2. QED
    BY <2>1, Least
<1>4. \A j \in s : e <= Estimate(models[j]) /\ (Estimate(models[j]) = e => i <= j)
  BY <1>2, <1>3
<1>5. i \in s /\ Estimate(models[i]) = e
  BY <1>3
<1>6. QED
  <2> HIDE DEF s, estimates, first
  <2>1. \A j \in s : e < Estimate(models[j]) \/ (e = Estimate(models[j]) /\ i <= j)
    BY <1>1, <1>4, <1>5
  <2>2. FirstCheapest(models, s, i)
    BY <1>5, <2>1 DEF FirstCheapest
  <2>3. QED
    BY <1>5, <2>2 DEF s

(* ModelRouter.route: the first of the cheapest candidates, or gpt-4o-mini  *)
(* if there is none.                                                        *)
THEOREM RouteCheapest ==
  ASSUME NEW models \in Seq(Models), NEW c
  PROVE  \/ Candidates(models, c) = {} /\ Route(models, c) = Mini
         \/ \E i \in Candidates(models, c) :
              /\ Route(models, c) = models[i]
              /\ FirstCheapest(models, Candidates(models, c), i)
<1>1. CASE Candidates(models, c) = {}
  BY <1>1 DEF Route
<1>2. CASE Candidates(models, c) # {}
  <2> DEFINE s == Candidates(models, c)
             chosen == CHOOSE i \in s : FirstCheapest(models, s, i)
  <2>1. chosen \in s /\ FirstCheapest(models, s, chosen)
    BY <1>2, CheapestExists
  <2>2. Route(models, c) = models[chosen]
    BY <1>2 DEF Route, FirstCheapest
  <2>3. QED
    BY <2>1, <2>2
<1>3. QED
  BY <1>1, <1>2

(* What is chosen is a model; a judge is never given a fine-tuned one, so   *)
(* that no model judges itself.                                             *)
THEOREM JudgeUntuned ==
  ASSUME NEW models \in Seq(Models), NEW c
  PROVE  /\ Route(models, c) \in Models
         /\ c.task = "evaluation" => ~Route(models, c).tuned
<1>1. CASE Route(models, c) = Mini
  BY <1>1, Defaults
<1>2. CASE \E i \in Candidates(models, c) : Route(models, c) = models[i]
  BY <1>2, CandidatesSuit, SMT DEF Suits
<1>3. QED
  BY <1>1, <1>2, RouteCheapest

-----------------------------------------------------------------------------
(* The parts of the inductive invariant *)

(* Before it enters the breaker a call has done nothing. *)
EarlyOK(h) ==
  /\ at[h] \in {"idle", "bucket", "enter"} =>
       /\ watch[h] = 0 /\ requests[h] = 0 /\ defaults[h] = 0 /\ attempt[h] = 0
       /\ report[h] = None /\ h \notin untracked
  /\ at[h] \in {"bucket", "enter"} =>
       /\ kind[h] \in Kinds /\ model[h] \in Models /\ batches[h] <= MaxBatches
       /\ kind[h] # "embedding" => batches[h] = 1
       /\ kind[h] = "embedding" /\ model[h].provider = "anthropic" => batches[h] = 0

(* Under way it has sent four requests for each batch that was answered,    *)
(* and as many as it made attempts for the current one.                     *)
Sent(h) == IF at[h] = "send" THEN attempt[h] ELSE attempt[h] + 1
UnderWayOK(h) ==
  at[h] \in {"send", "sent", "sleep"} =>
    /\ kind[h] \in Kinds \ {"classification"} /\ model[h] \in Models
    /\ 1 <= batches[h] /\ batches[h] <= MaxBatches
    /\ kind[h] # "embedding" => batches[h] = 1
    /\ kind[h] = "embedding" => model[h].provider # "anthropic"
    /\ requests[h] <= 4 * (MaxBatches - batches[h]) + Sent(h)
    /\ at[h] = "sleep" => attempt[h] <= 2
    /\ defaults[h] <= attempt[h]
    /\ report[h] = None /\ h \notin untracked

(* It leaves the breaker with a result exactly if all is answered; and only *)
(* who told the breaker of a success counts.                                *)
LateOK(h) ==
  /\ at[h] = "leave" =>
       /\ kind[h] \in Kinds /\ model[h] \in Models
       /\ report[h] = None /\ h \notin untracked /\ outcome[h] \in {"result", "error"}
       /\ outcome[h] = "result" <=> kind[h] # "classification" /\ batches[h] = 0
  /\ at[h] \in {"count", "cost"} =>
       /\ kind[h] \in Kinds \ {"stream"} /\ model[h] \in Models /\ model[h].id \in Ids
       /\ report[h] = "result" /\ h \notin untracked
  /\ at[h] # "idle" => model[h] \in Models /\ model[h].id \in Ids

CallInv == \A h \in Calls : EarlyOK(h) /\ UnderWayOK(h) /\ LateOK(h)

(* What RetriesInTime and CallsAccounted say of one call and of one model   *)
InTimeOK(h) ==
  /\ Timed(h) => watch[h] < Timeouts[kind[h]]
  /\ kind[h] = "embedding" => defaults[h] = 0
  /\ kind[h] = "rag_generation" /\ model[h].provider # "anthropic" => defaults[h] <= 2
  /\ requests[h] <= 4 * MaxBatches
ReportOK(h) ==
  report[h] # None => (report[h] = "result" <=> kind[h] # "classification" /\ batches[h] = 0)
Good(i) == {h \in Calls : report[h] = "result" /\ kind[h] # "stream" /\ model[h].id = i}
Counted(i) == {h \in Good(i) : at[h] \in {"cost", "answered"}}
Priced(i) == {h \in Good(i) : at[h] = "answered"}
CountInv == \A i \in Ids : Between(calls[i], Counted(i)) /\ Between(costs[i], Priced(i))

Step(h) == Choose(h) \/ Own(h) \/ Answer(h) \/ Error(h) \/ Limited(h) \/ Cancel(h)

-----------------------------------------------------------------------------
(* Timeouts and default waits *)
LEMMA TimeoutValues ==
  /\ DOMAIN Timeouts = {"rag_generation", "evaluation", "embedding"}
  /\ Timeouts["rag_generation"] = 60 /\ Timeouts["evaluation"] = 120 /\ Timeouts["embedding"] = 10
BY DEF Timeouts

(* The bound on the batches of an embedding is a positive number. *)
LEMMA Bound == MaxBatches \in Nat /\ MaxBatches >= 1
BY ProviderAssumption

(* The default waits, of which all but Anthropic's are at least 15 seconds. *)
LEMMA BackoffValues ==
  ASSUME NEW h \in Calls, attempt[h] \in 0..2
  PROVE  /\ Backoff(h) \in Nat
         /\ model[h].provider # "anthropic" =>
              Backoff(h) >= 15 /\ (attempt[h] = 2 => Backoff(h) = 60)
<1>1. attempt[h] = 0 \/ attempt[h] = 1 \/ attempt[h] = 2
  OBVIOUS
<1>2. QED
  BY <1>1 DEF Backoff

(* A call is routed to a model, whose id has counters. *)
LEMMA Routed ==
  ASSUME NEW models \in Registries \cup {DefaultModels}, NEW c
  PROVE  Route(models, c) \in Models /\ Route(models, c).id \in Ids
<1>1. models \in Seq(Models)
  BY ProviderAssumption, Defaults
<1>2. Route(models, c) \in Models
  BY <1>1, JudgeUntuned
<1>3. Route(models, c) = Mini \/ \E i \in DOMAIN models : Route(models, c) = models[i]
  BY <1>1, RouteCheapest, CandidatesSuit
<1>4. QED
  BY <1>2, <1>3 DEF Ids

(* A step of one call leaves the others alone. *)
LEMMA Frame ==
  ASSUME TypeOK, NEW h \in Calls, Step(h)
  PROVE  /\ at' = [at EXCEPT ![h] = at'[h]]
         /\ kind' = [kind EXCEPT ![h] = kind'[h]] /\ model' = [model EXCEPT ![h] = model'[h]]
         /\ batches' = [batches EXCEPT ![h] = batches'[h]]
         /\ attempt' = [attempt EXCEPT ![h] = attempt'[h]]
         /\ pause' = [pause EXCEPT ![h] = pause'[h]]
         /\ watch' = [watch EXCEPT ![h] = watch'[h]]
         /\ outcome' = [outcome EXCEPT ![h] = outcome'[h]]
         /\ report' = [report EXCEPT ![h] = report'[h]]
         /\ requests' = [requests EXCEPT ![h] = requests'[h]]
         /\ defaults' = [defaults EXCEPT ![h] = defaults'[h]]
         /\ untracked' \in {untracked, untracked \cup {h}}
<1> USE DEF TypeOK, Goes, Sets, Ends, call, progress, metrics, Passes, Clears
<1>1. CASE Choose(h)
  BY <1>1 DEF Choose
<1>2. CASE Bucket(h)
  BY <1>2 DEF Bucket
<1>3. CASE Refused(h)
  BY <1>3 DEF Refused
<1>4. CASE Enter(h)
  BY <1>4 DEF Enter
<1>5. CASE Send(h)
  BY <1>5 DEF Send
<1>6. CASE Wake(h)
  BY <1>6 DEF Wake
<1>7. CASE TimesOut(h)
  BY <1>7 DEF TimesOut
<1>8. CASE Leave(h)
  BY <1>8 DEF Leave
<1>9. CASE LeaveFails(h)
  BY <1>9 DEF LeaveFails
<1>10. CASE Count(h)
  BY <1>10 DEF Count
<1>11. CASE Cost(h)
  BY <1>11 DEF Cost
<1>12. CASE Untracked(h)
  BY <1>12 DEF Untracked
<1>13. CASE Answer(h)
  BY <1>13 DEF Answer
<1>14. CASE Error(h)
  BY <1>14 DEF Error
<1>15. CASE Limited(h)
  BY <1>15 DEF Limited
<1>16. CASE Cancel(h)
  BY <1>16 DEF Cancel
<1>17. QED
  BY <1>1, <1>2, <1>3, <1>4, <1>5, <1>6, <1>7, <1>8, <1>9, <1>10, <1>11, <1>12, <1>13, <1>14,
     <1>15, <1>16 DEF Step, Own

(* So it is enough to look at the call that takes the step. *)
LEMMA OthersStay ==
  ASSUME TypeOK, CallInv, NEW h \in Calls, Step(h), NEW g \in Calls \ {h}
  PROVE  EarlyOK(g)' /\ UnderWayOK(g)' /\ LateOK(g)'
BY Frame DEF CallInv, EarlyOK, UnderWayOK, LateOK, TypeOK, Sent

(* A call that begins has a model and the number of its requests. *)
LEMMA Chosen ==
  ASSUME TypeOK, NEW h \in Calls, Choose(h)
  PROVE  /\ at[h] = "idle" /\ at' \in {[at EXCEPT ![h] = "bucket"], [at EXCEPT ![h] = "enter"]}
         /\ kind'[h] \in Kinds /\ model'[h] \in Models /\ model'[h].id \in Ids
         /\ batches'[h] \in RequestsOf(kind'[h], model'[h])
         /\ UNCHANGED <<attempt, pause, watch, requests, defaults, outcome, report, metrics>>
<1>0. PICK k \in Kinds, models \in Registries \cup {DefaultModels} : \E c \in Asks(k) :
        /\ kind' = [kind EXCEPT ![h] = k] /\ model' = [model EXCEPT ![h] = Route(models, c)]
        /\ \E n \in RequestsOf(k, Route(models, c)) : batches' = [batches EXCEPT ![h] = n]
  BY DEF Choose
<1>1. PICK c \in Asks(k) :
        /\ kind' = [kind EXCEPT ![h] = k] /\ model' = [model EXCEPT ![h] = Route(models, c)]
        /\ \E n \in RequestsOf(k, Route(models, c)) : batches' = [batches EXCEPT ![h] = n]
  BY <1>0
<1>2. /\ kind'[h] = k /\ model'[h] = Route(models, c)
      /\ batches'[h] \in RequestsOf(k, Route(models, c))
  BY <1>1 DEF TypeOK
<1>3. /\ at[h] = "idle" /\ at' \in {[at EXCEPT ![h] = "bucket"], [at EXCEPT ![h] = "enter"]}
      /\ UNCHANGED <<attempt, pause, watch, requests, defaults, outcome, report, metrics>>
  BY DEF Choose, Goes
<1>4. QED
  BY <1>2, <1>3, Routed

(* Before the breaker *)
LEMMA EarlyStep ==
  ASSUME NEW h \in Calls, TypeOK, CallInv, Step(h)
  PROVE  EarlyOK(h)'
<1> USE DEF CallInv, TypeOK, Goes, Sets, Ends, call, progress, metrics, Clears, EarlyOK
<1>1. CASE Choose(h)
  BY <1>1, Chosen, Bound DEF RequestsOf
<1>2. CASE Bucket(h)
  BY <1>2 DEF Bucket
<1>3. CASE Refused(h)
  BY <1>3 DEF Refused
<1>4. CASE Enter(h)
  BY <1>4 DEF Enter
<1>5. CASE Send(h)
  BY <1>5 DEF Send
<1>6. CASE Wake(h)
  BY <1>6 DEF Wake
<1>7. CASE TimesOut(h)
  BY <1>7 DEF TimesOut
<1>8. CASE Leave(h)
  BY <1>8 DEF Leave
<1>9. CASE LeaveFails(h)
  BY <1>9 DEF LeaveFails
<1>10. CASE Count(h)
  BY <1>10 DEF Count
<1>11. CASE Cost(h)
  BY <1>11 DEF Cost
<1>12. CASE Untracked(h)
  BY <1>12 DEF Untracked
<1>13. CASE Answer(h)
  BY <1>13 DEF Answer
<1>14. CASE Error(h)
  BY <1>14 DEF Error
<1>15. CASE Limited(h)
  BY <1>15 DEF Limited
<1>16. CASE Cancel(h)
  BY <1>16 DEF Cancel
<1>17. QED
  BY <1>1, <1>2, <1>3, <1>4, <1>5, <1>6, <1>7, <1>8, <1>9, <1>10, <1>11, <1>12, <1>13, <1>14,
     <1>15, <1>16 DEF Step, Own

(* On the way *)
LEMMA UnderWayStep ==
  ASSUME NEW h \in Calls, TypeOK, CallInv, InTimeOK(h), Step(h)
  PROVE  UnderWayOK(h)'
<1> USE DEF CallInv, TypeOK, Goes, Sets, Ends, call, progress, metrics, Clears, UnderWayOK, Sent
<1>1. CASE Choose(h)
  BY <1>1, Chosen DEF Choose
<1>2. CASE Bucket(h)
  BY <1>2 DEF Bucket
<1>3. CASE Refused(h)
  BY <1>3 DEF Refused
<1>4. CASE Enter(h)
  BY <1>4, TimeoutValues, ProviderAssumption DEF Enter, EarlyOK, Timed, Kinds
<1>5. CASE Send(h)
  BY <1>5, Bound DEF Send
<1>6. CASE Wake(h)
  BY <1>6 DEF Wake, Passes
<1>7. CASE TimesOut(h)
  BY <1>7 DEF TimesOut
<1>8. CASE Leave(h)
  BY <1>8 DEF Leave
<1>9. CASE LeaveFails(h)
  BY <1>9 DEF LeaveFails
<1>10. CASE Count(h)
  BY <1>10 DEF Count
<1>11. CASE Cost(h)
  BY <1>11 DEF Cost
<1>12. CASE Untracked(h)
  BY <1>12 DEF Untracked
<1>13. CASE Answer(h)
  BY <1>13, Bound DEF Answer, Passes, InTimeOK
<1>14. CASE Error(h)
  BY <1>14 DEF Error
<1>15. CASE Limited(h)
  BY <1>15 DEF Limited, Passes, Retries
<1>16. CASE Cancel(h)
  BY <1>16 DEF Cancel
<1>17. QED
  BY <1>1, <1>2, <1>3, <1>4, <1>5, <1>6, <1>7, <1>8, <1>9, <1>10, <1>11, <1>12, <1>13, <1>14,
     <1>15, <1>16 DEF Step, Own

(* After the breaker *)
LEMMA LateStep ==
  ASSUME NEW h \in Calls, TypeOK, CallInv, Step(h)
  PROVE  LateOK(h)'
<1> USE DEF CallInv, TypeOK, Goes, Sets, Ends, call, progress, metrics, Clears, LateOK
<1>1. CASE Choose(h)
  <2>1. at'[h] \in {"bucket", "enter"} /\ model'[h] \in Models /\ model'[h].id \in Ids
    BY <1>1, Chosen
  <2>2. QED
    BY <2>1
<1>2. CASE Bucket(h)
  BY <1>2 DEF Bucket, UnderWayOK
<1>3. CASE Refused(h)
  BY <1>3 DEF Refused, UnderWayOK
<1>4. CASE Enter(h)
  BY <1>4, TimeoutValues DEF Enter, EarlyOK, Timed, Kinds
<1>5. CASE Send(h)
  BY <1>5 DEF Send, UnderWayOK
<1>6. CASE Wake(h)
  BY <1>6 DEF Wake, UnderWayOK
<1>7. CASE TimesOut(h)
  BY <1>7 DEF TimesOut, UnderWayOK
<1>8. CASE Leave(h)
  BY <1>8 DEF Leave, Told
<1>9. CASE LeaveFails(h)
  BY <1>9 DEF LeaveFails, Told
<1>10. CASE Count(h)
  BY <1>10 DEF Count, UnderWayOK
<1>11. CASE Cost(h)
  BY <1>11 DEF Cost, UnderWayOK
<1>12. CASE Untracked(h)
  BY <1>12 DEF Untracked, UnderWayOK
<1>13. CASE Answer(h)
  BY <1>13 DEF Answer, UnderWayOK
<1>14. CASE Error(h)
  BY <1>14 DEF Error, UnderWayOK
<1>15. CASE Limited(h)
  BY <1>15 DEF Limited, UnderWayOK
<1>16. CASE Cancel(h)
  BY <1>16 DEF Cancel, UnderWayOK
<1>17. QED
  BY <1>1, <1>2, <1>3, <1>4, <1>5, <1>6, <1>7, <1>8, <1>9, <1>10, <1>11, <1>12, <1>13, <1>14,
     <1>15, <1>16 DEF Step, Own

(* What the breaker is told *)
LEMMA ReportStep ==
  ASSUME NEW h \in Calls, TypeOK, CallInv, ReportOK(h), Step(h)
  PROVE  ReportOK(h)'
<1> USE DEF CallInv, TypeOK, Goes, Sets, Ends, call, progress, metrics, Clears, ReportOK
<1>1. CASE Choose(h)
  BY <1>1, Chosen DEF Choose, EarlyOK
<1>2. CASE Bucket(h)
  BY <1>2 DEF Bucket, EarlyOK
<1>3. CASE Refused(h)
  BY <1>3 DEF Refused, EarlyOK
<1>4. CASE Enter(h)
  BY <1>4 DEF Enter, EarlyOK
<1>5. CASE Send(h)
  BY <1>5 DEF Send, UnderWayOK
<1>6. CASE Wake(h)
  BY <1>6 DEF Wake, UnderWayOK
<1>7. CASE TimesOut(h)
  BY <1>7 DEF TimesOut, UnderWayOK
<1>8. CASE Leave(h)
  BY <1>8 DEF Leave, Told, LateOK
<1>9. CASE LeaveFails(h)
  BY <1>9 DEF LeaveFails, Told, LateOK
<1>10. CASE Count(h)
  BY <1>10 DEF Count, LateOK
<1>11. CASE Cost(h)
  BY <1>11 DEF Cost, LateOK
<1>12. CASE Untracked(h)
  BY <1>12 DEF Untracked, LateOK
<1>13. CASE Answer(h)
  BY <1>13 DEF Answer, UnderWayOK
<1>14. CASE Error(h)
  BY <1>14 DEF Error, UnderWayOK
<1>15. CASE Limited(h)
  BY <1>15 DEF Limited, UnderWayOK
<1>16. CASE Cancel(h)
  BY <1>16 DEF Cancel, UnderWayOK
<1>17. QED
  BY <1>1, <1>2, <1>3, <1>4, <1>5, <1>6, <1>7, <1>8, <1>9, <1>10, <1>11, <1>12, <1>13, <1>14,
     <1>15, <1>16 DEF Step, Own

(* Timeouts *)
LEMMA InTimeStep ==
  ASSUME NEW h \in Calls, TypeOK, CallInv, InTimeOK(h), Step(h)
  PROVE  InTimeOK(h)'
<1> USE DEF CallInv, TypeOK, Goes, Sets, Ends, call, progress, metrics, Clears, InTimeOK, Timed
<1>1. CASE Choose(h)
  BY <1>1, Chosen, TimeoutValues DEF Choose, EarlyOK
<1>2. CASE Bucket(h)
  BY <1>2 DEF Bucket, UnderWayOK, Sent
<1>3. CASE Refused(h)
  BY <1>3 DEF Refused, UnderWayOK, Sent
<1>4. CASE Enter(h)
  BY <1>4 DEF Enter, EarlyOK
<1>5. CASE Send(h)
  BY <1>5, Bound DEF Send, UnderWayOK, Sent
<1>6. CASE Wake(h)
  BY <1>6, TimeoutValues, BackoffValues DEF Wake, Passes, InTime, UnderWayOK, Sent, Timed
<1>7. CASE TimesOut(h)
  BY <1>7 DEF TimesOut, UnderWayOK, Sent
<1>8. CASE Leave(h)
  BY <1>8, TimeoutValues, Bound DEF Leave
<1>9. CASE LeaveFails(h)
  BY <1>9, TimeoutValues, Bound DEF LeaveFails
<1>10. CASE Count(h)
  BY <1>10 DEF Count
<1>11. CASE Cost(h)
  BY <1>11 DEF Cost
<1>12. CASE Untracked(h)
  BY <1>12 DEF Untracked
<1>13. CASE Answer(h)
  BY <1>13, TimeoutValues DEF Answer, Passes, InTime, UnderWayOK, Sent, Timed
<1>14. CASE Error(h)
  BY <1>14, TimeoutValues DEF Error, Passes, InTime, UnderWayOK, Sent, Timed
<1>15. CASE Limited(h)
  BY <1>15, TimeoutValues DEF Limited, Passes, InTime, UnderWayOK, Sent, Timed
<1>16. CASE Cancel(h)
  BY <1>16 DEF Cancel, UnderWayOK, Sent
<1>17. QED
  BY <1>1, <1>2, <1>3, <1>4, <1>5, <1>6, <1>7, <1>8, <1>9, <1>10, <1>11, <1>12, <1>13, <1>14,
     <1>15, <1>16 DEF Step, Own

(* The types, of the step's call *)
LEMMA HereTypes ==
  ASSUME NEW h \in Calls, TypeOK, CallInv, Step(h)
  PROVE  /\ at'[h] \in {"idle", "bucket", "enter", "send", "sent", "sleep", "leave",
                        "count", "cost", "answered"}
         /\ kind'[h] \in Kinds \cup {None} /\ model'[h] \in Models \cup {None}
         /\ batches'[h] \in Nat /\ attempt'[h] \in 0..3 /\ pause'[h] \in Nat /\ watch'[h] \in Nat
         /\ outcome'[h] \in {None, "result", "error"} /\ report'[h] \in {None, "result", "error"}
         /\ requests'[h] \in Nat /\ defaults'[h] \in Nat
<1> USE DEF TypeOK, Goes, Sets, Ends, call, progress, metrics, Clears
<1>0. Latencies \subseteq Nat /\ Headers \subseteq Nat
  BY ProviderAssumption
<1>1. CASE Choose(h)
  <2>1. batches'[h] \in Nat
    <3>1. \A k, m : RequestsOf(k, m) \subseteq Nat
      BY Bound DEF RequestsOf
    <3>2. QED
      BY <1>1, <3>1, Chosen
  <2>2. at'[h] \in {"bucket", "enter"} /\ kind'[h] \in Kinds /\ model'[h] \in Models
    BY <1>1, Chosen
  <2>3. UNCHANGED <<attempt, pause, watch, requests, defaults, outcome, report>>
    BY <1>1, Chosen
  <2>4. QED
    BY <2>1, <2>2, <2>3
<1>2. CASE Bucket(h)
  BY <1>2 DEF Bucket
<1>3. CASE Refused(h)
  BY <1>3 DEF Refused
<1>4. CASE Enter(h)
  BY <1>4 DEF Enter
<1>5. CASE Send(h)
  BY <1>5 DEF Send
<1>6. CASE Wake(h)
  BY <1>6, <1>0 DEF Wake, Passes, CallInv, UnderWayOK
<1>7. CASE TimesOut(h)
  BY <1>7 DEF TimesOut
<1>8. CASE Leave(h)
  BY <1>8 DEF Leave, Told
<1>9. CASE LeaveFails(h)
  BY <1>9 DEF LeaveFails, Told
<1>10. CASE Count(h)
  BY <1>10 DEF Count
<1>11. CASE Cost(h)
  BY <1>11 DEF Cost
<1>12. CASE Untracked(h)
  BY <1>12 DEF Untracked
<1>13. CASE Answer(h)
  BY <1>13, Bound, <1>0 DEF Answer, Passes, CallInv, UnderWayOK
<1>14. CASE Error(h)
  BY <1>14, <1>0 DEF Error, Passes
<1>15. CASE Limited(h)
  BY <1>15, <1>0, BackoffValues DEF Limited, Passes, Retries
<1>16. CASE Cancel(h)
  BY <1>16 DEF Cancel
<1>17. QED
  BY <1>1, <1>2, <1>3, <1>4, <1>5, <1>6, <1>7, <1>8, <1>9, <1>10, <1>11, <1>12, <1>13, <1>14,
     <1>15, <1>16 DEF Step, Own

(* The counters are numbers. *)
LEMMA CounterTypes ==
  ASSUME NEW h \in Calls, TypeOK, CallInv, Step(h)
  PROVE  calls' \in [Ids -> Nat] /\ costs' \in [Ids -> Nat]
<1> USE DEF TypeOK, metrics, CallInv, LateOK, Goes
<1>1. CASE Choose(h)
  BY <1>1 DEF Choose
<1>2. CASE Bucket(h)
  BY <1>2 DEF Bucket
<1>3. CASE Refused(h)
  BY <1>3 DEF Refused
<1>4. CASE Enter(h)
  BY <1>4 DEF Enter
<1>5. CASE Send(h)
  BY <1>5 DEF Send
<1>6. CASE Wake(h)
  BY <1>6 DEF Wake
<1>7. CASE TimesOut(h)
  BY <1>7 DEF TimesOut
<1>8. CASE Leave(h)
  BY <1>8 DEF Leave
<1>9. CASE LeaveFails(h)
  BY <1>9 DEF LeaveFails
<1>10. CASE Count(h)
  BY <1>10 DEF Count
<1>11. CASE Cost(h)
  BY <1>11 DEF Cost
<1>12. CASE Untracked(h)
  BY <1>12 DEF Untracked
<1>13. CASE Answer(h)
  BY <1>13 DEF Answer
<1>14. CASE Error(h)
  BY <1>14 DEF Error
<1>15. CASE Limited(h)
  BY <1>15 DEF Limited
<1>16. CASE Cancel(h)
  BY <1>16 DEF Cancel
<1>17. QED
  BY <1>1, <1>2, <1>3, <1>4, <1>5, <1>6, <1>7, <1>8, <1>9, <1>10, <1>11, <1>12, <1>13, <1>14,
     <1>15, <1>16 DEF Step, Own

(* The types. *)
LEMMA TypeStep ==
  ASSUME NEW h \in Calls, TypeOK, CallInv, Step(h)
  PROVE  TypeOK'
<1>1. untracked' \subseteq Calls
  BY Frame DEF TypeOK
<1>2. kind' \in [Calls -> Kinds \cup {None}]
  BY SMTT(20), Frame, HereTypes DEF TypeOK
<1>3. model' \in [Calls -> Models \cup {None}]
  BY SMTT(20), Frame, HereTypes DEF TypeOK
<1>4. batches' \in [Calls -> Nat]
  <2>1. batches' = [batches EXCEPT ![h] = batches'[h]] /\ batches'[h] \in Nat
    BY Frame, HereTypes
  <2>2. batches \in [Calls -> Nat]
    BY DEF TypeOK
  <2>3. QED
    BY <2>1, <2>2
<1>5. attempt' \in [Calls -> 0..3]
  <2>1. attempt' = [attempt EXCEPT ![h] = attempt'[h]] /\ attempt'[h] \in 0..3
    BY Frame, HereTypes
  <2>2. attempt \in [Calls -> 0..3]
    BY DEF TypeOK
  <2>3. QED
    BY <2>1, <2>2
<1>6. pause' \in [Calls -> Nat]
  <2>1. pause' = [pause EXCEPT ![h] = pause'[h]] /\ pause'[h] \in Nat
    BY Frame, HereTypes
  <2>2. pause \in [Calls -> Nat]
    BY DEF TypeOK
  <2>3. QED
    BY <2>1, <2>2
<1>7. watch' \in [Calls -> Nat]
  <2>1. watch' = [watch EXCEPT ![h] = watch'[h]] /\ watch'[h] \in Nat
    BY Frame, HereTypes
  <2>2. watch \in [Calls -> Nat]
    BY DEF TypeOK
  <2>3. QED
    BY <2>1, <2>2
<1>8. requests' \in [Calls -> Nat]
  <2>1. requests' = [requests EXCEPT ![h] = requests'[h]] /\ requests'[h] \in Nat
    BY Frame, HereTypes
  <2>2. requests \in [Calls -> Nat]
    BY DEF TypeOK
  <2>3. QED
    BY <2>1, <2>2
<1>9. defaults' \in [Calls -> Nat]
  <2>1. defaults' = [defaults EXCEPT ![h] = defaults'[h]] /\ defaults'[h] \in Nat
    BY Frame, HereTypes
  <2>2. defaults \in [Calls -> Nat]
    BY DEF TypeOK
  <2>3. QED
    BY <2>1, <2>2
<1>10. at' \in [Calls -> {"idle", "bucket", "enter", "send", "sent", "sleep", "leave",
                           "count", "cost", "answered"}]
  BY SMTT(20), Frame, HereTypes DEF TypeOK
<1>11. outcome' \in [Calls -> {None, "result", "error"}]
  BY SMTT(20), Frame, HereTypes DEF TypeOK
<1>12. report' \in [Calls -> {None, "result", "error"}]
  BY SMTT(20), Frame, HereTypes DEF TypeOK
<1>13. QED
  BY <1>1, <1>2, <1>3, <1>4, <1>5, <1>6, <1>7, <1>8, <1>9, <1>10, <1>11, <1>12,
     CounterTypes DEF TypeOK

-----------------------------------------------------------------------------
(* A counter stays between its bounds when nobody joins the set except one  *)
(* that is untracked, or when the one that joins is counted.                *)
Within(n, s, u) == Cardinality(s \ u) <= n /\ n <= Cardinality(s)
Moves(h, n, s, u, n2, s2, u2) ==
  \/ n2 = n /\ s2 \ u2 \subseteq s \ u /\ s \subseteq s2
  \/ n2 = n + 1 /\ h \notin s /\ s2 \ u2 \subseteq (s \ u) \cup {h} /\ s \cup {h} \subseteq s2

(* A step that makes either move keeps the counter between its bounds. *)
LEMMA Moved ==
  ASSUME NEW h, NEW n \in Nat, NEW n2, NEW s \in SUBSET Calls, NEW s2 \in SUBSET Calls, NEW u, NEW u2,
         Within(n, s, u), Moves(h, n, s, u, n2, s2, u2)
  PROVE  Within(n2, s2, u2)
<1>1. IsFiniteSet(s) /\ IsFiniteSet(s2)
  BY ProviderAssumption, FS_Subset
<1>2. IsFiniteSet(s \ u) /\ IsFiniteSet(s2 \ u2)
  <2>1. s \ u \in SUBSET s /\ s2 \ u2 \in SUBSET s2
    OBVIOUS
  <2>2. QED
    BY <1>1, <2>1, FS_Subset
<1>3. /\ Cardinality(s) \in Nat /\ Cardinality(s2) \in Nat
      /\ Cardinality(s \ u) \in Nat /\ Cardinality(s2 \ u2) \in Nat
  BY <1>1, <1>2, FS_CardinalityType
<1>4. CASE n2 = n /\ s2 \ u2 \subseteq s \ u /\ s \subseteq s2
  <2>1. Cardinality(s2 \ u2) <= Cardinality(s \ u) /\ Cardinality(s) <= Cardinality(s2)
    BY <1>1, <1>2, <1>4, FS_Subset
  <2>2. QED
    BY <1>3, <1>4, <2>1 DEF Within
<1>5. CASE n2 = n + 1 /\ h \notin s /\ s2 \ u2 \subseteq (s \ u) \cup {h} /\ s \cup {h} \subseteq s2
  <2>1. /\ IsFiniteSet((s \ u) \cup {h}) /\ Cardinality((s \ u) \cup {h}) <= Cardinality(s \ u) + 1
        /\ Cardinality(s \cup {h}) = Cardinality(s) + 1
    <3>1. h \notin s \ u
      BY <1>5
    <3>2. /\ IsFiniteSet((s \ u) \cup {h})
          /\ Cardinality((s \ u) \cup {h}) = Cardinality(s \ u) + 1
      BY <1>2, <3>1, FS_AddElement
    <3>3. Cardinality(s \cup {h}) = Cardinality(s) + 1
      BY <1>1, <1>5, FS_AddElement
    <3>4. QED
      BY <1>3, <3>2, <3>3
  <2>2. /\ Cardinality(s2 \ u2) <= Cardinality((s \ u) \cup {h})
        /\ Cardinality(s \cup {h}) <= Cardinality(s2)
    BY <1>1, <1>5, <2>1, FS_Subset
  <2>3. Cardinality((s \ u) \cup {h}) \in Nat
    BY <2>1, FS_CardinalityType
  <2>4. QED
    BY <1>3, <1>5, <2>1, <2>2, <2>3 DEF Within
<1>6. QED
  BY <1>4, <1>5 DEF Moves

(* The sets that are counted change at the step's call only. *)
LEMMA SetsFrame ==
  ASSUME NEW h \in Calls, NEW i \in Ids, TypeOK, Step(h)
  PROVE  /\ Counted(i) \subseteq Calls /\ Counted(i)' \subseteq Calls
         /\ Priced(i) \subseteq Calls /\ Priced(i)' \subseteq Calls
         /\ Counted(i)' \ {h} = Counted(i) \ {h} /\ Priced(i)' \ {h} = Priced(i) \ {h}
         /\ h \in Counted(i) <=> /\ report[h] = "result" /\ kind[h] # "stream" /\ model[h].id = i
                                 /\ at[h] \in {"cost", "answered"}
         /\ h \in Counted(i)' <=> /\ report'[h] = "result" /\ kind'[h] # "stream"
                                  /\ model'[h].id = i /\ at'[h] \in {"cost", "answered"}
         /\ h \in Priced(i) <=> /\ report[h] = "result" /\ kind[h] # "stream" /\ model[h].id = i
                                /\ at[h] = "answered"
         /\ h \in Priced(i)' <=> /\ report'[h] = "result" /\ kind'[h] # "stream"
                                 /\ model'[h].id = i /\ at'[h] = "answered"
<1>1. \A g \in Calls \ {h} : /\ at'[g] = at[g] /\ kind'[g] = kind[g] /\ model'[g] = model[g]
                             /\ report'[g] = report[g]
  BY Frame DEF TypeOK
<1>2. QED
  BY <1>1 DEF Counted, Priced, Good

(* Each step moves the counters with the sets. *)
LEMMA CountersMove ==
  ASSUME NEW h \in Calls, NEW i \in Ids, TypeOK, CallInv, Step(h)
  PROVE  /\ Moves(h, calls[i], Counted(i), untracked, calls'[i], Counted(i)', untracked')
         /\ Moves(h, costs[i], Priced(i), untracked, costs'[i], Priced(i)', untracked')
<1>0. None # "result" /\ None # "error"
  BY ProviderAssumption
<1>1. CASE Choose(h)
  BY SMTT(20), <1>0, <1>1, SetsFrame, Chosen DEF Moves, metrics, CallInv, EarlyOK, TypeOK
<1>2. CASE Bucket(h)
  BY <1>0, <1>2, SetsFrame
     DEF Bucket, Moves, CallInv, EarlyOK, UnderWayOK, LateOK, TypeOK, Goes, Sets, Ends, call, metrics, Clears
<1>3. CASE Refused(h)
  BY SMTT(20), <1>0, <1>3, SetsFrame
     DEF Refused, Moves, CallInv, EarlyOK, UnderWayOK, LateOK, TypeOK, Goes, Sets, Ends, call, metrics, Clears
<1>4. CASE Enter(h)
  BY SMTT(20), <1>0, <1>4, SetsFrame
     DEF Enter, Moves, CallInv, EarlyOK, UnderWayOK, LateOK, TypeOK, Goes, Sets, Ends, call, metrics, Clears
<1>5. CASE Send(h)
  BY <1>0, <1>5, SetsFrame
     DEF Send, Moves, CallInv, EarlyOK, UnderWayOK, LateOK, TypeOK, Goes, Sets, Ends, call, metrics, Clears
<1>6. CASE Wake(h)
  BY <1>0, <1>6, SetsFrame
     DEF Wake, Moves, CallInv, EarlyOK, UnderWayOK, LateOK, TypeOK, Goes, Sets, Ends, call, metrics, Clears
<1>7. CASE TimesOut(h)
  BY <1>0, <1>7, SetsFrame
     DEF TimesOut, Moves, CallInv, EarlyOK, UnderWayOK, LateOK, TypeOK, Goes, Sets, Ends, call, metrics, Clears
<1>8. CASE Leave(h)
  BY <1>0, <1>8, SetsFrame
     DEF Leave, Moves, CallInv, EarlyOK, UnderWayOK, LateOK, TypeOK, Goes, Sets, Ends, call, metrics, Clears, Told
<1>9. CASE LeaveFails(h)
  BY SMTT(20), <1>0, <1>9, SetsFrame
     DEF LeaveFails, Moves, CallInv, EarlyOK, UnderWayOK, LateOK, TypeOK, Goes, Sets, Ends, call, metrics, Clears, Told
<1>10. CASE Count(h)
  BY <1>0, <1>10, SetsFrame
     DEF Count, Moves, CallInv, EarlyOK, UnderWayOK, LateOK, TypeOK, Goes, Sets, Ends, call, metrics, Clears
<1>11. CASE Cost(h)
  BY <1>0, <1>11, SetsFrame
     DEF Cost, Moves, CallInv, EarlyOK, UnderWayOK, LateOK, TypeOK, Goes, Sets, Ends, call, metrics, Clears
<1>12. CASE Untracked(h)
  BY <1>0, <1>12, SetsFrame
     DEF Untracked, Moves, CallInv, EarlyOK, UnderWayOK, LateOK, TypeOK, Goes, Sets, Ends, call, metrics, Clears
<1>13. CASE Answer(h)
  BY <1>0, <1>13, SetsFrame
     DEF Answer, Moves, CallInv, EarlyOK, UnderWayOK, LateOK, TypeOK, Goes, Sets, Ends, call, metrics, Clears
<1>14. CASE Error(h)
  BY <1>0, <1>14, SetsFrame
     DEF Error, Moves, CallInv, EarlyOK, UnderWayOK, LateOK, TypeOK, Goes, Sets, Ends, call, metrics, Clears
<1>15. CASE Limited(h)
  BY <1>0, <1>15, SetsFrame
     DEF Limited, Moves, CallInv, EarlyOK, UnderWayOK, LateOK, TypeOK, Goes, Sets, Ends, call, metrics, Clears
<1>16. CASE Cancel(h)
  BY <1>0, <1>16, SetsFrame
     DEF Cancel, Moves, CallInv, EarlyOK, UnderWayOK, LateOK, TypeOK, Goes, Sets, Ends, call, metrics, Clears
<1>17. QED
  BY <1>1, <1>2, <1>3, <1>4, <1>5, <1>6, <1>7, <1>8, <1>9, <1>10, <1>11, <1>12, <1>13, <1>14,
     <1>15, <1>16 DEF Step, Own

-----------------------------------------------------------------------------
(* The inductive invariant, and what follows from it *)

IInv ==
  /\ TypeOK /\ CallInv /\ CountInv
  /\ \A h \in Calls : InTimeOK(h) /\ ReportOK(h)

(* It holds in the initial state. *)
LEMMA IInvInit ==
  ASSUME Init
  PROVE  IInv
<1> USE DEF Init
<1>1. TypeOK
  BY DEF TypeOK
<1>2. CallInv
  BY DEF CallInv, EarlyOK, UnderWayOK, LateOK
<1>3. \A h \in Calls : InTimeOK(h) /\ ReportOK(h)
  BY TimeoutValues, Bound DEF InTimeOK, ReportOK, Timed
<1>4. CountInv
  <2>1. None # "result"
    BY ProviderAssumption
  <2>2. \A i \in Ids : Counted(i) = {} /\ Priced(i) = {}
    BY <2>1 DEF Counted, Priced, Good
  <2>3. Cardinality({}) = 0 /\ Cardinality({} \ untracked) = 0
    <3>1. {} \ untracked = {}
      OBVIOUS
    <3>2. QED
      BY <3>1, FS_EmptySet
  <2>4. QED
    BY <2>2, <2>3 DEF CountInv, Between
<1>5. QED
  BY <1>1, <1>2, <1>3, <1>4 DEF IInv

(* Every step preserves it. *)
LEMMA IInvStep ==
  ASSUME IInv, [Next]_vars
  PROVE  IInv'
<1>1. ASSUME UNCHANGED vars
      PROVE  IInv'
  <2>1. TypeOK' /\ CallInv'
    BY <1>1 DEF vars, call, progress, metrics, IInv, TypeOK, CallInv, EarlyOK, UnderWayOK,
       LateOK, Sent
  <2>2. CountInv'
    BY <1>1 DEF vars, call, metrics, IInv, CountInv, Counted, Priced, Good, Between
  <2>3. \A h \in Calls : InTimeOK(h)' /\ ReportOK(h)'
    BY <1>1 DEF vars, call, progress, metrics, IInv, InTimeOK, ReportOK, Timed
  <2>4. QED
    BY <2>1, <2>2, <2>3 DEF IInv
<1>2. ASSUME NEW h \in Calls, Step(h)
      PROVE  IInv'
  <2>1. TypeOK'
    BY <1>2, TypeStep DEF IInv
  <2>2. CallInv'
    <3>1. EarlyOK(h)' /\ UnderWayOK(h)' /\ LateOK(h)'
      BY <1>2, EarlyStep, UnderWayStep, LateStep DEF IInv
    <3>2. \A g \in Calls \ {h} : EarlyOK(g)' /\ UnderWayOK(g)' /\ LateOK(g)'
      BY <1>2, OthersStay DEF IInv
    <3>3. QED
      BY <3>1, <3>2 DEF CallInv
  <2>3. CountInv'
    <3> SUFFICES ASSUME NEW i \in Ids
                 PROVE  Between(calls[i], Counted(i))' /\ Between(costs[i], Priced(i))'
      BY DEF CountInv
    <3>1. /\ Within(calls[i], Counted(i), untracked) /\ Within(costs[i], Priced(i), untracked)
          /\ calls[i] \in Nat /\ costs[i] \in Nat
      BY DEF IInv, CountInv, Between, Within, TypeOK
    <3>2. /\ Counted(i) \in SUBSET Calls /\ Counted(i)' \in SUBSET Calls
          /\ Priced(i) \in SUBSET Calls /\ Priced(i)' \in SUBSET Calls
      BY DEF Counted, Priced, Good
    <3>3. /\ Moves(h, calls[i], Counted(i), untracked, calls'[i], Counted(i)', untracked')
          /\ Moves(h, costs[i], Priced(i), untracked, costs'[i], Priced(i)', untracked')
      BY <1>2, CountersMove DEF IInv
    <3>4. /\ Within(calls'[i], Counted(i)', untracked')
          /\ Within(costs'[i], Priced(i)', untracked')
      BY <3>1, <3>2, <3>3, Moved
    <3>5. QED
      BY <3>4 DEF Between, Within
  <2>4. \A g \in Calls : InTimeOK(g)' /\ ReportOK(g)'
    <3>1. InTimeOK(h)' /\ ReportOK(h)'
      BY <1>2, InTimeStep, ReportStep DEF IInv
    <3>2. ASSUME NEW g \in Calls \ {h}
          PROVE  InTimeOK(g)' /\ ReportOK(g)'
      <4>1. /\ watch'[g] = watch[g] /\ kind'[g] = kind[g] /\ model'[g] = model[g]
            /\ defaults'[g] = defaults[g] /\ requests'[g] = requests[g]
            /\ report'[g] = report[g] /\ batches'[g] = batches[g]
        BY <1>2, Frame DEF IInv, TypeOK
      <4>2. QED
        BY <4>1 DEF IInv, InTimeOK, ReportOK, Timed
    <3>3. QED
      BY <3>1, <3>2
  <2>5. QED
    BY <2>1, <2>2, <2>3, <2>4 DEF IInv
<1>3. QED
  BY <1>1, <1>2 DEF Next, Step

(* Calls never leave the inductive invariant. *)
THEOREM Invariance == Spec => []IInv
BY IInvInit, IInvStep, PTL DEF Spec

(* What calls hold and what is counted keep their types. *)
THEOREM TypeCorrect == Spec => []TypeOK
<1>1. IInv => TypeOK
  BY DEF IInv
<1>2. QED
  BY <1>1, Invariance, PTL

(* run_with_timeout around _execute_with_retry: the timeout bounds requests *)
(* and waits together, which some retries therefore never see.              *)
THEOREM RetriesBounded == Spec => []RetriesInTime
<1>1. IInv => RetriesInTime
  BY DEF IInv, InTimeOK, RetriesInTime
<1>2. QED
  BY <1>1, Invariance, PTL

(* The breaker of the client and _track_metrics: a success is told, and a   *)
(* call counted, exactly when the provider has answered everything.         *)
THEOREM CallsCorrect == Spec => []CallsAccounted
<1>1. IInv => CallsAccounted
  BY DEF IInv, ReportOK, CallsAccounted, CountInv, Counted, Priced, Good
<1>2. QED
  BY <1>1, Invariance, PTL
=============================================================================
