------------------------------ MODULE ProviderCall ------------------------------
(***************************************************************************)
(* A call of a provider (backend/providers/client.py): the choice of the   *)
(* model, the token bucket, the circuit breaker around the timeout around  *)
(* the retries of the provider, and the metrics.                           *)
(*                                                                         *)
(* Each call has a stopwatch, in seconds, of its own: calls meet only in   *)
(* counters and in the breaker and the bucket, which other modules model   *)
(* (CircuitBreaker, RateLimiter) and which here let a call pass or raise.  *)
(* Commands to Redis are answered, or raise.                               *)
(***************************************************************************)
EXTENDS Router, FiniteSets

CONSTANTS
  Calls,       \* calls of chat, stream and embed
  Registries,  \* what router:models may hold when a call reads it
  Latencies,   \* how many seconds a provider may take to answer
  Headers,     \* the retry-after headers it may send, in seconds
  MaxBatches,  \* bound on the batches of 100 texts of an embedding
  None

(* The task types the source calls for, and client.stream *)
Kinds == {"rag_generation", "evaluation", "classification", "embedding", "stream"}

ASSUME ProviderAssumption ==
  /\ IsFiniteSet(Calls)
  /\ \A models \in Registries : models \in Seq(Models)
  /\ Latencies \subseteq Nat /\ Headers \subseteq Nat
  /\ MaxBatches \in Nat \ {0}
  /\ None \notin Models \cup Nat \cup {"result", "error"}

VARIABLES
  at,        \* where each call is
  kind,      \* what it was called for
  model,     \* the model it was routed to
  batches,   \* requests that it has yet to get an answer to
  attempt,   \* attempts of the current one that were limited
  pause,     \* how long it sleeps before the next attempt
  watch,     \* the seconds since its timeout began to run
  outcome,   \* what is returned or raised through the breaker
  report,    \* history: what its breaker was told
  requests,  \* history: calls of its provider's SDK
  defaults,  \* history: waits of the default length it has completed
  calls,     \* metrics:model:<id>:calls
  costs,     \* metrics:model:<id>:cost_usd, as the number of its increments
  untracked  \* history: calls whose breaker or metrics raised in the end

call == <<kind, model>>
progress == <<batches, attempt, pause, watch, requests, defaults>>
metrics == <<calls, costs, untracked>>
vars == <<at, call, progress, outcome, report, metrics>>

Ids == {m.id : m \in {Mini} \cup UNION {{models[i] : i \in DOMAIN models} :
                                          models \in Registries \cup {DefaultModels}}}
Init ==
  /\ at = [h \in Calls |-> "idle"]
  /\ kind = [h \in Calls |-> None]
  /\ model = [h \in Calls |-> None]
  /\ batches = [h \in Calls |-> 0]
  /\ attempt = [h \in Calls |-> 0]
  /\ pause = [h \in Calls |-> 0]
  /\ watch = [h \in Calls |-> 0]
  /\ outcome = [h \in Calls |-> None]
  /\ report = [h \in Calls |-> None]
  /\ requests = [h \in Calls |-> 0]
  /\ defaults = [h \in Calls |-> 0]
  /\ calls = [i \in Ids |-> 0]
  /\ costs = [i \in Ids |-> 0]
  /\ untracked = {}

Goes(h, from, to) == at[h] = from /\ at' = [at EXCEPT ![h] = to]
Sets(h, result) == outcome' = [outcome EXCEPT ![h] = result]
Ends(h) == Sets(h, "error") /\ at' = [at EXCEPT ![h] = "answered"]

-----------------------------------------------------------------------------
(* Streams are routed as answers are; the description of an image asks for *)
(* an answer by a model with vision (extractors/image_extractor.py).       *)
TaskOf(k) == IF k = "stream" THEN "rag_generation" ELSE k
Ask(k, vision) == [task |-> TaskOf(k), vision |-> vision, long |-> FALSE, tuned |-> FALSE,
                   limit |-> NoLimit]
Asks(k) == {Ask(k, v) : v \in IF k = "rag_generation" THEN BOOLEAN ELSE {FALSE}}

(* Claude makes embeddings of its own, without a request. *)
RequestsOf(k, m) ==
  IF k # "embedding" THEN {1} ELSE IF m.provider = "anthropic" THEN {0} ELSE 0..MaxBatches

(* Gemini, and embeddings by others than openai, have no bucket. *)
Metered(k, m) ==
  m.provider \in IF k = "embedding" THEN {"openai"} ELSE {"openai", "anthropic"}

(* The list in Redis, or the default one if there is none or it cannot be  *)
(* read                                                                    *)
Choose(h) ==
  \E k \in Kinds, models \in Registries \cup {DefaultModels} : \E c \in Asks(k) :
    LET m == Route(models, c) IN
    /\ Goes(h, "idle", IF Metered(k, m) THEN "bucket" ELSE "enter")
    /\ kind' = [kind EXCEPT ![h] = k]
    /\ model' = [model EXCEPT ![h] = m]
    /\ \E n \in RequestsOf(k, m) : batches' = [batches EXCEPT ![h] = n]
    /\ UNCHANGED <<attempt, pause, watch, requests, defaults, outcome, report, metrics>>

(* check_token_bucket *)
Bucket(h) ==
  /\ Goes(h, "bucket", "enter")
  /\ UNCHANGED <<call, progress, outcome, report, metrics>>

(* It raises, or __aenter__ does: the breaker is not told. *)
Refused(h) ==
  /\ at[h] \in {"bucket", "enter"}
  /\ Ends(h)
  /\ UNCHANGED <<call, progress, report, metrics>>

(* TIMEOUTS, by the task type of the call; chat_completion stands for      *)
(* rag_generation.  Streams are not timed, classification has no timeout.  *)
Timeouts == [rag_generation |-> 60, evaluation |-> 120, embedding |-> 10]
Timed(h) == kind[h] \in DOMAIN Timeouts

(* Inside the breaker: a task type without a timeout raises at once.       *)
Enter(h) ==
  /\ LET begins == Timed(h) \/ kind[h] = "stream" IN
       /\ Goes(h, "enter",
               IF ~begins THEN "leave" ELSE IF batches[h] = 0 THEN "leave" ELSE "send")
       /\ Sets(h, IF ~begins THEN "error" ELSE IF batches[h] = 0 THEN "result" ELSE None)
  /\ UNCHANGED <<call, progress, report, metrics>>

-----------------------------------------------------------------------------
(* _execute_with_retry *)

(* One call of the SDK.  The SDK may send its request twice more by itself, *)
(* for its clients are made with their default max_retries: requests are   *)
(* counted, and a provider answers, as this code sees them.                *)
Send(h) ==
  /\ Goes(h, "send", "sent")
  /\ requests' = [requests EXCEPT ![h] = @ + 1]
  /\ UNCHANGED <<call, batches, attempt, pause, watch, defaults, outcome, report, metrics>>

(* Mutant of InTime: each request and each wait has the time for itself.   *)
InTimeEach(h, d) == Timed(h) => d < Timeouts[kind[h]]

(* wait_for is around all of them. *)
InTime(h, d) == Timed(h) => watch[h] + d < Timeouts[kind[h]]

Passes(h, d) ==
  /\ InTime(h, d)
  /\ watch' = [watch EXCEPT ![h] = IF Timed(h) THEN @ + d ELSE @]

(* Mutant of Answer: one batch too many *)
AnswerOver(h) ==
  /\ Goes(h, "sent", IF batches[h] = 0 THEN "leave" ELSE "send")
  /\ Sets(h, IF batches[h] = 0 THEN "result" ELSE None)
  /\ batches' = [batches EXCEPT ![h] = @ - 1]
  /\ attempt' = [attempt EXCEPT ![h] = 0]
  /\ \E d \in Latencies : Passes(h, d)
  /\ UNCHANGED <<call, pause, requests, defaults, report, metrics>>

(* The provider answers: the next batch, or the result *)
Answer(h) ==
  /\ Goes(h, "sent", IF batches[h] = 1 THEN "leave" ELSE "send")
  /\ Sets(h, IF batches[h] = 1 THEN "result" ELSE None)
  /\ batches' = [batches EXCEPT ![h] = @ - 1]
  /\ attempt' = [attempt EXCEPT ![h] = 0]
  /\ \E d \in Latencies : Passes(h, d)
  /\ UNCHANGED <<call, pause, requests, defaults, report, metrics>>

(* Any error ends the call, except a limit: streams of Claude do not retry *)
(* at all, others three times.                                             *)
Error(h) ==
  /\ Goes(h, "sent", "leave")
  /\ Sets(h, "error")
  /\ \E d \in Latencies : Passes(h, d)
  /\ UNCHANGED <<call, batches, attempt, pause, requests, defaults, report, metrics>>

Retries(h) == ~(kind[h] = "stream" /\ model[h].provider = "anthropic") /\ attempt[h] < 3
Backoff(h) ==
  (IF model[h].provider = "anthropic" THEN <<2, 4, 8>> ELSE <<15, 30, 60>>)[attempt[h] + 1]

Limited(h) ==
  /\ Retries(h)
  /\ Goes(h, "sent", "sleep")
  /\ \E w \in Headers \cup {Backoff(h)} : pause' = [pause EXCEPT ![h] = w]
  /\ \E d \in Latencies : Passes(h, d)
  /\ UNCHANGED <<call, batches, attempt, requests, defaults, outcome, report, metrics>>

Wake(h) ==
  /\ Goes(h, "sleep", "send")
  /\ Passes(h, pause[h])
  /\ defaults' = [defaults EXCEPT ![h] = IF pause[h] = Backoff(h) THEN @ + 1 ELSE @]
  /\ attempt' = [attempt EXCEPT ![h] = @ + 1]
  /\ pause' = [pause EXCEPT ![h] = 0]
  /\ UNCHANGED <<call, batches, requests, outcome, report, metrics>>

(* Mutant of TimesOut: a request is cancelled, a sleep is not. *)
TimesOutAwake(h) ==
  /\ Timed(h)
  /\ Goes(h, "sent", "leave")
  /\ Sets(h, "error")
  /\ UNCHANGED <<call, progress, report, metrics>>

(* run_with_timeout: the request or the sleep is cancelled, and counted.   *)
TimesOut(h) ==
  /\ Timed(h)
  /\ Goes(h, "sent", "leave") \/ Goes(h, "sleep", "leave")
  /\ Sets(h, "error")
  /\ UNCHANGED <<call, progress, report, metrics>>

(* The caller is cancelled, or stops to read the stream. *)
Cancel(h) ==
  /\ at[h] \in {"send", "sent", "sleep"}
  /\ at' = [at EXCEPT ![h] = "leave"]
  /\ Sets(h, "error")
  /\ UNCHANGED <<call, progress, report, metrics>>

-----------------------------------------------------------------------------
Clears(h) ==
  /\ attempt' = [attempt EXCEPT ![h] = 0] /\ pause' = [pause EXCEPT ![h] = 0]
  /\ watch' = [watch EXCEPT ![h] = 0]
  /\ requests' = [requests EXCEPT ![h] = 0] /\ defaults' = [defaults EXCEPT ![h] = 0]

(* Mutant of Told: a cancelled or timed out call is none of its business.  *)
ToldErrors(h) ==
  IF outcome[h] = "result" \/ requests[h] > 0 THEN "result" ELSE "error"

(* __aexit__ tells success from failure by the exception. *)
Told(h) == outcome[h]

(* A stream has no metrics. *)
Leave(h) ==
  /\ Goes(h, "leave", IF outcome[h] = "result" /\ kind[h] # "stream" THEN "count" ELSE "answered")
  /\ report' = [report EXCEPT ![h] = Told(h)]
  /\ Clears(h)
  /\ UNCHANGED <<call, batches, outcome, metrics>>

(* __aexit__ raises, and what it raises replaces the result; it may have   *)
(* counted the call.                                                       *)
LeaveFails(h) ==
  /\ at[h] = "leave"
  /\ Ends(h)
  /\ report' \in {report, [report EXCEPT ![h] = Told(h)]}
  /\ untracked' = untracked \cup {h}
  /\ Clears(h)
  /\ UNCHANGED <<call, batches, calls, costs>>

(* _track_metrics: INCR and INCRBYFLOAT; what they raise is swallowed.     *)
Count(h) ==
  /\ Goes(h, "count", "cost")
  /\ calls' = [calls EXCEPT ![model[h].id] = @ + 1]
  /\ UNCHANGED <<call, progress, outcome, report, costs, untracked>>

Cost(h) ==
  /\ Goes(h, "cost", "answered")
  /\ costs' = [costs EXCEPT ![model[h].id] = @ + 1]
  /\ UNCHANGED <<call, progress, outcome, report, calls, untracked>>

(* The command that raises may have taken effect; the caller gets its      *)
(* result, unless it is cancelled.                                         *)
Untracked(h) ==
  /\ Goes(h, "count", "answered") \/ Goes(h, "cost", "answered")
  /\ calls' \in {calls, [calls EXCEPT ![model[h].id] = IF at[h] = "count" THEN @ + 1 ELSE @]}
  /\ costs' \in {costs, [costs EXCEPT ![model[h].id] = IF at[h] = "cost" THEN @ + 1 ELSE @]}
  /\ untracked' = untracked \cup {h}
  /\ Sets(h, "error") \/ UNCHANGED outcome
  /\ UNCHANGED <<call, progress, report>>

(* What the process and Redis do by themselves *)
Own(h) ==
  \/ Bucket(h) \/ Refused(h) \/ Enter(h) \/ Send(h) \/ Wake(h)
  \/ TimesOut(h) \/ Leave(h) \/ LeaveFails(h) \/ Count(h) \/ Cost(h) \/ Untracked(h)

Next == \E h \in Calls : Choose(h) \/ Own(h) \/ Answer(h) \/ Error(h) \/ Limited(h) \/ Cancel(h)
Spec == Init /\ [][Next]_vars
FairSpec == Spec /\ \A h \in Calls : WF_vars(Own(h))

-----------------------------------------------------------------------------
(* Properties *)

(* The types of the calls, and of the counters of calls and costs *)
TypeOK ==
  /\ at \in [Calls -> {"idle", "bucket", "enter", "send", "sent", "sleep", "leave",
                       "count", "cost", "answered"}]
  /\ kind \in [Calls -> Kinds \cup {None}]
  /\ model \in [Calls -> Models \cup {None}]
  /\ batches \in [Calls -> Nat]
  /\ attempt \in [Calls -> 0..3]
  /\ pause \in [Calls -> Nat] /\ watch \in [Calls -> Nat]
  /\ outcome \in [Calls -> {None, "result", "error"}]
  /\ report \in [Calls -> {None, "result", "error"}]
  /\ requests \in [Calls -> Nat] /\ defaults \in [Calls -> Nat]
  /\ calls \in [Ids -> Nat] /\ costs \in [Ids -> Nat]
  /\ untracked \subseteq Calls

(* The breaker of a provider is told of a success exactly when the provider *)
(* has answered everything it was asked, and of a failure otherwise, also   *)
(* when it was never asked; and the calls and the costs of a model count    *)
(* the calls that got a result from it, up to those that raised after it,   *)
(* in whatever order the calls of several callers end.                      *)
Between(n, hs) == Cardinality(hs \ untracked) <= n /\ n <= Cardinality(hs)
CallsAccounted ==
  /\ \A h \in Calls : report[h] # None =>
       (report[h] = "result" <=> kind[h] # "classification" /\ batches[h] = 0)
  /\ \A i \in Ids :
       LET good == {h \in Calls : report[h] = "result" /\ kind[h] # "stream" /\ model[h].id = i}
       IN /\ Between(calls[i], {h \in good : at[h] \in {"cost", "answered"}})
          /\ Between(costs[i], {h \in good : at[h] = "answered"})

(* The timeout bounds the requests and the waits together: a limited        *)
(* embedding is never retried after a wait of the default length, nor       *)
(* openai three times for a chat completion.  No call calls the SDK more    *)
(* than four times a batch.                                                 *)
RetriesInTime ==
  \A h \in Calls :
    /\ Timed(h) => watch[h] < Timeouts[kind[h]]
    /\ kind[h] = "embedding" => defaults[h] = 0
    /\ kind[h] = "rag_generation" /\ model[h].provider # "anthropic" => defaults[h] <= 2
    /\ requests[h] <= 4 * MaxBatches

(* Every call but a stream ends, whatever the provider does or leaves: the  *)
(* timeout cancels the request and the waits between requests.              *)
CallsEnd == \A h \in Calls : at[h] # "idle" /\ kind[h] # "stream" ~> at[h] = "answered"
=============================================================================
