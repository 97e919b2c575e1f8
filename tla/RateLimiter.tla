------------------------------ MODULE RateLimiter ------------------------------
(***************************************************************************)
(* The two rate limits of POST /query (backend/resilience/rate_limiter.py, *)
(* composed in backend/api/query.py): a sliding window per client, kept in *)
(* a sorted set, then a token bucket per pipeline, kept in two keys and    *)
(* updated by a Lua script.  Redis executes the pipeline of the window and *)
(* the script atomically, but each works with the time its caller read     *)
(* before sending it, so that times reach Redis out of order.              *)
(*                                                                         *)
(* One client and one pipeline are modelled: keys of others are disjoint.  *)
(* A tick is a fraction 1/k of a second such that a token comes every      *)
(* TokenInterval ticks (rpm = 60 k / TokenInterval).  The processes share  *)
(* one clock, which does not go back.                                      *)
(***************************************************************************)
EXTENDS Integers, FiniteSets

CONSTANTS
  Requests,       \* requests of the client to the pipeline
  Limit,          \* requests per window (60)
  WindowTicks,    \* window_seconds (60)
  MaxTokens,      \* max_tokens (the pipeline's rate_limit_rpm)
  TokenInterval,  \* 1 / refill_rate_per_sec
  MaxClock,       \* bound on the clock
  MaxFaults       \* bound on the number of faults

ASSUME LimiterAssumption ==
  /\ IsFiniteSet(Requests)
  /\ Limit \in Nat \ {0}
  /\ WindowTicks \in Nat \ {0}
  /\ MaxTokens \in Nat \ {0}
  /\ TokenInterval \in Nat \ {0}
  /\ MaxClock \in Nat
  /\ MaxFaults \in Nat

VARIABLES
  clock,       \* time.time(), on every host
  pc,          \* where each request is, or how it ended
  now,         \* the local variable of each check that is running, else 0
  score,       \* the score of each request's member of the sorted set
  window,      \* members of sliding:query_api:<ip>
  expiry,      \* when that key expires
  tokens,      \* rpb:pipeline:<id>:tokens, or Missing
  lastUpdate,  \* rpb:pipeline:<id>:last_update, or Missing
  admitted,    \* history: requests the window let through
  forgotten,   \* history: those of them whose member was evicted
  born,        \* history: the time the bucket was last created with
  spent,       \* history: tokens taken from it since then
  faults       \* history: number of faults so far

vars == <<clock, pc, now, score, window, expiry, tokens, lastUpdate,
          admitted, forgotten, born, spent, faults>>
sortedSet == <<score, window, expiry, admitted, forgotten>>
bucket == <<tokens, lastUpdate, born, spent>>

Missing == -1

Steps == {"idle", "window", "withdraw", "screen", "bucket"}
Answers == {"rejected", "refused", "granted", "denied", "unmetered", "lost"}

Init ==
  /\ clock = 0
  /\ pc = [r \in Requests |-> "idle"]
  /\ now = [r \in Requests |-> 0]
  /\ score = [r \in Requests |-> 0]
  /\ window = {}
  /\ expiry = 0
  /\ tokens = Missing
  /\ lastUpdate = Missing
  /\ admitted = {}
  /\ forgotten = {}
  /\ born = 0
  /\ spent = 0
  /\ faults = 0

Moves(r, from, to) == pc[r] = from /\ pc' = [pc EXCEPT ![r] = to]
ReadsClock(r) == now' = [now EXCEPT ![r] = clock]
Returns(r) == now' = [now EXCEPT ![r] = 0]

-----------------------------------------------------------------------------
(* check_sliding_window *)

Arrive(r) ==
  /\ Moves(r, "idle", "window")
  /\ ReadsClock(r)
  /\ UNCHANGED <<clock, sortedSet, bucket, faults>>

(* An expired key reads as an empty set. *)
Members == IF clock >= expiry THEN {} ELSE window

(* ZREMRANGEBYSCORE -inf window_start: what is left for ZCARD to count. *)
Current(r) == {q \in Members : score[q] > now[r] - WindowTicks}

(* Mutant of OverLimit: one request more. *)
OverLimitMore(r) == Cardinality(Current(r)) > Limit

OverLimit(r) == Cardinality(Current(r)) >= Limit

(* Mutant of Record: the member's score is the end of its window. *)
RecordUntil(r) ==
  /\ window' = Current(r) \cup {r}
  /\ score' = [score EXCEPT ![r] = now[r] + WindowTicks]
  /\ expiry' = clock + WindowTicks

(* The whole pipeline: ZREMRANGEBYSCORE, ZCARD, ZADD, EXPIRE.  The member   *)
(* is added in any case.                                                    *)
Record(r) ==
  /\ window' = Current(r) \cup {r}
  /\ score' = [score EXCEPT ![r] = now[r]]
  /\ expiry' = clock + WindowTicks

Window(r) ==
  /\ Moves(r, "window", IF OverLimit(r) THEN "withdraw" ELSE "screen")
  /\ Record(r)
  /\ admitted' = IF OverLimit(r) THEN admitted ELSE admitted \cup {r}
  /\ Returns(r)
  /\ UNCHANGED <<clock, forgotten, bucket, faults>>

(* Mutant of Withdraw: the member stays. *)
WithdrawNothing(r) ==
  /\ Moves(r, "withdraw", "rejected")
  /\ UNCHANGED <<clock, now, sortedSet, bucket, faults>>

(* ZREM of the member of a request over the limit, and 429. *)
Withdraw(r) ==
  /\ Moves(r, "withdraw", "rejected")
  /\ window' = window \ {r}
  /\ UNCHANGED <<clock, now, score, expiry, admitted, forgotten, bucket, faults>>

-----------------------------------------------------------------------------
(* create_query, between the two limits, and check_token_bucket *)

(* The length check and the injection detection may refuse the query (400). *)
Screen(r) ==
  /\ \/ Moves(r, "screen", "bucket") /\ ReadsClock(r)
     \/ Moves(r, "screen", "refused") /\ UNCHANGED now
  /\ UNCHANGED <<clock, sortedSet, bucket, faults>>

(* Reads of the two keys: a missing bucket is created full.                 *)
Fresh == tokens = Missing
Last(r) == IF Fresh THEN now[r] ELSE lastUpdate

(* Mutant of Refill: rounded up. *)
RefillUp(r) == (now[r] - Last(r) + TokenInterval - 1) \div TokenInterval

Refill(r) == (now[r] - Last(r)) \div TokenInterval

(* A time read before the last update refills nothing.                      *)
Available(r) ==
  IF Fresh THEN MaxTokens
  ELSE IF Refill(r) > 0 /\ tokens + Refill(r) < MaxTokens THEN tokens + Refill(r)
  ELSE IF Refill(r) > 0 THEN MaxTokens
  ELSE tokens

(* The script raises when only the second key is missing: nil arithmetic.   *)
ScriptRaises == ~Fresh /\ lastUpdate = Missing

Take(r) ==
  /\ ~ScriptRaises
  /\ Available(r) >= 1
  /\ tokens' = Available(r) - 1
  /\ lastUpdate' = IF Refill(r) > 0 THEN now[r] ELSE Last(r)
  /\ born' = IF Fresh THEN now[r] ELSE born
  /\ spent' = IF Fresh THEN 1 ELSE spent + 1

Grant(r) ==
  /\ Moves(r, "bucket", "granted")
  /\ Take(r)
  /\ Returns(r)
  /\ UNCHANGED <<clock, sortedSet, faults>>

(* With one token per request a denial never follows a refill.              *)
Deny(r) ==
  /\ Moves(r, "bucket", "denied")
  /\ ~ScriptRaises
  /\ Available(r) < 1
  /\ Returns(r)
  /\ UNCHANGED <<clock, sortedSet, bucket, faults>>

(* create_query logs any other exception than 429 and goes on.              *)
GoOn(r) ==
  /\ Moves(r, "bucket", "unmetered")
  /\ ScriptRaises
  /\ Returns(r)
  /\ UNCHANGED <<clock, sortedSet, bucket, faults>>

Serve(r) ==
  Arrive(r) \/ Window(r) \/ Withdraw(r) \/ Screen(r) \/ Grant(r) \/ Deny(r) \/ GoOn(r)

-----------------------------------------------------------------------------
(* Environment *)

Tick ==
  /\ clock < MaxClock
  /\ clock' = clock + 1
  /\ UNCHANGED <<pc, now, sortedSet, bucket, faults>>

Fault == faults < MaxFaults /\ faults' = faults + 1

(* The handler's process dies or a Redis command of the window fails (500). *)
Crash(r) ==
  /\ \E from \in {"window", "withdraw", "screen"} : Moves(r, from, "lost")
  /\ Returns(r)
  /\ Fault
  /\ UNCHANGED <<clock, sortedSet, bucket>>

(* Redis executes the pipeline and its answer is lost (500). *)
WindowUnanswered(r) ==
  /\ Moves(r, "window", "lost")
  /\ Record(r)
  /\ Returns(r)
  /\ Fault
  /\ UNCHANGED <<clock, admitted, forgotten, bucket>>

(* The answer of the script, or the script itself, is lost.                 *)
BucketUnanswered(r) ==
  /\ Moves(r, "bucket", "unmetered")
  /\ Take(r) \/ UNCHANGED bucket
  /\ Returns(r)
  /\ Fault
  /\ UNCHANGED <<clock, sortedSet>>

(* maxmemory-policy allkeys-lru evicts keys one by one. *)
EvictWindow ==
  /\ window # {}
  /\ window' = {}
  /\ forgotten' = admitted
  /\ Fault
  /\ UNCHANGED <<clock, pc, now, score, expiry, admitted, bucket>>

EvictTokens ==
  /\ tokens # Missing
  /\ tokens' = Missing
  /\ Fault
  /\ UNCHANGED <<clock, pc, now, sortedSet, lastUpdate, born, spent>>

EvictLastUpdate ==
  /\ lastUpdate # Missing
  /\ lastUpdate' = Missing
  /\ Fault
  /\ UNCHANGED <<clock, pc, now, sortedSet, tokens, born, spent>>

Next ==
  \/ Tick
  \/ \E r \in Requests : Serve(r) \/ Crash(r) \/ WindowUnanswered(r) \/ BucketUnanswered(r)
  \/ EvictWindow \/ EvictTokens \/ EvictLastUpdate

Spec == Init /\ [][Next]_vars
-----------------------------------------------------------------------------
(* Properties *)

TypeOK ==
  /\ clock \in 0..MaxClock
  /\ pc \in [Requests -> Steps \cup Answers]
  /\ now \in [Requests -> 0..MaxClock]
  /\ score \in [Requests -> 0..MaxClock]
  /\ window \subseteq Requests
  /\ expiry \in Nat
  /\ tokens \in {Missing} \cup 0..MaxTokens
  /\ lastUpdate \in {Missing} \cup 0..MaxClock
  /\ admitted \subseteq Requests
  /\ forgotten \subseteq admitted
  /\ born \in 0..MaxClock
  /\ spent \in Nat
  /\ faults \in 0..MaxFaults

(* At any time, however requests overtake each other on the way to Redis,   *)
(* at most Limit of those the window let through read the clock less than a *)
(* window ago (not counting those whose member was evicted).                *)
Recent(r) == score[r] > clock - WindowTicks
WindowLimits == Cardinality({r \in admitted \ forgotten : Recent(r)}) <= Limit

(* A client below the limit is not turned away: a request over the limit    *)
(* finds Limit others in its window that were let through, are still to be  *)
(* withdrawn, or were lost on the way.  A rejected request leaves no trace. *)
Counts(q) == q \in admitted \/ pc[q] \in {"withdraw", "lost"}
RejectedForCause ==
  [][\A r \in Requests : Moves(r, "window", "withdraw") =>
       Cardinality({q \in Requests : Counts(q) /\ score[q] > now[r] - WindowTicks}) >= Limit]_vars

(* The bucket neither invents nor loses tokens while its keys exist: what   *)
(* was taken and what is left make up the initial content plus at most one  *)
(* token per interval, even if late requests carry times that precede the   *)
(* last update.                                                             *)
BucketBalance ==
  tokens # Missing /\ lastUpdate # Missing =>
    /\ spent + tokens >= MaxTokens
    /\ TokenInterval * (spent + tokens - MaxTokens) <= lastUpdate - born
=============================================================================
