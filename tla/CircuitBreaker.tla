---------------------------- MODULE CircuitBreaker ----------------------------
(***************************************************************************)
(* The Redis-backed circuit breaker that guards every call to an LLM       *)
(* provider (backend/resilience/circuit_breaker.py).  All API handlers and *)
(* workers share the four Redis keys of a provider; `async with            *)
(* CircuitBreaker(name)' reads and writes them one command at a time, so   *)
(* the steps of concurrent callers interleave at every command.            *)
(*                                                                         *)
(* Each action is one Redis command with the local computation that        *)
(* follows it.  Counters that are only compared with a threshold saturate  *)
(* at it, and the time stamp `opened_at' is kept as its age: both are      *)
(* exact for what the code tests, and make the state space finite without  *)
(* a bound on time or on the number of calls.  A clock is read in the      *)
(* action of the command next to it: what one command takes is short       *)
(* against recovery_timeout.  That Redis evicts the four keys is left out. *)
(***************************************************************************)
EXTENDS Integers, FiniteSets

CONSTANTS
  Callers,           \* concurrent users of the breaker, over all processes
  Streams,           \* those of them that read a stream inside the breaker
  FailureThreshold,  \* failure_threshold (5 in production)
  RecoveryTimeout,   \* recovery_timeout, in clock ticks (60 s in production)
  HalfOpenMaxCalls,  \* half_open_max_calls (3 in production)
  MaxCrashes,        \* bound on the callers lost between two commands
  GaugeClip          \* bound on the absolute value of the gauge

ASSUME BreakerAssumption ==
  /\ Streams \subseteq Callers
  /\ FailureThreshold \in Nat \ {0}
  /\ RecoveryTimeout \in Nat
  /\ HalfOpenMaxCalls \in Nat \ {0}
  /\ MaxCrashes \in Nat
  /\ GaugeClip \in Nat

VARIABLES
  state,          \* circuit:<name>:state, a missing key reads as "closed"
  failures,       \* circuit:<name>:failure_count, saturating at the threshold
  openedAge,      \* time since circuit:<name>:opened_at, or Missing
  halfOpenCalls,  \* circuit:<name>:half_open_calls, saturating above its limit
  pc,             \* the command each caller issues next
  gauge,          \* active_circuit_breakers_open, summed over the processes
  probe,          \* callers whose running call was admitted as a half-open test
  streak,         \* history: failures counted since a success last closed the
                  \* circuit or found it closed, saturating at the threshold
  kept,           \* history: a caller was lost before it reset failure_count
  openAge,        \* history: time since `state' was last set to "open"
  unstamped,      \* history: the caller that opened the circuit last was lost
                  \* before it wrote opened_at
  crashes         \* history: callers lost so far

redis   == <<state, failures, openedAge, halfOpenCalls>>
counted == <<streak, kept>>        \* histories of failure_count
opening == <<openAge, unstamped>>  \* histories of opened_at
history == <<counted, opening, crashes>>

vars == <<redis, pc, gauge, probe, history>>

Missing == -1
Expired == RecoveryTimeout + 1
Ages == {Missing} \cup 0..Expired

(* Where a caller is between two commands, in __aenter__ and __aexit__. *)
Entering == {"read_opened_at", "set_half_open", "reset_calls", "fallback", "incr_calls"}
Resetting == {"close_failures", "reset_failures"}
Leaving  == {"close_state", "close_failures", "reset_failures", "count_failure",
             "open_state", "stamp"}
Steps    == {"idle", "calling"} \cup Entering \cup Leaving

Clip(n) == IF n > GaugeClip THEN GaugeClip ELSE IF n < -GaugeClip THEN -GaugeClip ELSE n
Saturate(n, top) == IF n > top THEN top ELSE n
Goto(c, step) == pc' = [pc EXCEPT ![c] = step]

Init ==
  /\ state = "closed"
  /\ failures = 0
  /\ openedAge = Missing
  /\ halfOpenCalls = 0
  /\ pc = [c \in Callers |-> "idle"]
  /\ gauge = 0
  /\ probe = {}
  /\ streak = 0
  /\ kept = FALSE
  /\ openAge = Expired
  /\ unstamped = FALSE
  /\ crashes = 0

-----------------------------------------------------------------------------
(* __aenter__ *)

(* GET state.  A closed circuit admits the call at once. *)
ReadState(c) ==
  /\ pc[c] = "idle"
  /\ \/ state = "closed"    /\ Goto(c, "calling")
     \/ state = "open"      /\ Goto(c, "read_opened_at")
     \/ state = "half_open" /\ Goto(c, "incr_calls")
  /\ UNCHANGED <<redis, gauge, probe, history>>

(* Mutant of ReadOpenedAt: an open circuit with no time stamp fails fast. *)
ReadOpenedAtStrict(c) ==
  /\ pc[c] = "read_opened_at"
  /\ Goto(c, IF openedAge = Expired THEN "set_half_open" ELSE "idle")
  /\ UNCHANGED <<redis, gauge, probe, history>>

(* GET opened_at, compared with the clock: fail fast until it has expired. *)
ReadOpenedAt(c) ==
  /\ pc[c] = "read_opened_at"
  /\ \/ openedAge = Missing            /\ Goto(c, "fallback")
     \/ openedAge = Expired            /\ Goto(c, "set_half_open")
     \/ openedAge \in 0..RecoveryTimeout /\ Goto(c, "idle")  \* CircuitOpenError
  /\ UNCHANGED <<redis, gauge, probe, history>>

(* Mutant of SetHalfOpen: another spelling of the state. *)
SetHalfOpenMisspelt(c) ==
  /\ pc[c] = "set_half_open"
  /\ state' = "half-open"
  /\ Goto(c, "reset_calls")
  /\ UNCHANGED <<failures, openedAge, halfOpenCalls, gauge, probe, history>>

SetHalfOpen(c) ==
  /\ pc[c] = "set_half_open"
  /\ state' = "half_open"
  /\ Goto(c, "reset_calls")
  /\ UNCHANGED <<failures, openedAge, halfOpenCalls, gauge, probe, history>>

(* SET half_open_calls 1: the caller that found the timeout expired is the *)
(* first test call.                                                        *)
ResetCalls(c) ==
  /\ pc[c] = "reset_calls"
  /\ halfOpenCalls' = 1
  /\ probe' = probe \cup {c}
  /\ Goto(c, "calling")
  /\ UNCHANGED <<state, failures, openedAge, gauge, history>>

(* An open circuit with no time stamp is closed and the call admitted; the *)
(* failure count stays.                                                    *)
FallbackClose(c) ==
  /\ pc[c] = "fallback"
  /\ state' = "closed"
  /\ Goto(c, "calling")
  /\ UNCHANGED <<failures, openedAge, halfOpenCalls, gauge, probe, history>>

(* INCR half_open_calls: admit the call, or CircuitOpenError. *)
AdmitsTest(calls) == calls <= HalfOpenMaxCalls

IncrCalls(c) ==
  /\ pc[c] = "incr_calls"
  /\ halfOpenCalls' = Saturate(halfOpenCalls + 1, HalfOpenMaxCalls + 1)
  /\ IF AdmitsTest(halfOpenCalls')
       THEN /\ Goto(c, "calling")
            /\ probe' = probe \cup {c}
       ELSE /\ Goto(c, "idle")
            /\ UNCHANGED probe
  /\ UNCHANGED <<state, failures, openedAge, gauge, history>>

-----------------------------------------------------------------------------
(* __aexit__: the call has returned or raised; GET state. *)

(* Mutant of CallSucceeds: a successful test call leaves the circuit alone. *)
CallSucceedsIdly(c) ==
  /\ pc[c] = "calling"
  /\ probe' = probe \ {c}
  /\ Goto(c, IF state = "closed" THEN "reset_failures" ELSE "idle")
  /\ UNCHANGED <<redis, gauge, history>>

CallSucceeds(c) ==
  /\ pc[c] = "calling"
  /\ probe' = probe \ {c}
  /\ \/ state = "half_open" /\ Goto(c, "close_state")
     \/ state = "closed"    /\ Goto(c, "reset_failures")
     \/ state = "open"      /\ Goto(c, "idle")
  /\ streak' = IF state = "closed" THEN 0 ELSE streak
  /\ UNCHANGED <<redis, gauge, kept, opening, crashes>>

CallFails(c) ==
  /\ pc[c] = "calling"
  /\ probe' = probe \ {c}
  /\ Goto(c, IF state = "half_open" THEN "open_state" ELSE "count_failure")
  /\ UNCHANGED <<redis, gauge, history>>

CloseState(c) ==
  /\ pc[c] = "close_state"
  /\ state' = "closed"
  /\ streak' = 0
  /\ Goto(c, "close_failures")
  /\ UNCHANGED <<failures, openedAge, halfOpenCalls, gauge, probe, kept, opening, crashes>>

(* Mutant of ResetFailures: the count is reset by a success of a closed    *)
(* circuit only, and survives the closing.                                 *)
ResetFailuresOnce(c) ==
  /\ pc[c] \in Resetting
  /\ failures' = IF pc[c] = "reset_failures" THEN 0 ELSE failures
  /\ gauge' = IF pc[c] = "close_failures" THEN Clip(gauge - 1) ELSE gauge
  /\ kept' = FALSE
  /\ Goto(c, "idle")
  /\ UNCHANGED <<state, openedAge, halfOpenCalls, probe, streak, opening, crashes>>

(* SET failure_count 0, after a test call closed the circuit (one open     *)
(* breaker less) or after any success of a closed circuit.                 *)
ResetFailures(c) ==
  /\ pc[c] \in Resetting
  /\ failures' = 0
  /\ gauge' = IF pc[c] = "close_failures" THEN Clip(gauge - 1) ELSE gauge
  /\ kept' = FALSE
  /\ Goto(c, "idle")
  /\ UNCHANGED <<state, openedAge, halfOpenCalls, probe, streak, opening, crashes>>

Trips(n) == n >= FailureThreshold

(* INCR failure_count, also by a call that fails while the circuit is open. *)
CountFailure(c) ==
  /\ pc[c] = "count_failure"
  /\ failures' = Saturate(failures + 1, FailureThreshold)
  /\ streak' = Saturate(streak + 1, FailureThreshold)
  /\ Goto(c, IF Trips(failures') THEN "open_state" ELSE "idle")
  /\ UNCHANGED <<state, openedAge, halfOpenCalls, gauge, probe, kept, opening, crashes>>

(* Mutant of OpenState: the opening is not stamped. *)
OpenStateUnstamped(c) ==
  /\ pc[c] = "open_state"
  /\ state' = "open"
  /\ openAge' = 0
  /\ Goto(c, "idle")
  /\ UNCHANGED <<failures, openedAge, halfOpenCalls, gauge, probe, counted, unstamped, crashes>>

OpenState(c) ==
  /\ pc[c] = "open_state"
  /\ state' = "open"
  /\ openAge' = 0
  /\ Goto(c, "stamp")
  /\ UNCHANGED <<failures, openedAge, halfOpenCalls, gauge, probe, counted, unstamped, crashes>>

(* Mutant of Stamp: only a missing time stamp is written (SET NX). *)
StampMissing(c) ==
  /\ pc[c] = "stamp"
  /\ openedAge' = IF openedAge = Missing THEN 0 ELSE openedAge
  /\ gauge' = Clip(gauge + 1)
  /\ unstamped' = FALSE
  /\ Goto(c, "idle")
  /\ UNCHANGED <<state, failures, halfOpenCalls, probe, counted, openAge, crashes>>

(* SET opened_at to the current time; one open breaker more, also when the *)
(* circuit was half-open or open already.                                  *)
Stamp(c) ==
  /\ pc[c] = "stamp"
  /\ openedAge' = 0
  /\ gauge' = Clip(gauge + 1)
  /\ unstamped' = FALSE
  /\ Goto(c, "idle")
  /\ UNCHANGED <<state, failures, halfOpenCalls, probe, counted, openAge, crashes>>

-----------------------------------------------------------------------------
(* Environment *)

(* A caller is lost between two commands: its process dies, or the next    *)
(* Redis command raises out of __aenter__ or __aexit__.  Either way none   *)
(* of its remaining commands is issued.                                    *)
Crash(c) ==
  /\ pc[c] # "idle"
  /\ crashes < MaxCrashes
  /\ crashes' = crashes + 1
  /\ probe' = probe \ {c}
  /\ kept' = (kept \/ pc[c] \in Resetting)
  /\ unstamped' = (unstamped \/ pc[c] = "stamp")
  /\ Goto(c, "idle")
  /\ UNCHANGED <<redis, gauge, streak, openAge>>

Tick ==
  /\ openedAge \in 0..RecoveryTimeout \/ openAge \in 0..RecoveryTimeout
  /\ openedAge' = IF openedAge = Missing THEN Missing ELSE Saturate(openedAge + 1, Expired)
  /\ openAge' = Saturate(openAge + 1, Expired)
  /\ UNCHANGED <<state, failures, halfOpenCalls, pc, gauge, probe, counted, unstamped, crashes>>

(* The breaker's own commands, and the end of the guarded call.            *)
Command(c) ==
  \/ ReadOpenedAt(c) \/ SetHalfOpen(c) \/ ResetCalls(c) \/ FallbackClose(c)
  \/ IncrCalls(c) \/ CloseState(c) \/ ResetFailures(c) \/ CountFailure(c)
  \/ OpenState(c) \/ Stamp(c)

CallEnds(c) == CallSucceeds(c) \/ CallFails(c)

Next ==
  \/ \E c \in Callers : ReadState(c) \/ Command(c) \/ CallEnds(c) \/ Crash(c)
  \/ Tick

Spec == Init /\ [][Next]_vars

(* A caller between two commands goes on, new calls keep arriving, and     *)
(* time passes.  A guarded call ends if run_with_timeout bounds it: chat   *)
(* and embedding (client.py:133-148, 195-210).  A stream (client.py:172)   *)
(* has no timeout, and its call need never end.                            *)
FairSpec ==
  /\ Spec
  /\ WF_vars(Tick)
  /\ \A c \in Callers : WF_vars(ReadState(c)) /\ WF_vars(Command(c))
  /\ \A c \in Callers \ Streams : WF_vars(CallEnds(c))

-----------------------------------------------------------------------------
(* Properties *)

(* The types of the keys, of the gauge, and of what each caller is about to *)
(* do                                                                      *)
TypeOK ==
  /\ state \in {"closed", "open", "half_open"}
  /\ failures \in 0..FailureThreshold
  /\ openedAge \in Ages
  /\ halfOpenCalls \in 0..(HalfOpenMaxCalls + 1)
  /\ pc \in [Callers -> Steps]
  /\ gauge \in -GaugeClip..GaugeClip
  /\ probe \subseteq Callers
  /\ streak \in 0..FailureThreshold
  /\ kept \in BOOLEAN
  /\ openAge \in 0..Expired
  /\ unstamped \in BOOLEAN
  /\ crashes \in 0..MaxCrashes

(* failure_count may hold failures from before the last success: its reset *)
(* is still to come, or was lost with its caller.                           *)
CountIsOld == kept \/ \E c \in Callers : pc[c] \in Resetting

(* A caller whose failure reaches the threshold opens the circuit only if   *)
(* failure_threshold failures have been counted since the last success that *)
(* closed the circuit or found it closed, in whatever order the increments  *)
(* and resets of the callers arrive, except while such a reset is pending   *)
(* or when one was lost.  (The fallback closes without a success.)          *)
TripsInARow ==
  [][\A c \in Callers :
       pc[c] = "count_failure" /\ pc'[c] = "open_state"
         => streak' = FailureThreshold \/ CountIsOld]_vars

(* The time stamp may be that of an earlier opening: the one of the last    *)
(* opening is still to be written, or was lost with its caller.             *)
StampIsOld == unstamped \/ \E c \in Callers : pc[c] = "stamp"

(* A caller begins to test an open circuit only when recovery_timeout has   *)
(* passed since it was last set to "open", whoever opened it again          *)
(* meanwhile, except between SET state and SET opened_at.                   *)
TestedAfterTimeout ==
  [][\A c \in Callers :
       pc[c] = "read_opened_at" /\ pc'[c] = "set_half_open"
         => openAge = Expired \/ StampIsOld]_vars

(* Every caller that will still move the circuit out of "half_open". *)
Deciders == {c \in Callers : pc[c] \in {"reset_calls", "calling", "close_state", "open_state"}}

(* A half-open circuit admits at most half_open_max_calls calls and has no *)
(* timeout of its own, so it stays half-open for ever unless some call in  *)
(* flight decides it: unless a caller was lost, there always is one.       *)
HalfOpenHasDecider ==
  state = "half_open" /\ crashes = 0 => Deciders # {}

(* An open circuit without a time stamp would be closed by the next        *)
(* caller; unless a caller was lost, the stamp is then about to be set.    *)
OpenIsStamped ==
  state = "open" /\ openedAge = Missing /\ crashes = 0
    => \E c \in Callers : pc[c] = "stamp"

(* "Half-open" is left again, because a test call closes or re-opens the   *)
(* circuit, unless a caller was lost or a stream that was admitted as a    *)
(* test never ends.                                                        *)
HalfOpenResolves ==
  \/ state = "half_open" ~> (state # "half_open" \/ crashes > 0)
  \/ \E c \in Streams : <>[](c \in probe)

(* An open circuit does not stay open for ever, even if its time stamp was *)
(* lost or is set again by late failures.                                  *)
OpenIsTested == state = "open" ~> state # "open"

(* Documented, and violated by the code: "After 60 seconds, it carefully   *)
(* lets 3 requests through" (docs/tasks/task-10/implementation_plan.md).   *)
(* Every caller that reads an expired time stamp before the first sets     *)
(* "half_open" sets the counter back to 1 and is admitted.                 *)
TestsInFlightBounded == Cardinality(probe) <= HalfOpenMaxCalls

(* Documented, and violated by the code: the alert on a positive gauge     *)
(* says that "One or more LLM provider circuit breakers are open"          *)
(* (infra/prometheus/alerts.yml).  The gauge goes up on every opening, and *)
(* down only when a half-open circuit closes.                              *)
AlertMeansOpen ==
  gauge > 0 /\ (\A c \in Callers : pc[c] = "idle") => state # "closed"
=============================================================================
