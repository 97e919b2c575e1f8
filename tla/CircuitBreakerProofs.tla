------------------------- MODULE CircuitBreakerProofs -------------------------
(***************************************************************************)
(* Safety of the circuit breaker for any number of callers and any         *)
(* threshold, timeout and limit.  One inductive invariant, IInv, carries   *)
(* the five properties: it compares the failure count and the time stamp   *)
(* with the failures and the openings that they are to stand for.          *)
(***************************************************************************)
EXTENDS CircuitBreaker, TLAPS

(* The count is that of the failures since the last success, or old. *)
CountInv == failures <= streak \/ CountIsOld

(* The time stamp is not older than the last opening, or it is an old one. *)
StampInv == openedAge <= openAge \/ StampIsOld

IInv == TypeOK /\ CountInv /\ StampInv /\ HalfOpenHasDecider /\ OpenIsStamped

(* Saturation keeps a counter in its range and never lowers it below what   *)
(* it is compared with.                                                     *)
LEMMA SaturateRange ==
  ASSUME NEW n \in Nat, NEW top \in Nat
  PROVE  /\ Saturate(n, top) \in 0..top
         /\ Saturate(n, top) <= n
         /\ n <= top => Saturate(n, top) = n
         /\ top <= n => Saturate(n, top) = top
  BY DEF Saturate

LEMMA ClipRange ==
  ASSUME NEW n \in Int, GaugeClip \in Nat
  PROVE  Clip(n) \in -GaugeClip..GaugeClip
  BY DEF Clip

(* Every variable keeps its type. *)
LEMMA TypeStep == TypeOK /\ [Next]_vars => TypeOK'
<1> USE BreakerAssumption
<1> USE DEF history, counted, opening, redis, Resetting
<1> SUFFICES ASSUME TypeOK, [Next]_vars PROVE TypeOK'
  OBVIOUS
<1>1. ASSUME NEW c \in Callers, ReadState(c) PROVE TypeOK'
  BY <1>1 DEF TypeOK, ReadState, Goto, Steps, Entering
<1>2. ASSUME NEW c \in Callers, Command(c) PROVE TypeOK'
  <2>1. CASE ReadOpenedAt(c)
    BY <2>1 DEF TypeOK, ReadOpenedAt, Goto, Steps, Entering
  <2>2. CASE SetHalfOpen(c)
    BY <2>2 DEF TypeOK, SetHalfOpen, Goto, Steps, Entering
  <2>3. CASE ResetCalls(c)
    BY <2>3 DEF TypeOK, ResetCalls, Goto, Steps
  <2>4. CASE FallbackClose(c)
    BY <2>4 DEF TypeOK, FallbackClose, Goto, Steps
  <2>5. CASE IncrCalls(c)
    <3>1. halfOpenCalls' \in 0..(HalfOpenMaxCalls + 1)
      BY <2>5, SaturateRange DEF TypeOK, IncrCalls
    <3>2. probe' \subseteq Callers /\ pc' \in [Callers -> Steps]
      BY <2>5 DEF TypeOK, IncrCalls, Goto, Steps
    <3>3. QED
      BY <2>5, <3>1, <3>2 DEF TypeOK, IncrCalls
  <2>6. CASE CloseState(c)
    BY <2>6 DEF TypeOK, CloseState, Goto, Steps, Leaving
  <2>7. CASE ResetFailures(c)
    <3>1. gauge' \in -GaugeClip..GaugeClip
      BY <2>7, ClipRange DEF TypeOK, ResetFailures
    <3>2. kept' \in BOOLEAN
      BY <2>7, Zenon DEF ResetFailures
    <3>3. pc' \in [Callers -> Steps]
      BY <2>7 DEF TypeOK, ResetFailures, Goto, Steps
    <3>4. QED
      BY <2>7, <3>1, <3>2, <3>3 DEF TypeOK, ResetFailures
  <2>8. CASE CountFailure(c)
    <3>1. failures' \in 0..FailureThreshold /\ streak' \in 0..FailureThreshold
      BY <2>8, SaturateRange DEF TypeOK, CountFailure
    <3>2. QED
      BY <2>8, <3>1 DEF TypeOK, CountFailure, Goto, Steps, Leaving
  <2>9. CASE OpenState(c)
    <3>1. openAge' \in 0..Expired
      BY <2>9 DEF OpenState, Expired
    <3>2. QED
      BY <2>9, <3>1 DEF TypeOK, OpenState, Goto, Steps, Leaving
  <2>10. CASE Stamp(c)
    <3>1. gauge' \in -GaugeClip..GaugeClip
      BY <2>10, ClipRange DEF TypeOK, Stamp
    <3>2. openedAge' \in Ages
      BY <2>10 DEF Stamp, Ages, Expired
    <3>3. QED
      BY <2>10, <3>1, <3>2 DEF TypeOK, Stamp, Goto, Steps
  <2>11. QED
    BY <1>2, <2>1, <2>2, <2>3, <2>4, <2>5, <2>6, <2>7, <2>8, <2>9, <2>10 DEF Command
<1>3. ASSUME NEW c \in Callers, CallEnds(c) PROVE TypeOK'
  <2>1. CASE CallSucceeds(c)
    BY <2>1 DEF TypeOK, CallSucceeds, Goto, Steps, Leaving
  <2>2. CASE CallFails(c)
    BY <2>2 DEF TypeOK, CallFails, Goto, Steps, Leaving
  <2>3. QED
    BY <1>3, <2>1, <2>2 DEF CallEnds
<1>4. ASSUME NEW c \in Callers, Crash(c) PROVE TypeOK'
  <2>1. kept' \in BOOLEAN /\ unstamped' \in BOOLEAN
    BY <1>4 DEF TypeOK, Crash
  <2>2. QED
    BY <1>4, <2>1 DEF TypeOK, Crash, Goto, Steps
<1>5. CASE Tick
  <2>1. openedAge' \in Ages /\ openAge' \in 0..Expired
    BY <1>5 DEF TypeOK, Tick, Ages, Expired, Missing, Saturate
  <2>2. QED
    BY <1>5, <2>1 DEF TypeOK, Tick
<1>6. CASE UNCHANGED vars
  BY <1>6 DEF TypeOK, vars
<1>7. QED
  BY <1>1, <1>2, <1>3, <1>4, <1>5, <1>6 DEF Next

(* An increment adds to both counts; the streak is cut only by a success    *)
(* whose caller goes on to reset the count, and a caller that has done so   *)
(* leaves nothing to compare with.                                          *)
LEMMA CountStep == TypeOK /\ CountInv /\ [Next]_vars => CountInv'
<1> USE BreakerAssumption
<1> USE DEF history, counted, opening, redis, CountIsOld, Resetting
<1> SUFFICES ASSUME TypeOK, CountInv, [Next]_vars PROVE CountInv'
  OBVIOUS
<1>1. ASSUME NEW c \in Callers, CountFailure(c) PROVE CountInv'
  <2>1. failures <= streak => failures' <= streak'
    BY <1>1 DEF TypeOK, CountFailure, Saturate
  <2>2. CountIsOld => CountIsOld'
    BY <1>1 DEF TypeOK, CountFailure, Goto
  <2>3. QED
    BY <2>1, <2>2 DEF CountInv
<1>2. ASSUME NEW c \in Callers, ResetFailures(c) PROVE CountInv'
  BY <1>2 DEF TypeOK, CountInv, ResetFailures
<1>3. ASSUME NEW c \in Callers, CloseState(c) PROVE CountInv'
  BY <1>3 DEF TypeOK, CountInv, CloseState, Goto
<1>4. ASSUME NEW c \in Callers, CallSucceeds(c) PROVE CountInv'
  <2>1. CountIsOld => CountIsOld'
    BY <1>4 DEF TypeOK, CallSucceeds, Goto
  <2>2. CASE state = "closed"
    BY <1>4, <2>2 DEF TypeOK, CountInv, CallSucceeds, Goto
  <2>3. CASE state # "closed"
    BY <1>4, <2>1, <2>3 DEF CountInv, CallSucceeds
  <2>4. QED
    BY <2>2, <2>3
<1>5. ASSUME NEW c \in Callers, Crash(c) PROVE CountInv'
  <2>1. CountIsOld => CountIsOld'
    BY <1>5 DEF TypeOK, Crash, Goto
  <2>2. QED
    BY <1>5, <2>1 DEF CountInv, Crash
<1>6. ASSUME NEW c \in Callers, ReadState(c) \/ CallFails(c) \/ Command(c),
             ~CountFailure(c), ~ResetFailures(c), ~CloseState(c)
      PROVE  CountInv'
  <2>1. UNCHANGED <<failures, streak, kept>>
    BY <1>6 DEF Command, ReadState, ReadOpenedAt, SetHalfOpen, ResetCalls, FallbackClose,
       IncrCalls, CallFails, OpenState, Stamp
  <2>2. \A d \in Callers : pc[d] \in Resetting => pc'[d] \in Resetting
    BY <1>6 DEF TypeOK, Command, ReadState, ReadOpenedAt, SetHalfOpen, ResetCalls,
       FallbackClose, IncrCalls, CallFails, OpenState, Stamp, Goto
  <2>3. QED
    BY <2>1, <2>2 DEF CountInv
<1>7. CASE Tick \/ UNCHANGED vars
  BY <1>7 DEF CountInv, Tick, vars
<1>8. QED
  BY <1>1, <1>2, <1>3, <1>4, <1>5, <1>6, <1>7 DEF Next, CallEnds

(* Opening and stamp grow old together; an opening leaves its caller about  *)
(* to stamp it, and whoever stamps writes an age of 0.                      *)
LEMMA AgeStep == TypeOK /\ StampInv /\ [Next]_vars => StampInv'
<1> USE BreakerAssumption
<1> USE DEF history, counted, opening, redis, StampIsOld
<1> SUFFICES ASSUME TypeOK, StampInv, [Next]_vars PROVE StampInv'
  OBVIOUS
<1>1. ASSUME NEW c \in Callers, OpenState(c) PROVE StampInv'
  BY <1>1 DEF TypeOK, StampInv, OpenState, Goto
<1>2. ASSUME NEW c \in Callers, Stamp(c) PROVE StampInv'
  BY <1>2 DEF TypeOK, StampInv, Stamp, Expired
<1>3. ASSUME NEW c \in Callers, Crash(c) PROVE StampInv'
  <2>1. StampIsOld => StampIsOld'
    BY <1>3 DEF TypeOK, Crash, Goto
  <2>2. QED
    BY <1>3, <2>1 DEF StampInv, Crash
<1>4. ASSUME NEW c \in Callers, ReadState(c) \/ CallEnds(c) \/ Command(c),
             ~OpenState(c), ~Stamp(c)
      PROVE  StampInv'
  <2>1. UNCHANGED <<openedAge, openAge, unstamped>>
    BY <1>4 DEF Command, CallEnds, ReadState, ReadOpenedAt, SetHalfOpen, ResetCalls,
       FallbackClose, IncrCalls, CallSucceeds, CallFails, CloseState, ResetFailures,
       CountFailure
  <2>2. \A d \in Callers : pc[d] = "stamp" => pc'[d] = "stamp"
    BY <1>4 DEF TypeOK, Command, CallEnds, ReadState, ReadOpenedAt, SetHalfOpen, ResetCalls,
       FallbackClose, IncrCalls, CallSucceeds, CallFails, CloseState, ResetFailures,
       CountFailure, Goto, Resetting
  <2>3. QED
    BY <2>1, <2>2 DEF StampInv
<1>5. CASE Tick
  <2>1. openedAge <= openAge => openedAge' <= openAge'
    BY <1>5 DEF TypeOK, Tick, Ages, Expired, Missing, Saturate
  <2>2. StampIsOld => StampIsOld'
    BY <1>5 DEF Tick
  <2>3. QED
    BY <2>1, <2>2 DEF StampInv
<1>6. CASE UNCHANGED vars
  BY <1>6 DEF StampInv, vars
<1>7. QED
  BY <1>1, <1>2, <1>3, <1>4, <1>5, <1>6 DEF Next

(* The caller that sets "half_open" is the first decider; a decider stops   *)
(* being one only by changing the state, or when another has changed it.    *)
LEMMA DeciderStep == TypeOK /\ HalfOpenHasDecider /\ [Next]_vars => HalfOpenHasDecider'
<1> USE DEF HalfOpenHasDecider, Deciders, history, counted, opening, redis
<1> SUFFICES ASSUME TypeOK, HalfOpenHasDecider, [Next]_vars, state' = "half_open", crashes' = 0
             PROVE  Deciders' # {}
  OBVIOUS
<1>1. ASSUME NEW c \in Callers, ReadState(c) PROVE Deciders' # {}
  BY <1>1 DEF TypeOK, ReadState, redis, Goto
<1>2. ASSUME NEW c \in Callers, Command(c) \/ CallEnds(c) PROVE Deciders' # {}
  <2>1. CASE SetHalfOpen(c) \/ ResetCalls(c)
    BY <1>2, <2>1 DEF TypeOK, SetHalfOpen, ResetCalls, Goto
  <2>2. CASE ReadOpenedAt(c)
    BY <1>2, <2>2 DEF TypeOK, ReadOpenedAt, redis, Goto
  <2>3. CASE IncrCalls(c)
    BY <1>2, <2>3 DEF TypeOK, IncrCalls, Goto
  <2>4. CASE CallSucceeds(c) \/ CallFails(c)
    BY <1>2, <2>4 DEF TypeOK, CallSucceeds, CallFails, redis, Goto
  <2>5. CASE CloseState(c) \/ FallbackClose(c) \/ OpenState(c)
    BY <2>5 DEF CloseState, FallbackClose, OpenState
  <2>6. CASE ResetFailures(c) \/ Stamp(c)
    BY <1>2, <2>6 DEF TypeOK, ResetFailures, Resetting, Stamp, Goto
  <2>7. CASE CountFailure(c)
    BY <1>2, <2>7 DEF TypeOK, CountFailure, Goto
  <2>8. QED
    BY <1>2, <2>1, <2>2, <2>3, <2>4, <2>5, <2>6, <2>7 DEF Command, CallEnds
<1>3. ASSUME NEW c \in Callers, Crash(c) PROVE FALSE
  BY <1>3 DEF TypeOK, Crash
<1>4. CASE Tick \/ UNCHANGED vars
  BY <1>4 DEF Tick, vars
<1>5. QED
  BY <1>1, <1>2, <1>3, <1>4 DEF Next

(* The caller that sets "open" goes on to stamp it, and a stamp is never    *)
(* removed.                                                                 *)
LEMMA StampStep == TypeOK /\ OpenIsStamped /\ [Next]_vars => OpenIsStamped'
<1> USE DEF OpenIsStamped, history, counted, opening, redis
<1> SUFFICES ASSUME TypeOK, OpenIsStamped, [Next]_vars,
                    state' = "open", openedAge' = Missing, crashes' = 0
             PROVE  \E c \in Callers : pc'[c] = "stamp"
  OBVIOUS
<1>1. ASSUME NEW c \in Callers, OpenState(c) PROVE pc'[c] = "stamp"
  BY <1>1 DEF TypeOK, OpenState, Goto
<1>2. ASSUME NEW c \in Callers, Stamp(c) PROVE FALSE
  BY <1>2 DEF Stamp, Missing
<1>3. ASSUME NEW c \in Callers, ReadState(c) \/ Command(c) \/ CallEnds(c), ~OpenState(c), ~Stamp(c)
      PROVE  /\ state = "open" /\ openedAge = Missing /\ crashes = 0
             /\ \A d \in Callers : pc[d] = "stamp" => pc'[d] = "stamp"
  BY <1>3 DEF TypeOK, Command, CallEnds, ReadState, ReadOpenedAt, SetHalfOpen, ResetCalls,
     FallbackClose, IncrCalls, CallSucceeds, CallFails, CloseState, ResetFailures, CountFailure,
     Resetting, Goto
<1>4. ASSUME NEW c \in Callers, Crash(c) PROVE FALSE
  BY <1>4 DEF TypeOK, Crash
<1>5. CASE Tick
  BY <1>5, BreakerAssumption DEF TypeOK, Tick, Missing, Ages, Expired, Saturate
<1>6. CASE UNCHANGED vars
  BY <1>6 DEF vars
<1>7. QED
  BY <1>1, <1>2, <1>3, <1>4, <1>5, <1>6 DEF Next

-----------------------------------------------------------------------------
(* The inductive invariant holds in every reachable state. *)
THEOREM Invariance == Spec => []IInv
<1>1. Init => IInv
  <2>1. Init => TypeOK
    <3>1. Init => kept \in BOOLEAN /\ unstamped \in BOOLEAN
      BY Zenon DEF Init
    <3>2. QED
      BY <3>1, BreakerAssumption DEF Init, TypeOK, Ages, Expired, Steps
  <2>2. Init => CountInv /\ StampInv
    BY BreakerAssumption DEF Init, CountInv, StampInv, Missing, Expired
  <2>3. Init => HalfOpenHasDecider /\ OpenIsStamped
    BY DEF Init, HalfOpenHasDecider, OpenIsStamped
  <2>4. QED
    BY <2>1, <2>2, <2>3 DEF IInv
<1>2. IInv /\ [Next]_vars => IInv'
  BY TypeStep, CountStep, AgeStep, DeciderStep, StampStep DEF IInv
<1>3. QED
  BY <1>1, <1>2, PTL DEF Spec

(* Type correctness of the breaker's keys and callers. *)
THEOREM TypeCorrect == Spec => []TypeOK
<1>1. IInv => TypeOK
  BY DEF IInv
<1>2. QED
  BY <1>1, Invariance, PTL

(* For any number of interleaved callers and any threshold, a failure that  *)
(* is counted opens the circuit only as the last of failure_threshold since *)
(* the last success, except while its reset of the count is pending or lost.*)
THEOREM TripsCorrect == Spec => TripsInARow
<1> DEFINE A == \A c \in Callers :
                  pc[c] = "count_failure" /\ pc'[c] = "open_state"
                    => streak' = FailureThreshold \/ CountIsOld
<1>1. IInv /\ [Next]_vars => [A]_vars
  <2> SUFFICES ASSUME IInv, Next, NEW c \in Callers,
                      pc[c] = "count_failure", pc'[c] = "open_state"
               PROVE  streak' = FailureThreshold \/ CountIsOld
    OBVIOUS
  <2>1. CountFailure(c)
    <3>1. ASSUME NEW d \in Callers, d # c, ReadState(d) \/ Command(d) \/ CallEnds(d) \/ Crash(d)
          PROVE  pc'[c] = pc[c]
      BY <3>1 DEF IInv, TypeOK, Command, CallEnds, ReadState, ReadOpenedAt, SetHalfOpen,
         ResetCalls, FallbackClose, IncrCalls, CallSucceeds, CallFails, CloseState,
         ResetFailures, CountFailure, OpenState, Stamp, Crash, Goto
    <3>2. ASSUME ReadState(c) \/ Command(c) \/ CallEnds(c) \/ Crash(c) PROVE CountFailure(c)
      BY <3>2 DEF IInv, TypeOK, Command, CallEnds, ReadState, ReadOpenedAt, SetHalfOpen,
         ResetCalls, FallbackClose, IncrCalls, CallSucceeds, CallFails, CloseState,
         ResetFailures, OpenState, Stamp, Crash, Goto, Resetting
    <3>3. CASE Tick
      BY <3>3 DEF Tick
    <3>4. QED
      BY <3>1, <3>2, <3>3 DEF Next
  <2>2. failures' = FailureThreshold
    BY <2>1, BreakerAssumption DEF IInv, TypeOK, CountFailure, Goto, Trips, Saturate
  <2>3. failures <= streak => streak' = FailureThreshold
    BY <2>1, <2>2, BreakerAssumption DEF IInv, TypeOK, CountFailure, Saturate
  <2>4. QED
    BY <2>3 DEF IInv, CountInv
<1>2. QED
  BY <1>1, Invariance, PTL DEF Spec, TripsInARow

(* For any number of interleaved callers and any timeout, a test begins     *)
(* only when recovery_timeout has passed since the last opening, except     *)
(* between its two commands.                                                *)
THEOREM TestsWait == Spec => TestedAfterTimeout
<1> DEFINE A == \A c \in Callers :
                  pc[c] = "read_opened_at" /\ pc'[c] = "set_half_open"
                    => openAge = Expired \/ StampIsOld
<1>1. IInv /\ [Next]_vars => [A]_vars
  <2> SUFFICES ASSUME IInv, Next, NEW c \in Callers,
                      pc[c] = "read_opened_at", pc'[c] = "set_half_open"
               PROVE  openAge = Expired \/ StampIsOld
    OBVIOUS
  <2>1. ReadOpenedAt(c)
    <3>1. ASSUME NEW d \in Callers, d # c, ReadState(d) \/ Command(d) \/ CallEnds(d) \/ Crash(d)
          PROVE  pc'[c] = pc[c]
      BY <3>1 DEF IInv, TypeOK, Command, CallEnds, ReadState, ReadOpenedAt, SetHalfOpen,
         ResetCalls, FallbackClose, IncrCalls, CallSucceeds, CallFails, CloseState,
         ResetFailures, CountFailure, OpenState, Stamp, Crash, Goto
    <3>2. ASSUME ReadState(c) \/ Command(c) \/ CallEnds(c) \/ Crash(c) PROVE ReadOpenedAt(c)
      BY <3>2 DEF IInv, TypeOK, Command, CallEnds, ReadState, SetHalfOpen,
         ResetCalls, FallbackClose, IncrCalls, CallSucceeds, CallFails, CloseState,
         ResetFailures, CountFailure, OpenState, Stamp, Crash, Goto, Resetting
    <3>3. CASE Tick
      BY <3>3 DEF Tick
    <3>4. QED
      BY <3>1, <3>2, <3>3 DEF Next
  <2>2. openedAge = Expired
    BY <2>1 DEF IInv, TypeOK, ReadOpenedAt, Goto
  <2>3. openedAge <= openAge => openAge = Expired
    BY <2>2, BreakerAssumption DEF IInv, TypeOK, Expired
  <2>4. QED
    BY <2>3 DEF IInv, StampInv
<1>2. QED
  BY <1>1, Invariance, PTL DEF Spec, TestedAfterTimeout

(* While no caller has been lost, a half-open circuit has a call in flight  *)
(* that will close or re-open it.                                           *)
THEOREM HalfOpenIsDecided == Spec => []HalfOpenHasDecider
<1>1. IInv => HalfOpenHasDecider
  BY DEF IInv
<1>2. QED
  BY <1>1, Invariance, PTL

(* While no caller has been lost, an open circuit has a time stamp or a     *)
(* caller about to set it.                                                  *)
THEOREM OpenGetsStamped == Spec => []OpenIsStamped
<1>1. IInv => OpenIsStamped
  BY DEF IInv
<1>2. QED
  BY <1>1, Invariance, PTL
=============================================================================
