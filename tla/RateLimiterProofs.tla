-------------------------- MODULE RateLimiterProofs --------------------------
(***************************************************************************)
(* Safety of the two rate limits for any number of requests, any limits    *)
(* and any faults.                                                         *)
(*                                                                         *)
(* The window: a request that was let through less than a window ago is    *)
(* still a member of the sorted set, whoever cleaned it up meanwhile, so   *)
(* that the next request counts it (SetInv).  The bucket: its balance is   *)
(* inductive given the types.                                              *)
(***************************************************************************)
EXTENDS RateLimiter, FiniteSetTheorems, TLAPS

(* Times come from the clock, and a request is admitted at most once. *)
TimeInv ==
  \A r \in Requests :
    /\ now[r] <= clock
    /\ score[r] <= clock
    /\ pc[r] \in {"idle", "window", "withdraw"} => r \notin admitted

(* What the sorted set holds. *)
SetInv ==
  /\ \A q \in window : Counts(q) /\ score[q] + WindowTicks <= expiry
  /\ \A q \in admitted \ forgotten : Recent(q) => q \in window /\ clock < expiry

IInv == TypeOK /\ TimeInv /\ SetInv /\ WindowLimits /\ BucketBalance

-----------------------------------------------------------------------------
(* The two scripts *)

(* Rounding down never refills more than one token per interval. *)
LEMMA RefillBound ==
  ASSUME NEW d \in Int, NEW i \in Nat \ {0}
  PROVE  d \div i \in Int /\ i * (d \div i) <= d
  OBVIOUS

(* The balance x after a refill of at most n. *)
LEMMA RefillBalance ==
  ASSUME NEW i \in Nat \ {0}, NEW x \in Int, NEW y \in Int, NEW n \in Int,
         NEW start \in Int, NEW last \in Int, NEW time \in Int,
         i * x <= last - start, i * n <= time - last, y <= x + n
  PROVE  i * y <= time - start
<1>1. i * y <= i * (x + n)
  OBVIOUS
<1>2. i * (x + n) = i * x + i * n
  OBVIOUS
<1>3. i * x \in Int /\ i * n \in Int /\ i * y \in Int
  OBVIOUS
<1>4. QED
  BY <1>1, <1>2, <1>3

(* A token taken keeps the balance of the bucket and the types of its keys. *)
LEMMA TakeStep ==
  ASSUME TypeOK, BucketBalance, NEW r \in Requests, Take(r)
  PROVE  /\ tokens' \in 0..MaxTokens
         /\ lastUpdate' \in 0..MaxClock
         /\ born' \in 0..MaxClock
         /\ spent' \in Nat
         /\ BucketBalance'
<1> USE LimiterAssumption
<1> DEFINE d == now[r] - Last(r)
           i == TokenInterval
           n == Refill(r)
<1>1. CASE Fresh
  <2>1. n = 0
    BY <1>1 DEF TypeOK, Refill, Last
  <2>2. tokens' = MaxTokens - 1 /\ spent' = 1 /\ lastUpdate' = now[r] /\ born' = now[r]
    BY <1>1, <2>1 DEF Take, Available, Last
  <2>3. i * (spent' + tokens' - MaxTokens) = 0
    BY <2>2
  <2>4. QED
    BY <2>2, <2>3 DEF TypeOK, BucketBalance
<1>2. CASE ~Fresh
  <2>1. /\ tokens \in 0..MaxTokens /\ lastUpdate \in 0..MaxClock /\ now[r] \in 0..MaxClock
        /\ born \in 0..MaxClock /\ spent \in Nat /\ MaxClock \in Nat
        /\ d = now[r] - lastUpdate
    BY <1>2 DEF TypeOK, Take, ScriptRaises, Fresh, Last
  <2>2. n \in Int /\ i * n <= d
    <3>1. d \in Int /\ n = d \div i
      BY <2>1 DEF Refill
    <3> HIDE DEF d, n, i
    <3>2. i \in Nat \ {0}
      BY DEF i
    <3>3. QED
      BY <3>1, <3>2, RefillBound
  <2>3. /\ spent + tokens >= MaxTokens
        /\ i * (spent + tokens - MaxTokens) <= lastUpdate - born
    BY <2>1 DEF BucketBalance, Missing
  <2>4. /\ tokens' = Available(r) - 1 /\ Available(r) >= 1
        /\ spent' = spent + 1 /\ born' = born
    BY <1>2 DEF Take
  <2>5. CASE n > 0
    <3>1. lastUpdate' = now[r]
      BY <2>5 DEF Take
    <3>2. Available(r) \in tokens..MaxTokens /\ Available(r) <= tokens + n
      BY <1>2, <2>1, <2>2, <2>5 DEF Available
    <3>3. /\ tokens' \in 0..MaxTokens /\ spent' \in Nat
          /\ spent' + tokens' >= MaxTokens
          /\ spent' + tokens' - MaxTokens <= (spent + tokens - MaxTokens) + n
      <4>1. PICK a \in tokens..MaxTokens : a = Available(r) /\ a <= tokens + n
        BY <3>2
      <4>2. tokens' = a - 1 /\ a >= 1
        BY <2>4, <4>1
      <4>3. spent' + tokens' = spent + a
        BY <2>1, <2>4, <4>2
      <4>4. QED
        BY <2>1, <2>2, <2>3, <2>4, <4>1, <4>2, <4>3
    <3>5. i * (spent' + tokens' - MaxTokens) <= lastUpdate' - born'
      <4>1. i * n <= lastUpdate' - lastUpdate
        BY <2>1, <2>2, <3>1
      <4>2. /\ spent + tokens - MaxTokens \in Int /\ spent' + tokens' - MaxTokens \in Int
            /\ lastUpdate \in Int /\ lastUpdate' \in Int /\ born \in Int
        BY <2>1, <3>1, <3>3
      <4>3. i * (spent + tokens - MaxTokens) <= lastUpdate - born /\ i \in Nat \ {0}
        BY <2>3
      <4>5. \A x, y \in Int : i * x <= lastUpdate - born /\ y <= x + n => i * y <= lastUpdate' - born
        <5> HIDE DEF i, n
        <5>1. QED
          BY <2>2, <4>1, <4>2, <4>3, RefillBalance
      <4>4. QED
        BY <2>4, <3>3, <4>2, <4>3, <4>5
    <3>6. QED
      BY <2>1, <2>4, <3>1, <3>2, <3>3, <3>5 DEF BucketBalance
  <2>6. CASE ~(n > 0)
    <3>1. Available(r) = tokens /\ lastUpdate' = lastUpdate
      BY <1>2, <2>6 DEF Available, Take, Last
    <3>2. spent' + tokens' = spent + tokens /\ tokens' \in 0..MaxTokens /\ spent' \in Nat
      BY <2>1, <2>4, <3>1
    <3>3. QED
      BY <2>1, <2>3, <2>4, <3>1, <3>2 DEF BucketBalance
  <2>7. QED
    BY <2>5, <2>6
<1>3. QED
  BY <1>1, <1>2

-----------------------------------------------------------------------------
(* The invariant *)

(* Every step changes one request, the bucket, the set, or the clock.       *)
LEMMA TypeStep == TypeOK /\ BucketBalance /\ [Next]_vars => TypeOK' /\ BucketBalance'
<1> USE LimiterAssumption
<1> SUFFICES ASSUME TypeOK, BucketBalance, [Next]_vars PROVE TypeOK' /\ BucketBalance'
  OBVIOUS
<1>1. ASSUME UNCHANGED bucket PROVE BucketBalance'
  BY <1>1 DEF BucketBalance, bucket
<1>2. CASE Tick
  BY <1>1, <1>2 DEF Tick, TypeOK, bucket, sortedSet
<1>3. ASSUME NEW r \in Requests, Arrive(r) \/ Withdraw(r) \/ Screen(r) \/ Deny(r) \/ GoOn(r)
      PROVE  TypeOK' /\ BucketBalance'
  <2> USE <1>3 DEF TypeOK, Moves, ReadsClock, Returns, Steps, Answers, bucket, sortedSet
  <2>1. CASE Arrive(r) \/ Screen(r)
    BY <1>1, <2>1 DEF Arrive, Screen
  <2>2. CASE Withdraw(r)
    BY <1>1, <2>2 DEF Withdraw
  <2>3. CASE Deny(r) \/ GoOn(r)
    BY <1>1, <2>3 DEF Deny, GoOn
  <2>4. QED
    BY <2>1, <2>2, <2>3
<1>4. ASSUME NEW r \in Requests, Window(r) \/ WindowUnanswered(r) PROVE TypeOK' /\ BucketBalance'
  <2>1. /\ Current(r) \subseteq Requests
        /\ window' \subseteq Requests /\ score' \in [Requests -> 0..MaxClock] /\ expiry' \in Nat
    BY <1>4 DEF TypeOK, Window, WindowUnanswered, Record, Current, Members
  <2>2. CASE Window(r)
    BY <1>1, <2>1, <2>2 DEF TypeOK, Window, Moves, Returns, Steps, Answers, bucket
  <2>3. CASE WindowUnanswered(r)
    BY <1>1, <2>1, <2>3 DEF TypeOK, WindowUnanswered, Fault, Moves, Returns, Steps, Answers, bucket
  <2>4. QED
    BY <1>4, <2>2, <2>3
<1>5. ASSUME NEW r \in Requests, Grant(r) \/ BucketUnanswered(r) PROVE TypeOK' /\ BucketBalance'
  <2>1. Take(r) \/ UNCHANGED bucket
    BY <1>5 DEF Grant, BucketUnanswered
  <2>2. /\ tokens' \in {Missing} \cup 0..MaxTokens /\ lastUpdate' \in {Missing} \cup 0..MaxClock
        /\ born' \in 0..MaxClock /\ spent' \in Nat
        /\ BucketBalance'
    BY <1>1, <2>1, TakeStep DEF TypeOK, bucket
  <2>3. CASE Grant(r)
    BY <2>2, <2>3 DEF TypeOK, Grant, Moves, Returns, Steps, Answers, sortedSet
  <2>4. CASE BucketUnanswered(r)
    BY <2>2, <2>4 DEF TypeOK, BucketUnanswered, Fault, Moves, Returns, Steps, Answers, sortedSet
  <2>5. QED
    BY <1>5, <2>3, <2>4
<1>6. ASSUME NEW r \in Requests, Crash(r) PROVE TypeOK' /\ BucketBalance'
  BY <1>1, <1>6 DEF TypeOK, Crash, Fault, Moves, Returns, Steps, Answers, bucket, sortedSet
<1>7. CASE EvictWindow
  BY <1>1, <1>7 DEF TypeOK, EvictWindow, Fault, bucket
<1>8. CASE EvictTokens \/ EvictLastUpdate
  BY <1>8 DEF TypeOK, EvictTokens, EvictLastUpdate, Fault, sortedSet, BucketBalance, Missing
<1>9. CASE UNCHANGED vars
  BY <1>1, <1>9 DEF TypeOK, vars, bucket
<1>10. QED
  BY <1>2, <1>3, <1>4, <1>5, <1>6, <1>7, <1>8, <1>9 DEF Next, Serve

(* What a request that reaches Redis finds in the set: every request let    *)
(* through in the last window, and nothing that is not accounted for.       *)
LEMMA CurrentMembers ==
  ASSUME TypeOK, TimeInv, SetInv, NEW r \in Requests
  PROVE  /\ Current(r) \subseteq window
         /\ \A q \in admitted \ forgotten : Recent(q) => q \in Current(r)
         /\ IsFiniteSet(Current(r))
<1>1. Current(r) \subseteq window
  BY DEF Current, Members
<1>2. IsFiniteSet(Current(r))
  BY <1>1, FS_Subset, LimiterAssumption DEF TypeOK
<1>3. ASSUME NEW q \in admitted \ forgotten, Recent(q) PROVE q \in Current(r)
  <2>1. q \in window /\ clock < expiry
    BY <1>3 DEF SetInv
  <2>2. score[q] \in Int /\ now[r] \in Int /\ clock \in Int /\ expiry \in Int /\ now[r] <= clock
    BY <2>1 DEF TypeOK, TimeInv
  <2>3. score[q] > now[r] - WindowTicks /\ ~(clock >= expiry)
    BY <1>3, <2>1, <2>2, LimiterAssumption DEF Recent
  <2>4. QED
    BY <2>1, <2>3 DEF Current, Members
<1>4. QED
  BY <1>1, <1>2, <1>3

(* Requests only read the clock, and are admitted once. *)
LEMMA TimeStep == TypeOK /\ TimeInv /\ [Next]_vars => TimeInv'
<1> USE LimiterAssumption
<1> SUFFICES ASSUME TypeOK, TimeInv, [Next]_vars PROVE TimeInv'
  OBVIOUS
<1>1. CASE Tick
  BY <1>1 DEF TypeOK, TimeInv, Tick, sortedSet
<1>2. ASSUME NEW r \in Requests, Serve(r) \/ Crash(r) \/ WindowUnanswered(r) \/ BucketUnanswered(r)
      PROVE  TimeInv'
  <2> USE DEF TypeOK, TimeInv, Moves, ReadsClock, Returns, sortedSet
  <2>1. CASE Arrive(r) \/ Screen(r)
    BY <2>1 DEF Arrive, Screen
  <2>2. CASE Window(r)
    BY <2>2 DEF Window, Record
  <2>3. CASE WindowUnanswered(r)
    BY <2>3 DEF WindowUnanswered, Record
  <2>4. CASE Withdraw(r)
    BY <2>4 DEF Withdraw
  <2>5. CASE Grant(r) \/ Deny(r) \/ GoOn(r) \/ BucketUnanswered(r) \/ Crash(r)
    BY <2>5 DEF Grant, Deny, GoOn, BucketUnanswered, Crash
  <2>6. QED
    BY <1>2, <2>1, <2>2, <2>3, <2>4, <2>5 DEF Serve
<1>3. CASE EvictWindow \/ EvictTokens \/ EvictLastUpdate
  BY <1>3 DEF TypeOK, TimeInv, EvictWindow, EvictTokens, EvictLastUpdate, sortedSet
<1>4. CASE UNCHANGED vars
  BY <1>4 DEF TimeInv, vars
<1>5. QED
  BY <1>1, <1>2, <1>3, <1>4 DEF Next

(* Only a request adds its member, and only the cutoff or its withdrawal    *)
(* removes it while its key exists.                                         *)
LEMMA SetStep == TypeOK /\ TimeInv /\ SetInv /\ TypeOK' /\ [Next]_vars => SetInv'
<1> USE LimiterAssumption
<1> SUFFICES ASSUME TypeOK, TimeInv, SetInv, TypeOK', [Next]_vars PROVE SetInv'
  OBVIOUS
<1>1. CASE Tick
  BY <1>1 DEF TypeOK, SetInv, Counts, Recent, Tick, sortedSet
<1>2. ASSUME UNCHANGED <<clock, sortedSet>>,
             \A q \in Requests : pc[q] \in {"withdraw", "lost"} => pc'[q] \in {"withdraw", "lost"}
      PROVE  SetInv'
  BY <1>2 DEF TypeOK, SetInv, Counts, Recent, sortedSet
<1>3. ASSUME NEW r \in Requests, Arrive(r) \/ Screen(r) \/ Grant(r) \/ Deny(r) \/ GoOn(r)
             \/ BucketUnanswered(r) \/ Crash(r)
      PROVE  SetInv'
  <2>1. UNCHANGED <<clock, sortedSet>>
    BY <1>3 DEF Arrive, Screen, Grant, Deny, GoOn, BucketUnanswered, Crash
  <2>2. \A q \in Requests : pc[q] \in {"withdraw", "lost"} => pc'[q] \in {"withdraw", "lost"}
    BY <1>3 DEF TypeOK, Arrive, Screen, Grant, Deny, GoOn, BucketUnanswered, Crash, Moves
  <2>3. QED
    BY <1>2, <2>1, <2>2
<1>4. ASSUME NEW r \in Requests, Window(r) \/ WindowUnanswered(r) PROVE SetInv'
  <2>1. /\ window' = Current(r) \cup {r} /\ expiry' = clock + WindowTicks
        /\ score' = [score EXCEPT ![r] = now[r]]
        /\ clock' = clock /\ forgotten' = forgotten
        /\ \A q \in Requests : q # r => pc'[q] = pc[q]
    BY <1>4 DEF TypeOK, Window, WindowUnanswered, Record, Moves
  <2>2. /\ admitted \subseteq admitted' /\ admitted' \subseteq admitted \cup {r}
        /\ r \in admitted' \/ pc'[r] \in {"withdraw", "lost"}
    BY <1>4 DEF TypeOK, Window, WindowUnanswered, Moves
  <2>3. ASSUME NEW q \in window' PROVE Counts(q)' /\ score'[q] + WindowTicks <= expiry'
    <3>1. q \in Requests /\ (q = r \/ q \in window)
      BY <2>1, CurrentMembers DEF TypeOK
    <3>2. Counts(q)'
      BY <2>1, <2>2, <3>1 DEF SetInv, Counts
    <3>3. score'[q] <= clock
      BY <2>1, <3>1 DEF TypeOK, TimeInv
    <3>4. QED
      BY <2>1, <3>1, <3>2, <3>3 DEF TypeOK
  <2>4. ASSUME NEW q \in admitted' \ forgotten', Recent(q)' PROVE q \in window' /\ clock' < expiry'
    <3>1. clock' < expiry'
      BY <2>1 DEF TypeOK
    <3>2. CASE q = r
      BY <2>1, <3>1, <3>2
    <3>3. CASE q # r
      <4>1. q \in admitted \ forgotten /\ score'[q] = score[q]
        BY <2>1, <2>2, <3>3 DEF TypeOK
      <4>2. q \in Current(r)
        BY <2>1, <2>4, <4>1, CurrentMembers DEF Recent
      <4>3. QED
        BY <2>1, <3>1, <4>2
    <3>4. QED
      BY <3>2, <3>3
  <2>5. QED
    BY <2>3, <2>4 DEF SetInv
<1>5. ASSUME NEW r \in Requests, Withdraw(r) PROVE SetInv'
  <2>1. r \notin admitted
    BY <1>5 DEF TimeInv, Withdraw, Moves
  <2>2. \A q \in Requests : q # r => pc'[q] = pc[q]
    BY <1>5 DEF TypeOK, Withdraw, Moves
  <2>3. QED
    BY <1>5, <2>1, <2>2 DEF TypeOK, SetInv, Counts, Recent, Withdraw
<1>6. CASE EvictWindow
  BY <1>6 DEF SetInv, EvictWindow
<1>7. CASE EvictTokens \/ EvictLastUpdate
  BY <1>2, <1>7 DEF EvictTokens, EvictLastUpdate
<1>8. CASE UNCHANGED vars
  BY <1>2, <1>8 DEF vars, sortedSet
<1>9. QED
  BY <1>1, <1>3, <1>4, <1>5, <1>6, <1>7, <1>8 DEF Next, Serve

(* Only a request that finds fewer than Limit members is let through.       *)
LEMMA LimitStep ==
  TypeOK /\ TimeInv /\ SetInv /\ WindowLimits /\ TypeOK' /\ [Next]_vars => WindowLimits'
<1> USE LimiterAssumption
<1> SUFFICES ASSUME TypeOK, TimeInv, SetInv, WindowLimits, TypeOK', [Next]_vars PROVE WindowLimits'
  OBVIOUS
<1> DEFINE Counted == {r \in admitted \ forgotten : Recent(r)}
<1>1. Counted \subseteq Requests /\ IsFiniteSet(Counted) /\ Counted' \subseteq Requests
  BY FS_Subset DEF TypeOK
<1>2. ASSUME Counted' \subseteq Counted PROVE WindowLimits'
  <2>1. Cardinality(Counted') <= Cardinality(Counted) /\ IsFiniteSet(Counted')
    BY <1>1, <1>2, FS_Subset
  <2>2. Cardinality(Counted) \in Nat /\ Cardinality(Counted') \in Nat /\ Cardinality(Counted) <= Limit
    BY <1>1, <2>1, FS_CardinalityType DEF WindowLimits
  <2>3. QED
    BY <2>1, <2>2 DEF WindowLimits
<1>3. ASSUME NEW r \in Requests, Window(r), ~OverLimit(r) PROVE WindowLimits'
  <2>1. IsFiniteSet(Current(r)) /\ Cardinality(Current(r)) \in Nat /\ Cardinality(Current(r)) < Limit
    BY <1>3, CurrentMembers, FS_CardinalityType DEF OverLimit
  <2>2. /\ IsFiniteSet(Current(r) \cup {r})
        /\ Cardinality(Current(r) \cup {r}) \in Nat
        /\ Cardinality(Current(r) \cup {r}) <= Limit
    <3>1. /\ IsFiniteSet(Current(r) \cup {r})
          /\ Cardinality(Current(r) \cup {r}) \in {Cardinality(Current(r)), Cardinality(Current(r)) + 1}
      BY <2>1, FS_AddElement
    <3>2. QED
      BY <2>1, <3>1
  <2>3. ASSUME NEW q \in Counted' PROVE q \in Current(r) \cup {r}
    <3>1. SUFFICES ASSUME q # r PROVE q \in Current(r)
      OBVIOUS
    <3>2. q \in admitted \ forgotten /\ Recent(q)
      BY <1>3, <3>1 DEF TypeOK, Window, Record, Recent
    <3>3. QED
      BY <3>2, CurrentMembers
  <2>4. Cardinality(Counted') <= Cardinality(Current(r) \cup {r}) /\ IsFiniteSet(Counted')
    BY <2>2, <2>3, FS_Subset
  <2>5. Cardinality(Counted') \in Nat
    BY <2>4, FS_CardinalityType
  <2>6. QED
    BY <2>2, <2>4, <2>5 DEF WindowLimits
<1>4. ASSUME NEW r \in Requests, (Window(r) /\ OverLimit(r)) \/ WindowUnanswered(r)
      PROVE  Counted' \subseteq Counted
  <2>1. /\ UNCHANGED <<clock, admitted, forgotten>> /\ score' = [score EXCEPT ![r] = now[r]]
        /\ r \notin admitted
    BY <1>4 DEF TimeInv, Window, WindowUnanswered, Record, Moves
  <2>2. QED
    BY <2>1 DEF TypeOK, Recent
<1>5. CASE Tick
  BY <1>2, <1>5 DEF TypeOK, Tick, sortedSet, Recent
<1>6. CASE EvictWindow
  BY <1>2, <1>6 DEF TypeOK, EvictWindow, Recent
<1>7. CASE UNCHANGED <<clock, score, admitted, forgotten>>
  BY <1>2, <1>7 DEF Recent
<1>8. QED
  BY <1>2, <1>3, <1>4, <1>5, <1>6, <1>7 DEF Next, Serve, Arrive, Withdraw, Screen, Grant, Deny, GoOn,
     Crash, BucketUnanswered, EvictTokens, EvictLastUpdate, vars, sortedSet

(* The inductive invariant, in every reachable state. *)
THEOREM Invariance == Spec => []IInv
<1>1. Init => IInv
  <2>1. SUFFICES ASSUME Init PROVE IInv
    OBVIOUS
  <2>2. TypeOK /\ TimeInv /\ SetInv /\ BucketBalance
    BY <2>1, LimiterAssumption DEF Init, TypeOK, TimeInv, SetInv, BucketBalance, Steps, Answers, Missing
  <2>3. {r \in admitted \ forgotten : Recent(r)} = {}
    BY <2>1 DEF Init
  <2>4. WindowLimits
    BY <2>3, FS_EmptySet, LimiterAssumption DEF WindowLimits
  <2>5. QED
    BY <2>2, <2>4 DEF IInv
<1>2. IInv /\ [Next]_vars => IInv'
  BY TypeStep, TimeStep, SetStep, LimitStep DEF IInv
<1>3. QED
  BY <1>1, <1>2, PTL DEF Spec

(* Every variable keeps its type. *)
THEOREM TypeCorrect == Spec => []TypeOK
  BY Invariance, PTL DEF IInv

(* However requests overtake each other, no window lets more than Limit of  *)
(* them through.                                                            *)
THEOREM WindowIsLimited == Spec => []WindowLimits
  BY Invariance, PTL DEF IInv

(* The bucket creates at most one token per interval and loses none.        *)
THEOREM BucketIsBalanced == Spec => []BucketBalance
  BY Invariance, PTL DEF IInv

(* A request is turned away only for Limit others it finds in its window.   *)
THEOREM RejectionsAreJust == Spec => RejectedForCause
<1> DEFINE Others(r) == {q \in Requests : Counts(q) /\ score[q] > now[r] - WindowTicks}
<1>1. ASSUME IInv, [Next]_vars, NEW r \in Requests, Moves(r, "window", "withdraw")
      PROVE  Cardinality(Others(r)) >= Limit
  <2>1. OverLimit(r)
    <3>1. pc[r] = "window" /\ pc'[r] = "withdraw" /\ pc \in [Requests -> Steps \cup Answers]
      BY <1>1 DEF IInv, TypeOK, Moves
    <3>2. ASSUME NEW q \in Requests, Window(q) PROVE OverLimit(r)
      BY <3>1, <3>2 DEF Window, Moves
    <3>3. ASSUME NEW q \in Requests, Serve(q), ~Window(q) PROVE FALSE
      BY <3>1, <3>3 DEF Serve, Arrive, Withdraw, Screen, Grant, Deny, GoOn, Moves
    <3>4. ASSUME NEW q \in Requests, Crash(q) \/ WindowUnanswered(q) \/ BucketUnanswered(q) PROVE FALSE
      BY <3>1, <3>4 DEF Crash, WindowUnanswered, BucketUnanswered, Moves
    <3>5. QED
      BY <1>1, <3>1, <3>2, <3>3, <3>4 DEF Next, Tick, EvictWindow, EvictTokens, EvictLastUpdate, vars
  <2>2. TypeOK /\ TimeInv /\ SetInv
    BY <1>1 DEF IInv
  <2>3. Current(r) \subseteq Others(r)
    BY <2>2, CurrentMembers DEF Current, SetInv, TypeOK
  <2>4. IsFiniteSet(Others(r)) /\ Cardinality(Current(r)) <= Cardinality(Others(r))
    BY <2>3, FS_Subset, LimiterAssumption
  <2>5. Cardinality(Others(r)) \in Nat /\ Cardinality(Current(r)) \in Nat
    BY <2>2, <2>4, CurrentMembers, FS_CardinalityType
  <2>6. QED
    BY <2>1, <2>4, <2>5, LimiterAssumption DEF OverLimit
<1>2. IInv /\ [Next]_vars =>
        [\A r \in Requests : Moves(r, "window", "withdraw") => Cardinality(Others(r)) >= Limit]_vars
  BY <1>1
<1>3. QED
  BY <1>2, Invariance, PTL DEF Spec, RejectedForCause
=============================================================================
