---------------------------- MODULE IngestionProofs ----------------------------
(***************************************************************************)
(* Safety of document ingestion for any number of requests, workers and    *)
(* faults, of every kind.                                                  *)
(*                                                                         *)
(* The inductive invariant IInv says where the one job of a document may   *)
(* be (JobInv), what the tables hold at each step of the handler and of    *)
(* the worker (HandlerInv, WorkerInv), and adds the properties themselves. *)
(* LifeInv adds what is reported meanwhile if no command is left half      *)
(* done: then Ingestion implements DocumentLifecycle.                      *)
(***************************************************************************)
EXTENDS Ingestion, TLAPS

Total(r) == ChunksOf[ContentOf[r]]

(* Until a handler enqueues its document no job of it exists anywhere.      *)
HandlerInv ==
  \A r \in Requests :
    /\ api[r] \in {"idle", "dedup", "insert"} => status[r] = "none"
    /\ api[r] \in {"push", "mark_failed"} => status[r] # "none"
    /\ api[r] \in {"idle", "dedup", "insert", "push"}
         => r \notin late /\ ~Queued(r) /\ ~Held(r) /\ chunks[r] = 0
    /\ r \in late \/ Queued(r) => chunks[r] = 0
    /\ r \in late \/ Queued(r) \/ Held(r) => status[r] # "none"

(* What a worker knows of the document it holds. *)
WorkerInv ==
  \A w \in Workers :
    /\ step[w] = "idle" <=> job[w] = NoJob
    /\ step[w] \in {"start", "extract", "embed"} => chunks[job[w]] = 0
    /\ step[w] = "embed" => Total(job[w]) > 0
    /\ step[w] = "finish" => chunks[job[w]] = Total(job[w]) /\ Total(job[w]) > 0

JobInv == TypeOK /\ AtMostOneJob /\ HandlerInv /\ WorkerInv

-----------------------------------------------------------------------------
(* The queue *)

Elem(q, r) == \E i \in DOMAIN q : q[i] = r
Distinct(q) == \A i, j \in DOMAIN q : q[i] = q[j] => i = j

(* LPUSH adds its element and nothing else, and keeps elements distinct if  *)
(* it is new.                                                               *)
LEMMA AppendElem ==
  ASSUME NEW S, NEW q \in Seq(S), NEW x \in S
  PROVE  /\ Append(q, x) \in Seq(S)
         /\ \A r : Elem(Append(q, x), r) <=> Elem(q, r) \/ r = x
         /\ Distinct(q) /\ ~Elem(q, x) => Distinct(Append(q, x))
<1> DEFINE a == Append(q, x)
<1>1. /\ a \in Seq(S)
      /\ Len(a) = Len(q) + 1
      /\ DOMAIN q = 1..Len(q)
      /\ DOMAIN a = 1..(Len(q) + 1)
      /\ \A i \in 1..Len(q) : a[i] = q[i]
      /\ a[Len(q) + 1] = x
  OBVIOUS
<1>2. Len(q) \in Nat
  OBVIOUS
<1> HIDE DEF a
<1>3. \A r : Elem(a, r) <=> Elem(q, r) \/ r = x
  <2>1. ASSUME NEW r, Elem(a, r) PROVE Elem(q, r) \/ r = x
    BY <1>1, <1>2, <2>1 DEF Elem
  <2>2. ASSUME NEW r, Elem(q, r) PROVE Elem(a, r)
    BY <1>1, <1>2, <2>2 DEF Elem
  <2>3. Elem(a, x)
    BY <1>1, <1>2 DEF Elem
  <2>4. QED
    BY <2>1, <2>2, <2>3
<1>4. Distinct(q) /\ ~Elem(q, x) => Distinct(a)
  BY <1>1, <1>2 DEF Distinct, Elem
<1>5. QED
  BY <1>1, <1>3, <1>4 DEF a

(* BRPOP removes one element, and every other one stays. *)
LEMMA TailElem ==
  ASSUME NEW S, NEW q \in Seq(S), q # <<>>, Distinct(q)
  PROVE  /\ Head(q) \in S /\ Tail(q) \in Seq(S)
         /\ Elem(q, Head(q))
         /\ \A r : Elem(Tail(q), r) <=> Elem(q, r) /\ r # Head(q)
         /\ Distinct(Tail(q))
<1> DEFINE t == Tail(q)
<1>1. /\ Head(q) = q[1] /\ q[1] \in S
      /\ t \in Seq(S)
      /\ Len(t) = Len(q) - 1
      /\ DOMAIN q = 1..Len(q)
      /\ DOMAIN t = 1..(Len(q) - 1)
      /\ \A i \in 1..(Len(q) - 1) : t[i] = q[i + 1]
  OBVIOUS
<1>2. Len(q) \in Nat \ {0}
  OBVIOUS
<1> HIDE DEF t
<1>3. Elem(q, Head(q))
  BY <1>1, <1>2 DEF Elem
<1>4. ASSUME NEW r PROVE Elem(t, r) <=> Elem(q, r) /\ r # Head(q)
  <2>1. ASSUME Elem(t, r) PROVE Elem(q, r) /\ r # Head(q)
    <3>1. PICK i \in DOMAIN t : t[i] = r
      BY <2>1 DEF Elem
    <3>2. i + 1 \in DOMAIN q /\ q[i + 1] = r /\ i + 1 # 1 /\ 1 \in DOMAIN q
      BY <1>1, <1>2, <3>1
    <3>3. QED
      BY <1>1, <3>2 DEF Elem, Distinct
  <2>2. ASSUME Elem(q, r), r # Head(q) PROVE Elem(t, r)
    <3>1. PICK i \in DOMAIN q : q[i] = r
      BY <2>2 DEF Elem
    <3>2. i # 1
      BY <1>1, <2>2, <3>1
    <3>3. i - 1 \in DOMAIN t /\ t[i - 1] = r
      BY <1>1, <1>2, <3>1, <3>2
    <3>4. QED
      BY <3>3 DEF Elem
  <2>3. QED
    BY <2>1, <2>2
<1>5. Distinct(t)
  <2>1. SUFFICES ASSUME NEW i \in DOMAIN t, NEW j \in DOMAIN t, t[i] = t[j] PROVE i = j
    BY DEF Distinct
  <2>2. i + 1 \in DOMAIN q /\ j + 1 \in DOMAIN q /\ q[i + 1] = q[j + 1]
    BY <1>1, <1>2, <2>1
  <2>3. i + 1 = j + 1
    BY <2>2 DEF Distinct
  <2>4. QED
    BY <1>1, <1>2, <2>3
<1>6. QED
  BY <1>1, <1>3, <1>4, <1>5 DEF t
-----------------------------------------------------------------------------
(* The invariant *)

(* A worker that is not idle holds a document. *)
LEMMA Holds ==
  ASSUME JobInv, NEW w \in Workers, step[w] # "idle"
  PROVE  job[w] \in Requests /\ Total(job[w]) \in Nat
  BY IngestionAssumption DEF JobInv, TypeOK, WorkerInv, Total

LEMMA FaultType ==
  ASSUME TypeOK, NEW kind, NEW dropped \in SUBSET Requests, Fault(kind, dropped)
  PROVE  faults' \in 0..MaxFaults /\ lost' \subseteq Requests
  BY IngestionAssumption DEF TypeOK, Fault

(* Every variable keeps its type. *)
LEMMA TypeStep == JobInv /\ [Next]_vars => TypeOK'
<1> USE IngestionAssumption
<1> SUFFICES ASSUME JobInv, TypeOK, [Next]_vars PROVE TypeOK'
  BY DEF JobInv
<1>1. ASSUME NEW r \in Requests, Request(r) PROVE TypeOK'
  <2> USE <1>1 DEF TypeOK, Handler, Report, tables, workers, history, ApiSteps, Answers
  <2>1. CASE Receive(r)
    BY <2>1 DEF Receive
  <2>2. CASE Dedup(r)
    BY <2>2 DEF Dedup
  <2>3. CASE Insert(r)
    BY <2>3 DEF Insert
  <2>4. CASE Push(r)
    <3>1. queue' \in Seq(Requests)
      BY <2>4, AppendElem DEF Push
    <3>2. QED
      BY <2>4, <3>1 DEF Push
  <2>5. CASE MarkFailed(r)
    BY <2>5 DEF MarkFailed
  <2>6. QED
    BY <2>1, <2>2, <2>3, <2>4, <2>5 DEF Request
<1>2. ASSUME NEW r \in Requests, ApiCrash(r) \/ PushRefused(r) \/ PushTimesOut(r) PROVE TypeOK'
  <2>1. faults' \in 0..MaxFaults /\ lost' \subseteq Requests
    BY <1>2, FaultType DEF ApiCrash, PushRefused, PushTimesOut
  <2> USE <2>1 DEF TypeOK, Handler, tables, workers, ApiSteps, Answers
  <2>2. CASE ApiCrash(r)
    BY <2>2 DEF ApiCrash
  <2>3. CASE PushRefused(r) \/ PushTimesOut(r)
    BY <2>3 DEF PushRefused, PushTimesOut
  <2>4. QED
    BY <1>2, <2>2, <2>3
<1>3. ASSUME NEW r \in Requests, LateArrival(r) PROVE TypeOK'
  <2>1. queue' \in Seq(Requests)
    BY <1>3, AppendElem DEF TypeOK, LateArrival
  <2>2. QED
    BY <1>3, <2>1 DEF TypeOK, LateArrival, tables, workers, history
<1>4. ASSUME NEW w \in Workers, Pop(w) PROVE TypeOK'
  <2>1. Head(queue) \in Requests /\ queue' \in Seq(Requests)
    BY <1>4 DEF TypeOK, Pop
  <2>2. QED
    BY <1>4, <2>1 DEF TypeOK, Pop, Worker, WorkerSteps, tables, history
<1>5. ASSUME NEW w \in Workers, Process(w) PROVE TypeOK'
  <2>1. step[w] # "idle" /\ job[w] \in Requests /\ Total(job[w]) \in Nat
    BY <1>5, Holds DEF Process, Start, Extract, WriteChunk, EmbedFails, Commit, Finish, Fail, Worker
  <2> USE <2>1 DEF TypeOK, Worker, WorkerSteps, Report, Drop, tables, history, Total
  <2>2. CASE Start(w)
    BY <2>2 DEF Start
  <2>3. CASE Extract(w)
    BY <2>3 DEF Extract
  <2>4. CASE WriteChunk(w)
    BY <2>4 DEF WriteChunk
  <2>9. CASE EmbedFails(w)
    BY <2>9 DEF EmbedFails
  <2>5. CASE Commit(w)
    BY <2>5 DEF Commit, CommitChunks
  <2>6. CASE Finish(w)
    BY <2>6 DEF Finish, SetComplete
  <2>7. CASE Fail(w)
    BY <2>7 DEF Fail
  <2>8. QED
    BY <1>5, <2>2, <2>3, <2>4, <2>5, <2>6, <2>7, <2>9 DEF Process
<1>6. ASSUME NEW w \in Workers, WorkerCrash(w) PROVE TypeOK'
  BY <1>6 DEF TypeOK, WorkerCrash, Drop, Fault, WorkerSteps, tables
<1>7. ASSUME NEW w \in Workers, CommitUnanswered(w) \/ FinishUnanswered(w) PROVE TypeOK'
  <2>1. step[w] # "idle" /\ job[w] \in Requests /\ Total(job[w]) \in Nat
    BY <1>7, Holds DEF CommitUnanswered, FinishUnanswered, Worker
  <2>2. faults' \in 0..MaxFaults /\ lost' \subseteq Requests
    BY <1>7, FaultType DEF CommitUnanswered, FinishUnanswered
  <2> USE <2>1, <2>2 DEF TypeOK, Worker, WorkerSteps, Total
  <2>3. CASE CommitUnanswered(w)
    BY <2>3 DEF CommitUnanswered, CommitChunks
  <2>4. CASE FinishUnanswered(w)
    BY <2>4 DEF FinishUnanswered, SetComplete, Report
  <2>5. QED
    BY <1>7, <2>3, <2>4
<1>8. CASE Evict
  <2>1. {queue[i] : i \in DOMAIN queue} \subseteq Requests
    BY DEF TypeOK
  <2>2. QED
    BY <1>8, <2>1 DEF TypeOK, Evict, Fault, tables, workers
<1>9. CASE UNCHANGED vars
  BY <1>9 DEF TypeOK, vars
<1>10. QED
  BY <1>1, <1>2, <1>3, <1>4, <1>5, <1>6, <1>7, <1>8, <1>9 DEF Next

(* The one job of a document moves from its handler to the late commands or *)
(* the queue, from there to a worker, and disappears; it is never copied.   *)
LEMMA OneJobStep == JobInv /\ TypeOK' /\ [Next]_vars => AtMostOneJob'
<1> USE IngestionAssumption
<1> SUFFICES ASSUME JobInv, TypeOK', [Next]_vars PROVE AtMostOneJob'
  OBVIOUS
<1>1. TypeOK /\ AtMostOneJob /\ HandlerInv
  BY DEF JobInv
<1>2. CASE UNCHANGED <<queue, late, job>>
  BY <1>1, <1>2 DEF AtMostOneJob, Queued, Held
<1>3. ASSUME NEW w \in Workers, Drop(w), UNCHANGED <<queue, late>> PROVE AtMostOneJob'
  <2>1. \A v \in Workers : job'[v] = job[v] \/ job'[v] = NoJob
    BY <1>1, <1>3 DEF Drop, TypeOK
  <2>2. \A r \in Requests : Held(r)' => Held(r)
    BY <1>1, <2>1 DEF Held
  <2>3. QED
    BY <1>1, <1>3, <2>1, <2>2 DEF AtMostOneJob, Queued
<1>4. ASSUME NEW r \in Requests, r \in late \/ api[r] = "push", queue' = Append(queue, r),
             late' = late \ {r}, UNCHANGED job
      PROVE  AtMostOneJob'
  <2>1. ~Queued(r) /\ ~Held(r)
    BY <1>1, <1>4 DEF AtMostOneJob, HandlerInv
  <2>2. queue \in Seq(Requests) /\ Distinct(queue) /\ ~Elem(queue, r)
    BY <1>1, <2>1 DEF TypeOK, AtMostOneJob, Queued, Elem, Distinct
  <2>3. /\ Distinct(Append(queue, r))
        /\ \A d : Elem(Append(queue, r), d) <=> Elem(queue, d) \/ d = r
    BY <2>2, AppendElem
  <2>4. Distinct(queue')
    BY <1>4, <2>3
  <2>5. \A d \in Requests : Queued(d)' <=> Queued(d) \/ d = r
    BY <1>4, <2>3 DEF Queued, Elem
  <2>6. \A d \in Requests : Held(d)' <=> Held(d)
    BY <1>4 DEF Held
  <2>7. QED
    BY <1>1, <1>4, <2>1, <2>5, <2>6, <2>4 DEF AtMostOneJob, Distinct
<1>5. ASSUME NEW r \in Requests, Push(r) PROVE AtMostOneJob'
  <2>1. api[r] = "push" /\ r \notin late
    BY <1>1, <1>5 DEF Push, Handler, HandlerInv
  <2>2. QED
    BY <1>4, <1>5, <2>1 DEF Push, workers
<1>6. ASSUME NEW r \in Requests, LateArrival(r) PROVE AtMostOneJob'
  BY <1>4, <1>6 DEF LateArrival, workers
<1>7. ASSUME NEW r \in Requests, PushTimesOut(r) PROVE AtMostOneJob'
  <2>1. ~Queued(r) /\ ~Held(r)
    BY <1>1, <1>7 DEF PushTimesOut, Handler, HandlerInv
  <2>2. QED
    BY <1>1, <1>7, <2>1 DEF PushTimesOut, workers, AtMostOneJob, Queued, Held
<1>8. ASSUME NEW w \in Workers, Pop(w) PROVE AtMostOneJob'
  <2>1. /\ Head(queue) \in Requests /\ Queued(Head(queue))
        /\ \A d \in Requests : Queued(d)' <=> Queued(d) /\ d # Head(queue)
        /\ Distinct(queue')
    BY <1>1, <1>8, TailElem DEF TypeOK, AtMostOneJob, Pop, Queued, Elem, Distinct
  <2>2. ~Held(Head(queue)) /\ Head(queue) \notin late
    BY <1>1, <2>1 DEF AtMostOneJob
  <2>3. /\ job'[w] = Head(queue)
        /\ \A v \in Workers : v # w => job'[v] = job[v]
        /\ late' = late
    BY <1>1, <1>8 DEF Pop, TypeOK
  <2>4. \A d \in Requests : Held(d)' => Held(d) \/ d = Head(queue)
    BY <2>3 DEF Held
  <2>5. \A u, v \in Workers : job'[u] = job'[v] /\ job'[u] # NoJob => u = v
    BY <1>1, <2>1, <2>2, <2>3 DEF AtMostOneJob, Held
  <2>6. QED
    BY <1>1, <2>1, <2>2, <2>3, <2>4, <2>5 DEF AtMostOneJob, Distinct
<1>9. CASE Evict
  BY <1>1, <1>9 DEF Evict, AtMostOneJob, Queued, Held, workers
<1>10. ASSUME NEW r \in Requests, Request(r), ~Push(r) PROVE UNCHANGED <<queue, late, job>>
  BY <1>10 DEF Request, Receive, Dedup, Insert, MarkFailed, workers
<1>11. ASSUME NEW r \in Requests, ApiCrash(r) \/ PushRefused(r) PROVE UNCHANGED <<queue, late, job>>
  BY <1>11 DEF ApiCrash, PushRefused, workers
<1>12. ASSUME NEW w \in Workers, Process(w), ~Finish(w), ~Fail(w)
       PROVE  UNCHANGED <<queue, late, job>>
  BY <1>12 DEF Process, Start, Extract, WriteChunk, EmbedFails, Commit
<1>13. ASSUME NEW w \in Workers, CommitUnanswered(w) \/ FinishUnanswered(w)
       PROVE  UNCHANGED <<queue, late, job>>
  BY <1>13 DEF CommitUnanswered, FinishUnanswered
<1>14. ASSUME NEW w \in Workers, Finish(w) \/ Fail(w) \/ WorkerCrash(w)
       PROVE  Drop(w) /\ UNCHANGED <<queue, late>>
  BY <1>14 DEF Finish, Fail, WorkerCrash
<1>15. QED
  BY <1>2, <1>3, <1>5, <1>6, <1>7, <1>8, <1>9, <1>10, <1>11, <1>12, <1>13, <1>14
  DEF Next, vars

(* What an LPUSH and a BRPOP do to the set of queued documents. *)
LEMMA QueuePush ==
  ASSUME TypeOK, NEW r \in Requests, queue' = Append(queue, r)
  PROVE  \A d : Queued(d)' <=> Queued(d) \/ d = r
<1>1. \A d : Elem(Append(queue, r), d) <=> Elem(queue, d) \/ d = r
  BY AppendElem DEF TypeOK
<1>2. QED
  BY <1>1 DEF Queued, Elem

LEMMA QueuePop ==
  ASSUME TypeOK, AtMostOneJob, queue # <<>>, queue' = Tail(queue)
  PROVE  /\ Head(queue) \in Requests /\ Queued(Head(queue))
         /\ \A d : Queued(d)' <=> Queued(d) /\ d # Head(queue)
<1>1. queue \in Seq(Requests) /\ Distinct(queue)
  BY DEF TypeOK, AtMostOneJob, Distinct
<1>2. /\ Head(queue) \in Requests /\ Elem(queue, Head(queue))
      /\ \A d : Elem(Tail(queue), d) <=> Elem(queue, d) /\ d # Head(queue)
  BY <1>1, TailElem
<1>3. QED
  BY <1>2 DEF Queued, Elem

(* A document whose job exists was enqueued by its handler. *)
LEMMA HeldIsPushed ==
  ASSUME JobInv, NEW w \in Workers, step[w] # "idle"
  PROVE  /\ job[w] \in Requests /\ Held(job[w])
         /\ ~Queued(job[w]) /\ job[w] \notin late
         /\ api[job[w]] \notin {"idle", "dedup", "insert", "push"}
         /\ \A v \in Workers : v # w => job[v] # job[w]
<1>1. job[w] \in Requests /\ job[w] # NoJob /\ Held(job[w])
  BY Holds, IngestionAssumption DEF Held
<1>2. QED
  BY <1>1 DEF JobInv, AtMostOneJob, HandlerInv

(* The queue and the late commands only hold documents whose handler        *)
(* enqueued them, and no worker has touched them yet.                       *)
LEMMA HandlerStep == JobInv /\ TypeOK' /\ [Next]_vars => HandlerInv'
<1> USE IngestionAssumption
<1> SUFFICES ASSUME JobInv, TypeOK', [Next]_vars PROVE HandlerInv'
  OBVIOUS
<1>1. TypeOK /\ AtMostOneJob /\ HandlerInv
  BY DEF JobInv
<1>2. ASSUME NEW r \in Requests, Request(r) PROVE HandlerInv'
  <2>1. CASE Push(r)
    <3>1. \A d \in Requests : Queued(d)' <=> Queued(d) \/ d = r
      BY <1>1, <2>1, QueuePush DEF Push
    <3>2. QED
      BY <1>1, <2>1, <3>1 DEF TypeOK, HandlerInv, Push, Handler, tables, workers, Held
  <2>2. CASE ~Push(r)
    <3>1. /\ UNCHANGED <<queue, late, job, chunks>>
          /\ \A d \in Requests : d # r => api'[d] = api[d] /\ status'[d] = status[d]
      BY <1>1, <1>2, <2>2 DEF TypeOK, Request, Receive, Dedup, Insert, MarkFailed, Handler,
         Report, tables, workers
    <3>2. \A d \in Requests : (Queued(d)' <=> Queued(d)) /\ (Held(d)' <=> Held(d))
      BY <3>1 DEF Queued, Held
    <3>3. /\ api'[r] \in {"idle", "dedup", "insert"} => status'[r] = "none"
          /\ api'[r] \in {"push", "mark_failed"} => status'[r] # "none"
          /\ api'[r] \in {"idle", "dedup", "insert", "push"}
               => api[r] \in {"idle", "dedup", "insert", "push"}
          /\ status'[r] = status[r] \/ status'[r] # "none"
      BY <1>1, <1>2, <2>2 DEF TypeOK, HandlerInv, Request, Receive, Dedup, Insert, MarkFailed,
         Handler, Report, tables
    <3>4. QED
      BY <1>1, <3>1, <3>2, <3>3 DEF HandlerInv
  <2>3. QED
    BY <2>1, <2>2
<1>3. ASSUME NEW r \in Requests, ApiCrash(r) \/ PushRefused(r) \/ PushTimesOut(r) PROVE HandlerInv'
  <2>1. UNCHANGED <<queue, job, tables>>
    BY <1>3 DEF ApiCrash, PushRefused, PushTimesOut, workers
  <2>2. \A d \in Requests : (Queued(d)' <=> Queued(d)) /\ (Held(d)' <=> Held(d))
    BY <2>1 DEF Queued, Held
  <2>3. CASE ApiCrash(r)
    BY <1>1, <2>1, <2>2, <2>3 DEF TypeOK, HandlerInv, ApiCrash, tables
  <2>4. CASE PushRefused(r)
    BY <1>1, <2>1, <2>2, <2>4 DEF TypeOK, HandlerInv, PushRefused, Handler, tables
  <2>5. CASE PushTimesOut(r)
    BY <1>1, <2>1, <2>2, <2>5 DEF TypeOK, HandlerInv, PushTimesOut, Handler, tables
  <2>6. QED
    BY <1>3, <2>3, <2>4, <2>5
<1>4. ASSUME NEW r \in Requests, LateArrival(r) PROVE HandlerInv'
  <2>1. \A d \in Requests : Queued(d)' <=> Queued(d) \/ d = r
    BY <1>1, <1>4, QueuePush DEF LateArrival
  <2>2. QED
    BY <1>1, <1>4, <2>1 DEF HandlerInv, LateArrival, tables, workers, Held
<1>5. ASSUME NEW w \in Workers, Pop(w) PROVE HandlerInv'
  <2>1. \A d \in Requests : Queued(d)' => Queued(d)
    BY <1>1, <1>5, QueuePop DEF Pop
  <2>2. \A d \in Requests : Held(d)' => Held(d) \/ Queued(d)
    BY <1>1, <1>5, QueuePop DEF TypeOK, Pop, Held
  <2>3. QED
    BY <1>1, <1>5, <2>1, <2>2 DEF HandlerInv, Pop, tables
<1>6. ASSUME NEW w \in Workers, step[w] # "idle", UNCHANGED <<queue, late, api>>,
             job' = job \/ Drop(w),
             \A d \in Requests : d # job[w] => status'[d] = status[d] /\ chunks'[d] = chunks[d],
             status'[job[w]] # "none"
      PROVE  HandlerInv'
  <2>1. \A d \in Requests : (Queued(d)' <=> Queued(d)) /\ (Held(d)' => Held(d))
    BY <1>1, <1>6 DEF TypeOK, Queued, Held, Drop
  <2>2. \A d \in Requests : d # job[w] =>
          /\ api'[d] \in {"idle", "dedup", "insert"} => status'[d] = "none"
          /\ api'[d] \in {"push", "mark_failed"} => status'[d] # "none"
          /\ api'[d] \in {"idle", "dedup", "insert", "push"}
               => d \notin late' /\ ~Queued(d)' /\ ~Held(d)' /\ chunks'[d] = 0
          /\ d \in late' \/ Queued(d)' => chunks'[d] = 0
          /\ d \in late' \/ Queued(d)' \/ Held(d)' => status'[d] # "none"
    BY <1>1, <1>6, <2>1 DEF HandlerInv
  <2>3. PICK h \in Requests : h = job[w]
    BY <1>6, HeldIsPushed
  <2>4. /\ api'[h] \notin {"idle", "dedup", "insert", "push"}
        /\ h \notin late' /\ ~Queued(h)'
    BY <1>6, <2>1, <2>3, HeldIsPushed
  <2>5. QED
    BY <1>6, <2>2, <2>3, <2>4 DEF HandlerInv
<1>7. ASSUME NEW w \in Workers,
             Process(w) \/ WorkerCrash(w) \/ CommitUnanswered(w) \/ FinishUnanswered(w)
      PROVE  HandlerInv'
  <2>1. step[w] # "idle" /\ UNCHANGED <<queue, late, api>> /\ (job' = job \/ Drop(w))
    BY <1>7 DEF JobInv, WorkerInv, Process, Start, Extract, WriteChunk, EmbedFails, Commit, Finish, Fail,
       WorkerCrash, CommitUnanswered, FinishUnanswered, Worker
  <2>2. job[w] \in Requests /\ status[job[w]] # "none"
    BY <2>1, HeldIsPushed DEF JobInv, HandlerInv
  <2>3. \A d \in Requests : d # job[w] => status'[d] = status[d] /\ chunks'[d] = chunks[d]
    BY <1>1, <1>7, <2>2 DEF TypeOK, Process, Start, Extract, WriteChunk, EmbedFails, Commit, Finish, Fail,
       WorkerCrash, CommitUnanswered, FinishUnanswered, CommitChunks, SetComplete, Report, tables
  <2>4. status'[job[w]] # "none"
    BY <1>1, <1>7, <2>2 DEF TypeOK, Process, Start, Extract, WriteChunk, EmbedFails, Commit, Finish, Fail,
       WorkerCrash, CommitUnanswered, FinishUnanswered, SetComplete, Report, tables
  <2>5. QED
    BY <1>6, <2>1, <2>3, <2>4
<1>8. CASE Evict
  BY <1>1, <1>8 DEF Evict, HandlerInv, Queued, Held, tables, workers
<1>9. CASE UNCHANGED vars
  BY <1>1, <1>9 DEF HandlerInv, Queued, Held, vars
<1>10. QED
  BY <1>2, <1>3, <1>4, <1>5, <1>7, <1>8, <1>9 DEF Next

(* A worker writes the chunks of its own document only, and only once.      *)
LEMMA WorkerStep == JobInv /\ TypeOK' /\ [Next]_vars => WorkerInv'
<1> USE IngestionAssumption
<1> SUFFICES ASSUME JobInv, TypeOK', [Next]_vars PROVE WorkerInv'
  OBVIOUS
<1>1. TypeOK /\ WorkerInv
  BY DEF JobInv
<1>2. CASE UNCHANGED <<workers, chunks>>
  BY <1>1, <1>2 DEF WorkerInv, workers
<1>3. ASSUME NEW w \in Workers, Pop(w) PROVE WorkerInv'
  <2>1. Head(queue) \in Requests /\ chunks[Head(queue)] = 0
    BY <1>3, QueuePop DEF JobInv, Pop, HandlerInv
  <2>2. QED
    BY <1>1, <1>3, <2>1 DEF TypeOK, WorkerInv, Pop, Worker, tables
<1>4. ASSUME NEW w \in Workers,
             Process(w) \/ WorkerCrash(w) \/ CommitUnanswered(w) \/ FinishUnanswered(w)
      PROVE  WorkerInv'
  <2>1. step[w] # "idle"
    BY <1>1, <1>4 DEF WorkerInv, Process, Start, Extract, WriteChunk, EmbedFails, Commit, Finish, Fail,
       WorkerCrash, CommitUnanswered, FinishUnanswered, Worker
  <2>2. PICK h \in Requests : h = job[w]
    BY <2>1, HeldIsPushed
  <2>3. \A v \in Workers : v # w => job[v] # h
    BY <2>1, <2>2, HeldIsPushed
  <2>4. \A v \in Workers : v # w => step'[v] = step[v] /\ job'[v] = job[v]
    BY <1>1, <1>4 DEF TypeOK, Process, Start, Extract, WriteChunk, EmbedFails, Commit, Finish, Fail,
       WorkerCrash, CommitUnanswered, FinishUnanswered, Worker, Drop
  <2>5. \A d \in Requests : d # h => chunks'[d] = chunks[d]
    BY <1>1, <1>4, <2>2 DEF TypeOK, Process, Start, Extract, WriteChunk, EmbedFails, Commit, Finish, Fail,
       WorkerCrash, CommitUnanswered, FinishUnanswered, CommitChunks, tables
  <2>6. \A v \in Workers : v # w =>
          /\ step'[v] = "idle" <=> job'[v] = NoJob
          /\ step'[v] \in {"start", "extract", "embed"} => chunks'[job'[v]] = 0
          /\ step'[v] = "embed" => Total(job'[v]) > 0
          /\ step'[v] = "finish" => chunks'[job'[v]] = Total(job'[v]) /\ Total(job'[v]) > 0
    <3>1. SUFFICES ASSUME NEW v \in Workers, v # w, step[v] # "idle"
                   PROVE  chunks'[job[v]] = chunks[job[v]]
      BY <1>1, <2>4 DEF WorkerInv
    <3>2. job[v] \in Requests
      BY <3>1, HeldIsPushed
    <3>3. QED
      BY <2>3, <2>5, <3>1, <3>2
  <2>7. /\ step'[w] = "idle" <=> job'[w] = NoJob
        /\ step'[w] \in {"start", "extract", "embed"} => chunks'[job'[w]] = 0
        /\ step'[w] = "embed" => Total(job'[w]) > 0
        /\ step'[w] = "finish" => chunks'[job'[w]] = Total(job'[w]) /\ Total(job'[w]) > 0
    <3> USE <1>1, <2>2 DEF TypeOK, WorkerInv, Worker, Drop, tables, Total
    <3>1. CASE Start(w)
      BY <3>1 DEF Start
    <3>2. CASE Extract(w)
      BY <3>2 DEF Extract
    <3>3. CASE WriteChunk(w) \/ EmbedFails(w)
      BY <3>3 DEF WriteChunk, EmbedFails
    <3>4. CASE Commit(w)
      BY <3>4 DEF Commit, CommitChunks
    <3>5. CASE Finish(w) \/ Fail(w) \/ WorkerCrash(w)
      BY <3>5 DEF Finish, Fail, WorkerCrash
    <3>6. CASE CommitUnanswered(w) \/ FinishUnanswered(w)
      BY <3>6 DEF CommitUnanswered, FinishUnanswered
    <3>7. QED
      BY <1>4, <3>1, <3>2, <3>3, <3>4, <3>5, <3>6 DEF Process
  <2>8. QED
    BY <2>6, <2>7 DEF WorkerInv
<1>5. ASSUME NEW r \in Requests,
             Request(r) \/ ApiCrash(r) \/ PushRefused(r) \/ PushTimesOut(r) \/ LateArrival(r)
      PROVE  UNCHANGED <<workers, chunks>>
  BY <1>5 DEF Request, Receive, Dedup, Insert, Push, MarkFailed, ApiCrash, PushRefused,
     PushTimesOut, LateArrival, tables
<1>6. CASE Evict
  BY <1>2, <1>6 DEF Evict, tables
<1>7. QED
  BY <1>2, <1>3, <1>4, <1>5, <1>6 DEF Next, vars, workers

(* Where jobs are, in every reachable state. *)
THEOREM JobInvariance == Spec => []JobInv
<1>1. Init => JobInv
  BY IngestionAssumption DEF Init, JobInv, TypeOK, AtMostOneJob, HandlerInv, WorkerInv,
     Queued, Held, ApiSteps, Answers, WorkerSteps
<1>2. JobInv /\ [Next]_vars => JobInv'
  BY TypeStep, OneJobStep, HandlerStep, WorkerStep DEF JobInv
<1>3. QED
  BY <1>1, <1>2, PTL DEF Spec

(* Every variable keeps its type. *)
THEOREM TypeCorrect == Spec => []TypeOK
  BY JobInvariance, PTL DEF JobInv

(* No two workers ever process one document, and no job is queued twice.    *)
THEOREM JobsAreUnique == Spec => []AtMostOneJob
  BY JobInvariance, PTL DEF JobInv

-----------------------------------------------------------------------------
(* What the tables hold *)

(* What a step of a worker does to the tables: it commits the chunks of its *)
(* document, reports it complete, or reports it neither.                    *)
LEMMA WorkerWrites ==
  ASSUME JobInv, NEW w \in Workers,
         Process(w) \/ WorkerCrash(w) \/ CommitUnanswered(w) \/ FinishUnanswered(w)
  PROVE  /\ job[w] \in Requests /\ job[w] # NoJob /\ step[w] # "idle"
         /\ status' = status \/ \E s \in {"processing", "complete", "failed"} : Report(job[w], s)
         /\ \/ chunks' = chunks
            \/ step[w] = "embed" /\ CommitChunks(w) /\ status' = status
         /\ \/ chunkCount' = chunkCount /\ status'[job[w]] \in {status[job[w]], "processing", "failed"}
            \/ step[w] = "finish" /\ SetComplete(w) /\ chunks' = chunks
<1>1. step[w] # "idle"
  BY DEF JobInv, WorkerInv, Process, Start, Extract, WriteChunk, EmbedFails, Commit, Finish, Fail,
     WorkerCrash, CommitUnanswered, FinishUnanswered, Worker
<1>2. job[w] \in Requests /\ job[w] # NoJob
  BY <1>1, Holds, IngestionAssumption
<1>3. status \in [Requests -> {"none", "queued", "processing", "complete", "failed"}]
  BY DEF JobInv, TypeOK
<1>4. QED
  BY <1>1, <1>2, <1>3 DEF Process, Start, Extract, WriteChunk, EmbedFails, Commit, Finish, Fail,
     WorkerCrash, CommitUnanswered, FinishUnanswered, Worker, Report, SetComplete, tables

(* Only an insertion adds a document, and it checks the content first.      *)
LEMMA OneDocumentStep ==
  JobInv /\ OneDocumentPerContent /\ [Next]_vars => OneDocumentPerContent'
<1> SUFFICES ASSUME JobInv, OneDocumentPerContent, [Next]_vars PROVE OneDocumentPerContent'
  OBVIOUS
<1>1. TypeOK /\ HandlerInv
  BY DEF JobInv
<1>2. ASSUME \A r \in Requests : status'[r] # "none" => status[r] # "none"
      PROVE  OneDocumentPerContent'
  BY <1>2 DEF OneDocumentPerContent, SameContent
<1>3. ASSUME NEW r \in Requests, Insert(r) PROVE OneDocumentPerContent'
  <2>1. CASE Registered(r)
    BY <1>2, <1>3, <2>1 DEF Insert
  <2>2. CASE ~Registered(r)
    <3>1. \A d \in Requests : SameContent(r, d) => status[d] = "none"
      BY <2>2 DEF Registered
    <3>2. \A d \in Requests : d # r => status'[d] = status[d]
      BY <1>1, <1>3, <2>2 DEF TypeOK, Insert, Report
    <3>3. QED
      BY <3>1, <3>2 DEF OneDocumentPerContent, SameContent
  <2>3. QED
    BY <2>1, <2>2
<1>4. ASSUME NEW r \in Requests, MarkFailed(r) PROVE OneDocumentPerContent'
  BY <1>1, <1>2, <1>4 DEF TypeOK, HandlerInv, MarkFailed, Handler, Report
<1>5. ASSUME NEW w \in Workers,
             Process(w) \/ WorkerCrash(w) \/ CommitUnanswered(w) \/ FinishUnanswered(w)
      PROVE  OneDocumentPerContent'
  <2>1. /\ job[w] \in Requests /\ status[job[w]] # "none"
        /\ status' = status \/ \E s \in {"processing", "complete", "failed"} : Report(job[w], s)
    BY <1>1, <1>5, WorkerWrites, HeldIsPushed DEF HandlerInv
  <2>2. QED
    BY <1>1, <1>2, <2>1 DEF TypeOK, Report
<1>6. CASE UNCHANGED status
  BY <1>2, <1>6
<1>7. QED
  BY <1>3, <1>4, <1>5, <1>6 DEF Next, Request, Receive, Dedup, Push, ApiCrash, PushRefused,
     PushTimesOut, LateArrival, Pop, Evict, tables, vars

(* Only the holder of a document commits chunks of it, and it finds none.   *)
LEMMA ChunksStep ==
  JobInv /\ ChunksAllOrNothing /\ CompleteIsSearchable /\ [Next]_vars
    => ChunksAllOrNothing' /\ CompleteIsSearchable'
<1> SUFFICES ASSUME JobInv, ChunksAllOrNothing, CompleteIsSearchable, [Next]_vars
             PROVE  ChunksAllOrNothing' /\ CompleteIsSearchable'
  OBVIOUS
<1>1. TypeOK /\ WorkerInv /\ HandlerInv
  BY DEF JobInv
<1>2. ASSUME UNCHANGED <<chunks, chunkCount>>,
             \A r \in Requests : status'[r] = "complete" => status[r] = "complete"
      PROVE  ChunksAllOrNothing' /\ CompleteIsSearchable'
  BY <1>2 DEF ChunksAllOrNothing, CompleteIsSearchable
<1>3. ASSUME NEW w \in Workers,
             Process(w) \/ WorkerCrash(w) \/ CommitUnanswered(w) \/ FinishUnanswered(w)
      PROVE  ChunksAllOrNothing' /\ CompleteIsSearchable'
  <2>1. PICK h \in Requests : h = job[w]
    BY <1>3, WorkerWrites
  <2>2. CASE step[w] = "embed" /\ CommitChunks(w) /\ status' = status
    <3>1. chunks[h] = 0 /\ Total(h) \in Nat
      BY <1>1, <2>1, <2>2, IngestionAssumption DEF WorkerInv, Total
    <3>2. chunks' = [chunks EXCEPT ![h] = Total(h)]
      <4>1. chunks' = [chunks EXCEPT ![h] = chunks[h] + Total(h)]
        BY <2>1, <2>2 DEF CommitChunks, Total
      <4>2. chunks[h] + Total(h) = Total(h)
        BY <3>1
      <4>3. QED
        BY <4>1, <4>2, Zenon
    <3>5. status[h] # "complete"
      BY <3>1 DEF CompleteIsSearchable
    <3>3. chunkCount' = chunkCount
      BY <1>3, <2>2, WorkerWrites
    <3>4. QED
      BY <1>1, <2>2, <3>1, <3>2, <3>3, <3>5 DEF TypeOK, ChunksAllOrNothing, CompleteIsSearchable, Total
  <2>3. CASE step[w] = "finish" /\ SetComplete(w) /\ chunks' = chunks
    <3>1. chunks[h] = Total(h) /\ Total(h) > 0
      BY <1>1, <2>1, <2>3 DEF WorkerInv
    <3>2. /\ status' = [status EXCEPT ![h] = "complete"]
          /\ chunkCount' = [chunkCount EXCEPT ![h] = Total(h)]
      BY <2>1, <2>3 DEF SetComplete, Report, Total
    <3>3. QED
      BY <1>1, <2>3, <3>1, <3>2 DEF TypeOK, ChunksAllOrNothing, CompleteIsSearchable, Total
  <2>4. CASE /\ chunks' = chunks /\ chunkCount' = chunkCount
             /\ status'[h] \in {status[h], "processing", "failed"}
    <3>1. \A d \in Requests : d # h => status'[d] = status[d]
      BY <1>1, <1>3, <2>1, WorkerWrites DEF TypeOK, Report
    <3>2. QED
      BY <1>2, <2>4, <3>1
  <2>5. QED
    BY <1>3, <2>1, <2>2, <2>3, <2>4, WorkerWrites
<1>4. ASSUME NEW r \in Requests, Insert(r) \/ MarkFailed(r)
      PROVE  ChunksAllOrNothing' /\ CompleteIsSearchable'
  BY <1>1, <1>2, <1>4 DEF TypeOK, Insert, MarkFailed, Report
<1>5. CASE UNCHANGED tables
  BY <1>2, <1>5 DEF tables
<1>6. QED
  BY <1>3, <1>4, <1>5 DEF Next, Request, Receive, Dedup, Push, ApiCrash, PushRefused,
     PushTimesOut, LateArrival, Pop, Evict, tables, vars

(* A job disappears only when its document is reported complete or failed,  *)
(* or into the history of the lost ones.                                    *)
LEMMA NoOrphanStep == JobInv /\ NoOrphan /\ [Next]_vars => NoOrphan'
<1> SUFFICES ASSUME JobInv, NoOrphan, [Next]_vars PROVE NoOrphan'
  OBVIOUS
<1>1. TypeOK /\ AtMostOneJob /\ HandlerInv
  BY DEF JobInv
<1>2. ASSUME NEW r \in Requests, Request(r) PROVE NoOrphan'
  <2>1. CASE Push(r)
    <3>1. \A d \in Requests : Queued(d)' <=> Queued(d) \/ d = r
      BY <1>1, <2>1, QueuePush DEF Push
    <3>2. QED
      BY <1>1, <2>1, <3>1 DEF TypeOK, NoOrphan, OnItsWay, Push, Handler, Held, tables, workers, history
  <2>2. CASE ~Push(r)
    <3>1. /\ UNCHANGED <<queue, job, lost>>
          /\ \A d \in Requests : d # r => api'[d] = api[d] /\ status'[d] = status[d]
      BY <1>1, <1>2, <2>2 DEF TypeOK, Request, Receive, Dedup, Insert, MarkFailed, Handler,
         Report, tables, workers, history
    <3>2. \A d \in Requests : (Queued(d)' <=> Queued(d)) /\ (Held(d)' <=> Held(d))
      BY <3>1 DEF Queued, Held
    <3>3. \/ status'[r] \in {"none", "failed"} \/ api'[r] = "push"
          \/ status'[r] = status[r] /\ api[r] \in {"idle", "dedup", "insert"}
      BY <1>1, <1>2, <2>2 DEF TypeOK, Request, Receive, Dedup, Insert, MarkFailed, Handler,
         Report, tables
    <3>4. status'[r] \in {"none", "failed"} \/ api'[r] = "push"
      BY <1>1, <3>3 DEF HandlerInv
    <3>5. QED
      BY <3>1, <3>2, <3>4 DEF NoOrphan, OnItsWay
  <2>3. QED
    BY <2>1, <2>2
<1>3. ASSUME NEW r \in Requests, ApiCrash(r) \/ PushRefused(r) \/ PushTimesOut(r) PROVE NoOrphan'
  <2>1. /\ UNCHANGED <<queue, job, status>>
        /\ \A d \in Requests : d # r => api'[d] = api[d]
        /\ lost \subseteq lost'
        /\ r \in lost' \/ api'[r] = "mark_failed"
    BY <1>1, <1>3 DEF TypeOK, ApiCrash, PushRefused, PushTimesOut, Handler, Fault, tables, workers
  <2>2. \A d \in Requests : (Queued(d)' <=> Queued(d)) /\ (Held(d)' <=> Held(d))
    BY <2>1 DEF Queued, Held
  <2>3. QED
    BY <2>1, <2>2 DEF NoOrphan, OnItsWay
<1>4. ASSUME NEW r \in Requests, LateArrival(r) PROVE NoOrphan'
  <2>1. \A d \in Requests : Queued(d)' <=> Queued(d) \/ d = r
    BY <1>1, <1>4, QueuePush DEF LateArrival
  <2>2. QED
    BY <1>4, <2>1 DEF NoOrphan, OnItsWay, LateArrival, Held, tables, workers, history
<1>5. ASSUME NEW w \in Workers, Pop(w) PROVE NoOrphan'
  <2>1. \A d \in Requests : Queued(d) => Queued(d)' \/ d = Head(queue)
    BY <1>1, <1>5, QueuePop DEF Pop
  <2>2. step[w] = "idle" /\ job'[w] = Head(queue) /\ \A v \in Workers : v # w => job'[v] = job[v]
    BY <1>1, <1>5 DEF TypeOK, Pop, Worker
  <2>3. job[w] = NoJob /\ NoJob \notin Requests
    BY <2>2, IngestionAssumption DEF JobInv, WorkerInv
  <2>4. \A d \in Requests : Held(d) => Held(d)'
    BY <2>2, <2>3 DEF Held
  <2>5. \A d \in Requests : d = Head(queue) => Held(d)'
    BY <2>2 DEF Held
  <2>6. QED
    BY <1>5, <2>1, <2>4, <2>5 DEF NoOrphan, OnItsWay, Pop, tables, history
<1>6. ASSUME NEW w \in Workers,
             Process(w) \/ WorkerCrash(w) \/ CommitUnanswered(w) \/ FinishUnanswered(w)
      PROVE  NoOrphan'
  <2>1. PICK h \in Requests : h = job[w]
    BY <1>6, WorkerWrites
  <2>2. UNCHANGED <<queue, api>> /\ lost \subseteq lost'
    BY <1>6 DEF Process, Start, Extract, WriteChunk, EmbedFails, Commit, Finish, Fail,
       WorkerCrash, CommitUnanswered, FinishUnanswered, Fault, history
  <2>3. \A d \in Requests : d # h => status'[d] = status[d]
    BY <1>1, <1>6, <2>1, WorkerWrites DEF TypeOK, Report
  <2>4. /\ \A v \in Workers : v # w => job'[v] = job[v]
        /\ \/ job'[w] = h
           \/ h \in lost'
           \/ status'[h] \in {"complete", "failed"}
    BY <1>1, <1>6, <2>1 DEF TypeOK, Process, Start, Extract, WriteChunk, EmbedFails, Commit, Finish,
       Fail, WorkerCrash, CommitUnanswered, FinishUnanswered, Fault, Drop, SetComplete, Report
  <2>5. \A d \in Requests : d # h => (Held(d) => Held(d)')
    BY <2>1, <2>4 DEF Held
  <2>6. job'[w] = h => Held(h)'
    BY DEF Held
  <2>7. \A d \in Requests : Queued(d)' <=> Queued(d)
    BY <2>2 DEF Queued
  <2>8. QED
    BY <2>2, <2>3, <2>4, <2>5, <2>6, <2>7 DEF NoOrphan, OnItsWay
<1>7. CASE Evict
  <2>1. \A d \in Requests : Queued(d) => d \in lost'
    BY <1>7 DEF Evict, Fault, Queued
  <2>2. \A d \in Requests : Held(d)' <=> Held(d)
    BY <1>7 DEF Evict, Held, workers
  <2>3. lost \subseteq lost' /\ UNCHANGED <<status, api>>
    BY <1>7 DEF Evict, Fault, tables
  <2>4. QED
    BY <2>1, <2>2, <2>3 DEF NoOrphan, OnItsWay
<1>8. CASE UNCHANGED vars
  BY <1>8 DEF NoOrphan, OnItsWay, Queued, Held, vars
<1>9. QED
  BY <1>2, <1>3, <1>4, <1>5, <1>6, <1>7, <1>8 DEF Next

IInv == JobInv /\ OneDocumentPerContent /\ ChunksAllOrNothing /\ CompleteIsSearchable /\ NoOrphan

(* The inductive invariant: every property below, and where jobs are. *)
THEOREM Invariance == Spec => []IInv
<1>1. Init => OneDocumentPerContent /\ ChunksAllOrNothing /\ CompleteIsSearchable /\ NoOrphan
  BY DEF Init, OneDocumentPerContent, ChunksAllOrNothing, CompleteIsSearchable, NoOrphan
<1>2. IInv /\ [Next]_vars => OneDocumentPerContent' /\ ChunksAllOrNothing' /\ CompleteIsSearchable' /\ NoOrphan'
  BY OneDocumentStep, ChunksStep, NoOrphanStep DEF IInv
<1>3. QED
  BY <1>1, <1>2, JobInvariance, PTL DEF Spec, IInv

(* However uploads race, a content has one document. *)
THEOREM DocumentsAreUnique == Spec => []OneDocumentPerContent
  BY Invariance, PTL DEF IInv

(* A document's chunks are all searchable, each once, or none is. *)
THEOREM ChunksAreAtomic == Spec => []ChunksAllOrNothing
  BY Invariance, PTL DEF IInv

(* A document is never reported complete before it is searchable. *)
THEOREM CompletionIsTrue == Spec => []CompleteIsSearchable
  BY Invariance, PTL DEF IInv

(* Only crashes and evictions leave a document queued or processing with    *)
(* nobody at work on it.                                                    *)
THEOREM NoDocumentIsOrphaned == Spec => []NoOrphan
  BY Invariance, PTL DEF IInv

-----------------------------------------------------------------------------
(* The life cycle *)

(* No command may be left half done. *)
NoHalfDone == FaultKinds \cap {"timeout", "database"} = {}

(* What is reported of a document wherever its one job is, if no command is *)
(* left half done: queued until a worker has taken it, and then processing, *)
(* with no chunks once the worker has failed.                               *)
LifeInv ==
  /\ late = {}
  /\ \A r \in Requests :
       /\ api[r] \in {"push", "mark_failed"} \/ Queued(r) => status[r] = "queued"
       /\ api[r] = "mark_failed" => ~Queued(r) /\ ~Held(r)
  /\ \A w \in Workers :
       /\ step[w] = "start" => status[job[w]] = "queued"
       /\ step[w] \in {"extract", "embed", "finish", "fail"} => status[job[w]] = "processing"
       /\ step[w] = "fail" => chunks[job[w]] = 0

(* Without faults of these kinds their actions are impossible. *)
LEMMA NoneHalfDone ==
  ASSUME NoHalfDone
  PROVE  /\ \A r \in Requests : ~PushTimesOut(r)
         /\ \A w \in Workers : ~CommitUnanswered(w) /\ ~FinishUnanswered(w)
  BY DEF NoHalfDone, PushTimesOut, CommitUnanswered, FinishUnanswered, Fault

(* Whoever moves the job of a document reports the document accordingly.     *)
LEMMA LifeStep ==
  ASSUME NoHalfDone, JobInv, TypeOK', LifeInv, [Next]_vars
  PROVE  LifeInv'
<1>1. TypeOK /\ AtMostOneJob /\ HandlerInv /\ WorkerInv
  BY DEF JobInv
<1>2. CASE UNCHANGED vars
  BY <1>2 DEF vars, LifeInv, Queued, Held
<1>3. ASSUME NEW r \in Requests, Request(r) PROVE LifeInv'
  <2>1. CASE Push(r)
    <3>1. \A d \in Requests : Queued(d)' <=> Queued(d) \/ d = r
      BY <1>1, <2>1, QueuePush DEF Push
    <3>2. \A d \in Requests : Held(d)' <=> Held(d)
      BY <2>1 DEF Push, Held, workers
    <3>3. QED
      BY <1>1, <2>1, <3>1, <3>2 DEF TypeOK, LifeInv, Push, Handler, tables, workers
  <2>2. CASE ~Push(r)
    <3>1. /\ UNCHANGED <<queue, late, job, step, chunks>>
          /\ \A d \in Requests : d # r => api'[d] = api[d] /\ status'[d] = status[d]
      BY <1>1, <1>3, <2>2 DEF TypeOK, Request, Receive, Dedup, Insert, MarkFailed, Handler,
         Report, tables, workers
    <3>2. \A d \in Requests : (Queued(d)' <=> Queued(d)) /\ (Held(d)' <=> Held(d))
      BY <3>1 DEF Queued, Held
    <3>3. /\ (~Queued(r) /\ ~Held(r)) \/ status' = status
          /\ api'[r] # "mark_failed"
          /\ api'[r] = "push" => status'[r] = "queued"
      BY <1>1, <1>3, <2>2 DEF TypeOK, LifeInv, HandlerInv, Request, Receive, Dedup, Insert,
         MarkFailed, Handler, Report, tables
    <3>4. \A w \in Workers : step[w] # "idle" => status'[job[w]] = status[job[w]]
      BY <1>1, <3>1, <3>3, HeldIsPushed DEF Held
    <3>5. \A d \in Requests : Queued(d) => status'[d] = status[d]
      BY <3>1, <3>3
    <3>6. QED
      BY <3>1, <3>2, <3>3, <3>4, <3>5 DEF LifeInv
  <2>3. QED
    BY <2>1, <2>2
<1>4. ASSUME NEW r \in Requests, ApiCrash(r) \/ PushRefused(r) PROVE LifeInv'
  <2>1. /\ UNCHANGED <<status, queue, late, job, step, chunks>>
        /\ \A d \in Requests : d # r => api'[d] = api[d]
        /\ api'[r] # "push"
        /\ api'[r] = "mark_failed" => api[r] = "push"
    BY <1>1, <1>4 DEF TypeOK, ApiCrash, PushRefused, Handler, tables, workers
  <2>2. \A d \in Requests : (Queued(d)' <=> Queued(d)) /\ (Held(d)' <=> Held(d))
    BY <2>1 DEF Queued, Held
  <2>3. QED
    BY <1>1, <2>1, <2>2 DEF LifeInv, HandlerInv
<1>5. ASSUME NEW r \in Requests, PushTimesOut(r) \/ LateArrival(r) PROVE LifeInv'
  BY <1>5, NoneHalfDone DEF LifeInv, LateArrival
<1>6. ASSUME NEW w \in Workers, Pop(w) PROVE LifeInv'
  <2>1. /\ Head(queue) \in Requests /\ Queued(Head(queue))
        /\ \A d : Queued(d)' <=> Queued(d) /\ d # Head(queue)
    BY <1>1, <1>6, QueuePop DEF Pop
  <2>2. /\ UNCHANGED <<late, status, chunks, api>>
        /\ job'[w] = Head(queue) /\ step'[w] = "start"
        /\ \A v \in Workers : v # w => job'[v] = job[v] /\ step'[v] = step[v]
    BY <1>1, <1>6 DEF TypeOK, Pop, Worker, tables
  <2>3. \A d \in Requests : Held(d)' => Held(d) \/ d = Head(queue)
    BY <2>2 DEF Held
  <2>4. QED
    BY <2>1, <2>2, <2>3 DEF LifeInv
<1>7. ASSUME NEW w \in Workers, Process(w) \/ WorkerCrash(w) PROVE LifeInv'
  <2>1. PICK h \in Requests : h = job[w]
    BY <1>7, WorkerWrites
  <2>2. /\ Held(h) /\ ~Queued(h) /\ api[h] \notin {"push", "mark_failed"}
        /\ \A v \in Workers : v # w => job[v] # h
    BY <1>1, <1>7, <2>1, WorkerWrites, HeldIsPushed DEF LifeInv
  <2>3. /\ UNCHANGED <<queue, late, api>>
        /\ \A v \in Workers : v # w => job'[v] = job[v] /\ step'[v] = step[v]
        /\ job'[w] \in {h, NoJob}
    BY <1>1, <1>7, <2>1 DEF TypeOK, Process, Start, Extract, WriteChunk, EmbedFails, Commit, Finish,
       Fail, WorkerCrash, Worker, Drop
  <2>4. \A d \in Requests : d # h => chunks'[d] = chunks[d] /\ status'[d] = status[d]
    <3>1. \A d \in Requests : d # h => status'[d] = status[d]
      BY <1>1, <1>7, <2>1, WorkerWrites DEF TypeOK, Report
    <3>2. \A d \in Requests : d # h => chunks'[d] = chunks[d]
      BY <1>1, <1>7, <2>1 DEF TypeOK, Process, Start, Extract, WriteChunk, EmbedFails, Commit, Finish,
         Fail, WorkerCrash, CommitChunks, tables
    <3>3. QED
      BY <3>1, <3>2
  <2>5. \A d \in Requests : Queued(d)' <=> Queued(d)
    BY <2>3 DEF Queued
  <2>6. \A d \in Requests : Held(d)' => Held(d)
    BY <2>2, <2>3, IngestionAssumption DEF Held
  <2>7. \A r \in Requests :
          /\ api'[r] \in {"push", "mark_failed"} \/ Queued(r)' => status'[r] = "queued"
          /\ api'[r] = "mark_failed" => ~Queued(r)' /\ ~Held(r)'
    BY <2>2, <2>3, <2>4, <2>5, <2>6 DEF LifeInv
  <2>8. ASSUME NEW v \in Workers, v # w
        PROVE  /\ step'[v] = "start" => status'[job'[v]] = "queued"
               /\ step'[v] \in {"extract", "embed", "finish", "fail"} => status'[job'[v]] = "processing"
               /\ step'[v] = "fail" => chunks'[job'[v]] = 0
    <3>1. CASE step[v] = "idle"
      BY <2>3, <2>8, <3>1
    <3>2. CASE step[v] # "idle"
      <4>1. job[v] \in Requests /\ job[v] # h
        BY <2>2, <2>8, <3>2, Holds
      <4>2. QED
        BY <2>3, <2>4, <2>8, <4>1 DEF LifeInv
    <3>3. QED
      BY <3>1, <3>2
  <2>9. /\ step'[w] = "start" => status'[job'[w]] = "queued"
        /\ step'[w] \in {"extract", "embed", "finish", "fail"} => status'[job'[w]] = "processing"
        /\ step'[w] = "fail" => chunks'[job'[w]] = 0
    BY <1>1, <1>7, <2>1 DEF TypeOK, LifeInv, WorkerInv, Process, Start, Extract, WriteChunk, EmbedFails,
       Commit, Finish, Fail, WorkerCrash, Worker, Report, tables
  <2>10. QED
    BY <2>3, <2>7, <2>8, <2>9 DEF LifeInv
<1>8. CASE Evict
  <2>1. /\ UNCHANGED <<status, chunks, late, api, step, job>>
        /\ \A d \in Requests : ~Queued(d)' /\ (Held(d)' <=> Held(d))
    BY <1>8 DEF Evict, tables, workers, Queued, Held
  <2>2. QED
    BY <2>1 DEF LifeInv
<1>9. QED
  BY <1>2, <1>3, <1>4, <1>5, <1>6, <1>7, <1>8, NoneHalfDone DEF Next

(* Every command is a step of the life cycle of one document, or of none.   *)
LEMMA LifecycleStep ==
  ASSUME NoHalfDone, JobInv, LifeInv, [Next]_vars
  PROVE  [Lifecycle!Next]_(Lifecycle!lifecycle)
<1>1. TypeOK /\ HandlerInv /\ WorkerInv
  BY DEF JobInv
<1>2. ASSUME UNCHANGED <<status, chunks>> PROVE [Lifecycle!Next]_(Lifecycle!lifecycle)
  BY <1>2 DEF Lifecycle!lifecycle
<1>3. ASSUME NEW r \in Requests, Insert(r) PROVE [Lifecycle!Next]_(Lifecycle!lifecycle)
  <2>1. CASE Registered(r)
    BY <1>2, <1>3, <2>1 DEF Insert
  <2>2. CASE ~Registered(r)
    <3>1. Lifecycle!Upload(r)
      BY <1>1, <1>3, <2>2 DEF Insert, Handler, Report, Registered, SameContent, HandlerInv,
         Lifecycle!Upload, Lifecycle!Moves
    <3>2. QED
      BY <3>1 DEF Lifecycle!Next
  <2>3. QED
    BY <2>1, <2>2
<1>4. ASSUME NEW r \in Requests, MarkFailed(r) PROVE [Lifecycle!Next]_(Lifecycle!lifecycle)
  <2>1. Lifecycle!Reject(r)
    BY <1>4 DEF MarkFailed, Handler, Report, LifeInv, Lifecycle!Reject, Lifecycle!Moves
  <2>2. QED
    BY <2>1 DEF Lifecycle!Next
<1>5. ASSUME NEW w \in Workers, Process(w) PROVE [Lifecycle!Next]_(Lifecycle!lifecycle)
  <2>1. PICK h \in Requests : h = job[w]
    BY <1>5, WorkerWrites
  <2>2. CASE Start(w)
    <3>1. Lifecycle!Start(h)
      BY <2>1, <2>2 DEF Start, Worker, Report, LifeInv, Lifecycle!Start, Lifecycle!Moves
    <3>2. QED
      BY <3>1 DEF Lifecycle!Next
  <2>3. CASE Commit(w)
    <3>1. chunks[h] = 0 /\ Total(h) \in Nat /\ status[h] = "processing"
      BY <1>1, <2>1, <2>3, IngestionAssumption DEF WorkerInv, LifeInv, Commit, Worker, Total
    <3>2. chunks' = [chunks EXCEPT ![h] = chunks[h] + Total(h)]
      BY <2>1, <2>3 DEF Commit, CommitChunks, Total
    <3>3. chunks[h] + Total(h) = Total(h)
      BY <3>1
    <3>4. chunks' = [chunks EXCEPT ![h] = ChunksOf[ContentOf[h]]]
      BY <3>2, <3>3, Zenon DEF Total
    <3>5. Lifecycle!Index(h)
      BY <2>3, <3>1, <3>4 DEF Commit, Lifecycle!Index
    <3>6. QED
      BY <3>5 DEF Lifecycle!Next
  <2>4. CASE Finish(w)
    <3>1. Lifecycle!Complete(h)
      BY <1>1, <2>1, <2>4 DEF Finish, Worker, SetComplete, Report, WorkerInv, LifeInv, Total,
         Lifecycle!Complete, Lifecycle!Moves
    <3>2. QED
      BY <3>1 DEF Lifecycle!Next
  <2>5. CASE Fail(w)
    <3>1. Lifecycle!Fail(h)
      BY <2>1, <2>5 DEF Fail, Worker, Report, LifeInv, Lifecycle!Fail, Lifecycle!Moves
    <3>2. QED
      BY <3>1 DEF Lifecycle!Next
  <2>6. CASE Extract(w) \/ WriteChunk(w) \/ EmbedFails(w)
    BY <1>2, <2>6 DEF Extract, WriteChunk, EmbedFails, tables
  <2>7. QED
    BY <1>5, <2>2, <2>3, <2>4, <2>5, <2>6 DEF Process
<1>6. QED
  BY <1>2, <1>3, <1>4, <1>5, NoneHalfDone
  DEF Next, Request, Receive, Dedup, Push, ApiCrash, PushRefused, LateArrival, Pop, WorkerCrash,
      Evict, tables, vars

(* What the status endpoint promises: without half done commands, whatever  *)
(* crashes, is refused or evicted, each document is queued, processed, and  *)
(* complete or failed for good, and its chunks appear at once and in time.  *)
THEOREM LifecycleImplemented == ASSUME NoHalfDone PROVE Spec => ImplementsLifecycle
<1>1. Init => LifeInv /\ Lifecycle!Init
  BY DEF Init, LifeInv, Queued, Held, Lifecycle!Init
<1>2. JobInv /\ JobInv' /\ LifeInv /\ [Next]_vars => LifeInv'
  BY LifeStep DEF JobInv
<1>3. JobInv /\ LifeInv /\ [Next]_vars => [Lifecycle!Next]_(Lifecycle!lifecycle)
  BY LifecycleStep
<1>4. QED
  BY <1>1, <1>2, <1>3, JobInvariance, PTL DEF Spec, ImplementsLifecycle, Lifecycle!Spec
=============================================================================
