------------------------------- MODULE Ingestion -------------------------------
(***************************************************************************)
(* Document ingestion: the upload handlers of the API replicas             *)
(* (backend/api/ingest.py), the Redis list `queue:ingest', the workers     *)
(* that drain it (backend/worker.py), and the tables `documents' and       *)
(* `chunks' they share.  Each action is one database or Redis command with *)
(* the local computation that follows it.                                  *)
(*                                                                         *)
(* A request uploads one content; the row it inserts, if it does, is       *)
(* identified with the request (doc_id is a fresh UUID).  Contents stand   *)
(* for the bytes that content_hash identifies.                             *)
(***************************************************************************)
EXTENDS Naturals, Sequences, FiniteSets

CONSTANTS
  Requests,    \* POST /ingest requests
  ContentOf,   \* the content each request uploads
  ChunksOf,    \* the number of chunks each content is split into
  Workers,     \* worker processes (2 replicas in production)
  QueueLimit,  \* depth of the queue above which uploads are refused (100)
  FaultKinds,  \* the faults that may happen, a subset of AllFaults
  MaxFaults,   \* bound on their number
  NoJob        \* what an idle worker holds

AllFaults == {"crash", "refused", "timeout", "database", "eviction"}

ASSUME IngestionAssumption ==
  /\ \A r \in Requests : ChunksOf[ContentOf[r]] \in Nat
  /\ QueueLimit \in Nat
  /\ FaultKinds \subseteq AllFaults
  /\ MaxFaults \in Nat
  /\ NoJob \notin Requests

VARIABLES
  status,      \* documents.status, "none" if there is no such row
  chunkCount,  \* documents.chunk_count
  chunks,      \* committed rows of the table chunks, per document
  queue,       \* queue:ingest, the oldest job (the right end) first
  late,        \* LPUSH commands given up on that Redis may still execute
  api,         \* where each request handler is, or how it answered
  step,        \* where each worker is
  job,         \* the document each worker processes
  written,     \* chunk rows in each worker's open transaction
  faults,      \* history: number of faults so far
  lost         \* history: documents whose job was dropped by a fault

vars == <<status, chunkCount, chunks, queue, late, api, step, job, written, faults, lost>>
tables == <<status, chunkCount, chunks>>
workers == <<step, job, written>>
history == <<faults, lost>>

ApiSteps == {"idle", "dedup", "insert", "push", "mark_failed"}
Answers == {"queued", "duplicate", "busy", "error", "aborted"}
WorkerSteps == {"idle", "start", "extract", "embed", "finish", "fail"}

Init ==
  /\ status = [r \in Requests |-> "none"]
  /\ chunkCount = [r \in Requests |-> 0]
  /\ chunks = [r \in Requests |-> 0]
  /\ queue = <<>>
  /\ late = {}
  /\ api = [r \in Requests |-> "idle"]
  /\ step = [w \in Workers |-> "idle"]
  /\ job = [w \in Workers |-> NoJob]
  /\ written = [w \in Workers |-> 0]
  /\ faults = 0
  /\ lost = {}

Handler(r, from, to) == api[r] = from /\ api' = [api EXCEPT ![r] = to]
Worker(w, from, to)  == step[w] = from /\ step' = [step EXCEPT ![w] = to]
Report(r, s)         == status' = [status EXCEPT ![r] = s]
Drop(w) ==
  /\ job' = [job EXCEPT ![w] = NoJob]
  /\ written' = [written EXCEPT ![w] = 0]

SameContent(r, d) == ContentOf[d] = ContentOf[r]
Registered(r) == \E d \in Requests : status[d] # "none" /\ SameContent(r, d)

-----------------------------------------------------------------------------
(* ingest_document *)

(* check_ingestion_backpressure: LLEN, and 503 if the queue is too deep.    *)
(* The other refusals (429, 400, 413) leave the same state behind.          *)
Overloaded(depth) == depth > QueueLimit

Receive(r) ==
  /\ Handler(r, "idle", IF Overloaded(Len(queue)) THEN "busy" ELSE "dedup")
  /\ UNCHANGED <<tables, queue, late, workers, history>>

(* SELECT by content_hash: a known content is answered with its row. *)
Dedup(r) ==
  /\ Handler(r, "dedup", IF Registered(r) THEN "duplicate" ELSE "insert")
  /\ UNCHANGED <<tables, queue, late, workers, history>>

(* Mutant of Insert: content_hash is not UNIQUE. *)
InsertAnyway(r) ==
  /\ Handler(r, "insert", "push")
  /\ Report(r, "queued")
  /\ UNCHANGED <<chunkCount, chunks, queue, late, workers, history>>

(* INSERT ... 'queued'.  content_hash is UNIQUE: of two requests that both  *)
(* found nothing, the second raises, which nothing catches (500).           *)
Insert(r) ==
  /\ IF Registered(r)
       THEN Handler(r, "insert", "error") /\ UNCHANGED status
       ELSE Handler(r, "insert", "push") /\ Report(r, "queued")
  /\ UNCHANGED <<chunkCount, chunks, queue, late, workers, history>>

(* LPUSH queue:ingest, answered within the socket timeout. *)
Push(r) ==
  /\ Handler(r, "push", "queued")
  /\ queue' = Append(queue, r)
  /\ UNCHANGED <<tables, late, workers, history>>

(* The enqueueing failed as far as the handler knows. *)
MarkFailed(r) ==
  /\ Handler(r, "mark_failed", "error")
  /\ Report(r, "failed")
  /\ UNCHANGED <<chunkCount, chunks, queue, late, workers, history>>

Request(r) == Receive(r) \/ Dedup(r) \/ Insert(r) \/ Push(r) \/ MarkFailed(r)

-----------------------------------------------------------------------------
(* main and process_ingestion_task *)

(* BRPOP removes the job before it is processed. *)
Pop(w) ==
  /\ queue # <<>>
  /\ Worker(w, "idle", "start")
  /\ job' = [job EXCEPT ![w] = Head(queue)]
  /\ queue' = Tail(queue)
  /\ UNCHANGED <<tables, late, api, written, history>>

(* UPDATE ... 'processing', then SELECT the row: rows are never deleted.    *)
Start(w) ==
  /\ Worker(w, "start", "extract")
  /\ Report(job[w], "processing")
  /\ UNCHANGED <<chunkCount, chunks, queue, late, api, job, written, history>>

(* Extraction and chunking: either may raise, and either may yield nothing. *)
Extract(w) ==
  /\ \/ Worker(w, "extract", "embed") /\ ChunksOf[ContentOf[job[w]]] > 0
     \/ Worker(w, "extract", "fail")
  /\ UNCHANGED <<tables, queue, late, api, job, written, history>>

(* Embed one chunk and INSERT it in the open transaction. *)
WriteChunk(w) ==
  /\ step[w] = "embed"
  /\ written[w] < ChunksOf[ContentOf[job[w]]]
  /\ written' = [written EXCEPT ![w] = @ + 1]
  /\ UNCHANGED <<tables, queue, late, api, step, job, history>>

(* Mutant of EmbedFails: every chunk is committed on its own. *)
EmbedFailsHalfway(w) ==
  /\ Worker(w, "embed", "fail")
  /\ chunks' = [chunks EXCEPT ![job[w]] = @ + written[w]]
  /\ written' = [written EXCEPT ![w] = 0]
  /\ UNCHANGED <<status, chunkCount, queue, late, api, job, history>>

(* Mutant of EmbedFails: the exception only ends the task. *)
EmbedFailsSilently(w) ==
  /\ Worker(w, "embed", "idle")
  /\ Drop(w)
  /\ UNCHANGED <<tables, queue, late, api, history>>

(* The embedding call or an INSERT raises: the transaction is rolled back.  *)
EmbedFails(w) ==
  /\ Worker(w, "embed", "fail")
  /\ written' = [written EXCEPT ![w] = 0]
  /\ UNCHANGED <<tables, queue, late, api, job, history>>

CommitChunks(w) ==
  /\ written[w] = ChunksOf[ContentOf[job[w]]]
  /\ chunks' = [chunks EXCEPT ![job[w]] = @ + written[w]]
  /\ written' = [written EXCEPT ![w] = 0]

(* Mutant of Commit: the transaction is not committed. *)
CommitNothing(w) ==
  /\ Worker(w, "embed", "finish")
  /\ written[w] = ChunksOf[ContentOf[job[w]]]
  /\ written' = [written EXCEPT ![w] = 0]
  /\ UNCHANGED <<tables, queue, late, api, job, history>>

Commit(w) ==
  /\ Worker(w, "embed", "finish")
  /\ CommitChunks(w)
  /\ UNCHANGED <<status, chunkCount, queue, late, api, job, history>>

(* Mutant of SetComplete: the status of a finished query run. *)
SetCompleted(w) ==
  /\ Report(job[w], "completed")
  /\ chunkCount' = [chunkCount EXCEPT ![job[w]] = ChunksOf[ContentOf[job[w]]]]

SetComplete(w) ==
  /\ Report(job[w], "complete")
  /\ chunkCount' = [chunkCount EXCEPT ![job[w]] = ChunksOf[ContentOf[job[w]]]]

Finish(w) ==
  /\ Worker(w, "finish", "idle")
  /\ SetComplete(w)
  /\ Drop(w)
  /\ UNCHANGED <<chunks, queue, late, api, history>>

Fail(w) ==
  /\ Worker(w, "fail", "idle")
  /\ Report(job[w], "failed")
  /\ Drop(w)
  /\ UNCHANGED <<chunkCount, chunks, queue, late, api, history>>

Process(w) ==
  \/ Start(w) \/ Extract(w) \/ WriteChunk(w) \/ EmbedFails(w)
  \/ Commit(w) \/ Finish(w) \/ Fail(w)

-----------------------------------------------------------------------------
(* Faults *)

Fault(kind, dropped) ==
  /\ kind \in FaultKinds
  /\ faults < MaxFaults
  /\ faults' = faults + 1
  /\ lost' = lost \cup dropped

(* The handler's process dies, or its last UPDATE raises. *)
ApiCrash(r) ==
  /\ api[r] \in ApiSteps \ {"idle"}
  /\ api' = [api EXCEPT ![r] = "aborted"]
  /\ Fault("crash", {r})
  /\ UNCHANGED <<tables, queue, late, workers>>

(* The worker's process dies and is restarted, or an UPDATE outside the     *)
(* try block raises and main drops the job.                                 *)
WorkerCrash(w) ==
  /\ job[w] # NoJob
  /\ step' = [step EXCEPT ![w] = "idle"]
  /\ Drop(w)
  /\ Fault("crash", {job[w]})
  /\ UNCHANGED <<tables, queue, late, api>>

(* LPUSH raises without effect. *)
PushRefused(r) ==
  /\ Handler(r, "push", "mark_failed")
  /\ Fault("refused", {})
  /\ UNCHANGED <<tables, queue, late, workers>>

(* Mutant of PushTimesOut: the handler tries again. *)
PushRetries(r) ==
  /\ Handler(r, "push", "push")
  /\ late' = late \cup {r}
  /\ Fault("timeout", {})
  /\ UNCHANGED <<tables, queue, workers>>

(* LPUSH exceeds the socket timeout: Redis may execute it all the same.     *)
PushTimesOut(r) ==
  /\ Handler(r, "push", "mark_failed")
  /\ late' = late \cup {r}
  /\ Fault("timeout", {})
  /\ UNCHANGED <<tables, queue, workers>>

LateArrival(r) ==
  /\ r \in late
  /\ late' = late \ {r}
  /\ queue' = Append(queue, r)
  /\ UNCHANGED <<tables, api, workers, history>>

(* The connection is lost while COMMIT or the last UPDATE is answered: the  *)
(* worker handles an exception for a statement that may have taken effect.  *)
CommitUnanswered(w) ==
  /\ Worker(w, "embed", "fail")
  /\ CommitChunks(w)
  /\ Fault("database", {})
  /\ UNCHANGED <<status, chunkCount, queue, late, api, job>>

FinishUnanswered(w) ==
  /\ Worker(w, "finish", "fail")
  /\ SetComplete(w) \/ UNCHANGED <<status, chunkCount>>
  /\ Fault("database", {})
  /\ UNCHANGED <<chunks, queue, late, api, job, written>>

(* Redis runs with maxmemory-policy allkeys-lru: it may evict the list.     *)
Evict ==
  /\ queue # <<>>
  /\ queue' = <<>>
  /\ Fault("eviction", {queue[i] : i \in DOMAIN queue})
  /\ UNCHANGED <<tables, late, api, workers>>

Next ==
  \/ \E r \in Requests :
       Request(r) \/ ApiCrash(r) \/ PushRefused(r) \/ PushTimesOut(r) \/ LateArrival(r)
  \/ \E w \in Workers :
       Pop(w) \/ Process(w) \/ WorkerCrash(w) \/ CommitUnanswered(w) \/ FinishUnanswered(w)
  \/ Evict

Spec == Init /\ [][Next]_vars

(* Handlers and workers that run go on, and an idle worker polls the queue; *)
(* clients need not send anything, and faults need not happen.              *)
FairSpec ==
  /\ Spec
  /\ \A r \in Requests : WF_vars(Request(r) /\ api[r] # "idle")
  /\ \A w \in Workers : WF_vars(Pop(w)) /\ WF_vars(Process(w))
-----------------------------------------------------------------------------
(* Properties *)

TypeOK ==
  /\ status \in [Requests -> {"none", "queued", "processing", "complete", "failed"}]
  /\ chunkCount \in [Requests -> Nat]
  /\ chunks \in [Requests -> Nat]
  /\ queue \in Seq(Requests)
  /\ late \subseteq Requests
  /\ api \in [Requests -> ApiSteps \cup Answers]
  /\ step \in [Workers -> WorkerSteps]
  /\ job \in [Workers -> Requests \cup {NoJob}]
  /\ written \in [Workers -> Nat]
  /\ faults \in 0..MaxFaults
  /\ lost \subseteq Requests

(* However uploads of one content race between the deduplication check and  *)
(* the insertion, at most one document holds it.                            *)
OneDocumentPerContent ==
  \A r, d \in Requests :
    status[r] # "none" /\ status[d] # "none" /\ SameContent(r, d) => r = d

(* A document is searchable with all of its chunks, each once, or not at    *)
(* all, whichever workers, crashes and late commands touched it.            *)
ChunksAllOrNothing ==
  \A r \in Requests : chunks[r] \in {0, ChunksOf[ContentOf[r]]}

(* A document reported complete is searchable and its chunk_count is right. *)
CompleteIsSearchable ==
  \A r \in Requests : status[r] = "complete" =>
    /\ chunks[r] = ChunksOf[ContentOf[r]]
    /\ chunkCount[r] = chunks[r]
    /\ chunks[r] > 0

(* The job of a document exists at most once, over the late commands, the   *)
(* queue and the workers: no two workers process one document.              *)
Queued(r) == \E i \in DOMAIN queue : queue[i] = r
Held(r)   == \E w \in Workers : job[w] = r
AtMostOneJob ==
  /\ \A i, j \in DOMAIN queue : queue[i] = queue[j] => i = j
  /\ \A v, w \in Workers : job[v] = job[w] /\ job[v] # NoJob => v = w
  /\ \A r \in Requests :
       /\ ~(Queued(r) /\ Held(r))
       /\ r \in late => ~Queued(r) /\ ~Held(r)

(* A document that is reported queued or processing is still on its way:    *)
(* its handler is about to enqueue it or to report the failure, its job is  *)
(* queued, or a worker holds it, unless a crash or an eviction dropped it.  *)
OnItsWay(r) == api[r] \in {"push", "mark_failed"} \/ Queued(r) \/ Held(r)
NoOrphan ==
  \A r \in Requests : status[r] \in {"queued", "processing"} /\ r \notin lost => OnItsWay(r)

(* Every document whose job is not dropped ends complete or failed, which   *)
(* is what clients poll for (tests/integration/test_pipeline.py).           *)
Terminated(r) == status[r] \in {"complete", "failed"}
DocumentsTerminate ==
  \A r \in Requests : status[r] = "queued" ~> (Terminated(r) \/ r \in lost)

(* The life of every document is the one the status endpoint promises.      *)
Lifecycle == INSTANCE DocumentLifecycle WITH Docs <- Requests, searchable <- chunks
ImplementsLifecycle == Lifecycle!Spec

(* Documented, and violated by the code: "Partial ingestion jobs can be     *)
(* retried safely" (docs/architecture.md).  An upload of a content whose    *)
(* ingestion a crash cut short is answered as a duplicate, and nothing      *)
(* processes that document any more.                                        *)
RetryCompletes ==
  \A r \in Requests :
    api[r] = "duplicate" ~> \E d \in Requests : SameContent(r, d) /\ Terminated(d)
=============================================================================
