# NeuroFlow: TLA+ models, model checks and proofs

NeuroFlow is a multi-process RAG service: FastAPI replicas (`backend/`), ingestion
workers (`backend/worker.py`), PostgreSQL with pgvector, and one Redis that serves
as job queue, as shared state of the resilience layer and as model registry. Its
hard parts are not in any one process. They are in the order in which the replicas'
and workers' commands reach Redis and PostgreSQL, and in what is left behind when a
process, a command or an answer is lost between two of them. The models here are
about that: **an action is one command to a shared store with the local computation
that follows it**, and everything between two commands is free to interleave.

## The parts of the system

| Component | State it keeps | Operations | What makes it correct |
|---|---|---|---|
| Circuit breaker (`backend/resilience/circuit_breaker.py`) | four Redis keys per provider, a gauge per process | `__aenter__`, `__aexit__` around every provider call | trips for failures in a row, tests after the timeout, is not stuck open or half-open |
| Ingestion API (`backend/api/ingest.py`, `resilience/backpressure.py`) | `documents` rows, the Redis list `queue:ingest` | upload, status | one document per content, every accepted document is processed or reported failed |
| Ingestion worker (`backend/worker.py`) | `documents.status`, `chunks` rows | poll, extract, chunk, embed, store | chunks all or nothing, `complete` means searchable, one worker per document |
| Rate limiter (`backend/resilience/rate_limiter.py`) | a sorted set per client, two keys per bucket | sliding window, token bucket | no window admits too many, no client is rejected without cause, tokens are neither invented nor lost |
| Query API and generation (`backend/api/query.py`, `pipelines/generation/`) | `pipeline_runs` rows, the list `queue:eval` | create, stream, rate | a run ends, with the answer that was streamed |
| Comparison (`backend/api/compare.py`) | `pipeline_runs` rows | two runs in parallel | each run ends in one final status |
| Evaluation judge (`evaluation/judge.py`) | `evaluations`, `training_pairs` rows | evaluate a run | the calibration flag agrees with score and rating, whoever wrote first |
| Fine-tuning (`pipelines/finetuning/`, `backend/api/finetune.py`) | `finetune_jobs` rows, `router:models` | extract, submit, poll, register | a pair is trained once, never a badly rated one, and registration loses no other model |
| Pipelines (`backend/api/pipelines.py`) | `pipelines`, `pipeline_versions` rows | create, update, archive | every version has its one configuration, and no update is lost |
| Provider client and router (`backend/providers/`) | model registry, cost counters | route, chat, stream, embed | retries, timeout and breaker agree on what a failure is |
| Retrieval (`pipelines/retrieval/`), chunking (`pipelines/ingestion/chunker.py`) | none | pure functions around SQL | fusion ranks as defined, chunks cover the text |
| Startup (`backend/main.py`, `backend/db/`) | the database schema | migrate, connect, check | replicas that start together reach the schema, and none serves without it |

They interact through the stores only: an upload handler and a worker through the
`documents` row and the queue; a provider call takes a token, passes the breaker,
and is limited by a timeout; a query passes the window of its client and the bucket
of its pipeline, then creates a run that the stream endpoint executes; the judge and
the rating endpoint meet in the `evaluations` row, whose pairs a fine-tuning job
extracts and whose model it adds to the list the router reads; the processes whose
startup alters the tables serve the requests on pipelines.

## Modules

| Module | Content |
|---|---|
| `CircuitBreaker` | the breaker, one action per Redis command |
| `CircuitBreakerProofs` | its inductive invariant and five theorems |
| `DocumentLifecycle` | abstract: what the status endpoint promises of a document |
| `Ingestion` | upload handlers, queue, workers and tables; implements `DocumentLifecycle` |
| `IngestionProofs` | its inductive invariant, six theorems and the refinement of `DocumentLifecycle` |
| `RateLimiter` | sliding window and token bucket of `POST /query` |
| `RateLimiterProofs` | its inductive invariant, three invariants and an action property as theorems |
| `QueryRun` | runs of queries and comparisons, and the streams that execute them |
| `QueryRunProofs` | its inductive invariant, five invariants and an action property |
| `Evaluation` | the judge and the rating endpoint on the rows of `evaluations`, and the curated pairs |
| `FineTuning` | jobs from extraction to registration; extends `Evaluation` |
| `FeedbackProofs` | inductive invariant of both, four invariants and an action property |
| `Startup` | the lifespan of API processes on one database server |
| `PipelineVersions` | create, update, delete, seed, and the versions of runs; extends `Startup` |
| `VersionsProofs` | inductive invariant of both and four invariants |
| `Router` | the rules that choose a model, as operators on lists of models |
| `ProviderCall` | bucket, breaker, timeout, retries and metrics of a call; extends `Router` |
| `ProviderProofs` | two theorems on the choice of a model; inductive invariant and three invariants of calls |
| `Chunking` | the chunking strategies on sentences with sizes |
| `Retrieval` | searches, fusion, reranking, context, citations; extends `Chunking` |
| `RetrievalProofs` | what the recursive definitions compute; inductive invariant of both and two invariants |
| `MC_*` | instances for TLC: constants and symmetry, no definitions of behaviour |

Operators whose comment begins with "Mutant of" are not part of a specification:
each is a definition with a plausible bug in it, and records that the properties
would notice that bug.

### CircuitBreaker

`pc[c]` says which command caller `c` issues next; it is the program counter in
`__aenter__` (`read_opened_at`, `set_half_open`, `reset_calls`, `fallback`,
`incr_calls`), in the guarded call (`calling`) and in `__aexit__` (`close_state`,
`close_failures`, `reset_failures`, `count_failure`, `open_state`, `stamp`). The
four keys are `state`, `failures`, `openedAge` and `halfOpenCalls`. Two counters
saturate at the threshold they are compared with, and `opened_at` is kept as an age
that stops at the timeout: what the code tests is unchanged and the state space is
finite with unbounded time and calls. `Crash` covers both a process that dies and a
Redis error that leaves `__aenter__` or `__aexit__`: in either case no further
command follows. A caller in `Streams` reads a stream inside the breaker
(`client.py:172`), and its call need never end. Eviction of the breaker's keys is left
out: it resets the breaker to closed.

Five histories serve the properties only. `streak` counts failures since a success
closed the circuit or found it closed, and `kept` remembers that the reset of
`failure_count` after such a success was lost; `openAge` is the time since `state`
was last set to open, and `unstamped` remembers that the time stamp of that opening
was lost; `probe` is who is admitted as a test.

What holds: a caller whose failure trips the circuit has `failure_threshold`
failures in a row behind it (`TripsInARow`), also after re-openings and closings, and
a test of an open circuit begins a full `recovery_timeout` after the last opening
(`TestedAfterTimeout`). Each has one exception, which is named in it: the old count
is still there while the reset of `failure_count` is pending or if it was lost
(`CountIsOld`), and the old time stamp between `SET state` and `SET opened_at` or if the
second was lost (`StampIsOld`). The code can misbehave there; the two action
properties say that it does so nowhere else. Unless a caller is lost, a half-open
circuit always has a caller that will decide it (`HalfOpenHasDecider`) and an open one
without time stamp is about to get one (`OpenIsStamped`); open is left again
(`OpenIsTested`), and so is half-open unless a stream that was admitted as a test
never ends (`HalfOpenResolves`). `HalfOpenHasDecider` is what stands in for the missing
timeout of the half-open state: with a lost caller it fails, and the provider stays
cut off, which is why three properties say `crashes = 0`; with a silent stream it holds
and does not help. The repository offers `client.stream` without calling it: the
generator reads its streams from the provider, past the breaker (see 8 below).

What does not hold: two documented statements, see *Disagreements*.

### Ingestion

A request `r` stands for the row it may insert as well. `api[r]` is the handler's
program counter or its answer, `step[w]` and `job[w]` the worker's, `written[w]` the
rows in its open transaction. Faults are actions of their own, chosen by
`FaultKinds` and counted against `MaxFaults`:

* `crash`: a handler or worker dies between two commands (also: an `UPDATE` outside
  the `try` raises, which ends the task the same way);
* `refused`: `LPUSH` fails without effect;
* `timeout`: `LPUSH` exceeds the socket timeout and Redis may execute it later
  (`LateArrival`), or has executed it and closing the connection raises;
* `database`: the answer to `COMMIT` or to the last `UPDATE` is lost, and the
  exception handler runs for a statement that may have taken effect;
* `eviction`: Redis runs with `allkeys-lru` and may drop the queue.

With all of them, documents stay unique per content, chunks are all or nothing,
`complete` implies searchable, a job exists at most once, and a document is orphaned
only by a crash or an eviction (`lost`). The refinement of `DocumentLifecycle` is
checked without `timeout` and `database`: with them a document reported failed can
become processing and complete, or keep its chunks, which the abstract life cycle
excludes. This is a statement about the code: the endpoint's answer `failed` is final
only as long as no answer is lost.

The client library is taken to send each command once. The limit on the queue is
checked on arrival only; no property bounds the queue, and none is documented.

### RateLimiter

`now[r]` is the local time stamp of the check that is running: it is read by one
action and used by a later one, so that stamps arrive out of order. `Window` is the
whole `MULTI`/`EXEC` pipeline; the removal of a rejected member is a second command,
as in the code. `Members` accounts for `EXPIRE`. The bucket is the Lua script case by
case; a tick is such that a token comes every `TokenInterval` ticks, which makes the
refill the floor of a quotient as in the script. `create_query` catches everything
but the limiter's own exception, so that a script error or a lost answer lets the
query pass unmetered (`GoOn`, `BucketUnanswered`). A script error is reachable: when
Redis evicts `last_update` alone, `tonumber(false)` is nil.

`WindowLimits` counts requests by the time they read, against the present time.
`RejectedForCause` says what the limiter may count against a client: requests let
through, requests about to withdraw their member, and members of lost requests.
`BucketBalance` gives both bounds on the tokens: none is invented beyond one per
interval, and none is lost below the initial content.

### QueryRun

A handler is a blocking query, a deferred one (`stream = true`), one side of a
comparison, or a stream; the first three are identified with the row they insert.
`pc[h]` is the next command or the answer, `target[h]` the run a handler executes.
The four columns `status`, `evidence` (`retrieved_chunk_ids`), `answer` (`generation`)
and `counts` hold the execution they were written by. `Open` may choose any run: the
stream endpoint neither asks for the status nor excludes a second stream, so that
runs are executed again, and at the same time as by their creator. `Log` stands for
all of `generate_stream` up to the update; an error of the provider is
`GenerateFails`, after which the three callers go different ways (`Interrupted`): a
stream passes the error on, a blocking query answers 200 with the partial text and
leaves its run running, a comparison stores the partial text as `completed` with its
fixed numbers of tokens. Every database command has an `...Unanswered` form that may
have taken effect; `Disconnect` is the cancellation of a stream at an await, and `Evict`
the loss of `queue:eval`, which like `queue:ingest` is in a Redis with `allkeys-lru`.
`AnswersAreQueued` accounts for every whole answer: it is queued, was evicted, or its
push failed or never began.

`AnswersMatchEvidence` is about the pair the judge reads: chunks and answer of one
row, written by two commands. Overlapping executions do mix them, and so does a
re-execution that breaks off in between; the invariant says that nothing else does.
Not modelled here: the pipeline's version (see `PipelineVersions`), the model and the
latency in the row.

### Evaluation and FineTuning

Both writers of an evaluation look for the run's row (`Look`), and then update or
insert it (`Write`), in a second command on a second connection: `stage` is between
the two where another handler may write. A row is identified with its author, since
`run_id` is not unique and two authors may both insert. Metrics are percentages and
overall scores have four decimals, as `judge.py` rounds them. Score and rating are
compared in double precision, where a difference of exactly 0.3 comes out greater for
some pairs and not for others: `RoundedUp` lists those for which it does.
`WriteUnanswered` is a write whose answer is lost, and whose handler ends; `Curate`
is the judge's insertion of a training pair, which it attempts only above a score.
`crowded` remembers the runs on which two handlers were between look-up and write.

A job's `step` goes through the commands of `create_finetuning_job` (extract, mark,
insert) and of its background task (train, `GET` and `SET` of `router:models`). What
is extracted is a join of pairs and evaluations (`Eligible`): one row that qualifies
is enough for it, and a run may have several. `Lose` ends a task wherever it is, its
command done or not. `overlapped`, `unmarked`, `raced` and `evicted` remember, per
job, the three ways in which the code may train a pair twice or lose a model.

What holds: outside of crowded runs the flag is exact whoever comes first, again or
fails half-way (`CalibrationAgrees`); only overlapping extractions and marks that
fail train a pair twice (`TrainedOnce`); nothing is trained that any evaluation of
its run rates below 4 or that none finds faithful (`BadlyRatedNotTrained`), which the
text of the join does not say and which rests on what reaches the table; only
overlapping registrations and eviction lose a model (`RegistryKeepsModels`).

### Startup and PipelineVersions

The schema is a set of parts, since what matters is which `ALTER` found its table.
A process goes through `phase`: the database `mlflow`, the pool, the additions one
by one, the check, and the base schema if the check fails. `early` remembers those
that tried their additions before the base schema existed, `spoiled` those of which
an addition failed for another reason (`EnsureFails`): PostgreSQL lets two concurrent
`ALTER ... IF NOT EXISTS` of one column race each other, and one of them then raises.
`Restart` takes any process back to `down`.

A pipeline is identified with the request that creates it, a configuration with the
request that writes it. `UpdateRead` reads version and name without a lock,
`UpdateLock` takes the row lock by its first `UPDATE`, and the insertion into
`pipeline_versions` meets the unique index (`Conflict`). A query for an unknown
pipeline seeds it without a version. `Serving` ties both modules: requests are
answered by processes that have started, while others restart and alter the tables.

`VersionsHaveConfigs` and `UpdatesKept` hold for one reason that is easily lost in a
change of this code: the snapshot and the row are written in one transaction, and the
unique index turns the second of two updates from one version into an error.

### Router and ProviderCall

`Route` is the rules of `ModelRouter.route` on a list; prices are integers.
`ProviderCall` takes a call from the choice of its model, over the bucket, into the
breaker, the timeout and the retry loop, and out again (`Leave`) to the metrics.
`watch` is the time since the timeout began to run and `InTime` what may still happen
before it fires; `Headers` and `Latencies` are what a provider may send. Nothing
makes a provider answer. Bucket and breaker are the modules `RateLimiter` and
`CircuitBreaker`; here they let a call pass or raise, and `report` is what `__aexit__`
is told.

`CallsAccounted` ties the breaker, the results and the two Redis counters of a model:
a success is reported exactly when the provider has answered all batches, and the
counters differ from the results only by the calls whose own commands failed.
`RetriesInTime` is what the timeout leaves of the documented retries; its requests are
calls of the provider's SDK, which may send each of them twice more by itself
(`openai_provider.py:26` and `anthropic_provider.py:26` leave its `max_retries` at the
default of 2). `CallsEnd` says that every call but a stream ends, even if the provider never answers.

### Chunking and Retrieval

A text is a sequence of sentence sizes, a chunk the sequence of the sentences and
pieces it joins: nothing else of the text decides where it is cut. `FixedSize` and
`Semantic` are recursive functions over the sentences, with one case for each branch of
their loops; for the semantic strategy each pair of neighbours may be similar or not.
`Retrieval` runs any results of the three searches through the fusion (with exact
fractions), a stable sort by any relevance, the context under its budget and the
resolution of cited numbers. An action is a stage, not a command: these are pure
functions, and TLC enumerates their inputs.

`TextCovered` says that no text is lost or repeated but for the overlap, and bounds
the size of chunks by what the code keeps rather than by `max_tokens`.
`SourcesResolve` follows a chunk's number over all stages: whatever was dropped or
cut, a cited number resolves to the chunk the context shows under it; and a chunk
that all searches prefer, in any assignment of ranks, is not ranked below.

## Runs

| Run | Instance | Shows |
|---|---|---|
| `breaker` | 3 callers, one of them a stream, threshold 2, 2 tests, timeout 0, 1 lost caller | types; six properties of trips, tests and time stamps, two of them liveness |
| `breaker_tests` | 3 callers, 1 test | more tests in flight than documented |
| `breaker_gauge` | 1 caller | gauge positive with a closed circuit |
| `ingestion` | 3 uploads (2 of one content), 2 workers, 3 faults of any kind | the safety properties |
| `ingestion_lifecycle` | same, 2 faults of three kinds | refinement and termination |
| `ingestion_retry` | 2 uploads of one content, 1 crash | the documented retry does not happen |
| `rate_limiter` | 4 requests, window limit 2, bucket of 1, clock to 3, 1 fault | the limiter's properties |
| `query_run` | one run of each kind, 2 streams, 1 fault | the properties of a run's row |
| `feedback` | 2 runs, one seeded, a judge, 2 ratings, 2 jobs | flags, training files and registry |
| `versions` | 2 processes, 1 restart or fault, a creation, 2 updates, a deletion, a query or comparison, 1 unknown id | the schema served and the history of versions |
| `provider` | 2 calls of any kind, the default models or a list written by a job | accounting, retries and termination of calls |
| `retrieval` | texts of up to 5 sentences, documents of 3 pages, limit 4, overlap 2; 3 reranked, 2 retrieved | chunking, and what becomes of chunks up to the citation |

Why the bounds suffice. Breaker: one caller that decides, one that is late and one
that arrives meanwhile are all the roles the properties distinguish, and a threshold
of 2 has a state between closed and tripping; with a timeout of 0 ticks an age is fresh
or expired, which is all the code tells apart (1.16 million states). Ingestion: one pair that races for a
content and one document beside it fill a queue of limit 1 to overflow; two workers
can both be busy; a content of two chunks has a transaction that is half done. Rate
limiter: with a limit of 2, four requests fill the window, exceed it, and find what
a rejected one left; the clock passes the end of the first window; the bucket refills
and is read with an older time. Query runs: a run
is executed by its creator and two streams, which covers overlapping with either and
one after the other; the symmetry is between the streams. Feedback (1.19
million states): the judge and both ratings may all find no row for one run, and the
seeded run has the only pair that has a quality, for which both jobs compete. Ratings
are 1 and 4: with the fallback score of 0.5 both are exactly at the limit of 0.3, where
doubles put them on different sides, and 4 is the least rating that is trained on.
Versions (1.40 million): two updates from one version are all a conflict needs, and
both rename the pipeline to the name a query would seed. Provider (0.57 million): a
header of 4 s lets an embedding retry once and ends its second wait exactly at 10 s, a
default wait of 15 s never into an embedding, so that waits and
timeouts meet in every order; two calls meet in the counters of one model. Retrieval (0.72
million): sentence sizes below, at and above overlap and limit; chunks of one
sentence, of overlapping ones and of pieces; a document of four chunks, of which three
are reranked and two retrieved, so that each truncation drops something, and a budget
that two sources fill wholly, partly or not. The mutants show for each property that the instance
is large enough to violate it. The theorems need no bounds.

Deadlock is checked for the breaker. Requests of the other models, and the inputs
of the pure functions, are finite in number, so that these systems stop when all are
answered.

## Fairness

* Breaker: weak fairness of each caller's next command (a process that is not lost
  goes on), of new calls arriving, and of the clock; and weak fairness of the end of a
  guarded call for the callers that are not streams, since `run_with_timeout` bounds
  theirs or raises (`client.py:133-148`, `195-210`). A stream (`client.py:172-174`) has no
  timeout, and nothing makes its call end. No fairness makes a call succeed or fail.
* Ingestion: weak fairness of a running handler, of a worker's polling loop and of a
  running task. No client has to send anything, no fault has to happen, and embedding
  may succeed or fail.
* Provider calls: weak fairness of a call's own steps (`Own`): the event loop runs what
  is ready, timers fire, and a command to Redis is answered or raises. The provider's
  answers, errors and limits are not in it.

The other specifications have no fairness; all of their properties are safety.

## Proofs

`tlapm` checks all theorems for every value of the constants that the named
assumptions allow.

* `CircuitBreakerProofs`: `CountInv` says that `failure_count` does not exceed `streak`
  unless it is old, `StampInv` that `opened_at` is no older than the last opening unless
  it is; the two action properties follow from them and from the step's own guard
  (`TripsCorrect`, `TestsWait`). Whoever is about to set `half_open_calls` is itself a
  decider, and whoever has opened the circuit is about to set `opened_at`: these two are
  inductive as long as no caller is lost.
* `IngestionProofs`: `JobInv` locates the one job of a document: before the push it
  exists nowhere (`HandlerInv`), afterwards it moves from the late commands or the
  queue to a worker and disappears. A worker that has not committed finds no chunks
  of its document, one that has finds all (`WorkerInv`). `OneDocumentPerContent`,
  `ChunksAllOrNothing` with `CompleteIsSearchable`, and `NoOrphan` are then inductive
  one after the other. The proof covers all five kinds of faults, in any number.
  `LifecycleImplemented` is the refinement: if `timeout` and `database` are not among the
  faults (`NoHalfDone`), what is reported follows the job (`LifeInv`), and every command is
  a step of one document's life cycle or a stutter.
* `RateLimiterProofs`: `SetInv` says that a request let through less than a window
  ago is still a member of the set and that the key has not expired, whoever cleaned
  up with whatever cutoff: a cutoff is never later than the clock. A request that
  finds fewer than `Limit` members thus proves that fewer were let through. The
  balance of the bucket needs only that rounding down never refills more than one
  token per interval.

* `QueryRunProofs`: a run that was never crowded has at most one active execution
  (`SoloInv`), and from the recording of its chunks until its last command that
  execution finds them unchanged (`EvidenceInv`); `AnswersMatchEvidence` follows.
  What is stored stays, and its run stays final (`StoredInv`), so that `DoneIsStored`
  need only follow whoever was told so.
* `FeedbackProofs`: of two handlers between look-up and write of one run each has
  crowded it (`LookInv`); hence a run that is not crowded has one row at most
  (`RowInv`), which is still as it was read (`SeenInv`), and the flag computed from
  what was read is right when it is written. For the training files, `PairInv` shows
  that only seeded pairs have a quality, `SeededInv` that whoever rates a seeded run
  finds its row and inserts no second one: so the one row that the join demands is
  the only one. `MarkedInv`, and `SetInv` with `ReadInv`, do for marks and for the
  registry what `LookInv` and `SeenInv` do for the rows.
* `VersionsProofs`: `PhaseInv` says which additions a phase presupposes; `BaseInv` that
  without a fault there is a process that found or made the base schema, and
  `RaceInv` that losing the race for `mlflow` costs one attempt. `ReadInv` (what was
  read is a version the pipeline has or had) and `HistoryInv` (no version beyond the
  current one) make the unique index sufficient: an update that passes it has read
  the current version.
* `ProviderProofs`: on non-empty sets of positions the least estimate exists (by well-
  foundedness of the naturals' order), so that `Route` returns the first of the cheapest
  candidates; no judge gets a fine-tuned model. Of calls, `EarlyOK`, `UnderWayOK` and
  `LateOK` say what a call has done at each place: requests sent are bounded by the
  batches answered and the attempts of the current one, default waits by the stopwatch.
  The counters are bounded by the cardinalities of sets of calls (`CountInv`), which a
  step changes by one call at most (`Moved`). The set of calls is assumed finite.
* `RetrievalProofs`: the models of these pure functions are recursive functions over
  the positions of a sequence. What they compute is proved without an induction
  theorem: a set of positions with 0 in it that is closed under successors has all of
  them, or else it leaves out a least one (`Least`, `Induct`). The loop invariant of
  the chunkers is `Scanned`: what is done and what is pending are runs of sentences,
  each beginning within the overlap of the one before (`After`), and nothing before
  the position is missing. `Flush` turns it into `Chunked`, of which `TextCovered`
  is the closed form (`ChunksCovered`); hierarchical chunks are counted page by page.
  For the rankings, `SortExists` puts each element where as many come before it
  as are smaller, so that `Sorted` does choose a sorted sequence; the common
  denominator of the fusion is divided exactly (`Divides`), so that a better rank is
  a greater weight (`WeightOrder`), and ranks that are better under any reordering
  of the searches are a greater sum (`AgreedFusion`). The loop invariant of the context
  is `Filled`: as long as it is not full its blocks are the first chunks, whole, and
  their tokens are counted. `QueryInv` puts all of this along the stages of a query:
  what is not yet computed is empty, what is computed stays. The proofs assume
  of documents what the upload endpoint stores (`Sources`, `ingest.py:69-83`) and of
  limits that the overlap is at most the size of a chunk.

Every safety property of the passing runs is thus a theorem. Only model-checked are the
liveness properties (`HalfOpenResolves`, `OpenIsTested`, `DocumentsTerminate`,
`CallsEnd`), which are beyond the prover.

## Disagreements between documents and code

1. *Tests of a half-open circuit.* `docs/tasks/task-10/implementation_plan.md` says
   that after 60 seconds three requests are let through. Callers that read the expired
   time stamp together each set the counter back to one (`TestsInFlightBounded`).
2. *The alert on open breakers.* The gauge is incremented at each opening, including
   re-openings, and decremented only when a test succeeds: it stays positive with all
   circuits closed (`AlertMeansOpen`; `infra/prometheus/alerts.yml`).
3. *Retrying an ingestion.* `docs/architecture.md` says that partial jobs can be
   retried safely. An upload after a crash is answered as a duplicate of a document
   that nothing will process (`RetryCompletes`).

Further disagreements met while modelling, of which no run is made. Some are
about code that never runs, others are what a property states instead of the document:

4. *Automatic evaluation.* `docs/adr/003-evaluation-framework.md:23` and
   `backend/api/compare.py:105-106` say that finished runs are evaluated. The jobs in
   `queue:eval` have no consumer, and `trigger_eval` (`compare.py:129-136`) is a plain
   function, which Starlette runs in a thread where `asyncio.create_task` finds no
   loop. `Judge` is therefore an action that the code offers and nothing takes.
5. *Curated pairs.* `evaluation/judge.py:31-33` says that pairs are curated for
   fine-tuning. The judge's `INSERT` (lines 208-213) leaves `quality_score` empty, and
   the extraction demands at least 0.82: only seeded pairs are ever trained.
6. *Evaluation feed.* `judge.py:176` uses `settings`, which the module does not import;
   the event `evaluations:new` is never published.
7. *Injection check.* `prompt_injection.py:63` calls `provider.generate`, which no
   provider has; the check answers false.
8. *Generation.* `RAGGenerator` routes the task `generation`, which no model supports, so
   that it always gets gpt-4o-mini, and streams from the provider without the
   client's bucket, breaker and metrics.
9. *Retries.* `openai_provider.py:49-51` promises three retries with waits of 15, 30 and
   60 s; a chat call is cancelled after 60 s and an embedding after 10
   (`RetriesInTime` states what is left).
10. *Classification.* Calls with this task (`reranker.py:55`, `query_processor.py:40`)
    have no entry in `TIMEOUTS`; `run_with_timeout` raises inside the breaker, which
    counts a failure of a provider that was never asked (`CallsAccounted` says so).
11. *Registration.* `register_model_in_redis` starts from an empty list if the key is
    absent: the first tuned model hides all default models from the router.
12. *Costs.* The cost of an embedding is added to the model the router chose for it,
    gpt-4o-mini, whatever made the embedding.
13. *Chunk size.* A chunk may exceed `max_tokens` by the overlap, a chunk within the
    overlap is repeated wholly in the next one, and the pieces of a long sentence are
    stored before the sentences that precede it in the text (`chunker.py:38-94`).
14. *Long context.* `router.py:18` says 32k tokens, the rule (line 123) 100000.
15. *Five in a row.* `docs/tasks/task-10/implementation_plan.md:15` says that the circuit
    opens when a provider fails 5 times in a row. It may open earlier while the reset
    of the count after a success is pending, or until the next success if that was
    lost, and a circuit that the fallback closed keeps its count (`TripsInARow`).
16. *First start.* A process that starts on an empty database serves without the added
    columns until another one starts (`early`); updates fail meanwhile.

## Not modelled

* `query_processor.py`: its rewriting and expansion are a language model's text, and
  each of its calls is a `classification` (see 10); what the searches return is any
  ranking here. The SQL of the searches is left to the database.
* Extractors, validators, secret and injection scanning: parsing and pattern matching
  without state. Where a model meets them they may return or refuse anything.
* Metric formulas, offline evaluation and calibration scripts: arithmetic on model
  answers that no property distinguishes; `Evaluation` lets them give any score.
* Prometheus metrics other than the breaker's gauge, retention (it only logs), tracing,
  health and listing endpoints: they change no state that the system reads.
* Frontend and SDK: clients of the API.
* Eviction of the breaker's keys, and the search of a model in MLflow.

What could be added: provider calls composed with the detailed breaker and bucket
rather than with their outcomes, which multiplies the state spaces of three modules.
