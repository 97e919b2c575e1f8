------------------------------- MODULE QueryRun --------------------------------
(***************************************************************************)
(* The runs of the RAG pipeline, rows of the table `pipeline_runs', from   *)
(* their insertion to their answer (backend/api/query.py,                  *)
(* backend/api/compare.py, pipelines/generation/generator.py).  A run is   *)
(* executed by the request that created it, if that blocks or belongs to a *)
(* comparison, and by every stream a client opens on it, whatever its      *)
(* status: several executions, one after another or at the same time,      *)
(* write to one row.                                                       *)
(*                                                                         *)
(* A run is identified with the request that creates it (run_id is a fresh *)
(* UUID), and a list of chunks, a text and its counts of tokens with the   *)
(* execution they come from.  Each action is one database or Redis command *)
(* with the local computation and the calls of providers that precede it.  *)
(***************************************************************************)
EXTENDS Naturals, FiniteSets

CONSTANTS
  Blocking,   \* POST /query requests with stream = false
  Deferred,   \* POST /query requests with stream = true
  Compared,   \* the executions of POST /pipelines/compare requests
  Streams,    \* GET /query/{run_id}/stream requests
  None,       \* NULL in a column, and the run of a stream not yet opened
  Mock,       \* the numbers of tokens a comparison writes (150 and 50)
  MaxFaults   \* bound on the number of faults

Runs == Blocking \cup Deferred \cup Compared
Handlers == Runs \cup Streams

ASSUME RunAssumption ==
  /\ Blocking \cap Deferred = {} /\ Blocking \cap Compared = {}
  /\ Deferred \cap Compared = {} /\ Runs \cap Streams = {}
  /\ None \notin Handlers
  /\ Mock \notin Handlers \cup {None}
  /\ MaxFaults \in Nat

VARIABLES
  status,     \* pipeline_runs.status, "none" if there is no such row
  evidence,   \* retrieved_chunk_ids
  answer,     \* generation
  counts,     \* input_tokens, output_tokens
  pc,         \* where each handler is, or how it answered
  target,     \* the run each handler executes
  streamed,   \* executions whose model streamed to the end
  pushing,    \* tasks that are about to push an evaluation job
  jobs,       \* queue:eval, by the execution that pushed
  stored,     \* history: executions whose text was written to their run
  unwritten,  \* history: executions for which a database command raised
  unpushed,   \* history: executions whose push failed
  evicted,    \* history: executions whose job Redis dropped with the list
  crowded,    \* history: runs with two executions at a time
  faults      \* history: number of faults so far

vars == <<status, evidence, answer, counts, pc, target, streamed, pushing, jobs,
          stored, unwritten, unpushed, evicted, crowded, faults>>
row == <<status, evidence, answer, counts, stored>>
evaluation == <<pushing, jobs, unpushed, evicted>>
history == <<unwritten, crowded, faults>>

Steps == {"retrieve", "generate", "enqueue", "finish", "fail"}
Ends == {"run_id", "done", "partial", "error", "gone", "lost"}

Init ==
  /\ status = [r \in Runs |-> "none"]
  /\ evidence = [r \in Runs |-> None]
  /\ answer = [r \in Runs |-> None]
  /\ counts = [r \in Runs |-> None]
  /\ pc = [h \in Handlers |-> "idle"]
  /\ target = [h \in Handlers |-> IF h \in Runs THEN h ELSE None]
  /\ streamed = {}
  /\ pushing = {}
  /\ jobs = {}
  /\ stored = {}
  /\ unwritten = {}
  /\ unpushed = {}
  /\ evicted = {}
  /\ crowded = {}
  /\ faults = 0

Moves(h, from, to) == pc[h] = from /\ pc' = [pc EXCEPT ![h] = to]
Active(h) == pc[h] \in Steps
Report(r, s) == status' = [status EXCEPT ![r] = s]

-----------------------------------------------------------------------------
(* A run begins *)

(* INSERT ... 'running'.  A request with stream = true only gets the run_id. *)
Created(h) == IF h \in Deferred THEN "run_id" ELSE "retrieve"
Create(h) ==
  /\ h \in Runs
  /\ Moves(h, "idle", Created(h))
  /\ Report(h, "running")
  /\ UNCHANGED <<evidence, answer, counts, stored, target, streamed, evaluation, history>>

(* execute_pipeline_run raises if the pipeline is unknown or archived. *)
Refuse(c) ==
  /\ c \in Compared
  /\ Moves(c, "idle", "error")
  /\ UNCHANGED <<row, target, streamed, evaluation, history>>

(* query_stream: any run that exists is executed, whatever its status. *)
Open(s) ==
  /\ s \in Streams
  /\ \E r \in Runs :
       /\ target' = [target EXCEPT ![s] = r]
       /\ Moves(s, "idle", IF status[r] = "none" THEN "error" ELSE "retrieve")
       /\ crowded' = IF \E h \in Handlers : Active(h) /\ target[h] = r
                       THEN crowded \cup {r} ELSE crowded
  /\ UNCHANGED <<row, streamed, evaluation, unwritten, faults>>

-----------------------------------------------------------------------------
(* Retrieval *)

(* Where an exception takes an execution: a comparison marks its run. *)
Raised(h) == IF h \in Compared THEN "fail" ELSE "error"

(* Mutant of RetrieveFails: the comparison does not mark its run. *)
RetrieveFailsUnmarked(h) ==
  /\ Moves(h, "retrieve", "error")
  /\ UNCHANGED <<row, target, streamed, evaluation, history>>

(* The vector search raises. *)
RetrieveFails(h) ==
  /\ Moves(h, "retrieve", Raised(h))
  /\ UNCHANGED <<row, target, streamed, evaluation, history>>

(* Mutant of SetEvidence: only the first retrieval is recorded. *)
SetEvidenceOnce(h) ==
  evidence' = [evidence EXCEPT ![target[h]] = IF @ = None THEN h ELSE @]

SetEvidence(h) == evidence' = [evidence EXCEPT ![target[h]] = h]

(* The chunks are retrieved; UPDATE ... SET retrieved_chunk_ids. *)
Record(h) ==
  /\ Moves(h, "retrieve", "generate")
  /\ SetEvidence(h)
  /\ UNCHANGED <<status, answer, counts, stored, target, streamed, evaluation, history>>

-----------------------------------------------------------------------------
(* generate_stream *)

(* Mutant of Store: the status is left to somebody else. *)
StoreText(h, n, s) ==
  /\ answer' = [answer EXCEPT ![target[h]] = h]
  /\ counts' = [counts EXCEPT ![target[h]] = n]
  /\ stored' = stored \cup {h}
  /\ UNCHANGED <<status, evidence>>

(* UPDATE ... SET generation, input_tokens, output_tokens, status *)
Store(h, n, s) ==
  /\ answer' = [answer EXCEPT ![target[h]] = h]
  /\ counts' = [counts EXCEPT ![target[h]] = n]
  /\ stored' = stored \cup {h}
  /\ Report(target[h], s)
  /\ UNCHANGED evidence

(* The model streams its last token; the row is updated. *)
Log(h) ==
  /\ Moves(h, "generate", "enqueue")
  /\ streamed' = streamed \cup {h}
  /\ Store(h, h, "complete")
  /\ UNCHANGED <<target, evaluation, history>>

(* Mutant of GenerateFails: the error is not told from the end of the text. *)
GenerateFailsUnnoticed(h) ==
  /\ Moves(h, "generate", "enqueue")
  /\ Store(h, h, "complete")
  /\ UNCHANGED <<target, streamed, evaluation, history>>

(* The provider raises: the generator yields an error event and returns.    *)
(* Only a stream passes the event on.  A blocking request answers 200 with  *)
(* what it got, a comparison goes on as after a complete answer.  Before    *)
(* the first token, a provider the client does not know raises instead.     *)
Interrupted(h) ==
  IF h \in Streams THEN "error" ELSE IF h \in Compared THEN "finish" ELSE "partial"
GenerateFails(h) ==
  /\ Moves(h, "generate", Interrupted(h)) \/ Moves(h, "generate", Raised(h))
  /\ UNCHANGED <<row, target, streamed, evaluation, history>>

Told(h) == IF h \in Compared THEN "finish" ELSE "done"

(* Mutant of Enqueue: only for streams. *)
EnqueueStreams(h) ==
  /\ Moves(h, "enqueue", Told(h))
  /\ pushing' = pushing \cup ({h} \cap Streams)
  /\ UNCHANGED <<row, target, streamed, jobs, unpushed, evicted, history>>

(* create_task(_enqueue_eval_job), and the event `done'. *)
Enqueue(h) ==
  /\ Moves(h, "enqueue", Told(h))
  /\ pushing' = pushing \cup {h}
  /\ UNCHANGED <<row, target, streamed, jobs, unpushed, evicted, history>>

(* LPUSH queue:eval, which nothing takes jobs from *)
Push(h) ==
  /\ h \in pushing
  /\ pushing' = pushing \ {h}
  /\ jobs' = jobs \cup {h}
  /\ UNCHANGED <<row, pc, target, streamed, unpushed, evicted, history>>

-----------------------------------------------------------------------------
(* execute_pipeline_run, after the generator *)

Finish(c) ==
  /\ Moves(c, "finish", "done")
  /\ Store(c, Mock, "completed")
  /\ UNCHANGED <<target, streamed, evaluation, history>>

(* Mutant of Fail: another word for it. *)
FailMisspelt(c) ==
  /\ Moves(c, "fail", "error")
  /\ Report(c, "failure")
  /\ UNCHANGED <<evidence, answer, counts, stored, target, streamed, evaluation, history>>

Fail(c) ==
  /\ Moves(c, "fail", "error")
  /\ Report(c, "failed")
  /\ UNCHANGED <<evidence, answer, counts, stored, target, streamed, evaluation, history>>

-----------------------------------------------------------------------------
(* Faults.  A database command that raises may have taken effect. *)

Fault == faults < MaxFaults /\ faults' = faults + 1
DatabaseFault(h) == Fault /\ unwritten' = unwritten \cup {h} /\ UNCHANGED crowded

CreateUnanswered(h) ==
  /\ h \in Runs
  /\ Moves(h, "idle", "error")
  /\ Report(h, "running") \/ UNCHANGED status
  /\ DatabaseFault(h)
  /\ UNCHANGED <<evidence, answer, counts, stored, target, streamed, evaluation>>

(* A stream only logs it. *)
RecordUnanswered(h) ==
  /\ Moves(h, "retrieve", IF h \in Streams THEN "generate" ELSE Raised(h))
  /\ SetEvidence(h) \/ UNCHANGED evidence
  /\ DatabaseFault(h)
  /\ UNCHANGED <<status, answer, counts, stored, target, streamed, evaluation>>

(* The generator only logs it. *)
LogUnanswered(h) ==
  /\ Moves(h, "generate", "enqueue")
  /\ streamed' = streamed \cup {h}
  /\ Store(h, h, "complete") \/ UNCHANGED row
  /\ DatabaseFault(h)
  /\ UNCHANGED <<target, evaluation>>

FinishUnanswered(c) ==
  /\ Moves(c, "finish", "fail")
  /\ Store(c, Mock, "completed") \/ UNCHANGED row
  /\ DatabaseFault(c)
  /\ UNCHANGED <<target, streamed, evaluation>>

FailUnanswered(c) ==
  /\ Moves(c, "fail", "error")
  /\ Report(c, "failed") \/ UNCHANGED status
  /\ DatabaseFault(c)
  /\ UNCHANGED <<evidence, answer, counts, stored, target, streamed, evaluation>>

(* LPUSH raises, or the process dies before it. *)
PushUnanswered(h) ==
  /\ h \in pushing
  /\ pushing' = pushing \ {h}
  /\ jobs' = jobs \cup {h} \/ UNCHANGED jobs
  /\ unpushed' = unpushed \cup {h}
  /\ Fault
  /\ UNCHANGED <<row, pc, target, streamed, evicted, unwritten, crowded>>

(* Redis drops queue:eval (maxmemory-policy allkeys-lru). *)
Evict ==
  /\ jobs # {}
  /\ jobs' = {}
  /\ evicted' = evicted \cup jobs
  /\ Fault
  /\ UNCHANGED <<row, pc, target, streamed, pushing, unpushed, unwritten, crowded>>

(* The client of a stream goes away, which cancels it at its next await.    *)
Disconnect(s) ==
  /\ s \in Streams
  /\ Active(s)
  /\ pc' = [pc EXCEPT ![s] = "gone"]
  /\ UNCHANGED <<row, target, streamed, evaluation, history>>

Crash(h) ==
  /\ Active(h)
  /\ pc' = [pc EXCEPT ![h] = "lost"]
  /\ Fault
  /\ UNCHANGED <<row, target, streamed, evaluation, unwritten, crowded>>

-----------------------------------------------------------------------------
Execute(h) ==
  \/ Record(h) \/ RetrieveFails(h) \/ Log(h) \/ GenerateFails(h)
  \/ Enqueue(h) \/ Finish(h) \/ Fail(h)

Suffer(h) ==
  \/ CreateUnanswered(h) \/ RecordUnanswered(h) \/ LogUnanswered(h) \/ FinishUnanswered(h)
  \/ FailUnanswered(h) \/ PushUnanswered(h) \/ Crash(h)

Next ==
  \/ \E h \in Handlers :
       Create(h) \/ Refuse(h) \/ Open(h) \/ Execute(h) \/ Push(h) \/ Disconnect(h) \/ Suffer(h)
  \/ Evict

Spec == Init /\ [][Next]_vars
-----------------------------------------------------------------------------
(* Properties *)

TypeOK ==
  /\ status \in [Runs -> {"none", "running", "complete", "completed", "failed"}]
  /\ evidence \in [Runs -> Handlers \cup {None}]
  /\ answer \in [Runs -> Handlers \cup {None}]
  /\ counts \in [Runs -> Handlers \cup {None, Mock}]
  /\ pc \in [Handlers -> {"idle"} \cup Steps \cup Ends]
  /\ target \in [Handlers -> Runs \cup {None}]
  /\ streamed \subseteq Handlers
  /\ pushing \subseteq Handlers
  /\ jobs \subseteq Handlers
  /\ stored \subseteq Handlers
  /\ unwritten \subseteq Handlers
  /\ unpushed \subseteq Handlers
  /\ evicted \subseteq Handlers
  /\ crowded \subseteq Runs
  /\ faults \in 0..MaxFaults

(* The judge scores the generation of a row against the chunks of the same  *)
(* row, written by two commands.  Unless executions of the run overlapped   *)
(* or the answer's own command failed, the chunks are those the answer was  *)
(* generated from, or those of a later execution that has stored no answer. *)
AnswersMatchEvidence ==
  \A r \in Runs \ crowded : answer[r] # None =>
    \/ evidence[r] = answer[r]
    \/ answer[r] \in unwritten
    \/ evidence[r] # None /\ evidence[r] \notin stored

(* A client that was told `done', and an evaluation job, refer to a run     *)
(* that is final and has an answer, in spite of all that other executions   *)
(* do to it, unless its own database command failed.                        *)
Final(r) == status[r] \in {"complete", "completed", "failed"}
DoneIsStored ==
  \A h \in Handlers : pc[h] = "done" \/ h \in pushing \cup jobs =>
    h \in unwritten \/ (Final(target[h]) /\ answer[target[h]] # None)

(* The answer of a query is replaced by whole answers only, however often   *)
(* it is streamed again and wherever that breaks off, and it is stored with *)
(* the counts of its own tokens.                                            *)
WholeAnswersOnly ==
  [][\A r \in Blocking \cup Deferred : answer'[r] # answer[r] =>
       answer'[r] \in streamed' /\ counts'[r] = answer'[r]]_vars

(* The run of a comparison whose answer was sent is completed or failed, as *)
(* the answer says, whatever retrieval and generation did, unless one of    *)
(* its database commands failed.  Only a stream on it may have changed that *)
(* to complete.                                                             *)
Streamed(r) == \E s \in Streams \cap stored : target[s] = r
ComparisonsEnd ==
  \A c \in Compared \ unwritten : status[c] # "none" =>
    /\ pc[c] = "done" => status[c] = "completed" \/ (status[c] = "complete" /\ Streamed(c))
    /\ pc[c] = "error" => status[c] = "failed" \/ (status[c] = "complete" /\ Streamed(c))

(* Only answers that were streamed to their end are queued for evaluation,  *)
(* and each of them is, also one that could not be stored, until Redis      *)
(* drops the queue, unless the execution was cut off before its push or the *)
(* push, which nobody awaits, failed.                                       *)
AnswersAreQueued ==
  /\ pushing \cup jobs \cup evicted \subseteq streamed
  /\ \A h \in streamed :
       \/ h \in pushing \cup jobs \cup evicted \cup unpushed
       \/ pc[h] \in {"enqueue", "gone", "lost"}
=============================================================================
