------------------------------- MODULE FineTuning -------------------------------
(***************************************************************************)
(* Fine-tuning jobs, on the tables of the evaluation: the extraction of    *)
(* training data (pipelines/finetuning/extractor.py), the request that     *)
(* creates a job (backend/api/finetune.py) and the task that trains and    *)
(* registers the model (pipelines/finetuning/job_manager.py).              *)
(*                                                                         *)
(* A job, its file and its model are identified with the request.          *)
(***************************************************************************)
EXTENDS Evaluation

CONSTANTS
  Jobs,    \* POST /finetune/jobs requests
  Unfit    \* pairs whose text is too short, has no citation, or has PII

ASSUME FineTuningAssumption ==
  /\ Unfit \subseteq Seeded
  /\ None \notin Jobs /\ \A fs \in SUBSET Jobs : fs # Absent

VARIABLES
  file,        \* the pairs in each job's file
  step,        \* where each job's request or task is
  status,      \* finetune_jobs.status
  registry,    \* the models of router:models, or Absent
  read,        \* what each task read of it
  overlapped,  \* history: jobs whose extraction overlapped another
  unmarked,    \* history: jobs that may not have marked their pairs
  raced,       \* history: jobs whose registration overlapped another
  evicted      \* history: models that were evicted with the registry

jobVars == <<file, step, status, registry, read, overlapped, unmarked, raced, evicted>>
vars == <<evalVars, jobVars>>
extraction == <<file, overlapped, unmarked>>
registration == <<registry, read, raced, evicted>>

InitJobs ==
  /\ file = [f \in Jobs |-> {}]
  /\ step = [f \in Jobs |-> "idle"]
  /\ status = [f \in Jobs |-> "none"]
  /\ registry = Absent
  /\ read = [f \in Jobs |-> {}]
  /\ overlapped = {} /\ unmarked = {} /\ raced = {} /\ evicted = {}

Advances(f, from, to) == step[f] = from /\ step' = [step EXCEPT ![f] = to]
Others(f, s) == {g \in Jobs \ {f} : step[g] = s}
Both(f, s) == IF Others(f, s) = {} THEN {} ELSE Others(f, s) \cup {f}

-----------------------------------------------------------------------------
(* extract_training_data *)

(* Mutant of Selected: pairs of other jobs are taken again. *)
SelectedAgain(p) == pairs[p] # Absent /\ pairs[p].quality # None /\ pairs[p].quality >= 82

(* WHERE quality_score >= 0.82 AND included_in_job IS NULL *)
Selected(p) ==
  /\ pairs[p] # Absent
  /\ pairs[p].quality # None /\ pairs[p].quality >= 82
  /\ pairs[p].job = None

(* Mutant of Qualifies: an unrated answer has to be faithful, a rated one not. *)
QualifiesRated(e) ==
  \/ e.rating # None
  \/ e.faithfulness # None /\ e.faithfulness > 80

Qualifies(e) ==
  /\ e.rating = None \/ e.rating >= 4
  /\ e.faithfulness # None /\ e.faithfulness > 80

(* JOIN evaluations: one row of the run that qualifies is enough. *)
Eligible(p) ==
  /\ Selected(p)
  /\ \E a \in RowsOf(pairs[p].run) : Qualifies(evaluations[a])
  /\ p \notin Unfit

(* The SELECT, the filters, and the file; 400 if there is no pair *)
Extract(f) ==
  LET ps == {p \in Authors : Eligible(p)} IN
  /\ Advances(f, "idle", IF ps = {} THEN "refused" ELSE "mark")
  /\ file' = [file EXCEPT ![f] = ps]
  /\ overlapped' = IF ps = {} THEN overlapped ELSE overlapped \cup Both(f, "mark")
  /\ UNCHANGED <<evalVars, status, unmarked, registration>>

Marked(f) ==
  pairs' = [p \in Authors |-> IF p \in file[f] THEN [pairs[p] EXCEPT !.job = f] ELSE pairs[p]]

(* UPDATE training_pairs SET included_in_job *)
Mark(f) ==
  /\ Advances(f, "mark", "create")
  /\ Marked(f)
  /\ UNCHANGED <<evaluations, stage, target, found, seen, crowded,
                 extraction, status, registration>>

(* It raises, and may have taken effect, or the process ends before it. *)
MarkUnanswered(f) ==
  /\ Advances(f, "mark", "error")
  /\ Marked(f) \/ UNCHANGED pairs
  /\ unmarked' = unmarked \cup {f}
  /\ UNCHANGED <<evaluations, stage, target, found, seen, crowded,
                 file, overlapped, status, registration>>

-----------------------------------------------------------------------------
(* create_finetuning_job, and its background task *)

(* Mutant of CreateJob: another status *)
CreateJobRunning(f) ==
  /\ Advances(f, "create", "train")
  /\ status' = [status EXCEPT ![f] = "running"]
  /\ UNCHANGED <<evalVars, extraction, registration>>

(* log_fine_tuning_run and INSERT ... 'pending' *)
CreateJob(f) ==
  /\ Advances(f, "create", "train")
  /\ status' = [status EXCEPT ![f] = "pending"]
  /\ UNCHANGED <<evalVars, extraction, registration>>

(* Either of them raises: 500.  The pairs stay with the job. *)
CreateUnanswered(f) ==
  /\ Advances(f, "create", "error")
  /\ status' = [status EXCEPT ![f] = "pending"] \/ UNCHANGED status
  /\ UNCHANGED <<evalVars, extraction, registration>>

(* mock_submit_and_poll_job: UPDATE ... 'succeeded' after the training *)
Train(f) ==
  /\ Advances(f, "train", "get")
  /\ status' = [status EXCEPT ![f] = "succeeded"]
  /\ UNCHANGED <<evalVars, extraction, registration>>

(* register_model_in_redis: GET router:models ... *)
ReadModels(f) ==
  /\ Advances(f, "get", "set")
  /\ read' = [read EXCEPT ![f] = IF registry = Absent THEN {} ELSE registry]
  /\ raced' = raced \cup Both(f, "set")
  /\ UNCHANGED <<evalVars, extraction, status, registry, evicted>>

(* Mutant of SaveModels: the list is built from the new model only. *)
SaveModel(f) ==
  /\ Advances(f, "set", "registered")
  /\ registry' = {f}
  /\ read' = [read EXCEPT ![f] = {}]
  /\ UNCHANGED <<evalVars, extraction, status, raced, evicted>>

(* ... and SET router:models, with the new model appended *)
SaveModels(f) ==
  /\ Advances(f, "set", "registered")
  /\ registry' = read[f] \cup {f}
  /\ read' = [read EXCEPT ![f] = {}]
  /\ UNCHANGED <<evalVars, extraction, status, raced, evicted>>

(* A command of the task raises, or its process ends: nothing resumes it.   *)
(* An UPDATE or SET that raises may have taken effect.                      *)
Lose(f) ==
  /\ step[f] \in {"create", "train", "get", "set"}
  /\ step' = [step EXCEPT ![f] = "lost"]
  /\ \/ UNCHANGED <<status, registry>>
     \/ step[f] = "train" /\ status' = [status EXCEPT ![f] = "succeeded"] /\ UNCHANGED registry
     \/ step[f] = "set" /\ registry' = read[f] \cup {f} /\ UNCHANGED status
  /\ read' = [read EXCEPT ![f] = {}]
  /\ UNCHANGED <<evalVars, extraction, raced, evicted>>

(* Redis evicts the key (maxmemory-policy allkeys-lru). *)
Evict ==
  /\ registry # Absent
  /\ evicted' = evicted \cup registry
  /\ registry' = Absent
  /\ UNCHANGED <<evalVars, extraction, step, status, read, raced>>

Work(f) ==
  \/ Extract(f) \/ Mark(f) \/ MarkUnanswered(f) \/ CreateJob(f) \/ CreateUnanswered(f)
  \/ Train(f) \/ ReadModels(f) \/ SaveModels(f) \/ Lose(f)

LoopInit == Init /\ InitJobs
LoopNext ==
  \/ Next /\ UNCHANGED jobVars
  \/ \E f \in Jobs : Work(f)
  \/ Evict
LoopSpec == LoopInit /\ [][LoopNext]_vars

-----------------------------------------------------------------------------
(* Properties *)

PairRows == [run : Runs, quality : {None, 90}, job : Jobs \cup {None}]

(* The types of the tables and the registry, and of what each job holds *)
TypeOK ==
  /\ EvaluationTypeOK
  /\ pairs \in [Authors -> PairRows \cup {Absent}]
  /\ file \in [Jobs -> SUBSET Authors]
  /\ step \in [Jobs -> {"idle", "refused", "mark", "create", "train", "get", "set",
                        "registered", "error", "lost"}]
  /\ status \in [Jobs -> {"none", "pending", "succeeded"}]
  /\ registry \in (SUBSET Jobs) \cup {Absent}
  /\ read \in [Jobs -> SUBSET Jobs]
  /\ overlapped \subseteq Jobs /\ unmarked \subseteq Jobs
  /\ raced \subseteq Jobs /\ evicted \subseteq Jobs

(* Two jobs are trained on the same pair only if one extracted it before    *)
(* the other had marked it, or if the mark may have failed.                 *)
TrainedOnce ==
  \A f, g \in Jobs : f # g /\ file[f] \cap file[g] # {} =>
    {f, g} \subseteq overlapped \/ {f, g} \cap unmarked # {}

(* No pair goes into a file while some evaluation of its run has a rating   *)
(* below 4, or none of them is faithful, although the join asks for one row *)
(* that qualifies only and the same run may have several.                   *)
BadlyRatedNotTrained ==
  [][\A f \in Jobs : \A p \in file'[f] \ file[f] :
       LET rows == RowsOf(pairs[p].run) IN
       /\ \A a \in rows : evaluations[a].rating = None \/ evaluations[a].rating >= 4
       /\ \E a \in rows : evaluations[a].faithfulness # None /\ evaluations[a].faithfulness > 80]_vars

(* The router knows the model of every job that registered it, unless two   *)
(* registrations overlapped or Redis has evicted the list.                  *)
RegistryKeepsModels ==
  \A f \in Jobs : step[f] = "registered" /\ f \notin raced \cup evicted =>
    registry # Absent /\ f \in registry
=============================================================================
