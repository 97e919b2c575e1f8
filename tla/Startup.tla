-------------------------------- MODULE Startup ---------------------------------
(***************************************************************************)
(* The startup of API processes (lifespan of backend/main.py, with         *)
(* backend/db/migrations.py and backend/db/pool.py) on one database.       *)
(*                                                                         *)
(* The schema is a set of parts: the base schema of 001_schema.sql, and    *)
(* what every startup adds to it.  Each action is one command of a process *)
(* to the database server.                                                 *)
(***************************************************************************)
EXTENDS Naturals

CONSTANTS
  Replicas,     \* processes of the API
  Attempts,     \* how often a process tries to reach the server (15)
  MaxTroubles   \* bound on the number of restarts and of commands that fail

ASSUME StartupAssumption == Attempts \in Nat \ {0, 1} /\ MaxTroubles \in Nat

VARIABLES
  schema,    \* the parts of the schema that exist
  mlflow,    \* does the database `mlflow' exist?
  phase,     \* where each process is in its lifespan
  failed,    \* failed attempts at the current step of a process
  early,     \* history: processes that added their parts before the base schema
  spoiled,   \* history: processes for which an addition failed otherwise
  restarts,  \* history: number of restarts so far
  faults     \* history: number of faults so far

startVars == <<schema, mlflow, phase, failed, early, spoiled, restarts, faults>>

(* What a startup adds, in this order; an addition that fails ends its     *)
(* group, and the metadata column is a group of its own.                   *)
Additions == {"metadata", "version", "status", "pipeline_versions", "run_version"}
Parts == {"base"} \cup Additions

(* Mutant of Following: the column of pipeline_runs is left out. *)
FollowingShort == [metadata |-> "version", version |-> "status",
                   status |-> "pipeline_versions", pipeline_versions |-> "check"]

Following == [metadata |-> "version", version |-> "status", status |-> "pipeline_versions",
              pipeline_versions |-> "run_version", run_version |-> "check"]
Skipping(part) == IF part = "metadata" THEN "version" ELSE "check"
Phases == {"down", "find", "create", "pool", "check", "apply", "serving", "failed"} \cup Additions

(* The database may have been initialised by docker-entrypoint-initdb.d.   *)
StartInit ==
  /\ schema \in {{}, {"base"}}
  /\ mlflow = FALSE
  /\ phase = [p \in Replicas |-> "down"]
  /\ failed = [p \in Replicas |-> 0]
  /\ early = {} /\ spoiled = {}
  /\ restarts = 0 /\ faults = 0

Enters(p, to) == phase' = [phase EXCEPT ![p] = to]
Proceeds(p, from, to) == phase[p] = from /\ Enters(p, to)
Fault == restarts + faults < MaxTroubles /\ faults' = faults + 1
NoHistory == UNCHANGED <<early, spoiled, restarts>>

Boot(p) ==
  /\ Proceeds(p, "down", "find")
  /\ UNCHANGED <<schema, mlflow, failed, early, spoiled, restarts, faults>>

(* One more failed attempt: once more from `again', or give up *)
Retry(p, again) ==
  IF failed[p] + 1 < Attempts
    THEN Enters(p, again) /\ failed' = [failed EXCEPT ![p] = @ + 1]
    ELSE Enters(p, "failed") /\ failed' = [failed EXCEPT ![p] = 0]

(* ensure_mlflow_db: SELECT ... FROM pg_database *)
FindMlflow(p) ==
  /\ Proceeds(p, "find", IF mlflow THEN "pool" ELSE "create")
  /\ failed' = [failed EXCEPT ![p] = IF mlflow THEN 0 ELSE @]
  /\ NoHistory /\ UNCHANGED <<schema, mlflow, faults>>

(* CREATE DATABASE, which raises if another process was faster *)
CreateMlflow(p) ==
  /\ phase[p] = "create"
  /\ mlflow' = TRUE
  /\ IF mlflow THEN Retry(p, "find")
     ELSE Enters(p, "pool") /\ failed' = [failed EXCEPT ![p] = 0]
  /\ NoHistory /\ UNCHANGED <<schema, faults>>

(* The server cannot be reached, by ensure_mlflow_db or by init_pool. *)
Unreachable(p) ==
  /\ phase[p] \in {"find", "create", "pool"}
  /\ mlflow' \in {mlflow, mlflow \/ phase[p] = "create"}
  /\ Retry(p, IF phase[p] = "pool" THEN "pool" ELSE "find")
  /\ Fault
  /\ NoHistory /\ UNCHANGED schema

InitPool(p) ==
  /\ Proceeds(p, "pool", "metadata")
  /\ failed' = [failed EXCEPT ![p] = 0]
  /\ NoHistory /\ UNCHANGED <<schema, mlflow, faults>>

(* ALTER TABLE ... IF NOT EXISTS, which raises without the base schema.    *)
(* Two processes at the same addition may also raise by their own race,    *)
(* since PostgreSQL checks and adds in two steps: that is EnsureFails.     *)
Ensure(p) ==
  /\ phase[p] \in Additions
  /\ IF "base" \in schema
       THEN /\ Enters(p, Following[phase[p]])
            /\ schema' = schema \cup {phase[p]}
            /\ UNCHANGED early
       ELSE /\ Enters(p, Skipping(phase[p]))
            /\ early' = early \cup {p}
            /\ UNCHANGED schema
  /\ UNCHANGED <<mlflow, failed, spoiled, restarts, faults>>

(* It raises for another reason, having taken effect or not. *)
EnsureFails(p) ==
  /\ phase[p] \in Additions
  /\ \/ "base" \in schema /\ schema' = schema \cup {phase[p]}
     \/ UNCHANGED schema
  /\ Enters(p, Skipping(phase[p]))
  /\ spoiled' = spoiled \cup {p}
  /\ Fault
  /\ UNCHANGED <<mlflow, failed, early, restarts>>

(* check_schema_applied *)
Check(p) ==
  /\ Proceeds(p, "check", IF "base" \in schema THEN "serving" ELSE "apply")
  /\ NoHistory /\ UNCHANGED <<schema, mlflow, failed, faults>>

(* An error is taken for a schema that is not there. *)
CheckFails(p) ==
  /\ Proceeds(p, "check", "apply")
  /\ Fault
  /\ NoHistory /\ UNCHANGED <<schema, mlflow, failed>>

(* 001_schema.sql, all or nothing: raises if its tables are there.         *)
Apply(p) ==
  /\ Proceeds(p, "apply", IF "base" \in schema THEN "failed" ELSE "serving")
  /\ schema' = schema \cup {"base"}
  /\ NoHistory /\ UNCHANGED <<mlflow, failed, faults>>

ApplyFails(p) ==
  /\ Proceeds(p, "apply", "failed")
  /\ schema' \in {schema, schema \cup {"base"}}
  /\ Fault
  /\ NoHistory /\ UNCHANGED <<mlflow, failed>>

(* The process ends, whether it was serving, starting, or has given up.    *)
Restart(p) ==
  /\ phase[p] # "down" /\ Enters(p, "down")
  /\ failed' = [failed EXCEPT ![p] = 0]
  /\ early' = early \ {p} /\ spoiled' = spoiled \ {p}
  /\ restarts + faults < MaxTroubles /\ restarts' = restarts + 1
  /\ UNCHANGED <<schema, mlflow, faults>>

StartNext ==
  \E p \in Replicas :
    \/ Boot(p) \/ FindMlflow(p) \/ CreateMlflow(p) \/ Unreachable(p) \/ InitPool(p)
    \/ Ensure(p) \/ EnsureFails(p) \/ Check(p) \/ CheckFails(p) \/ Apply(p) \/ ApplyFails(p)
    \/ Restart(p)

Serving == \E p \in Replicas : phase[p] = "serving"

-----------------------------------------------------------------------------
(* Properties *)

(* The schema holds parts of the migrations, and no process retries more    *)
(* often than it may.                                                       *)
StartTypeOK ==
  /\ schema \subseteq Parts
  /\ mlflow \in BOOLEAN
  /\ phase \in [Replicas -> Phases]
  /\ failed \in [Replicas -> 0..Attempts]
  /\ early \subseteq Replicas /\ spoiled \subseteq Replicas
  /\ restarts \in Nat /\ faults \in Nat /\ restarts + faults <= MaxTroubles

(* However many processes start together, on a fresh database or not: one   *)
(* that serves has the base schema, and all additions too unless it tried   *)
(* them before the base schema was there or one of them failed; and without *)
(* a fault they do not all give up, whoever loses the races to create the   *)
(* database and the tables.                                                 *)
SchemaServed ==
  /\ \A p \in Replicas : phase[p] = "serving" =>
       "base" \in schema /\ (p \in early \cup spoiled \/ Additions \subseteq schema)
  /\ Replicas # {} /\ (\A p \in Replicas : phase[p] = "failed") => faults > 0
=============================================================================
