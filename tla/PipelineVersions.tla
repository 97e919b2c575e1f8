---------------------------- MODULE PipelineVersions ----------------------------
(***************************************************************************)
(* Pipelines and their versions: the endpoints of backend/api/pipelines.py *)
(* that write, the seeding of unknown pipelines by queries                 *)
(* (backend/api/query.py), and the versions the runs of comparisons carry  *)
(* (backend/api/compare.py), served by processes that start, stop and      *)
(* change the schema meanwhile.                                            *)
(*                                                                         *)
(* A pipeline is identified with the request that creates it, or is one of *)
(* the unknown ids queries mention, and a configuration with its writer    *)
(* (the id, for the dummy one a query seeds).  The name of a pipeline is   *)
(* part of its configuration.  Transactions are READ COMMITTED: what one   *)
(* writes is seen when it commits.                                         *)
(***************************************************************************)
EXTENDS Startup

CONSTANTS
  Creators,  \* POST /pipelines requests
  Updaters,  \* PATCH /pipelines/{id} requests
  Deleters,  \* DELETE /pipelines/{id} requests
  Runners,   \* POST /query requests and executions of comparisons
  Unknown,   \* ids of pipelines that nobody created
  Name,      \* the name in each configuration
  None

Pipelines == Creators \cup Unknown
Writers == Pipelines \cup Updaters
Requests == Creators \cup Updaters \cup Deleters \cup Runners

ASSUME VersionsAssumption ==
  /\ Creators \cap Updaters = {} /\ Unknown \cap Requests = {}
  /\ Deleters \cap (Creators \cup Updaters) = {}
  /\ Runners \cap (Creators \cup Updaters \cup Deleters) = {}
  /\ None \notin Requests \cup Unknown \cup Nat
  /\ DOMAIN Name = Writers

VARIABLES
  config,    \* pipelines.config, None if there is no such row
  version,   \* pipelines.version
  archived,  \* the pipelines whose status is `archived'
  history,   \* pipeline_versions, as triples of pipeline, version, configuration
  runs,      \* pipeline_runs, by request
  lock,      \* the transaction that holds the lock on each row of pipelines
  at,        \* where each request is, or how it was answered
  about,     \* the pipeline it is about
  got        \* the version it read

rows == <<config, version, archived, history, runs>>
requests == <<lock, at, about, got>>
vars == <<startVars, rows, requests>>

Init ==
  /\ StartInit
  /\ config = [p \in Pipelines |-> None]
  /\ version = [p \in Pipelines |-> 1]
  /\ archived = {}
  /\ history = {}
  /\ runs = [h \in Runners |-> None]
  /\ lock = [p \in Pipelines |-> None]
  /\ at = [h \in Requests |-> "idle"]
  /\ about = [h \in Requests |-> None]
  /\ got = [h \in Requests |-> None]

Exists(p) == config[p] # None
Taken(n, p) == \E q \in Pipelines \ {p} : Exists(q) /\ Name[config[q]] = n
Versioned == {"base", "version", "status", "pipeline_versions"} \subseteq schema

To(h, from, to) == at[h] = from /\ at' = [at EXCEPT ![h] = to]
Arrives(h, p, to) ==
  /\ Serving
  /\ To(h, "idle", to)
  /\ about' = [about EXCEPT ![h] = p]
Rejects(h, answer) == Serving /\ To(h, "idle", answer) /\ UNCHANGED <<about, got>>
Forget(h) == about' = [about EXCEPT ![h] = None] /\ got' = [got EXCEPT ![h] = None]
(* The answer to a command that commits may be lost. *)
Committed(h, from) == To(h, from, "done") \/ To(h, from, "error")

-----------------------------------------------------------------------------
(* create_pipeline: SELECT by name ... *)
CreateCheck(c) ==
  /\ c \in Creators
  /\ Arrives(c, c, IF Taken(Name[c], c) THEN "refused" ELSE "insert")
  /\ UNCHANGED <<startVars, rows, lock, got>>

CreateFails(c) ==
  /\ c \in Creators
  /\ \/ Taken(Name[c], c) /\ To(c, "insert", "refused")
     \/ ~Versioned /\ To(c, "insert", "error")
  /\ UNCHANGED <<startVars, rows, lock, about, got>>

(* Mutant of CreateCommit: the snapshot of version 1 is left out. *)
CreateUnversioned(c) ==
  /\ c \in Creators /\ ~Taken(Name[c], c) /\ Versioned
  /\ Committed(c, "insert")
  /\ config' = [config EXCEPT ![c] = c]
  /\ UNCHANGED <<startVars, version, archived, history, runs, lock, about, got>>

(* ... INSERT pipelines, INSERT pipeline_versions, COMMIT *)
CreateCommit(c) ==
  /\ c \in Creators /\ ~Taken(Name[c], c) /\ Versioned
  /\ Committed(c, "insert")
  /\ config' = [config EXCEPT ![c] = c]
  /\ history' = history \cup {<<c, 1, c>>}
  /\ UNCHANGED <<startVars, version, archived, runs, lock, about, got>>

-----------------------------------------------------------------------------
(* update_pipeline: the version is read without a lock ... *)
UpdateRefused(u, p) ==
  \/ ~Exists(p) \/ p \in archived
  \/ Name[u] # Name[config[p]] /\ Taken(Name[u], p)
UpdateRead(u) ==
  /\ u \in Updaters
  /\ \E p \in Pipelines :
       IF ~Versioned THEN Rejects(u, "error")
       ELSE IF UpdateRefused(u, p) THEN Rejects(u, "refused")
       ELSE Arrives(u, p, "update") /\ got' = [got EXCEPT ![u] = version[p]]
  /\ UNCHANGED <<startVars, rows, lock>>

(* ... UPDATE pipelines locks the row ... *)
UpdateLock(u) ==
  /\ To(u, "update", "insert")
  /\ lock[about[u]] = None
  /\ lock' = [lock EXCEPT ![about[u]] = u]
  /\ UNCHANGED <<startVars, rows, about, got>>

(* ... and INSERT pipeline_versions raises if the version is there, or     *)
(* the UPDATE did if the name is taken, which undoes both.                 *)
Conflict(u) ==
  \/ \E w \in Writers : <<about[u], got[u] + 1, w>> \in history
  \/ Taken(Name[u], about[u])
Unlock(u) == lock' = [p \in Pipelines |-> IF lock[p] = u THEN None ELSE lock[p]]
UpdateFails(u) ==
  /\ u \in Updaters
  /\ To(u, "insert", "error")
  /\ Conflict(u)
  /\ Unlock(u)
  /\ UNCHANGED <<startVars, rows, about, got>>

(* Mutant of UpdateCommit: without the unique index *)
UpdateAnyway(u) ==
  /\ u \in Updaters
  /\ Committed(u, "insert")
  /\ ~Taken(Name[u], about[u])
  /\ config' = [config EXCEPT ![about[u]] = u]
  /\ version' = [version EXCEPT ![about[u]] = got[u] + 1]
  /\ history' = {e \in history : e[1] # about[u] \/ e[2] # got[u] + 1}
                  \cup {<<about[u], got[u] + 1, u>>}
  /\ Unlock(u)
  /\ UNCHANGED <<startVars, archived, runs, about, got>>

UpdateCommit(u) ==
  /\ u \in Updaters
  /\ Committed(u, "insert")
  /\ ~Conflict(u)
  /\ config' = [config EXCEPT ![about[u]] = u]
  /\ version' = [version EXCEPT ![about[u]] = got[u] + 1]
  /\ history' = history \cup {<<about[u], got[u] + 1, u>>}
  /\ Unlock(u)
  /\ UNCHANGED <<startVars, archived, runs, about, got>>

-----------------------------------------------------------------------------
(* delete_pipeline: waits for the lock of an update. *)
Delete(d) ==
  /\ d \in Deleters /\ Serving
  /\ \E p \in Pipelines :
       /\ lock[p] = None
       /\ To(d, "idle", IF Exists(p) /\ "status" \in schema THEN "done" ELSE "error")
       /\ archived' = IF Exists(p) /\ "status" \in schema THEN archived \cup {p} ELSE archived
  /\ UNCHANGED <<startVars, config, version, history, runs, lock, about, got>>

(* create_query: an unknown pipeline is seeded, an archived one is not told *)
(* from others.                                                             *)
Query(q) ==
  /\ q \in Runners
  /\ \E p \in Pipelines :
       /\ p \in Unknown \/ Exists(p)
       /\ Arrives(q, p, IF Exists(p) THEN "run" ELSE "seed")
  /\ UNCHANGED <<startVars, rows, lock, got>>

(* Mutant of Seed: the row gets an id of its own. *)
SeedAnew(q) ==
  /\ To(q, "seed", "run")
  /\ config' = [config EXCEPT ![about[q]] = q]
  /\ UNCHANGED <<startVars, version, archived, history, runs, lock, about, got>>

(* INSERT ... ON CONFLICT DO NOTHING, on the id as on the name; an error is *)
(* only logged.                                                             *)
Seed(q) ==
  LET p == about[q] IN
  /\ To(q, "seed", "run")
  /\ \/ UNCHANGED config
     \/ ~Exists(p) /\ ~Taken(Name[p], p) /\ config' = [config EXCEPT ![p] = p]
  /\ UNCHANGED <<startVars, version, archived, history, runs, lock, about, got>>

(* SELECT version, of a comparison *)
CompareRead(k) ==
  /\ k \in Runners
  /\ \E p \in Pipelines :
       IF Versioned /\ Exists(p) /\ p \notin archived
         THEN Arrives(k, p, "run") /\ got' = [got EXCEPT ![k] = version[p]]
         ELSE Rejects(k, "error")
  /\ UNCHANGED <<startVars, rows, lock>>

(* INSERT pipeline_runs, with the version that a comparison has read *)
InsertRun(h) ==
  /\ Committed(h, "run")
  /\ Exists(about[h]) /\ (got[h] # None => "run_version" \in schema)
  /\ runs' = [runs EXCEPT ![h] =
       [pipeline |-> about[h], version |-> got[h]]]
  /\ Forget(h)
  /\ UNCHANGED <<startVars, config, version, archived, history, lock>>

(* A command raises, or the process ends, which undoes the transaction.    *)
Abort(h) ==
  /\ at[h] \in {"insert", "update", "seed", "run"}
  /\ at' = [at EXCEPT ![h] = "error"]
  /\ Unlock(h)
  /\ Forget(h)
  /\ UNCHANGED <<startVars, rows>>

Handle(h) ==
  \/ CreateCheck(h) \/ CreateFails(h) \/ CreateCommit(h)
  \/ UpdateRead(h) \/ UpdateLock(h) \/ UpdateFails(h) \/ UpdateCommit(h)
  \/ Delete(h) \/ Query(h) \/ Seed(h) \/ CompareRead(h) \/ InsertRun(h) \/ Abort(h)

Next ==
  \/ StartNext /\ UNCHANGED <<rows, requests>>
  \/ \E h \in Requests : Handle(h)

Spec == Init /\ [][Next]_vars

-----------------------------------------------------------------------------
(* Properties *)

(* The types of the tables, and of what each request holds *)
TypeOK ==
  /\ StartTypeOK
  /\ config \in [Pipelines -> Writers \cup {None}]
  /\ version \in [Pipelines -> Nat \ {0}]
  /\ archived \subseteq Pipelines
  /\ history \subseteq Pipelines \X Nat \X Writers
  /\ runs \in [Runners ->
       [pipeline : Pipelines, version : Nat \cup {None}] \cup {None}]
  /\ lock \in [Pipelines -> Updaters \cup {None}]
  /\ at \in [Requests -> {"idle", "insert", "update", "seed", "run", "done", "refused", "error"}]
  /\ about \in [Requests -> Pipelines \cup {None}]
  /\ got \in [Requests -> Nat \cup {None}]

(* Every version of a pipeline has exactly one configuration in the         *)
(* history, the current version the current one, although versions are read *)
(* without a lock.  Only version 1 of a pipeline that a query seeded has    *)
(* none.  A run of a comparison has a version its pipeline has or had.      *)
First(p) == IF p \in Creators THEN 1 ELSE 2
VersionsHaveConfigs ==
  /\ \A p \in Pipelines : Exists(p) =>
       /\ \A v \in First(p)..version[p] : \E w \in Writers :
            \A x \in Writers : <<p, v, x>> \in history <=> x = w
       /\ version[p] >= First(p) => <<p, version[p], config[p]>> \in history
  /\ \A h \in Runners : runs[h] # None /\ runs[h].version # None =>
       runs[h].version \in 1..version[runs[h].pipeline]

(* Whoever created or updated a pipeline and was told so finds the          *)
(* configuration in the history, under the version of the answer, whoever   *)
(* updates or archives the pipeline at the same time, and however often the *)
(* processes restart and alter the tables.                                  *)
UpdatesKept ==
  /\ \A c \in Creators : at[c] = "done" => <<c, 1, c>> \in history
  /\ \A u \in Updaters : at[u] = "done" => <<about[u], got[u] + 1, u>> \in history
=============================================================================
