---------------------------- MODULE VersionsProofs -----------------------------
(***************************************************************************)
(* Proofs about Startup and PipelineVersions, for every number of          *)
(* processes and requests and for every assignment of names.               *)
(***************************************************************************)
EXTENDS PipelineVersions, TLAPS

-----------------------------------------------------------------------------
(* The parts of the inductive invariant *)

(* What a startup has added when it is in a phase *)
Added(ph) ==
  IF ph = "version" THEN {"metadata"}
  ELSE IF ph = "status" THEN {"metadata", "version"}
  ELSE IF ph = "pipeline_versions" THEN {"metadata", "version", "status"}
  ELSE IF ph = "run_version" THEN {"metadata", "version", "status", "pipeline_versions"}
  ELSE IF ph \in {"check", "apply", "serving"} THEN Additions
  ELSE {}

(* A process has made the additions before its phase, or is excused, and    *)
(* serves on the base schema.                                               *)
PhaseInv ==
  \A p \in Replicas :
    /\ p \in early \cup spoiled \/ Added(phase[p]) \subseteq schema
    /\ phase[p] = "serving" => "base" \in schema

(* Without a fault a process loses the race for the database `mlflow' once. *)
RaceInv ==
  faults = 0 => \A p \in Replicas :
    failed[p] # 0 => failed[p] = 1 /\ phase[p] = "find" /\ mlflow

(* Without a fault nobody gives up before the base schema exists, and then  *)
(* one process, the one that applied it, does not.                          *)
BaseInv ==
  faults = 0 /\ Replicas # {} =>
    IF "base" \in schema THEN \E p \in Replicas : phase[p] \notin {"apply", "failed"}
    ELSE \A p \in Replicas : phase[p] # "failed"

(* Where a request is tells what it is and what it knows. *)
LocalInv ==
  \A h \in Requests :
    /\ at[h] = "update" => h \in Updaters
    /\ at[h] = "insert" => h \in Creators \cup Updaters
    /\ at[h] \in {"seed", "run"} => h \in Runners /\ about[h] \in Pipelines
    /\ h \in Updaters /\ at[h] \in {"update", "insert"} =>
         about[h] \in Pipelines /\ got[h] \in Nat
    /\ at[h] = "seed" => about[h] \in Unknown
    /\ at[h] \in {"idle", "seed"} => got[h] = None

(* Only what was read of a pipeline that exists is written to it: a version *)
(* that it has or had.                                                      *)
ReadInv ==
  \A h \in Requests :
    /\ h \in Updaters /\ at[h] \in {"update", "insert"} =>
         Exists(about[h]) /\ 1 <= got[h] /\ got[h] <= version[about[h]]
    /\ at[h] = "run" /\ got[h] # None => got[h] \in 1..version[about[h]]
    /\ h \in Creators /\ at[h] \in {"idle", "insert"} => ~Exists(h)

(* The history has no version beyond the current one, and none of pipelines *)
(* that do not exist.                                                       *)
HistoryInv ==
  \A p \in Pipelines :
    /\ ~Exists(p) => version[p] = 1
    /\ \A v \in Nat, w \in Writers :
         <<p, v, w>> \in history => Exists(p) /\ First(p) <= v /\ v <= version[p]

-----------------------------------------------------------------------------
(* What follows each addition, and what it has added *)
LEMMA Followed ==
  ASSUME NEW ph \in Additions
  PROVE  /\ Following[ph] \in Phases /\ Skipping(ph) \in Phases
         /\ Following[ph] \notin {"failed", "apply", "serving"}
         /\ Added(Following[ph]) \subseteq Added(ph) \cup {ph}
         /\ Skipping(ph) \notin {"failed", "apply", "serving"}
<1>1. CASE ph = "metadata"
  BY <1>1 DEF Following, Skipping, Phases, Additions, Added
<1>2. CASE ph = "version"
  BY <1>2 DEF Following, Skipping, Phases, Additions, Added
<1>3. CASE ph = "status"
  BY <1>3 DEF Following, Skipping, Phases, Additions, Added
<1>4. CASE ph = "pipeline_versions"
  BY <1>4 DEF Following, Skipping, Phases, Additions, Added
<1>5. CASE ph = "run_version"
  BY <1>5 DEF Following, Skipping, Phases, Additions, Added
<1>6. QED
  BY <1>1, <1>2, <1>3, <1>4, <1>5 DEF Additions

(* A request does not touch what the startup is about. *)
LEMMA RequestsApart ==
  ASSUME NEW h \in Requests, Handle(h)
  PROVE  UNCHANGED startVars
BY DEF Handle, CreateCheck, CreateFails, CreateCommit, UpdateRead, UpdateLock, UpdateFails,
       UpdateCommit, Delete, Query, Seed, CompareRead, InsertRun, Abort, startVars

(* Every process makes its additions in order. *)
LEMMA PhaseStep ==
  ASSUME StartTypeOK, PhaseInv, [Next]_vars
  PROVE  PhaseInv'
<1> USE DEF PhaseInv, StartTypeOK
<1>1. CASE UNCHANGED vars
  BY <1>1 DEF vars, startVars, rows, requests, Exists, Serving
<1>2. ASSUME NEW p \in Replicas, UNCHANGED <<rows, requests>>,
   Boot(p) \/ FindMlflow(p) \/ CreateMlflow(p) \/ Unreachable(p) \/ InitPool(p) \/ Ensure(p) \/
             EnsureFails(p) \/ Check(p) \/ CheckFails(p) \/ Apply(p) \/ ApplyFails(p) \/ Restart(p)
      PROVE  PhaseInv'
  <2>1. CASE Boot(p)
    BY <2>1, <1>2 DEF Boot, Enters, Proceeds, NoHistory, Fault, Added, Additions
  <2>2. CASE FindMlflow(p)
    BY <2>2, <1>2 DEF FindMlflow, Enters, Proceeds, NoHistory, Fault, Added, Additions
  <2>3. CASE CreateMlflow(p)
    BY <2>3, <1>2 DEF CreateMlflow, Enters, Proceeds, NoHistory, Fault, Retry, Added,
       Additions
  <2>4. CASE Unreachable(p)
    BY <2>4, <1>2 DEF Unreachable, Enters, Proceeds, NoHistory, Fault, Retry, Added,
       Additions
  <2>5. CASE InitPool(p)
    BY <2>5, <1>2 DEF InitPool, Enters, Proceeds, NoHistory, Fault, Added, Additions
  <2>6. CASE Ensure(p)
    BY <2>6, <1>2, Followed DEF Ensure, Enters, Proceeds, NoHistory, Fault
  <2>7. CASE EnsureFails(p)
    BY <2>7, <1>2, Followed DEF EnsureFails, Enters, Proceeds, NoHistory, Fault
  <2>8. CASE Check(p)
    BY <2>8, <1>2 DEF Check, Enters, Proceeds, NoHistory, Fault, Added, Additions
  <2>9. CASE CheckFails(p)
    BY <2>9, <1>2 DEF CheckFails, Enters, Proceeds, NoHistory, Fault, Added, Additions
  <2>10. CASE Apply(p)
    BY <2>10, <1>2 DEF Apply, Enters, Proceeds, NoHistory, Fault, Added, Additions
  <2>11. CASE ApplyFails(p)
    BY <2>11, <1>2 DEF ApplyFails, Enters, Proceeds, NoHistory, Fault, Added, Additions
  <2>12. CASE Restart(p)
    BY <2>12, <1>2 DEF Restart, Enters, Proceeds, NoHistory, Fault, Added, Additions
  <2>13. QED
    BY <1>2, <2>1, <2>2, <2>3, <2>4, <2>5, <2>6, <2>7, <2>8, <2>9, <2>10, <2>11, <2>12
<1>3. ASSUME NEW h \in Requests, Handle(h)
      PROVE  PhaseInv'
  BY <1>3, RequestsApart DEF startVars, Added
<1>4. QED
  BY <1>1, <1>2, <1>3 DEF Next, StartNext

(* A race is lost once. *)
LEMMA RaceStep ==
  ASSUME StartTypeOK, RaceInv, [Next]_vars
  PROVE  RaceInv'
<1> USE StartupAssumption DEF RaceInv, StartTypeOK
<1>1. CASE UNCHANGED vars
  BY <1>1 DEF vars, startVars, rows, requests, Exists, Serving
<1>2. ASSUME NEW p \in Replicas, UNCHANGED <<rows, requests>>,
   Boot(p) \/ FindMlflow(p) \/ CreateMlflow(p) \/ Unreachable(p) \/ InitPool(p) \/ Ensure(p) \/
             EnsureFails(p) \/ Check(p) \/ CheckFails(p) \/ Apply(p) \/ ApplyFails(p) \/ Restart(p)
      PROVE  RaceInv'
  <2>1. CASE Boot(p)
    BY <2>1, <1>2 DEF Boot, Enters, Proceeds, NoHistory, Fault, Retry, Additions
  <2>2. CASE FindMlflow(p)
    BY <2>2, <1>2 DEF FindMlflow, Enters, Proceeds, NoHistory, Fault, Retry, Additions
  <2>3. CASE CreateMlflow(p)
    BY <2>3, <1>2 DEF CreateMlflow, Enters, Proceeds, NoHistory, Fault, Retry, Additions
  <2>4. CASE Unreachable(p)
    BY <2>4, <1>2 DEF Unreachable, Enters, Proceeds, NoHistory, Fault, Retry, Additions
  <2>5. CASE InitPool(p)
    BY <2>5, <1>2 DEF InitPool, Enters, Proceeds, NoHistory, Fault, Retry, Additions
  <2>6. CASE Ensure(p)
    BY <2>6, <1>2 DEF Ensure, Enters, Proceeds, NoHistory, Fault, Retry, Additions
  <2>7. CASE EnsureFails(p)
    BY <2>7, <1>2 DEF EnsureFails, Enters, Proceeds, NoHistory, Fault, Retry, Additions
  <2>8. CASE Check(p)
    BY <2>8, <1>2 DEF Check, Enters, Proceeds, NoHistory, Fault, Retry, Additions
  <2>9. CASE CheckFails(p)
    BY <2>9, <1>2 DEF CheckFails, Enters, Proceeds, NoHistory, Fault, Retry, Additions
  <2>10. CASE Apply(p)
    BY <2>10, <1>2 DEF Apply, Enters, Proceeds, NoHistory, Fault, Retry, Additions
  <2>11. CASE ApplyFails(p)
    BY <2>11, <1>2 DEF ApplyFails, Enters, Proceeds, NoHistory, Fault, Retry, Additions
  <2>12. CASE Restart(p)
    BY <2>12, <1>2 DEF Restart, Enters, Proceeds, NoHistory, Fault, Retry, Additions
  <2>13. QED
    BY <1>2, <2>1, <2>2, <2>3, <2>4, <2>5, <2>6, <2>7, <2>8, <2>9, <2>10, <2>11, <2>12
<1>3. ASSUME NEW h \in Requests, Handle(h)
      PROVE  RaceInv'
  BY <1>3, RequestsApart DEF startVars
<1>4. QED
  BY <1>1, <1>2, <1>3 DEF Next, StartNext

(* Not all give up. *)
LEMMA BaseStep ==
  ASSUME StartTypeOK, PhaseInv, RaceInv, BaseInv, [Next]_vars
  PROVE  BaseInv'
<1> USE StartupAssumption DEF BaseInv, StartTypeOK
<1>1. CASE UNCHANGED vars
  BY <1>1 DEF vars, startVars, rows, requests, Exists, Serving
<1>2. ASSUME NEW p \in Replicas, UNCHANGED <<rows, requests>>,
   Boot(p) \/ FindMlflow(p) \/ CreateMlflow(p) \/ Unreachable(p) \/ InitPool(p) \/ Ensure(p) \/
             EnsureFails(p) \/ Check(p) \/ CheckFails(p) \/ Apply(p) \/ ApplyFails(p) \/ Restart(p)
      PROVE  BaseInv'
  <2>1. CASE Boot(p)
    BY <2>1, <1>2 DEF Boot, Enters, Proceeds, NoHistory, Fault, Additions
  <2>2. CASE FindMlflow(p)
    BY <2>2, <1>2 DEF FindMlflow, Enters, Proceeds, NoHistory, Fault, Additions
  <2>3. CASE CreateMlflow(p)
    BY <2>3, <1>2 DEF CreateMlflow, Enters, Proceeds, NoHistory, Fault, Retry, RaceInv
  <2>4. CASE Unreachable(p)
    BY <2>4, <1>2 DEF Unreachable, Enters, Proceeds, NoHistory, Fault, Retry, RaceInv
  <2>5. CASE InitPool(p)
    BY <2>5, <1>2 DEF InitPool, Enters, Proceeds, NoHistory, Fault, Additions
  <2>6. CASE Ensure(p)
    BY <2>6, <1>2, Followed DEF Ensure, Enters, Proceeds, NoHistory, Fault, Additions
  <2>7. CASE EnsureFails(p)
    BY <2>7, <1>2, Followed DEF EnsureFails, Enters, Proceeds, NoHistory, Fault,
       Additions
  <2>8. CASE Check(p)
    BY <2>8, <1>2 DEF Check, Enters, Proceeds, NoHistory, Fault, Additions
  <2>9. CASE CheckFails(p)
    BY <2>9, <1>2 DEF CheckFails, Enters, Proceeds, NoHistory, Fault, Additions
  <2>10. CASE Apply(p)
    BY <2>10, <1>2 DEF Apply, Enters, Proceeds, NoHistory, Fault, Additions
  <2>11. CASE ApplyFails(p)
    BY <2>11, <1>2 DEF ApplyFails, Enters, Proceeds, NoHistory, Fault, Additions
  <2>12. CASE Restart(p)
    BY <2>12, <1>2 DEF Restart, Enters, Proceeds, NoHistory, Fault, Additions
  <2>13. QED
    BY <1>2, <2>1, <2>2, <2>3, <2>4, <2>5, <2>6, <2>7, <2>8, <2>9, <2>10, <2>11, <2>12
<1>3. ASSUME NEW h \in Requests, Handle(h)
      PROVE  BaseInv'
  BY <1>3, RequestsApart DEF startVars
<1>4. QED
  BY <1>1, <1>2, <1>3 DEF Next, StartNext

(* The types of the startup *)
LEMMA StartTypeStep ==
  ASSUME StartTypeOK, [Next]_vars
  PROVE  StartTypeOK'
<1> USE StartupAssumption DEF StartTypeOK
<1>1. CASE UNCHANGED vars
  BY <1>1 DEF vars, startVars, rows, requests, Exists, Serving
<1>2. ASSUME NEW p \in Replicas, UNCHANGED <<rows, requests>>,
   Boot(p) \/ FindMlflow(p) \/ CreateMlflow(p) \/ Unreachable(p) \/ InitPool(p) \/ Ensure(p) \/
             EnsureFails(p) \/ Check(p) \/ CheckFails(p) \/ Apply(p) \/ ApplyFails(p) \/ Restart(p)
      PROVE  StartTypeOK'
  <2>1. CASE Boot(p)
    BY <2>1, <1>2 DEF Boot, Enters, Proceeds, NoHistory, Fault, Phases, Parts
  <2>2. CASE FindMlflow(p)
    BY <2>2, <1>2 DEF FindMlflow, Enters, Proceeds, NoHistory, Fault, Phases, Parts
  <2>3. CASE CreateMlflow(p)
    BY <2>3, <1>2 DEF CreateMlflow, Enters, Proceeds, NoHistory, Fault, Retry, Phases
  <2>4. CASE Unreachable(p)
    <3>1. /\ mlflow' \in BOOLEAN /\ faults' = faults + 1 /\ restarts + faults < MaxTroubles
          /\ UNCHANGED <<early, spoiled, restarts, schema>>
      BY <2>4 DEF Unreachable, NoHistory, Fault
    <3>2. /\ \E ph \in Phases : phase' = [phase EXCEPT ![p] = ph]
          /\ \E n \in 0..Attempts : failed' = [failed EXCEPT ![p] = n]
      BY <2>4 DEF Unreachable, Retry, Enters, Phases
    <3>3. phase' \in [Replicas -> Phases] /\ failed' \in [Replicas -> 0..Attempts]
      BY <3>2
    <3>4. QED
      BY <3>1, <3>3
  <2>5. CASE InitPool(p)
    BY <2>5, <1>2 DEF InitPool, Enters, Proceeds, NoHistory, Fault, Phases, Additions
  <2>6. CASE Ensure(p)
    <3>1. phase[p] \in Additions /\ phase[p] \in Parts
      BY <2>6 DEF Ensure, Parts
    <3>2. schema' \subseteq Parts
      BY <2>6, <3>1 DEF Ensure
    <3>3. phase' \in [Replicas -> Phases]
      <4>1. \E ph \in Phases : phase' = [phase EXCEPT ![p] = ph]
        BY <2>6, <3>1, Followed DEF Ensure, Enters
      <4>2. QED
        BY <4>1
    <3>4. QED
      BY <2>6, <3>2, <3>3 DEF Ensure, Fault
  <2>7. CASE EnsureFails(p)
    <3>1. phase[p] \in Additions /\ phase[p] \in Parts
      BY <2>7 DEF EnsureFails, Parts
    <3>2. schema' \subseteq Parts
      BY <2>7, <3>1 DEF EnsureFails
    <3>3. phase' \in [Replicas -> Phases]
      <4>1. \E ph \in Phases : phase' = [phase EXCEPT ![p] = ph]
        BY <2>7, <3>1, Followed DEF EnsureFails, Enters
      <4>2. QED
        BY <4>1
    <3>4. QED
      BY <2>7, <3>2, <3>3 DEF EnsureFails, Fault
  <2>8. CASE Check(p)
    BY <2>8, <1>2 DEF Check, Enters, Proceeds, NoHistory, Fault, Phases, Parts
  <2>9. CASE CheckFails(p)
    BY <2>9, <1>2 DEF CheckFails, Enters, Proceeds, NoHistory, Fault, Phases, Parts
  <2>10. CASE Apply(p)
    BY <2>10, <1>2 DEF Apply, Enters, Proceeds, NoHistory, Fault, Phases, Parts
  <2>11. CASE ApplyFails(p)
    BY <2>11, <1>2 DEF ApplyFails, Enters, Proceeds, NoHistory, Fault, Phases, Parts
  <2>12. CASE Restart(p)
    BY <2>12, <1>2 DEF Restart, Enters, Proceeds, NoHistory, Fault, Phases, Parts
  <2>13. QED
    BY <1>2, <2>1, <2>2, <2>3, <2>4, <2>5, <2>6, <2>7, <2>8, <2>9, <2>10, <2>11, <2>12
<1>3. ASSUME NEW h \in Requests, Handle(h)
      PROVE  StartTypeOK'
  BY <1>3, RequestsApart DEF startVars
<1>4. QED
  BY <1>1, <1>2, <1>3 DEF Next, StartNext

(* Who writes is no None, and pipelines that were created are not unknown. *)
LEMMA Names ==
  /\ None \notin Writers /\ Pipelines \subseteq Writers /\ Updaters \subseteq Writers
  /\ Creators \cap Unknown = {} /\ Creators \subseteq Pipelines /\ None \notin Nat
  /\ Creators \cap Updaters = {} /\ Runners \cap (Creators \cup Updaters) = {}
  /\ Deleters \cap (Creators \cup Updaters) = {}
  /\ Requests = Creators \cup Updaters \cup Deleters \cup Runners
BY VersionsAssumption DEF Writers, Pipelines, Requests

(* What a request is and holds tells where it is. *)
LEMMA LocalStep ==
  ASSUME TypeOK, LocalInv, [Next]_vars
  PROVE  LocalInv'
<1> USE Names DEF LocalInv, TypeOK
<1>1. CASE UNCHANGED vars
  BY <1>1 DEF vars, startVars, rows, requests, Exists, Serving
<1>2. CASE StartNext /\ UNCHANGED <<rows, requests>>
  BY <1>2 DEF rows, requests, Exists, Serving
<1>3. ASSUME NEW h \in Requests, Handle(h)
      PROVE  LocalInv'
  <2>1. CASE CreateCheck(h)
    BY <2>1 DEF CreateCheck, To, Arrives
  <2>2. CASE CreateFails(h)
    BY <2>2 DEF CreateFails, To
  <2>3. CASE CreateCommit(h)
    BY <2>3 DEF CreateCommit, To, Committed
  <2>4. CASE UpdateRead(h)
    BY <2>4 DEF UpdateRead, To, Arrives, Rejects, Forget
  <2>5. CASE UpdateLock(h)
    BY <2>5 DEF UpdateLock, To
  <2>6. CASE UpdateFails(h)
    BY <2>6 DEF UpdateFails, To
  <2>7. CASE UpdateCommit(h)
    BY <2>7 DEF UpdateCommit, To, Committed
  <2>8. CASE Delete(h)
    BY <2>8 DEF Delete, To
  <2>9. CASE Query(h)
    BY <2>9 DEF Query, To, Arrives, Exists, Pipelines
  <2>10. CASE Seed(h)
    BY <2>10 DEF Seed, To
  <2>11. CASE CompareRead(h)
    BY <2>11 DEF CompareRead, To, Arrives, Rejects
  <2>12. CASE InsertRun(h)
    BY <2>12 DEF InsertRun, To, Committed, Forget
  <2>13. CASE Abort(h)
    BY <2>13 DEF Abort, To, Forget
  <2>14. QED
    BY <1>3, <2>1, <2>2, <2>3, <2>4, <2>5, <2>6, <2>7, <2>8, <2>9, <2>10, <2>11,
       <2>12, <2>13 DEF Handle
<1>4. QED
  BY <1>1, <1>2, <1>3 DEF Next, StartNext

(* What a committed update writes is the version after the current one. *)
LEMMA UpdateWrites ==
  ASSUME TypeOK, LocalInv, ReadInv, HistoryInv, VersionsHaveConfigs,
         NEW u \in Requests, UpdateCommit(u)
  PROVE  /\ u \in Updaters /\ about[u] \in Pipelines /\ Exists(about[u])
         /\ got[u] = version[about[u]] /\ got[u] \in Nat \ {0}
         /\ config' = [config EXCEPT ![about[u]] = u]
         /\ version' = [version EXCEPT ![about[u]] = got[u] + 1]
         /\ history' = history \cup {<<about[u], got[u] + 1, u>>}
         /\ UNCHANGED <<archived, runs, about, got>>
         /\ at[u] = "insert" /\ at' \in {[at EXCEPT ![u] = "done"], [at EXCEPT ![u] = "error"]}
<1>1. u \in Updaters /\ at[u] = "insert" /\ ~Conflict(u)
  BY DEF UpdateCommit, Committed, To
<1>2. /\ about[u] \in Pipelines /\ got[u] \in Nat /\ Exists(about[u])
      /\ 1 <= got[u] /\ got[u] <= version[about[u]] /\ version[about[u]] \in Nat
  BY <1>1 DEF LocalInv, ReadInv, TypeOK
<1>3. got[u] = version[about[u]]
  <2> SUFFICES ASSUME got[u] # version[about[u]]
               PROVE  FALSE
    OBVIOUS
  <2>1. got[u] + 1 \in First(about[u])..version[about[u]]
    BY <1>2 DEF First
  <2>2. \E w \in Writers : <<about[u], got[u] + 1, w>> \in history
    <3>1. PICK w \in Writers :
            \A x \in Writers : <<about[u], got[u] + 1, x>> \in history <=> x = w
      BY <1>2, <2>1 DEF VersionsHaveConfigs
    <3>2. QED
      BY <3>1
  <2>3. QED
    BY <1>1, <2>2 DEF Conflict
<1>4. QED
  BY <1>1, <1>2, <1>3 DEF UpdateCommit, Committed, To

(* A creation writes version 1. *)
LEMMA CreateWrites ==
  ASSUME TypeOK, LocalInv, ReadInv, HistoryInv, NEW c \in Requests, CreateCommit(c)
  PROVE  /\ c \in Creators /\ c \in Pipelines /\ c \in Writers /\ ~Exists(c) /\ version[c] = 1
         /\ config' = [config EXCEPT ![c] = c]
         /\ history' = history \cup {<<c, 1, c>>}
         /\ UNCHANGED <<version, archived, runs, about, got>>
         /\ at[c] = "insert" /\ at' \in {[at EXCEPT ![c] = "done"], [at EXCEPT ![c] = "error"]}
<1>1. c \in Creators /\ at[c] = "insert"
  BY DEF CreateCommit, Committed, To
<1>2. c \in Pipelines /\ c \in Writers /\ ~Exists(c)
  BY <1>1, Names DEF ReadInv, Pipelines
<1>3. QED
  BY <1>1, <1>2 DEF CreateCommit, Committed, To, HistoryInv

(* A query seeds what does not exist, and has no version then. *)
LEMMA SeedWrites ==
  ASSUME TypeOK, LocalInv, NEW q \in Requests, Seed(q)
  PROVE  /\ UNCHANGED <<version, archived, history, runs, about, got>>
         /\ at[q] = "seed" /\ q \in Runners /\ at' = [at EXCEPT ![q] = "run"]
         /\ about[q] \in Unknown /\ about[q] \in Pipelines /\ about[q] \in Writers
         /\ \/ config' = config
            \/ ~Exists(about[q]) /\ config' = [config EXCEPT ![about[q]] = about[q]]
BY Names DEF Seed, To, LocalInv, Pipelines

(* Nobody else writes. *)
LEMMA OthersRead ==
  ASSUME NEW h \in Requests, Handle(h)
  PROVE  CreateCommit(h) \/ UpdateCommit(h) \/ Seed(h) \/ UNCHANGED <<config, version, history>>
BY DEF Handle, CreateCheck, CreateFails, UpdateRead, UpdateLock, UpdateFails, Delete, Query,
       CompareRead, InsertRun, Abort, rows

(* The history stays below the current versions. *)
LEMMA HistoryStep ==
  ASSUME TypeOK, LocalInv, ReadInv, HistoryInv, VersionsHaveConfigs, [Next]_vars
  PROVE  HistoryInv'
<1> USE Names DEF HistoryInv, Exists
<1>1. CASE UNCHANGED vars
  BY <1>1 DEF vars, rows, requests, Exists
<1>2. CASE StartNext /\ UNCHANGED <<rows, requests>>
  BY <1>2 DEF rows, requests, Exists
<1>3. ASSUME NEW h \in Requests, Handle(h)
      PROVE  HistoryInv'
  <2>1. CASE CreateCommit(h)
    BY <2>1, CreateWrites DEF First, TypeOK
  <2>2. CASE UpdateCommit(h)
    BY <2>2, UpdateWrites DEF First, TypeOK
  <2>3. CASE Seed(h)
    BY <2>3, SeedWrites DEF TypeOK
  <2>4. CASE UNCHANGED <<config, version, history>>
    BY <2>4
  <2>5. QED
    BY <1>3, <2>1, <2>2, <2>3, <2>4, OthersRead
<1>4. QED
  BY <1>1, <1>2, <1>3 DEF Next

(* Pipelines stay, and their versions grow. *)
LEMMA PipelinesStay ==
  ASSUME TypeOK, LocalInv, ReadInv, HistoryInv, VersionsHaveConfigs, NEW h \in Requests, Handle(h)
  PROVE  /\ \A p \in Pipelines : /\ Exists(p) => Exists(p)'
                                 /\ version[p] \in Nat /\ version'[p] \in Nat
                                 /\ version[p] <= version'[p]
         /\ \A p \in Creators \ {h} : Exists(p)' => Exists(p)
         /\ history \subseteq history'
<1>1. CASE CreateCommit(h)
  BY <1>1, CreateWrites, Names DEF Exists, TypeOK
<1>2. CASE UpdateCommit(h)
  BY <1>2, UpdateWrites, Names DEF Exists, TypeOK
<1>3. CASE Seed(h)
  BY <1>3, SeedWrites, Names DEF Exists, TypeOK
<1>4. CASE UNCHANGED <<config, version, history>>
  BY <1>4 DEF Exists, TypeOK
<1>5. QED
  BY <1>1, <1>2, <1>3, <1>4, OthersRead

(* What was read stays true enough. *)
LEMMA ReadStep ==
  ASSUME TypeOK, LocalInv, HistoryInv, VersionsHaveConfigs, ReadInv, [Next]_vars
  PROVE  ReadInv'
<1> USE Names DEF ReadInv, LocalInv, TypeOK
<1>1. CASE UNCHANGED vars
  BY <1>1 DEF vars, startVars, rows, requests, Exists, Serving
<1>2. CASE StartNext /\ UNCHANGED <<rows, requests>>
  BY <1>2 DEF rows, requests, Exists, Serving
<1>3. ASSUME NEW h \in Requests, Handle(h)
      PROVE  ReadInv'
  <2>1. CASE CreateCheck(h)
    BY <2>1, PipelinesStay, <1>3 DEF CreateCheck, To, rows, Arrives, Exists
  <2>2. CASE CreateFails(h)
    BY <2>2, PipelinesStay, <1>3 DEF CreateFails, To, rows
  <2>3. CASE CreateCommit(h)
    BY <2>3, PipelinesStay, <1>3 DEF CreateCommit, To, rows, Committed
  <2>4. CASE UpdateRead(h)
    BY <2>4, PipelinesStay, <1>3 DEF UpdateRead, To, rows, Arrives, Rejects, Exists,
       Versioned, UpdateRefused
  <2>5. CASE UpdateLock(h)
    BY <2>5, PipelinesStay, <1>3 DEF UpdateLock, To, rows
  <2>6. CASE UpdateFails(h)
    BY <2>6, PipelinesStay, <1>3 DEF UpdateFails, To, rows
  <2>7. CASE UpdateCommit(h)
    BY <2>7, PipelinesStay, <1>3 DEF UpdateCommit, To, rows, Committed
  <2>8. CASE Delete(h)
    BY <2>8, PipelinesStay, <1>3 DEF Delete, To, rows
  <2>9. CASE Query(h)
    BY <2>9, PipelinesStay, <1>3 DEF Query, To, rows, Arrives, Pipelines
  <2>10. CASE Seed(h)
    BY <2>10, PipelinesStay, <1>3 DEF Seed, To, rows
  <2>11. CASE CompareRead(h)
    BY <2>11, PipelinesStay, <1>3 DEF CompareRead, To, rows, Arrives, Rejects
  <2>12. CASE InsertRun(h)
    BY <2>12, PipelinesStay, <1>3 DEF InsertRun, To, rows, Committed, Forget
  <2>13. CASE Abort(h)
    BY <2>13, PipelinesStay, <1>3 DEF Abort, To, rows, Forget
  <2>14. QED
    BY <1>3, <2>1, <2>2, <2>3, <2>4, <2>5, <2>6, <2>7, <2>8, <2>9, <2>10, <2>11,
       <2>12, <2>13 DEF Handle
<1>4. QED
  BY <1>1, <1>2, <1>3 DEF Next, StartNext

(* A history entry stands for the version it names only: what is in the     *)
(* history, after a write of a pipeline, of each version of it.             *)
LEMMA ConfigsWritten ==
  ASSUME TypeOK, LocalInv, ReadInv, HistoryInv, VersionsHaveConfigs, HistoryInv',
         NEW h \in Requests, CreateCommit(h) \/ UpdateCommit(h), NEW p \in Pipelines, Exists(p)'
  PROVE  /\ \A v \in First(p)..version'[p] : \E w \in Writers :
              \A x \in Writers : <<p, v, x>> \in history' <=> x = w
         /\ version'[p] >= First(p) => <<p, version'[p], config'[p]>> \in history'
<1>0. version[p] \in Nat /\ version \in [Pipelines -> Nat \ {0}]
  BY DEF TypeOK
<1>1. CASE CreateCommit(h)
  <2>1. CASE p = h
    <3>1. version'[p] = 1 /\ First(p) = 1 /\ config'[p] = h
      BY <1>1, <2>1, CreateWrites DEF First, TypeOK
    <3>2. \A x \in Writers : <<p, 1, x>> \in history' <=> x = h
      BY <1>1, <2>1, CreateWrites DEF HistoryInv
    <3>3. \A v \in First(p)..version'[p] : v = 1
      BY <3>1
    <3>4. QED
      BY <1>1, <2>1, <3>1, <3>2, <3>3, CreateWrites
  <2>2. CASE p # h
    <3>1. /\ version' = version /\ config'[p] = config[p] /\ Exists(p)
          /\ \A v, x : <<p, v, x>> \in history' <=> <<p, v, x>> \in history
      BY <1>1, <2>2, CreateWrites DEF Exists, TypeOK
    <3>2. QED
      BY <3>1 DEF VersionsHaveConfigs
  <2>3. QED
    BY <2>1, <2>2
<1>2. CASE UpdateCommit(h)
  <2>1. CASE p = about[h]
    <3>1. /\ version'[p] = version[p] + 1 /\ config'[p] = h /\ Exists(p) /\ h \in Writers
          /\ got[h] = version[p] /\ <<p, version[p] + 1, h>> \in history'
      BY <1>0, <1>2, <2>1, UpdateWrites, Names DEF TypeOK
    <3>2. \A x \in Writers : <<p, version[p] + 1, x>> \in history' <=> x = h
      <4>1. \A x \in Writers : <<p, version[p] + 1, x>> \notin history
        BY <1>0 DEF HistoryInv
      <4>2. QED
        BY <1>2, <2>1, <3>1, <4>1, UpdateWrites
    <3>3. ASSUME NEW v \in First(p)..version[p]
          PROVE  \E w \in Writers : \A x \in Writers : <<p, v, x>> \in history' <=> x = w
      <4>1. v # version[p] + 1 /\ v \in Nat
        BY <1>0 DEF First
      <4>2. \A x : <<p, v, x>> \in history' <=> <<p, v, x>> \in history
        BY <1>2, <2>1, <3>1, <4>1, UpdateWrites
      <4>3. PICK w \in Writers : \A x \in Writers : <<p, v, x>> \in history <=> x = w
        BY <3>1 DEF VersionsHaveConfigs
      <4>4. QED
        BY <4>2, <4>3
    <3>4. \A v \in First(p)..version'[p] : v \in First(p)..version[p] \/ v = version[p] + 1
      BY <1>0, <3>1 DEF First
    <3>5. QED
      BY <3>1, <3>2, <3>3, <3>4
  <2>2. CASE p # about[h]
    <3>1. /\ version'[p] = version[p] /\ config'[p] = config[p] /\ Exists(p)
          /\ \A v, x : <<p, v, x>> \in history' <=> <<p, v, x>> \in history
      BY <1>0, <1>2, <2>2, UpdateWrites DEF Exists, TypeOK
    <3>2. QED
      BY <3>1 DEF VersionsHaveConfigs
  <2>3. QED
    BY <2>1, <2>2
<1>3. QED
  BY <1>1, <1>2

(* A run takes the version that was read. *)
LEMMA RunsWritten ==
  ASSUME TypeOK, LocalInv, ReadInv, HistoryInv, VersionsHaveConfigs,
         NEW h \in Requests, Handle(h), NEW r \in Runners, runs'[r] # None, runs'[r].version # None
  PROVE  runs'[r].version \in 1..version'[runs'[r].pipeline]
<1>1. CASE runs'[r] = runs[r]
  <2>1. runs[r].version \in 1..version[runs[r].pipeline] /\ runs[r].pipeline \in Pipelines
    BY <1>1 DEF VersionsHaveConfigs, TypeOK
  <2>2. QED
    BY <1>1, <2>1, PipelinesStay
<1>2. CASE InsertRun(h)
  <2>1. CASE r = h
    <3>1. /\ runs'[r] = [pipeline |-> about[h], version |-> got[h]] /\ at[h] = "run"
          /\ version' = version
      BY <1>2, <2>1 DEF InsertRun, Committed, To, TypeOK
    <3>2. QED
      BY <3>1 DEF ReadInv
  <2>2. CASE r # h
    BY <1>1, <1>2, <2>2 DEF InsertRun, TypeOK
  <2>3. QED
    BY <2>1, <2>2
<1>3. QED
  BY <1>1, <1>2 DEF Handle, CreateCheck, CreateFails, CreateCommit, UpdateRead, UpdateLock,
     UpdateFails,
       UpdateCommit, Delete, Query, Seed, CompareRead, Abort, rows

(* Every version keeps its configuration, and the current one is current. *)
LEMMA ConfigsStep ==
  ASSUME TypeOK, LocalInv, ReadInv, HistoryInv, VersionsHaveConfigs, HistoryInv', [Next]_vars
  PROVE  VersionsHaveConfigs'
<1>1. CASE UNCHANGED <<rows, requests>>
  BY <1>1 DEF rows, requests, Exists, VersionsHaveConfigs
<1>2. ASSUME NEW h \in Requests, Handle(h)
      PROVE  VersionsHaveConfigs'
  <2>1. ASSUME NEW p \in Pipelines, Exists(p)'
        PROVE  /\ \A v \in First(p)..version'[p] : \E w \in Writers :
                    \A x \in Writers : <<p, v, x>> \in history' <=> x = w
               /\ version'[p] >= First(p) => <<p, version'[p], config'[p]>> \in history'
    <3>1. CASE CreateCommit(h) \/ UpdateCommit(h)
      BY <2>1, <3>1, ConfigsWritten
    <3>2. CASE UNCHANGED <<config, version, history>>
      BY <2>1, <3>2 DEF Exists, VersionsHaveConfigs
    <3>3. CASE Seed(h) /\ Exists(p)
      BY <2>1, <3>3, SeedWrites DEF Exists, VersionsHaveConfigs, TypeOK
    <3>4. CASE Seed(h) /\ ~Exists(p)
      <4>1. p \in Unknown /\ version'[p] = 1
        BY <2>1, <3>4, SeedWrites DEF Exists, HistoryInv, TypeOK
      <4>2. First(p) = 2
        BY <4>1, Names DEF First
      <4>3. QED
        BY <4>1, <4>2
    <3>5. QED
      BY <1>2, <3>1, <3>2, <3>3, <3>4, OthersRead
  <2>2. \A r \in Runners : runs'[r] # None /\ runs'[r].version # None =>
          runs'[r].version \in 1..version'[runs'[r].pipeline]
    BY <1>2, RunsWritten
  <2>3. QED
    BY <2>1, <2>2 DEF VersionsHaveConfigs, First
<1>3. QED
  BY <1>1, <1>2 DEF Next, vars

(* What was answered is in the history. *)
LEMMA KeptStep ==
  ASSUME TypeOK, LocalInv, ReadInv, HistoryInv, VersionsHaveConfigs, UpdatesKept,
     [Next]_vars
  PROVE  UpdatesKept'
<1> USE Names DEF UpdatesKept, LocalInv, TypeOK
<1>1. CASE UNCHANGED vars
  BY <1>1 DEF vars, startVars, rows, requests, Exists, Serving
<1>2. CASE StartNext /\ UNCHANGED <<rows, requests>>
  BY <1>2 DEF rows, requests
<1>3. ASSUME NEW h \in Requests, Handle(h)
      PROVE  UpdatesKept'
  <2>1. CASE CreateCheck(h)
    BY <2>1, PipelinesStay, <1>3 DEF CreateCheck, To, Arrives
  <2>2. CASE CreateFails(h)
    BY <2>2, PipelinesStay, <1>3 DEF CreateFails, To
  <2>3. CASE CreateCommit(h)
    <3>1. /\ UNCHANGED <<about, got>> /\ history \subseteq history'
          /\ \A g \in Requests \ {h} : at'[g] = at[g]
          /\ <<h, 1, h>> \in history'
      BY <2>3, CreateWrites
    <3>2. h \in Creators /\ h \notin Updaters
      BY <2>3, CreateWrites, Names
    <3>3. QED
      BY <3>1, <3>2, Names
  <2>4. CASE UpdateRead(h)
    BY <2>4, PipelinesStay, <1>3 DEF UpdateRead, To, Arrives, Rejects
  <2>5. CASE UpdateLock(h)
    BY <2>5, PipelinesStay, <1>3 DEF UpdateLock, To
  <2>6. CASE UpdateFails(h)
    BY <2>6, PipelinesStay, <1>3 DEF UpdateFails, To
  <2>7. CASE UpdateCommit(h)
    <3>1. /\ UNCHANGED <<about, got>> /\ history \subseteq history'
          /\ \A g \in Requests \ {h} : at'[g] = at[g]
          /\ <<about[h], got[h] + 1, h>> \in history'
      BY <2>7, UpdateWrites
    <3>2. h \in Updaters /\ h \notin Creators
      BY <2>7, UpdateWrites, Names
    <3>3. QED
      BY <3>1, <3>2, Names
  <2>8. CASE Delete(h)
    BY <2>8, PipelinesStay, <1>3 DEF Delete, To
  <2>9. CASE Query(h)
    BY <2>9, PipelinesStay, <1>3 DEF Query, To, Arrives
  <2>10. CASE Seed(h)
    BY <2>10, PipelinesStay, <1>3 DEF Seed, To
  <2>11. CASE CompareRead(h)
    BY <2>11, PipelinesStay, <1>3 DEF CompareRead, To, Arrives, Rejects
  <2>12. CASE InsertRun(h)
    BY <2>12, PipelinesStay, <1>3 DEF InsertRun, To, Committed, Forget
  <2>13. CASE Abort(h)
    BY <2>13, PipelinesStay, <1>3 DEF Abort, To, Forget
  <2>14. QED
    BY <1>3, <2>1, <2>2, <2>3, <2>4, <2>5, <2>6, <2>7, <2>8, <2>9, <2>10, <2>11,
       <2>12, <2>13 DEF Handle
<1>4. QED
  BY <1>1, <1>2, <1>3 DEF Next, StartNext

(* The types of the pipelines and their versions *)
LEMMA RowTypes ==
  ASSUME TypeOK, LocalInv, ReadInv, HistoryInv, VersionsHaveConfigs, NEW h \in Requests, Handle(h)
  PROVE  /\ config' \in [Pipelines -> Writers \cup {None}]
         /\ version' \in [Pipelines -> Nat \ {0}]
         /\ history' \subseteq Pipelines \X Nat \X Writers
<1> USE Names DEF TypeOK
<1>1. CASE CreateCommit(h)
  <2>1. <<h, 1, h>> \in Pipelines \X Nat \X Writers
    BY <1>1, CreateWrites
  <2>2. QED
    BY <1>1, <2>1, CreateWrites
<1>2. CASE UpdateCommit(h)
  <2>1. <<about[h], got[h] + 1, h>> \in Pipelines \X Nat \X Writers
    BY <1>2, UpdateWrites
  <2>2. got[h] + 1 \in Nat \ {0}
    BY <1>2, UpdateWrites
  <2>3. QED
    BY <1>2, <2>1, <2>2, UpdateWrites
<1>3. CASE Seed(h)
  BY <1>3, SeedWrites
<1>4. CASE UNCHANGED <<config, version, history>>
  BY <1>4
<1>5. QED
  BY <1>1, <1>2, <1>3, <1>4, OthersRead

(* The types of what the requests are and hold *)
LEMMA RequestTypes ==
  ASSUME TypeOK, LocalInv, NEW h \in Requests, Handle(h)
  PROVE  /\ archived' \subseteq Pipelines
         /\ runs' \in [Runners ->
              [pipeline : Pipelines, version : Nat \cup {None}] \cup {None}]
         /\ lock' \in [Pipelines -> Updaters \cup {None}]
         /\ at' \in [Requests -> {"idle", "insert", "update", "seed", "run", "done", "refused", "error"}]
         /\ about' \in [Requests -> Pipelines \cup {None}]
         /\ got' \in [Requests -> Nat \cup {None}]
<1>1. archived' \subseteq Pipelines
  BY DEF Handle, CreateCheck, CreateFails, CreateCommit, UpdateRead, UpdateLock, UpdateFails,
         UpdateCommit, Delete, Query, Seed, CompareRead, InsertRun, Abort, rows, TypeOK
<1>2. runs' \in [Runners -> [pipeline : Pipelines, version : Nat \cup {None}] \cup {None}]
  <2>1. CASE InsertRun(h)
    <3>1. h \in Runners /\ about[h] \in Pipelines /\ got[h] \in Nat \cup {None}
      BY <2>1 DEF InsertRun, Committed, To, LocalInv, TypeOK
    <3>2. runs' = [runs EXCEPT ![h] = [pipeline |-> about[h], version |-> got[h]]]
      BY <2>1 DEF InsertRun
    <3>3. QED
      BY <3>1, <3>2 DEF TypeOK
  <2>2. CASE runs' = runs
    BY <2>2 DEF TypeOK
  <2>3. QED
    BY <2>1, <2>2 DEF Handle, CreateCheck, CreateFails, CreateCommit, UpdateRead, UpdateLock,
       UpdateFails,
         UpdateCommit, Delete, Query, Seed, CompareRead, InsertRun, Abort, rows
<1>3. lock' \in [Pipelines -> Updaters \cup {None}]
  <2>1. CASE UpdateLock(h)
    <3>1. h \in Updaters /\ lock' = [lock EXCEPT ![about[h]] = h]
      BY <2>1 DEF UpdateLock, To, LocalInv
    <3>2. QED
      BY <3>1 DEF TypeOK
  <2>2. CASE Unlock(h)
    BY <2>2 DEF Unlock, TypeOK
  <2>3. CASE lock' = lock
    BY <2>3 DEF TypeOK
  <2>4. QED
    BY <2>1, <2>2, <2>3 DEF Handle, CreateCheck, CreateFails, CreateCommit, UpdateRead,
       UpdateLock, UpdateFails,
         UpdateCommit, Delete, Query, Seed, CompareRead, InsertRun, Abort, rows
<1>4. at' \in [Requests -> {"idle", "insert", "update", "seed", "run", "done", "refused", "error"}]
  <2>1. \E s \in {"insert", "update", "seed", "run", "done", "refused", "error"} :
          at' = [at EXCEPT ![h] = s]
    BY DEF Handle, CreateCheck, CreateFails, CreateCommit, UpdateRead, UpdateLock, UpdateFails,
         UpdateCommit, Delete, Query, Seed, CompareRead, InsertRun, Abort,
         To, Arrives, Rejects, Committed
  <2>2. QED
    BY <2>1 DEF TypeOK
<1>5. about' \in [Requests -> Pipelines \cup {None}]
  <2>1. about' = about \/ \E p \in Pipelines \cup {None} : about' = [about EXCEPT ![h] = p]
    BY DEF Handle, CreateCheck, CreateFails, CreateCommit, UpdateRead, UpdateLock, UpdateFails,
         UpdateCommit, Delete, Query, Seed, CompareRead, InsertRun, Abort,
         Arrives, Rejects, Forget, Pipelines
  <2>2. QED
    BY <2>1 DEF TypeOK
<1>6. got' \in [Requests -> Nat \cup {None}]
  <2>1. got' = got \/ \E n \in Nat \cup {None} : got' = [got EXCEPT ![h] = n]
    <3>1. \A p \in Pipelines : version[p] \in Nat
      BY DEF TypeOK
    <3>2. QED
      BY <3>1 DEF Handle, CreateCheck, CreateFails, CreateCommit, UpdateRead, UpdateLock,
         UpdateFails,
         UpdateCommit, Delete, Query, Seed, CompareRead, InsertRun, Abort,
         Arrives, Rejects, Forget
  <2>2. QED
    BY <2>1 DEF TypeOK
<1>7. QED
  BY <1>1, <1>2, <1>3, <1>4, <1>5, <1>6

(* The types. *)
LEMMA TypeStep ==
  ASSUME TypeOK, LocalInv, ReadInv, HistoryInv, VersionsHaveConfigs, [Next]_vars
  PROVE  TypeOK'
<1>1. StartTypeOK'
  BY StartTypeStep DEF TypeOK
<1>2. CASE UNCHANGED <<rows, requests>>
  BY <1>1, <1>2 DEF TypeOK, rows, requests
<1>3. ASSUME NEW h \in Requests, Handle(h)
      PROVE  TypeOK'
  BY <1>1, <1>3, RowTypes, RequestTypes DEF TypeOK
<1>4. QED
  BY <1>2, <1>3 DEF Next, vars

-----------------------------------------------------------------------------
(* The inductive invariant, and what follows from it *)

IInv ==
  /\ TypeOK /\ PhaseInv /\ RaceInv /\ BaseInv
  /\ LocalInv /\ ReadInv /\ HistoryInv /\ VersionsHaveConfigs /\ UpdatesKept

(* It holds in the initial states. *)
LEMMA IInvInit ==
  ASSUME Init
  PROVE  IInv
<1> USE Names, StartupAssumption DEF Init, StartInit
<1>1. TypeOK
  <2>1. StartTypeOK
    <3>1. 0 \in 0..Attempts /\ 0 + 0 <= MaxTroubles /\ "down" \in Phases
      BY DEF Phases
    <3>2. QED
      BY <3>1 DEF StartTypeOK, Parts
  <2>2. /\ config \in [Pipelines -> Writers \cup {None}]
        /\ version \in [Pipelines -> Nat \ {0}]
        /\ lock \in [Pipelines -> Updaters \cup {None}]
    OBVIOUS
  <2>3. /\ at \in [Requests -> {"idle", "insert", "update", "seed", "run", "done", "refused",
                             "error"}]
        /\ about \in [Requests -> Pipelines \cup {None}]
        /\ got \in [Requests -> Nat \cup {None}]
    OBVIOUS
  <2>4. QED
    BY <2>1, <2>2, <2>3 DEF TypeOK
<1>2. PhaseInv /\ RaceInv /\ BaseInv
  BY DEF PhaseInv, RaceInv, BaseInv, Added, Additions
<1>3. LocalInv /\ UpdatesKept
  BY DEF LocalInv, UpdatesKept, Requests
<1>4. \A p \in Pipelines : ~Exists(p)
  BY DEF Exists
<1>5. ReadInv /\ HistoryInv /\ VersionsHaveConfigs
  BY <1>4 DEF ReadInv, HistoryInv, VersionsHaveConfigs, Requests
<1>6. QED
  BY <1>1, <1>2, <1>3, <1>5 DEF IInv

(* Every step preserves it. *)
LEMMA IInvStep ==
  ASSUME IInv, [Next]_vars
  PROVE  IInv'
<1>1. StartTypeOK
  BY DEF IInv, TypeOK
<1>2. HistoryInv'
  BY HistoryStep DEF IInv
<1>3. QED
  BY <1>1, <1>2, TypeStep, PhaseStep, RaceStep, BaseStep, LocalStep, ReadStep, ConfigsStep,
     KeptStep
     DEF IInv

(* Startups and requests never leave the inductive invariant. *)
THEOREM Invariance == Spec => []IInv
BY IInvInit, IInvStep, PTL DEF Spec

(* The schema, the rows and what each request holds keep their types. *)
THEOREM TypeCorrect == Spec => []TypeOK
<1>1. IInv => TypeOK
  BY DEF IInv
<1>2. QED
  BY <1>1, Invariance, PTL

(* lifespan of main.py: however many processes start together, one that     *)
(* serves has the schema, and without a fault not all of them give up.      *)
THEOREM StartupCorrect == Spec => []SchemaServed
<1>1. IInv => SchemaServed
  <2> SUFFICES ASSUME IInv
               PROVE  SchemaServed
    OBVIOUS
  <2>1. ASSUME NEW p \in Replicas, phase[p] = "serving"
        PROVE  "base" \in schema /\ (p \in early \cup spoiled \/ Additions \subseteq schema)
    BY <2>1 DEF IInv, PhaseInv, Added
  <2>2. ASSUME Replicas # {}, \A p \in Replicas : phase[p] = "failed"
        PROVE  faults > 0
    <3>1. faults # 0
      BY <2>2 DEF IInv, BaseInv
    <3>2. QED
      BY <3>1 DEF IInv, TypeOK, StartTypeOK
  <2>3. QED
    BY <2>1, <2>2 DEF SchemaServed
<1>2. QED
  BY <1>1, Invariance, PTL

(* update_pipeline: every version has its one configuration, the current    *)
(* version the current one, although nobody locks what was read.            *)
THEOREM ConfigsCorrect == Spec => []VersionsHaveConfigs
<1>1. IInv => VersionsHaveConfigs
  BY DEF IInv
<1>2. QED
  BY <1>1, Invariance, PTL

(* What a creation or an update was answered stays in the history. *)
THEOREM UpdatesCorrect == Spec => []UpdatesKept
<1>1. IInv => UpdatesKept
  BY DEF IInv
<1>2. QED
  BY <1>1, Invariance, PTL
=============================================================================
