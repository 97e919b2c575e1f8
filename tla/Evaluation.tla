------------------------------- MODULE Evaluation -------------------------------
(***************************************************************************)
(* The table `evaluations`, written by the judge (evaluation/judge.py) and *)
(* by the rating endpoint (backend/api/query.py), and the training pairs   *)
(* the judge curates.  Both writers look for the evaluation of a run and   *)
(* then update or insert it, in two commands; run_id is not unique.        *)
(*                                                                         *)
(* A row is identified with the judge or the request that inserts it, or   *)
(* with the run it was seeded for: a seeded run (as by the script          *)
(* docs/temp_scratch_scripts/test_finetune.py) comes with an evaluation    *)
(* and a training pair.  Metrics are percentages, and overall scores have  *)
(* the four decimals they are rounded to.  Who calls the judge is outside  *)
(* of this module.                                                         *)
(***************************************************************************)
EXTENDS Integers

CONSTANTS
  Runs,      \* the runs, all of them answered
  Seeded,    \* those seeded with an evaluation and a pair
  Judges,    \* calls of EvaluationJudge.evaluate_run
  Raters,    \* PATCH /runs/{run_id}/rating requests
  Metrics,   \* what the four metrics may give, as quadruples of percentages
  Ratings,   \* the ratings users give
  None,      \* NULL
  Absent     \* no such row

Handlers == Judges \cup Raters
Authors == Handlers \cup Seeded

(* Overall score of faithfulness, relevance, precision and recall *)
Overall(m) == 35 * m[1] + 30 * m[2] + 20 * m[3] + 15 * m[4]

(* The metrics of a run for which one of them raises *)
Fallback == <<50, 50, 50, 50>>
Given == Metrics \cup {Fallback}

(* abs(score - rating / 5.0) > 0.3 in double precision: of the scores at    *)
(* exactly 0.3 from the rating, these come out greater.  The others, 0.5    *)
(* with a rating of 1, 0.7 with 2 and 0.3 with 3, do not.                   *)
RoundedUp == {<<1000, 2>>, <<9000, 3>>, <<5000, 4>>, <<7000, 5>>}
Differs(s, k) ==
  s - 2000 * k > 3000 \/ 2000 * k - s > 3000 \/ <<s, k>> \in RoundedUp

Percentages == 0..100 \cup {None}
Scores == 0..10000 \cup {None}
Rows == [run : Runs, faithfulness : Percentages, score : Scores,
         rating : Ratings \cup {None, 5}, calibrate : BOOLEAN]

ASSUME EvaluationAssumption ==
  /\ Seeded \subseteq Runs
  /\ Judges \cap Raters = {} /\ Handlers \cap Runs = {}
  /\ Metrics \subseteq [1..4 -> 0..100]
  /\ Ratings \subseteq 1..5
  /\ None \notin Int /\ Absent \notin Int /\ None # Absent /\ Absent \notin Rows

VARIABLES
  evaluations,  \* the rows, by author
  pairs,        \* training_pairs, by author
  stage,        \* where each judge and each request is
  target,       \* the run it is about
  found,        \* what it computed or was given: metrics, or a rating
  seen,         \* the column it read from the run's evaluation, or Absent
  crowded       \* history: runs with two handlers between look-up and write

evalVars == <<evaluations, pairs, stage, target, found, seen, crowded>>
locals == <<target, found>>

Row(r, m, s, k, c) ==
  [run |-> r, faithfulness |-> m, score |-> s, rating |-> k, calibrate |-> c]
Pair(r, q) == [run |-> r, quality |-> q, job |-> None]

Init ==
  /\ evaluations = [a \in Authors |->
       IF a \in Seeded THEN Row(a, 95, None, 5, FALSE) ELSE Absent]
  /\ pairs = [a \in Authors |-> IF a \in Seeded THEN Pair(a, 90) ELSE Absent]
  /\ stage = [h \in Handlers |-> "idle"]
  /\ target = [h \in Handlers |-> None]
  /\ found = [h \in Handlers |-> None]
  /\ seen = [h \in Handlers |-> None]
  /\ crowded = {}

Goes(h, from, to) == stage[h] = from /\ stage' = [stage EXCEPT ![h] = to]
RowsOf(r) == {a \in Authors : evaluations[a] # Absent /\ evaluations[a].run = r}

-----------------------------------------------------------------------------
(* A run, or its chunks, that cannot be read ends the call or lowers the   *)
(* metrics; a metric that raises makes all of them 0.5.                    *)
Judge(j) ==
  /\ j \in Judges
  /\ \E r \in Runs, m \in Given :
       /\ target' = [target EXCEPT ![j] = r]
       /\ found' = [found EXCEPT ![j] = m]
  /\ Goes(j, "idle", "look")
  /\ UNCHANGED <<evaluations, pairs, seen, crowded>>

(* The request; the run exists. *)
Rate(u) ==
  /\ u \in Raters
  /\ \E r \in Runs, k \in Ratings :
       /\ target' = [target EXCEPT ![u] = r]
       /\ found' = [found EXCEPT ![u] = k]
  /\ Goes(u, "idle", "look")
  /\ UNCHANGED <<evaluations, pairs, seen, crowded>>

(* SELECT ... WHERE run_id: any one of the run's rows.  The judge takes the *)
(* rating from it, the request the score.                                   *)
Column(h, a) == IF h \in Judges THEN evaluations[a].rating ELSE evaluations[a].score
Writing(h) == stage[h] = "write"
Look(h) ==
  /\ Goes(h, "look", "write")
  /\ \/ RowsOf(target[h]) = {} /\ seen' = [seen EXCEPT ![h] = Absent]
     \/ \E a \in RowsOf(target[h]) : seen' = [seen EXCEPT ![h] = Column(h, a)]
  /\ crowded' = IF \E g \in Handlers : Writing(g) /\ target[g] = target[h]
                  THEN crowded \cup {target[h]} ELSE crowded
  /\ UNCHANGED <<evaluations, pairs, locals>>

(* The flag, computed from the column read before *)
Calibrate(h) ==
  /\ seen[h] \notin {None, Absent}
  /\ IF h \in Judges THEN Differs(Overall(found[h]), seen[h]) ELSE Differs(seen[h], found[h])

(* Mutant of Scored: an earlier flag is left as it is. *)
ScoredOnly(h, e) ==
  [e EXCEPT !.faithfulness = found[h][1], !.score = Overall(found[h])]

(* A row e, when the judge or the request has updated it *)
Scored(h, e) ==
  [e EXCEPT !.faithfulness = found[h][1], !.score = Overall(found[h]),
            !.calibrate = Calibrate(h)]
Rated(h, e) == [e EXCEPT !.rating = found[h], !.calibrate = Calibrate(h)]
Updated(h, e) == IF h \in Judges THEN Scored(h, e) ELSE Rated(h, e)

NewRow(h) ==
  IF h \in Judges
    THEN Row(target[h], found[h][1], Overall(found[h]), None, FALSE)
    ELSE Row(target[h], None, None, found[h], FALSE)

(* UPDATE ... WHERE run_id, if there was a row, or INSERT *)
Save(h) ==
  evaluations' =
    IF seen[h] = Absent
      THEN [evaluations EXCEPT ![h] = NewRow(h)]
      ELSE [a \in Authors |-> IF a \in RowsOf(target[h]) THEN Updated(h, evaluations[a])
                              ELSE evaluations[a]]

(* A judge curates an answer of more than 80%, written or not. *)
Curates(h) == h \in Judges /\ Overall(found[h]) > 8000
After(h) == IF Curates(h) THEN "curate" ELSE "done"

Forget(h) ==
  /\ seen' = [seen EXCEPT ![h] = None]
  /\ found' = [found EXCEPT ![h] = None]
Write(h) ==
  /\ Goes(h, "write", After(h))
  /\ Save(h)
  /\ Forget(h)
  /\ target' = [target EXCEPT ![h] = IF Curates(h) THEN @ ELSE None]
  /\ UNCHANGED <<pairs, crowded>>

(* The command, or the look-up, raises; the write may have taken effect.   *)
WriteUnanswered(h) ==
  /\ \/ Writing(h) /\ Save(h)
     \/ stage[h] \in {"look", "write"} /\ UNCHANGED evaluations
  /\ stage' = [stage EXCEPT ![h] = After(h)]
  /\ Forget(h)
  /\ target' = [target EXCEPT ![h] = IF Curates(h) THEN @ ELSE None]
  /\ UNCHANGED <<pairs, crowded>>

(* INSERT INTO training_pairs, without a quality_score *)
Curate(j) ==
  /\ Goes(j, "curate", "done")
  /\ pairs' = [pairs EXCEPT ![j] = Pair(target[j], None)]
  /\ target' = [target EXCEPT ![j] = None]
  /\ UNCHANGED <<evaluations, found, seen, crowded>>

(* The process of a judge or a request ends, or the pair is not written.   *)
Stop(h) ==
  /\ stage[h] \in {"look", "write", "curate"}
  /\ stage' = [stage EXCEPT ![h] = "done"]
  /\ Forget(h)
  /\ target' = [target EXCEPT ![h] = None]
  /\ UNCHANGED <<evaluations, pairs, crowded>>

Next ==
  \E h \in Handlers :
    Judge(h) \/ Rate(h) \/ Look(h) \/ Write(h) \/ WriteUnanswered(h) \/ Curate(h) \/ Stop(h)

-----------------------------------------------------------------------------
(* Properties *)

(* The types of the evaluations, and of what each handler has found *)
EvaluationTypeOK ==
  /\ evaluations \in [Authors -> Rows \cup {Absent}]
  /\ \A a \in Authors : pairs[a] # Absent => pairs[a].run \in Runs
  /\ stage \in [Handlers -> {"idle", "look", "write", "curate", "done"}]
  /\ target \in [Handlers -> Runs \cup {None}]
  /\ found = [h \in Handlers |-> found[h]]
  /\ \A h \in Handlers :
       found[h] \in IF h \in Judges THEN Given \cup {None} ELSE Ratings \cup {None}
  /\ seen \in [Handlers -> Scores \cup Ratings \cup {Absent}]
  /\ crowded \subseteq Runs

(* A row is flagged as in need of calibration (metadata.calibration_needed) *)
(* exactly when it has a score and a rating which differ by more than 0.3   *)
(* (at the boundary, as doubles do): whichever of the judge and the users   *)
(* came first, whoever came again, and whatever failed, unless two of them  *)
(* were between look-up and write of the run at the same time.              *)
CalibrationAgrees ==
  \A a \in Authors :
    LET e == evaluations[a] IN
      e # Absent /\ e.run \notin crowded =>
        (e.calibrate <=> /\ e.score # None /\ e.rating # None
                         /\ Differs(e.score, e.rating))
=============================================================================
