---------------------------- MODULE FeedbackProofs -----------------------------
(***************************************************************************)
(* Proofs about Evaluation and FineTuning, for every number of runs,       *)
(* judges, requests, jobs and ratings.                                     *)
(***************************************************************************)
EXTENDS FineTuning, TLAPS

-----------------------------------------------------------------------------
(* The parts of the inductive invariant *)

(* A handler under way has a run, and what it computed or was given; what   *)
(* it read is the column it asked for.                                      *)
LocalInv ==
  \A h \in Handlers :
    /\ stage[h] \in {"look", "write"} => found[h] \in IF h \in Judges THEN Given ELSE Ratings
    /\ stage[h] \in {"look", "write", "curate"} => target[h] \in Runs
    /\ stage[h] = "curate" => h \in Judges
    /\ Writing(h) /\ seen[h] # Absent => seen[h] \in IF h \in Judges THEN Ratings \cup {None, 5} ELSE Scores

(* Two handlers between look-up and write of one run have crowded it. *)
LookInv ==
  \A g, h \in Handlers :
    g # h /\ Writing(g) /\ Writing(h) /\ target[g] = target[h] => target[h] \in crowded

(* A run that was never crowded has one evaluation at most. *)
RowInv ==
  \A r \in Runs \ crowded : \A a, b \in RowsOf(r) : a = b

(* What was read is what the row says, unless the run has been crowded. *)
SeenInv ==
  \A h \in Handlers : Writing(h) /\ target[h] \notin crowded =>
    \A a \in RowsOf(target[h]) : seen[h] = Column(h, a)

(* A seeded run keeps its one row, and whoever looks has found it. *)
SeededInv ==
  /\ \A s \in Seeded : /\ evaluations[s] # Absent /\ evaluations[s].run = s
                       /\ \A a \in RowsOf(s) : a = s
  /\ \A h \in Handlers : Writing(h) /\ target[h] \in Seeded => seen[h] # Absent

(* Files hold seeded pairs only, *)
FileInv == \A f \in Jobs : \A p \in file[f] : p \in Seeded /\ pairs[p] \in PairRows /\ pairs[p].run = p
(* for no other pair has a quality_score, *)
PairInv ==
  \A p \in Authors :
    pairs[p] # Absent /\ pairs[p].quality # None => p \in Seeded /\ pairs[p].run = p
(* and they are marked once the UPDATE has been answered. *)
MarkedInv ==
  \A f \in Jobs : step[f] # "mark" /\ f \notin unmarked =>
    \A p \in file[f] : pairs[p].job # None
(* Two jobs between the GET and the SET of the registry have raced. *)
SetInv ==
  \A f, g \in Jobs : f # g /\ step[f] = "set" /\ step[g] = "set" => f \in raced
(* Who is between them has read every model that must not be lost. *)
ReadInv ==
  \A f, g \in Jobs :
    step[f] = "registered" /\ f \notin raced \cup evicted /\ step[g] = "set" => f \in read[g]

-----------------------------------------------------------------------------
(* The scores there are, and the percentages, besides NULL *)
Points == 0..10000
Percents == 0..100

(* None and Absent are no numbers. *)
LEMMA Apart ==
  /\ None \notin Ratings /\ Absent \notin Ratings
  /\ None \notin Points /\ Absent \notin Points
  /\ None \notin Percents /\ Absent \notin Percents
  /\ None # Absent /\ None # 5 /\ Absent # 5
<1>1. None \notin Int /\ Absent \notin Int /\ None # Absent
  BY EvaluationAssumption
<1>2. Ratings \subseteq Int
  <2>1. 1..5 \subseteq Int
    OBVIOUS
  <2>2. QED
    BY <2>1, EvaluationAssumption
<1>3. Points \subseteq Int /\ Percents \subseteq Int
  BY DEF Points, Percents
<1>4. None # 5 /\ Absent # 5
  BY <1>1
<1>5. QED
  BY <1>1, <1>2, <1>3, <1>4

(* What the columns of a row may hold *)
LEMMA Ranges ==
  /\ Scores = Points \cup {None} /\ 5 \in Points /\ None \notin Points
  /\ Percentages = Percents \cup {None} /\ 95 \in Percents
<1>1. 5 \in Points /\ 95 \in Percents
  BY DEF Points, Percents
<1>2. Scores = Points \cup {None} /\ Percentages = Percents \cup {None}
  BY DEF Scores, Percentages, Points, Percents
<1>3. QED
  BY <1>1, <1>2, Apart

(* Four percentages, weighted, are a score. *)
LEMMA Weighted ==
  \A a, b, c, d \in Percents : 35 * a + 30 * b + 20 * c + 15 * d \in Points
<1> TAKE a, b, c, d \in Percents
<1>1. a \in Int /\ 0 <= a /\ a <= 100
  BY DEF Percents
<1>2. b \in Int /\ 0 <= b /\ b <= 100
  BY DEF Percents
<1>3. c \in Int /\ 0 <= c /\ c <= 100
  BY DEF Percents
<1>4. d \in Int /\ 0 <= d /\ d <= 100
  BY DEF Percents
<1> DEFINE A == 35 * a  B == 30 * b  C == 20 * c  D == 15 * d
<1>5. A \in Int /\ 0 <= A /\ A <= 3500
  BY <1>1
<1>6. B \in Int /\ 0 <= B /\ B <= 3000
  BY <1>2
<1>7. C \in Int /\ 0 <= C /\ C <= 2000
  BY <1>3
<1>8. D \in Int /\ 0 <= D /\ D <= 1500
  BY <1>4
<1> HIDE DEF A, B, C, D
<1>9. A + B + C + D \in Points
  BY <1>5, <1>6, <1>7, <1>8 DEF Points
<1>10. QED
  BY <1>9 DEF A, B, C, D

(* The overall score of the metrics a judge may compute is between 0 and 1. *)
LEMMA OverallRange ==
  ASSUME NEW m \in Given
  PROVE  Overall(m) \in Points /\ m[1] \in Percents
<1>1. m \in [1..4 -> Percents]
  BY EvaluationAssumption DEF Given, Fallback, Percents
<1>2. m[1] \in Percents /\ m[2] \in Percents /\ m[3] \in Percents /\ m[4] \in Percents
  BY <1>1
<1>3. 35 * m[1] + 30 * m[2] + 20 * m[3] + 15 * m[4] \in Points
  BY <1>2, Weighted, Zenon
<1>4. QED
  BY <1>2, <1>3 DEF Overall

(* An updated row is a row. *)
LEMMA UpdatedRow ==
  ASSUME TypeOK, LocalInv, NEW h \in Handlers, Writing(h), NEW e \in Rows
  PROVE  Updated(h, e) \in Rows
<1>1. /\ h \in Judges => found[h] \in Given
      /\ h \notin Judges => found[h] \in Ratings
  BY DEF LocalInv, Writing
<1>2. Calibrate(h) \in BOOLEAN
  BY DEF Calibrate, Differs
<1>3. CASE h \in Judges
  <2>1. Overall(found[h]) \in Scores /\ found[h][1] \in Percentages
    BY <1>1, <1>3, OverallRange, Ranges
  <2>2. QED
    BY <1>2, <1>3, <2>1 DEF Updated, Scored, Rows
<1>4. CASE h \notin Judges
  BY <1>1, <1>2, <1>4 DEF Updated, Rated, Rows
<1>5. QED
  BY <1>3, <1>4

(* So is an inserted one. *)
LEMMA SavedTypes ==
  ASSUME TypeOK, LocalInv, NEW h \in Handlers, Writing(h), Save(h)
  PROVE  evaluations' \in [Authors -> Rows \cup {Absent}]
<1> USE DEF Save, Writing
<1>1. /\ evaluations \in [Authors -> Rows \cup {Absent}] /\ h \in Authors
      /\ target[h] \in Runs
      /\ h \in Judges => found[h] \in Given
      /\ h \notin Judges => found[h] \in Ratings
  BY DEF TypeOK, EvaluationTypeOK, LocalInv, Authors
<1>2. CASE seen[h] = Absent
  <2>1. NewRow(h) \in Rows
    BY <1>1, OverallRange, Ranges DEF NewRow, Row, Rows
  <2>2. QED
    BY <1>1, <1>2, <2>1
<1>3. CASE seen[h] # Absent
  <2>2. ASSUME NEW a \in RowsOf(target[h])
        PROVE  Updated(h, evaluations[a]) \in Rows
    <3>1. evaluations[a] \in Rows
      BY <1>1 DEF RowsOf
    <3>2. QED
      BY <3>1, UpdatedRow
  <2>3. QED
    BY <1>1, <1>3, <2>2
<1>4. QED
  BY <1>2, <1>3

(* A write inserts the handler's row, or updates all rows of the run. *)
LEMMA SavedRows ==
  ASSUME TypeOK, LocalInv, NEW h \in Handlers, Writing(h), Save(h)
  PROVE  /\ seen[h] = Absent =>
              /\ evaluations'[h] = NewRow(h)
              /\ \A a \in Authors \ {h} : evaluations'[a] = evaluations[a]
         /\ seen[h] # Absent =>
              /\ \A a \in RowsOf(target[h]) : evaluations'[a] = Updated(h, evaluations[a])
              /\ \A a \in Authors \ RowsOf(target[h]) : evaluations'[a] = evaluations[a]
<1>1. RowsOf(target[h]) \subseteq Authors
  BY DEF RowsOf
<1>2. QED
  BY <1>1 DEF Save, Authors, TypeOK, EvaluationTypeOK

(* Only an insert adds a row to a run. *)
LEMMA SavedRuns ==
  ASSUME TypeOK, LocalInv, NEW h \in Handlers, Writing(h), Save(h), NEW r \in Runs
  PROVE  RowsOf(r)' \subseteq RowsOf(r) \cup (IF seen[h] = Absent /\ r = target[h] THEN {h} ELSE {})
<1>1. evaluations \in [Authors -> Rows \cup {Absent}]
  BY DEF TypeOK, EvaluationTypeOK
<1>2. CASE seen[h] = Absent
  <2>1. NewRow(h).run = target[h]
    BY DEF NewRow, Row
  <2>2. QED
    BY <1>2, <2>1, SavedRows DEF RowsOf
<1>3. CASE seen[h] # Absent
  <2>1. \A a \in RowsOf(target[h]) : Updated(h, evaluations[a]).run = evaluations[a].run
    BY <1>1 DEF RowsOf, Updated, Scored, Rated, Rows
  <2>2. QED
    BY <1>1, <1>3, <2>1, SavedRows DEF RowsOf
<1>4. QED
  BY <1>2, <1>3

(* Jobs do not touch the evaluations. *)
LEMMA JobsApart ==
  ASSUME Evict \/ \E f \in Jobs : Work(f)
  PROVE  UNCHANGED <<evaluations, stage, target, found, seen, crowded>>
BY DEF Work, Extract, Mark, MarkUnanswered, CreateJob, CreateUnanswered, Train, ReadModels,
       SaveModels, Lose, Evict, evalVars

(* Who is between look-up and write knows its run and its result. *)
LEMMA LocalStep ==
  ASSUME TypeOK, LocalInv, [LoopNext]_vars
  PROVE  LocalInv'
<1> USE EvaluationAssumption, FineTuningAssumption DEF LocalInv, TypeOK,
   EvaluationTypeOK
<1>1. CASE UNCHANGED vars
  BY <1>1 DEF vars, evalVars, jobVars, Writing, RowsOf, Column, Rows
<1>2. ASSUME NEW h \in Handlers, UNCHANGED jobVars,
             Judge(h) \/ Rate(h) \/ Look(h) \/ Write(h) \/ WriteUnanswered(h) \/ Curate(h) \/ Stop(h)
      PROVE  LocalInv'
  <2>1. CASE Judge(h)
    BY <2>1, <1>2 DEF Judge, Goes, Writing, locals, jobVars
  <2>2. CASE Rate(h)
    BY <2>2, <1>2 DEF Rate, Goes, Writing, locals, jobVars
  <2>3. CASE Look(h)
    BY <2>3, <1>2 DEF Look, Goes, Writing, locals, jobVars, RowsOf, Column, Rows
  <2>4. CASE Write(h)
    BY <2>4, <1>2 DEF Write, Goes, Writing, locals, jobVars, After, Curates, Forget
  <2>5. CASE WriteUnanswered(h)
    BY <2>5, <1>2 DEF WriteUnanswered, Goes, Writing, locals, jobVars, After,
       Curates, Forget
  <2>6. CASE Curate(h)
    BY <2>6, <1>2 DEF Curate, Goes, Writing, locals, jobVars
  <2>7. CASE Stop(h)
    BY <2>7, <1>2 DEF Stop, Goes, Writing, locals, jobVars, Forget
  <2>8. QED
    BY <1>2, <2>1, <2>2, <2>3, <2>4, <2>5, <2>6, <2>7
<1>3. ASSUME NEW f \in Jobs, Work(f)
      PROVE  LocalInv'
  BY <1>3, JobsApart DEF Writing, RowsOf, Column
<1>4. CASE Evict
  BY <1>4, JobsApart DEF Writing, RowsOf, Column
<1>5. QED
  BY <1>1, <1>2, <1>3, <1>4 DEF LoopNext, Next

(* Two who are between look-up and write of a run have crowded it. *)
LEMMA LookStep ==
  ASSUME TypeOK, LookInv, [LoopNext]_vars
  PROVE  LookInv'
<1> USE EvaluationAssumption, FineTuningAssumption DEF LookInv, TypeOK, EvaluationTypeOK
<1>1. CASE UNCHANGED vars
  BY <1>1 DEF vars, evalVars, jobVars, Writing, RowsOf, Column, Rows
<1>2. ASSUME NEW h \in Handlers, UNCHANGED jobVars,
             Judge(h) \/ Rate(h) \/ Look(h) \/ Write(h) \/ WriteUnanswered(h) \/ Curate(h) \/ Stop(h)
      PROVE  LookInv'
  <2>1. CASE Judge(h)
    BY <2>1, <1>2 DEF Judge, Goes, Writing, locals, jobVars
  <2>2. CASE Rate(h)
    BY <2>2, <1>2 DEF Rate, Goes, Writing, locals, jobVars
  <2>3. CASE Look(h)
    BY <2>3, <1>2 DEF Look, Goes, Writing, locals, jobVars
  <2>4. CASE Write(h)
    BY <2>4, <1>2 DEF Write, Goes, Writing, locals, jobVars, After, Curates, Forget
  <2>5. CASE WriteUnanswered(h)
    BY <2>5, <1>2 DEF WriteUnanswered, Goes, Writing, locals, jobVars, After,
       Curates, Forget
  <2>6. CASE Curate(h)
    BY <2>6, <1>2 DEF Curate, Goes, Writing, locals, jobVars
  <2>7. CASE Stop(h)
    BY <2>7, <1>2 DEF Stop, Goes, Writing, locals, jobVars, Forget
  <2>8. QED
    BY <1>2, <2>1, <2>2, <2>3, <2>4, <2>5, <2>6, <2>7
<1>3. ASSUME NEW f \in Jobs, Work(f)
      PROVE  LookInv'
  BY <1>3, JobsApart DEF Writing, RowsOf, Column
<1>4. CASE Evict
  BY <1>4, JobsApart DEF Writing, RowsOf, Column
<1>5. QED
  BY <1>1, <1>2, <1>3, <1>4 DEF LoopNext, Next

(* The handler that writes is done with the look-up, and the others are     *)
(* where they were.                                                         *)
LEMMA Written ==
  ASSUME TypeOK, NEW h \in Handlers, Write(h) \/ WriteUnanswered(h)
  PROVE  /\ crowded' = crowded /\ pairs' = pairs
         /\ ~Writing(h)'
         /\ \A g \in Handlers \ {h} :
              stage'[g] = stage[g] /\ target'[g] = target[g] /\ seen'[g] = seen[g]
         /\ (Writing(h) /\ Save(h)) \/ evaluations' = evaluations
BY DEF TypeOK, EvaluationTypeOK, Write, WriteUnanswered, Goes, Writing, After, Forget

(* What a look-up reads is not Absent. *)
LEMMA ColumnKnown ==
  ASSUME TypeOK, NEW h \in Handlers, NEW r \in Runs, NEW a \in RowsOf(r)
  PROVE  Column(h, a) # Absent
<1>1. evaluations[a] \in Rows
  BY DEF TypeOK, EvaluationTypeOK, RowsOf
<1>2. evaluations[a].rating \in Ratings \cup {None, 5} /\ evaluations[a].score \in Scores
  BY <1>1 DEF Rows
<1>3. evaluations[a].rating # Absent /\ evaluations[a].score # Absent
  BY <1>2, Apart, Ranges
<1>4. QED
  BY <1>3 DEF Column

(* A handler that found no row is the first to write, unless crowded.       *)
LEMMA NoRows ==
  ASSUME TypeOK, LocalInv, SeenInv, NEW h \in Handlers, Writing(h),
         target[h] \notin crowded, seen[h] = Absent
  PROVE  RowsOf(target[h]) = {}
<1>1. target[h] \in Runs
  BY DEF LocalInv, Writing
<1>2. \A a \in RowsOf(target[h]) : seen[h] = Column(h, a)
  BY DEF SeenInv
<1>3. QED
  BY <1>1, <1>2, ColumnKnown

(* Only a write changes the evaluations. *)
LEMMA Kept ==
  ASSUME TypeOK, NEW h \in Handlers,
         Judge(h) \/ Rate(h) \/ Look(h) \/ Curate(h) \/ Stop(h)
  PROVE  evaluations' = evaluations /\ crowded \subseteq crowded'
BY DEF Judge, Rate, Look, Curate, Stop

(* A write leaves one row, *)
LEMMA RowWritten ==
  ASSUME TypeOK, LocalInv, SeenInv, RowInv,
         NEW h \in Handlers, Write(h) \/ WriteUnanswered(h)
  PROVE  RowInv'
<1>1. CASE evaluations' = evaluations
  BY <1>1, Written DEF RowInv, RowsOf
<1>2. CASE Writing(h) /\ Save(h)
  <2>1. ASSUME NEW r \in Runs, r \notin crowded
        PROVE  \A a, b \in RowsOf(r)' : a = b
    <3>1. RowsOf(r)' \subseteq RowsOf(r) \/ RowsOf(r)' \subseteq {h}
      BY <1>2, <2>1, SavedRuns, NoRows
    <3>2. QED
      BY <2>1, <3>1 DEF RowInv
  <2>2. QED
    BY <2>1, Written DEF RowInv
<1>3. QED
  BY <1>1, <1>2, Written

(* leaves what others have read true, *)
LEMMA SeenWritten ==
  ASSUME TypeOK, LocalInv, LookInv, SeenInv,
         NEW h \in Handlers, Write(h) \/ WriteUnanswered(h)
  PROVE  SeenInv'
<1> SUFFICES ASSUME NEW g \in Handlers, Writing(g)', target'[g] \notin crowded',
                    NEW a \in RowsOf(target[g])'
             PROVE  seen'[g] = Column(g, a)'
  BY Written DEF SeenInv
<1>1. g # h /\ Writing(g) /\ target[g] \notin crowded /\ seen'[g] = seen[g]
  BY Written DEF Writing
<1>2. CASE evaluations' = evaluations
  BY <1>1, <1>2, Written DEF SeenInv, RowsOf, Column
<1>3. CASE Writing(h) /\ Save(h)
  <2>1. target[g] \in Runs /\ target[h] \in Runs /\ target[g] # target[h]
        /\ target'[g] = target[g]
    BY <1>1, <1>3, Written DEF LookInv, LocalInv, Writing
  <2>2. a \in RowsOf(target[g])
    BY <1>3, <2>1, SavedRuns
  <2>3. a # h \/ seen[h] # Absent
    <3>1. NewRow(h).run = target[h]
      BY DEF NewRow, Row
    <3>2. seen[h] = Absent => evaluations'[h] = NewRow(h)
      BY <1>3, SavedRows
    <3>3. QED
      BY <2>1, <3>1, <3>2 DEF RowsOf
  <2>4. evaluations'[a] = evaluations[a]
    BY <1>3, <2>1, <2>2, <2>3, SavedRows DEF RowsOf
  <2>5. QED
    BY <1>1, <2>2, <2>4 DEF SeenInv, Column
<1>4. QED
  BY <1>2, <1>3, Written

(* keeps the rows of the seeded runs, *)
LEMMA SeededWritten ==
  ASSUME TypeOK, LocalInv, SeededInv,
         NEW h \in Handlers, Write(h) \/ WriteUnanswered(h)
  PROVE  SeededInv'
<1>1. \A g \in Handlers : Writing(g)' /\ target'[g] \in Seeded => seen'[g] # Absent
  BY Written DEF SeededInv, Writing
<1>2. CASE evaluations' = evaluations
  BY <1>1, <1>2 DEF SeededInv, RowsOf
<1>3. CASE Writing(h) /\ Save(h)
  <2>1. ASSUME NEW s \in Seeded
        PROVE  /\ evaluations'[s] # Absent /\ evaluations'[s].run = s
               /\ \A a \in RowsOf(s)' : a = s
    <3>1. s \in Runs /\ s \in Authors /\ s # h
      BY EvaluationAssumption DEF Authors, Handlers
    <3>2. ~(seen[h] = Absent /\ target[h] = s)
      BY <1>3, <2>1 DEF SeededInv
    <3>3. \A a \in RowsOf(s)' : a = s
      BY <1>3, <2>1, <3>1, <3>2, SavedRuns DEF SeededInv
    <3>4. evaluations[s] \in Rows /\ evaluations[s].run = s
      BY <3>1, <2>1 DEF SeededInv, TypeOK, EvaluationTypeOK
    <3>5. CASE evaluations'[s] = evaluations[s]
      BY <3>3, <3>4, <3>5, EvaluationAssumption
    <3>6. CASE seen[h] # Absent /\ s \in RowsOf(target[h])
      <4>1. evaluations'[s] = Updated(h, evaluations[s])
        BY <1>3, <3>6, SavedRows
      <4>2. evaluations'[s].run = s
        BY <3>4, <4>1 DEF Updated, Scored, Rated, Rows
      <4>3. evaluations'[s] # Absent
        BY <1>3, <3>4, <4>1, EvaluationAssumption, SavedTypes, <3>1, UpdatedRow, <3>6
      <4>4. QED
        BY <3>3, <4>2, <4>3
    <3>7. QED
      BY <1>3, <3>1, <3>5, <3>6, SavedRows
  <2>2. QED
    BY <1>1, <2>1 DEF SeededInv
<1>4. QED
  BY <1>2, <1>3, Written

(* and sets the flag of the rows that it writes. *)
LEMMA CalibrationWritten ==
  ASSUME TypeOK, LocalInv, SeenInv, CalibrationAgrees,
         NEW h \in Handlers, Write(h) \/ WriteUnanswered(h)
  PROVE  CalibrationAgrees'
<1> SUFFICES ASSUME NEW a \in Authors, evaluations'[a] # Absent,
                    evaluations'[a].run \notin crowded'
             PROVE  evaluations'[a].calibrate <=>
                      /\ evaluations'[a].score # None /\ evaluations'[a].rating # None
                      /\ Differs(evaluations'[a].score, evaluations'[a].rating)
  BY DEF CalibrationAgrees
<1>1. CASE evaluations'[a] = evaluations[a]
  BY <1>1, Written DEF CalibrationAgrees
<1>2. CASE Writing(h) /\ Save(h) /\ evaluations'[a] = NewRow(h)
  BY <1>2 DEF NewRow, Row
<1>3. CASE /\ Writing(h) /\ Save(h) /\ seen[h] # Absent
           /\ a \in RowsOf(target[h]) /\ evaluations'[a] = Updated(h, evaluations[a])
  <2>1. evaluations[a] \in Rows /\ evaluations[a].run = target[h]
    BY <1>3 DEF TypeOK, EvaluationTypeOK, RowsOf
  <2>2. evaluations'[a].run = evaluations[a].run
    BY <1>3, <2>1 DEF Updated, Scored, Rated, Rows
  <2>3. seen[h] = Column(h, a)
    BY <1>3, <2>1, <2>2, Written DEF SeenInv
  <2>4. CASE h \in Judges
    <3>1. /\ evaluations'[a].score = Overall(found[h]) /\ evaluations'[a].rating = evaluations[a].rating
          /\ evaluations'[a].calibrate = Calibrate(h)
      BY <1>3, <2>1, <2>4 DEF Updated, Scored, Rows
    <3>2. Overall(found[h]) # None
      <4>1. found[h] \in Given
        BY <1>3, <2>4 DEF LocalInv, Writing
      <4>2. QED
        BY <4>1, OverallRange, Ranges, Zenon
    <3>3. QED
      BY <1>3, <2>3, <2>4, <3>1, <3>2 DEF Calibrate, Column
  <2>5. CASE h \notin Judges
    <3>1. /\ evaluations'[a].score = evaluations[a].score /\ evaluations'[a].rating = found[h]
          /\ evaluations'[a].calibrate = Calibrate(h)
      BY <1>3, <2>1, <2>5 DEF Updated, Rated, Rows
    <3>2. found[h] # None
      <4>1. found[h] \in Ratings
        BY <1>3, <2>5 DEF LocalInv, Writing
      <4>2. QED
        BY <4>1, Apart
    <3>3. QED
      BY <1>3, <2>3, <2>5, <3>1, <3>2 DEF Calibrate, Column
  <2>6. QED
    BY <2>4, <2>5
<1>4. QED
  BY <1>1, <1>2, <1>3, Written, SavedRows

(* The handler that looked writes next, and the others are where they were. *)
LEMMA Looked ==
  ASSUME TypeOK, LocalInv, NEW h \in Handlers, Look(h)
  PROVE  /\ crowded \subseteq crowded' /\ evaluations' = evaluations /\ target' = target
         /\ target[h] \in Runs
         /\ \A g \in Handlers \ {h} : stage'[g] = stage[g] /\ seen'[g] = seen[g]
         /\ \/ RowsOf(target[h]) = {}
            \/ \E a \in RowsOf(target[h]) : seen'[h] = Column(h, a)
BY DEF TypeOK, EvaluationTypeOK, LocalInv, Look, Goes, locals

(* A look-up reads what the only row says, *)
LEMMA SeenLooked ==
  ASSUME TypeOK, LocalInv, RowInv, SeenInv, NEW h \in Handlers, Look(h)
  PROVE  SeenInv'
<1> SUFFICES ASSUME NEW g \in Handlers, Writing(g)', target[g] \notin crowded,
                    NEW a \in RowsOf(target[g])
             PROVE  seen'[g] = Column(g, a)
  BY Looked DEF SeenInv, RowsOf, Column
<1>1. CASE g = h
  BY <1>1, Looked DEF RowInv
<1>2. CASE g # h
  BY <1>2, Looked DEF SeenInv, Writing
<1>3. QED
  BY <1>1, <1>2

(* and finds the row of a seeded run. *)
LEMMA SeededLooked ==
  ASSUME TypeOK, LocalInv, SeededInv, NEW h \in Handlers, Look(h)
  PROVE  SeededInv'
<1>1. ASSUME target[h] \in Seeded
      PROVE  seen'[h] # Absent
  <2>1. target[h] \in RowsOf(target[h])
    BY <1>1 DEF SeededInv, RowsOf, Authors
  <2>2. PICK a \in RowsOf(target[h]) : seen'[h] = Column(h, a)
    BY <2>1, Looked
  <2>3. QED
    BY <2>2, Looked, ColumnKnown
<1>2. \A g \in Handlers : Writing(g)' /\ target'[g] \in Seeded => seen'[g] # Absent
  BY <1>1, Looked DEF SeededInv, Writing
<1>3. QED
  BY <1>2, Looked DEF SeededInv, RowsOf

(* A run that was never crowded has one row at most. *)
LEMMA RowStep ==
  ASSUME TypeOK, LocalInv, SeenInv, RowInv, [LoopNext]_vars
  PROVE  RowInv'
<1> USE EvaluationAssumption, FineTuningAssumption DEF RowInv, RowsOf
<1>1. CASE UNCHANGED vars
  BY <1>1 DEF vars, evalVars, jobVars, Writing, RowsOf, Column, Rows
<1>2. ASSUME NEW h \in Handlers, UNCHANGED jobVars,
             Judge(h) \/ Rate(h) \/ Look(h) \/ Write(h) \/ WriteUnanswered(h) \/ Curate(h) \/ Stop(h)
      PROVE  RowInv'
  <2>1. CASE Judge(h)
    BY <2>1, <1>2, Kept DEF Judge, Goes, Writing, locals, jobVars
  <2>2. CASE Rate(h)
    BY <2>2, <1>2, Kept DEF Rate, Goes, Writing, locals, jobVars
  <2>3. CASE Look(h)
    BY <2>3, <1>2, Kept DEF Look, Goes, Writing, locals, jobVars
  <2>4. CASE Write(h)
    BY <2>4, RowWritten
  <2>5. CASE WriteUnanswered(h)
    BY <2>5, RowWritten
  <2>6. CASE Curate(h)
    BY <2>6, <1>2, Kept DEF Curate, Goes, Writing, locals, jobVars
  <2>7. CASE Stop(h)
    BY <2>7, <1>2, Kept DEF Stop, Goes, Writing, locals, jobVars
  <2>8. QED
    BY <1>2, <2>1, <2>2, <2>3, <2>4, <2>5, <2>6, <2>7
<1>3. ASSUME NEW f \in Jobs, Work(f)
      PROVE  RowInv'
  BY <1>3, JobsApart DEF RowInv, RowsOf
<1>4. CASE Evict
  BY <1>4, JobsApart DEF RowInv, RowsOf
<1>5. QED
  BY <1>1, <1>2, <1>3, <1>4 DEF LoopNext, Next

(* What was read is what the row still says, unless the run is crowded. *)
LEMMA SeenStep ==
  ASSUME TypeOK, LocalInv, LookInv, RowInv, SeenInv, [LoopNext]_vars
  PROVE  SeenInv'
<1> USE EvaluationAssumption, FineTuningAssumption DEF SeenInv, RowsOf, Column,
   TypeOK, EvaluationTypeOK
<1>1. CASE UNCHANGED vars
  BY <1>1 DEF vars, evalVars, jobVars, Writing, RowsOf, Column, Rows
<1>2. ASSUME NEW h \in Handlers, UNCHANGED jobVars,
             Judge(h) \/ Rate(h) \/ Look(h) \/ Write(h) \/ WriteUnanswered(h) \/ Curate(h) \/ Stop(h)
      PROVE  SeenInv'
  <2>1. CASE Judge(h)
    BY <2>1, <1>2 DEF Judge, Goes, Writing, locals, jobVars
  <2>2. CASE Rate(h)
    BY <2>2, <1>2 DEF Rate, Goes, Writing, locals, jobVars
  <2>3. CASE Look(h)
    BY <2>3, SeenLooked
  <2>4. CASE Write(h)
    BY <2>4, SeenWritten
  <2>5. CASE WriteUnanswered(h)
    BY <2>5, SeenWritten
  <2>6. CASE Curate(h)
    BY <2>6, <1>2 DEF Curate, Goes, Writing, locals, jobVars
  <2>7. CASE Stop(h)
    BY <2>7, <1>2 DEF Stop, Goes, Writing, locals, jobVars, Forget
  <2>8. QED
    BY <1>2, <2>1, <2>2, <2>3, <2>4, <2>5, <2>6, <2>7
<1>3. ASSUME NEW f \in Jobs, Work(f)
      PROVE  SeenInv'
  BY <1>3, JobsApart DEF Writing, RowsOf, Column
<1>4. CASE Evict
  BY <1>4, JobsApart DEF Writing, RowsOf, Column
<1>5. QED
  BY <1>1, <1>2, <1>3, <1>4 DEF LoopNext, Next

(* A seeded run has its one row, and who looks finds it. *)
LEMMA SeededStep ==
  ASSUME TypeOK, LocalInv, SeededInv, [LoopNext]_vars
  PROVE  SeededInv'
<1> USE EvaluationAssumption, FineTuningAssumption DEF SeededInv, RowsOf, TypeOK,
   EvaluationTypeOK
<1>1. CASE UNCHANGED vars
  BY <1>1 DEF vars, evalVars, jobVars, Writing, RowsOf, Column, Rows
<1>2. ASSUME NEW h \in Handlers, UNCHANGED jobVars,
             Judge(h) \/ Rate(h) \/ Look(h) \/ Write(h) \/ WriteUnanswered(h) \/ Curate(h) \/ Stop(h)
      PROVE  SeededInv'
  <2>1. CASE Judge(h)
    BY <2>1, <1>2 DEF Judge, Goes, Writing, locals, jobVars
  <2>2. CASE Rate(h)
    BY <2>2, <1>2 DEF Rate, Goes, Writing, locals, jobVars
  <2>3. CASE Look(h)
    BY <2>3, SeededLooked
  <2>4. CASE Write(h)
    BY <2>4, SeededWritten
  <2>5. CASE WriteUnanswered(h)
    BY <2>5, SeededWritten
  <2>6. CASE Curate(h)
    BY <2>6, <1>2 DEF Curate, Goes, Writing, locals, jobVars
  <2>7. CASE Stop(h)
    BY <2>7, <1>2 DEF Stop, Goes, Writing, locals, jobVars, Forget
  <2>8. QED
    BY <1>2, <2>1, <2>2, <2>3, <2>4, <2>5, <2>6, <2>7
<1>3. ASSUME NEW f \in Jobs, Work(f)
      PROVE  SeededInv'
  BY <1>3, JobsApart DEF Writing, RowsOf, Column
<1>4. CASE Evict
  BY <1>4, JobsApart DEF Writing, RowsOf, Column
<1>5. QED
  BY <1>1, <1>2, <1>3, <1>4 DEF LoopNext, Next

(* The flag says whether score and rating differ. *)
LEMMA CalibrationStep ==
  ASSUME TypeOK, LocalInv, SeenInv, CalibrationAgrees, [LoopNext]_vars
  PROVE  CalibrationAgrees'
<1> USE EvaluationAssumption, FineTuningAssumption DEF CalibrationAgrees
<1>1. CASE UNCHANGED vars
  BY <1>1 DEF vars, evalVars, jobVars, Writing, RowsOf, Column, Rows
<1>2. ASSUME NEW h \in Handlers, UNCHANGED jobVars,
             Judge(h) \/ Rate(h) \/ Look(h) \/ Write(h) \/ WriteUnanswered(h) \/ Curate(h) \/ Stop(h)
      PROVE  CalibrationAgrees'
  <2>1. CASE Judge(h)
    BY <2>1, <1>2, Kept DEF Judge, Goes, Writing, locals, jobVars
  <2>2. CASE Rate(h)
    BY <2>2, <1>2, Kept DEF Rate, Goes, Writing, locals, jobVars
  <2>3. CASE Look(h)
    BY <2>3, <1>2, Kept DEF Look, Goes, Writing, locals, jobVars
  <2>4. CASE Write(h)
    BY <2>4, CalibrationWritten
  <2>5. CASE WriteUnanswered(h)
    BY <2>5, CalibrationWritten
  <2>6. CASE Curate(h)
    BY <2>6, <1>2, Kept DEF Curate, Goes, Writing, locals, jobVars
  <2>7. CASE Stop(h)
    BY <2>7, <1>2, Kept DEF Stop, Goes, Writing, locals, jobVars
  <2>8. QED
    BY <1>2, <2>1, <2>2, <2>3, <2>4, <2>5, <2>6, <2>7
<1>3. ASSUME NEW f \in Jobs, Work(f)
      PROVE  CalibrationAgrees'
  BY <1>3, JobsApart DEF CalibrationAgrees
<1>4. CASE Evict
  BY <1>4, JobsApart DEF CalibrationAgrees
<1>5. QED
  BY <1>1, <1>2, <1>3, <1>4 DEF LoopNext, Next

(* Only a judge writes a pair, its own, which has no quality_score. *)
LEMMA Curated ==
  ASSUME TypeOK, LocalInv, NEW h \in Handlers,
         Judge(h) \/ Rate(h) \/ Look(h) \/ Write(h) \/ WriteUnanswered(h) \/ Curate(h) \/ Stop(h)
  PROVE  /\ \A p \in Authors :
              \/ pairs'[p] = pairs[p]
              \/ pairs'[p] \in PairRows /\ pairs'[p].quality = None
         /\ \A p \in Seeded : pairs'[p] = pairs[p]
         /\ pairs' \in [Authors -> PairRows \cup {Absent}]
<1>1. CASE pairs' = pairs
  BY <1>1 DEF TypeOK
<1>2. CASE Curate(h)
  <2>1. h \in Judges /\ target[h] \in Runs /\ h \notin Seeded
    BY <1>2, EvaluationAssumption DEF LocalInv, Curate, Goes, Handlers
  <2>2. Pair(target[h], None) \in PairRows /\ Pair(target[h], None).quality = None
    BY <2>1 DEF Pair, PairRows
  <2>3. pairs' = [pairs EXCEPT ![h] = Pair(target[h], None)]
    BY <1>2 DEF Curate
  <2>4. QED
    BY <2>1, <2>2, <2>3 DEF TypeOK, Authors
<1>3. QED
  BY <1>1, <1>2 DEF Judge, Rate, Look, Write, WriteUnanswered, Stop

(* A mark sets included_in_job of the pairs of its file only. *)
LEMMA Markings ==
  ASSUME TypeOK, FileInv, NEW f \in Jobs, Marked(f) \/ UNCHANGED pairs
  PROVE  /\ pairs' \in [Authors -> PairRows \cup {Absent}]
         /\ \A p \in Authors :
              \/ pairs'[p] = pairs[p]
              \/ /\ p \in file[f] /\ pairs[p] \in PairRows /\ pairs'[p] \in PairRows
                 /\ pairs'[p].run = pairs[p].run /\ pairs'[p].quality = pairs[p].quality
                 /\ pairs'[p].job = f
         /\ Marked(f) => \A p \in file[f] : pairs'[p].job = f
<1>1. ASSUME NEW p \in file[f]
      PROVE  /\ [pairs[p] EXCEPT !.job = f] \in PairRows
             /\ [pairs[p] EXCEPT !.job = f].run = pairs[p].run
             /\ [pairs[p] EXCEPT !.job = f].quality = pairs[p].quality
             /\ [pairs[p] EXCEPT !.job = f].job = f
             /\ pairs[p] \in PairRows /\ p \in Authors
  BY DEF FileInv, PairRows, Authors
<1>2. CASE UNCHANGED pairs
  <2>1. Marked(f) => \A p \in file[f] : pairs'[p].job = f
    BY <1>1, <1>2 DEF Marked, TypeOK
  <2>2. QED
    BY <1>2, <2>1 DEF TypeOK
<1>3. CASE Marked(f)
  BY <1>1, <1>3 DEF Marked, TypeOK
<1>4. QED
  BY <1>2, <1>3

(* What Extract takes is a seeded pair, with a score, that no job has marked. *)
LEMMA Taken ==
  ASSUME TypeOK, PairInv, NEW p \in Authors, Eligible(p)
  PROVE  /\ p \in Seeded /\ pairs[p] \in PairRows /\ pairs[p].run = p /\ pairs[p].job = None
         /\ \E a \in RowsOf(p) : Qualifies(evaluations[a])
BY DEF Eligible, Selected, PairInv, TypeOK

(* A handler that ends, or curates, has forgotten what it found and saw. *)
LEMMA Forgotten ==
  ASSUME TypeOK, NEW h \in Handlers, Forget(h)
  PROVE  /\ seen' \in [Handlers -> Scores \cup Ratings \cup {Absent}]
         /\ found' = [g \in Handlers |-> found'[g]]
         /\ \A g \in Handlers :
              found'[g] \in IF g \in Judges THEN Given \cup {None} ELSE Ratings \cup {None}
<1>1. None \in Scores
  BY DEF Scores
<1>2. seen' = [seen EXCEPT ![h] = None] /\ found' = [found EXCEPT ![h] = None]
  BY DEF Forget
<1>3. seen' \in [Handlers -> Scores \cup Ratings \cup {Absent}]
  BY <1>1, <1>2 DEF TypeOK, EvaluationTypeOK
<1>4. found = [g \in Handlers |-> found[g]]
  BY DEF TypeOK, EvaluationTypeOK
<1>5. \A g \in Handlers :
        found'[g] = IF g = h THEN None ELSE found[g]
  BY <1>2, <1>4
<1>6. found' = [g \in Handlers |-> found'[g]]
  BY <1>2, <1>4
<1>7. QED
  BY <1>3, <1>5, <1>6 DEF TypeOK, EvaluationTypeOK

(* The types, under a step of a judge or a request *)
LEMMA HandlerTypes ==
  ASSUME TypeOK, LocalInv, NEW h \in Handlers,
         Judge(h) \/ Rate(h) \/ Look(h) \/ Write(h) \/ WriteUnanswered(h) \/ Curate(h) \/ Stop(h)
  PROVE  EvaluationTypeOK'
<1>1. evaluations' \in [Authors -> Rows \cup {Absent}]
  <2>1. CASE evaluations' = evaluations
    BY <2>1 DEF TypeOK, EvaluationTypeOK
  <2>2. CASE Writing(h) /\ Save(h)
    BY <2>2, SavedTypes
  <2>3. QED
    BY <2>1, <2>2 DEF Judge, Rate, Look, Write, WriteUnanswered, Curate, Stop, Goes, Writing
<1>2. \A a \in Authors : pairs'[a] # Absent => pairs'[a].run \in Runs
  BY Curated DEF PairRows
<1>3. stage' \in [Handlers -> {"idle", "look", "write", "curate", "done"}]
  <2>1. stage \in [Handlers -> {"idle", "look", "write", "curate", "done"}]
    BY DEF TypeOK, EvaluationTypeOK
  <2>2. After(h) \in {"curate", "done"}
    BY DEF After
  <2>3. \E s \in {"idle", "look", "write", "curate", "done"} : stage' = [stage EXCEPT ![h] = s]
    BY <2>2 DEF Judge, Rate, Look, Write, WriteUnanswered, Curate, Stop, Goes
  <2>4. QED
    BY <2>1, <2>3
<1>4. target' \in [Handlers -> Runs \cup {None}]
  <2>1. target \in [Handlers -> Runs \cup {None}]
    BY DEF TypeOK, EvaluationTypeOK
  <2>2. target' = target \/ \E r \in Runs \cup {None} : target' = [target EXCEPT ![h] = r]
    BY <2>1 DEF Judge, Rate, Look, locals, Write, WriteUnanswered, Curate, Stop
  <2>3. QED
    BY <2>1, <2>2
<1>5. /\ seen' \in [Handlers -> Scores \cup Ratings \cup {Absent}]
      /\ found' = [g \in Handlers |-> found'[g]]
      /\ \A g \in Handlers :
           found'[g] \in IF g \in Judges THEN Given \cup {None} ELSE Ratings \cup {None}
  <2>1. CASE Forget(h)
    BY <2>1, Forgotten
  <2>2. CASE Curate(h)
    BY <2>2 DEF Curate, TypeOK, EvaluationTypeOK
  <2>3. CASE Look(h)
    <3>1. found' = found
      BY <2>3 DEF Look, locals
    <3>2. \E c \in Scores \cup Ratings \cup {Absent} : seen' = [seen EXCEPT ![h] = c]
      <4>1. CASE seen' = [seen EXCEPT ![h] = Absent]
        BY <4>1
      <4>2. ASSUME NEW a \in RowsOf(target[h]), seen' = [seen EXCEPT ![h] = Column(h, a)]
            PROVE  \E c \in Scores \cup Ratings \cup {Absent} : seen' = [seen EXCEPT ![h] = c]
        <5>1. evaluations[a] \in Rows
          BY DEF TypeOK, EvaluationTypeOK, RowsOf
        <5>2. evaluations[a].score \in Scores /\ evaluations[a].rating \in Ratings \cup {None, 5}
          BY <5>1 DEF Rows
        <5>3. Column(h, a) \in Scores \cup Ratings
          BY <5>2, Ranges, Zenon DEF Column
        <5>4. QED
          BY <4>2, <5>3
      <4>3. QED
        BY <2>3, <4>1, <4>2 DEF Look
    <3>3. QED
      BY <3>1, <3>2 DEF TypeOK, EvaluationTypeOK
  <2>4. CASE Judge(h) \/ Rate(h)
    <3>1. seen' = seen
      BY <2>4 DEF Judge, Rate
    <3>2. PICK c \in IF h \in Judges THEN Given ELSE Ratings : found' = [found EXCEPT ![h] = c]
      BY <2>4, EvaluationAssumption DEF Judge, Rate
    <3>3. found = [g \in Handlers |-> found[g]]
      BY DEF TypeOK, EvaluationTypeOK
    <3>4. /\ found' = [g \in Handlers |-> found'[g]]
          /\ \A g \in Handlers : found'[g] = IF g = h THEN c ELSE found[g]
      BY <3>2, <3>3
    <3>5. QED
      BY <3>1, <3>4 DEF TypeOK, EvaluationTypeOK
  <2>5. QED
    BY <2>1, <2>2, <2>3, <2>4 DEF Write, WriteUnanswered, Stop
<1>6. crowded' \subseteq Runs
  BY DEF TypeOK, EvaluationTypeOK, LocalInv, Judge, Rate, Look, Write, WriteUnanswered,
     Curate, Stop,
         Goes
<1>7. QED
  BY <1>1, <1>2, <1>3, <1>4, <1>5, <1>6 DEF EvaluationTypeOK

(* The types. *)
LEMMA TypeStep ==
  ASSUME TypeOK, LocalInv, FileInv, [LoopNext]_vars
  PROVE  TypeOK'
<1> USE EvaluationAssumption, FineTuningAssumption DEF TypeOK, EvaluationTypeOK
<1>1. CASE UNCHANGED vars
  BY <1>1 DEF vars, evalVars, jobVars, Writing, RowsOf, Column, Rows
<1>2. ASSUME NEW h \in Handlers, UNCHANGED jobVars,
             Judge(h) \/ Rate(h) \/ Look(h) \/ Write(h) \/ WriteUnanswered(h) \/ Curate(h) \/ Stop(h)
      PROVE  TypeOK'
  BY <1>2, HandlerTypes, Curated DEF TypeOK, jobVars
<1>3. ASSUME NEW f \in Jobs, Work(f)
      PROVE  TypeOK'
  <2>1. CASE Extract(f)
    BY <2>1 DEF Extract, Advances, evalVars, extraction, registration, Both, Others
  <2>2. CASE Mark(f)
    BY <2>2, Markings DEF Mark, Advances, evalVars, extraction, registration, PairRows
  <2>3. CASE MarkUnanswered(f)
    BY <2>3, Markings DEF MarkUnanswered, Advances, evalVars, extraction,
       registration, PairRows
  <2>4. CASE CreateJob(f)
    BY <2>4 DEF CreateJob, Advances, evalVars, extraction, registration
  <2>5. CASE CreateUnanswered(f)
    BY <2>5 DEF CreateUnanswered, Advances, evalVars, extraction, registration
  <2>6. CASE Train(f)
    BY <2>6 DEF Train, Advances, evalVars, extraction, registration
  <2>7. CASE ReadModels(f)
    BY <2>7 DEF ReadModels, Advances, evalVars, extraction, registration, Both, Others
  <2>8. CASE SaveModels(f)
    BY <2>8 DEF SaveModels, Advances, evalVars, extraction, registration
  <2>9. CASE Lose(f)
    BY <2>9 DEF Lose, Advances, evalVars, extraction, registration
  <2>10. QED
    BY <1>3, <2>1, <2>2, <2>3, <2>4, <2>5, <2>6, <2>7, <2>8, <2>9 DEF Work
<1>4. CASE Evict
  BY <1>4 DEF Evict, evalVars, extraction
<1>5. QED
  BY <1>1, <1>2, <1>3, <1>4 DEF LoopNext, Next

(* A file holds seeded pairs. *)
LEMMA FileStep ==
  ASSUME TypeOK, LocalInv, PairInv, FileInv, [LoopNext]_vars
  PROVE  FileInv'
<1> USE EvaluationAssumption, FineTuningAssumption DEF FileInv
<1>1. CASE UNCHANGED vars
  BY <1>1 DEF vars, evalVars, jobVars, Writing, RowsOf, Column, Rows
<1>2. ASSUME NEW h \in Handlers, UNCHANGED jobVars,
             Judge(h) \/ Rate(h) \/ Look(h) \/ Write(h) \/ WriteUnanswered(h) \/ Curate(h) \/ Stop(h)
      PROVE  FileInv'
  BY <1>2, Curated DEF jobVars
<1>3. ASSUME NEW f \in Jobs, Work(f)
      PROVE  FileInv'
  <2>1. CASE Extract(f)
    BY <2>1, Taken DEF Extract, Advances, evalVars, extraction, registration, TypeOK
  <2>2. CASE Mark(f)
    BY <2>2, Markings DEF Mark, Advances, evalVars, extraction, registration, Authors
  <2>3. CASE MarkUnanswered(f)
    BY <2>3, Markings DEF MarkUnanswered, Advances, evalVars, extraction,
       registration, Authors
  <2>4. CASE CreateJob(f)
    BY <2>4 DEF CreateJob, Advances, evalVars, extraction, registration
  <2>5. CASE CreateUnanswered(f)
    BY <2>5 DEF CreateUnanswered, Advances, evalVars, extraction, registration
  <2>6. CASE Train(f)
    BY <2>6 DEF Train, Advances, evalVars, extraction, registration
  <2>7. CASE ReadModels(f)
    BY <2>7 DEF ReadModels, Advances, evalVars, extraction, registration
  <2>8. CASE SaveModels(f)
    BY <2>8 DEF SaveModels, Advances, evalVars, extraction, registration
  <2>9. CASE Lose(f)
    BY <2>9 DEF Lose, Advances, evalVars, extraction, registration
  <2>10. QED
    BY <1>3, <2>1, <2>2, <2>3, <2>4, <2>5, <2>6, <2>7, <2>8, <2>9 DEF Work
<1>4. CASE Evict
  BY <1>4 DEF Evict, evalVars, extraction
<1>5. QED
  BY <1>1, <1>2, <1>3, <1>4 DEF LoopNext, Next

(* Only the pairs that were seeded have a quality_score. *)
LEMMA PairStep ==
  ASSUME TypeOK, LocalInv, FileInv, PairInv, [LoopNext]_vars
  PROVE  PairInv'
<1> USE EvaluationAssumption, FineTuningAssumption DEF PairInv
<1>1. CASE UNCHANGED vars
  BY <1>1 DEF vars, evalVars, jobVars, Writing, RowsOf, Column, Rows
<1>2. ASSUME NEW h \in Handlers, UNCHANGED jobVars,
             Judge(h) \/ Rate(h) \/ Look(h) \/ Write(h) \/ WriteUnanswered(h) \/ Curate(h) \/ Stop(h)
      PROVE  PairInv'
  BY <1>2, Curated
<1>3. ASSUME NEW f \in Jobs, Work(f)
      PROVE  PairInv'
  <2>1. CASE Extract(f)
    BY <2>1 DEF Extract, Advances, evalVars, extraction, registration
  <2>2. CASE Mark(f)
    BY <2>2, Markings DEF FileInv, Mark, Advances, evalVars, extraction, registration
  <2>3. CASE MarkUnanswered(f)
    BY <2>3, Markings DEF FileInv, MarkUnanswered, Advances, evalVars, extraction,
       registration
  <2>4. CASE CreateJob(f)
    BY <2>4 DEF CreateJob, Advances, evalVars, extraction, registration
  <2>5. CASE CreateUnanswered(f)
    BY <2>5 DEF CreateUnanswered, Advances, evalVars, extraction, registration
  <2>6. CASE Train(f)
    BY <2>6 DEF Train, Advances, evalVars, extraction, registration
  <2>7. CASE ReadModels(f)
    BY <2>7 DEF ReadModels, Advances, evalVars, extraction, registration
  <2>8. CASE SaveModels(f)
    BY <2>8 DEF SaveModels, Advances, evalVars, extraction, registration
  <2>9. CASE Lose(f)
    BY <2>9 DEF Lose, Advances, evalVars, extraction, registration
  <2>10. QED
    BY <1>3, <2>1, <2>2, <2>3, <2>4, <2>5, <2>6, <2>7, <2>8, <2>9 DEF Work
<1>4. CASE Evict
  BY <1>4 DEF Evict, evalVars, extraction
<1>5. QED
  BY <1>1, <1>2, <1>3, <1>4 DEF LoopNext, Next

(* The pairs of a file are marked once the UPDATE has been answered. *)
LEMMA MarkedStep ==
  ASSUME TypeOK, LocalInv, PairInv, FileInv, MarkedInv, [LoopNext]_vars
  PROVE  MarkedInv'
<1> USE EvaluationAssumption, FineTuningAssumption DEF MarkedInv
<1>1. CASE UNCHANGED vars
  BY <1>1 DEF vars, evalVars, jobVars, Writing, RowsOf, Column, Rows
<1>2. ASSUME NEW h \in Handlers, UNCHANGED jobVars,
             Judge(h) \/ Rate(h) \/ Look(h) \/ Write(h) \/ WriteUnanswered(h) \/ Curate(h) \/ Stop(h)
      PROVE  MarkedInv'
  BY <1>2, Curated DEF jobVars, FileInv
<1>3. ASSUME NEW f \in Jobs, Work(f)
      PROVE  MarkedInv'
  <2>1. CASE Extract(f)
    BY <2>1, Taken DEF Extract, Advances, evalVars, extraction, registration, TypeOK
  <2>2. CASE Mark(f)
    BY <2>2, Markings DEF Mark, Advances, evalVars, extraction, registration, TypeOK,
       FileInv, Authors
  <2>3. CASE MarkUnanswered(f)
    BY <2>3, Markings DEF MarkUnanswered, Advances, evalVars, extraction,
       registration, TypeOK, FileInv, Authors
  <2>4. CASE CreateJob(f)
    BY <2>4 DEF CreateJob, Advances, evalVars, extraction, registration, TypeOK
  <2>5. CASE CreateUnanswered(f)
    BY <2>5 DEF CreateUnanswered, Advances, evalVars, extraction, registration, TypeOK
  <2>6. CASE Train(f)
    BY <2>6 DEF Train, Advances, evalVars, extraction, registration, TypeOK
  <2>7. CASE ReadModels(f)
    BY <2>7 DEF ReadModels, Advances, evalVars, extraction, registration, TypeOK
  <2>8. CASE SaveModels(f)
    BY <2>8 DEF SaveModels, Advances, evalVars, extraction, registration, TypeOK
  <2>9. CASE Lose(f)
    BY <2>9 DEF Lose, Advances, evalVars, extraction, registration, TypeOK
  <2>10. QED
    BY <1>3, <2>1, <2>2, <2>3, <2>4, <2>5, <2>6, <2>7, <2>8, <2>9 DEF Work
<1>4. CASE Evict
  BY <1>4 DEF Evict, evalVars, extraction
<1>5. QED
  BY <1>1, <1>2, <1>3, <1>4 DEF LoopNext, Next

(* Two files share a pair only if the extractions overlapped or a mark may have failed. *)
LEMMA TrainedOnceStep ==
  ASSUME TypeOK, PairInv, MarkedInv, TrainedOnce, [LoopNext]_vars
  PROVE  TrainedOnce'
<1> USE EvaluationAssumption, FineTuningAssumption DEF TrainedOnce
<1>1. CASE UNCHANGED vars
  BY <1>1 DEF vars, evalVars, jobVars, Writing, RowsOf, Column, Rows
<1>2. ASSUME NEW h \in Handlers, UNCHANGED jobVars,
             Judge(h) \/ Rate(h) \/ Look(h) \/ Write(h) \/ WriteUnanswered(h) \/ Curate(h) \/ Stop(h)
      PROVE  TrainedOnce'
  BY <1>2 DEF jobVars
<1>3. ASSUME NEW f \in Jobs, Work(f)
      PROVE  TrainedOnce'
  <2>1. CASE Extract(f)
    <3>1. /\ \A p \in file'[f] : p \in Authors /\ Eligible(p)
          /\ \A g \in Jobs \ {f} : file'[g] = file[g]
          /\ unmarked' = unmarked
          /\ overlapped \subseteq overlapped'
          /\ file'[f] # {} => overlapped' = overlapped \cup Both(f, "mark")
      BY <2>1 DEF Extract, extraction, TypeOK
    <3>2. ASSUME NEW g \in Jobs \ {f}, file'[f] \cap file'[g] # {}
          PROVE  {f, g} \subseteq overlapped' \/ g \in unmarked'
      <4>1. PICK p \in file'[f] : p \in file[g]
        BY <3>1, <3>2
      <4>2. pairs[p].job = None
        BY <3>1, <4>1, Taken
      <4>3. step[g] = "mark" \/ g \in unmarked
        BY <4>1, <4>2 DEF MarkedInv
      <4>4. step[g] = "mark" => {f, g} \subseteq Both(f, "mark")
        BY DEF Both, Others
      <4>5. QED
        BY <3>1, <4>1, <4>3, <4>4
    <3>3. QED
      BY <3>1, <3>2
  <2>2. CASE Mark(f)
    BY <2>2 DEF Mark, Advances, evalVars, extraction, registration
  <2>3. CASE MarkUnanswered(f)
    BY <2>3 DEF MarkUnanswered, Advances, evalVars, extraction, registration
  <2>4. CASE CreateJob(f)
    BY <2>4 DEF CreateJob, Advances, evalVars, extraction, registration
  <2>5. CASE CreateUnanswered(f)
    BY <2>5 DEF CreateUnanswered, Advances, evalVars, extraction, registration
  <2>6. CASE Train(f)
    BY <2>6 DEF Train, Advances, evalVars, extraction, registration
  <2>7. CASE ReadModels(f)
    BY <2>7 DEF ReadModels, Advances, evalVars, extraction, registration
  <2>8. CASE SaveModels(f)
    BY <2>8 DEF SaveModels, Advances, evalVars, extraction, registration
  <2>9. CASE Lose(f)
    BY <2>9 DEF Lose, Advances, evalVars, extraction, registration
  <2>10. QED
    BY <1>3, <2>1, <2>2, <2>3, <2>4, <2>5, <2>6, <2>7, <2>8, <2>9 DEF Work
<1>4. CASE Evict
  BY <1>4 DEF Evict, evalVars, extraction
<1>5. QED
  BY <1>1, <1>2, <1>3, <1>4 DEF LoopNext, Next

(* Two jobs between the GET and the SET of the registry have raced. *)
LEMMA SetStep ==
  ASSUME TypeOK, SetInv, [LoopNext]_vars
  PROVE  SetInv'
<1> USE EvaluationAssumption, FineTuningAssumption DEF SetInv, TypeOK
<1>1. CASE UNCHANGED vars
  BY <1>1 DEF vars, evalVars, jobVars, Writing, RowsOf, Column, Rows
<1>2. ASSUME NEW h \in Handlers, UNCHANGED jobVars,
             Judge(h) \/ Rate(h) \/ Look(h) \/ Write(h) \/ WriteUnanswered(h) \/ Curate(h) \/ Stop(h)
      PROVE  SetInv'
  BY <1>2 DEF jobVars
<1>3. ASSUME NEW f \in Jobs, Work(f)
      PROVE  SetInv'
  <2>1. CASE Extract(f)
    BY <2>1 DEF Extract, Advances, evalVars, extraction, registration
  <2>2. CASE Mark(f)
    BY <2>2 DEF Mark, Advances, evalVars, extraction, registration
  <2>3. CASE MarkUnanswered(f)
    BY <2>3 DEF MarkUnanswered, Advances, evalVars, extraction, registration
  <2>4. CASE CreateJob(f)
    BY <2>4 DEF CreateJob, Advances, evalVars, extraction, registration
  <2>5. CASE CreateUnanswered(f)
    BY <2>5 DEF CreateUnanswered, Advances, evalVars, extraction, registration
  <2>6. CASE Train(f)
    BY <2>6 DEF Train, Advances, evalVars, extraction, registration
  <2>7. CASE ReadModels(f)
    BY <2>7 DEF ReadModels, Advances, evalVars, extraction, registration, Both, Others
  <2>8. CASE SaveModels(f)
    BY <2>8 DEF SaveModels, Advances, evalVars, extraction, registration
  <2>9. CASE Lose(f)
    BY <2>9 DEF Lose, Advances, evalVars, extraction, registration
  <2>10. QED
    BY <1>3, <2>1, <2>2, <2>3, <2>4, <2>5, <2>6, <2>7, <2>8, <2>9 DEF Work
<1>4. CASE Evict
  BY <1>4 DEF Evict, evalVars, extraction
<1>5. QED
  BY <1>1, <1>2, <1>3, <1>4 DEF LoopNext, Next

(* Who is between GET and SET has read every model that is not to be lost. *)
LEMMA ReadStep ==
  ASSUME TypeOK, RegistryKeepsModels, SetInv, ReadInv, [LoopNext]_vars
  PROVE  ReadInv'
<1> USE EvaluationAssumption, FineTuningAssumption DEF ReadInv, TypeOK
<1>1. CASE UNCHANGED vars
  BY <1>1 DEF vars, evalVars, jobVars, Writing, RowsOf, Column, Rows
<1>2. ASSUME NEW h \in Handlers, UNCHANGED jobVars,
             Judge(h) \/ Rate(h) \/ Look(h) \/ Write(h) \/ WriteUnanswered(h) \/ Curate(h) \/ Stop(h)
      PROVE  ReadInv'
  BY <1>2 DEF jobVars
<1>3. ASSUME NEW f \in Jobs, Work(f)
      PROVE  ReadInv'
  <2>1. CASE Extract(f)
    BY <2>1 DEF Extract, Advances, evalVars, extraction, registration
  <2>2. CASE Mark(f)
    BY <2>2 DEF Mark, Advances, evalVars, extraction, registration
  <2>3. CASE MarkUnanswered(f)
    BY <2>3 DEF MarkUnanswered, Advances, evalVars, extraction, registration
  <2>4. CASE CreateJob(f)
    BY <2>4 DEF CreateJob, Advances, evalVars, extraction, registration
  <2>5. CASE CreateUnanswered(f)
    BY <2>5 DEF CreateUnanswered, Advances, evalVars, extraction, registration
  <2>6. CASE Train(f)
    BY <2>6 DEF Train, Advances, evalVars, extraction, registration
  <2>7. CASE ReadModels(f)
    BY <2>7 DEF ReadModels, Advances, evalVars, extraction, registration,
       RegistryKeepsModels
  <2>8. CASE SaveModels(f)
    BY <2>8 DEF SaveModels, Advances, evalVars, extraction, registration, SetInv
  <2>9. CASE Lose(f)
    BY <2>9 DEF Lose, Advances, evalVars, extraction, registration
  <2>10. QED
    BY <1>3, <2>1, <2>2, <2>3, <2>4, <2>5, <2>6, <2>7, <2>8, <2>9 DEF Work
<1>4. CASE Evict
  BY <1>4 DEF Evict, evalVars, extraction
<1>5. QED
  BY <1>1, <1>2, <1>3, <1>4 DEF LoopNext, Next

(* A SET keeps every registered model that did not race. *)
LEMMA RegistryStep ==
  ASSUME TypeOK, ReadInv, RegistryKeepsModels, [LoopNext]_vars
  PROVE  RegistryKeepsModels'
<1> USE EvaluationAssumption, FineTuningAssumption DEF RegistryKeepsModels, TypeOK
<1>1. CASE UNCHANGED vars
  BY <1>1 DEF vars, evalVars, jobVars, Writing, RowsOf, Column, Rows
<1>2. ASSUME NEW h \in Handlers, UNCHANGED jobVars,
             Judge(h) \/ Rate(h) \/ Look(h) \/ Write(h) \/ WriteUnanswered(h) \/ Curate(h) \/ Stop(h)
      PROVE  RegistryKeepsModels'
  BY <1>2 DEF jobVars
<1>3. ASSUME NEW f \in Jobs, Work(f)
      PROVE  RegistryKeepsModels'
  <2>1. CASE Extract(f)
    BY <2>1 DEF Extract, Advances, evalVars, extraction, registration
  <2>2. CASE Mark(f)
    BY <2>2 DEF Mark, Advances, evalVars, extraction, registration
  <2>3. CASE MarkUnanswered(f)
    BY <2>3 DEF MarkUnanswered, Advances, evalVars, extraction, registration
  <2>4. CASE CreateJob(f)
    BY <2>4 DEF CreateJob, Advances, evalVars, extraction, registration
  <2>5. CASE CreateUnanswered(f)
    BY <2>5 DEF CreateUnanswered, Advances, evalVars, extraction, registration
  <2>6. CASE Train(f)
    BY <2>6 DEF Train, Advances, evalVars, extraction, registration
  <2>7. CASE ReadModels(f)
    BY <2>7 DEF ReadModels, Advances, evalVars, extraction, registration
  <2>8. CASE SaveModels(f)
    BY <2>8 DEF SaveModels, Advances, evalVars, extraction, registration, ReadInv
  <2>9. CASE Lose(f)
    BY <2>9 DEF Lose, Advances, evalVars, extraction, registration, ReadInv
  <2>10. QED
    BY <1>3, <2>1, <2>2, <2>3, <2>4, <2>5, <2>6, <2>7, <2>8, <2>9 DEF Work
<1>4. CASE Evict
  BY <1>4 DEF Evict, evalVars, extraction
<1>5. QED
  BY <1>1, <1>2, <1>3, <1>4 DEF LoopNext, Next

-----------------------------------------------------------------------------
(* The inductive invariant, and what follows from it *)

IInv ==
  /\ TypeOK /\ LocalInv /\ LookInv /\ RowInv /\ SeenInv /\ SeededInv /\ CalibrationAgrees
  /\ FileInv /\ PairInv /\ MarkedInv /\ TrainedOnce
  /\ SetInv /\ ReadInv /\ RegistryKeepsModels

(* It holds in the initial states. *)
LEMMA IInvInit ==
  ASSUME LoopInit
  PROVE  IInv
<1> USE DEF LoopInit, Init, InitJobs
<1>1. /\ Seeded \subseteq Runs /\ Seeded \subseteq Authors /\ Absent \notin Rows
      /\ Handlers \cap Seeded = {}
  BY EvaluationAssumption DEF Authors
<1>2. /\ \A s \in Seeded : Row(s, 95, None, 5, FALSE) \in Rows
      /\ \A s \in Seeded : Pair(s, 90) \in PairRows
  BY <1>1, Ranges DEF Row, Rows, Pair, PairRows
<1>3. /\ evaluations \in [Authors -> Rows \cup {Absent}]
      /\ pairs \in [Authors -> PairRows \cup {Absent}]
      /\ \A a \in Authors : pairs[a] # Absent => pairs[a].run \in Runs
  BY <1>2 DEF PairRows
<1>4. TypeOK
  <2>1. seen \in [Handlers -> Scores \cup Ratings \cup {Absent}]
    BY Ranges
  <2>2. QED
    BY <1>3, <2>1 DEF TypeOK, EvaluationTypeOK
<1>5. \A r \in Runs : \A a \in RowsOf(r) : a \in Seeded /\ a = r
  BY <1>1, <1>2 DEF RowsOf, Row
<1>6. RowInv
  BY <1>5 DEF RowInv
<1>7. SeededInv
  BY <1>1, <1>2, <1>5 DEF SeededInv, Row, Writing
<1>8. CalibrationAgrees
  <2> SUFFICES ASSUME NEW a \in Authors, evaluations[a] # Absent
               PROVE  evaluations[a].calibrate = FALSE /\ evaluations[a].score = None
    BY DEF CalibrationAgrees
  <2>1. QED
    BY DEF Row
<1>9. PairInv
  BY <1>1 DEF PairInv, Pair
<1>10. LocalInv /\ LookInv /\ SeenInv /\ FileInv /\ MarkedInv /\ TrainedOnce
  BY DEF LocalInv, LookInv, SeenInv, FileInv, MarkedInv, TrainedOnce, Writing
<1>11. SetInv /\ ReadInv /\ RegistryKeepsModels
  BY DEF SetInv, ReadInv, RegistryKeepsModels
<1>12. QED
  BY <1>4, <1>6, <1>7, <1>8, <1>9, <1>10, <1>11 DEF IInv

(* Every step preserves it. *)
LEMMA IInvStep ==
  ASSUME IInv, [LoopNext]_vars
  PROVE  IInv'
BY TypeStep, LocalStep, LookStep, RowStep, SeenStep, SeededStep, CalibrationStep, FileStep,
   PairStep,
   MarkedStep, TrainedOnceStep, SetStep, ReadStep, RegistryStep DEF IInv

(* Judges, requests and jobs never leave the inductive invariant. *)
THEOREM Invariance == LoopSpec => []IInv
BY IInvInit, IInvStep, PTL DEF LoopSpec

(* The tables, the registry and what each handler and job holds keep their  *)
(* types.                                                                   *)
THEOREM TypeCorrect == LoopSpec => []TypeOK
<1>1. IInv => TypeOK
  BY DEF IInv
<1>2. QED
  BY <1>1, Invariance, PTL

(* judge.py and update_run_rating: calibration_needed says whether score    *)
(* and rating differ, unless two handlers have crowded the run.             *)
THEOREM CalibrationCorrect == LoopSpec => []CalibrationAgrees
<1>1. IInv => CalibrationAgrees
  BY DEF IInv
<1>2. QED
  BY <1>1, Invariance, PTL

(* extract_training_data: a pair is in two files only if the extractions    *)
(* overlapped or the mark of one of them may have failed.                   *)
THEOREM TrainedOnceCorrect == LoopSpec => []TrainedOnce
<1>1. IInv => TrainedOnce
  BY DEF IInv
<1>2. QED
  BY <1>1, Invariance, PTL

(* register_model_in_redis: a registered model stays in the list, unless    *)
(* registrations overlapped or the list was evicted.                        *)
THEOREM RegistryCorrect == LoopSpec => []RegistryKeepsModels
<1>1. IInv => RegistryKeepsModels
  BY DEF IInv
<1>2. QED
  BY <1>1, Invariance, PTL

(* Only Extract writes a file, and what it takes is well rated. *)
LEMMA WellRated ==
  ASSUME IInv, LoopNext, NEW f \in Jobs, NEW p \in file'[f] \ file[f]
  PROVE  LET rows == RowsOf(pairs[p].run) IN
         /\ \A a \in rows : evaluations[a].rating = None \/ evaluations[a].rating >= 4
         /\ \E a \in rows : evaluations[a].faithfulness # None /\ evaluations[a].faithfulness > 80
<1>1. PICK g \in Jobs : Extract(g)
  BY DEF LoopNext, jobVars, Work, Mark, MarkUnanswered, CreateJob, CreateUnanswered, Train,
     ReadModels,
         SaveModels, Lose, Evict, extraction
<1>2. p \in Authors /\ Eligible(p)
  BY <1>1 DEF Extract, IInv, TypeOK
<1>3. p \in Seeded /\ pairs[p].run = p /\ \E a \in RowsOf(p) : Qualifies(evaluations[a])
  BY <1>2, Taken DEF IInv
<1>4. \A a \in RowsOf(p) : a = p
  BY <1>3 DEF IInv, SeededInv
<1>5. QED
  BY <1>3, <1>4 DEF Qualifies

(* extract_training_data never takes a pair whose answer has a rating below *)
(* 4, although the join asks for one evaluation that qualifies only.        *)
THEOREM RatingsRespected == LoopSpec => BadlyRatedNotTrained
<1>1. IInv /\ [LoopNext]_vars =>
        [\A f \in Jobs : \A p \in file'[f] \ file[f] :
           LET rows == RowsOf(pairs[p].run) IN
           /\ \A a \in rows : evaluations[a].rating = None \/ evaluations[a].rating >= 4
           /\ \E a \in rows : evaluations[a].faithfulness # None
                             /\ evaluations[a].faithfulness > 80]_vars
  BY WellRated
<1>2. QED
  BY <1>1, Invariance, PTL DEF LoopSpec, BadlyRatedNotTrained
=============================================================================
