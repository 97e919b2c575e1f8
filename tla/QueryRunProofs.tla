---------------------------- MODULE QueryRunProofs ----------------------------
(***************************************************************************)
(* Proofs about QueryRun, for any numbers of requests, streams and faults. *)
(*                                                                         *)
(* KnownInv says what an execution knows of its run, SoloInv that a run    *)
(* which was never crowded has one active execution, and StoredInv what is *)
(* true of a run for good once a text was stored in it.  EvidenceInv then  *)
(* ties the chunks of a run to its one active execution, from which the    *)
(* agreement of answers and chunks follows.                                *)
(***************************************************************************)
EXTENDS QueryRun, TLAPS

KnownInv ==
  /\ \A r \in Runs : target[r] = r
  /\ \A r \in Runs : pc[r] = "idle" => status[r] = "none"
  /\ \A s \in Streams : pc[s] = "idle" => target[s] = None
  /\ \A h \in Handlers : Active(h) => target[h] \in Runs /\ status[target[h]] # "none"
  /\ \A h \in Handlers : pc[h] \in {"finish", "fail"} => h \in Compared

StoredInv ==
  /\ \A h \in stored : pc[h] \notin {"idle", "retrieve"}
  /\ \A h \in stored : target[h] \in Runs /\ Final(target[h]) /\ answer[target[h]] # None

(* Whoever has a whole text, or was told so, has stored it or tried to. *)
QueueInv ==
  /\ AnswersAreQueued
  /\ \A h \in Handlers : pc[h] = "enqueue" => h \in streamed
  /\ \A h \in Handlers : h \in streamed \/ pc[h] = "done" => h \in stored \cup unwritten

SoloInv ==
  \A g, h \in Handlers :
    Active(g) /\ Active(h) /\ target[g] = target[h] /\ target[h] \notin crowded => g = h

EvidenceInv ==
  /\ \A r \in Runs : evidence[r] # None => target[evidence[r]] = r
  /\ \A h \in Handlers :
       pc[h] \in {"generate", "enqueue", "finish"} /\ target[h] \notin crowded
         => h \in unwritten \/ evidence[target[h]] = h

IInv ==
  /\ TypeOK /\ KnownInv /\ StoredInv /\ QueueInv /\ SoloInv /\ EvidenceInv
  /\ AnswersMatchEvidence /\ ComparisonsEnd

-----------------------------------------------------------------------------
(* Every command keeps the types. *)
LEMMA TypeStep ==
  ASSUME TypeOK, [Next]_vars
  PROVE  TypeOK'
<1> USE RunAssumption DEF TypeOK, Moves, Report, Steps, evaluation, row, history, Ends
<1>1. CASE UNCHANGED vars
  BY <1>1 DEF vars
<1>2. ASSUME NEW h \in Handlers,
             Create(h) \/ Refuse(h) \/ Open(h) \/ Execute(h) \/ Push(h)
               \/ Disconnect(h) \/ Suffer(h)
      PROVE  TypeOK'
  <2>1. CASE Create(h)
    BY <2>1 DEF Create, Created
  <2>2. CASE Refuse(h)
    BY <2>2 DEF Refuse, Runs, Handlers
  <2>3. CASE Open(h)
    BY <2>3 DEF Open, Handlers
  <2>4. CASE Record(h)
    BY <2>4 DEF Record, SetEvidence
  <2>5. CASE RetrieveFails(h)
    BY <2>5 DEF RetrieveFails, Raised
  <2>6. CASE Log(h)
    BY <2>6 DEF Log, Store
  <2>7. CASE GenerateFails(h)
    BY <2>7 DEF GenerateFails, Interrupted, Raised
  <2>8. CASE Enqueue(h)
    BY <2>8 DEF Enqueue, Told
  <2>9. CASE Finish(h)
    BY <2>9 DEF Finish, Store
  <2>10. CASE Fail(h)
    BY <2>10 DEF Fail
  <2>11. CASE Push(h)
    BY <2>11 DEF Push
  <2>12. CASE Disconnect(h)
    BY <2>12 DEF Disconnect
  <2>13. CASE CreateUnanswered(h)
    BY <2>13 DEF CreateUnanswered, DatabaseFault, Fault
  <2>14. CASE RecordUnanswered(h)
    BY <2>14 DEF RecordUnanswered, Raised, SetEvidence, DatabaseFault, Fault
  <2>15. CASE LogUnanswered(h)
    BY <2>15 DEF LogUnanswered, Store, DatabaseFault, Fault
  <2>16. CASE FinishUnanswered(h)
    BY <2>16 DEF FinishUnanswered, Store, DatabaseFault, Fault
  <2>17. CASE FailUnanswered(h)
    BY <2>17 DEF FailUnanswered, DatabaseFault, Fault
  <2>18. CASE PushUnanswered(h)
    BY <2>18 DEF PushUnanswered, Fault
  <2>19. CASE Crash(h)
    BY <2>19 DEF Crash, Fault
  <2>20. QED
    BY <1>2, <2>1, <2>2, <2>3, <2>4, <2>5, <2>6, <2>7, <2>8, <2>9, <2>10, <2>11,
       <2>12, <2>13, <2>14, <2>15, <2>16, <2>17, <2>18, <2>19 DEF Execute, Suffer
<1>3. CASE Evict
  BY <1>3 DEF Evict, Fault
<1>4. QED
  BY <1>1, <1>2, <1>3 DEF Next

(* An execution keeps knowing its run. *)
LEMMA KnownStep ==
  ASSUME TypeOK, KnownInv, [Next]_vars
  PROVE  KnownInv'
<1> USE RunAssumption DEF TypeOK, Moves, Report, Steps, evaluation, row, history,
   KnownInv, Active, Runs, Handlers
<1>1. CASE UNCHANGED vars
  BY <1>1 DEF vars
<1>2. ASSUME NEW h \in Handlers,
             Create(h) \/ Refuse(h) \/ Open(h) \/ Execute(h) \/ Push(h)
               \/ Disconnect(h) \/ Suffer(h)
      PROVE  KnownInv'
  <2>1. CASE Create(h)
    BY <2>1 DEF Create, Created
  <2>2. CASE Refuse(h)
    BY <2>2 DEF Refuse
  <2>3. CASE Open(h)
    BY <2>3 DEF Open
  <2>4. CASE Record(h)
    BY <2>4 DEF Record, SetEvidence
  <2>5. CASE RetrieveFails(h)
    BY <2>5 DEF RetrieveFails, Raised
  <2>6. CASE Log(h)
    BY <2>6 DEF Log, Store
  <2>7. CASE GenerateFails(h)
    BY <2>7 DEF GenerateFails, Interrupted, Raised
  <2>8. CASE Enqueue(h)
    BY <2>8 DEF Enqueue, Told
  <2>9. CASE Finish(h)
    BY <2>9 DEF Finish, Store
  <2>10. CASE Fail(h)
    BY <2>10 DEF Fail
  <2>11. CASE Push(h)
    BY <2>11 DEF Push
  <2>12. CASE Disconnect(h)
    BY <2>12 DEF Disconnect
  <2>13. CASE CreateUnanswered(h)
    BY <2>13 DEF CreateUnanswered, DatabaseFault, Fault
  <2>14. CASE RecordUnanswered(h)
    BY <2>14 DEF RecordUnanswered, Raised, SetEvidence, DatabaseFault, Fault
  <2>15. CASE LogUnanswered(h)
    BY <2>15 DEF LogUnanswered, Store, DatabaseFault, Fault
  <2>16. CASE FinishUnanswered(h)
    BY <2>16 DEF FinishUnanswered, Store, DatabaseFault, Fault
  <2>17. CASE FailUnanswered(h)
    BY <2>17 DEF FailUnanswered, DatabaseFault, Fault
  <2>18. CASE PushUnanswered(h)
    BY <2>18 DEF PushUnanswered, Fault
  <2>19. CASE Crash(h)
    BY <2>19 DEF Crash, Fault
  <2>20. QED
    BY <1>2, <2>1, <2>2, <2>3, <2>4, <2>5, <2>6, <2>7, <2>8, <2>9, <2>10, <2>11,
       <2>12, <2>13, <2>14, <2>15, <2>16, <2>17, <2>18, <2>19 DEF Execute, Suffer
<1>3. CASE Evict
  BY <1>3 DEF Evict, Fault
<1>4. QED
  BY <1>1, <1>2, <1>3 DEF Next

(* A stored text stays, and its run stays final. *)
LEMMA StoredStep ==
  ASSUME TypeOK, KnownInv, StoredInv, [Next]_vars
  PROVE  StoredInv'
<1> USE RunAssumption DEF TypeOK, Moves, Report, Steps, evaluation, row, history,
   KnownInv, Active, Runs, Handlers, StoredInv, Final
<1>1. CASE UNCHANGED vars
  BY <1>1 DEF vars
<1>2. ASSUME NEW h \in Handlers,
             Create(h) \/ Refuse(h) \/ Open(h) \/ Execute(h) \/ Push(h)
               \/ Disconnect(h) \/ Suffer(h)
      PROVE  StoredInv'
  <2>1. CASE Create(h)
    BY <2>1 DEF Create, Created
  <2>2. CASE Refuse(h)
    BY <2>2 DEF Refuse
  <2>3. CASE Open(h)
    BY <2>3 DEF Open
  <2>4. CASE Record(h)
    BY <2>4 DEF Record, SetEvidence
  <2>5. CASE RetrieveFails(h)
    BY <2>5 DEF RetrieveFails, Raised
  <2>6. CASE Log(h)
    BY <2>6 DEF Log, Store
  <2>7. CASE GenerateFails(h)
    BY <2>7 DEF GenerateFails, Interrupted, Raised
  <2>8. CASE Enqueue(h)
    BY <2>8 DEF Enqueue, Told
  <2>9. CASE Finish(h)
    BY <2>9 DEF Finish, Store
  <2>10. CASE Fail(h)
    BY <2>10 DEF Fail
  <2>11. CASE Push(h)
    BY <2>11 DEF Push
  <2>12. CASE Disconnect(h)
    BY <2>12 DEF Disconnect
  <2>13. CASE CreateUnanswered(h)
    BY <2>13 DEF CreateUnanswered, DatabaseFault, Fault
  <2>14. CASE RecordUnanswered(h)
    BY <2>14 DEF RecordUnanswered, Raised, SetEvidence, DatabaseFault, Fault
  <2>15. CASE LogUnanswered(h)
    BY <2>15 DEF LogUnanswered, Store, DatabaseFault, Fault
  <2>16. CASE FinishUnanswered(h)
    BY <2>16 DEF FinishUnanswered, Store, DatabaseFault, Fault
  <2>17. CASE FailUnanswered(h)
    BY <2>17 DEF FailUnanswered, DatabaseFault, Fault
  <2>18. CASE PushUnanswered(h)
    BY <2>18 DEF PushUnanswered, Fault
  <2>19. CASE Crash(h)
    BY <2>19 DEF Crash, Fault
  <2>20. QED
    BY <1>2, <2>1, <2>2, <2>3, <2>4, <2>5, <2>6, <2>7, <2>8, <2>9, <2>10, <2>11,
       <2>12, <2>13, <2>14, <2>15, <2>16, <2>17, <2>18, <2>19 DEF Execute, Suffer
<1>3. CASE Evict
  BY <1>3 DEF Evict, Fault
<1>4. QED
  BY <1>1, <1>2, <1>3 DEF Next

(* No whole answer is forgotten. *)
LEMMA QueueStep ==
  ASSUME TypeOK, KnownInv, StoredInv, QueueInv, [Next]_vars
  PROVE  QueueInv'
<1> USE RunAssumption DEF TypeOK, Moves, Report, Steps, evaluation, row, history,
   QueueInv, AnswersAreQueued
<1>1. CASE UNCHANGED vars
  BY <1>1 DEF vars
<1>2. ASSUME NEW h \in Handlers,
             Create(h) \/ Refuse(h) \/ Open(h) \/ Execute(h) \/ Push(h)
               \/ Disconnect(h) \/ Suffer(h)
      PROVE  QueueInv'
  <2>1. CASE Create(h)
    BY <2>1 DEF Create, Created
  <2>2. CASE Refuse(h)
    BY <2>2 DEF Refuse, Runs, Handlers
  <2>3. CASE Open(h)
    BY <2>3 DEF Open, Handlers
  <2>4. CASE Record(h)
    BY <2>4 DEF Record, SetEvidence
  <2>5. CASE RetrieveFails(h)
    BY <2>5 DEF RetrieveFails, Raised
  <2>6. CASE Log(h)
    BY <2>6 DEF Log, Store
  <2>7. CASE GenerateFails(h)
    BY <2>7 DEF GenerateFails, Interrupted, Raised
  <2>8. CASE Enqueue(h)
    BY <2>8 DEF Enqueue, Told
  <2>9. CASE Finish(h)
    BY <2>9 DEF Finish, Store
  <2>10. CASE Fail(h)
    BY <2>10 DEF Fail
  <2>11. CASE Push(h)
    BY <2>11 DEF Push
  <2>12. CASE Disconnect(h)
    BY <2>12 DEF Disconnect
  <2>13. CASE CreateUnanswered(h)
    BY <2>13 DEF CreateUnanswered, DatabaseFault, Fault
  <2>14. CASE RecordUnanswered(h)
    BY <2>14 DEF RecordUnanswered, Raised, SetEvidence, DatabaseFault, Fault
  <2>15. CASE LogUnanswered(h)
    BY <2>15 DEF LogUnanswered, Store, DatabaseFault, Fault
  <2>16. CASE FinishUnanswered(h)
    BY <2>16 DEF FinishUnanswered, Store, DatabaseFault, Fault
  <2>17. CASE FailUnanswered(h)
    BY <2>17 DEF FailUnanswered, DatabaseFault, Fault
  <2>18. CASE PushUnanswered(h)
    BY <2>18 DEF PushUnanswered, Fault
  <2>19. CASE Crash(h)
    BY <2>19 DEF Crash, Fault
  <2>20. QED
    BY <1>2, <2>1, <2>2, <2>3, <2>4, <2>5, <2>6, <2>7, <2>8, <2>9, <2>10, <2>11,
       <2>12, <2>13, <2>14, <2>15, <2>16, <2>17, <2>18, <2>19 DEF Execute, Suffer
<1>3. CASE Evict
  BY <1>3 DEF Evict, Fault
<1>4. QED
  BY <1>1, <1>2, <1>3 DEF Next

(* Whoever joins an execution crowds the run. *)
LEMMA SoloStep ==
  ASSUME TypeOK, KnownInv, SoloInv, [Next]_vars
  PROVE  SoloInv'
<1> USE RunAssumption DEF TypeOK, Moves, Report, Steps, evaluation, row, history,
   KnownInv, Active, Runs, Handlers, SoloInv
<1>1. CASE UNCHANGED vars
  BY <1>1 DEF vars
<1>2. ASSUME NEW h \in Handlers,
             Create(h) \/ Refuse(h) \/ Open(h) \/ Execute(h) \/ Push(h)
               \/ Disconnect(h) \/ Suffer(h)
      PROVE  SoloInv'
  <2>1. CASE Create(h)
    BY <2>1 DEF Create, Created
  <2>2. CASE Refuse(h)
    BY <2>2 DEF Refuse
  <2>3. CASE Open(h)
    BY <2>3 DEF Open
  <2>4. CASE Record(h)
    BY <2>4 DEF Record, SetEvidence
  <2>5. CASE RetrieveFails(h)
    BY <2>5 DEF RetrieveFails, Raised
  <2>6. CASE Log(h)
    BY <2>6 DEF Log, Store
  <2>7. CASE GenerateFails(h)
    BY <2>7 DEF GenerateFails, Interrupted, Raised
  <2>8. CASE Enqueue(h)
    BY <2>8 DEF Enqueue, Told
  <2>9. CASE Finish(h)
    BY <2>9 DEF Finish, Store
  <2>10. CASE Fail(h)
    BY <2>10 DEF Fail
  <2>11. CASE Push(h)
    BY <2>11 DEF Push
  <2>12. CASE Disconnect(h)
    BY <2>12 DEF Disconnect
  <2>13. CASE CreateUnanswered(h)
    BY <2>13 DEF CreateUnanswered, DatabaseFault, Fault
  <2>14. CASE RecordUnanswered(h)
    BY <2>14 DEF RecordUnanswered, Raised, SetEvidence, DatabaseFault, Fault
  <2>15. CASE LogUnanswered(h)
    BY <2>15 DEF LogUnanswered, Store, DatabaseFault, Fault
  <2>16. CASE FinishUnanswered(h)
    BY <2>16 DEF FinishUnanswered, Store, DatabaseFault, Fault
  <2>17. CASE FailUnanswered(h)
    BY <2>17 DEF FailUnanswered, DatabaseFault, Fault
  <2>18. CASE PushUnanswered(h)
    BY <2>18 DEF PushUnanswered, Fault
  <2>19. CASE Crash(h)
    BY <2>19 DEF Crash, Fault
  <2>20. QED
    BY <1>2, <2>1, <2>2, <2>3, <2>4, <2>5, <2>6, <2>7, <2>8, <2>9, <2>10, <2>11,
       <2>12, <2>13, <2>14, <2>15, <2>16, <2>17, <2>18, <2>19 DEF Execute, Suffer
<1>3. CASE Evict
  BY <1>3 DEF Evict, Fault
<1>4. QED
  BY <1>1, <1>2, <1>3 DEF Next

(* Only the active execution of an uncrowded run writes its chunks. *)
LEMMA EvidenceStep ==
  ASSUME TypeOK, KnownInv, SoloInv, EvidenceInv, [Next]_vars
  PROVE  EvidenceInv'
<1> USE RunAssumption DEF TypeOK, Moves, Report, Steps, evaluation, row, history,
   KnownInv, Active, Runs, Handlers, SoloInv, EvidenceInv
<1>1. CASE UNCHANGED vars
  BY <1>1 DEF vars
<1>2. ASSUME NEW h \in Handlers,
             Create(h) \/ Refuse(h) \/ Open(h) \/ Execute(h) \/ Push(h)
               \/ Disconnect(h) \/ Suffer(h)
      PROVE  EvidenceInv'
  <2>1. CASE Create(h)
    BY <2>1 DEF Create, Created
  <2>2. CASE Refuse(h)
    BY <2>2 DEF Refuse
  <2>3. CASE Open(h)
    BY <2>3 DEF Open
  <2>4. CASE Record(h)
    BY <2>4 DEF Record, SetEvidence
  <2>5. CASE RetrieveFails(h)
    BY <2>5 DEF RetrieveFails, Raised
  <2>6. CASE Log(h)
    BY <2>6 DEF Log, Store
  <2>7. CASE GenerateFails(h)
    BY <2>7 DEF GenerateFails, Interrupted, Raised
  <2>8. CASE Enqueue(h)
    BY <2>8 DEF Enqueue, Told
  <2>9. CASE Finish(h)
    BY <2>9 DEF Finish, Store
  <2>10. CASE Fail(h)
    BY <2>10 DEF Fail
  <2>11. CASE Push(h)
    BY <2>11 DEF Push
  <2>12. CASE Disconnect(h)
    BY <2>12 DEF Disconnect
  <2>13. CASE CreateUnanswered(h)
    BY <2>13 DEF CreateUnanswered, DatabaseFault, Fault
  <2>14. CASE RecordUnanswered(h)
    BY <2>14 DEF RecordUnanswered, Raised, SetEvidence, DatabaseFault, Fault
  <2>15. CASE LogUnanswered(h)
    BY <2>15 DEF LogUnanswered, Store, DatabaseFault, Fault
  <2>16. CASE FinishUnanswered(h)
    BY <2>16 DEF FinishUnanswered, Store, DatabaseFault, Fault
  <2>17. CASE FailUnanswered(h)
    BY <2>17 DEF FailUnanswered, DatabaseFault, Fault
  <2>18. CASE PushUnanswered(h)
    BY <2>18 DEF PushUnanswered, Fault
  <2>19. CASE Crash(h)
    BY <2>19 DEF Crash, Fault
  <2>20. QED
    BY <1>2, <2>1, <2>2, <2>3, <2>4, <2>5, <2>6, <2>7, <2>8, <2>9, <2>10, <2>11,
       <2>12, <2>13, <2>14, <2>15, <2>16, <2>17, <2>18, <2>19 DEF Execute, Suffer
<1>3. CASE Evict
  BY <1>3 DEF Evict, Fault
<1>4. QED
  BY <1>1, <1>2, <1>3 DEF Next

(* Whoever stores an answer has recorded its chunks and finds them unchanged. *)
LEMMA MatchStep ==
  ASSUME TypeOK, KnownInv, StoredInv, SoloInv, EvidenceInv, AnswersMatchEvidence,
     [Next]_vars
  PROVE  AnswersMatchEvidence'
<1> USE RunAssumption DEF TypeOK, Moves, Report, Steps, evaluation, row, history,
   KnownInv, Active, Runs, Handlers, StoredInv, SoloInv, EvidenceInv,
      AnswersMatchEvidence
<1>1. CASE UNCHANGED vars
  BY <1>1 DEF vars
<1>2. ASSUME NEW h \in Handlers,
             Create(h) \/ Refuse(h) \/ Open(h) \/ Execute(h) \/ Push(h)
               \/ Disconnect(h) \/ Suffer(h)
      PROVE  AnswersMatchEvidence'
  <2>1. CASE Create(h)
    BY <2>1 DEF Create, Created
  <2>2. CASE Refuse(h)
    BY <2>2 DEF Refuse
  <2>3. CASE Open(h)
    BY <2>3 DEF Open
  <2>4. CASE Record(h)
    BY <2>4 DEF Record, SetEvidence
  <2>5. CASE RetrieveFails(h)
    BY <2>5 DEF RetrieveFails, Raised
  <2>6. CASE Log(h)
    BY <2>6 DEF Log, Store
  <2>7. CASE GenerateFails(h)
    BY <2>7 DEF GenerateFails, Interrupted, Raised
  <2>8. CASE Enqueue(h)
    BY <2>8 DEF Enqueue, Told
  <2>9. CASE Finish(h)
    BY <2>9 DEF Finish, Store
  <2>10. CASE Fail(h)
    BY <2>10 DEF Fail
  <2>11. CASE Push(h)
    BY <2>11 DEF Push
  <2>12. CASE Disconnect(h)
    BY <2>12 DEF Disconnect
  <2>13. CASE CreateUnanswered(h)
    BY <2>13 DEF CreateUnanswered, DatabaseFault, Fault
  <2>14. CASE RecordUnanswered(h)
    BY <2>14 DEF RecordUnanswered, Raised, SetEvidence, DatabaseFault, Fault
  <2>15. CASE LogUnanswered(h)
    BY <2>15 DEF LogUnanswered, Store, DatabaseFault, Fault
  <2>16. CASE FinishUnanswered(h)
    BY <2>16 DEF FinishUnanswered, Store, DatabaseFault, Fault
  <2>17. CASE FailUnanswered(h)
    BY <2>17 DEF FailUnanswered, DatabaseFault, Fault
  <2>18. CASE PushUnanswered(h)
    BY <2>18 DEF PushUnanswered, Fault
  <2>19. CASE Crash(h)
    BY <2>19 DEF Crash, Fault
  <2>20. QED
    BY <1>2, <2>1, <2>2, <2>3, <2>4, <2>5, <2>6, <2>7, <2>8, <2>9, <2>10, <2>11,
       <2>12, <2>13, <2>14, <2>15, <2>16, <2>17, <2>18, <2>19 DEF Execute, Suffer
<1>3. CASE Evict
  BY <1>3 DEF Evict, Fault
<1>4. QED
  BY <1>1, <1>2, <1>3 DEF Next

(* After its last command only streams write to the run of a comparison. *)
LEMMA ComparisonStep ==
  ASSUME TypeOK, KnownInv, ComparisonsEnd, [Next]_vars
  PROVE  ComparisonsEnd'
<1> USE RunAssumption DEF TypeOK, Moves, Report, Steps, evaluation, row, history,
   KnownInv, Active, Runs, Handlers, ComparisonsEnd, Streamed
<1>1. CASE UNCHANGED vars
  BY <1>1 DEF vars
<1>2. ASSUME NEW h \in Handlers,
             Create(h) \/ Refuse(h) \/ Open(h) \/ Execute(h) \/ Push(h)
               \/ Disconnect(h) \/ Suffer(h)
      PROVE  ComparisonsEnd'
  <2>1. CASE Create(h)
    BY <2>1 DEF Create, Created
  <2>2. CASE Refuse(h)
    BY <2>2 DEF Refuse
  <2>3. CASE Open(h)
    BY <2>3 DEF Open
  <2>4. CASE Record(h)
    BY <2>4 DEF Record, SetEvidence
  <2>5. CASE RetrieveFails(h)
    BY <2>5 DEF RetrieveFails, Raised
  <2>6. CASE Log(h)
    BY <2>6 DEF Log, Store
  <2>7. CASE GenerateFails(h)
    BY <2>7 DEF GenerateFails, Interrupted, Raised
  <2>8. CASE Enqueue(h)
    BY <2>8 DEF Enqueue, Told
  <2>9. CASE Finish(h)
    BY <2>9 DEF Finish, Store
  <2>10. CASE Fail(h)
    BY <2>10 DEF Fail
  <2>11. CASE Push(h)
    BY <2>11 DEF Push
  <2>12. CASE Disconnect(h)
    BY <2>12 DEF Disconnect
  <2>13. CASE CreateUnanswered(h)
    BY <2>13 DEF CreateUnanswered, DatabaseFault, Fault
  <2>14. CASE RecordUnanswered(h)
    BY <2>14 DEF RecordUnanswered, Raised, SetEvidence, DatabaseFault, Fault
  <2>15. CASE LogUnanswered(h)
    BY <2>15 DEF LogUnanswered, Store, DatabaseFault, Fault
  <2>16. CASE FinishUnanswered(h)
    BY <2>16 DEF FinishUnanswered, Store, DatabaseFault, Fault
  <2>17. CASE FailUnanswered(h)
    BY <2>17 DEF FailUnanswered, DatabaseFault, Fault
  <2>18. CASE PushUnanswered(h)
    BY <2>18 DEF PushUnanswered, Fault
  <2>19. CASE Crash(h)
    BY <2>19 DEF Crash, Fault
  <2>20. QED
    BY <1>2, <2>1, <2>2, <2>3, <2>4, <2>5, <2>6, <2>7, <2>8, <2>9, <2>10, <2>11,
       <2>12, <2>13, <2>14, <2>15, <2>16, <2>17, <2>18, <2>19 DEF Execute, Suffer
<1>3. CASE Evict
  BY <1>3 DEF Evict, Fault
<1>4. QED
  BY <1>1, <1>2, <1>3 DEF Next

(* Only the generator writes to a query's row, after the last token. *)
LEMMA WholeStep ==
  ASSUME IInv, Next, NEW r \in Blocking \cup Deferred, answer'[r] # answer[r]
  PROVE  answer'[r] \in streamed' /\ counts'[r] = answer'[r]
<1> USE RunAssumption DEF IInv, TypeOK, Runs, Handlers
<1>1. PICK h \in Handlers : Create(h) \/ Refuse(h) \/ Open(h) \/ Execute(h) \/ Push(h)
                            \/ Disconnect(h) \/ Suffer(h)
  BY DEF Next, Evict, row
<1>2. CASE Log(h) \/ LogUnanswered(h)
  BY <1>2 DEF Log, LogUnanswered, Store, row
<1>3. ASSUME Finish(h) \/ FinishUnanswered(h) PROVE FALSE
  <2>1. h \in Compared /\ target[h] = h
    BY <1>3 DEF Finish, FinishUnanswered, Moves, KnownInv
  <2>2. QED
    BY <1>3, <2>1 DEF Finish, FinishUnanswered, Store, row
<1>4. UNCHANGED answer \/ Log(h) \/ LogUnanswered(h) \/ Finish(h) \/ FinishUnanswered(h)
  BY <1>1 DEF Execute, Suffer, Create, Refuse, Open, Record, RetrieveFails, GenerateFails, Enqueue,
              Fail, Push, Disconnect, CreateUnanswered, RecordUnanswered, FailUnanswered,
              PushUnanswered, Crash, row
<1>5. QED
  BY <1>2, <1>3, <1>4

-----------------------------------------------------------------------------
(* All parts of the invariant hold in every reachable state. *)
THEOREM Invariance == Spec => []IInv
<1>1. Init => IInv
  <2> SUFFICES ASSUME Init PROVE IInv
    OBVIOUS
  <2> USE RunAssumption DEF Init, Steps, Active
  <2>1. TypeOK
    BY DEF TypeOK, Runs, Handlers
  <2>2. KnownInv
    BY DEF KnownInv, Runs, Handlers
  <2>3. StoredInv /\ QueueInv
    BY DEF StoredInv, QueueInv, AnswersAreQueued
  <2>4. SoloInv /\ EvidenceInv
    BY DEF SoloInv, EvidenceInv
  <2>5. AnswersMatchEvidence /\ ComparisonsEnd
    BY DEF AnswersMatchEvidence, ComparisonsEnd, Runs, Handlers
  <2>6. QED
    BY <2>1, <2>2, <2>3, <2>4, <2>5 DEF IInv
<1>2. IInv /\ [Next]_vars => IInv'
  BY TypeStep, KnownStep, StoredStep, QueueStep, SoloStep, EvidenceStep, MatchStep, ComparisonStep
  DEF IInv
<1>3. QED
  BY <1>1, <1>2, PTL DEF Spec

(* The rows, the executions and the queue keep their types. *)
THEOREM TypeCorrect == Spec => []TypeOK
<1>1. IInv => TypeOK
  BY DEF IInv
<1>2. QED
  BY <1>1, Invariance, PTL

(* The chunks of a run are those of its answer, unless executions overlapped, *)
(* a later one broke off, or the answer's own command failed.                 *)
THEOREM EvidenceIsKept == Spec => []AnswersMatchEvidence
<1>1. IInv => AnswersMatchEvidence
  BY DEF IInv
<1>2. QED
  BY <1>1, Invariance, PTL

(* What a client was told to be done, and what is queued for evaluation, is   *)
(* final and has an answer, unless its own database command failed.           *)
THEOREM DoneIsTrue == Spec => []DoneIsStored
<1>1. IInv => DoneIsStored
  BY DEF IInv, TypeOK, StoredInv, QueueInv, AnswersAreQueued, DoneIsStored
<1>2. QED
  BY <1>1, Invariance, PTL

(* The run of an answered comparison is completed or failed.                  *)
THEOREM ComparisonsAreFinal == Spec => []ComparisonsEnd
<1>1. IInv => ComparisonsEnd
  BY DEF IInv
<1>2. QED
  BY <1>1, Invariance, PTL

(* Exactly the whole answers are queued for evaluation.                       *)
THEOREM QueueIsExact == Spec => []AnswersAreQueued
<1>1. IInv => AnswersAreQueued
  BY DEF IInv, QueueInv
<1>2. QED
  BY <1>1, Invariance, PTL

(* A partial text never replaces the answer of a query.                       *)
THEOREM AnswersAreWhole == Spec => WholeAnswersOnly
<1> DEFINE Step == \A r \in Blocking \cup Deferred : answer'[r] # answer[r] =>
                     answer'[r] \in streamed' /\ counts'[r] = answer'[r]
<1>1. IInv /\ [Next]_vars => [Step]_vars
  <2> SUFFICES ASSUME IInv, Next PROVE Step
    OBVIOUS
  <2>1. QED
    BY WholeStep
<1>2. QED
  BY <1>1, Invariance, PTL DEF Spec, WholeAnswersOnly
=============================================================================
