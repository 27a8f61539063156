---------------------------- MODULE BrokerJobProofs ----------------------------
(***************************************************************************)
(* Theorems of the job thread and its record (BrokerJob), for every number *)
(* of stages, progress events, broker lives and failing store calls, in    *)
(* either journal mode, with or without checkpoints.                       *)
(***************************************************************************)
EXTENDS BrokerJob, TLAPS

(* What the thread holds in its hands, in the first life: neither the local *)
(* length nor the open transaction is ahead of the log.                     *)
HeldIsNotAhead ==
  life <= 1 =>
    /\ pc \in {"begin", "record_finished"} => held <= Len(log)
    /\ pc = "commit" => txn.lastSeq <= Len(log)

(* Before the first broker there is no record.                              *)
NoLifeNoRecord == life = 0 => pc = "idle" /\ db.lastSeq = 0

(* At the end of run nothing is pushed between reading the length and       *)
(* recording it, nor between recording it and JobComplete; a record that    *)
(* already said "completed" was made "running" again when the job started.  *)
FinalPoint ==
  /\ pc = "record_finished" => held = Len(log)
  /\ pc \in {"final_checkpoint", "push_complete"} /\ db.status = "completed" =>
       db.lastSeq = Len(log)
  /\ pc \in {"record_start", "push_started", "tick", "begin", "commit", "checkpoint",
             "push_done", "read_final", "record_finished"} => db.status # "completed"
  /\ pc = "commit" => txn.status # "completed"

FinishedAtEnd == finished => pc \in {"ended", "closed", "idle"} /\ Len(log) > 0

IInv ==
  /\ TypeOK
  /\ NoLifeNoRecord
  /\ HeldIsNotAhead
  /\ ResumePointNeverAhead
  /\ FinalPoint
  /\ FinishedAtEnd
  /\ CompletionTrailsByOne

-------------------------------------------------------------------------------
(* Type correctness.                                                        *)

(* The events the thread pushes are events.                                 *)
LEMMA EventsAreEvents ==
  ASSUME NEW s \in Stages
  PROVE  /\ \A state \in {"started", "progress", "done"} : StageEvent(s, state) \in Event
         /\ JobComplete \in Event
BY JobAssumption DEF StageEvent, JobComplete, Event, Stages

(* A push makes the log one event longer (job.rs, push).                    *)
LEMMA PushAppends ==
  ASSUME TypeOK, NEW event \in Event, Push(event)
  PROVE  log' \in Seq(Event) /\ Len(log') = Len(log) + 1
BY DEF TypeOK, Push

(* A store call leaves a record behind, whether it fails or not (state.rs). *)
LEMMA StoresRecord ==
  ASSUME TypeOK, NEW record \in Record, Stores(record)
  PROVE  /\ db' \in {db, record}
         /\ db' \in Record /\ mainFile' \in Record
         /\ faults' \in 0..MaxStoreFaults
BY JobAssumption DEF TypeOK, Stores, Written, StoreFails

(* A checkpoint changes the main file only (state.rs, checkpoint).          *)
LEMMA FoldsRecord ==
  ASSUME TypeOK, Folds
  PROVE  /\ db' = db
         /\ mainFile' \in Record
         /\ faults' \in 0..MaxStoreFaults
BY JobAssumption DEF TypeOK, Folds, StoreFails

(* The records the thread writes are records.                               *)
LEMMA WritesRecords ==
  ASSUME TypeOK
  PROVE  /\ OpenRecord \in Record
         /\ StageRecord \in Record
         /\ [db EXCEPT !.started = @ \cup {stage}] \in Record
         /\ [db EXCEPT !.status = "completed", !.lastSeq = held] \in Record
         /\ NoRecord \in Record
BY DEF TypeOK, Record, OpenRecord, StageRecord, NoRecord

LEMMA EmptyLogIsALog == <<>> \in Seq(Event)
OBVIOUS

LEMMA TypeInit == Init => TypeOK
<1> SUFFICES ASSUME Init PROVE TypeOK
  OBVIOUS
<1>1. stage \in Stages /\ pc \in Points
  BY JobAssumption DEF JobAssumption, Init, Stages, Points
<1>2. NoRecord \in Record
  BY DEF NoRecord, Record
<1>3. ticks \in 0..TicksPerStage /\ life \in 0..MaxLives /\ faults \in 0..MaxStoreFaults
  BY JobAssumption DEF JobAssumption, Init
<1> QED
  BY <1>1, <1>2, <1>3, EmptyLogIsALog DEF Init, TypeOK

LEMMA TypeStep == TypeOK /\ [Next]_vars => TypeOK'
<1> SUFFICES ASSUME TypeOK, [Next]_vars PROVE TypeOK'
  OBVIOUS
<1> USE JobAssumption
<1>1. CASE StartJob
  <2>1. OpenRecord \in Record
    BY WritesRecords
  <2>2. 1 \in Stages
    BY DEF JobAssumption, Stages
  <2>3. life' \in 0..MaxLives /\ ticks' \in 0..TicksPerStage
    BY <1>1 DEF JobAssumption, StartJob, TypeOK
  <2> QED
    BY <1>1, <2>1, <2>2, <2>3, EmptyLogIsALog DEF StartJob, TypeOK, Written, Goto, Points
<1>2. CASE RecordStart
  <2>1. Stores([db EXCEPT !.started = @ \cup {stage}])
    BY <1>2 DEF RecordStart
  <2>2. db' \in Record /\ mainFile' \in Record /\ faults' \in 0..MaxStoreFaults
    BY <2>1, WritesRecords, StoresRecord
  <2> QED
    BY <1>2, <2>2 DEF RecordStart, TypeOK, Goto, Points, wire
<1>3. CASE PushStarted
  <2>1. log' \in Seq(Event)
    BY <1>3, EventsAreEvents, PushAppends DEF PushStarted, TypeOK
  <2> QED
    BY <1>3, <2>1 DEF PushStarted, TypeOK, Goto, Points, store
<1>4. CASE PushProgress
  <2>1. log' \in Seq(Event)
    BY <1>4, EventsAreEvents, PushAppends DEF PushProgress, TypeOK
  <2> QED
    BY <1>4, <2>1 DEF PushProgress, TypeOK, Goto, Points, store
<1>5. CASE ReadResumePoint
  BY <1>5 DEF ReadResumePoint, TypeOK, Goto, Points, store, wire
<1>6. CASE BeginStageCommit
  <2>1. txn' \in Record /\ faults' \in 0..MaxStoreFaults /\ UNCHANGED <<db, mainFile>>
    BY <1>6, WritesRecords DEF BeginStageCommit, StoreFails, TypeOK
  <2> QED
    BY <1>6, <2>1 DEF BeginStageCommit, TypeOK, Goto, Points, wire
<1>7. CASE CommitStage
  <2>1. db' \in Record /\ mainFile' \in Record /\ faults' \in 0..MaxStoreFaults
    BY <1>7, StoresRecord DEF CommitStage, TypeOK
  <2>2. txn' \in Record
    BY <1>7, WritesRecords DEF CommitStage
  <2> QED
    BY <1>7, <2>1, <2>2 DEF CommitStage, TypeOK, Goto, Points, wire
<1>8. CASE CheckpointStage
  BY <1>8, FoldsRecord DEF CheckpointStage, TypeOK, Goto, Points, wire
<1>9. CASE PushDone
  <2>1. log' \in Seq(Event)
    BY <1>9, EventsAreEvents, PushAppends DEF PushDone, TypeOK
  <2>2. stage' \in Stages /\ pc' \in Points
    BY <1>9 DEF PushDone, TypeOK, Goto, Points, Stages
  <2> QED
    BY <1>9, <2>1, <2>2 DEF PushDone, TypeOK, store
<1>10. CASE ReadFinalPoint
  BY <1>10 DEF ReadFinalPoint, TypeOK, Goto, Points, store, wire
<1>11. CASE RecordFinished
  <2>1. Stores([db EXCEPT !.status = "completed", !.lastSeq = held])
    BY <1>11 DEF RecordFinished
  <2>2. db' \in Record /\ mainFile' \in Record /\ faults' \in 0..MaxStoreFaults
    BY <2>1, WritesRecords, StoresRecord
  <2> QED
    BY <1>11, <2>2 DEF RecordFinished, TypeOK, Goto, Points, wire
<1>12. CASE FinalCheckpoint
  BY <1>12, FoldsRecord DEF FinalCheckpoint, TypeOK, Goto, Points, wire
<1>13. CASE PushComplete
  <2>1. log' \in Seq(Event)
    BY <1>13, EventsAreEvents, PushAppends DEF PushComplete, TypeOK
  <2> QED
    BY <1>13, <2>1 DEF PushComplete, TypeOK, Goto, Points, store
<1>14. CASE CloseStore
  BY <1>14 DEF CloseStore, TypeOK, Goto, Points, wire
<1>15. CASE BrokerDies
  BY <1>15, WritesRecords DEF BrokerDies, TypeOK, Goto, Points, wire
<1>16. CASE UNCHANGED vars
  BY <1>16 DEF vars, TypeOK
<1> QED
  BY <1>1, <1>2, <1>3, <1>4, <1>5, <1>6, <1>7, <1>8, <1>9, <1>10, <1>11, <1>12,
     <1>13, <1>14, <1>15, <1>16 DEF Next, JobStep

(* The thread and the store keep their types, whatever fails and whenever   *)
(* the broker dies (job.rs, run; state.rs).                                 *)
THEOREM TypeCorrect == Spec => []TypeOK
<1>1. Init => TypeOK
  BY TypeInit
<1>2. TypeOK /\ [Next]_vars => TypeOK'
  BY TypeStep
<1> QED
  BY <1>1, <1>2, PTL DEF Spec

-------------------------------------------------------------------------------
(* The inductive invariant.                                                 *)

LEMMA IInvInit == Init => IInv
<1> SUFFICES ASSUME Init PROVE IInv
  OBVIOUS
<1>1. TypeOK
  BY TypeInit
<1>2. HeldIsNotAhead /\ FinalPoint /\ FinishedAtEnd
  BY DEF Init, HeldIsNotAhead, FinalPoint, FinishedAtEnd
<1>3. NoLifeNoRecord /\ ResumePointNeverAhead /\ CompletionTrailsByOne
  BY DEF Init, NoLifeNoRecord, NoRecord, ResumePointNeverAhead, CompletionTrailsByOne, JobState
<1> QED
  BY <1>1, <1>2, <1>3 DEF IInv

(* A step that pushes one event and leaves the record and the flag alone,   *)
(* between points where nothing is held, keeps the invariant.               *)
LEMMA PushKeepsIInv ==
  ASSUME IInv, TypeOK', NEW event \in Event, Push(event),
         pc \in {"push_started", "tick", "push_done"},
         pc' \in {"tick", "record_start", "read_final"},
         UNCHANGED <<finished, txn, db, life>>
  PROVE  IInv'
<1>1. Len(log') = Len(log) + 1 /\ Len(log) \in Nat
  BY PushAppends DEF IInv, TypeOK
<1>2. ~finished
  BY DEF IInv, FinishedAtEnd
<1>3. db.lastSeq \in Nat /\ life # 0 /\ db.status # "completed"
  BY DEF IInv, TypeOK, Record, NoLifeNoRecord, FinalPoint
<1> QED
  BY <1>1, <1>2, <1>3 DEF IInv, HeldIsNotAhead, ResumePointNeverAhead, NoLifeNoRecord,
     FinalPoint, FinishedAtEnd, CompletionTrailsByOne, JobState

(* Every step keeps the invariant, one case per action.                     *)
LEMMA IInvStep == IInv /\ [Next]_vars => IInv'
<1> SUFFICES ASSUME IInv, [Next]_vars PROVE IInv'
  OBVIOUS
<1>t. TypeOK /\ TypeOK'
  BY TypeStep DEF IInv
<1>n. Len(log) \in Nat /\ db.lastSeq \in Nat /\ held \in Nat /\ life \in Nat
  BY <1>t DEF TypeOK, Record
<1> USE DEF IInv, NoLifeNoRecord, HeldIsNotAhead, ResumePointNeverAhead, FinalPoint,
            FinishedAtEnd, CompletionTrailsByOne, JobState, Goto, wire, store
<1>1. CASE StartJob
  <2>1. log' = <<>> /\ life' = life + 1 /\ ~finished' /\ pc' = "record_start"
    BY <1>1 DEF StartJob
  <2>2. db'.lastSeq = db.lastSeq /\ db'.status = "running"
    BY <1>1, <1>t DEF StartJob, Written, OpenRecord, TypeOK, Record
  <2> QED
    BY <1>t, <1>n, <2>1, <2>2
<1>2. CASE RecordStart
  <2>1. db'.lastSeq = db.lastSeq /\ db'.status = db.status
    <3>1. Stores([db EXCEPT !.started = @ \cup {stage}])
      BY <1>2 DEF RecordStart
    <3>2. db' \in {db, [db EXCEPT !.started = @ \cup {stage}]}
      BY <1>t, <3>1, WritesRecords, StoresRecord
    <3>3. db \in Record
      BY <1>t DEF TypeOK
    <3> QED
      BY <3>2, <3>3 DEF Record
  <2>2. /\ pc = "record_start" /\ pc' = "push_started"
        /\ UNCHANGED <<log, finished, life>>
    BY <1>2 DEF RecordStart
  <2> QED
    BY <1>t, <1>n, <2>1, <2>2
<1>3. CASE PushStarted
  BY <1>3, <1>t, EventsAreEvents, PushKeepsIInv DEF PushStarted, TypeOK
<1>4. CASE PushProgress
  BY <1>4, <1>t, EventsAreEvents, PushKeepsIInv DEF PushProgress, TypeOK
<1>5. CASE ReadResumePoint
  BY <1>5, <1>t, <1>n DEF ReadResumePoint
<1>6. CASE BeginStageCommit
  <2>1. CASE txn' = StageRecord /\ pc' = "commit" /\ UNCHANGED <<db, mainFile, faults>>
    <3>1. txn'.lastSeq = held /\ txn'.status = db.status
      BY <2>1, <1>t DEF StageRecord, TypeOK, Record
    <3> QED
      BY <1>6, <1>t, <1>n, <2>1, <3>1 DEF BeginStageCommit
  <2>2. CASE StoreFails /\ pc' = "checkpoint" /\ UNCHANGED txn
    BY <1>6, <1>t, <1>n, <2>2 DEF BeginStageCommit, StoreFails
  <2> QED
    BY <1>6, <2>1, <2>2 DEF BeginStageCommit
<1>7. CASE CommitStage
  <2>1. db' \in {db, txn}
    BY <1>7, <1>t, StoresRecord DEF CommitStage, TypeOK
  <2>2. pc = "commit" /\ pc' = "checkpoint" /\ UNCHANGED <<log, finished, life>>
    BY <1>7 DEF CommitStage
  <2> QED
    BY <1>t, <1>n, <2>1, <2>2
<1>8. CASE CheckpointStage
  BY <1>8, <1>t, <1>n, FoldsRecord DEF CheckpointStage
<1>9. CASE PushDone
  <2>1. pc' \in {"record_start", "read_final"}
    BY <1>9 DEF PushDone
  <2> QED
    BY <1>9, <1>t, <2>1, EventsAreEvents, PushKeepsIInv DEF PushDone, TypeOK
<1>10. CASE ReadFinalPoint
  BY <1>10, <1>t, <1>n DEF ReadFinalPoint
<1>11. CASE RecordFinished
  <2>1. db' \in {db, [db EXCEPT !.status = "completed", !.lastSeq = held]}
    BY <1>11, <1>t, WritesRecords, StoresRecord DEF RecordFinished
  <2>2. /\ pc = "record_finished" /\ pc' = "final_checkpoint"
        /\ UNCHANGED <<log, finished, held, life>>
    BY <1>11 DEF RecordFinished
  <2>3. \/ db'.lastSeq = held
        \/ db'.lastSeq = db.lastSeq /\ db'.status = db.status
    BY <1>t, <2>1 DEF TypeOK, Record
  <2> QED
    BY <1>t, <1>n, <2>2, <2>3
<1>12. CASE FinalCheckpoint
  BY <1>12, <1>t, <1>n, FoldsRecord DEF FinalCheckpoint
<1>13. CASE PushComplete
  <2>1. Len(log') = Len(log) + 1
    BY <1>13, <1>t, EventsAreEvents, PushAppends DEF PushComplete, TypeOK
  <2> QED
    BY <1>13, <1>t, <1>n, <2>1 DEF PushComplete
<1>14. CASE CloseStore
  BY <1>14, <1>t, <1>n DEF CloseStore
<1>15. CASE BrokerDies
  BY <1>15, <1>t, <1>n DEF BrokerDies
<1>16. CASE UNCHANGED vars
  BY <1>16, <1>t DEF vars
<1> QED
  BY <1>1, <1>2, <1>3, <1>4, <1>5, <1>6, <1>7, <1>8, <1>9, <1>10, <1>11, <1>12,
     <1>13, <1>14, <1>15, <1>16 DEF Next, JobStep

(* The recorded resume point never lies beyond what was pushed, so that a   *)
(* UI recovering from the record misses nothing (job.rs, run).              *)
THEOREM ResumePointIsSafe == Spec => []ResumePointNeverAhead
<1>1. IInv => ResumePointNeverAhead
  BY DEF IInv
<1> QED
  BY <1>1, IInvInit, IInvStep, PTL DEF Spec

(* A completed record trails the complete log by exactly JobComplete,       *)
(* whichever life completed it and whatever failed before (job.rs, run).    *)
THEOREM CompletionIsExact == Spec => []CompletionTrailsByOne
<1>1. IInv => CompletionTrailsByOne
  BY DEF IInv
<1> QED
  BY <1>1, IInvInit, IInvStep, PTL DEF Spec

-------------------------------------------------------------------------------
(* The log the thread builds is the abstract log.                           *)

(* Where the thread is tells how long the log is: so many whole stages, and *)
(* of the current one what has been pushed (job.rs, run).                   *)
LengthFollows ==
  /\ pc \in {"record_start", "push_started"} =>
       Len(log) = (stage - 1) * EventsPerStage
  /\ pc = "tick" => Len(log) = (stage - 1) * EventsPerStage + 1 + ticks
  /\ pc \in {"begin", "commit", "checkpoint", "push_done"} =>
       Len(log) = (stage - 1) * EventsPerStage + 1 + TicksPerStage
  /\ pc \in {"read_final", "record_finished", "final_checkpoint", "push_complete"} =>
       Len(log) = NumStages * EventsPerStage
  /\ pc # "idle" => (finished <=> pc \in {"ended", "closed"})

(* Stages are whole: before the last event of any stage the log is shorter  *)
(* than all the stages together.                                            *)
LEMMA WholeStages ==
  ASSUME NEW s \in Stages
  PROVE  /\ EventsPerStage \in Nat /\ EventsPerStage >= 2
         /\ (s - 1) * EventsPerStage \in Nat
         /\ s * EventsPerStage = (s - 1) * EventsPerStage + EventsPerStage
         /\ s * EventsPerStage <= NumStages * EventsPerStage
         /\ NumStages * EventsPerStage \in Nat
<1>1. NumStages \in Nat /\ s \in Nat /\ 1 <= s /\ s <= NumStages
  BY JobAssumption DEF JobAssumption, Stages
<1>2. EventsPerStage \in Nat /\ EventsPerStage >= 2
  BY JobAssumption DEF JobAssumption, EventsPerStage
<1>3. ASSUME NEW e \in Nat
      PROVE  /\ (s - 1) * e \in Nat
             /\ s * e = (s - 1) * e + e
             /\ s * e <= NumStages * e
             /\ NumStages * e \in Nat
  BY <1>1
<1> QED
  BY <1>2, <1>3

LEMMA LengthStep == TypeOK /\ LengthFollows /\ [Next]_vars => LengthFollows'
<1> SUFFICES ASSUME TypeOK, LengthFollows, [Next]_vars PROVE LengthFollows'
  OBVIOUS
<1> USE DEF LengthFollows, Goto
<1>s. TypeOK' /\ stage \in Stages /\ ticks \in Nat /\ TicksPerStage \in Nat /\ Len(log) \in Nat
  BY TypeStep, JobAssumption DEF TypeOK, JobAssumption
<1>e. /\ EventsPerStage \in Nat
      /\ (stage - 1) * EventsPerStage \in Nat
      /\ stage * EventsPerStage = (stage - 1) * EventsPerStage + EventsPerStage
      /\ EventsPerStage = TicksPerStage + 2
  BY <1>s, WholeStages DEF EventsPerStage
<1>1. CASE StartJob
  <2>1. stage' = 1 /\ pc' = "record_start" /\ Len(log') = 0 /\ ~finished'
    BY <1>1 DEF StartJob
  <2>2. (stage' - 1) * EventsPerStage = 0
    BY <2>1, <1>e
  <2> QED
    BY <2>1, <2>2
<1>2. CASE RecordStart
  BY <1>2 DEF RecordStart, wire
<1>3. CASE PushStarted
  <2>1. Len(log') = Len(log) + 1
    BY <1>3, EventsAreEvents, PushAppends DEF PushStarted, TypeOK
  <2> QED
    BY <1>3, <2>1, <1>s, <1>e DEF PushStarted
<1>4. CASE PushProgress
  <2>1. Len(log') = Len(log) + 1
    BY <1>4, EventsAreEvents, PushAppends DEF PushProgress, TypeOK
  <2> QED
    BY <1>4, <2>1, <1>s, <1>e DEF PushProgress
<1>5. CASE ReadResumePoint
  BY <1>5, <1>s, <1>e DEF ReadResumePoint, wire
<1>6. CASE BeginStageCommit
  BY <1>6 DEF BeginStageCommit, wire
<1>7. CASE CommitStage
  BY <1>7 DEF CommitStage, wire
<1>8. CASE CheckpointStage
  BY <1>8 DEF CheckpointStage, wire
<1>9. CASE PushDone
  <2>1. Len(log') = Len(log) + 1
    BY <1>9, EventsAreEvents, PushAppends DEF PushDone, TypeOK
  <2>2. Len(log) = (stage - 1) * EventsPerStage + 1 + TicksPerStage /\ ~finished
    BY <1>9 DEF PushDone
  <2>3. Len(log') = stage * EventsPerStage
    BY <2>1, <2>2, <1>s, <1>e
  <2>4. CASE stage < NumStages
    <3>1. stage' - 1 = stage /\ pc' = "record_start"
      BY <1>9, <2>4, <1>s DEF PushDone, Stages
    <3> QED
      BY <1>9, <2>2, <2>3, <3>1 DEF PushDone
  <2>5. CASE ~(stage < NumStages)
    <3>1. stage = NumStages /\ pc' = "read_final"
      BY <1>9, <2>5, <1>s, JobAssumption DEF PushDone, Stages, JobAssumption
    <3> QED
      BY <1>9, <2>2, <2>3, <3>1 DEF PushDone
  <2> QED
    BY <2>4, <2>5
<1>10. CASE ReadFinalPoint
  BY <1>10 DEF ReadFinalPoint, wire
<1>11. CASE RecordFinished
  BY <1>11 DEF RecordFinished, wire
<1>12. CASE FinalCheckpoint
  BY <1>12 DEF FinalCheckpoint, wire
<1>13. CASE PushComplete
  <2>1. Len(log') = Len(log) + 1
    BY <1>13, <1>s, EventsAreEvents, PushAppends DEF PushComplete, TypeOK
  <2> QED
    BY <1>13, <2>1 DEF PushComplete
<1>14. CASE CloseStore
  BY <1>14 DEF CloseStore, wire
<1>15. CASE BrokerDies
  BY <1>15 DEF BrokerDies
<1>16. CASE UNCHANGED vars
  BY <1>16 DEF vars
<1> QED
  BY <1>1, <1>2, <1>3, <1>4, <1>5, <1>6, <1>7, <1>8, <1>9, <1>10, <1>11, <1>12,
     <1>13, <1>14, <1>15, <1>16 DEF Next, JobStep

(* A stage event is pushed while the log is short of its end, JobComplete   *)
(* exactly at its end, and every other step leaves the log alone.           *)
LEMMA LogStep ==
  TypeOK /\ LengthFollows /\ [Next]_vars => [TheLog!LogNext]_(TheLog!logVars)
<1> SUFFICES ASSUME TypeOK, LengthFollows, [Next]_vars
             PROVE  [TheLog!LogNext]_(TheLog!logVars)
  OBVIOUS
<1> USE DEF LengthFollows, TheLog!LogNext, TheLog!logVars
<1>s. stage \in Stages /\ ticks \in Nat /\ TicksPerStage \in Nat /\ Len(log) \in Nat
  BY JobAssumption DEF TypeOK, JobAssumption
<1>e. /\ (stage - 1) * EventsPerStage \in Nat
      /\ (stage - 1) * EventsPerStage + TicksPerStage + 2 <= NumStages * EventsPerStage
      /\ NumStages * EventsPerStage \in Nat
  BY <1>s, WholeStages DEF EventsPerStage
<1>1. CASE StartJob
  BY <1>1 DEF StartJob, TheLog!NewLog
<1>2. CASE PushStarted
  <2>1. Len(log') = Len(log) + 1
    BY <1>2, EventsAreEvents, PushAppends DEF PushStarted, TypeOK
  <2> QED
    BY <1>2, <2>1, <1>s, <1>e DEF PushStarted, TheLog!PushStageEvent
<1>3. CASE PushProgress
  <2>1. Len(log') = Len(log) + 1
    BY <1>3, EventsAreEvents, PushAppends DEF PushProgress, TypeOK
  <2> QED
    BY <1>3, <2>1, <1>s, <1>e DEF PushProgress, TheLog!PushStageEvent
<1>4. CASE PushDone
  <2>1. Len(log') = Len(log) + 1
    BY <1>4, EventsAreEvents, PushAppends DEF PushDone, TypeOK
  <2> QED
    BY <1>4, <2>1, <1>s, <1>e DEF PushDone, TheLog!PushStageEvent
<1>5. CASE PushComplete
  <2>1. Len(log') = Len(log) + 1
    BY <1>5, EventsAreEvents, PushAppends, <1>s DEF PushComplete, TypeOK
  <2> QED
    BY <1>5, <2>1, <1>s, <1>e DEF PushComplete, TheLog!PushJobComplete
<1>6. CASE UNCHANGED wire
  BY <1>6 DEF wire
<1>7. \/ StartJob \/ PushStarted \/ PushProgress \/ PushDone \/ PushComplete
      \/ UNCHANGED wire
  BY DEF Next, JobStep, vars, wire, RecordStart, ReadResumePoint, BeginStageCommit,
         CommitStage, CheckpointStage, ReadFinalPoint, RecordFinished, FinalCheckpoint,
         CloseStore, BrokerDies
<1> QED
  BY <1>1, <1>2, <1>3, <1>4, <1>5, <1>6, <1>7

(* The thread, its store and its broker's kills implement the abstract      *)
(* event log: it grows by one event at a time up to JobComplete, which      *)
(* comes with the flag and last, and a restart begins another (job.rs, run  *)
(* and push).                                                               *)
THEOREM RefinesEventLog == Spec => ImplementsEventLog
<1>1. Init => LengthFollows /\ TheLog!EmptyLog
  BY DEF Init, LengthFollows, TheLog!EmptyLog
<1>2. TypeOK /\ LengthFollows /\ [Next]_vars => LengthFollows'
  BY LengthStep
<1>3. TypeOK /\ LengthFollows /\ [Next]_vars => [TheLog!LogNext]_(TheLog!logVars)
  BY LogStep
<1> QED
  BY <1>1, <1>2, <1>3, TypeCorrect, PTL DEF Spec, ImplementsEventLog, TheLog!LogSpec

-------------------------------------------------------------------------------
(* The record next to the log, while no store call has failed.              *)

(* Points at which the thread is in the middle of a stage: before its start *)
(* is on record, with it, with its end, and past the last stage.            *)
AtStart    == {"record_start"}
InStage    == {"push_started", "tick", "begin", "commit"}
StageEnded == {"checkpoint", "push_done"}
PastStages == {"read_final", "record_finished", "final_checkpoint", "push_complete",
               "ended", "closed"}

(* What a failing store call would break: the row a stage's end is written  *)
(* to is there, what commit will write is what it was told to write, and    *)
(* the main file is behind the database but never something else.           *)
RowsFollow ==
  faults = 0 =>
    /\ pc \in InStage \cup StageEnded => stage \in db.started
    /\ pc = "commit" => txn = StageRecord
    /\ pc \in StageEnded => stage \in db.ended
    /\ pc = "push_done" /\ (Checkpoint \/ ~Wal) => stage \in mainFile.ended
    /\ mainFile.ended \subseteq db.ended
    /\ ~Wal => mainFile = db
    /\ pc \in {"final_checkpoint", "push_complete", "ended", "closed"} =>
         db.status = "completed"
    /\ pc \in {"push_complete", "ended", "closed"} /\ (Checkpoint \/ ~Wal) =>
         mainFile.status = "completed"

DoneIsOnDisk ==
  faults = 0 =>
    \A s \in Stages : OnTheWire(StageEvent(s, "done")) =>
      /\ s \in db.ended
      /\ Checkpoint \/ ~Wal => s \in mainFile.ended

(* What is on the wire after a push is what was there and the event pushed. *)
LEMMA WireAfterPush ==
  ASSUME TypeOK, NEW event \in Event, Push(event), NEW e
  PROVE  OnTheWire(e)' <=> OnTheWire(e) \/ e = event
<1>1. Len(log) \in Nat /\ Len(log') = Len(log) + 1
  BY PushAppends DEF TypeOK
<1>2. /\ \A i \in 1..Len(log) : log'[i] = log[i]
      /\ log'[Len(log) + 1] = event
  BY DEF Push, TypeOK
<1> QED
  BY <1>1, <1>2 DEF OnTheWire

(* Of the events pushed only "done" announces a stage.                      *)
LEMMA Announcements ==
  ASSUME NEW s \in Stages, NEW t \in Stages
  PROVE  /\ StageEvent(s, "done") # StageEvent(t, "started")
         /\ StageEvent(s, "done") # StageEvent(t, "progress")
         /\ StageEvent(s, "done") # JobComplete
         /\ StageEvent(s, "done") = StageEvent(t, "done") => s = t
BY DEF StageEvent, JobComplete

(* Failures are counted, lives too.                                         *)
LEMMA CountersGrow ==
  ASSUME TypeOK, [Next]_vars
  PROVE  /\ faults' = faults \/ faults' = faults + 1
         /\ life' = life \/ StartJob
         /\ faults' = 0 => faults = 0 /\ ~StoreFails
<1>1. faults \in Nat
  BY JobAssumption DEF TypeOK, JobAssumption
<1>2. /\ faults' = faults \/ faults' = faults + 1
      /\ life' = life \/ StartJob
  BY DEF Next, JobStep, StartJob, RecordStart, PushStarted, PushProgress, ReadResumePoint,
         BeginStageCommit, CommitStage, CheckpointStage, PushDone, ReadFinalPoint,
         RecordFinished, FinalCheckpoint, PushComplete, CloseStore, BrokerDies, vars,
         Stores, StoreFails, Folds
<1> QED
  BY <1>1, <1>2 DEF StoreFails

(* A step that pushes no event and takes no end away keeps what is on disk. *)
LEMMA DoneIsKept ==
  ASSUME DoneIsOnDisk, faults = 0, log' = log \/ log' = <<>>,
         db.ended \subseteq db'.ended, mainFile.ended \subseteq mainFile'.ended
  PROVE  DoneIsOnDisk'
<1>1. \A e : OnTheWire(e)' => OnTheWire(e)
  BY DEF OnTheWire
<1> QED
  BY <1>1 DEF DoneIsOnDisk

(* Pushing "done" for a stage whose end is on disk keeps the announcements  *)
(* true; pushing anything else announces nothing.                           *)
LEMMA PushKeepsDone ==
  ASSUME TypeOK, DoneIsOnDisk, faults = 0, NEW event \in Event, Push(event),
         UNCHANGED <<db, mainFile>>,
         \/ \A s \in Stages : event # StageEvent(s, "done")
         \/ /\ event = StageEvent(stage, "done")
            /\ stage \in db.ended
            /\ Checkpoint \/ ~Wal => stage \in mainFile.ended
  PROVE  DoneIsOnDisk'
<1> SUFFICES ASSUME NEW s \in Stages, OnTheWire(StageEvent(s, "done"))'
             PROVE  s \in db.ended /\ (Checkpoint \/ ~Wal => s \in mainFile.ended)
  BY DEF DoneIsOnDisk
<1>1. CASE OnTheWire(StageEvent(s, "done"))
  BY <1>1 DEF DoneIsOnDisk
<1>2. CASE StageEvent(s, "done") = event
  BY <1>2, Announcements DEF TypeOK
<1> QED
  BY <1>1, <1>2, WireAfterPush

(* While nothing has failed, rows and main file follow the thread.          *)
LEMMA RowsFollowStep ==
  ASSUME TypeOK, RowsFollow, DoneIsOnDisk, [Next]_vars
  PROVE  RowsFollow' /\ DoneIsOnDisk'
<1> SUFFICES ASSUME faults' = 0 PROVE RowsFollow' /\ DoneIsOnDisk'
  BY DEF RowsFollow, DoneIsOnDisk
<1>f. faults = 0 /\ ~StoreFails
  BY CountersGrow
<1>t. TypeOK' /\ db \in Record /\ mainFile \in Record /\ txn \in Record /\ stage \in Stages
  BY TypeStep DEF TypeOK
<1> USE <1>f DEF RowsFollow, InStage, StageEnded, Goto
<1>1. CASE StartJob
  <2>1. /\ db'.ended = db.ended /\ log' = <<>> /\ pc' = "record_start"
        /\ mainFile' = (IF Wal THEN mainFile ELSE db')
    BY <1>1, <1>t DEF StartJob, Written, OpenRecord, Record
  <2> QED
    BY <2>1, DoneIsKept
<1>2. CASE RecordStart
  <2>1. /\ db' = [db EXCEPT !.started = @ \cup {stage}]
        /\ mainFile' = (IF Wal THEN mainFile ELSE db')
    BY <1>2 DEF RecordStart, Stores, Written
  <2>2. db'.ended = db.ended /\ db'.status = db.status /\ stage \in db'.started
    BY <2>1, <1>t DEF Record
  <2>3. log' = log /\ stage' = stage /\ pc' = "push_started" /\ pc = "record_start"
    BY <1>2 DEF RecordStart, wire
  <2> QED
    BY <2>1, <2>2, <2>3, DoneIsKept
<1>3. CASE PushStarted
  <2>1. DoneIsOnDisk'
    BY <1>3, <1>t, EventsAreEvents, Announcements, PushKeepsDone DEF PushStarted, store
  <2> QED
    BY <1>3, <2>1 DEF PushStarted, store
<1>4. CASE PushProgress
  <2>1. DoneIsOnDisk'
    BY <1>4, <1>t, EventsAreEvents, Announcements, PushKeepsDone DEF PushProgress, store
  <2> QED
    BY <1>4, <2>1 DEF PushProgress, store
<1>5. CASE ReadResumePoint
  BY <1>5, DoneIsKept DEF ReadResumePoint, wire, store
<1>6. CASE BeginStageCommit
  <2>1. /\ txn' = StageRecord /\ pc' = "commit"
        /\ UNCHANGED <<db, mainFile, log, stage, held>>
    BY <1>6 DEF BeginStageCommit, wire
  <2>2. StageRecord' = StageRecord
    BY <2>1 DEF StageRecord
  <2> QED
    BY <1>6, <2>1, <2>2, DoneIsKept DEF BeginStageCommit
<1>7. CASE CommitStage
  <2>1. /\ db' = StageRecord /\ pc = "commit" /\ pc' = "checkpoint"
        /\ mainFile' = (IF Wal THEN mainFile ELSE db')
        /\ UNCHANGED <<log, stage>>
    BY <1>7 DEF CommitStage, Stores, Written, wire
  <2>2. db'.ended = db.ended \cup {stage} /\ db'.started = db.started
    BY <2>1, <1>t DEF StageRecord, Record
  <2> QED
    BY <2>1, <2>2, DoneIsKept
<1>8. CASE CheckpointStage
  <2>1. /\ db' = db /\ mainFile' = (IF Checkpoint THEN db ELSE mainFile)
        /\ UNCHANGED <<log, stage>> /\ pc = "checkpoint" /\ pc' = "push_done"
    BY <1>8 DEF CheckpointStage, Folds, wire
  <2> QED
    BY <2>1, DoneIsKept
<1>9. CASE PushDone
  <2>1. DoneIsOnDisk'
    BY <1>9, <1>t, EventsAreEvents, PushKeepsDone DEF PushDone, store
  <2> QED
    BY <1>9, <2>1 DEF PushDone, store
<1>10. CASE ReadFinalPoint
  BY <1>10, DoneIsKept DEF ReadFinalPoint, wire, store
<1>11. CASE RecordFinished
  <2>1. /\ db' = [db EXCEPT !.status = "completed", !.lastSeq = held]
        /\ mainFile' = (IF Wal THEN mainFile ELSE db')
        /\ log' = log /\ pc' = "final_checkpoint"
    BY <1>11 DEF RecordFinished, Stores, Written, wire
  <2>2. db'.ended = db.ended /\ db'.status = "completed"
    BY <2>1, <1>t DEF Record
  <2> QED
    BY <2>1, <2>2, DoneIsKept
<1>12. CASE FinalCheckpoint
  <2>1. /\ db' = db /\ mainFile' = (IF Checkpoint THEN db ELSE mainFile)
        /\ log' = log /\ pc = "final_checkpoint" /\ pc' = "push_complete"
    BY <1>12 DEF FinalCheckpoint, Folds, wire
  <2> QED
    BY <2>1, DoneIsKept
<1>13. CASE PushComplete
  <2>1. DoneIsOnDisk'
    BY <1>13, <1>t, EventsAreEvents, Announcements, PushKeepsDone DEF PushComplete, store
  <2> QED
    BY <1>13, <2>1 DEF PushComplete, store
<1>14. CASE CloseStore
  <2>1. /\ mainFile' \in {mainFile, db} /\ db' = db /\ log' = log
        /\ pc = "ended" /\ pc' = "closed"
    BY <1>14 DEF CloseStore, wire
  <2> QED
    BY <2>1, DoneIsKept
<1>15. CASE BrokerDies
  BY <1>15, DoneIsKept DEF BrokerDies, wire
<1>16. CASE UNCHANGED vars
  <2>1. StageRecord' = StageRecord
    BY <1>16 DEF vars, StageRecord
  <2> QED
    BY <1>16, <2>1, DoneIsKept DEF vars
<1> QED
  BY <1>1, <1>2, <1>3, <1>4, <1>5, <1>6, <1>7, <1>8, <1>9, <1>10, <1>11, <1>12,
     <1>13, <1>14, <1>15, <1>16 DEF Next, JobStep

(* What a UI was told is done has its end on disk, and the job its status,  *)
(* however often the broker was killed (job.rs, run: commit, checkpoint,    *)
(* then push).                                                              *)
THEOREM AnnouncementsAreDurable == Spec => []AnnouncedIsDurable
<1>1. Init => RowsFollow /\ DoneIsOnDisk
  <2> SUFFICES ASSUME Init PROVE RowsFollow /\ DoneIsOnDisk
    OBVIOUS
  <2>1. RowsFollow
    BY DEF Init, RowsFollow, InStage, StageEnded
  <2>2. DoneIsOnDisk
    BY DEF Init, DoneIsOnDisk, OnTheWire
  <2> QED
    BY <2>1, <2>2
<1>2. TypeOK /\ RowsFollow /\ DoneIsOnDisk /\ [Next]_vars => RowsFollow' /\ DoneIsOnDisk'
  BY RowsFollowStep
<1>3. RowsFollow /\ DoneIsOnDisk => AnnouncedIsDurable
  BY DEF RowsFollow, DoneIsOnDisk, AnnouncedIsDurable
<1> QED
  BY <1>1, <1>2, <1>3, TypeCorrect, PTL DEF Spec

-------------------------------------------------------------------------------
(* The stage rows next to the resume point.                                 *)

(* In every life an event of a stage comes after all the earlier stages.    *)
EventsInOrder == \A i \in 1..Len(log) : (log[i].stage - 1) * EventsPerStage < i

(* While nothing has failed, the stages behind the thread have their end.   *)
BehindHasEnded ==
  faults = 0 =>
    /\ pc \in AtStart \cup InStage => 1..(stage - 1) \subseteq db.ended
    /\ pc \in StageEnded => 1..stage \subseteq db.ended
    /\ pc \in PastStages => Stages \subseteq db.ended

(* ... and so has every stage the resume point reaches into, also the point *)
(* an earlier life has left.                                                *)
ReachedHasEnded ==
  faults = 0 =>
    \A s \in Stages : (s - 1) * EventsPerStage < db.lastSeq => s \in db.ended

HeldIsTheLength == pc \in {"begin", "commit", "record_finished"} => held = Len(log)

(* In the first life a stage gets its end from a commit that carries a      *)
(* resume point beyond one of its events.                                   *)
EndedWasShown ==
  life <= 1 =>
    /\ life = 0 => db.ended = {}
    /\ pc \in {"tick", "begin", "commit"} => stage \in StagesUpTo(Len(log))
    /\ pc = "commit" => txn.ended \subseteq db.ended \cup {stage} /\ txn.lastSeq = Len(log)
    /\ db.ended \subseteq StagesUpTo(db.lastSeq)

RowInv ==
  /\ RowsFollow /\ DoneIsOnDisk
  /\ EventsInOrder /\ HeldIsTheLength
  /\ BehindHasEnded /\ ReachedHasEnded
  /\ EndedWasShown

(* A point inside stage t lies before every later stage.                    *)
LEMMA StagesDoNotOverlap ==
  ASSUME NEW s \in Stages, NEW t \in Stages, NEW k \in Nat, k <= EventsPerStage,
         (s - 1) * EventsPerStage < (t - 1) * EventsPerStage + k
  PROVE  s <= t
<1>1. s \in Nat /\ t \in Nat /\ EventsPerStage \in Nat
  BY JobAssumption DEF JobAssumption, Stages, EventsPerStage
<1>2. ASSUME NEW e \in Nat, k <= e, (s - 1) * e < (t - 1) * e + k, ~(s <= t)
      PROVE  FALSE
  <2>1. PICK d \in Nat : s - 1 = t + d
    <3>1. s - 1 - t \in Nat /\ s - 1 = t + (s - 1 - t)
      BY <1>1, <1>2
    <3> QED
      BY <3>1
  <2>2. (s - 1) * e = (t - 1) * e + e + d * e /\ d * e \in Nat /\ (t - 1) * e \in Int
    BY <1>1, <2>1
  <2> QED
    BY <1>2, <2>2
<1> QED
  BY <1>1, <1>2

(* What a UI has been shown, it has been shown at every later point too.    *)
LEMMA ShownGrows ==
  ASSUME NEW m \in Nat, NEW n \in Nat, m <= n
  PROVE  StagesUpTo(m) \subseteq StagesUpTo(n)
BY DEF StagesUpTo

(* A push shows one stage more, and takes none back.                        *)
LEMMA ShownAfterPush ==
  ASSUME TypeOK, NEW event \in Event, Push(event)
  PROVE  /\ Len(log) \in Nat /\ Len(log') = Len(log) + 1
         /\ \A i \in 1..Len(log) : log'[i] = log[i]
         /\ log'[Len(log) + 1] = event
         /\ \A n : StagesUpTo(n) \subseteq StagesUpTo(n)'
         /\ event.stage \in StagesUpTo(Len(log))'
<1>1. Len(log) \in Nat /\ Len(log') = Len(log) + 1
  BY PushAppends DEF TypeOK
<1>2. /\ \A i \in 1..Len(log) : log'[i] = log[i]
      /\ log'[Len(log) + 1] = event
  BY DEF Push, TypeOK
<1>3. \A n : StagesUpTo(n) \subseteq StagesUpTo(n)'
  BY <1>1, <1>2 DEF StagesUpTo
<1>4. event.stage \in StagesUpTo(Len(log))'
  BY <1>1, <1>2 DEF StagesUpTo
<1> QED
  BY <1>1, <1>2, <1>3, <1>4

(* What a step does to the log: nothing, a new log, or one event pushed, of *)
(* the current stage or at the very end.                                    *)
Pushed ==
  \/ PushStarted /\ Push(StageEvent(stage, "started"))
  \/ PushProgress /\ Push(StageEvent(stage, "progress"))
  \/ PushDone /\ Push(StageEvent(stage, "done"))
  \/ PushComplete /\ Push(JobComplete)

LEMMA LogChanges ==
  ASSUME [Next]_vars
  PROVE  log' = log \/ (StartJob /\ log' = <<>>) \/ Pushed
BY DEF Pushed, Next, JobStep, StartJob, RecordStart, PushStarted, PushProgress,
       ReadResumePoint, BeginStageCommit, CommitStage, CheckpointStage, PushDone,
       ReadFinalPoint, RecordFinished, FinalCheckpoint, PushComplete, CloseStore,
       BrokerDies, vars, wire

(* What a step does to the record, as far as rows and resume point go: a    *)
(* commit writes what its transaction holds, the end of the job its length. *)
SameRows == db'.ended = db.ended /\ db'.lastSeq = db.lastSeq
RowsCommitted == CommitStage /\ db' = txn
JobRecorded == RecordFinished /\ db'.ended = db.ended /\ db'.lastSeq = held

LEMMA RecordChanges ==
  ASSUME TypeOK, [Next]_vars
  PROVE  SameRows \/ RowsCommitted \/ JobRecorded
<1> USE DEF SameRows, RowsCommitted, JobRecorded
<1>t. db \in Record /\ txn \in Record
  BY DEF TypeOK
<1>1. CASE StartJob
  BY <1>1, <1>t DEF StartJob, Written, OpenRecord, Record
<1>2. CASE RecordStart
  <2>1. Stores([db EXCEPT !.started = @ \cup {stage}])
    BY <1>2 DEF RecordStart
  <2>2. db' \in {db, [db EXCEPT !.started = @ \cup {stage}]}
    BY <2>1, WritesRecords, StoresRecord
  <2> QED
    BY <2>2, <1>t DEF Record
<1>3. CASE CommitStage
  BY <1>3, <1>t, StoresRecord DEF CommitStage
<1>4. CASE RecordFinished
  <2>1. Stores([db EXCEPT !.status = "completed", !.lastSeq = held])
    BY <1>4 DEF RecordFinished
  <2>2. db' \in {db, [db EXCEPT !.status = "completed", !.lastSeq = held]}
    BY <2>1, WritesRecords, StoresRecord
  <2> QED
    BY <1>4, <2>2, <1>t DEF Record
<1>5. db' = db \/ StartJob \/ RecordStart \/ CommitStage \/ RecordFinished
  BY DEF Next, JobStep, PushStarted, PushProgress, ReadResumePoint, BeginStageCommit,
         CheckpointStage, PushDone, ReadFinalPoint, FinalCheckpoint, PushComplete,
         CloseStore, BrokerDies, vars, store, StoreFails, Folds
<1> QED
  BY <1>1, <1>2, <1>3, <1>4, <1>5

(* An event of the current stage is pushed where that stage begins, the     *)
(* last one where all of them end.                                          *)
LEMMA OrderStep ==
  ASSUME TypeOK, LengthFollows, EventsInOrder, [Next]_vars
  PROVE  EventsInOrder'
<1>n. Len(log) \in Nat /\ stage \in Stages
  BY DEF TypeOK
<1>1. ASSUME NEW event \in Event, Push(event), (event.stage - 1) * EventsPerStage <= Len(log)
      PROVE  EventsInOrder'
  <2>1. /\ Len(log') = Len(log) + 1
        /\ \A i \in 1..Len(log) : log'[i] = log[i]
        /\ log'[Len(log) + 1] = event
    BY <1>1, ShownAfterPush
  <2>2. event.stage \in Stages
    BY DEF Event
  <2>3. (event.stage - 1) * EventsPerStage \in Nat
    BY <2>2, WholeStages
  <2> SUFFICES ASSUME NEW i \in 1..Len(log')
               PROVE  (log'[i].stage - 1) * EventsPerStage < i
    BY DEF EventsInOrder
  <2>4. CASE i \in 1..Len(log)
    BY <2>1, <2>4 DEF EventsInOrder
  <2>5. CASE i = Len(log) + 1
    BY <1>1, <1>n, <2>1, <2>3, <2>5
  <2> QED
    BY <1>n, <2>1, <2>4, <2>5
<1>2. CASE log' = log
  BY <1>2 DEF EventsInOrder
<1>3. CASE log' = <<>>
  BY <1>3 DEF EventsInOrder
<1>4. CASE Pushed
  <2>1. /\ (stage - 1) * EventsPerStage \in Nat
        /\ ticks \in Nat /\ TicksPerStage \in Nat
    BY <1>n, WholeStages, JobAssumption DEF TypeOK, JobAssumption
  <2>2. CASE PushComplete /\ Push(JobComplete)
    <3>1. NumStages \in Stages /\ JobComplete.stage = NumStages
      BY JobAssumption DEF JobAssumption, Stages, JobComplete
    <3>2. (NumStages - 1) * EventsPerStage <= NumStages * EventsPerStage
      BY <3>1, WholeStages
    <3>3. Len(log) = NumStages * EventsPerStage
      BY <2>2 DEF PushComplete, LengthFollows
    <3> QED
      BY <1>1, <2>2, <3>1, <3>2, <3>3, EventsAreEvents
  <2>3. CASE ~PushComplete
    <3>1. (stage - 1) * EventsPerStage <= Len(log)
      BY <1>4, <2>1, <2>3 DEF Pushed, PushStarted, PushProgress, PushDone, LengthFollows
    <3>2. PICK state \in {"started", "progress", "done"} : Push(StageEvent(stage, state))
      BY <1>4, <2>3 DEF Pushed
    <3>3. StageEvent(stage, state) \in Event /\ StageEvent(stage, state).stage = stage
      BY <1>n, EventsAreEvents DEF StageEvent
    <3> QED
      BY <1>1, <3>1, <3>2, <3>3
  <2> QED
    BY <1>4, <2>2, <2>3 DEF PushComplete
<1> QED
  BY <1>2, <1>3, <1>4, LogChanges

LEMMA HeldStep ==
  ASSUME HeldIsTheLength, [Next]_vars
  PROVE  HeldIsTheLength'
BY DEF HeldIsTheLength, Goto, wire, Next, JobStep, StartJob, RecordStart, PushStarted,
       PushProgress, ReadResumePoint, BeginStageCommit, CommitStage, CheckpointStage,
       PushDone, ReadFinalPoint, RecordFinished, FinalCheckpoint, PushComplete,
       CloseStore, BrokerDies, vars

(* The thread goes on to the next stage only after a commit that gave this  *)
(* one its end.                                                             *)
LEMMA BehindStep ==
  ASSUME TypeOK, RowsFollow, BehindHasEnded, [Next]_vars
  PROVE  BehindHasEnded'
<1> SUFFICES ASSUME faults' = 0 PROVE BehindHasEnded'
  BY DEF BehindHasEnded
<1>f. faults = 0 /\ ~StoreFails
  BY CountersGrow
<1>n. /\ stage \in Nat /\ stage >= 1 /\ stage <= NumStages /\ NumStages \in Nat
      /\ db \in Record /\ stage \in Stages
  BY JobAssumption DEF TypeOK, JobAssumption, Stages
<1>v. 1..stage = 1..(stage - 1) \cup {stage} /\ 1..NumStages = Stages
  BY <1>n DEF Stages
<1>c. CASE CommitStage
  <2>1. db' = StageRecord /\ pc = "commit" /\ pc' = "checkpoint" /\ stage' = stage
    BY <1>c, <1>f DEF CommitStage, Stores, Written, RowsFollow, Goto
  <2>2. stage \in db.started
    BY <1>f, <2>1 DEF RowsFollow, InStage
  <2>3. db'.ended = db.ended \cup {stage}
    BY <1>n, <2>1, <2>2 DEF StageRecord, Record
  <2> QED
    BY <1>f, <1>v, <2>1, <2>3 DEF BehindHasEnded, AtStart, InStage, StageEnded, PastStages
<1>o. CASE ~CommitStage
  <2>1. db'.ended = db.ended
    BY <1>o, RecordChanges DEF SameRows, RowsCommitted, JobRecorded
  <2>2. ASSUME pc' \in AtStart \cup InStage PROVE 1..(stage' - 1) \subseteq db.ended
    <3>1. CASE StartJob
      BY <3>1 DEF StartJob
    <3>2. CASE PushDone
      <4>1. 1..stage \subseteq db.ended /\ stage' = stage + 1
        BY <1>f, <2>2, <3>2 DEF PushDone, BehindHasEnded, Goto, AtStart, InStage, StageEnded
      <4> QED
        BY <1>n, <4>1
    <3>3. CASE ~StartJob /\ ~PushDone
      <4>1. stage' = stage /\ pc \in AtStart \cup InStage
        BY <1>o, <2>2, <3>3 DEF AtStart, InStage, Goto, wire, Next, JobStep, RecordStart,
           PushStarted, PushProgress, ReadResumePoint, BeginStageCommit, CheckpointStage,
           ReadFinalPoint, RecordFinished, FinalCheckpoint, PushComplete, CloseStore,
           BrokerDies, vars
      <4> QED
        BY <1>f, <4>1 DEF BehindHasEnded
    <3> QED
      BY <3>1, <3>2, <3>3
  <2>3. ASSUME pc' \in StageEnded PROVE 1..stage' \subseteq db.ended
    <3>1. stage' = stage /\ pc \in StageEnded
      BY <1>f, <1>o, <2>3 DEF StageEnded, Goto, wire, Next, JobStep, StartJob, RecordStart,
         PushStarted, PushProgress, ReadResumePoint, BeginStageCommit, CheckpointStage,
         PushDone, ReadFinalPoint, RecordFinished, FinalCheckpoint, PushComplete,
         CloseStore, BrokerDies, vars
    <3> QED
      BY <1>f, <3>1 DEF BehindHasEnded
  <2>4. ASSUME pc' \in PastStages PROVE Stages \subseteq db.ended
    <3>1. CASE PushDone
      <4>1. pc = "push_done" /\ ~(stage < NumStages)
        BY <2>4, <3>1 DEF PushDone, PastStages, Goto
      <4>2. 1..stage \subseteq db.ended
        BY <1>f, <4>1 DEF BehindHasEnded, StageEnded
      <4> QED
        BY <1>n, <1>v, <4>1, <4>2
    <3>2. CASE ~PushDone
      <4>1. pc \in PastStages
        BY <1>o, <2>4, <3>2 DEF PastStages, Goto, wire, Next, JobStep, StartJob, RecordStart,
           PushStarted, PushProgress, ReadResumePoint, BeginStageCommit, CheckpointStage,
           ReadFinalPoint, RecordFinished, FinalCheckpoint, PushComplete, CloseStore,
           BrokerDies, vars
      <4> QED
        BY <1>f, <4>1 DEF BehindHasEnded
    <3> QED
      BY <3>1, <3>2
  <2> QED
    BY <2>1, <2>2, <2>3, <2>4 DEF BehindHasEnded
<1> QED
  BY <1>c, <1>o

(* The commit moves the resume point into the stage it ends and no further. *)
LEMMA ReachedStep ==
  ASSUME TypeOK, LengthFollows, HeldIsTheLength, RowsFollow, BehindHasEnded,
         ReachedHasEnded, [Next]_vars
  PROVE  ReachedHasEnded'
<1> SUFFICES ASSUME faults' = 0, NEW s \in Stages, (s - 1) * EventsPerStage < db'.lastSeq
             PROVE  s \in db'.ended
  BY DEF ReachedHasEnded
<1>f. faults = 0 /\ ~StoreFails
  BY CountersGrow
<1>n. stage \in Stages /\ db \in Record
  BY DEF TypeOK
<1>1. CASE SameRows
  BY <1>f, <1>1 DEF SameRows, ReachedHasEnded
<1>2. CASE RowsCommitted
  <2>1. pc = "commit" /\ db' = StageRecord
    BY <1>f, <1>2 DEF RowsCommitted, CommitStage, RowsFollow
  <2>2. stage \in db.started /\ 1..(stage - 1) \subseteq db.ended
    BY <1>f, <2>1 DEF RowsFollow, BehindHasEnded, InStage
  <2>3. db'.ended = db.ended \cup {stage} /\ db'.lastSeq = held
    BY <1>n, <2>1, <2>2 DEF StageRecord, Record
  <2>4. held = (stage - 1) * EventsPerStage + (1 + TicksPerStage)
    <3>1. (stage - 1) * EventsPerStage \in Nat /\ TicksPerStage \in Nat
      BY <1>n, WholeStages, JobAssumption DEF JobAssumption
    <3> QED
      BY <2>1, <3>1 DEF HeldIsTheLength, LengthFollows
  <2>5. 1 + TicksPerStage \in Nat /\ 1 + TicksPerStage <= EventsPerStage
    BY JobAssumption DEF JobAssumption, EventsPerStage
  <2>6. s <= stage
    BY <1>n, <2>3, <2>4, <2>5, StagesDoNotOverlap
  <2>7. s \in 1..(stage - 1) \/ s = stage
    BY <1>n, <2>6 DEF Stages
  <2> QED
    BY <2>2, <2>3, <2>7
<1>3. CASE JobRecorded
  <2>1. pc = "record_finished" /\ db'.ended = db.ended
    BY <1>3 DEF JobRecorded, RecordFinished
  <2> QED
    BY <1>f, <2>1 DEF BehindHasEnded, PastStages
<1> QED
  BY <1>1, <1>2, <1>3, RecordChanges

(* In the first life a stage's end and a resume point inside it come in one *)
(* commit.                                                                  *)
LEMMA ShownStep ==
  ASSUME IInv, HeldIsTheLength, EndedWasShown, [Next]_vars
  PROVE  EndedWasShown'
<1>t. TypeOK
  BY DEF IInv
<1>n. /\ life \in Nat /\ Len(log) \in Nat /\ stage \in Stages
      /\ db \in Record /\ db.lastSeq \in Nat
  BY <1>t DEF TypeOK, Record
<1> SUFFICES ASSUME life' <= 1 PROVE EndedWasShown'
  BY DEF EndedWasShown
<1>1. CASE StartJob
  <2>1. life = 0 /\ life' = 1
    BY <1>1, <1>n DEF StartJob
  <2>2. db'.ended = {} /\ pc' = "record_start"
    BY <1>1, <1>n, <2>1 DEF StartJob, Written, OpenRecord, EndedWasShown, Goto, Record
  <2> QED
    BY <2>1, <2>2 DEF EndedWasShown
<1>2. CASE ~StartJob
  <2>1. life' = life /\ (log' = log \/ Pushed)
    BY <1>2, <1>t, CountersGrow, LogChanges
  <2>p. /\ \A n : StagesUpTo(n) \subseteq StagesUpTo(n)'
        /\ Len(log) <= Len(log') /\ Len(log') \in Nat
    <3>1. CASE log' = log
      BY <1>n, <3>1 DEF StagesUpTo
    <3>2. CASE Pushed
      <4>1. PICK event \in Event : Push(event)
        BY <1>n, <3>2, EventsAreEvents DEF Pushed
      <4> QED
        BY <1>n, <1>t, <4>1, ShownAfterPush
    <3> QED
      BY <2>1, <3>1, <3>2
  <2>g. StagesUpTo(Len(log)) \subseteq StagesUpTo(Len(log))'
    <3>1. StagesUpTo(Len(log)) \subseteq {log'[i].stage : i \in {k \in 1..Len(log') : k <= Len(log)}}
      BY <2>p DEF StagesUpTo
    <3>2. {log'[i].stage : i \in {k \in 1..Len(log') : k <= Len(log)}} \subseteq StagesUpTo(Len(log))'
      BY <1>n, <2>p DEF StagesUpTo
    <3> QED
      BY <3>1, <3>2
  <2>2. /\ life = 0 => db.ended = {}
        /\ pc \in {"tick", "begin", "commit"} => stage \in StagesUpTo(Len(log))
        /\ pc = "commit" => txn.ended \subseteq db.ended \cup {stage} /\ txn.lastSeq = Len(log)
        /\ db.ended \subseteq StagesUpTo(db.lastSeq)
        /\ db.lastSeq <= Len(log)
    BY <2>1 DEF EndedWasShown, IInv, ResumePointNeverAhead, JobState
  <2>3. life' = 0 => db'.ended = {}
    <3>1. life = 0 => pc = "idle"
      BY DEF IInv, NoLifeNoRecord
    <3>2. life = 0 => SameRows
      BY <1>t, <3>1, RecordChanges DEF RowsCommitted, JobRecorded, CommitStage, RecordFinished
    <3> QED
      BY <2>1, <2>2, <3>2 DEF SameRows
  <2>4. ASSUME pc' \in {"tick", "begin", "commit"} PROVE stage' \in StagesUpTo(Len(log))'
    <3>1. CASE PushStarted
      <4>1. Push(StageEvent(stage, "started")) /\ stage' = stage
        BY <3>1 DEF PushStarted
      <4>2. StageEvent(stage, "started") \in Event /\ StageEvent(stage, "started").stage = stage
        BY <1>n, EventsAreEvents DEF StageEvent
      <4> QED
        BY <1>t, <4>1, <4>2, ShownAfterPush
    <3>2. CASE ~PushStarted
      <4>1. stage' = stage /\ pc \in {"tick", "begin", "commit"}
        BY <2>4, <3>2 DEF Goto, wire, Next, JobStep, StartJob, RecordStart,
           PushProgress, ReadResumePoint, BeginStageCommit, CommitStage, CheckpointStage,
           PushDone, ReadFinalPoint, RecordFinished, FinalCheckpoint, PushComplete,
           CloseStore, BrokerDies, vars
      <4> QED
        BY <2>2, <2>g, <4>1
    <3> QED
      BY <3>1, <3>2
  <2>5. ASSUME pc' = "commit"
        PROVE  txn'.ended \subseteq db'.ended \cup {stage'} /\ txn'.lastSeq = Len(log')
    <3>1. CASE BeginStageCommit
      <4>1. /\ txn' = StageRecord /\ db' = db /\ stage' = stage /\ log' = log
            /\ held = Len(log)
        BY <2>5, <3>1 DEF BeginStageCommit, Goto, wire, HeldIsTheLength
      <4>2. txn'.ended \subseteq db.ended \cup {stage} /\ txn'.lastSeq = held
        BY <1>n, <4>1 DEF StageRecord, Record
      <4> QED
        BY <4>1, <4>2
    <3>2. CASE ~BeginStageCommit
      <4>1. pc = "commit" /\ UNCHANGED <<txn, db, stage, log>>
        BY <2>5, <3>2 DEF Goto, wire, Next, JobStep, StartJob, RecordStart, PushStarted,
           PushProgress, ReadResumePoint, CommitStage, CheckpointStage,
           PushDone, ReadFinalPoint, RecordFinished, FinalCheckpoint, PushComplete,
           CloseStore, BrokerDies, vars
      <4> QED
        BY <2>2, <4>1
    <3> QED
      BY <3>1, <3>2
  <2>6. CASE SameRows
    <3>1. StagesUpTo(db.lastSeq) \subseteq {log'[i].stage : i \in {k \in 1..Len(log') : k <= db.lastSeq}}
      BY <2>p DEF StagesUpTo
    <3>2. db'.ended \subseteq StagesUpTo(db.lastSeq)'
      BY <2>2, <2>6, <3>1 DEF SameRows, StagesUpTo
    <3> QED
      BY <2>3, <2>4, <2>5, <3>2 DEF EndedWasShown
  <2>7. ASSUME log' = log, db'.lastSeq = Len(log),
               db'.ended \subseteq db.ended \cup {stage},
               stage \in StagesUpTo(Len(log)) \/ db'.ended \subseteq db.ended
        PROVE  db'.ended \subseteq StagesUpTo(db.lastSeq)'
    <3>1. StagesUpTo(db.lastSeq) \subseteq StagesUpTo(Len(log))
      BY <1>n, <2>2, ShownGrows
    <3>2. StagesUpTo(db.lastSeq)' = StagesUpTo(Len(log))
      BY <2>7 DEF StagesUpTo
    <3> QED
      BY <2>2, <2>7, <3>1, <3>2
  <2>8. CASE RowsCommitted
    <3>1. db' = txn /\ log' = log /\ pc = "commit"
      BY <2>8 DEF RowsCommitted, CommitStage, wire
    <3>2. db'.ended \subseteq StagesUpTo(db.lastSeq)'
      BY <2>2, <2>7, <3>1
    <3> QED
      BY <2>3, <2>4, <2>5, <3>2 DEF EndedWasShown
  <2>9. CASE JobRecorded
    <3>1. db'.ended = db.ended /\ db'.lastSeq = Len(log) /\ log' = log
      BY <2>9 DEF JobRecorded, RecordFinished, wire, HeldIsTheLength
    <3>2. db'.ended \subseteq StagesUpTo(db.lastSeq)'
      BY <2>7, <3>1
    <3> QED
      BY <2>3, <2>4, <2>5, <3>2 DEF EndedWasShown
  <2> QED
    BY <1>t, <2>6, <2>8, <2>9, RecordChanges
<1> QED
  BY <1>1, <1>2

(* The stage ends and the resume point speak for each other: one            *)
(* transaction writes both (state.rs, stage_finished).                      *)
THEOREM RowsAndResumePointAgree == Spec => []StageRowsMatchResumePoint
<1>1. Init => LengthFollows /\ RowInv
  <2> SUFFICES ASSUME Init PROVE LengthFollows /\ RowInv
    OBVIOUS
  <2>1. RowsFollow /\ DoneIsOnDisk /\ LengthFollows
    BY DEF Init, RowsFollow, InStage, StageEnded, DoneIsOnDisk, OnTheWire, LengthFollows
  <2>2. EventsInOrder /\ HeldIsTheLength
    BY DEF Init, EventsInOrder, HeldIsTheLength
  <2>3. db.ended = {} /\ db.lastSeq = 0 /\ pc = "idle"
    BY DEF Init, NoRecord
  <2>4. BehindHasEnded /\ EndedWasShown
    BY <2>3 DEF BehindHasEnded, AtStart, InStage, StageEnded, PastStages, EndedWasShown
  <2>5. ASSUME NEW s \in Stages PROVE (s - 1) * EventsPerStage \in Nat
    BY WholeStages
  <2>6. ReachedHasEnded
    BY <2>3, <2>5 DEF ReachedHasEnded
  <2> QED
    BY <2>1, <2>2, <2>4, <2>6 DEF RowInv
<1>2. IInv /\ LengthFollows /\ RowInv /\ [Next]_vars => IInv' /\ LengthFollows' /\ RowInv'
  BY IInvStep, LengthStep, RowsFollowStep, OrderStep, HeldStep, BehindStep, ReachedStep,
     ShownStep DEF RowInv, IInv
<1>3. IInv /\ RowInv => StageRowsMatchResumePoint
  <2> SUFFICES ASSUME IInv, RowInv PROVE StageRowsMatchResumePoint
    OBVIOUS
  <2>1. log \in Seq(Event) /\ db.lastSeq \in Nat
    BY DEF IInv, TypeOK, Record
  <2>2. ASSUME faults = 0, NEW k \in 1..Len(log), k <= db.lastSeq
        PROVE  log[k].stage \in db.ended
    <3>e. log[k] \in Event
      BY <2>1
    <3>1. log[k].stage \in Stages
      BY <3>e DEF Event
    <3>2. (log[k].stage - 1) * EventsPerStage \in Nat
      BY <3>1, WholeStages
    <3>3. (log[k].stage - 1) * EventsPerStage < db.lastSeq
      BY <2>1, <2>2, <3>2 DEF RowInv, EventsInOrder
    <3> QED
      BY <2>2, <3>1, <3>3 DEF RowInv, ReachedHasEnded
  <2>3. faults = 0 => StagesUpTo(db.lastSeq) \subseteq db.ended
    BY <2>2 DEF StagesUpTo
  <2>4. life <= 1 => db.ended \subseteq StagesUpTo(db.lastSeq)
    BY DEF RowInv, EndedWasShown
  <2> QED
    BY <2>3, <2>4 DEF StageRowsMatchResumePoint, JobState
<1> QED
  BY <1>1, <1>2, <1>3, IInvInit, PTL DEF Spec
===============================================================================
