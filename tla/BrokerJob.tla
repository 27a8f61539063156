------------------------------- MODULE BrokerJob -------------------------------
(***************************************************************************)
(* The job thread of the split-privilege broker (broker/src/job.rs) and    *)
(* the SQLite record it keeps (broker/src/state.rs).                       *)
(*                                                                         *)
(* The thread walks the stages in order.  For each it records the start,   *)
(* pushes "started", pushes its progress events, commits the stage with    *)
(* the resume point in one transaction, checkpoints, and pushes "done".    *)
(* A store call that fails is logged and the thread carries on, so every   *)
(* store call has a second outcome.  The broker may be killed between any  *)
(* two steps; the database outlives it, and a broker started again for the *)
(* same session opens the same job row.                                    *)
(*                                                                         *)
(* Bounds: MaxLives broker starts, MaxStoreFaults failing store calls.     *)
(***************************************************************************)
EXTENDS Integers, Sequences

CONSTANTS
  NumStages,        \* STAGE_KEYS.len()
  TicksPerStage,    \* --ticks-per-stage
  Checkpoint,       \* ~ --no-checkpoint
  Wal,              \* --journal-mode wal (otherwise a rollback journal)
  MaxLives,         \* how often a broker opens the job
  MaxStoreFaults    \* how many store calls fail, over all lives

ASSUME JobAssumption ==
  /\ NumStages \in Nat \ {0}
  /\ TicksPerStage \in Nat
  /\ Checkpoint \in BOOLEAN
  /\ Wal \in BOOLEAN
  /\ MaxLives \in Nat \ {0}
  /\ MaxStoreFaults \in Nat

Stages == 1..NumStages

StageEvent(s, state) == [type |-> "StageEvent", stage |-> s, state |-> state]
JobComplete == [type |-> "JobComplete", stage |-> NumStages, state |-> "completed"]

Event == [type : {"StageEvent", "JobComplete"}, stage : Stages,
          state : {"started", "progress", "done", "completed"}]

(* The jobs row and the job_stages rows: which stages have a row, and which *)
(* of those have ended_utc.                                                 *)
Record == [status : {"none", "running", "completed"}, lastSeq : Nat,
           started : SUBSET Stages, ended : SUBSET Stages]
NoRecord == [status |-> "none", lastSeq |-> 0, started |-> {}, ended |-> {}]

VARIABLES
  log,       \* EventLog.events; after a kill, what that life had pushed
  finished,  \* EventLog.finished
  pc,        \* where the thread is; "idle" while no job runs
  stage,     \* the stage being run
  ticks,     \* progress events pushed for it
  held,      \* the local last_seq, read before the record is written
  txn,       \* the open transaction of stage_finished: what a commit will write
  db,        \* the record a reader of the database sees
  mainFile,  \* the record in jobs.db alone, without its -wal sidecar
  life,      \* how many times a broker has opened the job
  faults     \* store calls that have failed

wire   == <<log, finished>>
thread == <<pc, stage, ticks, held>>
store  == <<txn, db, mainFile>>
vars   == <<log, finished, pc, stage, ticks, held, txn, db, mainFile, life, faults>>

Points == {"idle", "record_start", "push_started", "tick", "begin", "commit",
           "checkpoint", "push_done", "read_final", "record_finished",
           "final_checkpoint", "push_complete", "ended", "closed"}

TypeOK ==
  /\ log \in Seq(Event)
  /\ finished \in BOOLEAN
  /\ pc \in Points
  /\ stage \in Stages
  /\ ticks \in 0..TicksPerStage
  /\ held \in Nat
  /\ txn \in Record
  /\ db \in Record
  /\ mainFile \in Record
  /\ life \in 0..MaxLives
  /\ faults \in 0..MaxStoreFaults

Init ==
  /\ log = <<>> /\ finished = FALSE
  /\ pc = "idle" /\ stage = 1 /\ ticks = 0 /\ held = 0
  /\ txn = NoRecord /\ db = NoRecord /\ mainFile = NoRecord
  /\ life = 0 /\ faults = 0

-------------------------------------------------------------------------------
(* SQLite, as state.rs uses it: a write is visible to readers at once; in   *)
(* WAL mode the main file follows only at a checkpoint.                     *)
Written(record) ==
  /\ db' = record
  /\ mainFile' = IF Wal THEN mainFile ELSE record

StoreFails ==
  /\ faults < MaxStoreFaults
  /\ faults' = faults + 1
  /\ UNCHANGED <<db, mainFile>>

Stores(record) ==
  \/ Written(record) /\ UNCHANGED faults
  \/ StoreFails

(* Slip: the commit is left to SQLite's automatic checkpoint.               *)
Folds_Never == UNCHANGED <<db, mainFile, faults>>

(* PRAGMA wal_checkpoint(TRUNCATE).  A reader in the way makes it report    *)
(* busy in its result row, which the code discards: the same outcome as a   *)
(* failure, the main file stays behind.                                     *)
Folds ==
  /\ UNCHANGED db
  /\ IF Checkpoint
     THEN \/ mainFile' = db /\ UNCHANGED faults
          \/ StoreFails
     ELSE UNCHANGED <<mainFile, faults>>

Push(event) == log' = Append(log, event)

Goto(point) == pc' = point

-------------------------------------------------------------------------------
(* ApplyPlan with no job: JobStore::open upserts the row, then              *)
(* JobHandle::start spawns the thread with an empty log.  The upsert of an  *)
(* existing row touches its status only.                                    *)
OpenRecord == [db EXCEPT !.status = "running"]

StartJob ==
  /\ pc = "idle"
  /\ life < MaxLives
  /\ life' = life + 1
  /\ Written(OpenRecord)
  /\ log' = <<>> /\ finished' = FALSE
  /\ Goto("record_start") /\ stage' = 1 /\ ticks' = 0 /\ held' = 0
  /\ UNCHANGED <<txn, faults>>

(* Slip: the thread gives up when the store does.                           *)
RecordStart_GivesUp ==
  /\ pc = "record_start"
  /\ \/ /\ Written([db EXCEPT !.started = @ \cup {stage}])
        /\ Goto("push_started") /\ UNCHANGED faults
     \/ StoreFails /\ Goto("closed")
  /\ UNCHANGED <<wire, stage, ticks, held, txn, life>>

(* store.stage_started *)
RecordStart ==
  /\ pc = "record_start"
  /\ Stores([db EXCEPT !.started = @ \cup {stage}])
  /\ Goto("push_started")
  /\ UNCHANGED <<wire, stage, ticks, held, txn, life>>

PushStarted ==
  /\ pc = "push_started"
  /\ Push(StageEvent(stage, "started"))
  /\ Goto("tick") /\ ticks' = 0
  /\ UNCHANGED <<finished, stage, held, store, life, faults>>

(* Slip: the loop over the ticks has no end.                                *)
PushProgress_Endless ==
  /\ pc = "tick"
  /\ Push(StageEvent(stage, "progress"))
  /\ ticks' = ticks + 1
  /\ UNCHANGED <<finished, pc, stage, held, store, life, faults>>

PushProgress ==
  /\ pc = "tick"
  /\ ticks < TicksPerStage
  /\ Push(StageEvent(stage, "progress"))
  /\ ticks' = ticks + 1
  /\ UNCHANGED <<finished, pc, stage, held, store, life, faults>>

(* Slip: the "done" event still to be pushed is counted.                    *)
ReadResumePoint_CountsDone ==
  /\ pc = "tick"
  /\ ticks = TicksPerStage
  /\ held' = Len(log) + 1
  /\ Goto("begin")
  /\ UNCHANGED <<wire, stage, ticks, store, life, faults>>

(* The lock is taken, the length read, and the lock released before the     *)
(* store is called.                                                         *)
ReadResumePoint ==
  /\ pc = "tick"
  /\ ticks = TicksPerStage
  /\ held' = Len(log)
  /\ Goto("begin")
  /\ UNCHANGED <<wire, stage, ticks, store, life, faults>>

(* stage_finished up to the commit: both UPDATEs inside one transaction.    *)
(* The stage row is updated only if stage_started managed to insert it.     *)
StageRecord ==
  [db EXCEPT !.ended = @ \cup ({stage} \cap db.started), !.lastSeq = held]

(* Slip: the two UPDATEs are not in one transaction.                        *)
BeginStageCommit_AutoCommits ==
  /\ pc = "begin"
  /\ Stores([db EXCEPT !.ended = StageRecord.ended])
  /\ txn' = StageRecord
  /\ Goto("commit")
  /\ UNCHANGED <<wire, stage, ticks, held, life>>

BeginStageCommit ==
  /\ pc = "begin"
  /\ \/ txn' = StageRecord /\ Goto("commit") /\ UNCHANGED <<db, mainFile, faults>>
     \/ StoreFails /\ Goto("checkpoint") /\ UNCHANGED txn
  /\ UNCHANGED <<wire, stage, ticks, held, life>>

CommitStage ==
  /\ pc = "commit"
  /\ Stores(txn)
  /\ txn' = NoRecord
  /\ Goto("checkpoint")
  /\ UNCHANGED <<wire, stage, ticks, held, life>>

CheckpointStage ==
  /\ pc = "checkpoint"
  /\ Folds
  /\ Goto("push_done")
  /\ UNCHANGED <<wire, stage, ticks, held, txn, life>>

(* Slip: the job counts as finished with its last stage.                    *)
PushDone_Finishes ==
  /\ pc = "push_done"
  /\ Push(StageEvent(stage, "done"))
  /\ finished' = (stage = NumStages)
  /\ IF stage < NumStages
     THEN stage' = stage + 1 /\ Goto("record_start")
     ELSE UNCHANGED stage /\ Goto("read_final")
  /\ UNCHANGED <<ticks, held, store, life, faults>>

PushDone ==
  /\ pc = "push_done"
  /\ Push(StageEvent(stage, "done"))
  /\ IF stage < NumStages
     THEN stage' = stage + 1 /\ Goto("record_start")
     ELSE UNCHANGED stage /\ Goto("read_final")
  /\ UNCHANGED <<finished, ticks, held, store, life, faults>>

(* Slip: the JobComplete event still to be pushed is counted.               *)
ReadFinalPoint_CountsComplete ==
  /\ pc = "read_final"
  /\ held' = Len(log) + 1
  /\ Goto("record_finished")
  /\ UNCHANGED <<wire, stage, ticks, store, life, faults>>

ReadFinalPoint ==
  /\ pc = "read_final"
  /\ held' = Len(log)
  /\ Goto("record_finished")
  /\ UNCHANGED <<wire, stage, ticks, store, life, faults>>

(* store.job_finished *)
RecordFinished ==
  /\ pc = "record_finished"
  /\ Stores([db EXCEPT !.status = "completed", !.lastSeq = held])
  /\ Goto("final_checkpoint")
  /\ UNCHANGED <<wire, stage, ticks, held, txn, life>>

FinalCheckpoint ==
  /\ pc = "final_checkpoint"
  /\ Folds
  /\ Goto("push_complete")
  /\ UNCHANGED <<wire, stage, ticks, held, txn, life>>

(* JobComplete and finished, under one lock. *)
PushComplete ==
  /\ pc = "push_complete"
  /\ Push(JobComplete)
  /\ finished' = TRUE
  /\ Goto("ended")
  /\ UNCHANGED <<stage, ticks, held, store, life, faults>>

(* The thread returns and drops the store; closing the last connection to a *)
(* WAL database folds the log into the main file, unless a reader is there. *)
CloseStore ==
  /\ pc = "ended"
  /\ mainFile' \in {mainFile, db}
  /\ Goto("closed")
  /\ UNCHANGED <<wire, stage, ticks, held, txn, db, life, faults>>

(* The broker is killed, or a client's Shutdown ends it with the job still  *)
(* running.  The open transaction is rolled back by whoever opens the file  *)
(* next; the log is gone, and kept here only as what that life had shown.   *)
BrokerDies ==
  /\ pc # "idle"
  /\ Goto("idle")
  /\ txn' = NoRecord
  /\ UNCHANGED <<wire, stage, ticks, held, db, mainFile, life, faults>>

JobStep ==
  \/ RecordStart \/ PushStarted \/ PushProgress \/ ReadResumePoint
  \/ BeginStageCommit \/ CommitStage \/ CheckpointStage \/ PushDone
  \/ ReadFinalPoint \/ RecordFinished \/ FinalCheckpoint \/ PushComplete
  \/ CloseStore

Next == StartJob \/ JobStep \/ BrokerDies

Spec == Init /\ [][Next]_vars

(* The job thread is scheduled; nobody is obliged to start or kill a broker. *)
FairSpec == Spec /\ WF_vars(JobStep)

-------------------------------------------------------------------------------
(* What JobStateReader.Read returns to a UI whose broker is gone.           *)
JobState == [status |-> db.status, lastSeq |-> db.lastSeq, stagesCompleted |-> db.ended]

OnTheWire(event) == \E i \in 1..Len(log) : log[i] = event

(* Over one life of the broker, the recorded resume point never lies beyond *)
(* what was pushed: a UI that resumes from the record may see an event      *)
(* again, it never misses one (job.rs, run, the comment at completion).     *)
ResumePointNeverAhead == life <= 1 => JobState.lastSeq <= Len(log)

(* A completed record trails the complete log by exactly the JobComplete    *)
(* event, whichever life completed it and whatever store calls failed       *)
(* before (job.rs, run, the comment at completion).                         *)
CompletionTrailsByOne ==
  finished /\ db.status = "completed" => db.lastSeq = Len(log) - 1

(* The stages a UI that resumes at n has been shown, of those pushed so far. *)
StagesUpTo(n) == {log[i].stage : i \in {k \in 1..Len(log) : k <= n}}

(* The stage rows and the resume point are written by one commit (state.rs, *)
(* stage_finished), so each speaks for the other at every instant a reader  *)
(* or a kill may observe.  A stage the resume point reaches into has its    *)
(* end, in every life, as long as no store call has failed: the next commit *)
(* counts the events of a stage whose own commit failed, and the UPDATE of  *)
(* a stage whose stage_started failed finds no row.  A stage that has its   *)
(* end is one the resume point reaches into, whatever has failed, in the    *)
(* first life: a broker started again keeps the row and the stage ends an   *)
(* earlier life wrote (state.rs, ON CONFLICT) next to a log begun anew.     *)
StageRowsMatchResumePoint ==
  /\ faults = 0 => StagesUpTo(JobState.lastSeq) \subseteq JobState.stagesCompleted
  /\ life <= 1 => JobState.stagesCompleted \subseteq StagesUpTo(JobState.lastSeq)

(* What a UI was told is done is on disk: once "done" is pushed, the stage  *)
(* has its end time for every reader, and in jobs.db alone when checkpoints *)
(* are on; likewise the status once JobComplete is pushed (job.rs, run: the *)
(* order of commit, checkpoint and push).  Over every life and kill, but    *)
(* only while no store call has failed: the thread logs a failed commit or  *)
(* checkpoint and announces the stage all the same.                         *)
AnnouncedIsDurable ==
  faults = 0 =>
    /\ \A s \in Stages : OnTheWire(StageEvent(s, "done")) =>
         /\ s \in db.ended
         /\ Checkpoint \/ ~Wal => s \in mainFile.ended
    /\ pc \in {"ended", "closed"} =>
         /\ db.status = "completed"
         /\ Checkpoint \/ ~Wal => mainFile.status = "completed"

(* The log the thread builds is the abstract event log.                     *)
EventsPerStage == TicksPerStage + 2
TheLog == INSTANCE EventLog WITH Total <- NumStages * EventsPerStage + 1,
                                 len <- Len(log)
ImplementsEventLog == TheLog!LogSpec

(* A started job reaches JobComplete although any store call may fail,      *)
(* unless its broker dies (job.rs, run: store errors are logged only).      *)
JobCompletes == pc = "record_start" ~> finished \/ pc = "idle"

(* For a reader of the record nothing may be lost: what the comment in run  *)
(* says of a UI that recovers from the database, with no word of a second   *)
(* life.                                                                    *)
RecoveryNeverSkips == JobState.lastSeq <= Len(log)
===============================================================================
