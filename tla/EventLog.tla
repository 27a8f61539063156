------------------------------- MODULE EventLog -------------------------------
(***************************************************************************)
(* The event log of one job, as everything outside the job thread sees it: *)
(* a log that only grows, one event at a time, whose last event is         *)
(* JobComplete and appears in the same critical section as the finished    *)
(* flag.  An event is its sequence number, so the log is its length.       *)
(*                                                                         *)
(* The job thread itself (BrokerJob) implements this specification; the    *)
(* session between the broker and the UI (BrokerSession) is built on it.   *)
(***************************************************************************)
EXTENDS Integers

CONSTANT Total   \* events a job emits in all, JobComplete included

ASSUME TotalAssumption == Total \in Nat \ {0}

VARIABLES
  len,        \* EventLog.events.len(): the highest sequence number so far
  finished    \* EventLog.finished

logVars == <<len, finished>>

LogTypeOK == len \in 0..Total /\ finished \in BOOLEAN

EmptyLog == len = 0 /\ finished = FALSE

(* push(): a StageEvent, with the lock held for the append alone. *)
PushStageEvent ==
  /\ ~finished
  /\ len + 1 < Total
  /\ len' = len + 1
  /\ UNCHANGED finished

(* The end of run(): JobComplete and the flag under one lock. *)
PushJobComplete ==
  /\ ~finished
  /\ len + 1 = Total
  /\ len' = Total
  /\ finished' = TRUE

(* A broker that is started again begins with a log of its own. *)
NewLog == len' = 0 /\ finished' = FALSE

LogNext == PushStageEvent \/ PushJobComplete \/ NewLog

LogSpec == EmptyLog /\ [][LogNext]_logVars
===============================================================================
