---------------------------- MODULE ResumableStream ----------------------------
(***************************************************************************)
(* What the reconnection protocol promises its user (docs/08-IPC-PROTOCOL, *)
(* Reconnection): a job writes its events to a log, and a viewer sees them *)
(* one after the other, in order, with none left out, however often the    *)
(* viewer is killed and started again; in the end it has seen them all.    *)
(* Seeing an event a second time changes nothing here.                     *)
(***************************************************************************)
EXTENDS EventLog

VARIABLE delivered   \* the viewer has seen the events 1..delivered

streamVars == <<len, finished, delivered>>

Produce == (PushStageEvent \/ PushJobComplete) /\ UNCHANGED delivered

Deliver ==
  /\ delivered < len
  /\ delivered' = delivered + 1
  /\ UNCHANGED logVars

StreamSafety ==
  /\ EmptyLog /\ delivered = 0
  /\ [][Produce \/ Deliver]_streamVars

StreamFairness == WF_streamVars(Produce) /\ WF_streamVars(Deliver)

StreamSpec == StreamSafety /\ StreamFairness
================================================================================
