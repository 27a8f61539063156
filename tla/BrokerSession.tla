----------------------------- MODULE BrokerSession -----------------------------
(***************************************************************************)
(* One session of the split-privilege design: the broker's serving loop    *)
(* (broker/src/main.rs), the single pipe instance it serves                *)
(* (broker/src/pipe.rs, ui/BrokerPipe.cs), the UI process that drives a    *)
(* job through it (ui/Program.cs) and the session file in which that UI    *)
(* keeps its position (ui/Session.cs).                                     *)
(*                                                                         *)
(* The UI may be killed at any step and launched again; the broker notices *)
(* at its next read or write, keeps the job and waits for the next client. *)
(* The job is an EventLog.  Each side sees the other only through the pipe.*)
(*                                                                         *)
(* Bounds: MaxLaunches UI processes, of which MaxKills are killed;         *)
(* MaxServeErrors connections the broker drops by itself; MaxFailedAccepts *)
(* accepts that fail on a client that has gone, MaxCrashes broker kills    *)
(* and MaxLives broker starts.                                             *)
(***************************************************************************)
EXTENDS EventLog, Sequences, FiniteSets

CONSTANTS
  Scenarios,        \* what a launched UI may do: subset of AllScenarios
  PipeCapacity,     \* unread messages one direction of the pipe holds
  MaxLaunches, MaxKills, MaxServeErrors, MaxFailedAccepts, MaxCrashes, MaxLives

AllScenarios == {"stream", "hello", "shutdown"}

ASSUME SessionAssumption ==
  /\ Scenarios \subseteq AllScenarios
  /\ PipeCapacity \in Nat \ {0}
  /\ {MaxLaunches, MaxKills, MaxServeErrors, MaxFailedAccepts, MaxCrashes, MaxLives}
       \subseteq Nat

VARIABLES
  job,        \* serve's Option<JobHandle> is Some
  bpc,        \* where the serving thread is
  cursor,     \* the last event written to this client
  batch,      \* events_after returned the events up to this one
  batchEnds,  \* ... and said the job had finished
  conn,       \* the pipe instance, as the broker end sees it
  toBroker,   \* commands written by the client and not yet read
  toUi,       \* frames written by the broker and not yet read
  uiEnd,      \* the client's handle
  upc,        \* where the UI process is
  scenario,   \* what it was launched to do
  ack,        \* the HelloAck it got: resumed_from, and whether there is a job
  last,       \* RunJob's last
  session,    \* session.json
  shown,      \* every event any UI process has printed, in order
  launches, kills, errors, failed, crashes, lives

brokerVars == <<job, bpc, cursor, batch, batchEnds>>
pipeVars   == <<conn, toBroker, toUi, uiEnd>>
uiVars     == <<upc, scenario, ack, last>>
diskVars   == <<session, shown>>
counters   == <<launches, kills, errors, failed, crashes, lives>>
vars == <<logVars, brokerVars, pipeVars, uiVars, diskVars, counters>>

Command(type, n) == [type |-> type, n |-> n]
Frame(type, n)   == [type |-> type, n |-> n, job |-> job, life |-> lives]
EventFrame(seq)  == Frame("Event", seq)
NoAck == [from |-> 0, job |-> FALSE]

TypeOK ==
  /\ LogTypeOK
  /\ job \in BOOLEAN
  /\ bpc \in {"down", "created", "accept", "read", "stream", "write"}
  /\ cursor \in 0..Total /\ batch \in 0..Total /\ batchEnds \in BOOLEAN
  /\ conn \in {"down", "listening", "open", "uiClosed"}
  /\ uiEnd \in {"closed", "open", "broken"}
  /\ \A i \in 1..Len(toBroker) :
       toBroker[i] \in [type : {"Hello", "ApplyPlan", "JobResume", "Shutdown"}, n : 0..Total]
  /\ \A i \in 1..Len(toUi) :
       toUi[i] \in [type : {"HelloAck", "Ack", "Event"}, n : 0..Total,
                    job : BOOLEAN, life : 0..MaxLives]
  /\ upc \in {"off", "connect", "say_hello", "hello", "save_ack", "command", "ack",
              "receive", "save", "saving"}
  /\ scenario \in AllScenarios
  /\ ack \in [from : 0..Total, job : BOOLEAN] /\ last \in 0..Total
  /\ session \in [state : {"absent", "ok", "torn"}, lastSeq : 0..Total]
  /\ \A i \in 1..Len(shown) : shown[i] \in [life : 1..MaxLives, seq : 1..Total]

Init ==
  /\ EmptyLog
  /\ job = FALSE /\ bpc = "down" /\ cursor = 0 /\ batch = 0 /\ batchEnds = FALSE
  /\ conn = "down" /\ toBroker = <<>> /\ toUi = <<>> /\ uiEnd = "closed"
  /\ upc = "off" /\ scenario = "stream" /\ ack = NoAck /\ last = 0
  /\ session = [state |-> "absent", lastSeq |-> 0]
  /\ shown = <<>>
  /\ launches = 0 /\ kills = 0 /\ errors = 0 /\ failed = 0 /\ crashes = 0 /\ lives = 0

-------------------------------------------------------------------------------
(* The job thread.                                                          *)
JobPush ==
  /\ job
  /\ PushStageEvent \/ PushJobComplete
  /\ UNCHANGED <<brokerVars, pipeVars, uiVars, diskVars, counters>>

-------------------------------------------------------------------------------
(* The serving thread.                                                      *)

(* DisconnectNamedPipe, and back to the top of serve's loop: what either    *)
(* side had not read is discarded, and the name is free for the next one.   *)
Hangup ==
  /\ conn' = "listening" /\ bpc' = "accept"
  /\ toBroker' = <<>> /\ toUi' = <<>>
  /\ uiEnd' = IF uiEnd = "open" THEN "broken" ELSE uiEnd

(* The broker process is gone, and with it the job thread and the pipe.     *)
Exit(unread) ==
  /\ conn' = "down" /\ bpc' = "down" /\ job' = FALSE
  /\ toBroker' = <<>> /\ toUi' = unread
  /\ uiEnd' = IF uiEnd = "open" THEN "broken" ELSE uiEnd

(* write_frame: a client that has gone is Ok(false), never an error.        *)
ClientGone == conn = "uiClosed"
CanWrite   == conn = "open" /\ Len(toUi) < PipeCapacity
Writes(frame) == toUi' = Append(toUi, frame)

(* pipe::create: from here on a client can connect.                         *)
BrokerStart ==
  /\ conn = "down"
  /\ lives < MaxLives
  /\ lives' = lives + 1
  /\ conn' = "listening" /\ bpc' = "created"
  /\ NewLog
  /\ UNCHANGED <<job, cursor, batch, batchEnds, toBroker, toUi, uiEnd, uiVars, diskVars>>
  /\ UNCHANGED <<launches, kills, errors, failed, crashes>>

(* The first ConnectNamedPipe.  A client that came and went in the window   *)
(* makes it fail with ERROR_NO_DATA, which ends serve.                      *)
BrokerListen ==
  /\ bpc = "created"
  /\ \/ /\ ~ClientGone
        /\ bpc' = "accept"
        /\ UNCHANGED <<job, cursor, batch, batchEnds, pipeVars>>
     \/ /\ ClientGone
        /\ Exit(<<>>)
        /\ UNCHANGED <<cursor, batch, batchEnds>>
  /\ UNCHANGED <<logVars, uiVars, diskVars, counters>>

(* accept, client_process_id and admit.  A client that has already gone may *)
(* be served all the same, or no longer be identifiable, and refused; or    *)
(* accept()? or client_process_id()? fails on it, and serve returns.        *)
BrokerAccept ==
  /\ bpc = "accept"
  /\ \/ /\ conn \in {"open", "uiClosed"}
        /\ bpc' = "read" /\ cursor' = 0
        /\ UNCHANGED <<job, pipeVars, failed>>
     \/ /\ ClientGone
        /\ Hangup
        /\ UNCHANGED <<job, cursor, failed>>
     \/ /\ ClientGone
        /\ failed < MaxFailedAccepts
        /\ Exit(<<>>)
        /\ failed' = failed + 1
        /\ UNCHANGED cursor
  /\ UNCHANGED <<logVars, batch, batchEnds, uiVars, diskVars>>
  /\ UNCHANGED <<launches, kills, errors, crashes, lives>>

Receives(type) ==
  /\ bpc = "read"
  /\ toBroker # <<>>
  /\ Head(toBroker).type = type

(* A command is answered, and the loop goes on at the given point; or the   *)
(* client has gone and the connection is given up.                          *)
Answers(frame, point) ==
  \/ /\ CanWrite
     /\ Writes(frame)
     /\ toBroker' = Tail(toBroker)
     /\ bpc' = point
     /\ UNCHANGED <<conn, uiEnd>>
  \/ ClientGone /\ Hangup

OnHello ==
  /\ Receives("Hello")
  /\ cursor' = Head(toBroker).n
  /\ Answers(Frame("HelloAck", cursor'), "read")
  /\ UNCHANGED <<logVars, job, batch, batchEnds, uiVars, diskVars, counters>>

(* The job is started before the Ack is tried, so it runs even if the       *)
(* client is already gone.                                                  *)
OnApplyPlan ==
  /\ Receives("ApplyPlan")
  /\ job' = TRUE
  /\ Answers(Frame("Ack", 0), "stream")
  /\ UNCHANGED <<logVars, cursor, batch, batchEnds, uiVars, diskVars, counters>>

(* Slips: streaming resumes after the event that was missed, or from the    *)
(* beginning of the log.                                                    *)
OnJobResume_PastNext ==
  /\ Receives("JobResume")
  /\ cursor' = Head(toBroker).n + 1
  /\ Answers(Frame("Ack", 0), IF job THEN "stream" ELSE "read")
  /\ UNCHANGED <<logVars, job, batch, batchEnds, uiVars, diskVars, counters>>

OnJobResume_FromStart ==
  /\ Receives("JobResume")
  /\ cursor' = 0
  /\ Answers(Frame("Ack", 0), IF job THEN "stream" ELSE "read")
  /\ UNCHANGED <<logVars, job, batch, batchEnds, uiVars, diskVars, counters>>

OnJobResume ==
  /\ Receives("JobResume")
  /\ cursor' = Head(toBroker).n
  /\ Answers(Frame("Ack", 0), IF job THEN "stream" ELSE "read")
  /\ UNCHANGED <<logVars, job, batch, batchEnds, uiVars, diskVars, counters>>

(* The Ack is tried and its fate ignored; serve disconnects and returns.    *)
OnShutdown ==
  /\ Receives("Shutdown")
  /\ Exit(<<>>)
  /\ UNCHANGED <<logVars, cursor, batch, batchEnds, uiVars, diskVars, counters>>

(* Slip: the job goes with the client that started it.                      *)
ClientCloses_DropsJob ==
  /\ bpc = "read"
  /\ toBroker = <<>> /\ ClientGone
  /\ Hangup
  /\ job' = FALSE
  /\ UNCHANGED <<logVars, cursor, batch, batchEnds, uiVars, diskVars, counters>>

ClientCloses ==
  /\ bpc = "read"
  /\ toBroker = <<>> /\ ClientGone
  /\ Hangup
  /\ UNCHANGED <<logVars, job, cursor, batch, batchEnds, uiVars, diskVars, counters>>

(* Slip: the batch ends one past the last event.                            *)
EventsAfter_PastEnd ==
  /\ bpc = "stream"
  /\ len > cursor \/ finished
  /\ batch' = len + 1
  /\ batchEnds' = finished
  /\ bpc' = "write"
  /\ UNCHANGED <<logVars, job, cursor, pipeVars, uiVars, diskVars, counters>>

(* stream: events_after blocks until there is something to send or the job  *)
(* has ended; a timeout returns nothing and the loop asks again.  What it   *)
(* returns is a snapshot: the job goes on while the batch is written.       *)
EventsAfter ==
  /\ bpc = "stream"
  /\ len > cursor \/ finished
  /\ batch' = IF len > cursor THEN len ELSE cursor
  /\ batchEnds' = finished
  /\ bpc' = "write"
  /\ UNCHANGED <<logVars, job, cursor, pipeVars, uiVars, diskVars, counters>>

(* Slips: the newest event is sent for the next one; a client that has gone *)
(* is waited for.                                                           *)
WriteEvent_Newest ==
  /\ bpc = "write"
  /\ cursor < batch
  /\ \/ /\ CanWrite
        /\ Writes(EventFrame(len))
        /\ cursor' = cursor + 1
        /\ UNCHANGED <<bpc, conn, toBroker, uiEnd>>
     \/ /\ ClientGone
        /\ Hangup
        /\ UNCHANGED cursor
  /\ UNCHANGED <<logVars, job, batch, batchEnds, uiVars, diskVars, counters>>

WriteEvent_Waits ==
  /\ bpc = "write"
  /\ cursor < batch
  /\ CanWrite
  /\ Writes(EventFrame(cursor + 1))
  /\ cursor' = cursor + 1
  /\ UNCHANGED <<bpc, conn, toBroker, uiEnd>>
  /\ UNCHANGED <<logVars, job, batch, batchEnds, uiVars, diskVars, counters>>

WriteEvent ==
  /\ bpc = "write"
  /\ cursor < batch
  /\ \/ /\ CanWrite
        /\ Writes(EventFrame(cursor + 1))
        /\ cursor' = cursor + 1
        /\ UNCHANGED <<bpc, conn, toBroker, uiEnd>>
     \/ /\ ClientGone
        /\ Hangup
        /\ UNCHANGED cursor
  /\ UNCHANGED <<logVars, job, batch, batchEnds, uiVars, diskVars, counters>>

(* Slip: one batch is all a client is sent.                                 *)
BatchWritten_Once ==
  /\ bpc = "write"
  /\ cursor = batch
  /\ bpc' = "read"
  /\ UNCHANGED <<logVars, job, cursor, batch, batchEnds, pipeVars, uiVars, diskVars, counters>>

(* The job's length is read again, after the batch was written.             *)
BatchWritten ==
  /\ bpc = "write"
  /\ cursor = batch
  /\ bpc' = IF batchEnds /\ len <= cursor THEN "read" ELSE "stream"
  /\ UNCHANGED <<logVars, job, cursor, batch, batchEnds, pipeVars, uiVars, diskVars, counters>>

(* serve_client returns Err (a write that fails otherwise, a store that     *)
(* does not open): logged, disconnected, and the loop goes on.              *)
ServeError ==
  /\ errors < MaxServeErrors
  /\ bpc \in {"read", "write"}
  /\ Hangup
  /\ errors' = errors + 1
  /\ UNCHANGED <<logVars, job, cursor, batch, batchEnds, uiVars, diskVars>>
  /\ UNCHANGED <<launches, kills, failed, crashes, lives>>

(* The process is killed.  Its unread frames stay readable for the client.  *)
BrokerCrash ==
  /\ crashes < MaxCrashes
  /\ bpc # "down"
  /\ Exit(toUi)
  /\ crashes' = crashes + 1
  /\ UNCHANGED <<logVars, cursor, batch, batchEnds, uiVars, diskVars>>
  /\ UNCHANGED <<launches, kills, errors, failed, lives>>

BrokerStep ==
  \/ BrokerListen \/ BrokerAccept \/ OnHello \/ OnApplyPlan \/ OnJobResume
  \/ OnShutdown \/ ClientCloses \/ EventsAfter \/ WriteEvent \/ BatchWritten

-------------------------------------------------------------------------------
(* The UI process.                                                          *)

(* The process ends, or its pipe handle is disposed: the broker can still   *)
(* read what was sent, the UI reads nothing more.                           *)
UiLeaves ==
  /\ upc' = "off"
  /\ uiEnd' = "closed" /\ toUi' = <<>>
  /\ conn' = IF uiEnd = "open" THEN "uiClosed" ELSE conn
  /\ UNCHANGED toBroker

Resumed == IF session.state = "ok" THEN session.lastSeq ELSE 0

UiLaunch(s) ==
  /\ upc = "off"
  /\ launches < MaxLaunches
  /\ launches' = launches + 1
  /\ upc' = "connect" /\ scenario' = s
  /\ ack' = NoAck /\ last' = 0
  /\ UNCHANGED <<logVars, brokerVars, pipeVars, diskVars, kills, errors, failed, crashes, lives>>

(* NamedPipeClientStream.Connect: waits for the one instance to be free.    *)
UiConnect ==
  /\ upc = "connect"
  /\ conn = "listening"
  /\ conn' = "open" /\ uiEnd' = "open" /\ toBroker' = <<>> /\ toUi' = <<>>
  /\ upc' = "say_hello"
  /\ UNCHANGED <<logVars, brokerVars, scenario, ack, last, diskVars, counters>>

Sends(command) ==
  /\ uiEnd = "open"
  /\ toBroker' = Append(toBroker, command)
  /\ UNCHANGED <<conn, toUi, uiEnd>>

(* Session.Load and the first half of SayHello.  A session.json that was    *)
(* truncated and not rewritten does not parse, and ends the process.        *)
UiSayHello ==
  /\ upc = "say_hello"
  /\ IF scenario = "stream" /\ session.state = "torn"
     THEN UiLeaves
     ELSE /\ Sends(Command("Hello", IF scenario = "stream" THEN Resumed ELSE 0))
          /\ upc' = "hello"
  /\ UNCHANGED <<logVars, brokerVars, scenario, ack, last, diskVars, counters>>

(* Session.Save truncates the file and then writes it.                      *)
Saves(seq) == session' = [state |-> "ok", lastSeq |-> seq]
Truncates  == session' = [state |-> "torn", lastSeq |-> 0]

Reads(type) ==
  /\ toUi # <<>>
  /\ Head(toUi).type = type
  /\ toUi' = Tail(toUi)
  /\ UNCHANGED <<conn, toBroker, uiEnd>>

(* The second half of SayHello: the position asked for is saved again, in   *)
(* the two steps of Save.                                                   *)
UiHelloAck ==
  /\ upc = "hello"
  /\ Reads("HelloAck")
  /\ ack' = [from |-> Head(toUi).n, job |-> Head(toUi).job]
  /\ Truncates
  /\ upc' = "save_ack"
  /\ UNCHANGED <<logVars, brokerVars, scenario, last, shown, counters>>

UiSavedAck ==
  /\ upc = "save_ack"
  /\ Saves(ack.from)
  /\ upc' = "command"
  /\ UNCHANGED <<logVars, brokerVars, pipeVars, scenario, ack, last, shown, counters>>

(* RunJob starts or joins the job; hello has what it came for; shutdown     *)
(* sends its command and does not wait.                                     *)
UiCommand ==
  /\ upc = "command"
  /\ \/ /\ scenario = "stream"
        /\ Sends(IF ack.job THEN Command("JobResume", ack.from) ELSE Command("ApplyPlan", 0))
        /\ upc' = "ack" /\ last' = ack.from
     \/ /\ scenario = "hello"
        /\ UiLeaves /\ UNCHANGED last
     \/ /\ scenario = "shutdown" /\ uiEnd = "open"
        /\ upc' = "off" /\ uiEnd' = "closed" /\ conn' = "uiClosed"
        /\ toBroker' = Append(toBroker, Command("Shutdown", 0)) /\ toUi' = <<>>
        /\ UNCHANGED last
  /\ UNCHANGED <<logVars, brokerVars, scenario, ack, diskVars, counters>>

(* Call reads until its response.  It would drop a frame that came first,   *)
(* but the broker streams only after the Ack.                               *)
UiAck ==
  /\ upc = "ack"
  /\ Reads("Ack")
  /\ upc' = "receive"
  /\ UNCHANGED <<logVars, brokerVars, scenario, ack, last, diskVars, counters>>

(* RunJob prints the event, and saves its position afterwards.              *)
UiShow ==
  /\ upc = "receive"
  /\ Reads("Event")
  /\ last' = Head(toUi).n
  /\ shown' = Append(shown, [life |-> Head(toUi).life, seq |-> Head(toUi).n])
  /\ upc' = "save"
  /\ UNCHANGED <<logVars, brokerVars, scenario, ack, session, counters>>

UiTruncate ==
  /\ upc = "save"
  /\ Truncates
  /\ upc' = "saving"
  /\ UNCHANGED <<logVars, brokerVars, pipeVars, scenario, ack, last, shown, counters>>

(* The position is saved; JobComplete ends the process, anything else goes  *)
(* back to Receive.                                                         *)
UiSave ==
  /\ upc = "saving"
  /\ Saves(last)
  /\ IF last = Total THEN UiLeaves ELSE upc' = "receive" /\ UNCHANGED pipeVars
  /\ UNCHANGED <<logVars, brokerVars, scenario, ack, last, shown, counters>>

(* Receive returns null, or Send throws: the process reports it and ends.   *)
UiBrokerGone ==
  /\ uiEnd = "broken"
  /\ \/ upc \in {"say_hello", "command"}
     \/ upc \in {"hello", "ack", "receive"} /\ toUi = <<>>
  /\ UiLeaves
  /\ UNCHANGED <<logVars, brokerVars, scenario, ack, last, diskVars, counters>>

(* The process is killed, or gives up waiting for the pipe.                 *)
UiKill ==
  /\ upc # "off"
  /\ kills < MaxKills
  /\ kills' = kills + 1
  /\ UiLeaves
  /\ UNCHANGED <<logVars, brokerVars, scenario, ack, last, diskVars>>
  /\ UNCHANGED <<launches, errors, failed, crashes, lives>>

UiStep ==
  \/ UiConnect \/ UiSayHello \/ UiHelloAck \/ UiSavedAck \/ UiCommand \/ UiAck
  \/ UiShow \/ UiTruncate \/ UiSave \/ UiBrokerGone

-------------------------------------------------------------------------------
Next ==
  \/ JobPush
  \/ BrokerStart \/ BrokerStep \/ ServeError \/ BrokerCrash
  \/ (\E s \in Scenarios : UiLaunch(s)) \/ UiStep \/ UiKill

Spec == Init /\ [][Next]_vars

(* The three threads run, and the user starts the broker and the UI again.  *)
(* Nothing obliges anybody to kill a process or to fail a write.            *)
FairSpec ==
  /\ Spec
  /\ WF_vars(JobPush) /\ WF_vars(BrokerStep) /\ WF_vars(UiStep)
  /\ WF_vars(BrokerStart) /\ WF_vars(\E s \in Scenarios : UiLaunch(s))

-------------------------------------------------------------------------------
Highest == IF \E i \in 1..Len(shown) : TRUE
           THEN CHOOSE m \in 1..Total :
                  /\ \E i \in 1..Len(shown) : shown[i].seq = m
                  /\ \A i \in 1..Len(shown) : shown[i].seq <= m
           ELSE 0

Repeated == {i \in 1..Len(shown) : \E j \in 1..(i - 1) : shown[j] = shown[i]}

(* No event of the first job a user sees is ever left out: whatever an      *)
(* event's number, the one before it was printed earlier, by this UI        *)
(* process or one before it (docs/08, Reconnection: streaming resumes at    *)
(* resume_from + 1).  Of a job that a later broker ran, the events up to    *)
(* the saved position are not shown: that position is of the first.         *)
NothingSkipped ==
  \A i \in 1..Len(shown) :
    \/ shown[i].seq = 1
    \/ \E j \in 1..(i - 1) : shown[j] = [shown[i] EXCEPT !.seq = @ - 1]
    \/ shown[i].life # shown[1].life

(* With crashes of the broker and with clients that reset the saved         *)
(* position, the numbers printed still follow one another: each was         *)
(* preceded by its predecessor's number, in this job or in one of the same  *)
(* session before it (Program.cs, RunJob; main.rs, stream).                 *)
NumbersFollow ==
  \A i \in 1..Len(shown) :
    \/ shown[i].seq = 1
    \/ \E j \in 1..(i - 1) : shown[j].seq = shown[i].seq - 1

(* An event is printed twice only where a kill fell between printing it and *)
(* the truncation of session.json that begins its save: never more often    *)
(* than processes were killed.  A kill later in the save leaves a torn file *)
(* instead, and nothing is printed any more (Program.cs, RunJob;            *)
(* Session.cs, Save; main.rs, stream).                                      *)
OneRepeatPerKill == Cardinality(Repeated) <= kills

(* What is in the pipe is exactly what the UI has not seen and the broker   *)
(* has written, in order (main.rs, stream; BrokerPipe.cs, Call).            *)
PipeHoldsTheDifference ==
  uiEnd = "open" /\ upc \in {"receive", "save", "saving"} =>
    /\ cursor = last + Len(toUi)
    /\ \A i \in 1..Len(toUi) : toUi[i].type = "Event" /\ toUi[i].n = last + i

(* A client that was accepted never takes the job with it, whether it goes, *)
(* is dropped or is refused: a Shutdown command ends the job, a kill of the *)
(* broker, or the one client serve does not survive, which connected and    *)
(* left before accept and client_process_id were done with it (main.rs,     *)
(* serve: "The job thread is untouched by this; only the reader is gone").  *)
OnlyShutdownEndsTheJob ==
  [][job => \/ job' /\ len' >= len
            \/ Receives("Shutdown")
            \/ crashes' > crashes
            \/ bpc = "accept" /\ ClientGone /\ failed' > failed]_vars

(* The one pipe instance is never held by a client that is gone: the broker *)
(* gets back to accepting (docs/08, Reconnection: "it detects               *)
(* ERROR_BROKEN_PIPE on its next write ... and returns to                   *)
(* ConnectNamedPipe").                                                      *)
VanishedClientIsReleased == conn = "uiClosed" ~> conn # "uiClosed"

(* Program.cs, remarks of RunJob: "The session file is rewritten after every *)
(* event so a hard kill leaves an exact resume point".                      *)
KillLeavesAResumePoint == upc = "off" => session.state # "torn"

(* The session implements the promise of the protocol, and keeps its        *)
(* liveness too unless a kill left session.json torn, after which no UI     *)
(* gets past Session.Load (docs/08, Reconnection; Session.cs, Save).        *)
Stream == INSTANCE ResumableStream WITH delivered <- Highest
ImplementsResumableStream ==
  /\ Stream!StreamSafety
  /\ <>~KillLeavesAResumePoint \/ Stream!StreamFairness

(* RunJob: "Drive the job to completion" (Program.cs, summary of RunJob): a *)
(* UI that waits for events stops waiting.                                  *)
RunJobReturns == upc = "receive" ~> upc # "receive"
===============================================================================
