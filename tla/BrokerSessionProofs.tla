-------------------------- MODULE BrokerSessionProofs --------------------------
(***************************************************************************)
(* Theorems of the session (BrokerSession), for every length of the job,   *)
(* capacity of the pipe, number of launches, kills, dropped connections,   *)
(* broker lives and crashes.  What holds only while the broker is never    *)
(* killed or shut down says so in its hypotheses.                          *)
(***************************************************************************)
EXTENDS BrokerSession, TLAPS, FiniteSetTheorems

Commands == [type : {"Hello", "ApplyPlan", "JobResume", "Shutdown"}, n : 0..Total]
Frames   == {f \in [type : {"HelloAck", "Ack", "Event"}, n : 0..Total,
                    job : BOOLEAN, life : 1..MaxLives] : f.type = "Event" => f.n >= 1}
Prints   == [life : 1..MaxLives, seq : 1..Total]

BrokerPoints == {"down", "created", "accept", "read", "stream", "write"}
UiPoints == {"off", "connect", "say_hello", "hello", "save_ack", "command", "ack",
             "receive", "save", "saving"}

(* TypeOK, with the queues as sequences, with the counters, and with what   *)
(* makes every printed event one: it was written in some life.              *)
BrokerTyped ==
  /\ LogTypeOK
  /\ job \in BOOLEAN /\ bpc \in BrokerPoints
  /\ cursor \in 0..Total /\ batch \in 0..Total /\ batchEnds \in BOOLEAN
  /\ lives \in 0..MaxLives
  /\ bpc # "down" => lives >= 1

PipeTyped ==
  /\ conn \in {"down", "listening", "open", "uiClosed"}
  /\ uiEnd \in {"closed", "open", "broken"}
  /\ toBroker \in Seq(Commands) /\ toUi \in Seq(Frames)

UiTyped ==
  /\ upc \in UiPoints /\ scenario \in AllScenarios
  /\ ack \in [from : 0..Total, job : BOOLEAN] /\ last \in 0..Total
  /\ session \in [state : {"absent", "ok", "torn"}, lastSeq : 0..Total]
  /\ shown \in Seq(Prints)
  /\ kills \in Nat /\ crashes \in Nat /\ failed \in Nat

Typed == BrokerTyped /\ PipeTyped /\ UiTyped

(* The two ends of the pipe and the processes that hold them.               *)
Ends ==
  /\ conn = "open" <=> uiEnd = "open"
  /\ conn = "down" <=> bpc = "down"
  /\ conn = "listening" => bpc \in {"created", "accept"}
  /\ upc \in {"off", "connect"} <=> uiEnd = "closed"
  /\ uiEnd = "closed" => toUi = <<>>
  /\ bpc \in {"down", "created"} => ~job

(* The positions that were printed, and the beginning.                      *)
Past == {0} \cup {shown[i].seq : i \in 1..Len(shown)}

(* A position that was printed, or will have been by the time the frames    *)
(* before the k-th are read.                                                *)
Coming(n, k) == n \in Past \/ \E j \in 1..(k - 1) : toUi[j].type = "Event" /\ toUi[j].n = n

Positions ==
  /\ session.lastSeq \in Past /\ ack.from \in Past /\ last \in Past
  /\ \A i \in 1..Len(toBroker) : toBroker[i].n \in Past
  /\ \A i \in 1..Len(toUi) :
       /\ toUi[i].type = "HelloAck" => toUi[i].n \in Past
       /\ toUi[i].type = "Event" => Coming(toUi[i].n - 1, i)
  /\ conn = "open" /\ bpc \in {"read", "stream", "write"} => Coming(cursor, Len(toUi) + 1)

-------------------------------------------------------------------------------
(* Queues.                                                                  *)

LEMMA Appended ==
  ASSUME NEW S, NEW s \in Seq(S), NEW x \in S
  PROVE  /\ Append(s, x) \in Seq(S)
         /\ Len(s) \in Nat
         /\ Len(Append(s, x)) = Len(s) + 1
         /\ \A i \in 1..Len(s) : Append(s, x)[i] = s[i]
         /\ Append(s, x)[Len(s) + 1] = x
OBVIOUS

LEMMA Consumed ==
  ASSUME NEW S, NEW s \in Seq(S), s # <<>>
  PROVE  /\ Tail(s) \in Seq(S)
         /\ Len(s) \in Nat /\ Len(s) >= 1
         /\ Len(Tail(s)) = Len(s) - 1
         /\ \A i \in 1..Len(Tail(s)) : Tail(s)[i] = s[i + 1]
         /\ Head(s) = s[1] /\ Head(s) \in S
OBVIOUS

LEMMA NoneQueued ==
  ASSUME NEW S
  PROVE  <<>> \in Seq(S) /\ Len(<<>>) = 0
OBVIOUS

LEMMA QueueTyped ==
  ASSUME NEW S, NEW q \in Seq(S), NEW r,
         \/ r = q
         \/ r = <<>>
         \/ q # <<>> /\ r = Tail(q)
         \/ \E x \in S : r = Append(q, x)
  PROVE  r \in Seq(S)
<1>1. CASE r = q
  BY <1>1
<1>2. CASE r = <<>>
  BY <1>2, NoneQueued
<1>3. CASE q # <<>> /\ r = Tail(q)
  BY <1>3, Consumed
<1>4. ASSUME NEW x \in S, r = Append(q, x) PROVE r \in Seq(S)
  BY <1>4, Appended
<1> QED
  BY <1>1, <1>2, <1>3, <1>4

-------------------------------------------------------------------------------
(* Type correctness.                                                        *)

LEMMA ScenarioAssumption ==
  /\ Scenarios \subseteq AllScenarios /\ MaxFailedAccepts \in Nat /\ MaxCrashes \in Nat
  /\ PipeCapacity \in Nat /\ MaxLives \in Nat /\ MaxKills \in Nat
  /\ Total \in Nat /\ Total >= 1
BY SessionAssumption, TotalAssumption DEF SessionAssumption, TotalAssumption

(* What either side writes is a command or a frame.                         *)
LEMMA Written ==
  ASSUME BrokerTyped
  PROVE  /\ \A t \in {"Hello", "ApplyPlan", "JobResume", "Shutdown"}, n \in 0..Total :
              Command(t, n) \in Commands
         /\ bpc # "down" =>
              /\ \A t \in {"HelloAck", "Ack"}, n \in 0..Total : Frame(t, n) \in Frames
              /\ \A n \in 1..Total : EventFrame(n) \in Frames
BY ScenarioAssumption DEF Command, Commands, Frame, EventFrame, Frames, BrokerTyped

LEMMA TypedInit == Init => Typed
<1> SUFFICES ASSUME Init PROVE Typed
  OBVIOUS
<1>1. BrokerTyped
  <2>1. job \in BOOLEAN /\ batchEnds \in BOOLEAN /\ finished \in BOOLEAN
    BY DEF Init, EmptyLog
  <2> QED
    BY <2>1, ScenarioAssumption DEF Init, BrokerTyped, EmptyLog, LogTypeOK, BrokerPoints
<1>2. PipeTyped
  BY NoneQueued DEF Init, PipeTyped
<1>3. UiTyped
  BY NoneQueued, ScenarioAssumption DEF Init, UiTyped, UiPoints, AllScenarios, NoAck
<1> QED
  BY <1>1, <1>2, <1>3 DEF Typed

(* The log stays a log (job.rs, push).                                      *)
LEMMA LogTyped ==
  ASSUME LogTypeOK, PushStageEvent \/ PushJobComplete \/ NewLog
  PROVE  LogTypeOK'
<1>1. finished' \in BOOLEAN
  BY DEF LogTypeOK, PushStageEvent, PushJobComplete, NewLog
<1>2. len' \in 0..Total
  BY ScenarioAssumption DEF LogTypeOK, PushStageEvent, PushJobComplete, NewLog
<1> QED
  BY <1>1, <1>2 DEF LogTypeOK

LEMMA BrokerTypedStep == Typed /\ [Next]_vars => BrokerTyped'
<1> SUFFICES ASSUME Typed, [Next]_vars PROVE BrokerTyped'
  OBVIOUS
<1>c. toBroker # <<>> => Head(toBroker).n \in 0..Total
  <2> SUFFICES ASSUME toBroker # <<>> PROVE Head(toBroker).n \in 0..Total
    OBVIOUS
  <2>1. Head(toBroker) \in Commands
    BY Consumed DEF Typed, PipeTyped
  <2> QED
    BY <2>1 DEF Commands
<1>b. BrokerTyped /\ ack.from \in 0..Total
  BY DEF Typed, UiTyped
<1> USE <1>b, <1>c, ScenarioAssumption
    DEF BrokerTyped, LogTypeOK, BrokerPoints, logVars, brokerVars, counters
<1>1. CASE JobPush
  BY <1>1, LogTyped DEF JobPush
<1>2. CASE BrokerStart
  BY <1>2, LogTyped DEF BrokerStart
<1>3. CASE BrokerListen
  BY <1>3 DEF BrokerListen, Exit
<1>4. CASE BrokerAccept
  <2>1. /\ job' = job \/ job' = FALSE
        /\ bpc' \in {"read", "accept", "down"} /\ bpc = "accept"
        /\ cursor' = cursor \/ cursor' = 0
        /\ UNCHANGED <<logVars, batch, batchEnds, lives>>
    BY <1>4 DEF BrokerAccept, Hangup, Exit
  <2>2. job' \in BOOLEAN
    BY <2>1
  <2> QED
    BY <2>1, <2>2
<1>5. CASE OnHello
  BY <1>5 DEF OnHello, Receives, Answers, Hangup
<1>6. CASE OnApplyPlan
  BY <1>6 DEF OnApplyPlan, Receives, Answers, Hangup
<1>7. CASE OnJobResume
  BY <1>7 DEF OnJobResume, Receives, Answers, Hangup
<1>8. CASE OnShutdown
  BY <1>8 DEF OnShutdown, Receives, Exit
<1>9. CASE ClientCloses
  BY <1>9 DEF ClientCloses, Hangup
<1>10. CASE EventsAfter
  BY <1>10 DEF EventsAfter
<1>11. CASE WriteEvent
  BY <1>11 DEF WriteEvent, Hangup
<1>12. CASE BatchWritten
  BY <1>12 DEF BatchWritten
<1>13. CASE ServeError
  BY <1>13 DEF ServeError, Hangup
<1>14. CASE BrokerCrash
  BY <1>14 DEF BrokerCrash, Exit
<1>15. CASE (\E s \in Scenarios : UiLaunch(s)) \/ UiKill
  BY <1>15 DEF UiLaunch, UiKill
<1>16. CASE UiStep
  BY <1>16 DEF UiStep, UiConnect, UiSayHello, UiHelloAck, UiSavedAck, UiCommand, UiAck,
               UiShow, UiTruncate, UiSave, UiBrokerGone
<1>17. CASE UNCHANGED vars
  BY <1>17 DEF vars
<1> QED
  BY <1>1, <1>2, <1>3, <1>4, <1>5, <1>6, <1>7, <1>8, <1>9, <1>10, <1>11, <1>12,
     <1>13, <1>14, <1>15, <1>16, <1>17 DEF Next, BrokerStep

(* What each step does to the two queues: a command or a frame is appended, *)
(* the first one is taken, or the queue is emptied.                         *)
LEMMA QueueSteps ==
  ASSUME Typed, [Next]_vars
  PROVE  /\ \/ toBroker' = toBroker
            \/ toBroker' = <<>>
            \/ toBroker # <<>> /\ toBroker' = Tail(toBroker)
            \/ \E c \in Commands : toBroker' = Append(toBroker, c)
         /\ \/ toUi' = toUi
            \/ toUi' = <<>>
            \/ toUi # <<>> /\ toUi' = Tail(toUi)
            \/ \E f \in Frames : toUi' = Append(toUi, f)
<1> DEFINE Read == \/ toBroker' = toBroker
                   \/ toBroker' = <<>>
                   \/ toBroker # <<>> /\ toBroker' = Tail(toBroker)
                   \/ \E c \in Commands : toBroker' = Append(toBroker, c)
           Seen == \/ toUi' = toUi
                   \/ toUi' = <<>>
                   \/ toUi # <<>> /\ toUi' = Tail(toUi)
                   \/ \E f \in Frames : toUi' = Append(toUi, f)
<1> SUFFICES Read /\ Seen
  OBVIOUS
<1>b. BrokerTyped
  BY DEF Typed
<1>n. toBroker # <<>> => Head(toBroker) \in Commands /\ Head(toBroker).n \in 0..Total
  <2> SUFFICES ASSUME toBroker # <<>> PROVE Head(toBroker) \in Commands /\ Head(toBroker).n \in 0..Total
    OBVIOUS
  <2>1. Head(toBroker) \in Commands
    BY Consumed DEF Typed, PipeTyped
  <2> QED
    BY <2>1 DEF Commands
<1>a. ASSUME NEW frame, NEW point, Answers(frame, point), toBroker # <<>>, frame \in Frames
      PROVE  Read /\ Seen
  BY <1>a DEF Answers, Hangup, Writes
<1> USE DEF pipeVars
<1>1. CASE JobPush \/ BrokerStart \/ BrokerListen \/ BrokerAccept
  BY <1>1 DEF JobPush, BrokerStart, BrokerListen, BrokerAccept, Hangup, Exit
<1>2. CASE OnHello
  <2>1. Frame("HelloAck", cursor') \in Frames
    BY <1>2, <1>b, <1>n, Written DEF OnHello, Receives
  <2> QED
    BY <1>2, <2>1, <1>a DEF OnHello, Receives
<1>3. CASE OnApplyPlan
  <2>1. Frame("Ack", 0) \in Frames
    BY <1>3, <1>b, Written, ScenarioAssumption DEF OnApplyPlan, Receives
  <2> QED
    BY <1>3, <2>1, <1>a DEF OnApplyPlan, Receives
<1>4. CASE OnJobResume
  <2>1. Frame("Ack", 0) \in Frames
    BY <1>4, <1>b, Written, ScenarioAssumption DEF OnJobResume, Receives
  <2> QED
    BY <1>4, <2>1, <1>a DEF OnJobResume, Receives
<1>5. CASE OnShutdown \/ ClientCloses \/ EventsAfter \/ BatchWritten \/ ServeError \/ BrokerCrash
  BY <1>5 DEF OnShutdown, ClientCloses, EventsAfter, BatchWritten, ServeError, BrokerCrash,
              Hangup, Exit
<1>6. CASE WriteEvent
  <2>1. cursor + 1 \in 1..Total /\ bpc # "down"
    BY <1>6, <1>b, ScenarioAssumption DEF WriteEvent, BrokerTyped
  <2>2. EventFrame(cursor + 1) \in Frames
    BY <2>1, <1>b, Written
  <2> QED
    BY <1>6, <2>2 DEF WriteEvent, Writes, Hangup
<1>7. CASE (\E s \in Scenarios : UiLaunch(s)) \/ UiKill \/ UiBrokerGone
  BY <1>7 DEF UiLaunch, UiKill, UiBrokerGone, UiLeaves
<1>8. CASE UiConnect \/ UiHelloAck \/ UiSavedAck \/ UiAck \/ UiShow \/ UiTruncate \/ UiSave
  BY <1>8 DEF UiConnect, UiHelloAck, UiSavedAck, UiAck, UiShow, UiTruncate, UiSave, Reads,
              UiLeaves
<1>9. CASE UiSayHello
  <2>1. Resumed \in 0..Total
    BY ScenarioAssumption DEF Resumed, Typed, UiTyped
  <2>2. Command("Hello", IF scenario = "stream" THEN Resumed ELSE 0) \in Commands
    BY <2>1, <1>b, Written, ScenarioAssumption
  <2> QED
    BY <1>9, <2>2 DEF UiSayHello, UiLeaves, Sends
<1>10. CASE UiCommand
  <2>1. ack.from \in 0..Total
    BY DEF Typed, UiTyped
  <2>2. /\ Command("JobResume", ack.from) \in Commands /\ Command("ApplyPlan", 0) \in Commands
        /\ Command("Shutdown", 0) \in Commands
    BY <2>1, <1>b, Written, ScenarioAssumption
  <2> QED
    BY <1>10, <2>2 DEF UiCommand, UiLeaves, Sends
<1>11. CASE UNCHANGED vars
  BY <1>11 DEF vars
<1> QED
  BY <1>1, <1>2, <1>3, <1>4, <1>5, <1>6, <1>7, <1>8, <1>9, <1>10, <1>11
  DEF Next, BrokerStep, UiStep

LEMMA PipeTypedStep == Typed /\ [Next]_vars => PipeTyped'
<1> SUFFICES ASSUME Typed, [Next]_vars PROVE PipeTyped'
  OBVIOUS
<1>1. toBroker' \in Seq(Commands)
  BY QueueSteps, QueueTyped DEF Typed, PipeTyped
<1>2. toUi' \in Seq(Frames)
  BY QueueSteps, QueueTyped DEF Typed, PipeTyped
<1>3. conn' \in {"down", "listening", "open", "uiClosed"} /\ uiEnd' \in {"closed", "open", "broken"}
  <2> USE DEF Typed, PipeTyped, pipeVars
  <2>1. CASE JobPush \/ BrokerStart \/ BrokerListen \/ BrokerAccept \/ OnHello \/ OnApplyPlan
             \/ OnJobResume
    BY <2>1 DEF JobPush, BrokerStart, BrokerListen, BrokerAccept, OnHello, OnApplyPlan,
                OnJobResume, Answers, Hangup, Exit
  <2>2. CASE OnShutdown \/ ClientCloses \/ EventsAfter \/ WriteEvent \/ BatchWritten
             \/ ServeError \/ BrokerCrash
    BY <2>2 DEF OnShutdown, ClientCloses, EventsAfter, WriteEvent, BatchWritten, ServeError,
                BrokerCrash, Hangup, Exit
  <2>3. CASE (\E s \in Scenarios : UiLaunch(s)) \/ UiKill
    BY <2>3 DEF UiLaunch, UiKill, UiLeaves
  <2>4. CASE UiStep
    BY <2>4 DEF UiStep, UiConnect, UiSayHello, UiHelloAck, UiSavedAck, UiCommand, UiAck,
                UiShow, UiTruncate, UiSave, UiBrokerGone, UiLeaves, Sends, Reads
  <2>5. CASE UNCHANGED vars
    BY <2>5 DEF vars
  <2> QED
    BY <2>1, <2>2, <2>3, <2>4, <2>5 DEF Next, BrokerStep
<1> QED
  BY <1>1, <1>2, <1>3 DEF PipeTyped

LEMMA UiTypedStep == Typed /\ [Next]_vars => UiTyped'
<1> SUFFICES ASSUME Typed, [Next]_vars PROVE UiTyped'
  OBVIOUS
<1>t. UiTyped
  BY DEF Typed
<1>h. ASSUME toUi # <<>>
      PROVE  /\ Head(toUi).n \in 0..Total /\ Head(toUi).job \in BOOLEAN
             /\ Head(toUi).type = "Event" =>
                  [life |-> Head(toUi).life, seq |-> Head(toUi).n] \in Prints
  <2>1. Head(toUi) \in Frames
    BY <1>h, Consumed DEF Typed, PipeTyped
  <2> QED
    BY <2>1 DEF Frames, Prints
<1> USE <1>t, ScenarioAssumption DEF UiTyped, UiPoints, uiVars, diskVars, counters
<1>1. CASE JobPush \/ BrokerStep \/ BrokerStart \/ ServeError \/ BrokerCrash
  BY <1>1 DEF JobPush, BrokerStep, BrokerStart, BrokerListen, BrokerAccept, OnHello, OnApplyPlan,
              OnJobResume, OnShutdown, ClientCloses, EventsAfter, WriteEvent, BatchWritten,
              ServeError, BrokerCrash
<1>2. ASSUME NEW s \in Scenarios, UiLaunch(s) PROVE UiTyped'
  BY <1>2 DEF UiLaunch, NoAck
<1>3. CASE UiKill \/ UiConnect \/ UiSayHello \/ UiCommand \/ UiAck \/ UiBrokerGone
  BY <1>3 DEF UiKill, UiConnect, UiSayHello, UiCommand, UiAck, UiBrokerGone, UiLeaves
<1>4. CASE UiHelloAck
  <2>1. ack' \in [from : 0..Total, job : BOOLEAN]
    BY <1>4, <1>h DEF UiHelloAck, Reads
  <2> QED
    BY <1>4, <2>1 DEF UiHelloAck, Saves, Truncates
<1>5. CASE UiSavedAck \/ UiTruncate \/ UiSave
  BY <1>5 DEF UiSavedAck, UiTruncate, UiSave, Saves, Truncates, UiLeaves
<1>6. CASE UiShow
  <2>1. Head(toUi).n \in 0..Total /\ [life |-> Head(toUi).life, seq |-> Head(toUi).n] \in Prints
    BY <1>6, <1>h DEF UiShow, Reads
  <2>2. shown' \in Seq(Prints)
    BY <1>6, <2>1, Appended DEF UiShow
  <2> QED
    BY <1>6, <2>1, <2>2 DEF UiShow
<1>7. CASE UNCHANGED vars
  BY <1>7 DEF vars
<1> QED
  BY <1>1, <1>2, <1>3, <1>4, <1>5, <1>6, <1>7 DEF Next, UiStep

LEMMA TypedStep == Typed /\ [Next]_vars => Typed'
BY BrokerTypedStep, PipeTypedStep, UiTypedStep DEF Typed

LEMMA TypedIsTyped == Typed => TypeOK
<1> SUFFICES ASSUME Typed PROVE TypeOK
  OBVIOUS
<1>1. \A i \in 1..Len(toBroker) : toBroker[i] \in Commands
  BY DEF Typed, PipeTyped
<1>2. \A i \in 1..Len(toUi) : toUi[i] \in Frames
  BY DEF Typed, PipeTyped
<1>3. \A i \in 1..Len(shown) : shown[i] \in Prints
  BY DEF Typed, UiTyped
<1>4. \A f \in Frames : f \in [type : {"HelloAck", "Ack", "Event"}, n : 0..Total,
                              job : BOOLEAN, life : 0..MaxLives]
  BY ScenarioAssumption DEF Frames
<1> QED
  BY <1>1, <1>2, <1>3, <1>4
  DEF Typed, BrokerTyped, PipeTyped, UiTyped, TypeOK, Commands, Prints, BrokerPoints, UiPoints

(* Every variable keeps its type, for every length of the job, capacity of  *)
(* the pipe and number of failures (main.rs, serve; Program.cs, RunJob).    *)
THEOREM TypeCorrect == Spec => []TypeOK
<1>1. Typed /\ [Next]_vars => Typed'
  BY TypedStep
<1> QED
  BY <1>1, TypedInit, TypedIsTyped, PTL DEF Spec

-------------------------------------------------------------------------------
(* The two ends of the pipe.                                                *)

LEMMA EndsInit == Init => Ends
BY DEF Init, Ends

LEMMA EndsStep == Typed /\ Ends /\ [Next]_vars => Ends'
<1> SUFFICES ASSUME Typed, Ends, [Next]_vars PROVE Ends'
  OBVIOUS
<1>t. /\ conn \in {"down", "listening", "open", "uiClosed"} /\ uiEnd \in {"closed", "open", "broken"}
      /\ bpc \in BrokerPoints /\ upc \in UiPoints
  BY DEF Typed, PipeTyped, BrokerTyped, UiTyped
<1> USE <1>t DEF Ends, BrokerPoints, UiPoints, ClientGone, CanWrite, pipeVars, uiVars, brokerVars
<1>1. CASE JobPush
  BY <1>1 DEF JobPush
<1>2. CASE BrokerStart
  BY <1>2 DEF BrokerStart
<1>3. CASE BrokerListen
  BY <1>3 DEF BrokerListen, Exit
<1>4. CASE BrokerAccept
  BY <1>4 DEF BrokerAccept, Hangup, Exit
<1>5. CASE OnHello
  BY <1>5 DEF OnHello, Receives, Answers, Hangup
<1>6. CASE OnApplyPlan
  BY <1>6 DEF OnApplyPlan, Receives, Answers, Hangup
<1>7. CASE OnJobResume
  BY <1>7 DEF OnJobResume, Receives, Answers, Hangup
<1>8. CASE OnShutdown
  BY <1>8 DEF OnShutdown, Receives, Exit
<1>9. CASE ClientCloses
  BY <1>9 DEF ClientCloses, Hangup
<1>10. CASE EventsAfter
  BY <1>10 DEF EventsAfter
<1>11. CASE WriteEvent
  BY <1>11 DEF WriteEvent, Hangup
<1>12. CASE BatchWritten
  BY <1>12 DEF BatchWritten
<1>13. CASE ServeError
  BY <1>13 DEF ServeError, Hangup
<1>14. CASE BrokerCrash
  BY <1>14 DEF BrokerCrash, Exit
<1>15. CASE (\E s \in Scenarios : UiLaunch(s)) \/ UiKill
  BY <1>15 DEF UiLaunch, UiKill, UiLeaves
<1>16. CASE UiConnect \/ UiSayHello
  BY <1>16 DEF UiConnect, UiSayHello, UiLeaves, Sends
<1>17. CASE UiHelloAck \/ UiAck \/ UiShow
  BY <1>17 DEF UiHelloAck, UiAck, UiShow, Reads
<1>18. CASE UiSavedAck \/ UiTruncate \/ UiSave
  BY <1>18 DEF UiSavedAck, UiTruncate, UiSave, UiLeaves
<1>19. CASE UiCommand
  BY <1>19 DEF UiCommand, UiLeaves, Sends
<1>20. CASE UiBrokerGone
  BY <1>20 DEF UiBrokerGone, UiLeaves
<1>21. CASE UNCHANGED vars
  BY <1>21 DEF vars
<1> QED
  BY <1>1, <1>2, <1>3, <1>4, <1>5, <1>6, <1>7, <1>8, <1>9, <1>10, <1>11, <1>12, <1>13,
     <1>14, <1>15, <1>16, <1>17, <1>18, <1>19, <1>20, <1>21 DEF Next, BrokerStep, UiStep

(* The job goes only when Shutdown is received, the broker is killed, or a  *)
(* client that connected and left makes accept or client_process_id fail:   *)
(* whatever an accepted client does, hanging up on it included, leaves the  *)
(* job and its log alone (main.rs, serve).                                  *)
THEOREM OnlyShutdownEnds == Spec => OnlyShutdownEndsTheJob
<1> DEFINE Survives == job => \/ job' /\ len' >= len
                              \/ Receives("Shutdown")
                              \/ crashes' > crashes
                              \/ bpc = "accept" /\ ClientGone /\ failed' > failed
<1>1. Typed /\ Ends /\ [Next]_vars => [Survives]_vars
  <2> SUFFICES ASSUME Typed, Ends, Next, job PROVE Survives
    OBVIOUS
  <2>t. len \in Nat /\ crashes \in Nat /\ failed \in Nat
    BY DEF Typed, UiTyped, BrokerTyped, LogTypeOK
  <2> USE <2>t DEF brokerVars, logVars
  <2>1. CASE JobPush
    BY <2>1 DEF JobPush, PushStageEvent, PushJobComplete
  <2>2. CASE BrokerStart
    BY <2>2 DEF BrokerStart, Ends
  <2>3. CASE BrokerListen
    BY <2>3 DEF BrokerListen, Ends
  <2>4. CASE OnApplyPlan
    BY <2>4 DEF OnApplyPlan
  <2>5. CASE OnShutdown
    BY <2>5 DEF OnShutdown
  <2>6. CASE BrokerCrash
    BY <2>6 DEF BrokerCrash
  <2>7. CASE OnHello \/ OnJobResume \/ ClientCloses \/ EventsAfter \/ WriteEvent
             \/ BatchWritten \/ ServeError
    <3>1. len' = len
      BY <2>7 DEF OnHello, OnJobResume, ClientCloses, EventsAfter, WriteEvent,
                  BatchWritten, ServeError
    <3>2. job' = job
      BY <2>7 DEF OnHello, OnJobResume, ClientCloses, EventsAfter, WriteEvent,
                  BatchWritten, ServeError
    <3> QED
      BY <3>1, <3>2
  <2>8. CASE (\E s \in Scenarios : UiLaunch(s)) \/ UiKill \/ UiStep
    <3>1. len' = len
      BY <2>8 DEF UiLaunch, UiKill, UiStep, UiConnect, UiSayHello, UiHelloAck, UiSavedAck,
                  UiCommand, UiAck, UiShow, UiTruncate, UiSave, UiBrokerGone
    <3>2. job' = job
      BY <2>8 DEF UiLaunch, UiKill, UiStep, UiConnect, UiSayHello, UiHelloAck, UiSavedAck,
                  UiCommand, UiAck, UiShow, UiTruncate, UiSave, UiBrokerGone
    <3> QED
      BY <3>1, <3>2
  <2>9. CASE BrokerAccept
    <3>1. len' = len
      BY <2>9 DEF BrokerAccept
    <3>2. CASE job' = job
      BY <3>1, <3>2
    <3>3. CASE bpc = "accept" /\ ClientGone /\ failed' = failed + 1
      BY <3>3
    <3> QED
      BY <2>9, <3>2, <3>3 DEF BrokerAccept
  <2> QED
    BY <2>1, <2>2, <2>3, <2>4, <2>5, <2>6, <2>7, <2>8, <2>9 DEF Next, BrokerStep
<1>2. Typed /\ Ends /\ [Next]_vars => Typed' /\ Ends'
  BY TypedStep, EndsStep
<1>3. Init => Typed /\ Ends
  BY TypedInit, EndsInit
<1> QED
  BY <1>1, <1>2, <1>3, PTL DEF Spec, OnlyShutdownEndsTheJob

-------------------------------------------------------------------------------
(* The numbers printed follow one another.                                  *)

(* What was printed stays printed.                                          *)
LEMMA ShownGrows ==
  ASSUME Typed, [Next]_vars
  PROVE  /\ \/ shown' = shown
            \/ /\ toUi # <<>> /\ Head(toUi).type = "Event" /\ Head(toUi).n \in Past'
               /\ toUi' = Tail(toUi) /\ last' = Head(toUi).n
               /\ shown' = Append(shown, [life |-> Head(toUi).life, seq |-> Head(toUi).n])
         /\ Past \subseteq Past'
<1> USE DEF diskVars
<1>1. ASSUME shown' = shown PROVE Past \subseteq Past'
  BY <1>1 DEF Past
<1>2. CASE UiShow
  <2>1. /\ toUi # <<>> /\ Head(toUi).type = "Event" /\ toUi' = Tail(toUi)
        /\ last' = Head(toUi).n
        /\ shown' = Append(shown, [life |-> Head(toUi).life, seq |-> Head(toUi).n])
    BY <1>2 DEF UiShow, Reads
  <2>2. Head(toUi) \in Frames
    BY <2>1, Consumed DEF Typed, PipeTyped
  <2>3. [life |-> Head(toUi).life, seq |-> Head(toUi).n] \in Prints
    BY <2>1, <2>2 DEF Frames, Prints
  <2>4. /\ Len(shown) \in Nat /\ Len(shown') = Len(shown) + 1
        /\ \A i \in 1..Len(shown) : shown'[i] = shown[i]
        /\ shown'[Len(shown) + 1] = [life |-> Head(toUi).life, seq |-> Head(toUi).n]
    BY <2>1, <2>3, Appended DEF Typed, UiTyped
  <2>5. Past \subseteq Past' /\ shown'[Len(shown) + 1].seq \in Past'
    BY <2>4 DEF Past
  <2> QED
    BY <2>1, <2>4, <2>5
<1>3. CASE ~UiShow
  <2>1. shown' = shown
    <3>1. CASE JobPush \/ BrokerStart \/ BrokerStep \/ ServeError \/ BrokerCrash
      BY <3>1 DEF JobPush, BrokerStep, BrokerStart, BrokerListen, BrokerAccept, OnHello,
                  OnApplyPlan, OnJobResume, OnShutdown, ClientCloses, EventsAfter, WriteEvent,
                  BatchWritten, ServeError, BrokerCrash
    <3>2. CASE (\E s \in Scenarios : UiLaunch(s)) \/ UiKill \/ UiStep
      BY <3>2, <1>3 DEF UiLaunch, UiKill, UiStep, UiConnect, UiSayHello, UiHelloAck, UiSavedAck,
                        UiCommand, UiAck, UiTruncate, UiSave, UiBrokerGone
    <3>3. CASE UNCHANGED vars
      BY <3>3 DEF vars
    <3> QED
      BY <3>1, <3>2, <3>3 DEF Next
  <2> QED
    BY <2>1, <1>1
<1> QED
  BY <1>2, <1>3

LEMMA PositionsInit == Init => Positions /\ NumbersFollow
<1> SUFFICES ASSUME Init PROVE Positions /\ NumbersFollow
  OBVIOUS
<1>1. 0 \in Past
  BY DEF Past
<1>2. toBroker = <<>> /\ toUi = <<>> /\ shown = <<>> /\ conn = "down"
      /\ ack.from = 0 /\ last = 0 /\ session.lastSeq = 0
  BY DEF Init, NoAck
<1> QED
  BY <1>1, <1>2 DEF Positions, NumbersFollow

(* The positions either process keeps, and those on their way to the        *)
(* broker, were printed.                                                    *)
LEMMA KeptPositions ==
  ASSUME Typed, Ends, Positions, [Next]_vars
  PROVE  /\ session'.lastSeq \in Past' /\ ack'.from \in Past' /\ last' \in Past'
         /\ \A i \in 1..Len(toBroker') : toBroker'[i].n \in Past'
<1>z. 0 \in Past /\ Past \subseteq Past'
  BY ShownGrows DEF Past
<1>h. toUi # <<>> /\ Head(toUi).type = "HelloAck" => Head(toUi).n \in Past
  <2> SUFFICES ASSUME toUi # <<>>, Head(toUi).type = "HelloAck" PROVE Head(toUi).n \in Past
    OBVIOUS
  <2>1. Head(toUi) = toUi[1] /\ Len(toUi) \in Nat /\ Len(toUi) >= 1
    BY Consumed DEF Typed, PipeTyped
  <2> QED
    BY <2>1 DEF Positions
<1>p. /\ session.lastSeq \in Past /\ ack.from \in Past /\ last \in Past
      /\ \A i \in 1..Len(toBroker) : toBroker[i].n \in Past
  BY DEF Positions
<1>1. session'.lastSeq \in Past' /\ ack'.from \in Past' /\ last' \in Past'
  <2> USE <1>z, <1>p DEF uiVars, diskVars, NoAck
  <2>1. CASE JobPush \/ BrokerStart \/ BrokerStep \/ ServeError \/ BrokerCrash
    BY <2>1 DEF JobPush, BrokerStep, BrokerStart, BrokerListen, BrokerAccept, OnHello,
                OnApplyPlan, OnJobResume, OnShutdown, ClientCloses, EventsAfter, WriteEvent,
                BatchWritten, ServeError, BrokerCrash
  <2>2. CASE (\E s \in Scenarios : UiLaunch(s)) \/ UiKill \/ UiConnect \/ UiSayHello \/ UiCommand
             \/ UiAck \/ UiBrokerGone
    BY <2>2 DEF UiLaunch, UiKill, UiConnect, UiSayHello, UiCommand, UiAck, UiBrokerGone
  <2>3. CASE UiHelloAck
    BY <2>3, <1>h DEF UiHelloAck, Reads, Saves, Truncates
  <2>4. CASE UiSavedAck \/ UiTruncate \/ UiSave
    BY <2>4 DEF UiSavedAck, UiTruncate, UiSave, Saves, Truncates
  <2>5. CASE UiShow
    <3>1. last' \in Past'
      <4>1. Len(shown') # Len(shown)
        <5>1. Head(toUi) \in Frames
          BY <2>5, Consumed DEF UiShow, Reads, Typed, PipeTyped
        <5>2. [life |-> Head(toUi).life, seq |-> Head(toUi).n] \in Prints
          BY <2>5, <5>1 DEF UiShow, Reads, Frames, Prints
        <5> QED
          BY <2>5, <5>2, Appended DEF UiShow, Typed, UiTyped
      <4> QED
        BY <4>1, ShownGrows
    <3> QED
      BY <2>5, <3>1 DEF UiShow
  <2>6. CASE UNCHANGED vars
    BY <2>6 DEF vars
  <2> QED
    BY <2>1, <2>2, <2>3, <2>4, <2>5, <2>6 DEF Next, UiStep
<1>2. ASSUME NEW i \in 1..Len(toBroker') PROVE toBroker'[i].n \in Past'
  <2>q. toBroker \in Seq(Commands)
    BY DEF Typed, PipeTyped
  <2>k. ASSUME \/ toBroker' = toBroker
               \/ toBroker' = <<>>
               \/ toBroker # <<>> /\ toBroker' = Tail(toBroker)
        PROVE  toBroker'[i].n \in Past'
    <3>1. CASE toBroker' = toBroker
      BY <3>1, <1>2, <1>p, <1>z
    <3>2. CASE toBroker' = <<>>
      BY <3>2, <1>2
    <3>3. CASE toBroker # <<>> /\ toBroker' = Tail(toBroker)
      <4>1. toBroker'[i] = toBroker[i + 1] /\ i + 1 \in 1..Len(toBroker)
        BY <3>3, <2>q, <1>2, Consumed
      <4> QED
        BY <4>1, <1>p, <1>z
    <3> QED
      BY <2>k, <3>1, <3>2, <3>3
  <2>a. ASSUME NEW c \in Commands, c.n \in Past, toBroker' = Append(toBroker, c)
        PROVE  toBroker'[i].n \in Past'
    <3>1. CASE i \in 1..Len(toBroker)
      BY <3>1, <2>a, <2>q, <1>p, <1>z, Appended
    <3>2. CASE i = Len(toBroker) + 1
      BY <3>2, <2>a, <2>q, <1>z, Appended
    <3>3. Len(toBroker') = Len(toBroker) + 1 /\ Len(toBroker) \in Nat
      BY <2>a, <2>q, Appended
    <3> QED
      BY <3>1, <3>2, <3>3, <1>2
  <2>b. BrokerTyped /\ ack.from \in 0..Total /\ Resumed \in 0..Total /\ Resumed \in Past
    BY <1>p, <1>z, ScenarioAssumption DEF Typed, UiTyped, Resumed
  <2>s. CASE \E n \in Past \cap (0..Total) : \E t \in {"Hello", "ApplyPlan", "JobResume", "Shutdown"} :
               toBroker' = Append(toBroker, Command(t, n))
    <3>1. PICK n \in Past \cap (0..Total), t \in {"Hello", "ApplyPlan", "JobResume", "Shutdown"} :
            toBroker' = Append(toBroker, Command(t, n))
      BY <2>s
    <3>2. Command(t, n) \in Commands /\ Command(t, n).n = n
      BY <2>b, Written DEF Command
    <3> QED
      BY <3>1, <3>2, <2>a
  <2> USE <2>b, <1>z, ScenarioAssumption DEF pipeVars
  <2>1. CASE JobPush \/ BrokerStart \/ BrokerStep \/ ServeError \/ BrokerCrash
    BY <2>1, <2>k DEF JobPush, BrokerStep, BrokerStart, BrokerListen, BrokerAccept, OnHello,
                OnApplyPlan, OnJobResume, OnShutdown, ClientCloses, EventsAfter, WriteEvent,
                BatchWritten, ServeError, BrokerCrash, Hangup, Exit, Answers, Receives
  <2>2. CASE (\E s \in Scenarios : UiLaunch(s)) \/ UiKill \/ UiConnect \/ UiAck \/ UiBrokerGone
    BY <2>2, <2>k DEF UiLaunch, UiKill, UiConnect, UiAck, UiBrokerGone, Reads, UiLeaves
  <2>3. CASE UiHelloAck \/ UiSavedAck \/ UiShow \/ UiTruncate \/ UiSave
    BY <2>3, <2>k DEF UiHelloAck, UiSavedAck, UiShow, UiTruncate, UiSave, Reads, UiLeaves
  <2>4. CASE UiSayHello
    BY <2>4, <2>k, <2>s DEF UiSayHello, Sends, UiLeaves
  <2>5. CASE UiCommand
    BY <2>5, <2>k, <2>s, <1>p DEF UiCommand, Sends, UiLeaves
  <2>6. CASE UNCHANGED vars
    BY <2>6, <2>k DEF vars
  <2> QED
    BY <2>1, <2>2, <2>3, <2>4, <2>5, <2>6 DEF Next, UiStep
<1> QED
  BY <1>1, <1>2

(* A frame is written after the one that carries its predecessor, and an    *)
(* event leaves the pipe by being printed.                                  *)
LEMMA FrameSteps ==
  ASSUME Typed, Ends, Positions, [Next]_vars
  PROVE  \/ toUi' = toUi
         \/ toUi' = <<>>
         \/ /\ toUi # <<>> /\ toUi' = Tail(toUi)
            /\ Head(toUi).type = "Event" => Head(toUi).n \in Past'
         \/ \E f \in Frames :
              /\ toUi' = Append(toUi, f)
              /\ f.type = "HelloAck" => f.n \in Past
              /\ f.type = "Event" => Coming(f.n - 1, Len(toUi) + 1)
<1>b. BrokerTyped
  BY DEF Typed
<1>n. toBroker # <<>> =>
        Head(toBroker) \in Commands /\ Head(toBroker).n \in 0..Total /\ Head(toBroker).n \in Past
  <2> SUFFICES ASSUME toBroker # <<>>
               PROVE  Head(toBroker) \in Commands /\ Head(toBroker).n \in 0..Total
                      /\ Head(toBroker).n \in Past
    OBVIOUS
  <2>1. /\ Head(toBroker) \in Commands /\ Head(toBroker) = toBroker[1]
        /\ Len(toBroker) \in Nat /\ Len(toBroker) >= 1
    BY Consumed DEF Typed, PipeTyped
  <2> QED
    BY <2>1 DEF Commands, Positions
<1> USE DEF pipeVars
<1>1. CASE JobPush \/ BrokerStart \/ BrokerListen \/ BrokerAccept
  BY <1>1 DEF JobPush, BrokerStart, BrokerListen, BrokerAccept, Hangup, Exit
<1>2. CASE OnHello
  <2>1. Frame("HelloAck", cursor') \in Frames /\ cursor' \in Past
    BY <1>2, <1>b, <1>n, Written DEF OnHello, Receives
  <2>2. Frame("HelloAck", cursor').n = cursor' /\ Frame("HelloAck", cursor').type = "HelloAck"
    BY DEF Frame
  <2> QED
    BY <1>2, <2>1, <2>2 DEF OnHello, Answers, Hangup, Writes
<1>3. CASE OnApplyPlan \/ OnJobResume
  <2>1. Frame("Ack", 0) \in Frames
    BY <1>3, <1>b, Written, ScenarioAssumption DEF OnApplyPlan, OnJobResume, Receives
  <2>2. Frame("Ack", 0).type = "Ack"
    BY DEF Frame
  <2> QED
    BY <1>3, <2>1, <2>2 DEF OnApplyPlan, OnJobResume, Answers, Hangup, Writes
<1>4. CASE OnShutdown \/ ClientCloses \/ EventsAfter \/ BatchWritten \/ ServeError \/ BrokerCrash
  BY <1>4 DEF OnShutdown, ClientCloses, EventsAfter, BatchWritten, ServeError, BrokerCrash,
              Hangup, Exit
<1>5. CASE WriteEvent
  <2>1. cursor + 1 \in 1..Total /\ bpc = "write" /\ cursor \in Nat
    BY <1>5, <1>b, ScenarioAssumption DEF WriteEvent, BrokerTyped
  <2>2. EventFrame(cursor + 1) \in Frames
    BY <2>1, <1>b, Written
  <2>3. EventFrame(cursor + 1).n - 1 = cursor /\ EventFrame(cursor + 1).type = "Event"
    BY <2>1 DEF EventFrame, Frame
  <2>4. CanWrite => Coming(cursor, Len(toUi) + 1)
    BY <2>1 DEF CanWrite, Positions
  <2> QED
    BY <1>5, <2>2, <2>3, <2>4 DEF WriteEvent, Writes, Hangup
<1>6. CASE (\E s \in Scenarios : UiLaunch(s)) \/ UiKill \/ UiBrokerGone \/ UiConnect \/ UiSayHello
           \/ UiCommand
  BY <1>6 DEF UiLaunch, UiKill, UiBrokerGone, UiConnect, UiSayHello, UiCommand, UiLeaves, Sends
<1>7. CASE UiHelloAck \/ UiSavedAck \/ UiAck \/ UiTruncate \/ UiSave
  BY <1>7 DEF UiHelloAck, UiSavedAck, UiAck, UiTruncate, UiSave, Reads, UiLeaves
<1>8. CASE UiShow
  <2>1. /\ toUi # <<>> /\ toUi' = Tail(toUi) /\ Head(toUi).type = "Event"
        /\ shown' = Append(shown, [life |-> Head(toUi).life, seq |-> Head(toUi).n])
    BY <1>8 DEF UiShow, Reads
  <2>2. Head(toUi) \in Frames
    BY <2>1, Consumed DEF Typed, PipeTyped
  <2>3. [life |-> Head(toUi).life, seq |-> Head(toUi).n] \in Prints
    BY <2>1, <2>2 DEF Frames, Prints
  <2>4. Len(shown') # Len(shown)
    BY <2>1, <2>3, Appended DEF Typed, UiTyped
  <2> QED
    BY <2>1, <2>4, ShownGrows
<1>9. CASE UNCHANGED vars
  BY <1>9 DEF vars
<1> QED
  BY <1>1, <1>2, <1>3, <1>4, <1>5, <1>6, <1>7, <1>8, <1>9 DEF Next, BrokerStep, UiStep

(* ... so the frames that are left still follow one another, and what was   *)
(* coming comes.                                                            *)
LEMMA FramesFollow ==
  ASSUME Typed, Ends, Positions, [Next]_vars
  PROVE  /\ \A i \in 1..Len(toUi') :
              /\ toUi'[i].type = "HelloAck" => toUi'[i].n \in Past'
              /\ toUi'[i].type = "Event" =>
                   \/ toUi'[i].n - 1 \in Past'
                   \/ \E j \in 1..(i - 1) : toUi'[j].type = "Event" /\ toUi'[j].n = toUi'[i].n - 1
         /\ (\/ toUi' # <<>>
             \/ toUi = <<>>
             \/ toUi' = Tail(toUi) /\ (Head(toUi).type = "Event" => Head(toUi).n \in Past'))
            => (Coming(cursor, Len(toUi) + 1) =>
                  \/ cursor \in Past'
                  \/ \E j \in 1..Len(toUi') : toUi'[j].type = "Event" /\ toUi'[j].n = cursor)
<1> DEFINE Follow(i) ==
             /\ toUi'[i].type = "HelloAck" => toUi'[i].n \in Past'
             /\ toUi'[i].type = "Event" =>
                  \/ toUi'[i].n - 1 \in Past'
                  \/ \E j \in 1..(i - 1) : toUi'[j].type = "Event" /\ toUi'[j].n = toUi'[i].n - 1
           Comes == Coming(cursor, Len(toUi) + 1) =>
                      \/ cursor \in Past'
                      \/ \E j \in 1..Len(toUi') : toUi'[j].type = "Event" /\ toUi'[j].n = cursor
<1>q. toUi \in Seq(Frames) /\ Len(toUi) \in Nat /\ Past \subseteq Past'
  BY ShownGrows DEF Typed, PipeTyped
<1>p. \A i \in 1..Len(toUi) :
        /\ toUi[i].type = "HelloAck" => toUi[i].n \in Past
        /\ toUi[i].type = "Event" =>
             \/ toUi[i].n - 1 \in Past
             \/ \E j \in 1..(i - 1) : toUi[j].type = "Event" /\ toUi[j].n = toUi[i].n - 1
  BY DEF Positions, Coming
<1>1. CASE toUi' = toUi
  BY <1>1, <1>p, <1>q DEF Coming
<1>2. CASE /\ toUi' = <<>> /\ toUi # <<>>
           /\ ~(toUi' = Tail(toUi) /\ (Head(toUi).type = "Event" => Head(toUi).n \in Past'))
  BY <1>2
<1>3. CASE /\ toUi # <<>> /\ toUi' = Tail(toUi)
           /\ Head(toUi).type = "Event" => Head(toUi).n \in Past'
  <2>1. /\ Len(toUi') = Len(toUi) - 1 /\ Len(toUi) >= 1
        /\ \A i \in 1..Len(toUi') : toUi'[i] = toUi[i + 1]
        /\ Head(toUi) = toUi[1]
    BY <1>3, <1>q, Consumed
  <2>2. \A j \in 1..Len(toUi) : toUi[j].type = "Event" =>
          toUi[j].n \in Past' \/ (j - 1 \in 1..Len(toUi') /\ toUi'[j - 1] = toUi[j])
    BY <2>1, <1>3, <1>q
  <2>3. ASSUME NEW i \in 1..Len(toUi') PROVE Follow(i)
    <3>1. i + 1 \in 1..Len(toUi) /\ toUi'[i] = toUi[i + 1] /\ i \in Nat
      BY <2>1, <2>3, <1>q
    <3>2. ASSUME NEW j \in 1..i, toUi[j].type = "Event", toUi[j].n = toUi'[i].n - 1
          PROVE  \/ toUi'[i].n - 1 \in Past'
                 \/ j - 1 \in 1..(i - 1) /\ toUi'[j - 1].type = "Event"
                    /\ toUi'[j - 1].n = toUi'[i].n - 1
      BY <3>1, <3>2, <2>1, <2>2, <1>q
    <3>3. (i + 1) - 1 = i
      BY <3>1
    <3> QED
      BY <3>1, <3>2, <3>3, <1>p, <1>q
  <2>4. Comes
    <3>1. ASSUME NEW j \in 1..Len(toUi), toUi[j].type = "Event", toUi[j].n = cursor
          PROVE  \/ cursor \in Past'
                 \/ \E k \in 1..Len(toUi') : toUi'[k].type = "Event" /\ toUi'[k].n = cursor
      BY <3>1, <2>2
    <3>2. (Len(toUi) + 1) - 1 = Len(toUi)
      BY <1>q
    <3> QED
      BY <3>1, <3>2, <1>q DEF Coming
  <2> QED
    BY <2>3, <2>4
<1>4. ASSUME NEW f \in Frames, toUi' = Append(toUi, f), f.type = "HelloAck" => f.n \in Past,
             f.type = "Event" => Coming(f.n - 1, Len(toUi) + 1)
      PROVE  (\A i \in 1..Len(toUi') : Follow(i)) /\ Comes
  <2>1. /\ Len(toUi') = Len(toUi) + 1 /\ toUi'[Len(toUi) + 1] = f
        /\ \A i \in 1..Len(toUi) : toUi'[i] = toUi[i]
    BY <1>4, <1>q, Appended
  <2>2. ASSUME NEW i \in 1..Len(toUi') PROVE Follow(i)
    <3>1. CASE i \in 1..Len(toUi)
      <4>1. \A j \in 1..(i - 1) : j \in 1..Len(toUi)
        BY <3>1, <1>q
      <4> QED
        BY <3>1, <4>1, <2>1, <1>p, <1>q
    <3>2. CASE i = Len(toUi) + 1
      <4>1. i - 1 = Len(toUi) /\ (Len(toUi) + 1) - 1 = Len(toUi) /\ toUi'[i] = f
        BY <3>2, <2>1, <1>q
      <4> QED
        BY <4>1, <2>1, <1>4, <1>q DEF Coming
    <3> QED
      BY <3>1, <3>2, <2>1, <2>2, <1>q
  <2>3. Comes
    <3>1. (Len(toUi) + 1) - 1 = Len(toUi) /\ \A j \in 1..Len(toUi) : j \in 1..Len(toUi')
      BY <2>1, <1>q
    <3> QED
      BY <3>1, <2>1, <1>q DEF Coming
  <2> QED
    BY <2>2, <2>3
<1> QED
  BY <1>1, <1>2, <1>3, <1>4, FrameSteps

(* The broker's cursor is an event that was printed or is on its way.       *)
LEMMA CursorComes ==
  ASSUME Typed, Ends, Positions, [Next]_vars, conn' = "open", bpc' \in {"read", "stream", "write"}
  PROVE  \/ cursor' \in Past'
         \/ \E j \in 1..Len(toUi') : toUi'[j].type = "Event" /\ toUi'[j].n = cursor'
<1>z. 0 \in Past /\ Past \subseteq Past'
  BY ShownGrows DEF Past
<1>n. toBroker # <<>> => Head(toBroker).n \in Past
  <2> SUFFICES ASSUME toBroker # <<>> PROVE Head(toBroker).n \in Past
    OBVIOUS
  <2>1. Head(toBroker) = toBroker[1] /\ Len(toBroker) \in Nat /\ Len(toBroker) >= 1
    BY Consumed DEF Typed, PipeTyped
  <2> QED
    BY <2>1 DEF Positions
<1>s. ASSUME cursor' = cursor, conn = "open", bpc \in {"read", "stream", "write"},
             \/ toUi' = toUi
             \/ /\ toUi # <<>> /\ toUi' = Tail(toUi)
                /\ Head(toUi).type = "Event" => last' = Head(toUi).n
             \/ \E f : toUi' = Append(toUi, f)
      PROVE  \/ cursor' \in Past'
             \/ \E j \in 1..Len(toUi') : toUi'[j].type = "Event" /\ toUi'[j].n = cursor'
  <2>1. Coming(cursor, Len(toUi) + 1)
    BY <1>s DEF Positions
  <2>2. \/ toUi' # <<>>
        \/ toUi = <<>>
        \/ toUi' = Tail(toUi) /\ (Head(toUi).type = "Event" => Head(toUi).n \in Past')
    BY <1>s, KeptPositions DEF Typed, PipeTyped
  <2> QED
    BY <1>s, <2>1, <2>2, FramesFollow
<1> USE <1>z DEF pipeVars, brokerVars
<1>1. CASE JobPush \/ BatchWritten \/ EventsAfter
  BY <1>1, <1>s DEF JobPush, BatchWritten, EventsAfter
<1>2. CASE BrokerStart \/ BrokerListen \/ OnShutdown \/ ClientCloses \/ ServeError \/ BrokerCrash
  BY <1>2 DEF BrokerStart, BrokerListen, OnShutdown, ClientCloses, ServeError, BrokerCrash,
              Hangup, Exit
<1>3. CASE BrokerAccept
  BY <1>3 DEF BrokerAccept, Hangup, Exit
<1>4. CASE OnHello \/ OnJobResume
  BY <1>4, <1>n DEF OnHello, OnJobResume, Receives
<1>5. CASE OnApplyPlan
  BY <1>5, <1>s DEF OnApplyPlan, Receives, Answers, CanWrite, Writes, Hangup
<1>6. CASE WriteEvent
  <2>1. /\ cursor' = cursor + 1 /\ toUi' = Append(toUi, EventFrame(cursor + 1))
    BY <1>6 DEF WriteEvent, Hangup, Writes
  <2>2. cursor + 1 \in 1..Total /\ bpc # "down"
    BY <1>6, ScenarioAssumption DEF WriteEvent, Typed, BrokerTyped
  <2>3. EventFrame(cursor + 1) \in Frames
    BY <2>2, Written DEF Typed
  <2>4. /\ Len(toUi') = Len(toUi) + 1 /\ Len(toUi) \in Nat
        /\ toUi'[Len(toUi) + 1] = EventFrame(cursor + 1)
    BY <2>1, <2>3, Appended DEF Typed, PipeTyped
  <2>5. EventFrame(cursor + 1).type = "Event" /\ EventFrame(cursor + 1).n = cursor + 1
    BY DEF EventFrame, Frame
  <2> QED
    BY <2>1, <2>4, <2>5
<1>7. CASE \E s \in Scenarios : UiLaunch(s)
  BY <1>7, <1>s DEF UiLaunch
<1>8. CASE UiKill \/ UiBrokerGone
  BY <1>8 DEF UiKill, UiBrokerGone, UiLeaves, Ends
<1>9. CASE UiConnect
  BY <1>9 DEF UiConnect, Ends
<1>10. CASE UiSayHello \/ UiCommand
  BY <1>10, <1>s DEF UiSayHello, UiCommand, UiLeaves, Sends, Ends
<1>11. CASE UiHelloAck \/ UiAck \/ UiShow
  BY <1>11, <1>s DEF UiHelloAck, UiAck, UiShow, Reads
<1>12. CASE UiSavedAck \/ UiTruncate \/ UiSave
  BY <1>12, <1>s DEF UiSavedAck, UiTruncate, UiSave, UiLeaves, Ends
<1>13. CASE UNCHANGED vars
  BY <1>13, <1>s DEF vars
<1> QED
  BY <1>1, <1>2, <1>3, <1>4, <1>5, <1>6, <1>7, <1>8, <1>9, <1>10, <1>11, <1>12, <1>13
  DEF Next, BrokerStep, UiStep

LEMMA PositionsStep ==
  ASSUME Typed, Ends, Positions, [Next]_vars
  PROVE  Positions'
<1>1. (conn = "open" /\ bpc \in {"read", "stream", "write"} => Coming(cursor, Len(toUi) + 1))'
  <2> SUFFICES ASSUME conn' = "open", bpc' \in {"read", "stream", "write"}
               PROVE  Coming(cursor, Len(toUi) + 1)'
    OBVIOUS
  <2>1. Len(toUi') \in Nat
    BY PipeTypedStep DEF PipeTyped
  <2>2. (Len(toUi') + 1) - 1 = Len(toUi')
    BY <2>1
  <2> QED
    BY <2>2, CursorComes DEF Coming
<1> QED
  BY <1>1, KeptPositions, FramesFollow DEF Positions, Coming

(* A new event is the successor of one already printed.                     *)
LEMMA NumbersStep ==
  ASSUME Typed, Positions, NumbersFollow, [Next]_vars
  PROVE  NumbersFollow'
<1> USE DEF NumbersFollow
<1>1. CASE shown' = shown
  BY <1>1
<1>2. CASE /\ toUi # <<>> /\ Head(toUi).type = "Event"
           /\ shown' = Append(shown, [life |-> Head(toUi).life, seq |-> Head(toUi).n])
  <2>1. /\ Head(toUi) \in Frames /\ Head(toUi) = toUi[1]
        /\ Len(toUi) \in Nat /\ Len(toUi) >= 1
    BY <1>2, Consumed DEF Typed, PipeTyped
  <2>2. [life |-> Head(toUi).life, seq |-> Head(toUi).n] \in Prints
    BY <1>2, <2>1 DEF Frames, Prints
  <2>3. /\ Len(shown) \in Nat /\ Len(shown') = Len(shown) + 1
        /\ \A i \in 1..Len(shown) : shown'[i] = shown[i]
        /\ shown'[Len(shown) + 1] = [life |-> Head(toUi).life, seq |-> Head(toUi).n]
    BY <1>2, <2>2, Appended DEF Typed, UiTyped
  <2>4. Head(toUi).n - 1 \in Past /\ Head(toUi).n \in Nat
    BY <1>2, <2>1 DEF Positions, Coming, Frames
  <2>5. ASSUME NEW i \in 1..Len(shown')
        PROVE  shown'[i].seq = 1 \/ \E j \in 1..(i - 1) : shown'[j].seq = shown'[i].seq - 1
    <3>1. CASE i \in 1..Len(shown)
      <4>1. \A j \in 1..(i - 1) : j \in 1..Len(shown)
        BY <3>1, <2>3
      <4> QED
        BY <3>1, <4>1, <2>3
    <3>2. CASE i = Len(shown) + 1
      <4>1. i - 1 = Len(shown) /\ shown'[i].seq = Head(toUi).n
        BY <3>2, <2>3
      <4> QED
        BY <4>1, <2>3, <2>4 DEF Past
    <3> QED
      BY <3>1, <3>2, <2>3, <2>5
  <2> QED
    BY <2>5
<1> QED
  BY <1>1, <1>2, ShownGrows

NumbersInv == Typed /\ Ends /\ Positions /\ NumbersFollow

(* Whatever is killed, dropped, restarted or reset, the numbers a user sees *)
(* printed follow one another (Program.cs, RunJob; main.rs, stream).        *)
THEOREM PrintedNumbersFollow == Spec => []NumbersFollow
<1>1. NumbersInv /\ [Next]_vars => NumbersInv'
  BY TypedStep, EndsStep, PositionsStep, NumbersStep DEF NumbersInv
<1>2. Init => NumbersInv
  BY TypedInit, EndsInit, PositionsInit DEF NumbersInv
<1>3. NumbersInv => NumbersFollow
  BY DEF NumbersInv
<1> QED
  BY <1>1, <1>2, <1>3, PTL DEF Spec

-------------------------------------------------------------------------------
(* The conversation between the UI and the broker over one connection.      *)

Unserved == {"created", "accept", "read"}
Serving  == {"read", "stream", "write"}

(* After the first k frames a queue holds the events that follow the n-th. *)
EventsFrom(q, k, n) ==
  \A i \in (k + 1)..Len(q) : q[i].type = "Event" /\ q[i].n = n + (i - k)

Silent == toBroker = <<>> /\ toUi = <<>>

HelloPhase ==
  /\ upc = "say_hello" => Silent /\ bpc \in Unserved
  /\ upc = "hello" =>
       \/ toUi = <<>> /\ bpc \in Unserved
          /\ Len(toBroker) = 1 /\ toBroker[1].type = "Hello"
       \/ toBroker = <<>> /\ bpc = "read"
          /\ Len(toUi) = 1 /\ toUi[1].type = "HelloAck" /\ toUi[1].n = cursor
  /\ upc \in {"save_ack", "command"} => Silent /\ bpc = "read" /\ cursor = ack.from

JobPhase ==
  /\ upc = "ack" =>
       \/ toUi = <<>> /\ bpc = "read" /\ cursor = last /\ Len(toBroker) = 1
          /\ \/ toBroker[1].type = "ApplyPlan"
             \/ toBroker[1].type = "JobResume" /\ toBroker[1].n = last
       \/ toBroker = <<>> /\ bpc \in Serving
          /\ Len(toUi) >= 1 /\ toUi[1].type = "Ack"
          /\ cursor = last + Len(toUi) - 1 /\ EventsFrom(toUi, 1, last)
  /\ upc \in {"receive", "save", "saving"} =>
       toBroker = <<>> /\ bpc \in Serving /\ cursor = last + Len(toUi) /\ EventsFrom(toUi, 0, last)

Dialogue == uiEnd = "open" => HelloPhase /\ JobPhase

LEMMA EventsAppended ==
  ASSUME NEW q \in Seq(Frames), NEW k \in {0, 1}, NEW n \in Nat, k <= Len(q), EventsFrom(q, k, n),
         NEW f \in Frames, f.type = "Event", f.n = n + Len(q) - k + 1
  PROVE  EventsFrom(Append(q, f), k, n)
<1>1. /\ Len(q) \in Nat /\ Len(Append(q, f)) = Len(q) + 1
      /\ \A i \in 1..Len(q) : Append(q, f)[i] = q[i]
      /\ Append(q, f)[Len(q) + 1] = f
  BY Appended
<1> SUFFICES ASSUME NEW i \in (k + 1)..Len(Append(q, f))
             PROVE  Append(q, f)[i].type = "Event" /\ Append(q, f)[i].n = n + (i - k)
  BY DEF EventsFrom
<1>2. CASE i = Len(q) + 1
  BY <1>1, <1>2
<1>3. CASE i # Len(q) + 1
  <2>1. i \in (k + 1)..Len(q) /\ i \in 1..Len(q)
    BY <1>1, <1>3
  <2> QED
    BY <1>1, <2>1 DEF EventsFrom
<1> QED
  BY <1>2, <1>3

LEMMA EventsConsumed ==
  ASSUME NEW q \in Seq(Frames), q # <<>>, NEW n \in Nat
  PROVE  /\ EventsFrom(q, 1, n) => EventsFrom(Tail(q), 0, n)
         /\ EventsFrom(q, 0, n) => /\ Head(q).type = "Event" /\ Head(q).n = n + 1
                                  /\ EventsFrom(Tail(q), 0, n + 1)
<1>1. /\ Len(q) \in Nat /\ Len(q) >= 1 /\ Len(Tail(q)) = Len(q) - 1 /\ Head(q) = q[1]
      /\ \A i \in 1..Len(Tail(q)) : Tail(q)[i] = q[i + 1]
  BY Consumed
<1>2. \A i \in 1..Len(Tail(q)) : i + 1 \in 2..Len(q) /\ i + 1 \in 1..Len(q) /\ i \in Nat
  BY <1>1
<1>3. ASSUME EventsFrom(q, 1, n) PROVE EventsFrom(Tail(q), 0, n)
  BY <1>1, <1>2, <1>3 DEF EventsFrom
<1>4. ASSUME EventsFrom(q, 0, n)
      PROVE  /\ Head(q).type = "Event" /\ Head(q).n = n + 1
             /\ EventsFrom(Tail(q), 0, n + 1)
  <2>1. 1 \in 1..Len(q)
    BY <1>1
  <2> QED
    BY <1>1, <1>2, <1>4, <2>1 DEF EventsFrom
<1> QED
  BY <1>3, <1>4

LEMMA NoEventsYet ==
  ASSUME NEW q \in Seq(Frames), NEW n, NEW k \in {0, 1}, Len(q) = k
  PROVE  EventsFrom(q, k, n)
BY DEF EventsFrom

LEMMA OnlyOne ==
  ASSUME NEW S, NEW x \in S
  PROVE  /\ Len(Append(<<>>, x)) = 1 /\ Append(<<>>, x)[1] = x
         /\ Append(<<>>, x) \in Seq(S)
BY NoneQueued, Appended

LEMMA NothingLeft ==
  ASSUME NEW S, NEW q \in Seq(S), Len(q) = 0
  PROVE  q = <<>>
<1> SUFFICES ASSUME q # <<>> PROVE FALSE
  OBVIOUS
<1>1. Len(q) >= 1
  BY Consumed
<1> QED
  BY <1>1

LEMMA LastOne ==
  ASSUME NEW S, NEW q \in Seq(S), Len(q) = 1
  PROVE  q # <<>> /\ Head(q) = q[1] /\ Tail(q) = <<>>
<1>1. q # <<>>
  BY NoneQueued
<1>2. Tail(q) \in Seq(S) /\ Len(Tail(q)) = 0 /\ Head(q) = q[1]
  BY <1>1, Consumed
<1>3. Tail(q) = <<>>
  BY <1>2, NothingLeft
<1> QED
  BY <1>1, <1>2, <1>3

LEMMA DialogueInit == Init => Dialogue
BY DEF Init, Dialogue

LEMMA DialogueStep ==
  ASSUME Typed, Ends, Dialogue, [Next]_vars
  PROVE  Dialogue'
<1> SUFFICES ASSUME uiEnd' = "open" PROVE HelloPhase' /\ JobPhase'
  BY DEF Dialogue
<1>t. /\ cursor \in 0..Total /\ last \in 0..Total /\ ack.from \in 0..Total
      /\ toUi \in Seq(Frames) /\ toBroker \in Seq(Commands)
      /\ Len(toUi) \in Nat /\ Len(toBroker) \in Nat
      /\ bpc \in BrokerPoints /\ upc \in UiPoints /\ Total \in Nat
  BY ScenarioAssumption DEF Typed, BrokerTyped, PipeTyped, UiTyped
<1>b. BrokerTyped /\ BrokerTyped'
  BY BrokerTypedStep DEF Typed
<1> USE <1>t
<1>u. ASSUME UNCHANGED <<pipeVars, upc, ack, last>>
      PROVE  /\ uiEnd = "open" /\ HelloPhase /\ JobPhase
             /\ UNCHANGED <<bpc, cursor>> => HelloPhase' /\ JobPhase'
  BY <1>u DEF Dialogue, HelloPhase, JobPhase, Silent, pipeVars
<1>1. CASE JobPush \/ (\E s \in Scenarios : UiLaunch(s)) \/ UNCHANGED vars
  <2>1. CASE JobPush \/ UNCHANGED vars
    BY <2>1, <1>u DEF JobPush, vars, brokerVars, uiVars
  <2>2. ASSUME NEW s \in Scenarios, UiLaunch(s) PROVE HelloPhase' /\ JobPhase'
    BY <2>2 DEF UiLaunch, HelloPhase, JobPhase
  <2> QED
    BY <1>1, <2>1, <2>2
<1>2. CASE BrokerStart \/ OnShutdown \/ ClientCloses \/ ServeError \/ BrokerCrash
  BY <1>2 DEF BrokerStart, OnShutdown, ClientCloses, ServeError, BrokerCrash, Ends, Hangup, Exit
<1>3. CASE BrokerListen
  <2>1. bpc = "created" /\ bpc' = "accept" /\ cursor' = cursor /\ UNCHANGED <<pipeVars, uiVars>>
    BY <1>3 DEF BrokerListen, Exit
  <2> QED
    BY <2>1, <1>u DEF HelloPhase, JobPhase, Silent, Unserved, Serving, uiVars, pipeVars
<1>4. CASE BrokerAccept
  <2>1. bpc = "accept" /\ bpc' = "read" /\ UNCHANGED <<pipeVars, uiVars>>
    BY <1>4 DEF BrokerAccept, Hangup, Exit
  <2> QED
    BY <2>1, <1>u DEF HelloPhase, JobPhase, Silent, Unserved, Serving, uiVars, pipeVars
<1> USE DEF ClientGone, Hangup
<1>5. CASE OnHello
  <2>1. /\ bpc = "read" /\ toBroker # <<>> /\ Head(toBroker).type = "Hello"
        /\ cursor' = Head(toBroker).n
        /\ toUi' = Append(toUi, Frame("HelloAck", cursor')) /\ toBroker' = Tail(toBroker)
        /\ bpc' = "read" /\ UNCHANGED <<upc, ack, last>> /\ uiEnd = "open"
    BY <1>5 DEF OnHello, Receives, Answers, Writes, uiVars
  <2>2. Head(toBroker) = toBroker[1]
    BY <2>1, Consumed
  <2>3. HelloPhase /\ JobPhase
    BY <2>1 DEF Dialogue
  <2>4. /\ upc \in {"off", "connect", "hello"}
        /\ upc = "hello" => toUi = <<>> /\ Len(toBroker) = 1
    BY <2>1, <2>2, <2>3 DEF HelloPhase, JobPhase, Silent, UiPoints
  <2>5. CASE upc = "hello"
    <3>1. Tail(toBroker) = <<>>
      BY <2>4, <2>5, LastOne
    <3>2. Frame("HelloAck", cursor') \in Frames
      <4>1. Head(toBroker) \in Commands
        BY <2>1, Consumed
      <4> QED
        BY <2>1, <4>1, <1>b, Written DEF Commands
    <3>3. Len(toUi') = 1 /\ toUi'[1] = Frame("HelloAck", cursor')
      BY <2>1, <2>4, <2>5, <3>2, OnlyOne
    <3>4. Frame("HelloAck", cursor').type = "HelloAck" /\ Frame("HelloAck", cursor').n = cursor'
      BY DEF Frame
    <3> QED
      BY <2>1, <2>5, <3>1, <3>3, <3>4 DEF HelloPhase, JobPhase
  <2> QED
    BY <2>1, <2>4, <2>5 DEF HelloPhase, JobPhase
<1>6. CASE OnApplyPlan \/ OnJobResume
  <2>1. /\ bpc = "read" /\ toBroker # <<>> /\ Head(toBroker).type \in {"ApplyPlan", "JobResume"}
        /\ cursor' = IF Head(toBroker).type = "ApplyPlan" THEN cursor ELSE Head(toBroker).n
        /\ toUi' = Append(toUi, Frame("Ack", 0)) /\ toBroker' = Tail(toBroker)
        /\ bpc' \in {"read", "stream"} /\ UNCHANGED <<upc, ack, last>> /\ uiEnd = "open"
    BY <1>6 DEF OnApplyPlan, OnJobResume, Receives, Answers, Writes, uiVars
  <2>2. Head(toBroker) = toBroker[1]
    BY <2>1, Consumed
  <2>3. HelloPhase /\ JobPhase
    BY <2>1 DEF Dialogue
  <2>4. /\ upc \in {"off", "connect", "ack"}
        /\ upc = "ack" => toUi = <<>> /\ Len(toBroker) = 1 /\ cursor' = last
    BY <2>1, <2>2, <2>3 DEF HelloPhase, JobPhase, Silent, UiPoints
  <2>5. CASE upc = "ack"
    <3>1. Tail(toBroker) = <<>>
      BY <2>4, <2>5, LastOne
    <3>2. Frame("Ack", 0) \in Frames
      BY <2>1, <1>b, Written, ScenarioAssumption
    <3>3. Len(toUi') = 1 /\ toUi'[1] = Frame("Ack", 0) /\ toUi' \in Seq(Frames)
      BY <2>1, <2>4, <2>5, <3>2, OnlyOne
    <3>4. Frame("Ack", 0).type = "Ack" /\ EventsFrom(toUi', 1, last)
      BY <3>3, NoEventsYet DEF Frame
    <3> QED
      BY <2>1, <2>4, <2>5, <3>1, <3>3, <3>4 DEF HelloPhase, JobPhase, Serving
  <2> QED
    BY <2>1, <2>4, <2>5 DEF HelloPhase, JobPhase
<1>7. CASE EventsAfter \/ BatchWritten
  <2>1. /\ bpc \in {"stream", "write"} /\ bpc' \in Serving /\ cursor' = cursor
        /\ UNCHANGED <<pipeVars, uiVars>>
    BY <1>7 DEF EventsAfter, BatchWritten, Serving
  <2> QED
    BY <2>1, <1>u DEF HelloPhase, JobPhase, Silent, Unserved, Serving, uiVars, pipeVars
<1>8. CASE WriteEvent
  <2>1. /\ bpc = "write" /\ bpc' = "write" /\ cursor < batch /\ cursor' = cursor + 1
        /\ toUi' = Append(toUi, EventFrame(cursor + 1))
        /\ UNCHANGED <<toBroker, upc, ack, last>> /\ uiEnd = "open"
    BY <1>8 DEF WriteEvent, Writes, uiVars
  <2>2. EventFrame(cursor + 1) \in Frames
    <3>1. cursor + 1 \in 1..Total
      BY <2>1, <1>b DEF BrokerTyped
    <3> QED
      BY <2>1, <3>1, <1>b, Written
  <2>3. /\ Len(toUi') = Len(toUi) + 1
        /\ \A i \in 1..Len(toUi) : toUi'[i] = toUi[i]
    BY <2>1, <2>2, Appended
  <2>4. EventFrame(cursor + 1).type = "Event" /\ EventFrame(cursor + 1).n = cursor + 1
    BY DEF EventFrame, Frame
  <2>5. HelloPhase /\ JobPhase
    BY <2>1 DEF Dialogue
  <2>6. CASE upc = "ack"
    <3>1. /\ toBroker = <<>> /\ Len(toUi) >= 1 /\ toUi[1].type = "Ack"
          /\ cursor = last + Len(toUi) - 1 /\ EventsFrom(toUi, 1, last)
      BY <2>1, <2>5, <2>6 DEF JobPhase
    <3>2. EventsFrom(toUi', 1, last)
      BY <2>1, <2>2, <2>4, <3>1, EventsAppended
    <3> QED
      BY <2>1, <2>3, <2>6, <3>1, <3>2 DEF HelloPhase, JobPhase, Serving
  <2>7. CASE upc \in {"receive", "save", "saving"}
    <3>1. toBroker = <<>> /\ cursor = last + Len(toUi) /\ EventsFrom(toUi, 0, last)
      BY <2>5, <2>7 DEF JobPhase
    <3>2. EventsFrom(toUi', 0, last)
      BY <2>1, <2>2, <2>4, <3>1, EventsAppended
    <3> QED
      BY <2>1, <2>3, <2>7, <3>1, <3>2 DEF HelloPhase, JobPhase, Serving
  <2> QED
    BY <2>1, <2>5, <2>6, <2>7 DEF HelloPhase, JobPhase, Unserved, UiPoints
<1>9. CASE UiKill \/ UiBrokerGone
  BY <1>9 DEF UiKill, UiBrokerGone, UiLeaves
<1>10. CASE UiConnect
  BY <1>10 DEF UiConnect, HelloPhase, JobPhase, Silent, Unserved, Ends, brokerVars
<1>11. CASE UiSayHello
  <2>1. PICK n \in 0..Total : toBroker' = Append(toBroker, Command("Hello", n))
    <3>1. 0 \in 0..Total /\ Resumed \in 0..Total
      BY ScenarioAssumption DEF Resumed, Typed, UiTyped
    <3> QED
      BY <1>11, <3>1 DEF UiSayHello, Sends, UiLeaves
  <2>2. /\ upc = "say_hello" /\ upc' = "hello" /\ UNCHANGED <<bpc, toUi>> /\ uiEnd = "open"
    BY <1>11 DEF UiSayHello, Sends, UiLeaves, brokerVars
  <2>3. Silent /\ bpc \in Unserved
    BY <2>2 DEF Dialogue, HelloPhase
  <2>4. Command("Hello", n) \in Commands /\ Command("Hello", n).type = "Hello"
    BY <1>b, Written DEF Command
  <2>5. Len(toBroker') = 1 /\ toBroker'[1] = Command("Hello", n)
    BY <2>1, <2>3, <2>4, OnlyOne DEF Silent
  <2> QED
    BY <2>2, <2>3, <2>4, <2>5 DEF HelloPhase, JobPhase, Silent
<1>12. CASE UiHelloAck
  <2>1. /\ upc = "hello" /\ upc' \in {"command", "save_ack"}
        /\ toUi # <<>> /\ toUi' = Tail(toUi)
        /\ ack'.from = Head(toUi).n /\ UNCHANGED <<bpc, cursor, toBroker>> /\ uiEnd = "open"
    BY <1>12 DEF UiHelloAck, Reads, brokerVars
  <2>2. toBroker = <<>> /\ bpc = "read" /\ Len(toUi) = 1 /\ toUi[1].n = cursor
    BY <2>1 DEF Dialogue, HelloPhase
  <2>3. toUi' = <<>> /\ ack'.from = cursor
    BY <2>1, <2>2, LastOne
  <2> QED
    BY <2>1, <2>2, <2>3 DEF HelloPhase, JobPhase, Silent
<1>13. CASE UiSavedAck
  BY <1>13 DEF UiSavedAck, Dialogue, HelloPhase, JobPhase, Silent, brokerVars, pipeVars
<1>14. CASE UiCommand
  <2>1. /\ upc = "command" /\ upc' = "ack" /\ uiEnd = "open" /\ last' = ack.from
        /\ toBroker' = Append(toBroker, IF ack.job THEN Command("JobResume", ack.from)
                                                   ELSE Command("ApplyPlan", 0))
        /\ UNCHANGED <<bpc, cursor, toUi>>
    BY <1>14 DEF UiCommand, Sends, UiLeaves, brokerVars
  <2>2. Silent /\ bpc = "read" /\ cursor = ack.from
    BY <2>1 DEF Dialogue, HelloPhase
  <2>3. /\ Command("JobResume", ack.from) \in Commands /\ Command("ApplyPlan", 0) \in Commands
        /\ Command("JobResume", ack.from).type = "JobResume"
        /\ Command("JobResume", ack.from).n = ack.from
        /\ Command("ApplyPlan", 0).type = "ApplyPlan"
    <3>1. 0 \in 0..Total
      BY ScenarioAssumption
    <3> QED
      BY <3>1, <1>b, Written DEF Command
  <2>4. /\ Len(toBroker') = 1
        /\ toBroker'[1] = IF ack.job THEN Command("JobResume", ack.from)
                                     ELSE Command("ApplyPlan", 0)
    BY <2>1, <2>2, <2>3, OnlyOne DEF Silent
  <2>5. \/ toBroker'[1].type = "ApplyPlan"
        \/ toBroker'[1].type = "JobResume" /\ toBroker'[1].n = last'
    BY <2>1, <2>3, <2>4
  <2> QED
    BY <2>1, <2>2, <2>4, <2>5 DEF HelloPhase, JobPhase, Silent
<1>15. CASE UiAck
  <2>1. /\ upc = "ack" /\ upc' = "receive" /\ toUi # <<>> /\ toUi' = Tail(toUi)
        /\ UNCHANGED <<bpc, cursor, toBroker, last>> /\ uiEnd = "open"
    BY <1>15 DEF UiAck, Reads, brokerVars
  <2>2. /\ toBroker = <<>> /\ bpc \in Serving /\ Len(toUi) >= 1
        /\ cursor = last + Len(toUi) - 1 /\ EventsFrom(toUi, 1, last)
    BY <2>1 DEF Dialogue, JobPhase
  <2>3. Len(toUi') = Len(toUi) - 1 /\ EventsFrom(toUi', 0, last)
    BY <2>1, <2>2, Consumed, EventsConsumed
  <2> QED
    BY <2>1, <2>2, <2>3 DEF HelloPhase, JobPhase
<1>16. CASE UiShow
  <2>1. /\ upc = "receive" /\ upc' = "save" /\ toUi # <<>> /\ toUi' = Tail(toUi)
        /\ last' = Head(toUi).n
        /\ UNCHANGED <<bpc, cursor, toBroker>> /\ uiEnd = "open"
    BY <1>16 DEF UiShow, Reads, brokerVars
  <2>2. /\ toBroker = <<>> /\ bpc \in Serving
        /\ cursor = last + Len(toUi) /\ EventsFrom(toUi, 0, last)
    BY <2>1 DEF Dialogue, JobPhase
  <2>3. /\ Len(toUi') = Len(toUi) - 1
        /\ Head(toUi).n = last + 1 /\ EventsFrom(toUi', 0, last + 1)
    BY <2>1, <2>2, Consumed, EventsConsumed
  <2> QED
    BY <2>1, <2>2, <2>3 DEF HelloPhase, JobPhase
<1>17. CASE UiTruncate \/ UiSave
  <2>1. /\ upc \in {"save", "saving"} /\ upc' \in {"receive", "saving"}
        /\ UNCHANGED <<bpc, cursor, last, pipeVars>>
    BY <1>17 DEF UiTruncate, UiSave, UiLeaves, brokerVars
  <2> QED
    BY <2>1 DEF Dialogue, HelloPhase, JobPhase, pipeVars
<1> QED
  BY <1>1, <1>2, <1>3, <1>4, <1>5, <1>6, <1>7, <1>8, <1>9, <1>10, <1>11, <1>12, <1>13, <1>14,
     <1>15, <1>16, <1>17 DEF Next, BrokerStep, UiStep

(* While a UI follows the job, the pipe holds exactly the events between    *)
(* the one it printed last and the one the broker wrote last, in order      *)
(* (main.rs, stream; BrokerPipe.cs, Call and Receive).                      *)
THEOREM PipeIsTheDifference == Spec => []PipeHoldsTheDifference
<1>1. Typed /\ Ends /\ Dialogue /\ [Next]_vars => Typed' /\ Ends' /\ Dialogue'
  BY TypedStep, EndsStep, DialogueStep
<1>2. Init => Typed /\ Ends /\ Dialogue
  BY TypedInit, EndsInit, DialogueInit
<1>3. Typed /\ Dialogue => PipeHoldsTheDifference
  <2> SUFFICES ASSUME Typed, Dialogue, uiEnd = "open", upc \in {"receive", "save", "saving"}
               PROVE  /\ cursor = last + Len(toUi)
                      /\ \A i \in 1..Len(toUi) : toUi[i].type = "Event" /\ toUi[i].n = last + i
    BY DEF PipeHoldsTheDifference
  <2>1. cursor = last + Len(toUi) /\ EventsFrom(toUi, 0, last)
    BY DEF Dialogue, JobPhase
  <2> QED
    BY <2>1 DEF EventsFrom
<1> QED
  BY <1>1, <1>2, <1>3, PTL DEF Spec

-------------------------------------------------------------------------------
(* A frame carries the life it was written in, and an event is written in   *)
(* its turn (main.rs, stream).                                              *)
LEMMA FrameWritten ==
  ASSUME Typed, [Next]_vars, NEW f \in Frames, toUi' = Append(toUi, f)
  PROVE  f.life = lives /\ (f.type = "Event" => WriteEvent /\ f.n = cursor + 1)
<1>1. Len(toUi') = Len(toUi) + 1 /\ Len(toUi) \in Nat
  BY Appended DEF Typed, PipeTyped
<1>2. toUi' # toUi /\ toUi' # <<>> /\ (toUi # <<>> => toUi' # Tail(toUi))
  <2>1. toUi # <<>> => Len(Tail(toUi)) = Len(toUi) - 1
    BY Consumed DEF Typed, PipeTyped
  <2>2. Len(<<>>) = 0
    BY NoneQueued
  <2> QED
    BY <1>1, <2>1, <2>2
<1>3. \E t, n : /\ toUi' = Append(toUi, Frame(t, n))
                /\ t = "Event" => WriteEvent /\ n = cursor + 1
  <2> USE DEF pipeVars
  <2>1. CASE JobPush \/ BrokerStart \/ BrokerStep \/ ServeError \/ BrokerCrash
    <3>1. CASE WriteEvent
      BY <3>1, <1>2 DEF WriteEvent, Hangup, Writes, EventFrame
    <3>2. CASE OnHello \/ OnApplyPlan \/ OnJobResume
      BY <3>2, <1>2 DEF OnHello, OnApplyPlan, OnJobResume, Hangup, Answers, Writes
    <3>3. CASE /\ ~(WriteEvent \/ OnHello \/ OnApplyPlan \/ OnJobResume)
               /\ JobPush \/ BrokerStart \/ BrokerStep \/ ServeError \/ BrokerCrash
      BY <3>3, <1>2 DEF JobPush, BrokerStart, BrokerStep, BrokerListen, BrokerAccept, OnShutdown,
           ClientCloses, EventsAfter, BatchWritten, ServeError, BrokerCrash, Hangup, Exit
    <3> QED
      BY <2>1, <3>1, <3>2, <3>3
  <2>2. CASE (\E s \in Scenarios : UiLaunch(s)) \/ UiKill \/ UiStep
    BY <2>2, <1>2 DEF UiLaunch, UiKill, UiStep, UiConnect, UiSayHello, UiHelloAck, UiSavedAck,
         UiCommand, UiAck, UiShow, UiTruncate, UiSave, UiBrokerGone, UiLeaves, Reads, Sends
  <2>3. CASE UNCHANGED vars
    BY <2>3, <1>2 DEF vars
  <2> QED
    BY <2>1, <2>2, <2>3 DEF Next
<1>4. PICK t, n : /\ toUi' = Append(toUi, Frame(t, n))
                  /\ t = "Event" => WriteEvent /\ n = cursor + 1
  BY <1>3
<1>5. toUi'[Len(toUi) + 1] = f /\ toUi'[Len(toUi) + 1] = Frame(t, n)
  <2>1. toUi'[Len(toUi) + 1] = f
    BY Appended DEF Typed, PipeTyped
  <2>2. toUi'[Len(toUi) + 1] = Frame(t, n)
    BY <1>4 DEF Typed, PipeTyped
  <2> QED
    BY <2>1, <2>2
<1> QED
  BY <1>4, <1>5 DEF Frame

(* What is printed and what is on its way to the UI is of the lives of the  *)
(* broker, in their order.                                                  *)
LivesInOrder ==
  /\ \A i \in 1..Len(shown) : shown[i].life <= lives
  /\ \A i, j \in 1..Len(shown) : i <= j => shown[i].life <= shown[j].life
  /\ \A i \in 1..Len(toUi) : toUi[i].life <= lives
  /\ \A i, j \in 1..Len(toUi) : i <= j => toUi[i].life <= toUi[j].life
  /\ \A i \in 1..Len(shown), j \in 1..Len(toUi) : shown[i].life <= toUi[j].life

LEMMA LivesGrow ==
  ASSUME Typed, [Next]_vars
  PROVE  lives' = lives \/ (lives' = lives + 1 /\ toUi' = toUi /\ shown' = shown)
<1> USE DEF counters
<1>1. CASE JobPush \/ BrokerStart \/ BrokerStep \/ ServeError \/ BrokerCrash
  BY <1>1 DEF JobPush, BrokerStart, BrokerStep, BrokerListen, BrokerAccept, OnHello, OnApplyPlan,
              OnJobResume, OnShutdown, ClientCloses, EventsAfter, WriteEvent, BatchWritten,
              ServeError, BrokerCrash, diskVars
<1>2. CASE (\E s \in Scenarios : UiLaunch(s)) \/ UiKill \/ UiStep
  BY <1>2 DEF UiLaunch, UiKill, UiStep, UiConnect, UiSayHello, UiHelloAck, UiSavedAck, UiCommand,
              UiAck, UiShow, UiTruncate, UiSave, UiBrokerGone
<1>3. CASE UNCHANGED vars
  BY <1>3 DEF vars
<1> QED
  BY <1>1, <1>2, <1>3 DEF Next

(* The queue to the UI keeps the order of the lives when a frame of the     *)
(* present one joins it, and the prints when its first frame is printed.    *)
LEMMA LivesInOrderStep ==
  ASSUME Typed, LivesInOrder, [Next]_vars
  PROVE  LivesInOrder'
<1>t. /\ toUi \in Seq(Frames) /\ shown \in Seq(Prints) /\ lives \in Nat
      /\ Len(toUi) \in Nat /\ Len(shown) \in Nat
  BY ScenarioAssumption DEF Typed, PipeTyped, UiTyped, BrokerTyped
<1>n. /\ \A i \in 1..Len(toUi) : toUi[i].life \in Nat
      /\ \A i \in 1..Len(shown) : shown[i].life \in Nat
  <2>1. \A f \in Frames : f.life \in Nat
    BY ScenarioAssumption DEF Frames
  <2>2. \A r \in Prints : r.life \in Nat
    BY ScenarioAssumption DEF Prints
  <2> QED
    BY <1>t, <2>1, <2>2
<1>1. CASE lives' = lives + 1 /\ toUi' = toUi /\ shown' = shown
  BY <1>1, <1>t, <1>n DEF LivesInOrder
<1>2. CASE lives' = lives /\ shown' = shown /\ toUi' = toUi
  BY <1>2 DEF LivesInOrder
<1>3. CASE lives' = lives /\ shown' = shown /\ toUi' = <<>>
  <2>1. Len(toUi') = 0
    BY <1>3, NoneQueued
  <2> QED
    BY <1>3, <2>1 DEF LivesInOrder
<1>4. CASE lives' = lives /\ shown' = shown /\ toUi # <<>> /\ toUi' = Tail(toUi)
  <2>1. Len(toUi') = Len(toUi) - 1 /\ \A i \in 1..Len(toUi') : toUi'[i] = toUi[i + 1]
    BY <1>4, <1>t, Consumed
  <2> QED
    BY <1>4, <1>t, <1>n, <2>1 DEF LivesInOrder
<1>5. ASSUME NEW f \in Frames, lives' = lives, shown' = shown, toUi' = Append(toUi, f)
      PROVE  LivesInOrder'
  <2>1. f.life = lives
    BY <1>5, FrameWritten
  <2>2. /\ Len(toUi') = Len(toUi) + 1 /\ toUi'[Len(toUi) + 1] = f
        /\ \A i \in 1..Len(toUi) : toUi'[i] = toUi[i]
    BY <1>5, <1>t, Appended
  <2>3. \A i \in 1..Len(toUi') : /\ toUi'[i].life <= lives
                                 /\ toUi'[i].life = lives \/ (i \in 1..Len(toUi) /\ toUi'[i] = toUi[i])
    BY <1>t, <2>1, <2>2 DEF LivesInOrder
  <2>4. ASSUME NEW i \in 1..Len(toUi'), NEW j \in 1..Len(toUi'), i <= j
        PROVE  toUi'[i].life <= toUi'[j].life
    <3>1. CASE j = Len(toUi) + 1
      BY <2>1, <2>2, <2>3, <3>1
    <3>2. CASE j # Len(toUi) + 1
      <4>1. i \in 1..Len(toUi) /\ j \in 1..Len(toUi)
        BY <1>t, <2>2, <2>4, <3>2
      <4> QED
        BY <2>2, <2>4, <4>1 DEF LivesInOrder
    <3> QED
      BY <3>1, <3>2
  <2>5. \A i \in 1..Len(shown), j \in 1..Len(toUi') : shown[i].life <= toUi'[j].life
    <3> SUFFICES ASSUME NEW i \in 1..Len(shown), NEW j \in 1..Len(toUi')
                 PROVE  shown[i].life <= toUi'[j].life
      OBVIOUS
    <3> QED
      BY <2>3 DEF LivesInOrder
  <2> QED
    BY <1>5, <2>3, <2>4, <2>5 DEF LivesInOrder
<1>6. CASE /\ lives' = lives /\ toUi # <<>> /\ toUi' = Tail(toUi) /\ Head(toUi).type = "Event"
           /\ shown' = Append(shown, [life |-> Head(toUi).life, seq |-> Head(toUi).n])
  <2>1. /\ Len(toUi') = Len(toUi) - 1 /\ \A i \in 1..Len(toUi') : toUi'[i] = toUi[i + 1]
        /\ Head(toUi) = toUi[1] /\ Head(toUi) \in Frames /\ Len(toUi) >= 1
    BY <1>6, <1>t, Consumed
  <2>2. [life |-> Head(toUi).life, seq |-> Head(toUi).n] \in Prints
    BY <1>6, <2>1 DEF Frames, Prints
  <2>3. /\ Len(shown') = Len(shown) + 1
        /\ \A i \in 1..Len(shown) : shown'[i] = shown[i]
        /\ shown'[Len(shown) + 1].life = toUi[1].life
    BY <1>6, <1>t, <2>1, <2>2, Appended
  <2>f. 1 \in 1..Len(toUi) /\ toUi[1].life \in Nat /\ toUi[1].life <= lives
    BY <1>t, <1>n, <2>1 DEF LivesInOrder
  <2>4. \A i \in 1..Len(shown') :
          /\ shown'[i].life <= lives /\ shown'[i].life <= toUi[1].life
          /\ shown'[i].life = toUi[1].life \/ (i \in 1..Len(shown) /\ shown'[i] = shown[i])
    <3> SUFFICES ASSUME NEW i \in 1..Len(shown')
                 PROVE  /\ shown'[i].life <= lives /\ shown'[i].life <= toUi[1].life
                        /\ \/ shown'[i].life = toUi[1].life
                           \/ i \in 1..Len(shown) /\ shown'[i] = shown[i]
      OBVIOUS
    <3>1. CASE i \in 1..Len(shown)
      BY <2>3, <2>f, <3>1 DEF LivesInOrder
    <3>2. CASE i = Len(shown) + 1
      BY <2>3, <2>f, <3>2
    <3> QED
      BY <1>t, <2>3, <3>1, <3>2
  <2>8. \A i, j \in 1..Len(shown') : i <= j => shown'[i].life <= shown'[j].life
    <3> SUFFICES ASSUME NEW i \in 1..Len(shown'), NEW j \in 1..Len(shown'), i <= j
                 PROVE  shown'[i].life <= shown'[j].life
      OBVIOUS
    <3>1. CASE j = Len(shown) + 1
      BY <2>3, <2>4, <3>1
    <3>2. CASE j # Len(shown) + 1
      <4>1. i \in 1..Len(shown) /\ j \in 1..Len(shown)
        BY <1>t, <2>3, <3>2
      <4> QED
        BY <2>3, <4>1 DEF LivesInOrder
    <3> QED
      BY <3>1, <3>2
  <2>5. \A i \in 1..Len(toUi') : /\ toUi'[i].life <= lives
                                 /\ toUi[1].life <= toUi'[i].life
                                 /\ toUi'[i].life \in Nat
    <3> SUFFICES ASSUME NEW i \in 1..Len(toUi')
                 PROVE  /\ toUi'[i].life <= lives
                        /\ toUi[1].life <= toUi'[i].life
                        /\ toUi'[i].life \in Nat
      OBVIOUS
    <3>1. i + 1 \in 1..Len(toUi) /\ 1 \in 1..Len(toUi) /\ 1 <= i + 1 /\ toUi'[i] = toUi[i + 1]
      BY <1>t, <2>1
    <3> QED
      BY <1>n, <3>1 DEF LivesInOrder
  <2>6. \A i, j \in 1..Len(toUi') : i <= j => toUi'[i].life <= toUi'[j].life
    <3> SUFFICES ASSUME NEW i \in 1..Len(toUi'), NEW j \in 1..Len(toUi'), i <= j
                 PROVE  toUi'[i].life <= toUi'[j].life
      OBVIOUS
    <3>1. /\ i + 1 \in 1..Len(toUi) /\ j + 1 \in 1..Len(toUi) /\ i + 1 <= j + 1
          /\ toUi'[i] = toUi[i + 1] /\ toUi'[j] = toUi[j + 1]
      BY <1>t, <2>1
    <3> QED
      BY <3>1 DEF LivesInOrder
  <2>7. \A i \in 1..Len(shown'), j \in 1..Len(toUi') : shown'[i].life <= toUi'[j].life
    <3> SUFFICES ASSUME NEW i \in 1..Len(shown'), NEW j \in 1..Len(toUi')
                 PROVE  shown'[i].life <= toUi'[j].life
      OBVIOUS
    <3>1. toUi[1].life \in Nat
      BY <1>n, <1>t, <2>1
    <3>2. shown'[i].life \in Nat
      <4>1. shown' \in Seq(Prints)
        BY <1>6, <1>t, <2>2, Appended
      <4>2. shown'[i] \in Prints
        BY <4>1
      <4> QED
        BY <4>2, ScenarioAssumption DEF Prints
    <3> QED
      BY <2>4, <2>5, <3>1, <3>2
  <2> QED
    BY <1>6, <2>4, <2>5, <2>6, <2>7, <2>8 DEF LivesInOrder
<1> QED
  BY <1>1, <1>2, <1>3, <1>4, <1>5, <1>6, LivesGrow, QueueSteps, ShownGrows

(* Nothing of the first job a user sees is ever left out of what is shown,  *)
(* however often the UI is killed or its connection dropped, whatever       *)
(* clients reset the saved position, and however the broker ends (main.rs,  *)
(* stream; docs/08, Reconnection).                                          *)
THEOREM NothingIsSkipped == Spec => []NothingSkipped
<1>1. NumbersInv /\ LivesInOrder /\ [Next]_vars => NumbersInv' /\ LivesInOrder'
  BY TypedStep, EndsStep, PositionsStep, NumbersStep, LivesInOrderStep DEF NumbersInv
<1>2. Init => NumbersInv /\ LivesInOrder
  <2> SUFFICES ASSUME Init PROVE NumbersInv /\ LivesInOrder
    OBVIOUS
  <2>1. Len(shown) = 0 /\ Len(toUi) = 0
    BY NoneQueued DEF Init
  <2>2. LivesInOrder
    BY <2>1 DEF LivesInOrder
  <2> QED
    BY <2>2, TypedInit, EndsInit, PositionsInit DEF NumbersInv
<1>3. NumbersInv /\ LivesInOrder => NothingSkipped
  <2> SUFFICES ASSUME NumbersInv, LivesInOrder, NEW i \in 1..Len(shown), shown[i].seq # 1,
                      shown[i].life = shown[1].life
               PROVE  \E j \in 1..(i - 1) : shown[j] = [shown[i] EXCEPT !.seq = @ - 1]
    BY DEF NothingSkipped
  <2>1. PICK j \in 1..(i - 1) : shown[j].seq = shown[i].seq - 1
    BY DEF NumbersInv, NumbersFollow
  <2>2. /\ shown \in Seq(Prints) /\ Len(shown) \in Nat
        /\ 1 \in 1..Len(shown) /\ j \in 1..Len(shown) /\ 1 <= j /\ j <= i
    BY DEF NumbersInv, Typed, UiTyped
  <2>3. shown[i] \in Prints /\ shown[j] \in Prints
    BY <2>2
  <2>4. shown[1].life <= shown[j].life /\ shown[j].life <= shown[i].life
    BY <2>2 DEF LivesInOrder
  <2>5. shown[j].life = shown[i].life
    BY <2>3, <2>4, ScenarioAssumption DEF Prints
  <2>6. shown[j] = [shown[i] EXCEPT !.seq = @ - 1]
    BY <2>1, <2>3, <2>5 DEF Prints
  <2> QED
    BY <2>6
<1> QED
  BY <1>1, <1>2, <1>3, PTL DEF Spec

-------------------------------------------------------------------------------
(* A broker that is not killed leaves nothing unread in a pipe it hangs up  *)
(* on (pipe.rs, disconnect).                                                *)
NothingUnread == crashes = 0 /\ (uiEnd = "broken" => toUi = <<>>)

LEMMA UnreadStep ==
  ASSUME MaxCrashes = 0, Typed, Ends, NothingUnread, [Next]_vars
  PROVE  NothingUnread'
<1>1. ~BrokerCrash
  BY DEF BrokerCrash, NothingUnread
<1> USE <1>1 DEF NothingUnread, pipeVars, counters, ClientGone, CanWrite, Ends
<1>2. CASE JobPush \/ BrokerStart \/ BrokerListen \/ BrokerAccept \/ OnShutdown
  BY <1>2 DEF JobPush, BrokerStart, BrokerListen, BrokerAccept, OnShutdown, Hangup, Exit
<1>3. CASE OnHello \/ OnApplyPlan \/ OnJobResume \/ ClientCloses \/ EventsAfter \/ WriteEvent
           \/ BatchWritten \/ ServeError
  BY <1>3 DEF OnHello, OnApplyPlan, OnJobResume, ClientCloses, EventsAfter, WriteEvent,
              BatchWritten, ServeError, Hangup, Answers
<1>4. CASE (\E s \in Scenarios : UiLaunch(s)) \/ UiKill \/ UiConnect \/ UiSayHello \/ UiCommand
           \/ UiBrokerGone
  BY <1>4 DEF UiLaunch, UiKill, UiConnect, UiSayHello, UiCommand, UiBrokerGone, UiLeaves, Sends
<1>5. CASE UiHelloAck \/ UiSavedAck \/ UiAck \/ UiShow \/ UiTruncate \/ UiSave
  BY <1>5 DEF UiHelloAck, UiSavedAck, UiAck, UiShow, UiTruncate, UiSave, UiLeaves, Reads
<1>6. CASE UNCHANGED vars
  BY <1>6 DEF vars
<1> QED
  BY <1>2, <1>3, <1>4, <1>5, <1>6 DEF Next, BrokerStep, UiStep

-------------------------------------------------------------------------------
(* What ends a broker: a kill, an accept that fails, a Shutdown command.    *)
NothingEndsBroker ==
  MaxCrashes = 0 /\ MaxFailedAccepts = 0 /\ "shutdown" \notin Scenarios

(* While nothing ends the broker there is one job: a broker that ends does  *)
(* so before its first client, and nothing was printed by then.             *)
OrderCommands == {c \in Commands : c.type # "Shutdown"}
LifeFrames    == {f \in Frames : f.life = lives}
LifePrints    == {r \in Prints : r.life = lives}

OneLife ==
  /\ failed = 0 /\ NothingUnread
  /\ scenario # "shutdown"
  /\ toBroker \in Seq(OrderCommands) /\ toUi \in Seq(LifeFrames) /\ shown \in Seq(LifePrints)
  /\ bpc \in {"down", "created"} => shown = <<>> /\ toUi = <<>> /\ len = 0 /\ ~finished

LEMMA OneLifeInit == Init => OneLife
<1> SUFFICES ASSUME Init PROVE OneLife
  OBVIOUS
<1>1. toBroker \in Seq(OrderCommands) /\ toUi \in Seq(LifeFrames) /\ shown \in Seq(LifePrints)
  BY NoneQueued DEF Init
<1>2. ~finished /\ len = 0
  BY DEF Init, EmptyLog
<1> QED
  BY <1>1, <1>2 DEF Init, OneLife, NothingUnread

LEMMA OneLifeStep ==
  ASSUME NothingEndsBroker, Typed, Ends, OneLife, [Next]_vars
  PROVE  OneLife'
<1>t. /\ toBroker \in Seq(OrderCommands) /\ toUi \in Seq(LifeFrames) /\ shown \in Seq(LifePrints)
      /\ crashes = 0 /\ bpc \in BrokerPoints /\ BrokerTyped
      /\ ~(failed < MaxFailedAccepts)
  BY DEF OneLife, NothingUnread, NothingEndsBroker, Typed, BrokerTyped
<1>1. ~BrokerCrash /\ ~OnShutdown
  <2>1. ~BrokerCrash
    BY <1>t DEF BrokerCrash, NothingEndsBroker
  <2>2. toBroker # <<>> => Head(toBroker).type # "Shutdown"
    <3> SUFFICES ASSUME toBroker # <<>> PROVE Head(toBroker).type # "Shutdown"
      OBVIOUS
    <3>1. Head(toBroker) \in OrderCommands
      BY <1>t, Consumed
    <3> QED
      BY <3>1 DEF OrderCommands
  <2> QED
    BY <2>1, <2>2 DEF OnShutdown, Receives
<1>2. /\ scenario' # "shutdown"
      /\ \/ lives' = lives
         \/ BrokerStart /\ bpc = "down"
  <2> USE <1>1, <1>t DEF OneLife, NothingEndsBroker, counters, uiVars
  <2>1. CASE JobPush \/ BrokerStart \/ BrokerStep \/ ServeError
    BY <2>1 DEF JobPush, BrokerStart, BrokerStep, BrokerListen, BrokerAccept, OnHello, OnApplyPlan,
                OnJobResume, ClientCloses, EventsAfter, WriteEvent, BatchWritten, ServeError, Ends
  <2>2. CASE (\E s \in Scenarios : UiLaunch(s)) \/ UiKill \/ UiStep
    BY <2>2 DEF UiLaunch, UiKill, UiStep, UiConnect, UiSayHello, UiHelloAck, UiSavedAck, UiCommand,
                UiAck, UiShow, UiTruncate, UiSave, UiBrokerGone
  <2>3. CASE UNCHANGED vars
    BY <2>3 DEF vars
  <2> QED
    BY <2>1, <2>2, <2>3 DEF Next
<1>3. toBroker' \in Seq(OrderCommands)
  <2>k. ASSUME \/ toBroker' = toBroker
               \/ toBroker' = <<>>
               \/ toBroker # <<>> /\ toBroker' = Tail(toBroker)
               \/ \E x \in OrderCommands : toBroker' = Append(toBroker, x)
        PROVE  toBroker' \in Seq(OrderCommands)
    BY <2>k, <1>t, QueueTyped
  <2> USE DEF pipeVars
  <2>1. CASE JobPush \/ BrokerStart \/ BrokerStep \/ ServeError
    BY <2>1, <2>k, <1>1 DEF JobPush, BrokerStart, BrokerStep, BrokerListen, BrokerAccept, OnHello,
                OnApplyPlan, OnJobResume, ClientCloses, EventsAfter, WriteEvent, BatchWritten,
                ServeError, Hangup, Exit, Answers, Receives
  <2>2. CASE (\E s \in Scenarios : UiLaunch(s)) \/ UiKill \/ UiConnect \/ UiHelloAck \/ UiSavedAck
             \/ UiAck \/ UiShow \/ UiTruncate \/ UiSave \/ UiBrokerGone
    BY <2>2, <2>k DEF UiLaunch, UiKill, UiConnect, UiHelloAck, UiSavedAck, UiAck, UiShow,
                UiTruncate, UiSave, UiBrokerGone, UiLeaves, Reads
  <2>3. CASE UiSayHello
    <3>1. 0 \in 0..Total /\ Resumed \in 0..Total
      BY ScenarioAssumption DEF Resumed, Typed, UiTyped
    <3>2. Command("Hello", IF scenario = "stream" THEN Resumed ELSE 0) \in OrderCommands
      BY <3>1, <1>t, Written DEF OrderCommands, Command
    <3> QED
      BY <2>3, <2>k, <3>2 DEF UiSayHello, UiLeaves, Sends
  <2>4. CASE UiCommand
    <3>1. 0 \in 0..Total /\ ack.from \in 0..Total
      BY ScenarioAssumption DEF Typed, UiTyped
    <3>2. /\ Command("JobResume", ack.from) \in OrderCommands
          /\ Command("ApplyPlan", 0) \in OrderCommands
      BY <3>1, <1>t, Written DEF OrderCommands, Command
    <3> QED
      BY <2>4, <2>k, <3>2 DEF UiCommand, UiLeaves, Sends, OneLife
  <2>5. CASE UNCHANGED vars
    BY <2>5, <2>k DEF vars
  <2> QED
    BY <2>1, <2>2, <2>3, <2>4, <2>5, <1>1 DEF Next, UiStep
<1>4. ASSUME lives' = lives
      PROVE  toUi' \in Seq(LifeFrames)' /\ shown' \in Seq(LifePrints)'
  <2>1. toUi' \in Seq(LifeFrames)'
    <3>1. LifeFrames' = LifeFrames
      BY <1>4 DEF LifeFrames
    <3>2. \A f \in Frames : toUi' = Append(toUi, f) => \E x \in LifeFrames : toUi' = Append(toUi, x)
      <4> SUFFICES ASSUME NEW f \in Frames, toUi' = Append(toUi, f)
                   PROVE  \E x \in LifeFrames : toUi' = Append(toUi, x)
        OBVIOUS
      <4>1. f.life = lives
        BY FrameWritten
      <4> QED
        BY <4>1 DEF LifeFrames
    <3> QED
      BY <3>1, <3>2, <1>t, QueueSteps, QueueTyped
  <2>2. shown' \in Seq(LifePrints)'
    <3>1. LifePrints' = LifePrints
      BY <1>4 DEF LifePrints
    <3>2. CASE toUi # <<>> /\ shown' = Append(shown, [life |-> Head(toUi).life, seq |-> Head(toUi).n])
                /\ Head(toUi).type = "Event"
      <4>1. Head(toUi) \in LifeFrames
        BY <3>2, <1>t, Consumed
      <4>2. [life |-> Head(toUi).life, seq |-> Head(toUi).n] \in LifePrints
        BY <3>2, <4>1 DEF LifeFrames, LifePrints, Frames, Prints
      <4> QED
        BY <3>1, <3>2, <4>2, <1>t, Appended
    <3>3. CASE shown' = shown
      BY <3>1, <3>3, <1>t
    <3> QED
      BY <3>2, <3>3, ShownGrows
  <2> QED
    BY <2>1, <2>2
<1>5. toUi' \in Seq(LifeFrames)' /\ shown' \in Seq(LifePrints)'
  <2>1. CASE BrokerStart /\ bpc = "down"
    <3>1. toUi' = <<>> /\ shown' = <<>>
      BY <2>1 DEF BrokerStart, OneLife, diskVars
    <3> QED
      BY <3>1, NoneQueued
  <2> QED
    BY <2>1, <1>2, <1>4
<1>6. failed' = 0 /\ NothingUnread'
  <2>1. NothingUnread'
    BY UnreadStep DEF OneLife, NothingEndsBroker
  <2>2. ~(failed < MaxFailedAccepts)
    BY DEF OneLife, NothingEndsBroker
  <2>3. failed' = failed
    <3> USE DEF counters
    <3>1. CASE JobPush \/ BrokerStart \/ BrokerStep \/ ServeError \/ BrokerCrash
      BY <2>2, <3>1 DEF JobPush, BrokerStart, BrokerStep, BrokerListen, BrokerAccept, OnHello,
           OnApplyPlan, OnJobResume, OnShutdown, ClientCloses, EventsAfter, WriteEvent, BatchWritten,
           ServeError, BrokerCrash
    <3>2. CASE (\E s \in Scenarios : UiLaunch(s)) \/ UiKill \/ UiStep
      BY <3>2 DEF UiLaunch, UiKill, UiStep, UiConnect, UiSayHello, UiHelloAck, UiSavedAck, UiCommand,
           UiAck, UiShow, UiTruncate, UiSave, UiBrokerGone
    <3>3. CASE UNCHANGED vars
      BY <3>3 DEF vars
    <3> QED
      BY <3>1, <3>2, <3>3 DEF Next
  <2> QED
    BY <2>1, <2>3 DEF OneLife
<1>7. ASSUME bpc' \in {"down", "created"}
      PROVE  shown' = <<>> /\ toUi' = <<>> /\ len' = 0 /\ ~finished'
  <2> USE <1>1, <1>t, <1>7 DEF OneLife, brokerVars, pipeVars, logVars, diskVars, Ends
  <2>1. CASE JobPush
    BY <2>1 DEF JobPush
  <2>2. CASE BrokerStart
    BY <2>2 DEF BrokerStart, NewLog
  <2>3. CASE BrokerListen
    BY <2>3 DEF BrokerListen, Exit
  <2>4. CASE BrokerAccept \/ OnHello \/ OnApplyPlan \/ OnJobResume \/ ClientCloses \/ EventsAfter
             \/ WriteEvent \/ BatchWritten \/ ServeError
    BY <2>4 DEF BrokerAccept, OnHello, OnApplyPlan, OnJobResume, ClientCloses, EventsAfter,
                WriteEvent, BatchWritten, ServeError, Hangup, Answers, Receives
  <2>5. CASE (\E s \in Scenarios : UiLaunch(s)) \/ UiKill \/ UiConnect \/ UiSayHello \/ UiCommand
             \/ UiBrokerGone
    BY <2>5 DEF UiLaunch, UiKill, UiConnect, UiSayHello, UiCommand, UiBrokerGone, UiLeaves, Sends
  <2>6. CASE UiHelloAck \/ UiSavedAck \/ UiAck \/ UiShow \/ UiTruncate \/ UiSave
    BY <2>6 DEF UiHelloAck, UiSavedAck, UiAck, UiShow, UiTruncate, UiSave, UiLeaves, Reads
  <2>7. CASE UNCHANGED vars
    BY <2>7 DEF vars
  <2> QED
    BY <2>1, <2>2, <2>3, <2>4, <2>5, <2>6, <2>7 DEF Next, BrokerStep, UiStep
<1> QED
  BY <1>2, <1>3, <1>5, <1>6, <1>7 DEF OneLife

-------------------------------------------------------------------------------
(* Session.Save truncates session.json before it writes it; a UI killed in  *)
(* between has lost the position for good.  The position is what the file   *)
(* says, or said when its rewriting began.                                  *)
Saving == upc \in {"save_ack", "saving"}
Lost   == session.state = "torn" /\ ~Saving
Point  == IF upc = "save_ack" THEN ack.from
          ELSE IF upc = "saving" THEN last - 1
          ELSE session.lastSeq

(* What the UI has saved is what it is sent from, and what it has printed   *)
(* is that and at most one event more.                                      *)
SavedPoint ==
  /\ scenario = "stream"
  /\ session.state = "absent" => session.lastSeq = 0
  /\ Saving => session.state = "torn"
  /\ Lost => upc \in {"off", "connect", "say_hello"}
  /\ uiEnd = "open" /\ upc = "hello" =>
       /\ toBroker # <<>> => toBroker[1].n = session.lastSeq
       /\ toUi # <<>> => cursor = session.lastSeq
  /\ upc = "command" => ack.from = session.lastSeq
  /\ upc \in {"ack", "receive"} => last = session.lastSeq
  /\ upc = "save" => last = session.lastSeq + 1
  /\ ~Lost => \A i \in 1..Len(shown) : shown[i].seq <= Point + 1

(* The next event was printed already: it will be printed again.            *)
Due == \E i \in 1..Len(shown) : shown[i].seq = Point + 1

RepeatsAreKills ==
  /\ Cardinality(Repeated) <= kills
  /\ ~Lost /\ upc \notin {"save", "saving"} /\ Due => Cardinality(Repeated) + 1 <= kills

RepeatInv == Typed /\ Ends /\ Dialogue /\ NothingUnread /\ SavedPoint /\ RepeatsAreKills

LEMMA SavedInit == Init => NothingUnread /\ SavedPoint /\ RepeatsAreKills
<1> SUFFICES ASSUME Init PROVE NothingUnread /\ SavedPoint /\ RepeatsAreKills
  OBVIOUS
<1>1. shown = <<>> /\ Len(shown) = 0
  BY NoneQueued DEF Init
<1>2. Repeated = {}
  BY <1>1 DEF Repeated
<1>3. SavedPoint
  BY <1>1 DEF Init, SavedPoint, Saving, Lost
<1>4. RepeatsAreKills
  BY <1>1, <1>2, FS_EmptySet DEF Init, RepeatsAreKills, Due
<1>5. NothingUnread
  BY DEF Init, NothingUnread
<1> QED
  BY <1>3, <1>4, <1>5

(* What a UI that reads a HelloAck or an event has saved.                   *)
LEMMA SavedWhereRead ==
  ASSUME SavedPoint, upc \in {"hello", "receive"}
  PROVE  ~Saving /\ ~Lost /\ session.state # "torn" /\ Point = session.lastSeq
BY DEF SavedPoint, Saving, Lost, Point

(* What the broker reads in a Hello is the saved position, and so is what   *)
(* it answers; the pipe itself changes the saved position no more than the  *)
(* broker does (main.rs, Hello; Program.cs, SayHello and RunJob).           *)
LEMMA SavedStep ==
  ASSUME Scenarios \subseteq {"stream"}, Typed, Ends, Dialogue, NothingUnread, SavedPoint,
         [Next]_vars
  PROVE  SavedPoint'
<1>t. /\ session \in [state : {"absent", "ok", "torn"}, lastSeq : 0..Total]
      /\ last \in 0..Total /\ cursor \in 0..Total /\ upc \in UiPoints
      /\ toUi \in Seq(Frames) /\ toBroker \in Seq(Commands) /\ shown \in Seq(Prints)
      /\ BrokerTyped /\ BrokerTyped'
  BY BrokerTypedStep DEF Typed, UiTyped, PipeTyped, BrokerTyped
<1>o. /\ uiEnd = "broken" => toUi = <<>>
      /\ uiEnd = "closed" => toUi = <<>>
      /\ uiEnd \in {"closed", "open", "broken"}
  BY DEF NothingUnread, Ends, Typed, PipeTyped
<1>d. uiEnd = "open" => HelloPhase /\ JobPhase
  BY DEF Dialogue
<1>k. ASSUME UNCHANGED <<session, scenario, upc, shown, last, ack>>,
             uiEnd' = "open" /\ upc = "hello" =>
               /\ toBroker' # <<>> => toBroker'[1].n = session.lastSeq
               /\ toUi' # <<>> => cursor' = session.lastSeq
      PROVE  SavedPoint'
  BY <1>k DEF SavedPoint, Saving, Lost, Point
<1>l. ASSUME UNCHANGED <<session, scenario, shown>>, upc' \in {"off", "connect", "say_hello"}
      PROVE  SavedPoint'
  BY <1>l DEF SavedPoint, Saving, Lost, Point
<1> USE <1>t, <1>o DEF brokerVars, pipeVars, uiVars, diskVars
<1>1. CASE JobPush \/ UNCHANGED vars
  BY <1>1, <1>k DEF JobPush, vars, SavedPoint
<1>2. CASE BrokerStart \/ OnShutdown \/ ClientCloses \/ ServeError \/ BrokerCrash
  BY <1>2, <1>k DEF BrokerStart, OnShutdown, ClientCloses, ServeError, BrokerCrash, Ends, Hangup,
              Exit
<1>3. CASE BrokerListen \/ EventsAfter \/ BatchWritten
  BY <1>3, <1>k DEF BrokerListen, EventsAfter, BatchWritten, Exit, SavedPoint
<1>4. CASE BrokerAccept
  <2>1. UNCHANGED <<session, scenario, upc, shown, last, ack>>
    BY <1>4 DEF BrokerAccept
  <2>2. CASE uiEnd' = "open" /\ upc = "hello"
    <3>1. /\ toUi' = <<>>
          /\ toBroker' # <<>> => toBroker'[1].n = session.lastSeq
      BY <1>4, <2>2, <1>d DEF BrokerAccept, Hangup, Exit, HelloPhase, Unserved, SavedPoint
    <3> QED
      BY <2>1, <3>1, <1>k
  <2> QED
    BY <2>1, <2>2, <1>k
<1>5. CASE OnHello
  <2>1. UNCHANGED <<session, scenario, upc, shown, last, ack>>
    BY <1>5 DEF OnHello
  <2>2. CASE uiEnd' = "open" /\ upc = "hello"
    <3>1. /\ uiEnd = "open" /\ toBroker # <<>> /\ cursor' = Head(toBroker).n
          /\ toBroker' = Tail(toBroker)
      BY <1>5, <2>2 DEF OnHello, Receives, Answers, Hangup
    <3>2. Head(toBroker) = toBroker[1] /\ Len(toBroker) = 1
      BY <2>2, <3>1, <1>d, Consumed DEF HelloPhase
    <3>3. toBroker' = <<>> /\ cursor' = session.lastSeq
      BY <2>2, <3>1, <3>2, LastOne DEF SavedPoint
    <3> QED
      BY <2>1, <3>3, <1>k
  <2> QED
    BY <2>1, <2>2, <1>k
<1>6. CASE OnApplyPlan \/ OnJobResume \/ WriteEvent
  <2>1. UNCHANGED <<session, scenario, upc, shown, last, ack>>
    BY <1>6 DEF OnApplyPlan, OnJobResume, WriteEvent
  <2>2. CASE uiEnd' = "open" /\ upc = "hello"
    <3>1. /\ uiEnd = "open"
          /\ \/ bpc = "write"
             \/ toBroker # <<>> /\ Head(toBroker).type # "Hello"
      BY <1>6, <2>2 DEF OnApplyPlan, OnJobResume, WriteEvent, Receives, Answers, Hangup
    <3>2. toBroker # <<>> => Head(toBroker) = toBroker[1]
      BY Consumed
    <3>3. FALSE
      BY <2>2, <3>1, <3>2, <1>d DEF HelloPhase, Unserved
    <3> QED
      BY <3>3
  <2> QED
    BY <2>1, <2>2, <1>k
<1>7. CASE \E s \in Scenarios : UiLaunch(s)
  <2>1. scenario' = scenario
    BY <1>7 DEF UiLaunch, SavedPoint
  <2> QED
    BY <1>7, <2>1, <1>l DEF UiLaunch
<1>8. CASE UiKill \/ UiBrokerGone \/ UiConnect
  BY <1>8, <1>l DEF UiKill, UiBrokerGone, UiConnect, UiLeaves
<1>9. CASE UiSayHello
  <2>1. CASE session.state = "torn"
    BY <1>9, <2>1, <1>l DEF UiSayHello, UiLeaves, SavedPoint
  <2>2. CASE session.state # "torn"
    <3>1. Resumed = session.lastSeq
      BY <2>2 DEF Resumed, SavedPoint
    <3>2. /\ upc' = "hello" /\ uiEnd = "open" /\ upc = "say_hello"
          /\ toBroker' = Append(toBroker, Command("Hello", session.lastSeq))
          /\ UNCHANGED <<session, scenario, shown, toUi>>
      BY <1>9, <2>2, <3>1 DEF UiSayHello, Sends, SavedPoint
    <3>3. Silent
      BY <3>2, <1>d DEF HelloPhase
    <3>4. Command("Hello", session.lastSeq) \in Commands
      BY Written
    <3>5. toBroker'[1] = Command("Hello", session.lastSeq)
      BY <3>2, <3>3, <3>4, OnlyOne DEF Silent
    <3>6. toBroker'[1].n = session.lastSeq
      BY <3>5 DEF Command
    <3>7. toUi' = <<>>
      BY <3>2, <3>3 DEF Silent
    <3>8. /\ Point = session.lastSeq /\ Point' = session.lastSeq
          /\ ~Lost /\ ~Lost' /\ ~Saving'
      BY <2>2, <3>2 DEF Point, Lost, Saving
    <3> QED
      BY <2>2, <3>2, <3>6, <3>7, <3>8 DEF SavedPoint
  <2> QED
    BY <2>1, <2>2
<1>10. CASE UiHelloAck
  <2>1. /\ upc = "hello" /\ toUi # <<>> /\ uiEnd = "open" /\ upc' = "save_ack"
        /\ ack'.from = Head(toUi).n
        /\ session' = [state |-> "torn", lastSeq |-> 0]
        /\ UNCHANGED <<scenario, shown>>
    BY <1>10 DEF UiHelloAck, Reads, Truncates
  <2>2. Head(toUi) = toUi[1]
    BY <2>1, Consumed
  <2>3. ack'.from = session.lastSeq
    BY <2>1, <2>2, <1>d DEF HelloPhase, SavedPoint
  <2>4. Point' = Point /\ ~Lost /\ ~Lost' /\ Saving'
    BY <2>1, <2>3, SavedWhereRead DEF Point, Lost, Saving
  <2> QED
    BY <2>1, <2>4 DEF SavedPoint
<1>11. CASE UiSavedAck
  <2>1. /\ upc = "save_ack" /\ upc' = "command" /\ UNCHANGED <<scenario, shown, ack>>
        /\ session' = [state |-> "ok", lastSeq |-> ack.from]
    BY <1>11 DEF UiSavedAck, Saves
  <2>2. Point' = Point /\ ~Lost /\ ~Lost' /\ ~Saving'
    BY <2>1 DEF Point, Lost, Saving
  <2> QED
    BY <2>1, <2>2 DEF SavedPoint
<1>16. CASE UiTruncate
  <2>1. /\ upc = "save" /\ upc' = "saving" /\ UNCHANGED <<scenario, shown, last>>
        /\ session' = [state |-> "torn", lastSeq |-> 0]
    BY <1>16 DEF UiTruncate, Truncates
  <2>2. ~Lost /\ ~Lost' /\ Saving' /\ Point = session.lastSeq /\ Point' = last - 1
    BY <2>1 DEF SavedPoint, Point, Lost, Saving
  <2>3. Point' = Point
    BY <2>1, <2>2 DEF SavedPoint
  <2> QED
    BY <2>1, <2>2, <2>3 DEF SavedPoint
<1>12. CASE UiCommand
  <2>1. /\ upc = "command" /\ upc' = "ack" /\ last' = ack.from
        /\ UNCHANGED <<scenario, shown, session>>
    BY <1>12 DEF UiCommand, SavedPoint
  <2>2. ~Lost /\ ~Lost' /\ ~Saving' /\ Point' = Point
    BY <2>1 DEF SavedPoint, Point, Lost, Saving
  <2> QED
    BY <2>1, <2>2 DEF SavedPoint
<1>13. CASE UiAck
  <2>1. /\ upc = "ack" /\ upc' = "receive" /\ UNCHANGED <<scenario, shown, session, last>>
    BY <1>13 DEF UiAck
  <2>2. ~Lost /\ ~Lost' /\ ~Saving' /\ Point' = Point
    BY <2>1 DEF SavedPoint, Point, Lost, Saving
  <2> QED
    BY <2>1, <2>2 DEF SavedPoint
<1>14. CASE UiShow
  <2>1. /\ upc = "receive" /\ upc' = "save" /\ toUi # <<>> /\ uiEnd = "open"
        /\ last' = Head(toUi).n /\ UNCHANGED <<session, scenario>>
        /\ shown' = Append(shown, [life |-> Head(toUi).life, seq |-> Head(toUi).n])
    BY <1>14 DEF UiShow, Reads
  <2>2. Head(toUi).type = "Event" /\ Head(toUi).n = last + 1 /\ last = session.lastSeq
    BY <2>1, <1>d, EventsConsumed DEF JobPhase, SavedPoint
  <2>3. Head(toUi) \in Frames
    BY <2>1, Consumed
  <2>4. [life |-> Head(toUi).life, seq |-> Head(toUi).n] \in Prints
    BY <2>2, <2>3 DEF Frames, Prints
  <2>5. /\ Len(shown) \in Nat /\ Len(shown') = Len(shown) + 1
        /\ \A i \in 1..Len(shown) : shown'[i] = shown[i]
        /\ shown'[Len(shown) + 1] = [life |-> Head(toUi).life, seq |-> Head(toUi).n]
    BY <2>1, <2>4, Appended
  <2>7. /\ Point = session.lastSeq /\ Point' = session.lastSeq
        /\ ~Lost /\ ~Lost' /\ ~Saving' /\ session.state # "torn"
    BY <2>1, SavedWhereRead DEF Point, Lost, Saving
  <2>6. \A i \in 1..Len(shown') : shown'[i].seq <= session.lastSeq + 1
    <3> SUFFICES ASSUME NEW i \in 1..Len(shown') PROVE shown'[i].seq <= session.lastSeq + 1
      OBVIOUS
    <3>1. i \in 1..Len(shown) \/ i = Len(shown) + 1
      BY <2>5
    <3>2. CASE i \in 1..Len(shown)
      BY <2>5, <2>7, <3>2 DEF SavedPoint
    <3>3. CASE i = Len(shown) + 1
      <4>1. shown'[i].seq = Head(toUi).n /\ last \in Nat
        BY <2>5, <3>3
      <4> QED
        BY <2>2, <4>1
    <3> QED
      BY <3>1, <3>2, <3>3
  <2> QED
    BY <2>1, <2>2, <2>6, <2>7 DEF SavedPoint
<1>15. CASE UiSave
  <2>1. /\ upc = "saving" /\ upc' \in {"off", "receive"} /\ UNCHANGED <<scenario, shown, last>>
        /\ session' = [state |-> "ok", lastSeq |-> last]
    BY <1>15 DEF UiSave, Saves, UiLeaves
  <2>2. ~Lost /\ ~Lost' /\ ~Saving' /\ Point = last - 1 /\ Point' = last
    BY <2>1 DEF Point, Lost, Saving
  <2>3. \A i \in 1..Len(shown) : shown[i].seq <= Point' + 1
    <3> SUFFICES ASSUME NEW i \in 1..Len(shown) PROVE shown[i].seq <= last + 1
      BY <2>2
    <3>1. shown[i] \in Prints
      OBVIOUS
    <3>2. shown[i].seq \in Nat /\ last \in Nat
      BY <3>1 DEF Prints
    <3>3. shown[i].seq <= Point + 1
      BY <2>2 DEF SavedPoint
    <3> QED
      BY <2>2, <3>2, <3>3
  <2> QED
    BY <2>1, <2>2, <2>3 DEF SavedPoint
<1> QED
  BY <1>1, <1>2, <1>3, <1>4, <1>5, <1>6, <1>7, <1>8, <1>9, <1>10, <1>11, <1>12, <1>13, <1>14,
     <1>15, <1>16 DEF Next, BrokerStep, UiStep

(* Printing adds at most one repeat, and only of an event that is already   *)
(* there.                                                                   *)
LEMMA RepeatedAfterShow ==
  ASSUME shown \in Seq(Prints), NEW r \in Prints, shown' = Append(shown, r)
  PROVE  /\ Cardinality(Repeated) \in Nat /\ Cardinality(Repeated') \in Nat
         /\ Cardinality(Repeated') <= Cardinality(Repeated) + 1
         /\ (\A i \in 1..Len(shown) : shown[i].seq # r.seq) =>
              Cardinality(Repeated') = Cardinality(Repeated)
<1>1. /\ Len(shown) \in Nat /\ Len(shown') = Len(shown) + 1
      /\ \A i \in 1..Len(shown) : shown'[i] = shown[i]
      /\ shown'[Len(shown) + 1] = r
  BY Appended
<1>2. IsFiniteSet(Repeated)
  <2>1. Repeated \subseteq 1..Len(shown) /\ IsFiniteSet(1..Len(shown))
    BY <1>1, FS_Interval DEF Repeated
  <2> QED
    BY <2>1, FS_Subset
<1>3. Repeated' \ {Len(shown) + 1} = Repeated
  <2>1. ASSUME NEW i \in 1..Len(shown)
        PROVE  i \in Repeated' <=> i \in Repeated
    <3>1. \A j \in 1..(i - 1) : j \in 1..Len(shown)
      BY <1>1
    <3> QED
      BY <1>1, <3>1 DEF Repeated
  <2>2. Repeated' \subseteq 1..(Len(shown) + 1) /\ Repeated \subseteq 1..Len(shown)
    BY <1>1 DEF Repeated
  <2>3. ASSUME NEW i \in Repeated', i # Len(shown) + 1 PROVE i \in Repeated
    <3>1. i \in 1..Len(shown)
      BY <1>1, <2>2, <2>3
    <3> QED
      BY <2>1, <2>3, <3>1
  <2>4. ASSUME NEW i \in Repeated PROVE i \in Repeated' /\ i # Len(shown) + 1
    <3>1. i \in 1..Len(shown)
      BY <2>2
    <3> QED
      BY <1>1, <2>1, <2>4, <3>1
  <2> QED
    BY <2>3, <2>4
<1>4. Len(shown) + 1 \notin Repeated
  BY <1>1 DEF Repeated
<1>5. Repeated' = Repeated \/ Repeated' = Repeated \cup {Len(shown) + 1}
  BY <1>3
<1>6. Cardinality(Repeated) \in Nat /\ Cardinality(Repeated \cup {Len(shown) + 1}) = Cardinality(Repeated) + 1
  BY <1>2, <1>4, FS_AddElement, FS_CardinalityType
<1>7. ASSUME \A i \in 1..Len(shown) : shown[i].seq # r.seq
      PROVE  Repeated' = Repeated
  <2>1. Len(shown) + 1 \notin Repeated'
    BY <1>1, <1>7 DEF Repeated
  <2> QED
    BY <2>1, <1>3
<1>8. Cardinality(Repeated') \in {Cardinality(Repeated), Cardinality(Repeated) + 1}
  BY <1>5, <1>6
<1> QED
  BY <1>6, <1>7, <1>8

LEMMA RepeatsStep ==
  ASSUME Scenarios \subseteq {"stream"}, Typed, Ends, Dialogue, NothingUnread, SavedPoint,
         RepeatsAreKills, [Next]_vars
  PROVE  RepeatsAreKills'
<1>t. /\ session \in [state : {"absent", "ok", "torn"}, lastSeq : 0..Total]
      /\ last \in 0..Total /\ upc \in UiPoints /\ kills \in Nat
      /\ toUi \in Seq(Frames) /\ shown \in Seq(Prints)
  BY DEF Typed, UiTyped, PipeTyped
<1>c. Cardinality(Repeated) \in Nat
  <2>1. Repeated \subseteq 1..Len(shown) /\ IsFiniteSet(1..Len(shown))
    BY <1>t, FS_Interval DEF Repeated
  <2> QED
    BY <2>1, FS_Subset, FS_CardinalityType
<1>k. ASSUME shown' = shown, kills' >= kills, kills' \in Nat,
             Lost' \/ (Point' = Point /\ ~Lost),
             upc \in {"save", "saving"} /\ upc' \notin {"save", "saving"} /\ ~Lost' =>
               kills' = kills + 1
      PROVE  RepeatsAreKills'
  <2>1. Repeated' = Repeated /\ (Point' = Point => (Due' <=> Due))
    BY <1>k DEF Repeated, Due
  <2> QED
    BY <1>k, <1>c, <1>t, <2>1 DEF RepeatsAreKills
<1>s. UNCHANGED <<upc, ack, last, session>> => Lost' = Lost /\ Point' = Point
  BY DEF Lost, Point, Saving
<1> USE <1>t DEF uiVars, diskVars, counters
<1>1. CASE JobPush \/ BrokerStart \/ BrokerStep \/ ServeError \/ BrokerCrash \/ UNCHANGED vars
  <2>1. UNCHANGED <<upc, ack, last, session, shown, kills>>
    BY <1>1 DEF JobPush, BrokerStart, BrokerStep, BrokerListen, BrokerAccept, OnHello,
              OnApplyPlan, OnJobResume, OnShutdown, ClientCloses, EventsAfter, WriteEvent,
              BatchWritten, ServeError, BrokerCrash, vars
  <2> QED
    BY <2>1, <1>s, <1>k
<1>2. CASE (\E s \in Scenarios : UiLaunch(s)) \/ UiConnect \/ UiSayHello \/ UiBrokerGone
  <2>1. /\ UNCHANGED <<session, shown, kills>>
        /\ upc \notin {"save_ack", "saving", "save"} /\ upc' \notin {"save_ack", "saving"}
    BY <1>2 DEF UiLaunch, UiConnect, UiSayHello, UiBrokerGone, UiLeaves
  <2>2. Lost' = Lost /\ Point' = Point
    BY <2>1 DEF Lost, Point, Saving
  <2> QED
    BY <2>1, <2>2, <1>k
<1>7. CASE UiCommand \/ UiAck
  <2>1. /\ UNCHANGED <<session, shown, kills>>
        /\ upc \notin {"save_ack", "saving", "save"} /\ upc' \notin {"save_ack", "saving"}
    BY <1>7 DEF UiCommand, UiAck, UiLeaves
  <2>2. Lost' = Lost /\ Point' = Point
    BY <2>1 DEF Lost, Point, Saving
  <2> QED
    BY <2>1, <2>2, <1>k
<1>8. CASE UiSavedAck
  <2>1. /\ upc = "save_ack" /\ upc' = "command" /\ UNCHANGED <<shown, kills, ack>>
        /\ session' = [state |-> "ok", lastSeq |-> ack.from]
    BY <1>8 DEF UiSavedAck, Saves
  <2>2. ~Lost /\ Point' = Point
    BY <2>1 DEF Lost, Point, Saving
  <2> QED
    BY <2>1, <2>2, <1>k
<1>9. CASE UiTruncate
  <2>1. upc = "save" /\ upc' = "saving" /\ UNCHANGED <<shown, kills, last>>
    BY <1>9 DEF UiTruncate
  <2>2. ~Lost /\ Point = session.lastSeq /\ Point' = last - 1
    BY <2>1 DEF SavedPoint, Point, Lost, Saving
  <2>3. Point' = Point
    BY <2>1, <2>2 DEF SavedPoint
  <2> QED
    BY <2>1, <2>2, <2>3, <1>k
<1>3. CASE UiKill
  <2>1. upc' = "off" /\ UNCHANGED <<shown, session>> /\ kills' = kills + 1
    BY <1>3 DEF UiKill, UiLeaves
  <2>2. Lost' \/ (Point' = Point /\ ~Lost)
    BY <2>1 DEF SavedPoint, Lost, Point, Saving
  <2> QED
    BY <2>1, <2>2, <1>k
<1>4. CASE UiHelloAck
  <2>1. /\ upc = "hello" /\ toUi # <<>> /\ upc' = "save_ack" /\ ack'.from = Head(toUi).n
        /\ UNCHANGED <<shown, kills>>
    BY <1>4 DEF UiHelloAck, Reads
  <2>2. uiEnd = "open"
    BY <2>1 DEF NothingUnread, Ends, Typed, PipeTyped
  <2>3. Head(toUi) = toUi[1] /\ toUi[1].n = session.lastSeq
    BY <2>1, <2>2, Consumed DEF Dialogue, HelloPhase, SavedPoint
  <2>4. ~Lost /\ Point' = Point
    BY <2>1, <2>3, SavedWhereRead DEF Point
  <2> QED
    BY <2>1, <2>4, <1>k
<1>5. CASE UiShow
  <2>1. /\ upc = "receive" /\ upc' = "save" /\ toUi # <<>> /\ Head(toUi).type = "Event"
        /\ UNCHANGED <<session, kills>>
        /\ shown' = Append(shown, [life |-> Head(toUi).life, seq |-> Head(toUi).n])
    BY <1>5 DEF UiShow, Reads
  <2>2. Head(toUi) \in Frames
    BY <2>1, Consumed
  <2>3. uiEnd = "open"
    BY <2>1 DEF NothingUnread, Ends, Typed, PipeTyped
  <2>4. ~Lost /\ Head(toUi).n = Point + 1
    <3>1. Head(toUi).n = last + 1 /\ last = session.lastSeq
      BY <2>1, <2>3, EventsConsumed DEF Dialogue, JobPhase, SavedPoint
    <3> QED
      BY <2>1, <3>1, SavedWhereRead
  <2>5. [life |-> Head(toUi).life, seq |-> Head(toUi).n] \in Prints
    BY <2>1, <2>2 DEF Frames, Prints
  <2>6. /\ Cardinality(Repeated') \in Nat
        /\ Cardinality(Repeated') <= Cardinality(Repeated) + 1
        /\ ~Due => Cardinality(Repeated') = Cardinality(Repeated)
    BY <2>1, <2>4, <2>5, RepeatedAfterShow DEF Due
  <2> QED
    BY <2>1, <2>4, <2>6, <1>c DEF RepeatsAreKills
<1>6. CASE UiSave
  <2>1. /\ upc = "saving" /\ upc' \in {"off", "receive"} /\ UNCHANGED <<shown, kills, last>>
        /\ session' = [state |-> "ok", lastSeq |-> last]
    BY <1>6 DEF UiSave, Saves, UiLeaves
  <2>2. ~Lost /\ Point = last - 1 /\ Point' = last
    BY <2>1 DEF Lost, Point, Saving
  <2>3. ~Due'
    <3>1. \A i \in 1..Len(shown) : shown[i].seq <= last - 1 + 1
      BY <2>2 DEF SavedPoint
    <3>2. \A i \in 1..Len(shown) : shown[i] \in Prints
      OBVIOUS
    <3>3. \A i \in 1..Len(shown) : shown[i].seq \in Nat /\ shown[i].seq # last + 1
      BY <3>1, <3>2 DEF Prints
    <3> QED
      BY <2>1, <2>2, <3>3 DEF Due
  <2>4. Repeated' = Repeated
    BY <2>1 DEF Repeated
  <2> QED
    BY <2>1, <2>3, <2>4 DEF RepeatsAreKills
<1> QED
  BY <1>1, <1>2, <1>3, <1>4, <1>5, <1>6, <1>7, <1>8, <1>9 DEF Next, UiStep

(* An event is printed twice only for a kill that fell between printing it  *)
(* and the truncation that begins its save: where no client resets the      *)
(* position and the broker is not killed, there are no more repeats than    *)
(* kills, although a kill in the middle of Save tears the file, and however *)
(* often an accept fails and the broker starts again (Program.cs, RunJob;   *)
(* Session.cs, Save).                                                       *)
THEOREM RepeatsAreCounted ==
  ASSUME Scenarios \subseteq {"stream"}, MaxCrashes = 0
  PROVE  Spec => []OneRepeatPerKill
<1>1. RepeatInv /\ [Next]_vars => RepeatInv'
  BY TypedStep, EndsStep, DialogueStep, UnreadStep, SavedStep, RepeatsStep DEF RepeatInv
<1>2. Init => RepeatInv
  BY TypedInit, EndsInit, DialogueInit, SavedInit DEF RepeatInv
<1>3. RepeatInv => OneRepeatPerKill
  BY DEF RepeatInv, RepeatsAreKills, OneRepeatPerKill
<1> QED
  BY <1>1, <1>2, <1>3, PTL DEF Spec

-------------------------------------------------------------------------------
(* The session implements the safety of the protocol's promise.             *)

(* The highest number in a sequence of printed events.                      *)
TopOf(q) ==
  IF \E i \in 1..Len(q) : TRUE
  THEN CHOOSE m \in 1..Total : /\ \E i \in 1..Len(q) : q[i].seq = m
                               /\ \A i \in 1..Len(q) : q[i].seq <= m
  ELSE 0

(* What the broker sends is in the log.                                     *)
LogFrames == {f \in Frames : f.type = "Event" => f.n <= len}

WithinLog ==
  /\ toUi \in Seq(LogFrames)
  /\ bpc = "write" => batch <= len \/ batch <= cursor

HighestIsTop ==
  /\ Highest \in 0..Total
  /\ \A i \in 1..Len(shown) : shown[i].seq <= Highest
  /\ Highest = 0 \/ \E i \in 1..Len(shown) : shown[i].seq = Highest

StreamInv == NumbersInv /\ OneLife /\ WithinLog /\ HighestIsTop

LEMMA TopIsTop ==
  ASSUME NEW q \in Seq(Prints), NEW m \in 1..Total, \E i \in 1..Len(q) : q[i].seq = m,
         \A i \in 1..Len(q) : q[i].seq <= m
  PROVE  TopOf(q) = m
<1> DEFINE P(x) == /\ \E i \in 1..Len(q) : q[i].seq = x
                   /\ \A i \in 1..Len(q) : q[i].seq <= x
<1>1. P(m)
  OBVIOUS
<1>2. ASSUME NEW x \in 1..Total, P(x) PROVE x = m
  <2>1. x <= m /\ m <= x
    BY <1>2
  <2> QED
    BY <2>1, ScenarioAssumption
<1>3. (CHOOSE x \in 1..Total : P(x)) = m
  BY <1>1, <1>2
<1>4. \E i \in 1..Len(q) : TRUE
  OBVIOUS
<1> QED
  BY <1>3, <1>4 DEF TopOf

LEMMA LargerSet ==
  ASSUME NEW S, NEW T, S \subseteq T, NEW q \in Seq(S)
  PROVE  q \in Seq(T)
OBVIOUS

LEMMA StreamInit == Init => WithinLog /\ HighestIsTop
<1> SUFFICES ASSUME Init PROVE WithinLog /\ HighestIsTop
  OBVIOUS
<1>1. toUi \in Seq(LogFrames) /\ shown = <<>> /\ Len(shown) = 0 /\ bpc = "down"
  BY NoneQueued DEF Init
<1>2. Highest = 0
  BY <1>1 DEF Highest
<1> QED
  BY <1>1, <1>2, ScenarioAssumption DEF WithinLog, HighestIsTop

(* Outside the life of a job the log is empty, and within one it grows.     *)
LEMMA LogSteps ==
  ASSUME NothingEndsBroker, Typed, Ends, OneLife, [Next]_vars
  PROVE  /\ \/ PushStageEvent \/ PushJobComplete
            \/ UNCHANGED logVars
         /\ len' >= len
<1>t. len \in Nat /\ finished \in BOOLEAN
  BY DEF Typed, BrokerTyped, LogTypeOK
<1>1. CASE JobPush
  BY <1>1, <1>t DEF JobPush, PushStageEvent, PushJobComplete
<1>2. CASE BrokerStart
  <2>1. len = 0 /\ ~finished /\ len' = 0 /\ finished' = FALSE
    BY <1>2 DEF BrokerStart, OneLife, Ends, NewLog
  <2>2. finished' = finished
    BY <1>t, <2>1
  <2> QED
    BY <2>1, <2>2 DEF logVars
<1>3. CASE UNCHANGED logVars
  BY <1>3, <1>t DEF logVars
<1>4. CASE BrokerStep \/ ServeError \/ BrokerCrash
  <2>1. UNCHANGED logVars
    BY <1>4 DEF BrokerStep, BrokerListen, BrokerAccept, OnHello, OnApplyPlan, OnJobResume,
         OnShutdown, ClientCloses, EventsAfter, WriteEvent, BatchWritten, ServeError, BrokerCrash
  <2> QED
    BY <2>1, <1>3
<1>5. CASE (\E s \in Scenarios : UiLaunch(s)) \/ UiKill \/ UiStep
  <2>1. UNCHANGED logVars
    BY <1>5 DEF UiLaunch, UiKill, UiStep, UiConnect, UiSayHello, UiHelloAck, UiSavedAck, UiCommand,
         UiAck, UiShow, UiTruncate, UiSave, UiBrokerGone
  <2> QED
    BY <2>1, <1>3
<1>6. CASE UNCHANGED vars
  BY <1>6, <1>3 DEF vars
<1> QED
  BY <1>1, <1>2, <1>4, <1>5, <1>6 DEF Next

(* A batch is read from the log before it is written (main.rs, stream;      *)
(* job.rs, events_after).                                                   *)
LEMMA WithinLogStep ==
  ASSUME NothingEndsBroker, Typed, Ends, OneLife, WithinLog, [Next]_vars
  PROVE  WithinLog'
<1>t. /\ len \in Nat /\ len' \in Nat /\ batch \in Nat /\ cursor \in Nat /\ Total \in Nat
      /\ bpc \in BrokerPoints /\ len' >= len
  BY LogSteps, BrokerTypedStep, ScenarioAssumption DEF Typed, BrokerTyped, LogTypeOK
<1>1. toUi' \in Seq(LogFrames)'
  <2>1. toUi' \in Seq(LogFrames)
    <3>1. \A f \in Frames : toUi' = Append(toUi, f) => \E x \in LogFrames : toUi' = Append(toUi, x)
      <4> SUFFICES ASSUME NEW f \in Frames, toUi' = Append(toUi, f)
                   PROVE  f \in LogFrames
        OBVIOUS
      <4>1. f.type = "Event" => WriteEvent /\ f.n = cursor + 1
        BY FrameWritten
      <4>2. WriteEvent => cursor + 1 <= len
        BY <1>t DEF WriteEvent, WithinLog
      <4> QED
        BY <4>1, <4>2 DEF LogFrames
    <3> QED
      BY <3>1, QueueSteps, QueueTyped DEF WithinLog
  <2>2. LogFrames \subseteq LogFrames'
    BY <1>t DEF LogFrames, Frames
  <2> QED
    BY <2>1, <2>2, LargerSet
<1>2. ASSUME bpc' = "write" PROVE batch' <= len' \/ batch' <= cursor'
  <2> USE <1>t, <1>2 DEF WithinLog, brokerVars, logVars
  <2>1. CASE JobPush
    BY <2>1 DEF JobPush
  <2>2. CASE BrokerStart \/ BrokerListen \/ BrokerAccept \/ ClientCloses \/ ServeError \/ BrokerCrash
             \/ OnShutdown \/ BatchWritten
    BY <2>2 DEF BrokerStart, BrokerListen, BrokerAccept, ClientCloses, ServeError, BrokerCrash,
         OnShutdown, BatchWritten, Hangup, Exit
  <2>3. CASE OnHello \/ OnApplyPlan \/ OnJobResume
    BY <2>3 DEF OnHello, OnApplyPlan, OnJobResume, Receives, Answers, Hangup
  <2>4. CASE EventsAfter
    BY <2>4 DEF EventsAfter
  <2>5. CASE WriteEvent
    BY <2>5 DEF WriteEvent, Hangup
  <2>6. CASE (\E s \in Scenarios : UiLaunch(s)) \/ UiKill \/ UiStep
    BY <2>6 DEF UiLaunch, UiKill, UiStep, UiConnect, UiSayHello, UiHelloAck, UiSavedAck, UiCommand,
         UiAck, UiShow, UiTruncate, UiSave, UiBrokerGone
  <2>7. CASE UNCHANGED vars
    BY <2>7 DEF vars
  <2> QED
    BY <2>1, <2>2, <2>3, <2>4, <2>5, <2>6, <2>7 DEF Next, BrokerStep
<1> QED
  BY <1>1, <1>2 DEF WithinLog

(* Printing an event either repeats one or is the next one of the log.      *)
LEMMA HighestStep ==
  ASSUME StreamInv, [Next]_vars
  PROVE  /\ HighestIsTop'
         /\ \/ Highest' = Highest
            \/ shown' # shown /\ Highest' = Highest + 1 /\ Highest < len
<1>t. Typed /\ Positions /\ HighestIsTop /\ shown \in Seq(Prints) /\ len \in Nat /\ Total \in Nat
  BY ScenarioAssumption DEF StreamInv, NumbersInv, Typed, UiTyped, BrokerTyped, LogTypeOK
<1>1. CASE shown' = shown
  <2>1. Highest' = Highest
    BY <1>1 DEF Highest
  <2> QED
    BY <1>1, <1>t, <2>1 DEF HighestIsTop
<1>2. CASE /\ toUi # <<>> /\ Head(toUi).type = "Event"
           /\ shown' = Append(shown, [life |-> Head(toUi).life, seq |-> Head(toUi).n])
  <2> DEFINE r == [life |-> Head(toUi).life, seq |-> Head(toUi).n]
  <2>1. /\ Head(toUi) \in LogFrames /\ Head(toUi) = toUi[1] /\ Len(toUi) \in Nat /\ Len(toUi) >= 1
    BY <1>2, Consumed DEF StreamInv, WithinLog
  <2>2. r \in Prints /\ r.seq = Head(toUi).n /\ r.seq <= len
    BY <1>2, <2>1 DEF LogFrames, Frames, Prints
  <2>3. r.seq - 1 \in Past
    BY <1>2, <1>t, <2>1, <2>2 DEF Positions, Coming
  <2>0. shown' = Append(shown, r)
    BY <1>2
  <2> HIDE DEF r
  <2>4. r.seq <= Highest + 1 /\ r.seq \in 1..Total
    <3>1. Highest \in Nat /\ r.seq \in 1..Total /\ \A i \in 1..Len(shown) : shown[i].seq <= Highest
      BY <1>t, <2>2 DEF HighestIsTop, Prints
    <3>2. CASE r.seq - 1 = 0
      BY <3>1, <3>2
    <3>3. ASSUME NEW i \in 1..Len(shown), r.seq - 1 = shown[i].seq PROVE r.seq <= Highest + 1
      BY <3>1, <3>3
    <3> QED
      BY <2>3, <3>1, <3>2, <3>3 DEF Past
  <2>h. Highest \in 0..Total
    BY <1>t DEF HighestIsTop
  <2>5. PICK m \in 1..Total : \/ m = Highest /\ r.seq <= m
                              \/ m = Highest + 1 /\ m = r.seq
    <3>1. CASE r.seq <= Highest
      BY <3>1, <1>t, <2>4, <2>h
    <3>2. CASE ~(r.seq <= Highest)
      BY <3>2, <1>t, <2>4, <2>h
    <3> QED
      BY <3>1, <3>2
  <2>6. /\ Len(shown) \in Nat /\ Len(shown') = Len(shown) + 1 /\ shown' \in Seq(Prints)
        /\ \A i \in 1..Len(shown) : shown'[i] = shown[i]
        /\ shown'[Len(shown) + 1] = r
    BY <2>0, <1>t, <2>2, Appended
  <2>7. \A i \in 1..Len(shown') : shown'[i].seq <= m
    <3> SUFFICES ASSUME NEW i \in 1..Len(shown') PROVE shown'[i].seq <= m
      OBVIOUS
    <3>1. CASE i \in 1..Len(shown)
      <4>1. shown'[i].seq <= Highest /\ shown'[i] \in Prints
        BY <3>1, <1>t, <2>6 DEF HighestIsTop
      <4> QED
        BY <4>1, <2>4, <2>5, <2>h DEF Prints
    <3>2. CASE i = Len(shown) + 1
      BY <3>2, <2>4, <2>5, <2>6
    <3> QED
      BY <3>1, <3>2, <2>6
  <2>8. \E i \in 1..Len(shown') : shown'[i].seq = m
    <3>1. CASE m = r.seq
      BY <3>1, <2>6
    <3>2. CASE m = Highest
      <4>1. PICK i \in 1..Len(shown) : shown[i].seq = Highest
        BY <3>2, <2>5, <1>t DEF HighestIsTop
      <4> QED
        BY <3>2, <4>1, <2>6
    <3> QED
      BY <3>1, <3>2, <2>5
  <2>9. Highest' = m
    <3>1. TopOf(shown') = m
      BY <2>5, <2>6, <2>7, <2>8, TopIsTop
    <3> QED
      BY <3>1 DEF Highest, TopOf
  <2>10. shown' # shown
    BY <2>6
  <2>11. HighestIsTop'
    BY <2>5, <2>7, <2>8, <2>9 DEF HighestIsTop
  <2>12. Highest' = Highest \/ (Highest' = Highest + 1 /\ Highest < len)
    BY <1>t, <2>2, <2>5, <2>9, <2>h
  <2> QED
    BY <2>10, <2>11, <2>12
<1> QED
  BY <1>1, <1>2, <1>t, ShownGrows

LEMMA StreamStep ==
  ASSUME NothingEndsBroker, StreamInv, [Next]_vars
  PROVE  StreamInv' /\ [Stream!Produce \/ Stream!Deliver]_(Stream!streamVars)
<1>1. StreamInv'
  BY TypedStep, EndsStep, PositionsStep, NumbersStep, OneLifeStep, WithinLogStep, HighestStep
  DEF StreamInv, NumbersInv
<1>2. CASE shown' = shown
  <2>1. Highest' = Highest
    BY <1>2, HighestStep
  <2> QED
    BY <1>1, <2>1, LogSteps
    DEF StreamInv, NumbersInv, Stream!Produce, Stream!PushStageEvent, Stream!PushJobComplete,
        Stream!streamVars, PushStageEvent, PushJobComplete, logVars
<1>3. CASE shown' # shown
  <2>1. UiShow
    <3>1. JobPush \/ BrokerStart \/ BrokerStep \/ ServeError \/ BrokerCrash => UNCHANGED shown
      BY DEF JobPush, BrokerStart, BrokerStep, BrokerListen, BrokerAccept, OnHello, OnApplyPlan,
           OnJobResume, OnShutdown, ClientCloses, EventsAfter, WriteEvent, BatchWritten, ServeError,
           BrokerCrash, diskVars
    <3>2. UiKill \/ UiConnect \/ UiSayHello \/ UiHelloAck \/ UiSavedAck \/ UiCommand \/ UiAck
          \/ UiTruncate \/ UiSave \/ UiBrokerGone \/ (\E s \in Scenarios : UiLaunch(s))
          => UNCHANGED shown
      BY DEF UiLaunch, UiKill, UiConnect, UiSayHello, UiHelloAck, UiSavedAck, UiCommand, UiAck,
           UiTruncate, UiSave, UiBrokerGone, diskVars
    <3>3. UNCHANGED vars => UNCHANGED shown
      BY DEF vars, diskVars
    <3> QED
      BY <1>3, <3>1, <3>2, <3>3 DEF Next, UiStep
  <2>2. UNCHANGED logVars
    BY <2>1 DEF UiShow
  <2> QED
    BY <1>1, <2>2, HighestStep DEF Stream!Deliver, Stream!streamVars, Stream!logVars, logVars
<1> QED
  BY <1>2, <1>3

(* What the user is shown is what the protocol promises: a log that grows   *)
(* one event at a time and a viewer that sees the next one, or one it has   *)
(* seen, and never one that the log does not hold (docs/08, Reconnection;   *)
(* main.rs, stream; Program.cs, RunJob).                                    *)
THEOREM SessionIsAStream ==
  ASSUME NothingEndsBroker
  PROVE  Spec => Stream!StreamSafety
<1>1. StreamInv /\ [Next]_vars => StreamInv' /\ [Stream!Produce \/ Stream!Deliver]_(Stream!streamVars)
  BY StreamStep
<1>2. Init => StreamInv
  BY TypedInit, EndsInit, PositionsInit, OneLifeInit, StreamInit DEF StreamInv, NumbersInv
<1>3. Init => Stream!EmptyLog /\ Highest = 0
  <2> SUFFICES ASSUME Init PROVE Stream!EmptyLog /\ Highest = 0
    OBVIOUS
  <2>1. shown = <<>> /\ Len(shown) = 0
    BY NoneQueued DEF Init
  <2>2. Highest = 0
    BY <2>1 DEF Highest
  <2> QED
    BY <2>2 DEF Init, EmptyLog, Stream!EmptyLog
<1> QED
  BY <1>1, <1>2, <1>3, PTL DEF Spec, Stream!StreamSafety
===============================================================================
