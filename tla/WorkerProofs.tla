---------------------------- MODULE WorkerProofs ----------------------------
(***************************************************************************)
(* Proofs about the run of a module (Worker) for any number of targets,    *)
(* threads, events, runs and signals: how its events are counted, what it  *)
(* reports, and the protocol between the parent and its sandboxes.         *)
(***************************************************************************)
EXTENDS Worker, FiniteSetTheorems, TLAPS

-----------------------------------------------------------------------------
(* Lines and events are what the pipes and the channel are declared to      *)
(* carry.                                                                   *)
LEMMA LineTypes ==
  /\ None \in Lines
  /\ NoEvent \in Events
  /\ \A k \in {"none", "Start", "Log", "Exit"} \cup Requests,
        r \in {"none", "Err", "Retry"} \cup ExitEvents :
       Line(k, r) \in Lines /\ \A j \in Jobs : Event(j, k, r) \in Events
  /\ \A l \in Lines : l.kind \in {"none", "Start", "Log", "Exit"} \cup Requests
                      /\ l.res \in {"none", "Err", "Retry"} \cup ExitEvents
BY WorkerAssumption DEF None, NoEvent, Line, Event, Lines, Events, Jobs

(* The jobs spawn still waits for.                                          *)
Pending == (1 .. submitted) \ Reported

(* There are finitely many of them, so they can be counted.                 *)
LEMMA PendingFinite ==
  ASSUME TypeOK
  PROVE  IsFiniteSet(Pending) /\ Cardinality(Pending) \in Nat
<1>1. submitted \in Int
  BY DEF TypeOK
<1>2. IsFiniteSet(1 .. submitted)
  BY <1>1, FS_Interval
<1>3. IsFiniteSet(Pending)
  BY <1>2, FS_Subset DEF Pending
<1> QED
  BY <1>3, FS_CardinalityType

-----------------------------------------------------------------------------
(* The strengthening of TypeOK that is inductive, in parts.                 *)

RegisterInv == alive => register \in 0 .. 1

Running == main \in {"submit", "select", "apply"}

FlowInv ==
  /\ main = "submit" => submitted < nargs
  /\ main \in {"select", "apply"} => submitted = nargs
  /\ \A j \in Jobs : j > submitted => pc[j] = "idle"
  /\ \A j \in Jobs : pc[j] \notin {"idle", "done"} => Running

ChanInv ==
  chan # NoEvent =>
    /\ chan.job \in 1 .. submitted
    /\ chan.line.kind = "Exit" <=> pc[chan.job] = "done"
    /\ Running

LineInv ==
  \A j \in Jobs : \A i \in 1 .. Len(stdout[j]) :
    stdout[j][i].kind = "Exit" => stdout[j][i].res \in {"Ok", "Err"}

CountInv == TypeOK /\ RegisterInv /\ FlowInv /\ ChanInv /\ LineInv /\ Accounting

(* At the prompt there is nothing to count.                                 *)
LEMMA CountInit == Init => CountInv
<1> SUFFICES ASSUME Init PROVE CountInv
  OBVIOUS
<1> USE WorkerAssumption
<1>1. TypeOK
  BY LineTypes DEF Init, TypeOK, Jobs, ExitEvents, JobStates, ChildStates
<1>2. RegisterInv /\ FlowInv /\ ChanInv /\ LineInv /\ Accounting
  BY DEF Init, RegisterInv, FlowInv, ChanInv, LineInv, Accounting, Jobs
<1> QED
  BY <1>1, <1>2 DEF CountInv

-----------------------------------------------------------------------------
(* What a step of a job's thread looks like to the others: the thread moves *)
(* on, puts at most one event on the channel, an Exit only at its end, and  *)
(* takes at most one line from its child.                                   *)
JobMove(j) ==
  /\ UNCHANGED <<mainVars, sigVars>>
  /\ pc[j] \notin {"idle", "done"} /\ pc'[j] # "idle"
  /\ \A i \in Jobs : i # j => pc'[i] = pc[i]
  /\ \/ pc'[j] # "done" /\ UNCHANGED chan
     \/ /\ chan = NoEvent
        /\ chan' # NoEvent /\ chan'.job = j
        /\ chan'.line.kind = "Exit" <=> pc'[j] = "done"
  /\ UNCHANGED stdout \/ (stdout[j] # <<>> /\ stdout' = [stdout EXCEPT ![j] = Tail(@)])

(* A step of a pool thread is of the shape JobMove describes, and keeps     *)
(* the types.                                                               *)
LEMMA JobTypes ==
  ASSUME TypeOK, LineInv, NEW j \in Jobs, JobStep(j)
  PROVE  TypeOK' /\ JobMove(j)
<1>1. CASE JobBegin(j)
  <2>1. pc' \in [Jobs -> JobStates]
    BY <1>1, LineTypes DEF JobBegin, TypeOK, JobStates
  <2>2. outcome' \in [Jobs -> ExitEvents]
    BY <1>1, LineTypes DEF JobBegin, TypeOK, ExitEvents
  <2>3. TypeOK'
    BY <1>1, <2>1, <2>2 DEF JobBegin, TypeOK, mainVars, sigVars, childVars, pipeVars
  <2>4. JobMove(j)
    BY <1>1 DEF JobBegin, JobMove, JobStates, TypeOK, pipeVars
  <2> QED
    BY <2>3, <2>4
<1>2. CASE SendStart(j)
  <2>1. pc' \in [Jobs -> JobStates]
    BY <1>2, LineTypes DEF SendStart, Send, TypeOK, JobStates
  <2>2. chan' \in Events
    BY <1>2, LineTypes DEF SendStart, Send, TypeOK
  <2>3. TypeOK'
    BY <1>2, <2>1, <2>2 DEF SendStart, Send, TypeOK, mainVars, sigVars, childVars, pipeVars
  <2>4. JobMove(j)
    BY <1>2 DEF SendStart, Send, JobMove, JobStates, TypeOK, pipeVars, Event, NoEvent, None, Line, Callbacks, Jobs
  <2> QED
    BY <2>3, <2>4
<1>3. CASE SetupFail(j)
  <2>1. pc' \in [Jobs -> JobStates]
    BY <1>3, LineTypes DEF SetupFail, Fail, TypeOK, JobStates
  <2>2. outcome' \in [Jobs -> ExitEvents]
    BY <1>3, LineTypes DEF SetupFail, Fail, TypeOK, ExitEvents
  <2>3. TypeOK'
    BY <1>3, <2>1, <2>2 DEF SetupFail, Fail, TypeOK, mainVars, sigVars, childVars, pipeVars
  <2>4. JobMove(j)
    BY <1>3 DEF SetupFail, Fail, JobMove, JobStates, TypeOK, pipeVars
  <2> QED
    BY <2>3, <2>4
<1>4. CASE Setup(j)
  <2>1. pc' \in [Jobs -> JobStates]
    BY <1>4, LineTypes DEF Setup, TypeOK, JobStates
  <2>2. child' \in [Jobs -> ChildStates]
    BY <1>4, LineTypes DEF Setup, TypeOK, ChildStates
  <2>3. TypeOK'
    BY <1>4, <2>1, <2>2 DEF Setup, TypeOK, mainVars, sigVars, childVars, pipeVars
  <2>4. JobMove(j)
    BY <1>4 DEF Setup, JobMove, JobStates, TypeOK, pipeVars
  <2> QED
    BY <2>3, <2>4
<1>5. CASE SendCommand(j)
  <2>1. pc' \in [Jobs -> JobStates]
    <3>1. pc' = [pc EXCEPT ![j] = "send_exit"] \/ pc' = [pc EXCEPT ![j] = "recv"]
      BY <1>5 DEF SendCommand, Fail
    <3> QED
      BY <3>1, LineTypes DEF TypeOK, JobStates
  <2>2. outcome' \in [Jobs -> ExitEvents]
    BY <1>5, LineTypes DEF SendCommand, Fail, TypeOK, ExitEvents
  <2>3. stdin' \in [Jobs -> Lines]
    <3>1. stdin' = stdin \/ stdin' = [stdin EXCEPT ![j] = Line("Start", "none")]
      BY <1>5 DEF SendCommand, Fail
    <3>2. Line("Start", "none") \in Lines
      BY LineTypes
    <3> QED
      BY <3>1, <3>2 DEF TypeOK
  <2>4. TypeOK'
    BY <1>5, <2>1, <2>2, <2>3 DEF SendCommand, Fail, TypeOK, mainVars, sigVars, childVars, pipeVars
  <2>5. JobMove(j)
    BY <1>5 DEF SendCommand, Fail, JobMove, JobStates, TypeOK, pipeVars
  <2> QED
    BY <2>4, <2>5
<1>6. CASE RecvChildLog(j)
  <2>1. pc' \in [Jobs -> JobStates]
    BY <1>6, LineTypes DEF RecvChildLog, Recv, TypeOK, JobStates
  <2>2. stdout' \in [Jobs -> Seq(Lines)]
    BY <1>6, LineTypes DEF RecvChildLog, Recv, TypeOK
  <2>3. TypeOK'
    BY <1>6, <2>1, <2>2 DEF RecvChildLog, Recv, TypeOK, mainVars, sigVars, childVars, pipeVars
  <2>4. JobMove(j)
    BY <1>6 DEF RecvChildLog, Recv, JobMove, JobStates, TypeOK, pipeVars
  <2> QED
    BY <2>3, <2>4
<1>7. CASE RecvChildRequest(j)
  <2>1. pc' \in [Jobs -> JobStates]
    BY <1>7, LineTypes DEF RecvChildRequest, Recv, TypeOK, JobStates
  <2>2. asked' \in [Jobs -> Callbacks \cup {"none"}]
    BY <1>7, LineTypes DEF RecvChildRequest, Recv, TypeOK
  <2>3. stdout' \in [Jobs -> Seq(Lines)]
    BY <1>7, LineTypes DEF RecvChildRequest, Recv, TypeOK
  <2>4. TypeOK'
    BY <1>7, <2>1, <2>2, <2>3 DEF RecvChildRequest, Recv, TypeOK, mainVars, sigVars, childVars, pipeVars
  <2>5. JobMove(j)
    BY <1>7 DEF RecvChildRequest, Recv, JobMove, JobStates, TypeOK, pipeVars
  <2> QED
    BY <2>4, <2>5
<1>8. CASE RecvChildStdio(j)
  <2>1. pc' \in [Jobs -> JobStates]
    BY <1>8, LineTypes DEF RecvChildStdio, Recv, TypeOK, JobStates, Requests
  <2>2. reply' \in [Jobs -> Lines]
    BY <1>8, LineTypes DEF RecvChildStdio, Recv, TypeOK, ExitEvents, Requests
  <2>3. stdout' \in [Jobs -> Seq(Lines)]
    BY <1>8, LineTypes DEF RecvChildStdio, Recv, TypeOK, Requests
  <2>4. TypeOK'
    BY <1>8, <2>1, <2>2, <2>3 DEF RecvChildStdio, Recv, TypeOK, mainVars, sigVars, childVars, pipeVars
  <2>5. JobMove(j)
    BY <1>8 DEF RecvChildStdio, Recv, JobMove, JobStates, TypeOK, pipeVars
  <2> QED
    BY <2>4, <2>5
<1>9. CASE RecvChildExit(j)
  <2>1. pc' \in [Jobs -> JobStates]
    BY <1>9, LineTypes DEF RecvChildExit, Recv, TypeOK, JobStates, LineInv
  <2>2. outcome' \in [Jobs -> ExitEvents]
    BY <1>9, LineTypes DEF RecvChildExit, Recv, TypeOK, ExitEvents, LineInv
  <2>3. stdout' \in [Jobs -> Seq(Lines)]
    BY <1>9, LineTypes DEF RecvChildExit, Recv, TypeOK, LineInv
  <2>4. TypeOK'
    BY <1>9, <2>1, <2>2, <2>3 DEF RecvChildExit, Recv, TypeOK, mainVars, sigVars, childVars, pipeVars
  <2>5. JobMove(j)
    BY <1>9 DEF RecvChildExit, Recv, JobMove, JobStates, TypeOK, pipeVars
  <2> QED
    BY <2>4, <2>5
<1>10. CASE RecvEof(j)
  <2>1. pc' \in [Jobs -> JobStates]
    BY <1>10, LineTypes DEF RecvEof, Eof, Fail, TypeOK, JobStates
  <2>2. outcome' \in [Jobs -> ExitEvents]
    BY <1>10, LineTypes DEF RecvEof, Eof, Fail, TypeOK, ExitEvents
  <2>3. TypeOK'
    BY <1>10, <2>1, <2>2 DEF RecvEof, Eof, Fail, TypeOK, mainVars, sigVars, childVars, pipeVars
  <2>4. JobMove(j)
    BY <1>10 DEF RecvEof, Eof, Fail, JobMove, JobStates, TypeOK, pipeVars
  <2> QED
    BY <2>3, <2>4
<1>11. CASE SendLog(j)
  <2>1. pc' \in [Jobs -> JobStates]
    BY <1>11, LineTypes DEF SendLog, Send, TypeOK, JobStates
  <2>2. chan' \in Events
    BY <1>11, LineTypes DEF SendLog, Send, TypeOK
  <2>3. TypeOK'
    BY <1>11, <2>1, <2>2 DEF SendLog, Send, TypeOK, mainVars, sigVars, childVars, pipeVars
  <2>4. JobMove(j)
    BY <1>11 DEF SendLog, Send, JobMove, JobStates, TypeOK, pipeVars, Event, NoEvent, None, Line, Callbacks, Jobs
  <2> QED
    BY <2>3, <2>4
<1>12. CASE SendErr(j)
  <2>1. pc' \in [Jobs -> JobStates]
    BY <1>12, LineTypes DEF SendErr, Send, TypeOK, JobStates
  <2>2. chan' \in Events
    BY <1>12, LineTypes DEF SendErr, Send, TypeOK
  <2>3. TypeOK'
    BY <1>12, <2>1, <2>2 DEF SendErr, Send, TypeOK, mainVars, sigVars, childVars, pipeVars
  <2>4. JobMove(j)
    BY <1>12 DEF SendErr, Send, JobMove, JobStates, TypeOK, pipeVars, Event, NoEvent, None, Line, Callbacks, Jobs
  <2> QED
    BY <2>3, <2>4
<1>13. CASE SendRequest(j)
  <2>1. pc' \in [Jobs -> JobStates]
    BY <1>13, LineTypes DEF SendRequest, Send, TypeOK, JobStates, Requests
  <2>2. chan' \in Events
    BY <1>13, LineTypes DEF SendRequest, Send, TypeOK, Requests
  <2>3. TypeOK'
    BY <1>13, <2>1, <2>2 DEF SendRequest, Send, TypeOK, mainVars, sigVars, childVars, pipeVars
  <2>4. JobMove(j)
    BY <1>13 DEF SendRequest, Send, JobMove, JobStates, TypeOK, pipeVars, Event, NoEvent, None, Line, Callbacks, Jobs
  <2> QED
    BY <2>3, <2>4
<1>14. CASE Forward(j)
  <2>1. pc' \in [Jobs -> JobStates]
    <3>1. pc' = [pc EXCEPT ![j] = "send_log"] \/ pc' = [pc EXCEPT ![j] = "recv"]
      BY <1>14 DEF Forward
    <3> QED
      BY <3>1 DEF TypeOK, JobStates
  <2>2. reply' \in [Jobs -> Lines]
    BY <1>14, LineTypes DEF Forward, TypeOK, ExitEvents
  <2>3. stdin' \in [Jobs -> Lines]
    BY <1>14, LineTypes DEF Forward, TypeOK
  <2>4. TypeOK'
    BY <1>14, <2>1, <2>2, <2>3 DEF Forward, TypeOK, mainVars, sigVars, childVars, pipeVars
  <2>5. JobMove(j)
    BY <1>14 DEF Forward, JobMove, JobStates, TypeOK, pipeVars
  <2> QED
    BY <2>4, <2>5
<1>15. CASE Wait(j)
  <2>1. pc' \in [Jobs -> JobStates]
    <3>1. pc' = [pc EXCEPT ![j] = "send_exit"]
      BY <1>15 DEF Wait, WaitFor, Fail
    <3> QED
      BY <3>1, LineTypes DEF TypeOK, JobStates
  <2>2. outcome' \in [Jobs -> ExitEvents]
    BY <1>15, LineTypes DEF Wait, WaitFor, Fail, TypeOK, ExitEvents
  <2>3. TypeOK'
    BY <1>15, <2>1, <2>2 DEF Wait, WaitFor, Fail, TypeOK, mainVars, sigVars, childVars, pipeVars
  <2>4. JobMove(j)
    BY <1>15 DEF Wait, WaitFor, Fail, JobMove, JobStates, TypeOK, pipeVars
  <2> QED
    BY <2>3, <2>4
<1>16. CASE SendExit(j)
  <2>1. pc' \in [Jobs -> JobStates]
    BY <1>16, LineTypes DEF SendExit, Send, TypeOK, JobStates
  <2>2. chan' \in Events
    BY <1>16, LineTypes DEF SendExit, Send, TypeOK
  <2>3. TypeOK'
    BY <1>16, <2>1, <2>2 DEF SendExit, Send, TypeOK, mainVars, sigVars, childVars, pipeVars
  <2>4. JobMove(j)
    BY <1>16 DEF SendExit, Send, JobMove, JobStates, TypeOK, pipeVars, Event, NoEvent, None, Line, Callbacks, Jobs
  <2> QED
    BY <2>3, <2>4
<1> QED
  BY <1>1, <1>2, <1>3, <1>4, <1>5, <1>6, <1>7, <1>8, <1>9, <1>10, <1>11, <1>12, <1>13, <1>14, <1>15, <1>16 DEF JobStep

(* What is left of a pipe after a read was in it before.                    *)
LEMMA TailElements ==
  ASSUME NEW S, NEW s \in Seq(S), s # <<>>, NEW n \in 1 .. Len(Tail(s))
  PROVE  n + 1 \in 1 .. Len(s) /\ Tail(s)[n] = s[n + 1]
<1>1. Len(s) \in Nat \ {0} /\ Len(Tail(s)) = Len(s) - 1
  OBVIOUS
<1> QED
  BY <1>1

(* Lines enter a pipe at its end and leave it at its head, so only what is  *)
(* written has to be looked at.                                             *)
LEMMA LinesMove ==
  ASSUME TypeOK, LineInv, NEW j \in Jobs,
         \/ UNCHANGED stdout
         \/ stdout[j] # <<>> /\ stdout' = [stdout EXCEPT ![j] = Tail(@)]
         \/ \E l \in Lines : /\ l.kind = "Exit" => l.res \in {"Ok", "Err"}
                             /\ stdout' = [stdout EXCEPT ![j] = Append(@, l)]
  PROVE  LineInv'
<1> SUFFICES ASSUME NEW i \in Jobs, NEW n \in 1 .. Len(stdout'[i]),
                    stdout'[i][n].kind = "Exit"
             PROVE  stdout'[i][n].res \in {"Ok", "Err"}
  BY DEF LineInv
<1>1. CASE UNCHANGED stdout
  BY <1>1 DEF LineInv
<1>2. CASE stdout[j] # <<>> /\ stdout' = [stdout EXCEPT ![j] = Tail(@)]
  <2>1. CASE i = j
    <3>1. stdout[j] \in Seq(Lines) /\ stdout'[j] = Tail(stdout[j])
      BY <1>2 DEF TypeOK
    <3>2. n \in 1 .. Len(Tail(stdout[j]))
      BY <2>1, <3>1
    <3>3. stdout[j] # <<>>
      BY <1>2
    <3>4. n + 1 \in 1 .. Len(stdout[j]) /\ Tail(stdout[j])[n] = stdout[j][n + 1]
      BY <3>1, <3>2, <3>3, TailElements, Zenon
    <3> QED
      BY <2>1, <3>1, <3>4 DEF LineInv
  <2>2. CASE i # j
    BY <1>2, <2>2 DEF LineInv, TypeOK
  <2> QED
    BY <2>1, <2>2
<1>3. ASSUME NEW l \in Lines, l.kind = "Exit" => l.res \in {"Ok", "Err"},
             stdout' = [stdout EXCEPT ![j] = Append(@, l)]
      PROVE  stdout'[i][n].res \in {"Ok", "Err"}
  <2>1. CASE i = j
    <3>1. stdout[j] \in Seq(Lines) /\ stdout'[j] = Append(stdout[j], l)
      BY <1>3 DEF TypeOK
    <3>2. \/ n \in 1 .. Len(stdout[j]) /\ stdout'[j][n] = stdout[j][n]
          \/ stdout'[j][n] = l
      BY <2>1, <3>1
    <3> QED
      BY <1>3, <2>1, <3>2 DEF LineInv
  <2>2. CASE i # j
    BY <1>3, <2>2 DEF LineInv, TypeOK
  <2> QED
    BY <2>1, <2>2
<1> QED
  BY <1>1, <1>2, <1>3

(* A pool thread is done exactly when its Exit event is on the channel.     *)
LEMMA JobCount ==
  ASSUME CountInv, NEW j \in Jobs, JobStep(j)
  PROVE  CountInv'
<1>1. TypeOK' /\ JobMove(j)
  BY JobTypes DEF CountInv
<1>2. RegisterInv'
  BY <1>1 DEF CountInv, JobMove, RegisterInv, sigVars
<1>3. FlowInv'
  BY <1>1 DEF CountInv, JobMove, FlowInv, Running, mainVars, Jobs
<1>4. j \in 1 .. submitted /\ Running
  BY <1>1, WorkerAssumption DEF CountInv, JobMove, FlowInv, Jobs, TypeOK
<1>5. ChanInv'
  <2>1. CASE UNCHANGED chan /\ pc'[j] # "done"
    <3>1. chan # NoEvent => chan.job \in Jobs
      BY WorkerAssumption DEF CountInv, TypeOK, Jobs, ChanInv
    <3> QED
      BY <1>1, <2>1, <3>1, SMTT(30) DEF CountInv, JobMove, ChanInv, Running, mainVars
  <2>2. CASE chan'.job = j /\ (chan'.line.kind = "Exit" <=> pc'[j] = "done")
    BY <1>1, <1>4, <2>2 DEF JobMove, ChanInv, Running, mainVars
  <2> QED
    BY <1>1, <2>1, <2>2 DEF JobMove
<1>6. LineInv'
  BY <1>1, LinesMove DEF CountInv, JobMove
<1>7. Pending' = Pending
  <2>1. Reported' = Reported
    <3> SUFFICES ASSUME NEW i \in 1 .. submitted
                 PROVE  i \in Reported' <=> i \in Reported
      BY <1>1 DEF JobMove, mainVars, Reported
    <3>1. i \in Jobs
      BY WorkerAssumption DEF CountInv, TypeOK, Jobs
    <3>2. CASE i = j
      BY <1>1, <3>1, <3>2 DEF JobMove, mainVars, Reported
    <3>3. CASE i # j
      BY <1>1, <3>1, <3>3 DEF JobMove, mainVars, Reported, NoEvent, None
    <3> QED
      BY <3>2, <3>3
  <2> QED
    BY <1>1, <2>1 DEF JobMove, mainVars, Pending
<1>8. Accounting'
  BY <1>1, <1>7 DEF CountInv, JobMove, Accounting, Pending, mainVars
<1> QED
  BY <1>1, <1>2, <1>3, <1>5, <1>6, <1>8 DEF CountInv

(* The child's process touches its own state and the pipes only.            *)
LEMMA ChildCount ==
  ASSUME CountInv, NEW j \in Jobs, ChildStep(j) \/ ChildCrash(j)
  PROVE  CountInv'
<1> USE DEF CountInv
<1>1. UNCHANGED <<mainVars, sigVars, jobVars, chan, reply>>
  BY DEF ChildStep, ChildStart, ChildLog, ChildRequest, RequestThen, ChildReply, ChildExit,
         ChildGone, ChildCrash
<1>2. child' \in [Jobs -> ChildStates]
  <2>1. child \in [Jobs -> ChildStates]
    BY DEF TypeOK
  <2>2. UNCHANGED child \/ \E c \in ChildStates : child' = [child EXCEPT ![j] = c]
    BY DEF ChildStates, ChildStep, ChildStart, ChildLog, ChildRequest, RequestThen, ChildReply,
           ChildExit, ChildGone, ChildCrash
  <2> QED
    BY <2>1, <2>2
<1>3. want' \in [Jobs -> Requests \cup {"none"}]
  <2>1. want \in [Jobs -> Requests \cup {"none"}]
    BY DEF TypeOK
  <2>2. UNCHANGED want \/ \E k \in Requests : want' = [want EXCEPT ![j] = k]
    BY DEF ChildStep, ChildStart, ChildLog, ChildRequest, RequestThen, ChildReply,
           ChildExit, ChildGone, ChildCrash
  <2> QED
    BY <2>1, <2>2
<1>11. ops' \in [Jobs -> Nat]
  <2>1. ops \in [Jobs -> Nat]
    BY DEF TypeOK
  <2>2. UNCHANGED ops \/ ops' = [ops EXCEPT ![j] = @ + 1]
    BY DEF ChildStep, ChildStart, ChildLog, ChildRequest, RequestThen, ChildReply,
           ChildExit, ChildGone, ChildCrash
  <2> QED
    BY <2>1, <2>2
<1>4. stdin' \in [Jobs -> Lines]
  BY LineTypes DEF TypeOK, ChildStep, ChildStart, ChildLog, ChildRequest, RequestThen,
         ChildReply, ChildExit, ChildGone, ChildCrash, pipeVars
<1>5. \/ UNCHANGED stdout
      \/ \E l \in Lines : /\ l.kind = "Exit" => l.res \in {"Ok", "Err"}
                          /\ stdout' = [stdout EXCEPT ![j] = Append(@, l)]
  <2>1. CASE ChildLog(j)
    <3>1. Line("Log", "none") \in Lines /\ Line("Log", "none").kind # "Exit"
      BY LineTypes DEF Line
    <3> QED
      BY <2>1, <3>1 DEF ChildLog, Write
  <2>2. ASSUME NEW k \in Requests, ChildRequest(j, k)
        PROVE  \E l \in Lines : /\ l.kind = "Exit" => l.res \in {"Ok", "Err"}
                                /\ stdout' = [stdout EXCEPT ![j] = Append(@, l)]
    <3>1. Line(k, "none") \in Lines /\ Line(k, "none").kind # "Exit"
      BY LineTypes DEF Line, Requests, Callbacks
    <3> QED
      BY <2>2, <3>1 DEF ChildRequest, RequestThen, Write
  <2>3. CASE ChildExit(j)
    <3>1. PICK r \in {"Ok", "Err"} : Write(j, Line("Exit", r))
      BY <2>3 DEF ChildExit
    <3>2. Line("Exit", r) \in Lines /\ Line("Exit", r).res \in {"Ok", "Err"}
      BY LineTypes DEF Line, ExitEvents
    <3> QED
      BY <3>1, <3>2 DEF Write
  <2>4. CASE ChildStart(j) \/ ChildReply(j) \/ ChildGone(j) \/ ChildCrash(j)
    BY <2>4 DEF ChildStart, ChildReply, ChildGone, ChildCrash, pipeVars
  <2> QED
    BY <2>1, <2>2, <2>3, <2>4 DEF ChildStep
<1>6. stdout' \in [Jobs -> Seq(Lines)]
  <2>1. CASE UNCHANGED stdout
    BY <2>1 DEF TypeOK
  <2>2. ASSUME NEW l \in Lines, stdout' = [stdout EXCEPT ![j] = Append(@, l)]
        PROVE  stdout' \in [Jobs -> Seq(Lines)]
    <3>1. Append(stdout[j], l) \in Seq(Lines)
      BY DEF TypeOK
    <3> QED
      BY <2>2, <3>1 DEF TypeOK
  <2> QED
    BY <1>5, <2>1, <2>2
<1>7. TypeOK'
  BY <1>1, <1>2, <1>3, <1>4, <1>6, <1>11 DEF TypeOK, mainVars, sigVars, jobVars
<1>8. LineInv'
  BY <1>5, LinesMove
<1>9. RegisterInv' /\ FlowInv' /\ ChanInv'
  BY <1>1 DEF RegisterInv, FlowInv, ChanInv, Running, mainVars, sigVars, jobVars
<1>10. Accounting'
  BY <1>1 DEF Accounting, Reported, mainVars, jobVars
<1> QED
  BY <1>7, <1>8, <1>9, <1>10

(* Ctrl-c and its handler.                                                  *)
LEMMA SignalCount ==
  ASSUME CountInv, alive, CtrlC \/ Handle
  PROVE  CountInv'
<1> USE DEF CountInv
<1>1. UNCHANGED <<mainVars, jobVars, pipeVars, chan, reply, want, ops>>
  BY DEF CtrlC, Handle, childVars
<1>2. child' \in [Jobs -> ChildStates]
  BY DEF CtrlC, Handle, childVars, TypeOK, ChildStates
<1>3. sigs' \in Nat /\ signals' \in Nat
  <2>1. CASE CtrlC
    BY <2>1 DEF CtrlC, TypeOK
  <2>2. CASE Handle
    BY <2>2 DEF Handle, TypeOK
  <2> QED
    BY <2>1, <2>2
<1>4. alive' \in BOOLEAN /\ register' \in 0 .. 2 /\ (alive' => register' \in 0 .. 1)
  <2>1. CASE CtrlC
    BY <2>1 DEF CtrlC, TypeOK, RegisterInv
  <2>2. CASE Handle
    <3>1. register \in 0 .. 1 /\ register' = register + 1
      BY <2>2 DEF Handle, RegisterInv
    <3>2. alive' = (register # 1)
      BY <2>2 DEF Handle
    <3>3. CASE register = 1
      <4>1. alive' = FALSE
        BY <3>2, <3>3
      <4>2. register' \in 0 .. 2
        BY <3>1, <3>3
      <4> QED
        BY <4>1, <4>2, Zenon
    <3>4. CASE register = 0
      BY <3>1, <3>2, <3>4
    <3> QED
      BY <3>1, <3>3, <3>4
  <2> QED
    BY <2>1, <2>2
<1>5. TypeOK'
  BY <1>1, <1>2, <1>3, <1>4 DEF TypeOK, mainVars, jobVars, pipeVars
<1>6. RegisterInv'
  BY <1>4 DEF RegisterInv
<1>7. FlowInv' /\ ChanInv' /\ LineInv'
  BY <1>1 DEF FlowInv, ChanInv, LineInv, Running, mainVars, jobVars, pipeVars
<1>8. Accounting'
  BY <1>1 DEF Accounting, Reported, mainVars, jobVars
<1> QED
  BY <1>5, <1>6, <1>7, <1>8

(* A new run starts from an empty channel and idle jobs.                    *)
LEMMA ExecuteCount ==
  ASSUME CountInv, NEW n \in 0 .. MaxArgs, Execute(n)
  PROVE  CountInv'
<1> USE WorkerAssumption DEF CountInv
<1>1. TypeOK'
  BY LineTypes DEF Execute, TypeOK, Jobs, ExitEvents, JobStates, ChildStates
<1>2. RegisterInv' /\ FlowInv' /\ ChanInv' /\ LineInv'
  BY DEF Execute, RegisterInv, FlowInv, ChanInv, LineInv, Running, Jobs, TypeOK
<1>3. (1 .. submitted)' = {}
  BY DEF Execute
<1>4. Accounting'
  BY <1>3, FS_EmptySet DEF Execute, Accounting
<1> QED
  BY <1>1, <1>2, <1>4

(* A job that is submitted is one more to wait for.                         *)
LEMMA SubmitCount ==
  ASSUME CountInv, Submit
  PROVE  CountInv'
<1> USE WorkerAssumption DEF CountInv
<1>1. submitted + 1 \in Jobs /\ submitted + 1 <= nargs
  BY DEF Submit, SubmitJob, FlowInv, TypeOK, Jobs
<1>2. TypeOK'
  <2>1. pc' \in [Jobs -> JobStates]
    BY <1>1 DEF Submit, SubmitJob, TypeOK, JobStates
  <2>2. expected' \in Nat /\ submitted' \in 0 .. MaxArgs /\ main' \in {"select", "submit"}
    BY <1>1 DEF Submit, SubmitJob, TypeOK, Jobs
  <2> QED
    BY <2>1, <2>2 DEF Submit, SubmitJob, TypeOK, sigVars, childVars, pipeVars
<1>3. RegisterInv' /\ LineInv'
  BY DEF Submit, SubmitJob, RegisterInv, LineInv, sigVars, pipeVars
<1>4. FlowInv'
  BY <1>1, SMTT(30) DEF Submit, SubmitJob, FlowInv, Running, Jobs, TypeOK, JobStates
<1>5. ChanInv'
  <2> SUFFICES ASSUME chan # NoEvent
               PROVE  ChanInv'
    BY DEF Submit, SubmitJob, ChanInv
  <2>1. chan.job \in 1 .. submitted /\ submitted \in Nat
    BY DEF ChanInv, TypeOK
  <2>2. chan.job \in 1 .. submitted'
    BY <2>1 DEF Submit, SubmitJob
  <2>3. pc'[chan.job] = pc[chan.job]
    BY <2>1 DEF Submit, SubmitJob, TypeOK
  <2>4. Running' /\ chan' = chan
    BY DEF Submit, SubmitJob, Running
  <2> QED
    BY <2>2, <2>3, <2>4 DEF ChanInv
<1>6. Pending' = Pending \cup {submitted + 1} /\ submitted + 1 \notin Pending
  <2>1. submitted \in Nat /\ submitted' = submitted + 1 /\ chan' = chan
    BY DEF Submit, SubmitJob, TypeOK
  <2>2. pc'[submitted + 1] = "queued" /\ \A i \in 1 .. submitted : pc'[i] = pc[i]
    BY <1>1, <2>1 DEF Submit, SubmitJob, TypeOK, Jobs
  <2>3. Reported' = Reported
    BY <2>1, <2>2 DEF Reported
  <2>4. 1 .. submitted' = (1 .. submitted) \cup {submitted + 1} /\ submitted + 1 \notin 1 .. submitted
    BY <2>1
  <2> QED
    BY <2>3, <2>4 DEF Pending, Reported
<1>7. Cardinality(Pending') = Cardinality(Pending) + 1
  BY <1>6, PendingFinite, FS_AddElement
<1>8. Accounting'
  BY <1>7 DEF Submit, SubmitJob, Accounting, Pending
<1> QED
  BY <1>2, <1>3, <1>4, <1>5, <1>8

(* An Exit event that is taken is one job less to wait for.                 *)
LEMMA ExitCount ==
  ASSUME CountInv, RecvExit
  PROVE  CountInv'
<1> USE WorkerAssumption DEF CountInv
<1>1. chan # NoEvent /\ chan.job \in Pending /\ chan.job \in Jobs /\ pc[chan.job] = "done"
  BY DEF RecvExit, TakeExit, NoEvent, None, ChanInv, Pending, Reported, TypeOK, Jobs
<1>2. expected = Cardinality(Pending)
  BY DEF RecvExit, TakeExit, Accounting, Pending
<1>3. Pending' = Pending \ {chan.job}
  BY <1>1 DEF RecvExit, TakeExit, Pending, Reported, NoEvent, None, jobVars
<1>4. Cardinality(Pending') = expected - 1 /\ expected - 1 \in Nat
  <2>1. IsFiniteSet(Pending \ {chan.job})
        /\ Cardinality(Pending \ {chan.job}) = Cardinality(Pending) - 1
    BY <1>1, PendingFinite, FS_RemoveElement
  <2> QED
    BY <1>2, <1>3, <2>1, FS_CardinalityType
<1>5. TypeOK'
  <2>1. failed' \subseteq Jobs /\ stack' \subseteq Jobs /\ errors' \in Nat
    BY <1>1 DEF RecvExit, TakeExit, TypeOK
  <2>2. chan' \in Events /\ main' \in {"select", "returned"}
    BY LineTypes DEF RecvExit, TakeExit
  <2> QED
    BY <1>4, <2>1, <2>2 DEF RecvExit, TakeExit, TypeOK, sigVars, jobVars, childVars, pipeVars
<1>6. RegisterInv' /\ ChanInv' /\ LineInv'
  BY DEF RecvExit, TakeExit, RegisterInv, ChanInv, LineInv, sigVars, pipeVars
<1>7. FlowInv'
  <2>1. UNCHANGED <<submitted, nargs, pc>> /\ main = "select"
    BY DEF RecvExit, TakeExit, jobVars
  <2>2. CASE expected - 1 = 0
    <3>1. Pending' = {}
      <4>1. IsFiniteSet(Pending')
        BY <1>1, <1>3, PendingFinite, FS_RemoveElement
      <4> QED
        BY <1>4, <2>2, <4>1, FS_EmptySet
    <3>2. \A j \in 1 .. submitted : j \in Reported'
      BY <2>1, <3>1 DEF Pending
    <3>3. \A j \in 1 .. submitted : pc'[j] = "done"
      BY <3>2 DEF Reported
    <3>4. \A j \in Jobs : pc'[j] \in {"idle", "done"}
      BY <2>1, <3>3 DEF FlowInv, Jobs, TypeOK
    <3> QED
      BY <2>1, <2>2, <3>4 DEF RecvExit, TakeExit, FlowInv
  <2>3. CASE expected - 1 # 0
    BY <2>1, <2>3 DEF RecvExit, TakeExit, FlowInv, Running
  <2> QED
    BY <2>2, <2>3
<1>8. Accounting'
  BY <1>4 DEF RecvExit, TakeExit, Accounting, Pending
<1> QED
  BY <1>5, <1>6, <1>7, <1>8

(* The other steps of the main thread: they leave the jobs alone.           *)
LEMMA MainCount ==
  ASSUME CountInv, RecvStart \/ RecvLog \/ RecvRequest \/ Serve \/ Finish
  PROVE  CountInv'
<1> USE WorkerAssumption DEF CountInv
<1>1. UNCHANGED <<alive, nargs, submitted, expected, errors, failed, runs, sigs, signals,
                  jobVars, childVars, pipeVars>>
  BY DEF RecvStart, RecvLog, RecvRequest, Serve, ServeKinds, Finish, mainVars, sigVars
<1>2. chan' = chan \/ chan' = NoEvent
  BY DEF RecvStart, RecvLog, RecvRequest, Serve, ServeKinds, Finish
<1>3. \/ Running /\ Running' /\ (main = "submit" <=> main' = "submit")
      \/ ~Running /\ ~Running'
  BY DEF RecvStart, RecvLog, RecvRequest, Serve, ServeKinds, Finish, Running, mainVars
<1>4. TypeOK'
  <2>1. main' \in {"prompt", "submit", "select", "apply", "returned"} /\ register' \in 0 .. 2
    BY DEF RecvStart, RecvLog, RecvRequest, Serve, ServeKinds, Finish, TypeOK, mainVars, sigVars
  <2>2. chan' \in Events /\ serving' \in Events
    BY <1>2, LineTypes DEF RecvStart, RecvLog, RecvRequest, Serve, ServeKinds, Finish, TypeOK,
         mainVars
  <2>3. stack' \subseteq Jobs
    <3>1. CASE RecvStart
      <4>1. chan # NoEvent
        BY <3>1 DEF RecvStart, NoEvent, None
      <4>2. chan.job \in Jobs
        BY <4>1 DEF ChanInv, TypeOK, Jobs
      <4> QED
        BY <3>1, <4>2 DEF RecvStart, TypeOK
    <3>2. CASE RecvLog \/ RecvRequest \/ Serve \/ Finish
      BY <3>2 DEF RecvLog, RecvRequest, Serve, ServeKinds, Finish, mainVars, TypeOK
    <3> QED
      BY <3>1, <3>2
  <2>4. reply' \in [Jobs -> Lines]
    <3>1. CASE Serve
      <4>1. PICK l \in Lines : reply' = reply \/ reply' = [reply EXCEPT ![serving.job] = l]
        <5>1. serving.line.kind \in {"none", "Start", "Log", "Exit"} \cup Requests
          BY LineTypes DEF TypeOK, Events
        <5>2. \A r \in {"Ok", "Err", "Retry"} : Line(serving.line.kind, r) \in Lines
          BY <5>1, LineTypes DEF ExitEvents
        <5> QED
          BY <3>1, <5>2, LineTypes DEF Serve, ServeKinds, Answers
      <4> QED
        BY <4>1 DEF TypeOK
    <3>2. CASE RecvStart \/ RecvLog \/ RecvRequest \/ Finish
      BY <3>2 DEF RecvStart, RecvLog, RecvRequest, Finish, TypeOK
    <3> QED
      BY <3>1, <3>2
  <2> QED
    BY <1>1, <2>1, <2>2, <2>3, <2>4 DEF TypeOK, jobVars, childVars, pipeVars
<1>5. RegisterInv' /\ LineInv'
  BY <1>1 DEF RecvStart, RecvLog, RecvRequest, Serve, ServeKinds, Finish, RegisterInv, LineInv,
              sigVars, pipeVars
<1>6. FlowInv'
  BY <1>1, <1>3 DEF FlowInv, Running, jobVars
<1>7. ChanInv'
  BY <1>1, <1>2, <1>3 DEF ChanInv, jobVars, RecvStart, RecvLog, RecvRequest, Serve, ServeKinds,
       Finish
<1>8. Accounting'
  <2>1. chan.line.kind = "Exit" => chan' = chan
    BY DEF RecvStart, RecvLog, RecvRequest, Serve, ServeKinds, Finish, Callbacks
  <2>2. Reported' = Reported
    BY <1>1, <1>2, <2>1 DEF Reported, jobVars, NoEvent, None
  <2> QED
    BY <1>1, <1>3, <2>2 DEF Accounting, Running
<1> QED
  BY <1>4, <1>5, <1>6, <1>7, <1>8

(* Every step keeps the counting invariant.                                 *)
LEMMA CountNext ==
  ASSUME CountInv, [Next]_vars
  PROVE  CountInv'
<1>1. CASE UNCHANGED vars
  BY <1>1 DEF CountInv, TypeOK, RegisterInv, FlowInv, ChanInv, LineInv, Accounting, Reported,
              Running, vars, mainVars, sigVars, jobVars, childVars, pipeVars
<1>2. CASE Next
  BY <1>1, <1>2, ExecuteCount, SubmitCount, ExitCount, MainCount, JobCount, ChildCount,
     SignalCount DEF Next, MainStep, Halt
<1> QED
  BY <1>1, <1>2

(* The counting invariant holds in every state of every run.                *)
LEMMA Counting == Spec => []CountInv
BY CountInit, CountNext, PTL DEF Spec

-----------------------------------------------------------------------------
(* Every variable of a run keeps its type, for any number of targets,       *)
(* threads, events, runs and signals: in particular spawn's countdown never *)
(* goes below zero and the register never past two signals.                 *)
THEOREM TypeCorrect == Spec => []TypeOK
BY Counting, PTL DEF CountInv

(* spawn's countdown is exact: it is the number of jobs whose Exit event    *)
(* has not been taken, so the loop ends with the last of them, no earlier   *)
(* and no later.                                                            *)
THEOREM AccountingHolds == Spec => []Accounting
BY Counting, PTL DEF CountInv

-----------------------------------------------------------------------------
(* The pipe from a sandbox: all lines but the last one are logs.            *)

LastKind(s) == IF s = <<>> THEN "empty" ELSE s[Len(s)].kind
LogsFirst(s) == \A i \in 1 .. Len(s) : i < Len(s) => s[i].kind = "Log"

(* Writing to a pipe that holds only logs.                                  *)
LEMMA AppendLast ==
  ASSUME NEW s \in Seq(Lines), NEW l \in Lines, LogsFirst(s), LastKind(s) \in {"empty", "Log"}
  PROVE  LogsFirst(Append(s, l)) /\ LastKind(Append(s, l)) = l.kind
<1> DEFINE t == Append(s, l)
<1>1. t \in Seq(Lines) /\ Len(t) = Len(s) + 1 /\ t[Len(s) + 1] = l /\ Len(s) \in Nat
      /\ \A i \in 1 .. Len(s) : t[i] = s[i]
  OBVIOUS
<1>2. t # <<>>
  BY <1>1
<1> HIDE DEF t
<1>3. LastKind(t) = l.kind
  BY <1>1, <1>2 DEF LastKind
<1>4. \A i \in 1 .. Len(s) : s[i].kind = "Log"
  <2> SUFFICES ASSUME NEW i \in 1 .. Len(s) PROVE s[i].kind = "Log"
    OBVIOUS
  <2>1. s # <<>>
    OBVIOUS
  <2>2. s[Len(s)].kind \in {"empty", "Log"} /\ s[Len(s)] \in Lines
    BY <2>1 DEF LastKind
  <2>3. s[Len(s)].kind = "Log"
    BY <2>2, LineTypes DEF Requests, Callbacks
  <2> QED
    BY <1>1, <2>3 DEF LogsFirst
<1>5. LogsFirst(t)
  BY <1>1, <1>4 DEF LogsFirst
<1> QED
  BY <1>3, <1>5 DEF t

(* Reading a log leaves the last line in the pipe unless it was the log;    *)
(* anything else that is read was the last line.                            *)
LEMMA TailLast ==
  ASSUME NEW s \in Seq(Lines), s # <<>>, LogsFirst(s)
  PROVE  /\ LogsFirst(Tail(s))
         /\ Head(s).kind = "Log" => LastKind(Tail(s)) = LastKind(s)
                                    \/ (LastKind(Tail(s)) = "empty" /\ LastKind(s) = "Log")
         /\ Head(s).kind # "Log" => LastKind(Tail(s)) = "empty" /\ LastKind(s) = Head(s).kind
<1> DEFINE t == Tail(s)
<1>1. Len(s) \in Nat \ {0} /\ Len(t) = Len(s) - 1 /\ Head(s) = s[1] /\ t \in Seq(Lines)
  OBVIOUS
<1>2. \A n \in 1 .. Len(t) : n + 1 \in 1 .. Len(s) /\ t[n] = s[n + 1]
  BY TailElements
<1>3. t = <<>> <=> Len(s) = 1
  BY <1>1
<1> HIDE DEF t
<1>4. LogsFirst(t)
  BY <1>1, <1>2 DEF LogsFirst
<1>5. CASE Len(s) = 1
  <2>1. LastKind(t) = "empty" /\ LastKind(s) = s[1].kind
    BY <1>3, <1>5 DEF LastKind
  <2> QED
    BY <1>1, <1>4, <2>1 DEF t
<1>6. CASE Len(s) # 1
  <2>1. t # <<>> /\ Len(t) \in 1 .. Len(t) /\ Len(t) + 1 = Len(s)
    BY <1>1, <1>3, <1>6
  <2>2. t[Len(t)] = s[Len(s)]
    BY <1>2, <2>1
  <2>3. LastKind(t) = LastKind(s)
    BY <2>1, <2>2 DEF LastKind
  <2>4. s[1].kind = "Log"
    BY <1>1, <1>6 DEF LogsFirst
  <2> QED
    BY <1>1, <1>4, <2>3, <2>4 DEF t
<1> QED
  BY <1>5, <1>6

-----------------------------------------------------------------------------
(* A job and its sandbox.                                                   *)

Reading == {"recv", "send_log", "send_request", "callback"}

(* Which states of the thread and of the child go together, and where the   *)
(* Exit line of a script that returned is.                                  *)
LifeInv(j) ==
  /\ LogsFirst(stdout[j])
  /\ LastKind(stdout[j]) \in {"empty", "Log", "Exit"} \cup Requests
  /\ LastKind(stdout[j]) = "Exit" => child[j] \in {"closing", "exited", "dead"}
  /\ child[j] = "none" => stdin[j] = None /\ LastKind(stdout[j]) = "empty"
  /\ pc[j] \in {"idle", "queued", "send_start", "setup"} => child[j] = "none"
  /\ child[j] = "none" =>
       pc[j] \in {"idle", "queued", "send_start", "setup", "send_exit", "done"}
  /\ pc[j] = "send_command" => child[j] \in {"boot", "dead"} /\ stdin[j] = None
  /\ pc[j] \in Reading /\ child[j] \in {"closing", "exited"} => LastKind(stdout[j]) = "Exit"
  /\ pc[j] \in {"send_err", "wait"} =>
       child[j] \in {"closing", "exited", "dead"} /\ outcome[j] \in {"Ok", "Err"}
  /\ pc[j] \in {"send_exit", "done"} =>
       \/ child[j] = "none" /\ (outcome[j] = "SetupFailed" \/ (outcome[j] = "Ok" /\ signals > 0))
       \/ child[j] = "exited" /\ outcome[j] \in {"Ok", "Err"}
       \/ child[j] = "dead" /\ outcome[j] = "SetupFailed"

(* Where the request or the reply of a job is: in the pipe from the child,  *)
(* read by the thread, on the channel, with the main thread, on the way     *)
(* back to the thread, in the pipe to the child.                            *)
ChanKind(j) == IF chan.job = j THEN chan.line.kind ELSE "none"
InStdout(j) == LastKind(stdout[j]) \in Requests
WithJob(j)  == pc[j] = "send_request"
InChan(j)   == ChanKind(j) \in Callbacks
WithMain(j) == serving.job = j
InReply(j)  == reply[j] # None
InStdin(j)  == stdin[j] # None

(* It is in one place at most, nowhere unless the script waits for it (or   *)
(* was killed meanwhile), and of the kind the script waits for.             *)
PlaceInv(j) ==
  /\ InStdout(j) => ~WithJob(j) /\ ~InChan(j) /\ ~WithMain(j) /\ ~InReply(j) /\ ~InStdin(j)
  /\ WithJob(j) => ~InChan(j) /\ ~WithMain(j) /\ ~InReply(j) /\ ~InStdin(j) /\ asked[j] \in Callbacks
  /\ InChan(j) => ~WithMain(j) /\ ~InReply(j) /\ ~InStdin(j) /\ pc[j] = "callback"
  /\ WithMain(j) => ~InReply(j) /\ ~InStdin(j) /\ pc[j] = "callback"
  /\ InReply(j) => ~InStdin(j) /\ pc[j] = "callback"
  /\ pc[j] = "callback" => InChan(j) \/ WithMain(j) \/ InReply(j)
  /\ child[j] \notin {"await", "dead"} =>
       ~InStdout(j) /\ ~WithJob(j) /\ ~InChan(j) /\ ~WithMain(j) /\ ~InReply(j)
  /\ child[j] \notin {"boot", "await", "dead"} => ~InStdin(j)
  /\ child[j] = "await" =>
       /\ InStdout(j) \/ WithJob(j) \/ InChan(j) \/ WithMain(j) \/ InReply(j) \/ InStdin(j)
       /\ InStdout(j) => LastKind(stdout[j]) = want[j]
       /\ WithJob(j) => asked[j] = want[j]
       /\ InChan(j) => ChanKind(j) = want[j]
       /\ WithMain(j) => serving.line.kind = want[j]
       /\ InReply(j) => reply[j].kind = want[j]
       /\ InStdin(j) => stdin[j].kind = want[j]

(* The main thread applies at most one request.                             *)
ServingInv ==
  /\ main # "apply" => serving = NoEvent
  /\ main = "apply" => serving.job \in Jobs /\ serving.line.kind \in Callbacks

(* The register leaves 0 by a signal.                                       *)
SignalInv == sigs <= signals /\ (Running /\ register # 0 => signals > 0)

(* What has been taken from the channel, and what has not.                  *)
ReportInv ==
  /\ stack \subseteq Pending
  /\ \A j \in 1 .. submitted : pc[j] # "idle"
  /\ main = "returned" => submitted = nargs
  /\ chan.line.kind = "Exit" => chan.line.res = outcome[chan.job]
  /\ ErrorsExact

PoolInv == Cardinality(Active) <= Threads

RunInv ==
  /\ CountInv /\ ServingInv /\ SignalInv /\ ReportInv /\ PoolInv
  /\ \A j \in Jobs : LifeInv(j) /\ PlaceInv(j)

-----------------------------------------------------------------------------
(* Steps of the pool thread.                                                *)

(* All that the invariant of a job reads, except for channel and requests.  *)
Same(i) ==
  /\ pc'[i] = pc[i] /\ outcome'[i] = outcome[i] /\ asked'[i] = asked[i]
  /\ child'[i] = child[i] /\ want'[i] = want[i] /\ reply'[i] = reply[i]
  /\ stdin'[i] = stdin[i] /\ stdout'[i] = stdout[i]

(* Nothing happens to a job.                                                *)
LEMMA SameKeeps ==
  ASSUME NEW i \in Jobs, LifeInv(i), PlaceInv(i), Same(i), signals > 0 => signals' > 0,
         ChanKind(i)' \in Callbacks \/ ChanKind(i) \in Callbacks => ChanKind(i)' = ChanKind(i),
         serving' = serving \/ (serving.job # i /\ serving'.job # i)
  PROVE  LifeInv(i)' /\ PlaceInv(i)'
<1>1. LifeInv(i)'
  BY DEF LifeInv, Same, Reading
<1>2. /\ InStdout(i)' <=> InStdout(i)
      /\ WithJob(i)' <=> WithJob(i)
      /\ InReply(i)' <=> InReply(i)
      /\ InStdin(i)' <=> InStdin(i)
  BY DEF Same, InStdout, WithJob, InReply, InStdin
<1>3. (InChan(i)' <=> InChan(i)) /\ (InChan(i) => ChanKind(i)' = ChanKind(i))
  BY DEF InChan
<1>4. (WithMain(i)' <=> WithMain(i)) /\ (WithMain(i) => serving' = serving)
  BY DEF WithMain
<1> HIDE DEF InStdout, WithJob, InChan, WithMain, InReply, InStdin, ChanKind
<1>5. PlaceInv(i)'
  BY <1>2, <1>3, <1>4 DEF PlaceInv, Same
<1> QED
  BY <1>1, <1>5

(* Starting a job, its child and the end of it: nothing is sent.            *)
LEMMA SilentSteps ==
  ASSUME RunInv, NEW j \in Jobs,
         JobBegin(j) \/ SetupFail(j) \/ Setup(j) \/ SendCommand(j) \/ RecvEof(j) \/ Wait(j)
  PROVE  LifeInv(j)' /\ PlaceInv(j)' /\ \A i \in Jobs : i # j => Same(i)
<1> USE DEF RunInv
<1>0. LifeInv(j) /\ PlaceInv(j) /\ TypeOK
  BY DEF CountInv
<1>a. UNCHANGED <<chan, signals, serving>>
  BY DEF JobBegin, SetupFail, Setup, SendCommand, RecvEof, Eof, Wait, WaitFor, mainVars, sigVars
<1>b. pc[j] = "queued" /\ register = 1 => signals > 0
  BY DEF SignalInv, CountInv, FlowInv
<1>1. CASE JobBegin(j)
  <2>1. /\ pc[j] = "queued"
        /\ \/ pc'[j] = "send_start"
           \/ pc'[j] = "send_exit" /\ outcome'[j] = "Ok" /\ register = 1
        /\ asked'[j] = asked[j] /\ child'[j] = child[j] /\ want'[j] = want[j]
        /\ reply'[j] = reply[j] /\ stdin'[j] = stdin[j] /\ stdout'[j] = stdout[j]
    BY <1>0, <1>1 DEF JobBegin, TypeOK, childVars, pipeVars
  <2>2. LifeInv(j)'
    BY <1>0, <1>a, <1>b, <2>1 DEF LifeInv, Reading
  <2>3. PlaceInv(j)'
    BY <1>0, <1>a, <2>1 DEF PlaceInv, InStdout, WithJob, InChan, WithMain, InReply, InStdin, ChanKind, LifeInv,
       Reading
  <2>4. \A i \in Jobs : i # j => Same(i)
    BY <1>0, <1>1 DEF JobBegin, TypeOK, childVars, pipeVars, Same
  <2> QED
    BY <2>2, <2>3, <2>4
<1>2. CASE SetupFail(j)
  <2>1. /\ pc[j] = "setup"
        /\ pc'[j] = "send_exit" /\ outcome'[j] = "SetupFailed"
        /\ asked'[j] = asked[j] /\ child'[j] = child[j] /\ want'[j] = want[j]
        /\ reply'[j] = reply[j] /\ stdin'[j] = stdin[j] /\ stdout'[j] = stdout[j]
    BY <1>0, <1>2 DEF SetupFail, Fail, TypeOK, childVars, pipeVars
  <2>2. LifeInv(j)'
    BY <1>0, <1>a, <1>b, <2>1 DEF LifeInv, Reading
  <2>3. PlaceInv(j)'
    BY <1>0, <1>a, <2>1 DEF PlaceInv, InStdout, WithJob, InChan, WithMain, InReply, InStdin, ChanKind, LifeInv,
       Reading
  <2>4. \A i \in Jobs : i # j => Same(i)
    BY <1>0, <1>2 DEF SetupFail, Fail, TypeOK, childVars, pipeVars, Same
  <2> QED
    BY <2>2, <2>3, <2>4
<1>3. CASE Setup(j)
  <2>1. /\ pc[j] = "setup"
        /\ pc'[j] = "send_command" /\ child'[j] = "boot"
        /\ outcome'[j] = outcome[j] /\ asked'[j] = asked[j] /\ want'[j] = want[j]
        /\ reply'[j] = reply[j] /\ stdin'[j] = stdin[j] /\ stdout'[j] = stdout[j]
    BY <1>0, <1>3 DEF Setup, TypeOK, childVars, pipeVars
  <2>2. LifeInv(j)'
    BY <1>0, <1>a, <1>b, <2>1 DEF LifeInv, Reading
  <2>3. PlaceInv(j)'
    BY <1>0, <1>a, <2>1 DEF PlaceInv, InStdout, WithJob, InChan, WithMain, InReply, InStdin, ChanKind, LifeInv,
       Reading
  <2>4. \A i \in Jobs : i # j => Same(i)
    BY <1>0, <1>3 DEF Setup, TypeOK, childVars, pipeVars, Same
  <2> QED
    BY <2>2, <2>3, <2>4
<1>4. CASE SendCommand(j)
  <2>1. /\ pc[j] = "send_command"
        /\ \/ /\ child[j] = "dead" /\ pc'[j] = "send_exit" /\ outcome'[j] = "SetupFailed"
              /\ stdin'[j] = stdin[j]
           \/ /\ child[j] # "dead" /\ pc'[j] = "recv" /\ outcome'[j] = outcome[j]
              /\ stdin'[j] = Line("Start", "none")
        /\ asked'[j] = asked[j] /\ child'[j] = child[j] /\ want'[j] = want[j]
        /\ reply'[j] = reply[j] /\ stdout'[j] = stdout[j]
    BY <1>0, <1>4 DEF SendCommand, Fail, TypeOK, childVars, pipeVars
  <2>2. LifeInv(j)'
    BY <1>0, <1>a, <1>b, <2>1 DEF LifeInv, Reading
  <2>3. PlaceInv(j)'
    BY <1>0, <1>a, <2>1 DEF PlaceInv, InStdout, WithJob, InChan, WithMain, InReply, InStdin, ChanKind, LifeInv,
       Reading, None, Line
  <2>4. \A i \in Jobs : i # j => Same(i)
    BY <1>0, <1>4 DEF SendCommand, Fail, TypeOK, childVars, pipeVars, Same
  <2> QED
    BY <2>2, <2>3, <2>4
<1>5. CASE RecvEof(j)
  <2>1. /\ pc[j] = "recv" /\ stdout[j] = <<>> /\ child[j] \in {"dead", "exited"}
        /\ pc'[j] = "send_exit" /\ outcome'[j] = "SetupFailed"
        /\ asked'[j] = asked[j] /\ child'[j] = child[j] /\ want'[j] = want[j]
        /\ reply'[j] = reply[j] /\ stdin'[j] = stdin[j] /\ stdout'[j] = stdout[j]
    BY <1>0, <1>5 DEF RecvEof, Eof, Fail, TypeOK, childVars, pipeVars
  <2>2. LifeInv(j)'
    BY <1>0, <1>a, <1>b, <2>1 DEF LifeInv, Reading, LastKind, Requests, Callbacks
  <2>3. PlaceInv(j)'
    BY <1>0, <1>a, <2>1 DEF PlaceInv, InStdout, WithJob, InChan, WithMain, InReply, InStdin, ChanKind, LifeInv,
       Reading
  <2>4. \A i \in Jobs : i # j => Same(i)
    BY <1>0, <1>5 DEF RecvEof, Eof, Fail, TypeOK, childVars, pipeVars, Same
  <2> QED
    BY <2>2, <2>3, <2>4
<1>6. CASE Wait(j)
  <2>1. /\ pc[j] = "wait"
        /\ pc'[j] = "send_exit"
        /\ \/ child[j] = "exited" /\ outcome'[j] = outcome[j]
           \/ child[j] = "dead" /\ outcome'[j] = "SetupFailed"
        /\ asked'[j] = asked[j] /\ child'[j] = child[j] /\ want'[j] = want[j]
        /\ reply'[j] = reply[j] /\ stdin'[j] = stdin[j] /\ stdout'[j] = stdout[j]
    BY <1>0, <1>6 DEF Wait, WaitFor, Fail, TypeOK, childVars, pipeVars
  <2>2. LifeInv(j)'
    BY <1>0, <1>a, <1>b, <2>1 DEF LifeInv, Reading
  <2>3. PlaceInv(j)'
    BY <1>0, <1>a, <2>1 DEF PlaceInv, InStdout, WithJob, InChan, WithMain, InReply, InStdin, ChanKind, LifeInv,
       Reading
  <2>4. \A i \in Jobs : i # j => Same(i)
    BY <1>0, <1>6 DEF Wait, WaitFor, Fail, TypeOK, childVars, pipeVars, Same
  <2> QED
    BY <2>2, <2>3, <2>4
<1> QED
  BY <1>1, <1>2, <1>3, <1>4, <1>5, <1>6

(* Sending to the main thread.                                              *)
LEMMA SendSteps ==
  ASSUME RunInv, NEW j \in Jobs,
         SendStart(j) \/ SendLog(j) \/ SendErr(j) \/ SendRequest(j) \/ SendExit(j)
  PROVE  LifeInv(j)' /\ PlaceInv(j)' /\ \A i \in Jobs : i # j => Same(i)
<1> USE DEF RunInv
<1>0. LifeInv(j) /\ PlaceInv(j) /\ TypeOK
  BY DEF CountInv
<1>a. UNCHANGED <<signals, serving>> /\ ChanKind(j) = "none"
  BY DEF SendStart, SendLog, SendErr, SendRequest, SendExit, Send, mainVars, sigVars, ChanKind,
     NoEvent, None
<1>1. CASE SendStart(j)
  <2>1. /\ pc[j] = "send_start" /\ pc'[j] = "setup" /\ ChanKind(j)' = "Start"
        /\ outcome'[j] = outcome[j] /\ asked'[j] = asked[j] /\ child'[j] = child[j] /\ want'[j] = want[j]
        /\ reply'[j] = reply[j] /\ stdin'[j] = stdin[j] /\ stdout'[j] = stdout[j]
    BY <1>0, <1>1 DEF SendStart, Send, TypeOK, childVars, pipeVars, ChanKind, Event, Line
  <2>2. LifeInv(j)'
    BY <1>0, <1>a, <2>1 DEF LifeInv, Reading
  <2>3. PlaceInv(j)'
    BY <1>0, <1>a, <2>1 DEF PlaceInv, InStdout, WithJob, InChan, WithMain, InReply, InStdin,
       LifeInv, Reading, Callbacks
  <2>4. \A i \in Jobs : i # j => Same(i)
    BY <1>0, <1>1 DEF SendStart, Send, TypeOK, childVars, pipeVars, Same
  <2> QED
    BY <2>2, <2>3, <2>4
<1>2. CASE SendLog(j)
  <2>1. /\ pc[j] = "send_log" /\ pc'[j] = "recv" /\ ChanKind(j)' = "Log"
        /\ outcome'[j] = outcome[j] /\ asked'[j] = asked[j] /\ child'[j] = child[j] /\ want'[j] = want[j]
        /\ reply'[j] = reply[j] /\ stdin'[j] = stdin[j] /\ stdout'[j] = stdout[j]
    BY <1>0, <1>2 DEF SendLog, Send, TypeOK, childVars, pipeVars, ChanKind, Event, Line
  <2>2. LifeInv(j)'
    BY <1>0, <1>a, <2>1 DEF LifeInv, Reading
  <2>3. PlaceInv(j)'
    BY <1>0, <1>a, <2>1 DEF PlaceInv, InStdout, WithJob, InChan, WithMain, InReply, InStdin,
       LifeInv, Reading, Callbacks
  <2>4. \A i \in Jobs : i # j => Same(i)
    BY <1>0, <1>2 DEF SendLog, Send, TypeOK, childVars, pipeVars, Same
  <2> QED
    BY <2>2, <2>3, <2>4
<1>3. CASE SendErr(j)
  <2>1. /\ pc[j] = "send_err" /\ pc'[j] = "wait" /\ ChanKind(j)' = "Log"
        /\ outcome'[j] = outcome[j] /\ asked'[j] = asked[j] /\ child'[j] = child[j] /\ want'[j] = want[j]
        /\ reply'[j] = reply[j] /\ stdin'[j] = stdin[j] /\ stdout'[j] = stdout[j]
    BY <1>0, <1>3 DEF SendErr, Send, TypeOK, childVars, pipeVars, ChanKind, Event, Line
  <2>2. LifeInv(j)'
    BY <1>0, <1>a, <2>1 DEF LifeInv, Reading
  <2>3. PlaceInv(j)'
    BY <1>0, <1>a, <2>1 DEF PlaceInv, InStdout, WithJob, InChan, WithMain, InReply, InStdin,
       LifeInv, Reading, Callbacks
  <2>4. \A i \in Jobs : i # j => Same(i)
    BY <1>0, <1>3 DEF SendErr, Send, TypeOK, childVars, pipeVars, Same
  <2> QED
    BY <2>2, <2>3, <2>4
<1>4. CASE SendRequest(j)
  <2>1. /\ pc[j] = "send_request" /\ pc'[j] = "callback" /\ ChanKind(j)' = asked[j]
        /\ outcome'[j] = outcome[j] /\ asked'[j] = asked[j] /\ child'[j] = child[j] /\ want'[j] = want[j]
        /\ reply'[j] = reply[j] /\ stdin'[j] = stdin[j] /\ stdout'[j] = stdout[j]
    BY <1>0, <1>4 DEF SendRequest, Send, TypeOK, childVars, pipeVars, ChanKind, Event, Line
  <2>2. LifeInv(j)'
    BY <1>0, <1>a, <2>1 DEF LifeInv, Reading
  <2>3. PlaceInv(j)'
    BY <1>0, <1>a, <2>1 DEF PlaceInv, InStdout, WithJob, InChan, WithMain, InReply, InStdin,
       LifeInv, Reading, Callbacks
  <2>4. \A i \in Jobs : i # j => Same(i)
    BY <1>0, <1>4 DEF SendRequest, Send, TypeOK, childVars, pipeVars, Same
  <2> QED
    BY <2>2, <2>3, <2>4
<1>5. CASE SendExit(j)
  <2>1. /\ pc[j] = "send_exit" /\ pc'[j] = "done" /\ ChanKind(j)' = "Exit"
        /\ outcome'[j] = outcome[j] /\ asked'[j] = asked[j] /\ child'[j] = child[j] /\ want'[j] = want[j]
        /\ reply'[j] = reply[j] /\ stdin'[j] = stdin[j] /\ stdout'[j] = stdout[j]
    BY <1>0, <1>5 DEF SendExit, Send, TypeOK, childVars, pipeVars, ChanKind, Event, Line
  <2>2. LifeInv(j)'
    BY <1>0, <1>a, <2>1 DEF LifeInv, Reading
  <2>3. PlaceInv(j)'
    BY <1>0, <1>a, <2>1 DEF PlaceInv, InStdout, WithJob, InChan, WithMain, InReply, InStdin,
       LifeInv, Reading, Callbacks
  <2>4. \A i \in Jobs : i # j => Same(i)
    BY <1>0, <1>5 DEF SendExit, Send, TypeOK, childVars, pipeVars, Same
  <2> QED
    BY <2>2, <2>3, <2>4
<1> QED
  BY <1>1, <1>2, <1>3, <1>4, <1>5

(* Reading a line of the child, and passing on a reply.                     *)
LEMMA RecvSteps ==
  ASSUME RunInv, NEW j \in Jobs,
         \/ RecvChildLog(j) \/ RecvChildRequest(j) \/ RecvChildStdio(j) \/ RecvChildExit(j)
         \/ Forward(j)
  PROVE  LifeInv(j)' /\ PlaceInv(j)' /\ \A i \in Jobs : i # j => Same(i)
<1> USE DEF RunInv
<1>0. LifeInv(j) /\ PlaceInv(j) /\ TypeOK
  BY DEF CountInv
<1>a. UNCHANGED <<signals, serving, chan>>
  BY DEF RecvChildLog, RecvChildRequest, RecvChildStdio, RecvChildExit, Forward, mainVars, sigVars
<1>b. ChanKind(j)' = ChanKind(j)
  BY <1>a DEF ChanKind
<1> DEFINE line == Head(stdout[j])
<1>c. ASSUME NEW K, Recv(j, K)
      PROVE  /\ pc[j] = "recv" /\ line.kind \in K /\ LogsFirst(stdout'[j])
             /\ line.kind = "Log" => LastKind(stdout'[j]) = LastKind(stdout[j])
                        \/ (LastKind(stdout'[j]) = "empty" /\ LastKind(stdout[j]) = "Log")
             /\ line.kind # "Log" => LastKind(stdout'[j]) = "empty" /\ LastKind(stdout[j]) = line.kind
             /\ line.kind = "Exit" => line.res \in {"Ok", "Err"}
             /\ \A i \in Jobs : i # j => stdout'[i] = stdout[i]
  <2>1. stdout[j] \in Seq(Lines) /\ stdout[j] # <<>> /\ stdout'[j] = Tail(stdout[j])
        /\ pc[j] = "recv" /\ line.kind \in K /\ \A i \in Jobs : i # j => stdout'[i] = stdout[i]
    BY <1>0, <1>c DEF Recv, TypeOK
  <2>2. LogsFirst(stdout[j])
    BY <1>0 DEF LifeInv
  <2>3. line = stdout[j][1] /\ 1 \in 1 .. Len(stdout[j])
    BY <2>1
  <2>4. line.kind = "Exit" => line.res \in {"Ok", "Err"}
    BY <2>3 DEF CountInv, LineInv
  <2> QED
    BY <2>1, <2>2, <2>4, TailLast
<1> HIDE DEF line
<1>1. CASE RecvChildLog(j)
  <2>1. Recv(j, {"Log"})
    BY <1>1 DEF RecvChildLog
  <2>2. /\ pc'[j] = "send_log"
        /\ outcome'[j] = outcome[j] /\ asked'[j] = asked[j] /\ child'[j] = child[j]
        /\ want'[j] = want[j] /\ reply'[j] = reply[j] /\ stdin'[j] = stdin[j]
    BY <1>0, <1>1 DEF RecvChildLog, Recv, TypeOK, childVars, pipeVars, line, Line
  <2>3. LifeInv(j)'
    BY <1>0, <1>a, <1>c, <2>1, <2>2 DEF LifeInv, Reading, Requests, Callbacks
  <2>4. PlaceInv(j)'
    BY <1>0, <1>a, <1>b, <1>c, <2>1, <2>2 DEF PlaceInv, InStdout, WithJob, InChan, WithMain, InReply,
       InStdin, LifeInv, Reading, Requests, Callbacks, None
  <2>5. \A i \in Jobs : i # j => Same(i)
    BY <1>0, <1>1 DEF RecvChildLog, Recv, TypeOK, childVars, pipeVars, Same
  <2> QED
    BY <2>3, <2>4, <2>5
<1>2. CASE RecvChildRequest(j)
  <2>1. Recv(j, Callbacks)
    BY <1>2 DEF RecvChildRequest
  <2>2. /\ pc'[j] = "send_request" /\ asked'[j] = line.kind
        /\ outcome'[j] = outcome[j] /\ child'[j] = child[j] /\ want'[j] = want[j]
        /\ reply'[j] = reply[j] /\ stdin'[j] = stdin[j]
    BY <1>0, <1>2 DEF RecvChildRequest, Recv, TypeOK, childVars, pipeVars, line, Line
  <2>3. LifeInv(j)'
    BY <1>0, <1>a, <1>c, <2>1, <2>2 DEF LifeInv, Reading, Requests, Callbacks
  <2>4. PlaceInv(j)'
    BY <1>0, <1>a, <1>b, <1>c, <2>1, <2>2 DEF PlaceInv, InStdout, WithJob, InChan, WithMain, InReply,
       InStdin, LifeInv, Reading, Requests, Callbacks, None
  <2>5. \A i \in Jobs : i # j => Same(i)
    BY <1>0, <1>2 DEF RecvChildRequest, Recv, TypeOK, childVars, pipeVars, Same
  <2> QED
    BY <2>3, <2>4, <2>5
<1>3. CASE RecvChildStdio(j)
  <2>1. Recv(j, {"Stdio"})
    BY <1>3 DEF RecvChildStdio
  <2>2. /\ pc'[j] = "callback" /\ reply'[j].kind = "Stdio"
        /\ outcome'[j] = outcome[j] /\ asked'[j] = asked[j] /\ child'[j] = child[j]
        /\ want'[j] = want[j] /\ stdin'[j] = stdin[j]
    BY <1>0, <1>3 DEF RecvChildStdio, Recv, TypeOK, childVars, pipeVars, line, Line
  <2>3. LifeInv(j)'
    BY <1>0, <1>a, <1>c, <2>1, <2>2 DEF LifeInv, Reading, Requests, Callbacks
  <2>4. PlaceInv(j)'
    BY <1>0, <1>a, <1>b, <1>c, <2>1, <2>2 DEF PlaceInv, InStdout, WithJob, InChan, WithMain, InReply,
       InStdin, LifeInv, Reading, Requests, Callbacks, None
  <2>5. \A i \in Jobs : i # j => Same(i)
    BY <1>0, <1>3 DEF RecvChildStdio, Recv, TypeOK, childVars, pipeVars, Same
  <2> QED
    BY <2>3, <2>4, <2>5
<1>4. CASE RecvChildExit(j)
  <2>1. Recv(j, {"Exit"})
    BY <1>4 DEF RecvChildExit
  <2>2. /\ pc'[j] \in {"send_err", "wait"} /\ outcome'[j] = line.res
        /\ asked'[j] = asked[j] /\ child'[j] = child[j] /\ want'[j] = want[j]
        /\ reply'[j] = reply[j] /\ stdin'[j] = stdin[j]
    BY <1>0, <1>4 DEF RecvChildExit, Recv, TypeOK, childVars, pipeVars, line, Line
  <2>3. LifeInv(j)'
    BY <1>0, <1>a, <1>c, <2>1, <2>2 DEF LifeInv, Reading, Requests, Callbacks
  <2>4. PlaceInv(j)'
    BY <1>0, <1>a, <1>b, <1>c, <2>1, <2>2 DEF PlaceInv, InStdout, WithJob, InChan, WithMain, InReply,
       InStdin, LifeInv, Reading, Requests, Callbacks, None
  <2>5. \A i \in Jobs : i # j => Same(i)
    BY <1>0, <1>4 DEF RecvChildExit, Recv, TypeOK, childVars, pipeVars, Same
  <2> QED
    BY <2>3, <2>4, <2>5
<1>5. CASE Forward(j)
  <2>1. /\ pc[j] = "callback" /\ reply[j] # None /\ reply'[j] = None
        /\ \/ child[j] = "dead" /\ pc'[j] = "send_log" /\ stdin'[j] = stdin[j]
           \/ child[j] # "dead" /\ pc'[j] = "recv" /\ stdin'[j] = reply[j]
        /\ outcome'[j] = outcome[j] /\ asked'[j] = asked[j] /\ child'[j] = child[j]
        /\ want'[j] = want[j] /\ stdout'[j] = stdout[j]
    BY <1>0, <1>5 DEF Forward, TypeOK, childVars
  <2>2. LifeInv(j)'
    BY <1>0, <1>a, <2>1 DEF LifeInv, Reading
  <2>3. PlaceInv(j)'
    BY <1>0, <1>a, <1>b, <2>1 DEF PlaceInv, InStdout, WithJob, InChan, WithMain, InReply, InStdin,
       LifeInv, Reading
  <2>4. \A i \in Jobs : i # j => Same(i)
    BY <1>0, <1>5 DEF Forward, TypeOK, childVars, pipeVars, Same
  <2> QED
    BY <2>2, <2>3, <2>4
<1> QED
  BY <1>1, <1>2, <1>3, <1>4, <1>5

(* A step of a pool thread, for its own job and for the others.             *)
LEMMA JobKeeps ==
  ASSUME RunInv, NEW j \in Jobs, JobStep(j)
  PROVE  \A i \in Jobs : LifeInv(i)' /\ PlaceInv(i)'
<1>1. LifeInv(j)' /\ PlaceInv(j)' /\ \A i \in Jobs : i # j => Same(i)
  BY SilentSteps, SendSteps, RecvSteps DEF JobStep
<1>2. JobMove(j)
  BY JobTypes DEF RunInv, CountInv
<1>3. ASSUME NEW i \in Jobs, i # j PROVE LifeInv(i)' /\ PlaceInv(i)'
  <2>1. ChanKind(i)' = ChanKind(i)
    BY <1>2, <1>3 DEF JobMove, ChanKind, NoEvent, None, Jobs
  <2>2. UNCHANGED <<signals, serving>>
    BY <1>2 DEF JobMove, mainVars, sigVars
  <2>3. LifeInv(i) /\ PlaceInv(i) /\ Same(i)
    BY <1>1, <1>3 DEF RunInv
  <2> QED
    BY <2>1, <2>2, <2>3, SameKeeps
<1> QED
  BY <1>1, <1>3

-----------------------------------------------------------------------------
(* Steps of the sandbox and signals.                                        *)

(* A child is killed: its request stays where it is.                        *)
LEMMA DeathKeeps ==
  ASSUME NEW i \in Jobs, LifeInv(i), PlaceInv(i), Alive(i), child'[i] = "dead",
         pc'[i] = pc[i], outcome'[i] = outcome[i], asked'[i] = asked[i], reply'[i] = reply[i],
         stdin'[i] = stdin[i], stdout'[i] = stdout[i], UNCHANGED <<chan, serving>>
  PROVE  LifeInv(i)' /\ PlaceInv(i)'
<1>1. LifeInv(i)'
  BY DEF LifeInv, Alive, Reading
<1>2. PlaceInv(i)'
  BY DEF PlaceInv, InStdout, WithJob, InChan, WithMain, InReply, InStdin, ChanKind, Alive
<1> QED
  BY <1>1, <1>2

(* What a script does, for its own job.                                     *)
LEMMA ScriptSteps ==
  ASSUME RunInv, NEW j \in Jobs, ChildStep(j)
  PROVE  LifeInv(j)' /\ PlaceInv(j)' /\ \A i \in Jobs : i # j => Same(i)
<1> USE DEF RunInv
<1>0. LifeInv(j) /\ PlaceInv(j) /\ TypeOK
  BY DEF CountInv
<1>a. UNCHANGED <<mainVars, sigVars, jobVars, chan, reply>>
  BY DEF ChildStep, ChildStart, ChildLog, ChildRequest, RequestThen, ChildReply, ChildExit,
         ChildGone
<1>b. /\ UNCHANGED <<signals, serving>> /\ ChanKind(j)' = ChanKind(j)
      /\ pc'[j] = pc[j] /\ outcome'[j] = outcome[j] /\ asked'[j] = asked[j] /\ reply'[j] = reply[j]
  BY <1>a DEF mainVars, sigVars, jobVars, ChanKind
<1>c. ASSUME NEW l \in Lines, Write(j, l), child[j] \in {"run", "retry"}
      PROVE  LogsFirst(stdout'[j]) /\ LastKind(stdout'[j]) = l.kind
  <2>1. stdout[j] \in Seq(Lines) /\ stdout'[j] = Append(stdout[j], l)
    BY <1>0, <1>c DEF Write, TypeOK
  <2>2. LogsFirst(stdout[j]) /\ LastKind(stdout[j]) \in {"empty", "Log"}
    BY <1>0, <1>c DEF LifeInv, PlaceInv, InStdout
  <2> QED
    BY <2>1, <2>2, AppendLast
<1>1. CASE ChildStart(j)
  <2>1. /\ child[j] = "boot" /\ stdin[j] # None /\ stdin'[j] = None /\ child'[j] = "run"
        /\ want'[j] = want[j] /\ stdout'[j] = stdout[j]
    BY <1>0, <1>1 DEF ChildStart, TypeOK, pipeVars, None
  <2>4. LifeInv(j)'
    BY <1>0, <1>b, <2>1 DEF LifeInv, Reading, Requests, Callbacks
  <2>5. PlaceInv(j)'
    BY <1>0, <1>b, <2>1 DEF PlaceInv, InStdout, WithJob, InChan, WithMain, InReply, InStdin,
       LifeInv, Reading, Requests, Callbacks
  <2>6. \A i \in Jobs : i # j => Same(i)
    BY <1>0, <1>a, <1>1 DEF ChildStart, Write, TypeOK, jobVars, pipeVars, Same
  <2> QED
    BY <2>4, <2>5, <2>6
<1>2. CASE ChildReply(j)
  <2>1. /\ child[j] = "await" /\ stdin[j] # None /\ stdin'[j] = None
        /\ child'[j] \in {"run", "retry"} /\ want'[j] = want[j] /\ stdout'[j] = stdout[j]
    BY <1>0, <1>2 DEF ChildReply, TypeOK, pipeVars
  <2>4. LifeInv(j)'
    BY <1>0, <1>b, <2>1 DEF LifeInv, Reading, Requests, Callbacks
  <2>5. PlaceInv(j)'
    BY <1>0, <1>b, <2>1 DEF PlaceInv, InStdout, WithJob, InChan, WithMain, InReply, InStdin,
       LifeInv, Reading, Requests, Callbacks
  <2>6. \A i \in Jobs : i # j => Same(i)
    BY <1>0, <1>a, <1>2 DEF ChildReply, Write, TypeOK, jobVars, pipeVars, Same
  <2> QED
    BY <2>4, <2>5, <2>6
<1>3. CASE ChildGone(j)
  <2>1. /\ child[j] = "closing" /\ child'[j] = "exited"
        /\ want'[j] = want[j] /\ stdout'[j] = stdout[j] /\ stdin'[j] = stdin[j]
    BY <1>0, <1>3 DEF ChildGone, TypeOK, pipeVars
  <2>4. LifeInv(j)'
    BY <1>0, <1>b, <2>1 DEF LifeInv, Reading, Requests, Callbacks
  <2>5. PlaceInv(j)'
    BY <1>0, <1>b, <2>1 DEF PlaceInv, InStdout, WithJob, InChan, WithMain, InReply, InStdin,
       LifeInv, Reading, Requests, Callbacks
  <2>6. \A i \in Jobs : i # j => Same(i)
    BY <1>0, <1>a, <1>3 DEF ChildGone, Write, TypeOK, jobVars, pipeVars, Same
  <2> QED
    BY <2>4, <2>5, <2>6
<1>4. CASE ChildLog(j)
  <2>1. /\ child[j] = "run" /\ child'[j] = child[j]
        /\ want'[j] = want[j] /\ stdin'[j] = stdin[j]
    BY <1>0, <1>4 DEF ChildLog, TypeOK, pipeVars
  <2>2. Line("Log", "none") \in Lines /\ Line("Log", "none").kind = "Log"
    BY LineTypes DEF Line
  <2>3. LogsFirst(stdout'[j]) /\ LastKind(stdout'[j]) = "Log"
    BY <1>4, <1>c, <2>1, <2>2 DEF ChildLog
  <2>4. LifeInv(j)'
    BY <1>0, <1>b, <2>1, <2>3 DEF LifeInv, Reading, Requests, Callbacks
  <2>5. PlaceInv(j)'
    BY <1>0, <1>b, <2>1, <2>3 DEF PlaceInv, InStdout, WithJob, InChan, WithMain, InReply, InStdin,
       LifeInv, Reading, Requests, Callbacks
  <2>6. \A i \in Jobs : i # j => Same(i)
    BY <1>0, <1>a, <1>4 DEF ChildLog, Write, TypeOK, jobVars, pipeVars, Same
  <2> QED
    BY <2>4, <2>5, <2>6
<1>5. ASSUME NEW k \in Requests, ChildRequest(j, k)
      PROVE  LifeInv(j)' /\ PlaceInv(j)' /\ \A i \in Jobs : i # j => Same(i)
  <2>1. /\ child[j] \in {"run", "retry"} /\ child'[j] = "await"
        /\ want'[j] = k /\ stdin'[j] = stdin[j]
    BY <1>0, <1>5 DEF ChildRequest, RequestThen, TypeOK
  <2>2. Line(k, "none") \in Lines /\ Line(k, "none").kind = k
    BY LineTypes DEF Line
  <2>3. LogsFirst(stdout'[j]) /\ LastKind(stdout'[j]) = k
    BY <1>5, <1>c, <2>1, <2>2 DEF ChildRequest, RequestThen
  <2>4. LifeInv(j)'
    BY <1>0, <1>b, <2>1, <2>3 DEF LifeInv, Reading, Requests, Callbacks
  <2>5. PlaceInv(j)'
    BY <1>0, <1>b, <2>1, <2>3 DEF PlaceInv, InStdout, WithJob, InChan, WithMain, InReply, InStdin,
       LifeInv, Reading, Requests, Callbacks
  <2>6. \A i \in Jobs : i # j => Same(i)
    BY <1>0, <1>a, <1>5 DEF ChildRequest, RequestThen, Write, TypeOK, jobVars, pipeVars, Same
  <2> QED
    BY <2>4, <2>5, <2>6
<1>6. CASE ChildExit(j)
  <2>1. /\ child[j] = "run" /\ child'[j] = "closing"
        /\ want'[j] = want[j] /\ stdin'[j] = stdin[j]
    BY <1>0, <1>6 DEF ChildExit, TypeOK
  <2>2. PICK r \in {"Ok", "Err"} : Write(j, Line("Exit", r))
    BY <1>6 DEF ChildExit
  <2>3. Line("Exit", r) \in Lines /\ Line("Exit", r).kind = "Exit"
    BY LineTypes DEF Line, ExitEvents
  <2>4. LogsFirst(stdout'[j]) /\ LastKind(stdout'[j]) = "Exit"
    BY <1>c, <2>1, <2>2, <2>3
  <2>5. LifeInv(j)'
    BY <1>0, <1>b, <2>1, <2>4 DEF LifeInv, Reading, Requests, Callbacks
  <2>6. PlaceInv(j)'
    BY <1>0, <1>b, <2>1, <2>4 DEF PlaceInv, InStdout, WithJob, InChan, WithMain, InReply, InStdin,
       LifeInv, Reading, Requests, Callbacks
  <2>7. \A i \in Jobs : i # j => Same(i)
    BY <1>0, <1>a, <1>6, <2>2 DEF ChildExit, Write, TypeOK, jobVars, pipeVars, Same
  <2> QED
    BY <2>5, <2>6, <2>7
<1> QED
  BY <1>1, <1>2, <1>3, <1>4, <1>5, <1>6 DEF ChildStep

(* A step of a sandbox, for its own job and for the others.                 *)
LEMMA ChildKeeps ==
  ASSUME RunInv, NEW j \in Jobs, ChildStep(j) \/ ChildCrash(j)
  PROVE  \A i \in Jobs : LifeInv(i)' /\ PlaceInv(i)'
<1>0. TypeOK /\ \A i \in Jobs : LifeInv(i) /\ PlaceInv(i)
  BY DEF RunInv, CountInv
<1>1. UNCHANGED <<signals, serving, chan>>
  BY DEF ChildStep, ChildStart, ChildLog, ChildRequest, RequestThen, ChildReply, ChildExit,
         ChildGone, ChildCrash, mainVars, sigVars
<1>2. \A i \in Jobs : i # j => Same(i)
  <2>1. CASE ChildCrash(j)
    BY <1>0, <2>1 DEF ChildCrash, Same, TypeOK, jobVars, pipeVars
  <2> QED
    BY <2>1, ScriptSteps
<1>3. LifeInv(j)' /\ PlaceInv(j)'
  <2>1. CASE ChildCrash(j)
    <3>1. /\ Alive(j) /\ child'[j] = "dead" /\ pc'[j] = pc[j] /\ outcome'[j] = outcome[j]
          /\ asked'[j] = asked[j] /\ reply'[j] = reply[j]
          /\ stdin'[j] = stdin[j] /\ stdout'[j] = stdout[j]
      BY <1>0, <2>1 DEF ChildCrash, TypeOK, jobVars, pipeVars
    <3> QED
      BY <1>0, <1>1, <3>1, DeathKeeps
  <2> QED
    BY <2>1, ScriptSteps
<1>4. ASSUME NEW i \in Jobs, i # j PROVE LifeInv(i)' /\ PlaceInv(i)'
  <2>1. Same(i) /\ ChanKind(i)' = ChanKind(i)
    BY <1>1, <1>2, <1>4 DEF ChanKind
  <2> QED
    BY <1>0, <1>1, <2>1, SameKeeps
<1> QED
  BY <1>3, <1>4

(* Ctrl-c kills every child that lives, whatever its job is doing; the      *)
(* handler touches no job.                                                  *)
LEMMA SignalKeeps ==
  ASSUME RunInv, CtrlC \/ Handle
  PROVE  \A i \in Jobs : LifeInv(i)' /\ PlaceInv(i)'
<1> SUFFICES ASSUME NEW i \in Jobs PROVE LifeInv(i)' /\ PlaceInv(i)'
  OBVIOUS
<1>0. TypeOK /\ LifeInv(i) /\ PlaceInv(i)
  BY DEF RunInv, CountInv
<1>1. /\ UNCHANGED <<serving, chan>> /\ pc'[i] = pc[i] /\ outcome'[i] = outcome[i]
      /\ asked'[i] = asked[i] /\ reply'[i] = reply[i] /\ want'[i] = want[i]
      /\ stdin'[i] = stdin[i] /\ stdout'[i] = stdout[i]
  BY DEF CtrlC, Handle, mainVars, jobVars, childVars, pipeVars
<1>2. signals > 0 => signals' > 0
  BY <1>0 DEF CtrlC, Handle, TypeOK
<1>3. (Alive(i) /\ child'[i] = "dead") \/ child'[i] = child[i]
  BY DEF CtrlC, Handle, childVars
<1>4. CASE Alive(i) /\ child'[i] = "dead"
  BY <1>0, <1>1, <1>4, DeathKeeps
<1>5. CASE child'[i] = child[i]
  <2>1. Same(i) /\ ChanKind(i)' = ChanKind(i)
    BY <1>1, <1>5 DEF ChanKind, Same
  <2> QED
    BY <1>0, <1>1, <1>2, <2>1, SameKeeps
<1> QED
  BY <1>3, <1>4, <1>5

-----------------------------------------------------------------------------
(* Steps of the main thread.                                                *)

(* A new run: every job is as it was at the start.                          *)
LEMMA FreshKeeps ==
  ASSUME NEW i \in Jobs, pc'[i] = "idle", asked'[i] = "none", reply'[i] = None,
         child'[i] = "none", stdin'[i] = None, stdout'[i] = <<>>, chan' = NoEvent, serving' = NoEvent
  PROVE  LifeInv(i)' /\ PlaceInv(i)'
<1>1. LastKind(stdout'[i]) = "empty" /\ LogsFirst(stdout'[i])
  BY DEF LastKind, LogsFirst
<1>2. ChanKind(i)' = "none" /\ serving'.job # i
  BY DEF ChanKind, NoEvent, None, Jobs
<1>3. LifeInv(i)'
  BY <1>1 DEF LifeInv, Reading
<1>4. PlaceInv(i)'
  BY <1>1, <1>2 DEF PlaceInv, InStdout, WithJob, InChan, WithMain, InReply, InStdin, Requests, Callbacks
<1> QED
  BY <1>3, <1>4

(* The main thread passes a request on, and takes everything else from the  *)
(* channel without a trace in the jobs.                                     *)
LEMMA MainKeeps ==
  ASSUME RunInv, MainStep
  PROVE  \A i \in Jobs : LifeInv(i)' /\ PlaceInv(i)'
<1> SUFFICES ASSUME NEW i \in Jobs PROVE LifeInv(i)' /\ PlaceInv(i)'
  OBVIOUS
<1> USE WorkerAssumption
<1>0. TypeOK /\ FlowInv /\ ChanInv /\ ServingInv /\ LifeInv(i) /\ PlaceInv(i)
  BY DEF RunInv, CountInv
<1>1. CASE Submit
  <2>1. /\ UNCHANGED <<serving, chan, signals>> /\ outcome'[i] = outcome[i]
        /\ asked'[i] = asked[i] /\ reply'[i] = reply[i] /\ want'[i] = want[i]
        /\ child'[i] = child[i] /\ stdin'[i] = stdin[i] /\ stdout'[i] = stdout[i]
    BY <1>1 DEF Submit, SubmitJob, sigVars, childVars, pipeVars
  <2>2. ChanKind(i)' = ChanKind(i)
    BY <2>1 DEF ChanKind
  <2>3. CASE i = submitted + 1
    <3>1. pc[i] = "idle" /\ pc'[i] = "queued"
      BY <1>0, <1>1, <2>3 DEF Submit, SubmitJob, FlowInv, TypeOK
    <3>2. LifeInv(i)'
      BY <1>0, <2>1, <3>1 DEF LifeInv, Reading
    <3>3. PlaceInv(i)'
      BY <1>0, <2>1, <2>2, <3>1 DEF PlaceInv, InStdout, WithJob, InChan, WithMain, InReply, InStdin
    <3> QED
      BY <3>2, <3>3
  <2>4. CASE i # submitted + 1
    <3>1. pc'[i] = pc[i]
      BY <1>0, <1>1, <2>4 DEF Submit, SubmitJob, TypeOK
    <3>2. Same(i)
      BY <2>1, <3>1 DEF Same
    <3> QED
      BY <1>0, <2>1, <2>2, <3>2, SameKeeps
  <2> QED
    BY <2>3, <2>4
<1>2. CASE RecvStart \/ RecvLog \/ RecvExit \/ Finish
  <2>1. UNCHANGED <<serving, signals>> /\ Same(i)
    BY <1>2 DEF RecvStart, RecvLog, RecvExit, TakeExit, Finish, mainVars, sigVars, jobVars, childVars,
                pipeVars, Same
  <2>2. \/ ChanKind(i) \notin Callbacks /\ ChanKind(i)' \notin Callbacks
        \/ ChanKind(i)' = ChanKind(i)
    BY <1>2 DEF RecvStart, RecvLog, RecvExit, TakeExit, Finish, ChanKind, NoEvent, None, Callbacks
  <2> QED
    BY <1>0, <2>1, <2>2, SameKeeps
<1>3. CASE RecvRequest
  <2>1. /\ UNCHANGED signals /\ Same(i) /\ serving = NoEvent /\ serving' = chan /\ chan' = NoEvent
        /\ chan.line.kind \in Callbacks
    BY <1>0, <1>3 DEF RecvRequest, ServingInv, sigVars, jobVars, childVars, pipeVars, Same
  <2>2. ChanKind(i)' = "none" /\ ~WithMain(i)
    BY <2>1 DEF ChanKind, NoEvent, None, WithMain, Jobs
  <2>3. CASE chan.job = i
    <3>1. InChan(i) /\ WithMain(i)' /\ ChanKind(i) = chan.line.kind
      BY <2>1, <2>3 DEF InChan, WithMain, ChanKind
    <3>2. LifeInv(i)'
      BY <1>0, <2>1 DEF LifeInv, Same, Reading
    <3>3. /\ InStdout(i)' <=> InStdout(i)
          /\ WithJob(i)' <=> WithJob(i)
          /\ InReply(i)' <=> InReply(i)
          /\ InStdin(i)' <=> InStdin(i)
          /\ ~InChan(i)'
      BY <2>1, <2>2 DEF Same, InStdout, WithJob, InReply, InStdin, InChan, Callbacks
    <3>4. PlaceInv(i)'
      <4> HIDE DEF InStdout, WithJob, InChan, WithMain, InReply, InStdin, ChanKind
      <4> QED
        BY <1>0, <2>1, <3>1, <3>3 DEF PlaceInv, Same
    <3> QED
      BY <3>2, <3>4
  <2>4. CASE chan.job # i
    <3>1. ChanKind(i)' = ChanKind(i) /\ serving.job # i /\ serving'.job # i
      BY <2>1, <2>2, <2>4 DEF ChanKind, WithMain
    <3> QED
      BY <1>0, <2>1, <3>1, SameKeeps
  <2> QED
    BY <2>3, <2>4
<1>4. CASE Serve
  <2>1. PICK r \in {"Ok", "Err", "Retry"} :
          reply' = [reply EXCEPT ![serving.job] = Line(serving.line.kind, r)]
    BY <1>0, <1>4 DEF Serve, ServeKinds, ServingInv, Answers
  <2>2. /\ UNCHANGED <<signals, chan>> /\ serving' = NoEvent
        /\ pc'[i] = pc[i] /\ outcome'[i] = outcome[i] /\ asked'[i] = asked[i]
        /\ child'[i] = child[i] /\ want'[i] = want[i] /\ stdin'[i] = stdin[i] /\ stdout'[i] = stdout[i]
    BY <1>4 DEF Serve, ServeKinds, sigVars, jobVars, childVars, pipeVars
  <2>3. ChanKind(i)' = ChanKind(i) /\ ~WithMain(i)'
    BY <2>2 DEF ChanKind, WithMain, NoEvent, Jobs
  <2>4. CASE serving.job = i
    <3>1. reply'[i] = Line(serving.line.kind, r) /\ WithMain(i) /\ serving.line.kind \in Callbacks
      BY <1>0, <1>4, <2>1, <2>4 DEF TypeOK, WithMain, Serve, ServeKinds, ServingInv
    <3>2. reply'[i].kind = serving.line.kind /\ reply'[i] # None
      BY <3>1 DEF Line, None, Callbacks
    <3>3. LifeInv(i)'
      BY <1>0, <2>2 DEF LifeInv, Reading
    <3>4. /\ InStdout(i)' <=> InStdout(i)
          /\ WithJob(i)' <=> WithJob(i)
          /\ InChan(i)' <=> InChan(i)
          /\ InStdin(i)' <=> InStdin(i)
          /\ InReply(i)'
      BY <2>2, <2>3, <3>2 DEF InStdout, WithJob, InReply, InStdin, InChan
    <3>5. PlaceInv(i)'
      <4> HIDE DEF InStdout, WithJob, InChan, WithMain, InReply, InStdin, ChanKind
      <4> QED
        BY <1>0, <2>2, <2>3, <3>1, <3>2, <3>4 DEF PlaceInv
    <3> QED
      BY <3>3, <3>5
  <2>5. CASE serving.job # i
    <3>1. reply'[i] = reply[i] /\ serving'.job # i
      BY <1>0, <2>1, <2>3, <2>5 DEF TypeOK, WithMain
    <3>2. Same(i)
      BY <2>2, <3>1 DEF Same
    <3> QED
      BY <1>0, <2>2, <2>3, <2>5, <3>1, <3>2, SameKeeps
  <2> QED
    BY <2>4, <2>5
<1> QED
  BY <1>1, <1>2, <1>3, <1>4 DEF MainStep

-----------------------------------------------------------------------------
(* The channel, the counters of spawn and the pool.                         *)

(* The parts of the invariant that are about no single job.                 *)
LoopInv == ServingInv /\ SignalInv /\ ReportInv /\ PoolInv

(* The jobs the pool works on can be counted.                               *)
LEMMA ActiveFinite ==
  /\ IsFiniteSet(Active) /\ Cardinality(Active) \in Nat
  /\ \A S : S \subseteq Active => IsFiniteSet(S) /\ Cardinality(S) <= Cardinality(Active)
                                                 /\ Cardinality(S) \in Nat
<1>1. IsFiniteSet(Jobs)
  BY WorkerAssumption, FS_Interval DEF Jobs
<1>2. IsFiniteSet(Active)
  BY <1>1, FS_Subset DEF Active
<1> QED
  BY <1>2, FS_Subset, FS_CardinalityType

(* While the jobs that have reported stay the same, so do the results.      *)
LEMMA ErrorsStay ==
  ASSUME ErrorsExact, Reported' = Reported, \A i \in Reported : outcome'[i] = outcome[i],
         UNCHANGED <<errors, failed>>, main' # "prompt" => main # "prompt"
  PROVE  ErrorsExact'
<1>1. {i \in Reported : outcome[i] # "Ok"}' = {i \in Reported : outcome[i] # "Ok"}
  OBVIOUS
<1>2. {i \in Reported : outcome[i] = "SetupFailed"}' = {i \in Reported : outcome[i] = "SetupFailed"}
  OBVIOUS
<1> QED
  BY <1>1, <1>2 DEF ErrorsExact

(* A pool thread reports the outcome it has, and changes it no more.        *)
LEMMA JobReport ==
  ASSUME RunInv, NEW j \in Jobs, JobStep(j)
  PROVE  LoopInv' /\ Reported' = Reported
<1> USE WorkerAssumption
<1>0. TypeOK /\ FlowInv /\ ChanInv /\ ServingInv /\ SignalInv /\ ReportInv /\ PoolInv
  BY DEF RunInv, CountInv
<1>1. JobMove(j)
  BY JobTypes DEF RunInv, CountInv
<1>2. \A i \in Jobs : i # j => Same(i)
  BY SilentSteps, SendSteps, RecvSteps DEF JobStep
<1>3. Reported' = Reported
  <2> SUFFICES ASSUME NEW i \in 1 .. submitted PROVE i \in Reported' <=> i \in Reported
    BY <1>1 DEF JobMove, mainVars, Reported
  <2>1. i \in Jobs
    BY <1>0 DEF TypeOK, Jobs
  <2>2. CASE i = j
    BY <1>1, <2>1, <2>2 DEF JobMove, mainVars, Reported
  <2>3. CASE i # j
    BY <1>1, <2>1, <2>3 DEF JobMove, mainVars, Reported, NoEvent, None
  <2> QED
    BY <2>2, <2>3
<1>4. \A i \in Reported : i \in Jobs /\ i # j
  BY <1>0, <1>1 DEF Reported, TypeOK, Jobs, JobMove
<1>5. ServingInv' /\ SignalInv'
  BY <1>0, <1>1 DEF JobMove, ServingInv, SignalInv, mainVars, sigVars, Running
<1>6. PoolInv'
  <2>1. CASE pc[j] = "queued"
    <3>1. JobBegin(j)
      BY <2>1 DEF JobStep, SendStart, SendLog, SendErr, SendRequest, SendExit, Send, SetupFail, Setup,
        SendCommand, RecvChildLog, RecvChildRequest, RecvChildStdio, RecvChildExit, Recv, RecvEof, Eof,
        Forward, Wait, WaitFor
    <3>2. Active' \subseteq Active \cup {j} /\ Cardinality(Active) < Threads
      BY <1>1, <3>1 DEF JobBegin, JobMove, Active
    <3>3. Cardinality(Active \cup {j}) <= Threads /\ IsFiniteSet(Active \cup {j})
      BY <3>2, ActiveFinite, FS_AddElement
    <3>4. Cardinality(Active') <= Cardinality(Active \cup {j}) /\ IsFiniteSet(Active')
      BY <3>2, <3>3, FS_Subset
    <3> QED
      BY <3>3, <3>4, FS_CardinalityType DEF PoolInv
  <2>2. CASE pc[j] # "queued"
    <3>1. Active' \subseteq Active
      BY <1>1, <2>2 DEF JobMove, Active
    <3> QED
      BY <1>0, <3>1, ActiveFinite DEF PoolInv
  <2> QED
    BY <2>1, <2>2
<1>7. ReportInv'
  <2>1. stack' \subseteq Pending'
    BY <1>0, <1>1, <1>3 DEF JobMove, mainVars, ReportInv, Pending
  <2>2. \A i \in 1 .. submitted' : pc'[i] # "idle"
    BY <1>0, <1>1 DEF JobMove, mainVars, ReportInv, TypeOK, Jobs
  <2>3. main' = "returned" => submitted' = nargs'
    BY <1>0, <1>1 DEF JobMove, mainVars, ReportInv
  <2>4. chan'.line.kind = "Exit" => chan'.line.res = outcome'[chan'.job]
    <3>1. CASE UNCHANGED chan /\ pc'[j] # "done"
      <4> SUFFICES ASSUME chan.line.kind = "Exit" PROVE chan.line.res = outcome'[chan.job]
        BY <3>1
      <4>1. chan # NoEvent
        BY DEF NoEvent, None
      <4>2. chan.job \in Jobs /\ pc[chan.job] = "done"
        BY <1>0, <4>1 DEF ChanInv, TypeOK, Jobs
      <4>3. outcome'[chan.job] = outcome[chan.job]
        BY <1>1, <1>2, <4>2 DEF JobMove, Same
      <4> QED
        BY <1>0, <4>3 DEF ReportInv
    <3>2. CASE SendExit(j)
      BY <3>2 DEF SendExit, Send, Event, Line
    <3>3. CASE pc'[j] # "done" /\ ~UNCHANGED chan
      BY <1>1, <3>3 DEF JobMove
    <3>4. pc'[j] = "done" => SendExit(j)
      BY <1>0 DEF JobStep, JobBegin, SendStart, SendLog, SendErr, SendRequest, Send, SetupFail, Setup,
        SendCommand, RecvChildLog, RecvChildRequest, RecvChildStdio, RecvChildExit, Recv, RecvEof, Eof,
        Forward, Wait, WaitFor, Fail, TypeOK
    <3> QED
      BY <3>1, <3>2, <3>3, <3>4
  <2>5. ErrorsExact'
    <3>1. \A i \in Reported : outcome'[i] = outcome[i]
      BY <1>2, <1>4 DEF Same
    <3>2. UNCHANGED <<errors, failed, main>>
      BY <1>1 DEF JobMove, mainVars
    <3> QED
      BY <1>0, <1>3, <3>1, <3>2, ErrorsStay DEF ReportInv
  <2> QED
    BY <2>1, <2>2, <2>3, <2>4, <2>5 DEF ReportInv
<1> QED
  BY <1>3, <1>5, <1>6, <1>7 DEF LoopInv

(* Sandboxes and signals leave the loop alone; a register that leaves 0 has *)
(* seen a signal.                                                           *)
LEMMA OutsideReport ==
  ASSUME RunInv, CtrlC \/ Handle \/ UNCHANGED vars
                 \/ \E j \in Jobs : ChildStep(j) \/ ChildCrash(j)
  PROVE  LoopInv' /\ Reported' = Reported
<1>0. TypeOK /\ ServingInv /\ SignalInv /\ ReportInv /\ PoolInv
  BY DEF RunInv, CountInv
<1>1. UNCHANGED <<mainVars, jobVars, chan>>
  BY DEF ChildStep, ChildStart, ChildLog, ChildRequest, RequestThen, ChildReply, ChildExit,
         ChildGone, ChildCrash, CtrlC, Handle, vars
<1>2. SignalInv'
  <2>1. CASE CtrlC
    BY <1>0, <1>1, <2>1 DEF CtrlC, SignalInv, Running, TypeOK, mainVars
  <2>2. CASE Handle
    BY <1>0, <1>1, <2>2 DEF Handle, SignalInv, Running, TypeOK, mainVars
  <2>3. CASE UNCHANGED sigVars
    BY <1>0, <1>1, <2>3 DEF sigVars, mainVars, SignalInv, Running
  <2> QED
    BY <2>1, <2>2, <2>3 DEF ChildStep, ChildStart, ChildLog, ChildRequest, RequestThen, ChildReply,
       ChildExit, ChildGone, ChildCrash, vars
<1>3. Reported' = Reported
  BY <1>1 DEF Reported, mainVars, jobVars
<1>4. ServingInv' /\ PoolInv'
  BY <1>0, <1>1 DEF ServingInv, PoolInv, Active, mainVars, jobVars
<1>5. ErrorsExact'
  <2>1. UNCHANGED <<errors, failed, main, outcome>>
    BY <1>1 DEF mainVars, jobVars
  <2> QED
    BY <1>0, <1>3, <2>1, ErrorsStay DEF ReportInv
<1>6. ReportInv'
  BY <1>0, <1>1, <1>3, <1>5 DEF ReportInv, Pending, mainVars, jobVars
<1> QED
  BY <1>2, <1>3, <1>4, <1>6 DEF LoopInv

(* A new run has reported nothing.                                          *)
LEMMA ExecuteReport ==
  ASSUME RunInv, NEW n \in 0 .. MaxArgs, Execute(n)
  PROVE  LoopInv' /\ Reported' = {}
<1>0. TypeOK /\ ServingInv /\ SignalInv
  BY DEF RunInv, CountInv
<1>1. Reported' = {}
  BY DEF Execute, Reported
<1>2. ServingInv' /\ SignalInv'
  BY <1>0 DEF Execute, ServingInv, SignalInv, Running, TypeOK
<1>3. PoolInv'
  <2>1. Active' = {}
    BY DEF Execute, Active
  <2> QED
    BY <2>1, FS_EmptySet, WorkerAssumption DEF PoolInv
<1>4. ErrorsExact'
  BY <1>1, FS_EmptySet DEF Execute, ErrorsExact
<1>5. ReportInv'
  BY <1>4 DEF Execute, ReportInv, NoEvent, None, Pending
<1> QED
  BY <1>1, <1>2, <1>3, <1>5 DEF LoopInv

(* Steps of the loop that take no Exit event.                               *)
LEMMA MainReport ==
  ASSUME RunInv, Submit \/ RecvStart \/ RecvLog \/ RecvRequest \/ Serve \/ Finish
  PROVE  LoopInv' /\ Reported' = Reported
<1> USE WorkerAssumption
<1>0. TypeOK /\ FlowInv /\ ChanInv /\ ServingInv /\ SignalInv /\ ReportInv /\ PoolInv
  BY DEF RunInv, CountInv
<1>1. UNCHANGED <<nargs, errors, failed, sigs, signals, outcome>>
  BY DEF Submit, SubmitJob, RecvStart, RecvLog, RecvRequest, Serve, ServeKinds, Finish, mainVars,
         sigVars, jobVars
<1>2. ServingInv'
  <2>1. chan # NoEvent => chan.job \in Jobs
    BY <1>0 DEF ChanInv, TypeOK, Jobs
  <2>2. chan.line.kind \in Callbacks => chan # NoEvent
    BY DEF NoEvent, None, Callbacks
  <2> QED
    BY <1>0, <2>1, <2>2 DEF Submit, SubmitJob, RecvStart, RecvLog, RecvRequest, Serve, ServeKinds, Finish,
       mainVars, ServingInv
<1>3. SignalInv'
  BY <1>0 DEF Submit, SubmitJob, RecvStart, RecvLog, RecvRequest, Serve, ServeKinds, Finish,
       mainVars, sigVars, SignalInv, Running
<1>4. UNCHANGED <<submitted, pc>> \/ Submit
  BY DEF Submit, SubmitJob, RecvStart, RecvLog, RecvRequest, Serve, ServeKinds, Finish, mainVars, jobVars
<1>5. Submit => /\ submitted' = submitted + 1 /\ submitted \in Nat /\ submitted + 1 \in Jobs
                /\ pc'[submitted + 1] = "queued" /\ UNCHANGED <<stack, chan>>
                /\ \A i \in Jobs : i # submitted + 1 => pc'[i] = pc[i]
  BY <1>0 DEF Submit, SubmitJob, FlowInv, TypeOK, Jobs
<1>6. UNCHANGED chan \/ (chan' = NoEvent /\ chan.line.kind # "Exit")
  BY DEF Submit, SubmitJob, RecvStart, RecvLog, RecvRequest, Serve, ServeKinds, Finish, Callbacks
<1>7. Reported' = Reported
  <2>1. CASE UNCHANGED <<submitted, pc>>
    BY <1>6, <2>1 DEF Reported, NoEvent, None
  <2>2. CASE Submit
    <3>1. 1 .. submitted' = (1 .. submitted) \cup {submitted + 1}
          /\ \A i \in 1 .. submitted : i \in Jobs /\ i # submitted + 1
      BY <1>0, <1>5, <2>2 DEF TypeOK, Jobs
    <3> QED
      BY <1>5, <2>2, <3>1 DEF Reported
  <2> QED
    BY <1>4, <2>1, <2>2
<1>8. PoolInv'
  <2>1. Active' \subseteq Active
    BY <1>4, <1>5 DEF Active
  <2> QED
    BY <1>0, <2>1, ActiveFinite DEF PoolInv
<1>9. ReportInv'
  <2>1. stack' \subseteq Pending'
    <3>1. CASE RecvStart
      <4>1. chan # NoEvent /\ chan.line.kind = "Start"
        BY <3>1 DEF RecvStart, NoEvent, None
      <4>2. chan.job \in 1 .. submitted /\ chan.job \notin Reported
        BY <1>0, <4>1 DEF ChanInv, Reported
      <4>3. submitted' = submitted /\ stack' = stack \cup {chan.job}
        BY <3>1 DEF RecvStart
      <4> QED
        BY <1>0, <1>7, <4>2, <4>3 DEF ReportInv, Pending
    <3>2. CASE UNCHANGED stack
      <4>1. (1 .. submitted) \subseteq 1 .. submitted'
        BY <1>0, <1>4, <1>5 DEF TypeOK
      <4> QED
        BY <1>0, <1>7, <3>2, <4>1 DEF ReportInv, Pending
    <3> QED
      BY <3>1, <3>2 DEF Submit, SubmitJob, RecvLog, RecvRequest, Serve, ServeKinds, Finish, mainVars
  <2>2. \A i \in 1 .. submitted' : pc'[i] # "idle"
    <3>1. CASE UNCHANGED <<submitted, pc>>
      BY <1>0, <3>1 DEF ReportInv
    <3>2. CASE Submit
      <4>1. \A i \in 1 .. submitted' : i \in Jobs /\ (i = submitted + 1 \/ i \in 1 .. submitted)
        BY <1>0, <1>5, <3>2 DEF TypeOK, Jobs
      <4> QED
        BY <1>0, <1>5, <3>2, <4>1 DEF ReportInv
    <3> QED
      BY <1>4, <3>1, <3>2
  <2>3. main' # "returned"
    BY DEF Submit, SubmitJob, RecvStart, RecvLog, RecvRequest, Serve, ServeKinds, Finish, mainVars
  <2>4. chan'.line.kind = "Exit" => chan'.line.res = outcome'[chan'.job]
    BY <1>0, <1>1, <1>6 DEF ReportInv, NoEvent, None
  <2>5. main' # "prompt" => main # "prompt"
    BY DEF Submit, SubmitJob, RecvStart, RecvLog, RecvRequest, Serve, ServeKinds, Finish
  <2>6. ErrorsExact'
    BY <1>0, <1>1, <1>7, <2>5, ErrorsStay DEF ReportInv
  <2> QED
    BY <2>1, <2>2, <2>3, <2>4, <2>6 DEF ReportInv
<1> QED
  BY <1>2, <1>3, <1>7, <1>8, <1>9 DEF LoopInv

(* An Exit event: the job is reported with the outcome the event carries.   *)
LEMMA ExitReport ==
  ASSUME RunInv, RecvExit
  PROVE  LoopInv' /\ chan.job \in (1 .. submitted) \ Reported /\ Reported' = Reported \cup {chan.job}
<1> USE WorkerAssumption
<1> DEFINE j == chan.job
<1>0. TypeOK /\ FlowInv /\ ChanInv /\ ServingInv /\ SignalInv /\ ReportInv /\ PoolInv /\ ErrorsExact
  BY DEF RunInv, CountInv, ReportInv
<1>1. chan # NoEvent /\ j \in 1 .. submitted /\ j \in Jobs /\ pc[j] = "done" /\ chan.line.res = outcome[j]
  BY <1>0 DEF RecvExit, TakeExit, NoEvent, None, ChanInv, ReportInv, TypeOK, Jobs
<1>2. j \notin Reported /\ Reported' = Reported \cup {j}
  BY <1>1 DEF RecvExit, TakeExit, Reported, NoEvent, None, jobVars
<1>3. ServingInv' /\ SignalInv' /\ PoolInv'
  BY <1>0 DEF RecvExit, TakeExit, ServingInv, SignalInv, PoolInv, Active, Running, sigVars, jobVars
<1>4. ErrorsExact'
  <2> DEFINE bad == {i \in Reported : outcome[i] # "Ok"}
             broken == {i \in Reported : outcome[i] = "SetupFailed"}
  <2>1. errors = Cardinality(bad) /\ failed = broken /\ UNCHANGED outcome
    BY <1>0 DEF RecvExit, TakeExit, ErrorsExact, jobVars
  <2>2. bad' = IF outcome[j] # "Ok" THEN bad \cup {j} ELSE bad
    BY <1>2, <2>1
  <2>3. broken' = IF outcome[j] = "SetupFailed" THEN broken \cup {j} ELSE broken
    BY <1>2, <2>1
  <2>4. IsFiniteSet(bad) /\ j \notin bad
    <3>1. IsFiniteSet(1 .. submitted) /\ bad \subseteq 1 .. submitted
      BY <1>0, FS_Interval DEF TypeOK, Reported
    <3> QED
      BY <1>2, <3>1, FS_Subset
  <2>5. errors' = IF outcome[j] # "Ok" THEN errors + 1 ELSE errors
    BY <1>1 DEF RecvExit, TakeExit
  <2>6. failed' = IF outcome[j] = "SetupFailed" THEN failed \cup {j} ELSE failed
    BY <1>1 DEF RecvExit, TakeExit
  <2>7. errors' = Cardinality(bad')
    BY <2>1, <2>2, <2>4, <2>5, FS_AddElement
  <2>8. failed' = broken'
    BY <2>1, <2>3, <2>6
  <2> QED
    BY <2>7, <2>8 DEF ErrorsExact
<1>5. ReportInv'
  <2>1. stack' \subseteq Pending'
    BY <1>0, <1>2 DEF RecvExit, TakeExit, ReportInv, Pending
  <2>2. main' = "returned" => submitted' = nargs'
    BY <1>0 DEF RecvExit, TakeExit, FlowInv
  <2>3. chan'.line.kind # "Exit"
    BY DEF RecvExit, TakeExit, NoEvent, None
  <2> QED
    BY <1>0, <1>4, <2>1, <2>2, <2>3 DEF RecvExit, TakeExit, ReportInv, jobVars
<1> QED
  BY <1>1, <1>2, <1>3, <1>5 DEF LoopInv

-----------------------------------------------------------------------------
(* At the prompt of a new process nothing runs.                             *)
LEMMA RunInit == Init => RunInv
<1> SUFFICES ASSUME Init PROVE RunInv
  OBVIOUS
<1>1. CountInv
  BY CountInit
<1>2. ServingInv /\ SignalInv
  BY DEF Init, ServingInv, SignalInv, Running
<1>3. Reported = {} /\ Active = {}
  BY DEF Init, Reported, Active
<1>4. PoolInv
  BY <1>3, FS_EmptySet, WorkerAssumption DEF PoolInv
<1>5. ReportInv
  BY DEF Init, ReportInv, ErrorsExact, NoEvent, None, Pending
<1>6. ASSUME NEW i \in Jobs PROVE LifeInv(i) /\ PlaceInv(i)
  <2>1. LastKind(stdout[i]) = "empty" /\ LogsFirst(stdout[i])
    BY DEF Init, LastKind, LogsFirst
  <2>2. ChanKind(i) = "none" /\ serving.job # i
    BY DEF Init, ChanKind, NoEvent, None, Jobs
  <2>3. LifeInv(i)
    BY <2>1 DEF Init, LifeInv, Reading
  <2>4. PlaceInv(i)
    BY <2>1, <2>2 DEF Init, PlaceInv, InStdout, WithJob, InChan, WithMain, InReply, InStdin,
       Requests, Callbacks
  <2> QED
    BY <2>3, <2>4
<1> QED
  BY <1>1, <1>2, <1>4, <1>5, <1>6 DEF RunInv

(* Every step keeps the invariant of a run.                                 *)
LEMMA RunNext ==
  ASSUME RunInv, [Next]_vars
  PROVE  RunInv'
<1>0. CountInv /\ \A i \in Jobs : LifeInv(i) /\ PlaceInv(i)
  BY DEF RunInv
<1>1. CountInv'
  BY <1>0, CountNext
<1>2. LoopInv'
  BY JobReport, OutsideReport, ExecuteReport, MainReport, ExitReport DEF Next, MainStep, Halt
<1>3. \A i \in Jobs : LifeInv(i)' /\ PlaceInv(i)'
  <2>1. CASE UNCHANGED vars
    <3> SUFFICES ASSUME NEW i \in Jobs PROVE LifeInv(i)' /\ PlaceInv(i)'
      OBVIOUS
    <3>1. Same(i) /\ ChanKind(i)' = ChanKind(i) /\ UNCHANGED <<signals, serving>>
      BY <2>1 DEF vars, mainVars, sigVars, jobVars, childVars, pipeVars, Same, ChanKind
    <3> QED
      BY <1>0, <3>1, SameKeeps
  <2>2. ASSUME NEW n \in 0 .. MaxArgs, Execute(n)
        PROVE  \A i \in Jobs : LifeInv(i)' /\ PlaceInv(i)'
    <3>1. serving' = NoEvent
      BY <2>2 DEF Execute, RunInv, ServingInv
    <3> QED
      BY <2>2, <3>1, FreshKeeps DEF Execute
  <2> QED
    BY <2>1, <2>2, MainKeeps, JobKeeps, ChildKeeps, SignalKeeps DEF Next, Halt
<1> QED
  BY <1>1, <1>2, <1>3 DEF RunInv, LoopInv

(* The invariant holds in every state of every run.                         *)
LEMMA RunHolds == Spec => []RunInv
BY RunInit, RunNext, PTL DEF Spec

-----------------------------------------------------------------------------
(* When spawn has returned the channel is empty, no spinner is left, no     *)
(* pool thread can send any more and no sandbox lives: worker.rs may drop   *)
(* the receiver.                                                            *)
THEOREM QuietHolds == Spec => []QuietAfterReturn
<1>1. RunInv => QuietAfterReturn
  <2> SUFFICES ASSUME RunInv, main \in {"returned", "prompt"}
               PROVE  chan = NoEvent /\ stack = {} /\ \A j \in Jobs : pc[j] \in {"idle", "done"} /\ ~Alive(j)
    BY DEF QuietAfterReturn
  <2>0. TypeOK /\ FlowInv /\ ChanInv /\ ReportInv
    BY DEF RunInv, CountInv
  <2>1. chan = NoEvent /\ \A j \in Jobs : pc[j] \in {"idle", "done"}
    BY <2>0 DEF FlowInv, ChanInv, Running
  <2>2. \A j \in Jobs : ~Alive(j)
    BY <2>1 DEF RunInv, LifeInv, Alive
  <2>3. \A j \in 1 .. submitted : j \in Reported
    BY <2>0, <2>1, WorkerAssumption DEF Reported, ReportInv, TypeOK, Jobs, NoEvent, None
  <2>4. stack = {}
    BY <2>0, <2>3 DEF ReportInv, Pending
  <2> QED
    BY <2>1, <2>2, <2>4
<1> QED
  BY <1>1, RunHolds, PTL

(* The error count that spawn returns, and the list of failures it prints,  *)
(* are those of exactly the jobs that reported, with the outcome each pool  *)
(* thread ended with.                                                       *)
THEOREM ErrorsHold == Spec => []ErrorsExact
BY RunHolds, PTL DEF RunInv, ReportInv

(* A job reports Ok or Err only for a child that exited cleanly (or, Ok, for *)
(* one it never started because of ctrl-c): however the death of the child  *)
(* races with its output, a killed sandbox is a SetupFailed.                *)
THEOREM OutcomeHolds == Spec => []OutcomeHonest
<1>1. RunInv => OutcomeHonest
  BY DEF RunInv, LifeInv, OutcomeHonest
<1> QED
  BY <1>1, RunHolds, PTL

(* A reply that reaches a script is the one to the request it waits for:    *)
(* nothing of an earlier request can be in flight anywhere between child,   *)
(* pool thread and main thread.                                             *)
THEOREM ReplyHolds == Spec => []ReplyMatchesRequest
<1>1. RunInv => ReplyMatchesRequest
  <2> SUFFICES ASSUME RunInv, NEW j \in Jobs
      PROVE  /\ child[j] = "await" /\ stdin[j] # None => stdin[j].kind = want[j]
             /\ child[j] \in {"run", "retry", "closing", "exited"} =>
                  stdin[j] = None /\ reply[j] = None /\ serving.job # j
             /\ reply[j] # None => pc[j] = "callback"
    BY DEF ReplyMatchesRequest
  <2>1. PlaceInv(j)
    BY DEF RunInv
  <2> QED
    BY <2>1 DEF PlaceInv, InReply, InStdin, WithMain
<1> QED
  BY <1>1, RunHolds, PTL

(* The pool bounds the sandbox processes too: a child lives only while its  *)
(* pool thread works for it.                                                *)
THEOREM SandboxesHold == Spec => []SandboxesBounded
<1>1. RunInv => SandboxesBounded
  <2> SUFFICES ASSUME RunInv PROVE SandboxesBounded
    OBVIOUS
  <2>1. {j \in Jobs : Alive(j)} \subseteq Active
    BY DEF RunInv, LifeInv, Alive, Active
  <2>2. Cardinality(Active) <= Threads
    BY DEF RunInv, PoolInv
  <2> QED
    BY <2>1, <2>2, ActiveFinite, WorkerAssumption DEF SandboxesBounded
<1> QED
  BY <1>1, RunHolds, PTL

-----------------------------------------------------------------------------
(* Refinement: the detailed loop implements Batch.                          *)

(* Every step of the system is a step of Batch or changes nothing of it.    *)
LEMMA BatchStep ==
  ASSUME RunInv, [Next]_vars
  PROVE  [B!BatchNext]_(B!batchVars)
<1> DEFINE phase == IF ~alive THEN "off" ELSE IF main = "prompt" THEN "idle" ELSE "busy"
           open  == IF main = "prompt" THEN {} ELSE Unreported
<1> USE WorkerAssumption
<1>0. TypeOK /\ FlowInv /\ ChanInv /\ ReportInv
  BY DEF RunInv, CountInv
<1>1. ASSUME alive, UNCHANGED <<alive, nargs, errors>>, Reported' = Reported,
             main = "prompt" <=> main' = "prompt"
      PROVE  UNCHANGED B!batchVars
  <2>1. Unreported' = Unreported
    BY <1>1 DEF Unreported
  <2> QED
    BY <1>1, <2>1 DEF B!batchVars
<1>2. CASE UNCHANGED vars
  <2>1. UNCHANGED <<alive, main, nargs, submitted, pc, chan, errors>>
    BY <1>2 DEF vars, mainVars, sigVars, jobVars
  <2> QED
    BY <2>1 DEF B!batchVars, Unreported, Reported
<1>3. ASSUME alive, NEW n \in 0 .. MaxArgs, Execute(n)
      PROVE  B!Begin
  <2>1. main = "prompt" /\ main' # "prompt" /\ UNCHANGED alive /\ errors' = 0 /\ nargs' = n
    BY <1>3 DEF Execute
  <2>2. Unreported' \subseteq Jobs
    BY <2>1 DEF Unreported, Jobs
  <2> QED
    BY <1>3, <2>1, <2>2 DEF B!Begin
<1>4. CASE alive /\ RecvExit
  <2>1. /\ chan.job \in (1 .. submitted) \ Reported /\ Reported' = Reported \cup {chan.job}
    BY <1>4, ExitReport
  <2>2. /\ main # "prompt" /\ main' # "prompt" /\ UNCHANGED <<alive, nargs>> /\ submitted = nargs
        /\ errors' \in {errors, errors + 1}
    BY <1>0, <1>4 DEF RecvExit, TakeExit, FlowInv, sigVars
  <2>3. chan.job \in Unreported /\ chan.job \in Jobs /\ Unreported' = Unreported \ {chan.job}
    BY <1>0, <2>1, <2>2 DEF Unreported, TypeOK, Jobs
  <2>4. B!Report(chan.job)
    BY <1>4, <2>2, <2>3 DEF B!Report
  <2> QED
    BY <2>3, <2>4 DEF B!BatchNext
<1>5. CASE alive /\ Finish
  <2>1. main = "returned" /\ main' = "prompt" /\ UNCHANGED <<alive, errors>>
    BY <1>5 DEF Finish
  <2>2. chan = NoEvent /\ submitted = nargs /\ \A j \in Jobs : pc[j] \in {"idle", "done"}
    BY <1>0, <2>1 DEF FlowInv, ChanInv, Running, ReportInv
  <2>3. Unreported = {}
    BY <1>0, <2>2 DEF Unreported, Reported, ReportInv, TypeOK, Jobs, NoEvent, None
  <2>4. B!Return
    BY <1>5, <2>1, <2>3 DEF B!Return
  <2> QED
    BY <2>4 DEF B!BatchNext
<1>6. CASE alive /\ (Submit \/ RecvStart \/ RecvLog \/ RecvRequest \/ Serve)
  <2>1. Reported' = Reported
    BY <1>6, MainReport
  <2>2. UNCHANGED <<alive, nargs, errors>> /\ main # "prompt" /\ main' # "prompt"
    BY <1>6 DEF Submit, SubmitJob, RecvStart, RecvLog, RecvRequest, Serve, ServeKinds, mainVars, sigVars
  <2> QED
    BY <1>1, <1>6, <2>1, <2>2
<1>7. ASSUME alive, NEW j \in Jobs, JobStep(j)
      PROVE  UNCHANGED B!batchVars
  <2>1. Reported' = Reported
    BY <1>7, JobReport
  <2>2. JobMove(j)
    BY <1>7, JobTypes DEF RunInv, CountInv
  <2>3. UNCHANGED <<alive, nargs, errors, main>>
    BY <2>2 DEF JobMove, mainVars, sigVars
  <2> QED
    BY <1>1, <1>7, <2>1, <2>3
<1>8. ASSUME alive, CtrlC \/ \E j \in Jobs : ChildStep(j) \/ ChildCrash(j)
      PROVE  UNCHANGED B!batchVars
  <2>1. Reported' = Reported
    BY <1>8, OutsideReport
  <2>2. UNCHANGED <<alive, nargs, errors, main>>
    BY <1>8 DEF CtrlC, ChildStep, ChildStart, ChildLog, ChildRequest, RequestThen, ChildReply, ChildExit,
       ChildGone, ChildCrash, mainVars, sigVars
  <2> QED
    BY <1>1, <1>8, <2>1, <2>2
<1>9. CASE alive /\ Handle
  <2>1. Reported' = Reported
    BY <1>9, OutsideReport
  <2>2. UNCHANGED <<nargs, errors, main>>
    BY <1>9 DEF Handle, mainVars
  <2>3. open' = open
    BY <2>1, <2>2 DEF Unreported
  <2>4. CASE alive'
    <3>1. phase' = phase
      BY <1>9, <2>2, <2>4
    <3> QED
      BY <2>2, <2>3, <3>1 DEF B!batchVars
  <2>5. CASE ~alive'
    <3>1. phase # "off" /\ phase' = "off"
      BY <1>9, <2>5
    <3>2. B!Quit
      BY <2>2, <2>3, <3>1 DEF B!Quit
    <3> QED
      BY <3>2 DEF B!BatchNext
  <2> QED
    BY <2>4, <2>5
<1> QED
  BY <1>2, <1>3, <1>4, <1>5, <1>6, <1>7, <1>8, <1>9 DEF Next, MainStep, Halt, B!BatchNext

(* The event loop implements what worker::spawn promises: one result per    *)
(* target, in any order, return with the last one, and the number of those  *)
(* that were not Ok.                                                        *)
THEOREM BatchImplemented == Spec => ImplementsBatch
<1>1. Init => B!BatchInit
  BY DEF Init, B!BatchInit
<1>2. RunInv /\ [Next]_vars => [B!BatchNext]_(B!batchVars)
  BY BatchStep
<1> QED
  BY <1>1, <1>2, RunHolds, PTL DEF Spec, ImplementsBatch, B!BatchSpec
=============================================================================
