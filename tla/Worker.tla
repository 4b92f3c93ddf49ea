------------------------------- MODULE Worker -------------------------------
(***************************************************************************)
(* The run of a module over a list of targets: cmd/run_cmd.rs (execute),   *)
(* worker.rs (spawn and its event loop), ipc/parent.rs (one pool thread    *)
(* per target), ipc/child.rs and engine/ctx.rs (the sandbox process that   *)
(* runs the script), shell/mod.rs (the ctrl-c register).                   *)
(*                                                                         *)
(* Three kinds of threads interleave: the main thread (prompt, then the    *)
(* event loop of spawn), a pool thread per running job, and the signal     *)
(* thread.  Every job owns a child process; the two talk over two pipes,   *)
(* and all jobs talk to the main thread over one channel of capacity 1.    *)
(* A request of the script (database, rate limit, blob) travels            *)
(* child -> job thread -> main thread, and its reply the same way back.    *)
(***************************************************************************)
EXTENDS Naturals, Sequences, FiniteSets

CONSTANTS
  MaxArgs,     \* the most targets one run gets
  Threads,     \* params.threads, the size of the thread pool
  MaxOps,      \* bound: events a script sends before it ends
  PipeCap,     \* bound: events that fit in the child's stdout pipe
  MaxRuns,     \* bound: runs started from the prompt
  MaxSignals   \* bound: ctrl-c key presses

ASSUME WorkerAssumption ==
  /\ MaxArgs \in Nat
  /\ Threads \in Nat \ {0}
  /\ MaxOps \in Nat
  /\ PipeCap \in Nat \ {0}
  /\ MaxRuns \in Nat
  /\ MaxSignals \in Nat

VARIABLES
  alive,      \* FALSE once the handler has called process::exit
  register,   \* SignalRegister: 1 not catching or caught, 0 catching
  sigs,       \* signals delivered to the process, handler not run yet
  signals,    \* ctrl-c key presses so far
  runs,       \* runs started so far
  main,       \* where the main thread is
  nargs,      \* args.len()
  submitted,  \* jobs handed to the pool so far
  chan,       \* the bounded(1) channel from the jobs to the main thread
  serving,    \* the request the main thread is applying
  expected,   \* local of spawn: exits still to come
  errors,     \* local of spawn: exits other than Ok
  failed,     \* local of spawn: the jobs whose setup failed
  stack,      \* jobs with a spinner on the screen
  pc,         \* where the pool thread of each job is
  outcome,    \* the ExitEvent the pool thread is going to send
  asked,      \* the request the pool thread has read from its child
  reply,      \* the mpsc channel each pending callback is answered on
  child,      \* the sandbox process of each job
  want,       \* the kind of reply the script waits for
  ops,        \* events the script has sent
  stdin,      \* pipe to the child, at most one line is ever in it
  stdout      \* pipe from the child

mainVars  == <<main, nargs, submitted, serving, expected, errors, failed, stack, runs>>
sigVars   == <<alive, register, sigs, signals>>
jobVars   == <<pc, outcome, asked>>
childVars == <<child, want, ops>>
pipeVars  == <<stdin, stdout>>
vars == <<mainVars, sigVars, jobVars, childVars, pipeVars, chan, reply>>

-----------------------------------------------------------------------------
Jobs == 1 .. MaxArgs

(* Requests answered by the main thread, and the one the job thread answers *)
(* itself (reading the user's stdin).                                       *)
Callbacks == {"Database", "Ratelimit", "Blob"}
Requests  == Callbacks \cup {"Stdio"}

ExitEvents == {"Ok", "Err", "SetupFailed"}

(* What a line on a pipe or an event on the channel says.                   *)
None == [kind |-> "none", res |-> "none"]
Line(k, r) == [kind |-> k, res |-> r]
Lines == [kind : {"none", "Start", "Log", "Exit"} \cup Requests,
          res  : {"none", "Err", "Retry"} \cup ExitEvents]

(* An event on the channel carries the name of its job (EventSender).       *)
NoEvent == [job |-> 0, line |-> None]
Event(j, k, r) == [job |-> j, line |-> Line(k, r)]
Events == [job : 0 .. MaxArgs, line : Lines]

Alive(j) == child[j] \in {"boot", "run", "await", "retry", "closing"}

(* Jobs the pool has taken from its queue and not finished.                 *)
Active == {j \in Jobs : pc[j] \notin {"idle", "queued", "done"}}

-----------------------------------------------------------------------------
Init ==
  /\ alive = TRUE
  /\ register = 1
  /\ sigs = 0
  /\ signals = 0
  /\ runs = 0
  /\ main = "prompt"
  /\ nargs = 0
  /\ submitted = 0
  /\ chan = NoEvent
  /\ serving = NoEvent
  /\ expected = 0
  /\ errors = 0
  /\ failed = {}
  /\ stack = {}
  /\ pc = [j \in Jobs |-> "idle"]
  /\ outcome = [j \in Jobs |-> "Ok"]
  /\ asked = [j \in Jobs |-> "none"]
  /\ reply = [j \in Jobs |-> None]
  /\ child = [j \in Jobs |-> "none"]
  /\ want = [j \in Jobs |-> "none"]
  /\ ops = [j \in Jobs |-> 0]
  /\ stdin = [j \in Jobs |-> None]
  /\ stdout = [j \in Jobs |-> <<>>]

-----------------------------------------------------------------------------
(* The main thread.                                                         *)

(* `run` at the prompt: catch_ctrl, then spawn, which returns at once when  *)
(* there is no target.                                                      *)
Execute(n) ==
  /\ main = "prompt"
  /\ runs < MaxRuns
  /\ runs' = runs + 1
  /\ register' = 0
  /\ main' = IF n = 0 THEN "returned" ELSE "submit"
  /\ nargs' = n
  /\ submitted' = 0
  /\ expected' = 0
  /\ errors' = 0
  /\ failed' = {}
  /\ stack' = {}
  /\ chan' = NoEvent
  /\ pc' = [j \in Jobs |-> "idle"]
  /\ outcome' = [j \in Jobs |-> "Ok"]
  /\ asked' = [j \in Jobs |-> "none"]
  /\ reply' = [j \in Jobs |-> None]
  /\ child' = [j \in Jobs |-> "none"]
  /\ want' = [j \in Jobs |-> "none"]
  /\ ops' = [j \in Jobs |-> 0]
  /\ stdin' = [j \in Jobs |-> None]
  /\ stdout' = [j \in Jobs |-> <<>>]
  /\ UNCHANGED <<alive, sigs, signals, serving>>

(* pool.execute for the next target; the job may start before the next one  *)
(* is submitted.                                                            *)
SubmitJob(counted) ==
  /\ main = "submit"
  /\ submitted' = submitted + 1
  /\ expected' = counted
  /\ pc' = [pc EXCEPT ![submitted + 1] = "queued"]
  /\ main' = IF submitted + 1 = nargs THEN "select" ELSE "submit"
  /\ UNCHANGED <<nargs, serving, errors, failed, stack, runs, sigVars, outcome, asked,
                 childVars, pipeVars, chan, reply>>

MutSubmitUncounted == SubmitJob(expected)
Submit == SubmitJob(expected + 1)

(* select! receives an event that needs no answer.                          *)
RecvStart ==
  /\ main = "select"
  /\ chan.line.kind = "Start"
  /\ stack' = stack \cup {chan.job}
  /\ chan' = NoEvent
  /\ UNCHANGED <<main, nargs, submitted, serving, expected, errors, failed, runs,
                 sigVars, jobVars, childVars, pipeVars, reply>>

RecvLog ==
  /\ main = "select"
  /\ chan.line.kind = "Log"
  /\ chan' = NoEvent
  /\ UNCHANGED <<mainVars, sigVars, jobVars, childVars, pipeVars, reply>>

(* select! receives a request: db.apply, ratelimit.pass or store_blob runs  *)
(* in the main thread, which takes nothing from the channel meanwhile (a    *)
(* database change may run notification scripts first).                     *)
RecvRequest ==
  /\ main = "select"
  /\ chan.line.kind \in Callbacks
  /\ main' = "apply"
  /\ serving' = chan
  /\ chan' = NoEvent
  /\ UNCHANGED <<nargs, submitted, expected, errors, failed, stack, runs,
                 sigVars, jobVars, childVars, pipeVars, reply>>

(* The answer of the handler.  Only the rate limiter tells a script to come *)
(* back later; MaxOps bounds how often (Ratelimiter shows that it passes).  *)
Answers(j, k) ==
  IF k = "Ratelimit"
  THEN IF ops[j] < MaxOps THEN {"Ok", "Retry"} ELSE {"Ok"}
  ELSE {"Ok", "Err"}

ServeKinds(answered) ==
  /\ main = "apply"
  /\ IF serving.line.kind \in answered
     THEN \E r \in Answers(serving.job, serving.line.kind) :
            reply' = [reply EXCEPT ![serving.job] = Line(serving.line.kind, r)]
     ELSE UNCHANGED reply
  /\ serving' = NoEvent
  /\ main' = "select"
  /\ UNCHANGED <<nargs, submitted, expected, errors, failed, stack, runs,
                 sigVars, jobVars, childVars, pipeVars, chan>>

MutServeBlobUnanswered == ServeKinds(Callbacks \ {"Blob"})
Serve == ServeKinds(Callbacks)

TakeExit(isError, left) ==
  /\ main = "select"
  /\ chan.line.kind = "Exit"
  /\ stack' = stack \ {chan.job}
  /\ errors' = IF isError THEN errors + 1 ELSE errors
  /\ failed' = failed \cup {j \in {chan.job} : chan.line.res = "SetupFailed"}
  /\ expected' = left
  /\ main' = IF left = 0 THEN "returned" ELSE "select"
  /\ chan' = NoEvent
  /\ UNCHANGED <<nargs, submitted, serving, runs, sigVars, jobVars, childVars,
                 pipeVars, reply>>

MutExitSetupNotCounted == TakeExit(chan.line.res = "Err", expected - 1)
MutExitKeepsExpecting ==
  TakeExit(chan.line.res # "Ok",
           IF chan.line.res = "Err" THEN expected ELSE expected - 1)
MutExitGivesUp ==
  TakeExit(chan.line.res # "Ok",
           IF chan.line.res = "SetupFailed" THEN 0 ELSE expected - 1)

(* An Exit event: every result other than Ok is an error, and spawn returns *)
(* when every job has reported.                                             *)
RecvExit == TakeExit(chan.line.res # "Ok", expected - 1)

(* spawn has returned to execute: reset_ctrlc, report, back to the prompt.  *)
Finish ==
  /\ main = "returned"
  /\ register' = 1
  /\ main' = "prompt"
  /\ UNCHANGED <<nargs, submitted, serving, expected, errors, failed, stack, runs,
                 alive, sigs, signals, jobVars, childVars, pipeVars, chan, reply>>

MainStep == Submit \/ RecvStart \/ RecvLog \/ RecvRequest \/ Serve \/ RecvExit \/ Finish

-----------------------------------------------------------------------------
(* The pool thread of job j.                                                *)

(* The pool's queue is FIFO.  The first thing a job does is look at the     *)
(* register: after ctrl-c it reports Ok without running anything.           *)
JobBegin(j) ==
  /\ pc[j] = "queued"
  /\ \A i \in Jobs : i < j => pc[i] # "queued"
  /\ Cardinality(Active) < Threads
  /\ pc' = [pc EXCEPT ![j] = IF register = 1 THEN "send_exit" ELSE "send_start"]
  /\ outcome' = [outcome EXCEPT ![j] = "Ok"]
  /\ UNCHANGED <<mainVars, sigVars, asked, childVars, pipeVars, chan, reply>>

(* tx.send blocks while the channel is full.                                *)
Send(j, at, k, r, then) ==
  /\ pc[j] = at
  /\ chan = NoEvent
  /\ chan' = Event(j, k, r)
  /\ pc' = [pc EXCEPT ![j] = then]
  /\ UNCHANGED <<mainVars, sigVars, outcome, asked, childVars, pipeVars, reply>>

SendStart(j) == Send(j, "send_start", "Start", "none", "setup")
SendLog(j)   == Send(j, "send_log", "Log", "none", "recv")
SendErr(j)   == Send(j, "send_err", "Log", "none", "wait")
SendRequest(j) ==
  Send(j, "send_request", asked[j], "none", "callback")
SendExit(j)  == Send(j, "send_exit", "Exit", outcome[j], "done")

(* ipc::parent::run gives up with an error: spawn turns it into SetupFailed. *)
Fail(j) ==
  /\ pc' = [pc EXCEPT ![j] = "send_exit"]
  /\ outcome' = [outcome EXCEPT ![j] = "SetupFailed"]

(* The resolver cannot be set up or the process cannot be spawned.          *)
SetupFail(j) ==
  /\ pc[j] = "setup"
  /\ Fail(j)
  /\ UNCHANGED <<mainVars, sigVars, asked, childVars, pipeVars, chan, reply>>

Setup(j) ==
  /\ pc[j] = "setup"
  /\ child' = [child EXCEPT ![j] = "boot"]
  /\ pc' = [pc EXCEPT ![j] = "send_command"]
  /\ UNCHANGED <<mainVars, sigVars, outcome, asked, want, ops, pipeVars, chan, reply>>

(* send_start writes the StartCommand; the write fails when the child died. *)
SendCommand(j) ==
  /\ pc[j] = "send_command"
  /\ IF child[j] = "dead"
     THEN /\ Fail(j)
          /\ UNCHANGED stdin
     ELSE /\ stdin' = [stdin EXCEPT ![j] = Line("Start", "none")]
          /\ pc' = [pc EXCEPT ![j] = "recv"]
          /\ UNCHANGED outcome
  /\ UNCHANGED <<mainVars, sigVars, asked, childVars, stdout, chan, reply>>

(* recv reads the next line of the child, and the loop dispatches on it.    *)
Recv(j, kinds) ==
  /\ pc[j] = "recv"
  /\ stdout[j] # <<>>
  /\ Head(stdout[j]).kind \in kinds
  /\ stdout' = [stdout EXCEPT ![j] = Tail(@)]

RecvChildLog(j) ==
  /\ Recv(j, {"Log"})
  /\ pc' = [pc EXCEPT ![j] = "send_log"]
  /\ UNCHANGED <<mainVars, sigVars, outcome, asked, childVars, stdin, chan, reply>>

RecvChildRequest(j) ==
  /\ Recv(j, Callbacks)
  /\ asked' = [asked EXCEPT ![j] = Head(stdout[j]).kind]
  /\ pc' = [pc EXCEPT ![j] = "send_request"]
  /\ UNCHANGED <<mainVars, sigVars, outcome, childVars, stdin, chan, reply>>

(* A Stdio request is answered by the job thread from the user's input.     *)
RecvChildStdio(j) ==
  /\ Recv(j, {"Stdio"})
  /\ \E r \in {"Ok", "Err"} : reply' = [reply EXCEPT ![j] = Line("Stdio", r)]
  /\ pc' = [pc EXCEPT ![j] = "callback"]
  /\ UNCHANGED <<mainVars, sigVars, outcome, asked, childVars, stdin, chan>>

(* Exit ends the loop; an Err is logged first, and then the child is waited *)
(* for.                                                                     *)
RecvChildExit(j) ==
  /\ Recv(j, {"Exit"})
  /\ outcome' = [outcome EXCEPT ![j] = Head(stdout[j]).res]
  /\ pc' = [pc EXCEPT ![j] = IF outcome'[j] = "Err" THEN "send_err" ELSE "wait"]
  /\ UNCHANGED <<mainVars, sigVars, asked, childVars, stdin, chan, reply>>

(* recv fails: the child is gone and everything it wrote has been read.     *)
Eof(j, gone) ==
  /\ pc[j] = "recv"
  /\ stdout[j] = <<>>
  /\ child[j] \in gone
  /\ Fail(j)
  /\ UNCHANGED <<mainVars, sigVars, asked, childVars, pipeVars, chan, reply>>

MutEofOnlyCleanExit(j) == Eof(j, {"exited"})
RecvEof(j) == Eof(j, {"dead", "exited"})

(* The answer arrives on rx2 and is written to the child.  A failing write  *)
(* is only logged; the next recv finds the end of the file.                 *)
Forward(j) ==
  /\ pc[j] = "callback"
  /\ reply[j] # None
  /\ reply' = [reply EXCEPT ![j] = None]
  /\ IF child[j] = "dead"
     THEN /\ pc' = [pc EXCEPT ![j] = "send_log"]
          /\ UNCHANGED stdin
     ELSE /\ stdin' = [stdin EXCEPT ![j] = reply[j]]
          /\ pc' = [pc EXCEPT ![j] = "recv"]
  /\ UNCHANGED <<mainVars, sigVars, outcome, asked, childVars, stdout, chan>>

(* child.wait: a child that did not exit with status 0 is an error, even    *)
(* when it has reported its result.                                         *)
WaitFor(j, gone, success) ==
  /\ pc[j] = "wait"
  /\ child[j] \in gone
  /\ IF child[j] \in success
     THEN pc' = [pc EXCEPT ![j] = "send_exit"] /\ UNCHANGED outcome
     ELSE Fail(j)
  /\ UNCHANGED <<mainVars, sigVars, asked, childVars, pipeVars, chan, reply>>

MutWaitIgnoresStatus(j) == WaitFor(j, {"exited", "dead"}, {"exited", "dead"})
MutWaitSkipped(j) == WaitFor(j, {"exited", "dead", "closing"}, {"exited", "closing"})
Wait(j) == WaitFor(j, {"exited", "dead"}, {"exited"})

JobStep(j) ==
  \/ JobBegin(j) \/ SendStart(j) \/ SetupFail(j) \/ Setup(j) \/ SendCommand(j)
  \/ RecvChildLog(j) \/ RecvChildRequest(j) \/ RecvChildStdio(j) \/ RecvChildExit(j)
  \/ RecvEof(j) \/ SendLog(j) \/ SendErr(j) \/ SendRequest(j) \/ Forward(j)
  \/ Wait(j) \/ SendExit(j)

-----------------------------------------------------------------------------
(* The sandbox process of job j.                                            *)

(* One line on stdout; the write blocks while the pipe is full.             *)
Write(j, line) ==
  /\ Len(stdout[j]) < PipeCap
  /\ stdout' = [stdout EXCEPT ![j] = Append(@, line)]

(* recv_start: the StartCommand arrives and the script begins.              *)
ChildStart(j) ==
  /\ child[j] = "boot"
  /\ stdin[j].kind = "Start"
  /\ stdin' = [stdin EXCEPT ![j] = None]
  /\ child' = [child EXCEPT ![j] = "run"]
  /\ UNCHANGED <<mainVars, sigVars, jobVars, want, ops, stdout, chan, reply>>

(* info, debug, error, ...: a log line needs no answer.                     *)
ChildLog(j) ==
  /\ child[j] = "run"
  /\ ops[j] < MaxOps
  /\ ops' = [ops EXCEPT ![j] = @ + 1]
  /\ Write(j, Line("Log", "none"))
  /\ UNCHANGED <<mainVars, sigVars, jobVars, child, want, stdin, chan, reply>>

(* db_insert, db_select, ..., ratelimit, persist_blob, stdin_readline: send *)
(* the request, then block in recv.  After Retry the same request is sent   *)
(* again.                                                                   *)
RequestThen(j, k, state) ==
  /\ \/ child[j] = "run"
     \/ child[j] = "retry" /\ k = "Ratelimit"
  /\ ops[j] < MaxOps
  /\ ops' = [ops EXCEPT ![j] = @ + 1]
  /\ Write(j, Line(k, "none"))
  /\ child' = [child EXCEPT ![j] = state]
  /\ want' = [want EXCEPT ![j] = k]
  /\ UNCHANGED <<mainVars, sigVars, jobVars, stdin, chan, reply>>

MutRequestBlobNotAwaited(j, k) == RequestThen(j, k, IF k = "Blob" THEN "run" ELSE "await")
ChildRequest(j, k) == RequestThen(j, k, "await")

ChildReply(j) ==
  /\ child[j] = "await"
  /\ stdin[j] # None
  /\ stdin' = [stdin EXCEPT ![j] = None]
  /\ child' = [child EXCEPT ![j] = IF stdin[j].res = "Retry" THEN "retry" ELSE "run"]
  /\ UNCHANGED <<mainVars, sigVars, jobVars, want, ops, stdout, chan, reply>>

(* The script returned; child::run sends the result and main returns.       *)
ChildExit(j) ==
  /\ child[j] = "run"
  /\ child' = [child EXCEPT ![j] = "closing"]
  /\ \E r \in {"Ok", "Err"} : Write(j, Line("Exit", r))
  /\ UNCHANGED <<mainVars, sigVars, jobVars, want, ops, stdin, chan, reply>>

ChildGone(j) ==
  /\ child[j] = "closing"
  /\ child' = [child EXCEPT ![j] = "exited"]
  /\ UNCHANGED <<mainVars, sigVars, jobVars, want, ops, pipeVars, chan, reply>>

(* A panic, an abort in the sandbox or a kill from outside.  A line that    *)
(* was cut short cannot be parsed and counts as not written.                *)
ChildCrash(j) ==
  /\ Alive(j)
  /\ child' = [child EXCEPT ![j] = "dead"]
  /\ UNCHANGED <<mainVars, sigVars, jobVars, want, ops, pipeVars, chan, reply>>

ChildStep(j) ==
  \/ ChildStart(j) \/ ChildLog(j) \/ (\E k \in Requests : ChildRequest(j, k))
  \/ ChildReply(j) \/ ChildExit(j) \/ ChildGone(j)

-----------------------------------------------------------------------------
(* Ctrl-c: the terminal signals the whole process group, so every child     *)
(* dies at once, and the handler of this process runs in a thread of its    *)
(* own some time later.  At the prompt rustyline reads the key itself.      *)
CtrlC ==
  /\ main # "prompt"
  /\ signals < MaxSignals
  /\ signals' = signals + 1
  /\ sigs' = sigs + 1
  /\ child' = [j \in Jobs |-> IF Alive(j) THEN "dead" ELSE child[j]]
  /\ UNCHANGED <<alive, register, mainVars, jobVars, want, ops, pipeVars, chan, reply>>

(* add_ctrlc; the process exits when the register was 1 before.             *)
Handle ==
  /\ sigs > 0
  /\ sigs' = sigs - 1
  /\ register' = register + 1
  /\ alive' = (register # 1)
  /\ UNCHANGED <<signals, mainVars, jobVars, childVars, pipeVars, chan, reply>>

(* The user is done, or the process is gone.                                *)
Halt ==
  /\ ~alive \/ (main = "prompt" /\ runs = MaxRuns /\ sigs = 0)
  /\ UNCHANGED vars

Next ==
  \/ /\ alive
     /\ \/ \E n \in 0 .. MaxArgs : Execute(n)
        \/ MainStep
        \/ \E j \in Jobs : JobStep(j)
        \/ \E j \in Jobs : ChildStep(j)
        \/ \E j \in Jobs : ChildCrash(j)
        \/ CtrlC
        \/ Handle
  \/ Halt

Spec == Init /\ [][Next]_vars

(* The scheduler runs every thread and every process that can run.  Nothing *)
(* makes the user type, press ctrl-c or a child crash.                      *)
Fairness ==
  /\ WF_vars(alive /\ MainStep)
  /\ WF_vars(alive /\ Handle)
  /\ \A j \in Jobs : WF_vars(alive /\ JobStep(j)) /\ WF_vars(alive /\ ChildStep(j))

FairSpec == Spec /\ Fairness

-----------------------------------------------------------------------------
(* Properties.                                                              *)

JobStates == {"idle", "queued", "send_start", "setup", "send_command", "recv",
              "send_log", "send_request", "callback", "send_err", "wait",
              "send_exit", "done"}
ChildStates == {"none", "boot", "run", "await", "retry", "closing", "exited", "dead"}

TypeOK ==
  /\ alive \in BOOLEAN /\ register \in 0 .. 2
  /\ sigs \in Nat /\ signals \in Nat /\ runs \in Nat
  /\ main \in {"prompt", "submit", "select", "apply", "returned"}
  /\ nargs \in 0 .. MaxArgs /\ submitted \in 0 .. MaxArgs
  /\ chan \in Events /\ serving \in Events
  /\ expected \in Nat /\ errors \in Nat
  /\ failed \subseteq Jobs /\ stack \subseteq Jobs
  /\ pc \in [Jobs -> JobStates]
  /\ outcome \in [Jobs -> ExitEvents]
  /\ asked \in [Jobs -> Callbacks \cup {"none"}]
  /\ reply \in [Jobs -> Lines] /\ stdin \in [Jobs -> Lines]
  /\ child \in [Jobs -> ChildStates]
  /\ want \in [Jobs -> Requests \cup {"none"}]
  /\ ops \in [Jobs -> Nat]
  /\ stdout \in [Jobs -> Seq(Lines)]

(* Jobs the main thread has taken the Exit event of, and the others.        *)
Reported == {j \in 1 .. submitted : pc[j] = "done" /\ ~(chan.job = j /\ chan.line.kind = "Exit")}
Unreported == (1 .. nargs) \ Reported

(* Every job reports back exactly once, and spawn's countdown is the number *)
(* of jobs that still have to: it can neither reach 0 early nor stay above. *)
Accounting ==
  main \in {"submit", "select", "apply"} =>
    expected = Cardinality((1 .. submitted) \ Reported)

(* When spawn has returned no pool thread can send any more: the receiver   *)
(* is gone and EventSender::send would panic on it.  No sandbox outlives    *)
(* the run and no spinner stays on the screen.                              *)
QuietAfterReturn ==
  main \in {"returned", "prompt"} =>
    /\ chan = NoEvent
    /\ stack = {}
    /\ \A j \in Jobs : pc[j] \in {"idle", "done"} /\ ~Alive(j)

(* The number of errors spawn returns, and the failures it prints, are      *)
(* those of the jobs that reported.                                         *)
ErrorsExact ==
  main # "prompt" =>
    /\ errors = Cardinality({j \in Reported : outcome[j] # "Ok"})
    /\ failed = {j \in Reported : outcome[j] = "SetupFailed"}

(* A job that reports Ok either ran its script in a child that exited       *)
(* cleanly, or never started one because of ctrl-c; a child that crashed or *)
(* was interrupted is always reported as SetupFailed.                       *)
OutcomeHonest ==
  \A j \in Jobs : pc[j] \in {"send_exit", "done"} =>
    CASE child[j] = "none"   -> outcome[j] = "SetupFailed" \/ (outcome[j] = "Ok" /\ signals > 0)
      [] child[j] = "exited" -> outcome[j] \in {"Ok", "Err"}
      [] child[j] = "dead"   -> outcome[j] = "SetupFailed"
      [] OTHER               -> FALSE

(* The protocol between script and parent has no request numbers: a reply   *)
(* belongs to the request the script is blocked on because nothing else can *)
(* be in flight.                                                            *)
ReplyMatchesRequest ==
  \A j \in Jobs :
    /\ child[j] = "await" /\ stdin[j] # None => stdin[j].kind = want[j]
    /\ child[j] \in {"run", "retry", "closing", "exited"} =>
         stdin[j] = None /\ reply[j] = None /\ serving.job # j
    /\ reply[j] # None => pc[j] = "callback"

(* The pool bounds the sandbox processes, not only the threads.             *)
SandboxesBounded == Cardinality({j \in Jobs : Alive(j)}) <= Threads

-----------------------------------------------------------------------------
(* Refinement: the event loop implements Batch.                             *)
B == INSTANCE Batch WITH
       Args  <- Jobs,
       phase <- IF ~alive THEN "off" ELSE IF main = "prompt" THEN "idle" ELSE "busy",
       open  <- IF main = "prompt" THEN {} ELSE Unreported,
       count <- errors

(* spawn takes one result per target and returns when it has all of them.   *)
ImplementsBatch == B!BatchSpec

(* A run ends: with every target reported, or with the process.  Needs that *)
(* no thread waits for another in a circle, however children die.           *)
RunEnds == (main # "prompt") ~> (main = "prompt" \/ ~alive)

(* A script that asks gets its answer, unless its process dies.             *)
RequestAnswered == \A j \in Jobs : (child[j] = "await") ~> (child[j] # "await" \/ ~alive)
=============================================================================
