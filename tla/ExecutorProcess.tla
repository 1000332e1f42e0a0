-------------------------- MODULE ExecutorProcess --------------------------
(***************************************************************************)
(* One executor process of the component server                            *)
(* (mpf_cli_executor_process.py) with the manager that feeds it            *)
(* (ExecutorProcessManager in mpf_cli_server.py) and the clients of the    *)
(* jobs it is given.                                                       *)
(*                                                                         *)
(* The executor has two threads.  The runner takes a job from the socket   *)
(* shared with the server, runs it and replies to the client.  The         *)
(* watcher, the main thread, blocks in recv on the client's socket, so     *)
(* that a client that leaves ends the process even when the component is   *)
(* busy in native code.  JobSync keeps the two in step with two barriers   *)
(* (threading.Barrier, of the Python library) and one lock; every section  *)
(* under the lock is one step here.                                        *)
(***************************************************************************)
EXTENDS Naturals, FiniteSets

CONSTANTS
    Jobs,               \* the jobs clients may ask for, each with its own socket
    NoJob,              \* Python's None, in the place of a client socket
    Failing,            \* the jobs whose component or media handling may raise
    Malformed,          \* the jobs whose request may fail to parse, or its streams to close
    IdleTimeoutEnabled, \* FALSE: COMPONENT_SERVER_IDLE_TIMEOUT is negative
    ServerIsInit,       \* TRUE: the server is pid 1 of its container
    Terminal            \* TRUE: server and executors are a terminal's foreground processes

ASSUME JobsAssumption == /\ NoJob \notin Jobs
                         /\ Failing \subseteq Jobs
                         /\ Malformed \subseteq Jobs
ASSUME ModeAssumption == /\ IdleTimeoutEnabled \in BOOLEAN
                         /\ ServerIsInit \in BOOLEAN
                         /\ Terminal \in BOOLEAN

VARIABLES
    pc,               \* where each thread is
    barrier,          \* the state of each barrier of JobSync
    clientSocket,     \* JobSync._client_socket
    isJobActive,      \* JobSync._is_job_active
    job,              \* the job in the runner's hands
    watched,          \* the job whose socket the watcher was given last
    component,        \* ExecutorProcess._component
    runnerException,  \* runner_exception in run_jobs is not None
    watcherException, \* what run_jobs caught from _check_close, if not a broken barrier
    outcome,          \* how the process decided to exit
    conn,             \* the server side of each client's socket
    answer,           \* the byte sent to each client
    client,           \* each client process
    ran,              \* whether the component completed the job
    idleBytes,        \* bytes the executor sent and its manager has not read
    believedIdle,     \* ExecutorProcessManager._is_idle
    brokenPipe,       \* ExecutorProcessManager._broken_pipe
    server,           \* the server process
    signals           \* the signals pending at the executor

threadVars  == <<pc, barrier, clientSocket, isJobActive, job, watched>>
processVars == <<component, runnerException, watcherException, outcome>>
jobVars     == <<conn, answer, client, ran>>
serverVars  == <<idleBytes, believedIdle, brokenPipe, server, signals>>
vars == <<threadVars, processVars, jobVars, serverVars>>

Threads  == {"runner", "watcher"}
Barriers == {"begin", "end"}

Waiting(b)  == IF b = "begin" THEN "beginWait" ELSE "endWait"
Other(t)    == IF t = "runner" THEN "watcher" ELSE "runner"
\* Where a thread goes on from a barrier it has passed.
Passed(t, b) == CASE t = "runner"  /\ b = "begin" -> "init"
                  [] t = "runner"  /\ b = "end"   -> "clear"
                  [] t = "watcher" /\ b = "begin" -> "expose"
                  [] t = "watcher" /\ b = "end"   -> "begin"

AtBarrier == {"begin", "beginWait", "end", "endWait"}
RunnerPCs == AtBarrier \cup {"select", "request", "init", "run", "deactivate", "clear",
                             "reply", "idle", "closing", "done", "gone"}
Watching  == AtBarrier \cup {"expose", "recv", "blocked", "check"}
TearDown  == {"closeComponent", "closeSocket", "exit"}
WatcherPCs == Watching \cup TearDown \cup {"join", "gone"}

\* The executor's end of the socket pair shared with the server is open.
ParentSocketOpen == pc["watcher"] \notin {"exit", "gone"}
Queued == {j \in Jobs : conn[j] = "queued"}

Init ==
    /\ pc = [t \in Threads |-> IF t = "runner" THEN "select" ELSE "begin"]
    /\ barrier = [b \in Barriers |-> "filling"]
    /\ clientSocket = NoJob
    /\ isJobActive = FALSE
    /\ job = NoJob
    /\ watched = NoJob
    /\ component = "none"
    /\ runnerException = FALSE
    /\ watcherException = "none"
    /\ outcome = "running"
    /\ conn = [j \in Jobs |-> "server"]
    /\ answer = [j \in Jobs |-> "none"]
    /\ client = [j \in Jobs |-> "waiting"]
    /\ ran = [j \in Jobs |-> "no"]
    /\ idleBytes = 0
    /\ believedIdle = TRUE
    /\ brokenPipe = FALSE
    /\ server = "serving"
    /\ signals = {}

-----------------------------------------------------------------------------
(* threading.Barrier(2).  The second party to arrive releases the barrier  *)
(* and goes on at once; the barrier is then draining until the first party *)
(* has woken up, and a thread that arrives meanwhile blocks.  abort breaks *)
(* the barrier for good: whoever is in it or comes to it gets              *)
(* BrokenBarrierError, a party that was released but not yet awake too.    *)

Goto(t, l) == pc' = [pc EXCEPT ![t] = l]
Move(t, l) == /\ Goto(t, l)
              /\ UNCHANGED <<barrier, clientSocket, isJobActive, job, watched,
                             processVars, jobVars, serverVars>>
BreakBarriers == barrier' = [b \in Barriers |-> "broken"]

ArriveFirst(t, b) ==
    /\ pc[t] = b
    /\ barrier[b] = "filling"
    /\ pc[Other(t)] # Waiting(b)
    /\ Move(t, Waiting(b))

ArriveSecond(t, b) ==
    /\ pc[t] = b
    /\ barrier[b] = "filling"
    /\ pc[Other(t)] = Waiting(b)
    /\ barrier' = [barrier EXCEPT ![b] = "draining"]
    /\ Goto(t, Passed(t, b))
    /\ UNCHANGED <<clientSocket, isJobActive, job, watched,
                   processVars, jobVars, serverVars>>

Wake(t, b) ==
    /\ pc[t] = Waiting(b)
    /\ barrier[b] = "draining"
    /\ barrier' = [barrier EXCEPT ![b] = "filling"]
    /\ Goto(t, Passed(t, b))
    /\ UNCHANGED <<clientSocket, isJobActive, job, watched,
                   processVars, jobVars, serverVars>>

\* JobRequest.__exit__ runs config_job_logging, whose handler logs the
\* BrokenBarrierError and drops it: the runner goes on to reply to the client.
RunnerFindsBroken(b) ==
    /\ pc["runner"] \in {b, Waiting(b)}
    /\ barrier[b] = "broken"
    /\ Move("runner", "reply")

\* The watcher leaves _check_close, whose closing(job_sync) aborts both
\* barriers, and run_jobs joins the runner.
WatcherFindsBroken(b) ==
    /\ pc["watcher"] \in {b, Waiting(b)}
    /\ barrier[b] = "broken"
    /\ BreakBarriers
    /\ Goto("watcher", "join")
    /\ UNCHANGED <<clientSocket, isJobActive, job, watched,
                   processVars, jobVars, serverVars>>

-----------------------------------------------------------------------------
(* The runner: _run_jobs, _run_job, _recv_client_socket, begin_process_job *)

\* select reports the parent socket, recv_fds takes the client's socket.
TakeJob(j) ==
    /\ pc["runner"] = "select"
    /\ ParentSocketOpen
    /\ conn[j] = "queued"
    /\ job' = j
    /\ conn' = [conn EXCEPT ![j] = "open"]
    /\ Goto("runner", "request")
    /\ UNCHANGED <<barrier, clientSocket, isJobActive, watched, processVars,
                   answer, client, ran, serverVars>>

\* At the end of the stream recv_fds returns no descriptor: an IndexError,
\* outside the section that replies to the client.
ParentGone ==
    /\ pc["runner"] = "select"
    /\ ParentSocketOpen
    /\ Queued = {}
    /\ server = "gone"
    /\ runnerException' = TRUE
    /\ Goto("runner", "closing")
    /\ UNCHANGED <<barrier, clientSocket, isJobActive, job, watched, component,
                   watcherException, outcome, jobVars, serverVars>>

IdleTimeout ==
    /\ IdleTimeoutEnabled
    /\ pc["runner"] = "select"
    /\ ParentSocketOpen
    /\ Queued = {}
    /\ server # "gone"
    /\ Move("runner", "closing")

\* The request is read and parsed; JobSync then has the job's socket.
AcceptRequest ==
    /\ pc["runner"] = "request"
    /\ clientSocket' = job
    /\ isJobActive' = TRUE
    /\ Goto("runner", "begin")
    /\ UNCHANGED <<barrier, job, watched, processVars, jobVars, serverVars>>

\* Mutated RejectRequest: the zero byte is sent on the way out of an error too.
RejectRequest_AnswersZero ==
    /\ pc["runner"] = "request"
    /\ job \in Malformed \/ client[job] # "waiting"
    /\ answer' = [answer EXCEPT ![job] = IF client[job] = "waiting" THEN "zero" ELSE @]
    /\ conn' = [conn EXCEPT ![job] = "closed"]
    /\ runnerException' = TRUE
    /\ Goto("runner", "closing")
    /\ UNCHANGED <<barrier, clientSocket, isJobActive, job, watched, component,
                   watcherException, outcome, client, ran, serverVars>>

\* JobRequest.__init__ raises: bad arguments, --help, a client that left in
\* the middle of its request.  The one byte is sent unless the client left
\* (the send then raises too), and the exception ends the runner.
RejectRequest ==
    /\ pc["runner"] = "request"
    /\ job \in Malformed \/ client[job] # "waiting"
    /\ answer' = [answer EXCEPT ![job] = IF client[job] = "waiting" THEN "one" ELSE @]
    /\ conn' = [conn EXCEPT ![job] = "closed"]
    /\ runnerException' = TRUE
    /\ Goto("runner", "closing")
    /\ UNCHANGED <<barrier, clientSocket, isJobActive, job, watched, component,
                   watcherException, outcome, client, ran, serverVars>>

InitComponent ==
    /\ pc["runner"] = "init"
    /\ component' = IF component = "none" THEN "loaded" ELSE component
    /\ Goto("runner", "run")
    /\ UNCHANGED <<barrier, clientSocket, isJobActive, job, watched, runnerException,
                   watcherException, outcome, jobVars, serverVars>>

RunComponent ==
    /\ pc["runner"] = "run"
    /\ ran' = [ran EXCEPT ![job] = "ok"]
    /\ Goto("runner", "deactivate")
    /\ UNCHANGED <<barrier, clientSocket, isJobActive, job, watched, processVars,
                   conn, answer, client, serverVars>>

\* An exception skips the rest of begin_process_job, which has no finally,
\* and is dropped by config_job_logging: the runner goes on to reply.
JobRaises ==
    /\ pc["runner"] \in {"init", "run"}
    /\ job \in Failing
    /\ ran' = [ran EXCEPT ![job] = "failed"]
    /\ Goto("runner", "reply")
    /\ UNCHANGED <<barrier, clientSocket, isJobActive, job, watched, processVars,
                   conn, answer, client, serverVars>>

\* Mutated Deactivate: shutdown alone, the job stays active.
Deactivate_StaysActive ==
    /\ pc["runner"] = "deactivate"
    /\ conn' = [conn EXCEPT ![clientSocket] = "shut"]
    /\ Goto("runner", "end")
    /\ UNCHANGED <<barrier, clientSocket, isJobActive, job, watched, processVars,
                   answer, client, ran, serverVars>>

\* Mutated Deactivate: no second barrier.
Deactivate_NoEndBarrier ==
    /\ pc["runner"] = "deactivate"
    /\ isJobActive' = FALSE
    /\ conn' = [conn EXCEPT ![clientSocket] = "shut"]
    /\ Goto("runner", "clear")
    /\ UNCHANGED <<barrier, clientSocket, job, watched, processVars,
                   answer, client, ran, serverVars>>

\* Under the lock: the job is no longer active, then SHUT_RD unblocks recv.
Deactivate ==
    /\ pc["runner"] = "deactivate"
    /\ isJobActive' = FALSE
    /\ conn' = [conn EXCEPT ![clientSocket] = "shut"]
    /\ Goto("runner", "end")
    /\ UNCHANGED <<barrier, clientSocket, job, watched, processVars,
                   answer, client, ran, serverVars>>

ClearSocket ==
    /\ pc["runner"] = "clear"
    /\ clientSocket' = NoJob
    /\ Goto("runner", "reply")
    /\ UNCHANGED <<barrier, isJobActive, job, watched, processVars, jobVars, serverVars>>

\* The request's streams are closed, the zero byte is sent, the socket closed.
Reply ==
    /\ pc["runner"] = "reply"
    /\ client[job] = "waiting"
    /\ answer' = [answer EXCEPT ![job] = "zero"]
    /\ conn' = [conn EXCEPT ![job] = "closed"]
    /\ Goto("runner", "idle")
    /\ UNCHANGED <<barrier, clientSocket, isJobActive, job, watched, processVars,
                   client, ran, serverVars>>

\* The exception that ends the runner: flushing the log to a stderr the client
\* has closed (the one byte is then sent), or the send to a client that left.
ReplyFails ==
    /\ pc["runner"] = "reply"
    /\ job \in Malformed \/ client[job] # "waiting"
    /\ answer' = [answer EXCEPT ![job] = IF client[job] = "waiting" THEN "one" ELSE @]
    /\ conn' = [conn EXCEPT ![job] = "closed"]
    /\ runnerException' = TRUE
    /\ Goto("runner", "closing")
    /\ UNCHANGED <<barrier, clientSocket, isJobActive, job, watched, component,
                   watcherException, outcome, client, ran, serverVars>>

\* Mutated SendIdle: a finally, which sends the byte after an exception as well.
SendIdle_Finally ==
    /\ pc["runner"] \in {"idle", "closing"} /\ job # NoJob
    /\ ParentSocketOpen
    /\ server # "gone"
    /\ idleBytes' = idleBytes + 1
    /\ job' = NoJob
    /\ Goto("runner", IF pc["runner"] = "idle" THEN "select" ELSE "closing")
    /\ UNCHANGED <<barrier, clientSocket, isJobActive, watched, processVars,
                   jobVars, believedIdle, brokenPipe, server, signals>>

\* The last statement of _run_job, with nothing of the job left but this byte.
SendIdle ==
    /\ pc["runner"] = "idle"
    /\ ParentSocketOpen
    /\ server # "gone"
    /\ idleBytes' = idleBytes + 1
    /\ job' = NoJob
    /\ Goto("runner", "select")
    /\ UNCHANGED <<barrier, clientSocket, isJobActive, watched, processVars,
                   jobVars, believedIdle, brokenPipe, server, signals>>

SendIdleFails ==
    /\ pc["runner"] = "idle"
    /\ ~ParentSocketOpen \/ server = "gone"
    /\ runnerException' = TRUE
    /\ Goto("runner", "closing")
    /\ UNCHANGED <<barrier, clientSocket, isJobActive, job, watched, component,
                   watcherException, outcome, jobVars, serverVars>>

\* Mutated CloseJobSync: the barriers are not aborted.
CloseJobSync_NoAbort ==
    /\ pc["runner"] = "closing"
    /\ Move("runner", "done")

\* closing(job_sync) around the loop of _run_jobs: JobSync.close.
CloseJobSync ==
    /\ pc["runner"] = "closing"
    /\ BreakBarriers
    /\ Goto("runner", "done")
    /\ UNCHANGED <<clientSocket, isJobActive, job, watched,
                   processVars, jobVars, serverVars>>

-----------------------------------------------------------------------------
(* The watcher: run_jobs, _check_close, begin_watch_job_abort               *)

Expose ==
    /\ pc["watcher"] = "expose"
    /\ watched' = clientSocket
    /\ Goto("watcher", "recv")
    /\ UNCHANGED <<barrier, clientSocket, isJobActive, job,
                   processVars, jobVars, serverVars>>

EnterRecv ==
    /\ pc["watcher"] = "recv"
    /\ watched # NoJob
    /\ conn[watched] # "closed"
    /\ Move("watcher", "blocked")

\* recv on a socket the runner has closed raises; run_jobs joins the runner.
RecvRaises ==
    /\ pc["watcher"] = "recv"
    /\ watched = NoJob \/ conn[watched] = "closed"
    /\ watcherException' = "error"
    /\ BreakBarriers
    /\ Goto("watcher", "join")
    /\ UNCHANGED <<clientSocket, isJobActive, job, watched, component,
                   runnerException, outcome, jobVars, serverVars>>

\* Mutated RecvReturns: recv also returns on a timeout.
RecvReturns_TimesOut ==
    /\ pc["watcher"] = "blocked"
    /\ Move("watcher", "check")

\* recv in progress keeps the connection alive even if its descriptor is closed.
RecvReturns ==
    /\ pc["watcher"] = "blocked"
    /\ conn[watched] = "shut" \/ client[watched] # "waiting"
    /\ Move("watcher", "check")

JobIsOver ==
    /\ pc["watcher"] = "check"
    /\ ~isJobActive
    /\ Move("watcher", "end")

\* Mutated AbortJob: the runner is joined, as after any other exception.
AbortJob_Joins ==
    /\ pc["watcher"] = "check"
    /\ isJobActive
    /\ outcome' = "aborted"
    /\ BreakBarriers
    /\ Goto("watcher", "join")
    /\ UNCHANGED <<clientSocket, isJobActive, job, watched, component,
                   runnerException, watcherException, jobVars, serverVars>>

\* JobAbortedException: sys.exit(3) without waiting for the runner.
AbortJob ==
    /\ pc["watcher"] = "check"
    /\ isJobActive
    /\ outcome' = "aborted"
    /\ BreakBarriers
    /\ Goto("watcher", "closeComponent")
    /\ UNCHANGED <<clientSocket, isJobActive, job, watched, component,
                   runnerException, watcherException, jobVars, serverVars>>

\* runner_thread.join returned; the runner's exception is preferred.
JoinRunner ==
    /\ pc["watcher"] = "join"
    /\ pc["runner"] = "done"
    /\ outcome' = IF runnerException THEN "error"
                  ELSE IF watcherException = "none" THEN "ok" ELSE watcherException
    /\ Goto("watcher", "closeComponent")
    /\ UNCHANGED <<barrier, clientSocket, isJobActive, job, watched, component,
                   runnerException, watcherException, jobVars, serverVars>>

\* ExecutorProcess.__exit__: the exit stack closes the component first ...
CloseComponent ==
    /\ pc["watcher"] = "closeComponent"
    /\ component' = IF component = "loaded" THEN "closed" ELSE component
    /\ Goto("watcher", "closeSocket")
    /\ UNCHANGED <<barrier, clientSocket, isJobActive, job, watched, runnerException,
                   watcherException, outcome, jobVars, serverVars>>

\* ... then the socket to the server, with the jobs nobody took from it.
CloseParentSocket ==
    /\ pc["watcher"] = "closeSocket"
    /\ conn' = [j \in Jobs |-> IF conn[j] = "queued" THEN "closed" ELSE conn[j]]
    /\ Goto("watcher", "exit")
    /\ UNCHANGED <<barrier, clientSocket, isJobActive, job, watched, processVars,
                   answer, client, ran, serverVars>>

ProcessGone ==
    /\ pc' = [t \in Threads |-> "gone"]
    /\ conn' = [j \in Jobs |-> IF conn[j] = "server" THEN "server" ELSE "closed"]
    /\ UNCHANGED <<barrier, clientSocket, isJobActive, job, watched, component,
                   runnerException, watcherException, answer, client, ran>>

\* The runner is a daemon thread: it dies with the process, wherever it is.
Exit ==
    /\ pc["watcher"] = "exit"
    /\ ProcessGone
    /\ UNCHANGED <<outcome, serverVars>>

-----------------------------------------------------------------------------
(* Signals.  Python handles them in the main thread.  SIGINT raises         *)
(* KeyboardInterrupt there, in an executor as in the server that forked it. *)
(* The SIGTERM handler a server that is pid 1 installs is inherited and     *)
(* raises SystemExit; without it SIGTERM kills the process.                 *)

Raises(s) == s \in signals /\ (s = "term" => ServerIsInit)

KilledBySigterm ==
    /\ "term" \in signals /\ ~ServerIsInit
    /\ pc["watcher"] # "gone"
    /\ outcome' = "term"
    /\ signals' = {}
    /\ ProcessGone
    /\ UNCHANGED <<idleBytes, believedIdle, brokenPipe, server>>

\* Mutated SignalWhileWatching: JobSync is not closed on the way out.
SignalWhileWatching_NoAbort(s) ==
    /\ Raises(s)
    /\ pc["watcher"] \in Watching
    /\ signals' = signals \ {s}
    /\ watcherException' = s
    /\ Goto("watcher", "join")
    /\ UNCHANGED <<barrier, clientSocket, isJobActive, job, watched, component,
                   runnerException, outcome, jobVars, idleBytes, believedIdle,
                   brokenPipe, server>>

\* It leaves _check_close like any other exception: join the runner, under
\* which both barriers are broken.
SignalWhileWatching(s) ==
    /\ Raises(s)
    /\ pc["watcher"] \in Watching
    /\ signals' = signals \ {s}
    /\ watcherException' = s
    /\ BreakBarriers
    /\ Goto("watcher", "join")
    /\ UNCHANGED <<clientSocket, isJobActive, job, watched, component, runnerException,
                   outcome, jobVars, idleBytes, believedIdle, brokenPipe, server>>

\* It also interrupts the join itself: the runner is not waited for any more.
SignalWhileJoining(s) ==
    /\ Raises(s)
    /\ pc["watcher"] = "join"
    /\ signals' = signals \ {s}
    /\ outcome' = s
    /\ Goto("watcher", "closeComponent")
    /\ UNCHANGED <<barrier, clientSocket, isJobActive, job, watched, component,
                   runnerException, watcherException, jobVars,
                   idleBytes, believedIdle, brokenPipe, server>>

-----------------------------------------------------------------------------
(* The server's side: ExecutorProcessManager and ComponentServer.serve      *)

\* Mutated PollIdle: an idle byte is taken for granted once the socket is readable.
PollIdle_CountsBelowZero ==
    /\ server = "serving"
    /\ ~believedIdle /\ ~brokenPipe
    /\ idleBytes > 0 \/ ~ParentSocketOpen
    /\ idleBytes' = idleBytes - 1
    /\ believedIdle' = TRUE
    /\ UNCHANGED <<threadVars, processVars, jobVars, brokenPipe, server, signals>>

\* The executor closed its end with a client's socket unread in it, of which the
\* kernel tells the server once: recv fails with ECONNRESET.
Unread == \E j \in Jobs : conn[j] = "closed" /\ answer[j] = "none" /\ j # job

\* is_idle: readable means an idle byte, or the end of the stream.
PollIdle ==
    /\ server = "serving"
    /\ ~believedIdle /\ ~brokenPipe
    /\ idleBytes > 0 \/ (~ParentSocketOpen /\ ~Unread)
    /\ idleBytes' = IF idleBytes > 0 THEN idleBytes - 1 ELSE 0
    /\ believedIdle' = TRUE
    /\ UNCHANGED <<threadVars, processVars, jobVars, brokenPipe, server, signals>>

\* Mutated Submit: the manager does not note that the executor is busy.
Submit_StaysIdle(j) ==
    /\ server = "serving"
    /\ believedIdle /\ ~brokenPipe
    /\ conn[j] = "server"
    /\ ParentSocketOpen
    /\ conn' = [conn EXCEPT ![j] = "queued"]
    /\ UNCHANGED <<threadVars, processVars, answer, client, ran,
                   idleBytes, believedIdle, brokenPipe, server, signals>>

Submit(j) ==
    /\ server = "serving"
    /\ believedIdle /\ ~brokenPipe
    /\ conn[j] = "server"
    /\ ParentSocketOpen
    /\ conn' = [conn EXCEPT ![j] = "queued"]
    /\ believedIdle' = FALSE
    /\ UNCHANGED <<threadVars, processVars, answer, client, ran,
                   idleBytes, brokenPipe, server, signals>>

\* BrokenPipeError: TryAgain, and the job goes to another executor.
SubmitFails(j) ==
    /\ server = "serving"
    /\ believedIdle /\ ~brokenPipe
    /\ conn[j] = "server"
    /\ ~ParentSocketOpen
    /\ believedIdle' = FALSE
    /\ brokenPipe' = TRUE
    /\ UNCHANGED <<threadVars, processVars, jobVars, idleBytes, server, signals>>

\* serve() leaves its loop with an exception: every executor is terminated ...
ServerStops ==
    /\ server \in {"serving", "interrupted"}
    /\ server' = "stopping"
    /\ signals' = signals \cup {"term"}
    /\ UNCHANGED <<threadVars, processVars, jobVars, idleBytes, believedIdle, brokenPipe>>

\* ... and terminated again by multiprocessing's exit handler, which joins it.
ServerJoins ==
    /\ server = "stopping"
    /\ server' = "joining"
    /\ signals' = signals \cup {"term"}
    /\ UNCHANGED <<threadVars, processVars, jobVars, idleBytes, believedIdle, brokenPipe>>

\* The exception may be the ConnectionResetError of is_idle.
PollResets ==
    /\ server = "serving"
    /\ ~believedIdle /\ ~brokenPipe
    /\ idleBytes = 0 /\ ~ParentSocketOpen /\ Unread
    /\ ServerStops

\* Ctrl-C: SIGINT to every process of the terminal's foreground group.  The server
\* raises KeyboardInterrupt before its next call, and terminates its executors
\* some time after they got the signal themselves.
CtrlC ==
    /\ Terminal
    /\ pc["watcher"] # "gone"
    /\ signals' = signals \cup {"int"}
    /\ server' = IF server = "serving" THEN "interrupted" ELSE server
    /\ UNCHANGED <<threadVars, processVars, jobVars, idleBytes, believedIdle, brokenPipe>>

\* SIGKILL.  When the server is pid 1 the whole container dies with it.
ServerDies ==
    /\ ~ServerIsInit
    /\ server # "gone"
    /\ server' = "gone"
    /\ UNCHANGED <<threadVars, processVars, jobVars, idleBytes, believedIdle,
                   brokenPipe, signals>>

-----------------------------------------------------------------------------
(* The clients: main in mpf_cli_client.py, which blocks in read(1)          *)

ClientEnds(j, s) ==
    /\ client[j] = "waiting"
    /\ client' = [client EXCEPT ![j] = s]
    /\ UNCHANGED <<threadVars, processVars, conn, answer, ran, serverVars>>

ClientExits(j) == \/ answer[j] = "zero" /\ ClientEnds(j, "success")
                  \/ answer[j] = "one"  /\ ClientEnds(j, "failure")

\* The end of the stream before any byte.
ClientGetsNothing(j) == /\ answer[j] = "none"
                        /\ conn[j] = "closed"
                        /\ ClientEnds(j, "noAnswer")

ClientLeaves(j) == ClientEnds(j, "left")

-----------------------------------------------------------------------------
BarrierStep(t) == \E b \in Barriers : ArriveFirst(t, b) \/ ArriveSecond(t, b) \/ Wake(t, b)

\* The steps of the runner in which the component's code has no part.
RunnerStep ==
    \/ BarrierStep("runner")
    \/ \E b \in Barriers : RunnerFindsBroken(b)
    \/ \E j \in Jobs : TakeJob(j)
    \/ ParentGone \/ IdleTimeout
    \/ AcceptRequest \/ RejectRequest
    \/ Deactivate \/ ClearSocket
    \/ Reply \/ ReplyFails \/ SendIdle \/ SendIdleFails \/ CloseJobSync

ComponentStep == InitComponent \/ RunComponent \/ JobRaises

WatcherStep ==
    \/ BarrierStep("watcher")
    \/ \E b \in Barriers : WatcherFindsBroken(b)
    \/ Expose \/ EnterRecv \/ RecvRaises \/ RecvReturns
    \/ JobIsOver \/ AbortJob \/ JoinRunner
    \/ CloseComponent \/ CloseParentSocket \/ Exit

HandleSignal ==
    \/ KilledBySigterm
    \/ \E s \in {"int", "term"} : SignalWhileWatching(s) \/ SignalWhileJoining(s)

\* What a server that has begun to stop still does.
ServerEnds == ServerJoins \/ (server = "interrupted" /\ ServerStops)

ServerStep == \/ PollIdle \/ PollResets \/ ServerStops \/ ServerJoins \/ ServerDies
              \/ \E j \in Jobs : Submit(j) \/ SubmitFails(j)

ClientAnswered == \E j \in Jobs : ClientExits(j) \/ ClientGetsNothing(j)

Next == \/ RunnerStep \/ ComponentStep \/ WatcherStep \/ HandleSignal \/ ServerStep
        \/ CtrlC \/ ClientAnswered
        \/ \E j \in Jobs : ClientLeaves(j)

Spec == Init /\ [][Next]_vars

(* Both threads are scheduled, a signal is delivered, a server that stops   *)
(* reaches its exit handlers and a client reads what it was sent.  Nothing  *)
(* makes a client leave, a job arrive, a server stop or anybody press       *)
(* Ctrl-C, and nothing here makes a component return.                       *)
FairSpec == /\ Spec
            /\ WF_vars(RunnerStep)
            /\ WF_vars(WatcherStep)
            /\ WF_vars(HandleSignal)
            /\ WF_vars(ServerEnds)
            /\ WF_vars(ClientAnswered)

\* As FairSpec, with components that return or raise in the end as long as the
\* client waits for them.  Nothing makes them return for a client that left.
WaitedSpec == FairSpec /\ WF_vars(ComponentStep /\ client[job] = "waiting")

\* As FairSpec, with components that return or raise in the end.
LiveSpec == FairSpec /\ WF_vars(ComponentStep)

-----------------------------------------------------------------------------
(* Properties                                                               *)

\* Every variable holds a value of its type.
TypeOK ==
    /\ pc \in [Threads -> RunnerPCs \cup WatcherPCs]
    /\ pc["runner"] \in RunnerPCs
    /\ pc["watcher"] \in WatcherPCs
    /\ barrier \in [Barriers -> {"filling", "draining", "broken"}]
    /\ clientSocket \in Jobs \cup {NoJob}
    /\ isJobActive \in BOOLEAN
    /\ job \in Jobs \cup {NoJob}
    /\ watched \in Jobs \cup {NoJob}
    /\ component \in {"none", "loaded", "closed"}
    /\ runnerException \in BOOLEAN
    /\ watcherException \in {"none", "error", "term", "int"}
    /\ outcome \in {"running", "ok", "error", "aborted", "term", "int"}
    /\ conn \in [Jobs -> {"server", "queued", "open", "shut", "closed"}]
    /\ answer \in [Jobs -> {"none", "zero", "one"}]
    /\ client \in [Jobs -> {"waiting", "success", "failure", "noAnswer", "left"}]
    /\ ran \in [Jobs -> {"no", "ok", "failed"}]
    /\ idleBytes \in Nat
    /\ believedIdle \in BOOLEAN
    /\ brokenPipe \in BOOLEAN
    /\ server \in {"serving", "interrupted", "stopping", "joining", "gone"}
    /\ signals \subseteq {"int", "term"}

\* The executor holds at most one client's socket, queued or in hand: the idle
\* byte of _run_job and the manager's is_idle never let a second job in behind
\* one that is still running.
NeverGivenSecondJob ==
    \A j, k \in Jobs :
        conn[j] \in {"queued", "open", "shut"} /\ conn[k] \in {"queued", "open", "shut"}
            => j = k

\* The watcher listens to the socket of the job in the runner's hands, never
\* to that of an earlier job, nor to one that was answered already (the two
\* barriers of JobSync; comments of begin_process_job and _recv_client_socket).
WatchesCurrentJob ==
    pc["watcher"] \in {"recv", "blocked", "check"} =>
        /\ watched = job /\ watched = clientSocket
        /\ answer[watched] = "none"

\* The process gives up a job only when the client of that very job left
\* before it was answered (_check_close).
AbortJustified ==
    outcome = "aborted" => client[watched] = "left" /\ answer[watched] = "none"

\* No component has raised so far.
NoneRaised == \A j \in Jobs : ran[j] # "failed"

RunnerWaits == \E b \in Barriers : pc["runner"] = Waiting(b) /\ barrier[b] = "filling"
WatcherWaits ==
    \/ \E b \in Barriers : pc["watcher"] = Waiting(b) /\ barrier[b] = "filling"
    \/ pc["watcher"] = "blocked" /\ conn[watched] # "shut" /\ client[watched] = "waiting"
    \/ pc["watcher"] = "join" /\ pc["runner"] # "done"

\* A client is told of success only if the component completed its job
\* (JobRequest: "A zero byte is written for success").
SuccessMeansRan == \A j \in Jobs : answer[j] = "zero" => ran[j] = "ok"

\* A signal raised its exception in the main thread while it was watching.
Interrupted == watcherException \in {"int", "term"}

\* A client told of success whose job the component did not complete is the doing
\* of a component that raised, in that job or an earlier one, or of a signal whose
\* exception closed JobSync under the runner (config_job_logging drops the broken
\* barrier before _recv_client_socket sends its byte): a Ctrl-C, or the SIGTERM of
\* a server that is pid 1.  Nothing else leads there: no bad request, no client
\* that leaves, no idle timeout, no server that dies.
FalseZeroHasCause ==
    \A j \in Jobs : answer[j] = "zero" /\ ran[j] # "ok" => ~NoneRaised \/ Interrupted

\* Until a component raises, the two threads never wait for each other: the runner
\* at a barrier for the watcher, and the watcher at the other one, or in recv on the
\* socket of a client that waits for the runner, or joining it (JobSync; "once a
\* job has been received, we are guaranteed to respond to client").
NoMutualWait == NoneRaised => ~(RunnerWaits /\ WatcherWaits)

\* The component instance is closed under a running job only when that job's
\* client has left or its server no longer serves (ExecutorProcess.__exit__
\* runs on the main thread while the runner may be in GetDetections).
ClosedOnlyUnderAbandonedJob ==
    component = "closed" /\ pc["runner"] \in {"init", "run"} =>
        client[job] = "left" \/ server # "serving"

\* Once the server has passed a client to the executor, that client gets its
\* byte or the end of the stream, or leaves: it never waits for ever.  (No client
\* waits again, so that this is said of all of them at once.)
EveryClientReleased ==
    []<>(\A j \in Jobs : conn[j] # "server" => client[j] # "waiting")

\* A component that never returns does not outlive the client that asked for
\* it: when the client leaves, the runner leaves the component or the process
\* is gone (the reason the watcher exists).  Except that a Ctrl-C makes the watcher
\* join the runner, and the SIGTERM that ends the join needs a server that lives.
HungJobIsAbandoned ==
    []<>(pc["runner"] = "run" /\ client[job] = "left" =>
            watcherException = "int" /\ server = "gone")

\* When the server stops, the executor's process ends, so that the server's
\* own exit handler, which joins it, ends too.
StopsWithServer == server = "stopping" ~> pc["watcher"] = "gone"

=============================================================================
