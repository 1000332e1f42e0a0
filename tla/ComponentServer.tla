-------------------------- MODULE ComponentServer --------------------------
(***************************************************************************)
(* The component server (mpf_cli_server.py): one thread that accepts the   *)
(* clients' connections and passes each to an idle executor process of its *)
(* pool, or to a new one, and that reaps the executors that exited.        *)
(*                                                                         *)
(* An executor appears here as the server sees it: its steps are those of  *)
(* ExecutorContract, which ExecutorProcess implements with its threads.    *)
(***************************************************************************)
EXTENDS Naturals, FiniteSets

CONSTANTS
    Clients,          \* the clients that may connect, one job each
    NoClient,
    MaxExecutors,     \* bound on the executors ever started
    TimeoutEnabled,   \* FALSE: COMPONENT_SERVER_IDLE_TIMEOUT is negative
    ZeroTimeout,      \* COMPONENT_SERVER_IDLE_TIMEOUT is 0
    Daemon,           \* started with --daemon as pid 1: the server itself never times out
    MayDie,           \* an executor may exit with a job in its hands
    LateExit          \* an executor may live on 0.5s after it closed its socket

ASSUME ClientsAssumption == NoClient \notin Clients
ASSUME BoundAssumption == MaxExecutors \in Nat
ASSUME FlagsAssumption == /\ {TimeoutEnabled, ZeroTimeout, Daemon, MayDie, LateExit}
                             \subseteq BOOLEAN
                          /\ ZeroTimeout => TimeoutEnabled

\* Executors are numbered in the order they are started, the order of the list
\* _executor_processes.
Executors == 1 .. MaxExecutors

VARIABLES
    serverPc,      \* where the server's thread is
    request,       \* the client being handled (client_sock in serve)
    target,        \* the executor _find_idle_process returned, 0 if none
    pool,          \* _executor_processes
    started,       \* how many executors were ever started
    believedIdle,  \* ExecutorProcessManager._is_idle
    brokenPipe,    \* ExecutorProcessManager._broken_pipe
    process,       \* each executor process
    work,          \* what the executor is doing with a job
    inbox,         \* the clients in the executor's socket
    running,       \* the client in the executor's hands
    idleBytes,     \* bytes sent to the server and not read
    client,        \* each client's connection
    givenTo        \* the executors a client's socket was ever sent to

serverVars   == <<serverPc, request, target>>
managerVars  == <<pool, started, believedIdle, brokenPipe>>
executorVars == <<process, work, inbox, running, idleBytes>>
clientVars   == <<client, givenTo>>
vars == <<serverVars, managerVars, executorVars, clientVars>>

Init ==
    /\ serverPc = "reap"
    /\ request = NoClient
    /\ target = 0
    /\ pool = {}
    /\ started = 0
    /\ believedIdle = [e \in Executors |-> FALSE]
    /\ brokenPipe = [e \in Executors |-> FALSE]
    /\ process = [e \in Executors |-> "none"]
    /\ work = [e \in Executors |-> "free"]
    /\ inbox = [e \in Executors |-> {}]
    /\ running = [e \in Executors |-> NoClient]
    /\ idleBytes = [e \in Executors |-> 0]
    /\ client = [c \in Clients |-> "away"]
    /\ givenTo = [c \in Clients |-> {}]

ServerUp == serverPc \notin {"timedOut", "stopped", "killed"}
Backlog  == {c \in Clients : client[c] = "backlog"}

\* The executors the server deals with, and the order it keeps to.
Contract == INSTANCE ExecutorContract WITH
                stopped <- serverPc \in {"stopped", "killed"}

-----------------------------------------------------------------------------
(* _wait_for_accept                                                         *)

\* Mutated IsAlive: the process itself is not asked.
IsAlive_PipeOnly(e) == ~brokenPipe[e]

\* ExecutorProcessManager.is_alive.
IsAlive(e) == ~Contract!Exited(e) /\ ~brokenPipe[e]

Dead == {e \in pool : ~IsAlive(e)}

\* Mutated MayExitIdle: the executors of the pool are not asked about.
MayExitIdle_AnyPool(p) == TimeoutEnabled /\ ~Daemon

\* can_exit_due_to_idle, once the pool is p.
MayExitIdle(p) == TimeoutEnabled /\ ~Daemon /\ p = {}

\* _remove_dead_processes.  cleanup joins each process for half a second and
\* releases it: one that has not exited by then makes Process.close raise.
Reap ==
    /\ serverPc = "reap"
    /\ pool' = pool \ Dead
    /\ Contract!ReapAll(Dead)
    /\ serverPc' = IF MayExitIdle(pool') THEN "selectTimed" ELSE "select"
    /\ UNCHANGED <<request, target, started, believedIdle, brokenPipe>>

\* The clients still with the server get the end of the stream or a reset.
RefuseOthers ==
    client' = [c \in Clients |-> IF client[c] \in {"backlog", "accepted"} THEN "refused"
                                 ELSE client[c]]

\* The server leaves its loop and its sockets are closed; what becomes of the
\* executors is up to them, to its signal (Terminate) and to JoinAtExit.
ServerFails(how) ==
    /\ serverPc' = how
    /\ RefuseOthers
    /\ request' = NoClient
    /\ target' = 0
    /\ pool' = {}
    /\ believedIdle' = [e \in Executors |-> FALSE]
    /\ brokenPipe' = [e \in Executors |-> FALSE]
    /\ UNCHANGED <<started, executorVars, givenTo>>

\* The ValueError of Process.close leaves serve as any exception does.
ReapCrashes ==
    /\ LateExit
    /\ serverPc = "reap"
    /\ \E e \in Dead : ~Contract!Exited(e)
    /\ ServerFails("stopped")

Accept(c) ==
    /\ serverPc \in {"select", "selectTimed"}
    /\ c \in Backlog
    /\ client' = [client EXCEPT ![c] = "accepted"]
    /\ request' = c
    /\ serverPc' = "handle"
    /\ UNCHANGED <<target, managerVars, executorVars, givenTo>>

\* select reports only the sentinel of an executor that exited.
ChildExited ==
    /\ serverPc = "select"
    /\ Backlog = {}
    /\ \E e \in pool : Contract!Exited(e)
    /\ serverPc' = "reap"
    /\ UNCHANGED <<request, target, managerVars, executorVars, clientVars>>

\* _wait_for_accept_with_timeout returned None: serve returns, and leaving the
\* server's context closes the listening socket.
SelectTimesOut ==
    /\ serverPc = "selectTimed"
    /\ Backlog = {}
    /\ serverPc' = "closing"
    /\ UNCHANGED <<request, target, managerVars, executorVars, clientVars>>

CloseListener ==
    /\ serverPc = "closing"
    /\ serverPc' = "timedOut"
    /\ RefuseOthers
    /\ UNCHANGED <<request, target, managerVars, executorVars, givenTo>>

-----------------------------------------------------------------------------
(* _handle_single_request                                                   *)

\* The executor closed its end with a client's socket unread in it: the server's
\* next recv fails with ECONNRESET.
Unread(e) == \E c \in Clients : givenTo[c] = {e} /\ client[c] = "lost" /\ running[e] # c

\* ExecutorProcessManager.is_idle: the flag, an idle byte or the end of the stream.
IsIdle(e) == \/ believedIdle[e] \/ idleBytes[e] > 0
             \/ ~Contract!SocketOpen(e) /\ ~Unread(e)

\* Mutated Idle: executors that are known to be gone are not passed over.
Idle_AnyProcess == {e \in pool : IsIdle(e)}

Idle == {e \in pool : IsAlive(e) /\ IsIdle(e)}

\* is_idle raises for these.
Resetting == {e \in pool : /\ IsAlive(e) /\ ~IsIdle(e)
                           /\ ~Contract!SocketOpen(e) /\ Unread(e)}

\* Mutated ReuseExecutor: a readable socket is taken for an idle byte.
ReuseExecutor_CountsBelowZero ==
    /\ serverPc = "handle"
    /\ \E e \in Idle :
        /\ \A f \in Idle \cup Resetting : e <= f
        /\ target' = e
        /\ idleBytes' = [idleBytes EXCEPT ![e] = IF believedIdle[e] THEN @ ELSE @ - 1]
        /\ believedIdle' = [believedIdle EXCEPT ![e] = TRUE]
    /\ serverPc' = "submit"
    /\ UNCHANGED <<request, pool, started, brokenPipe, process, work, inbox, running,
                   clientVars>>

\* _find_idle_process returns the first of the list; is_idle reads its byte.
ReuseExecutor ==
    /\ serverPc = "handle"
    /\ \E e \in Idle :
        /\ \A f \in Idle \cup Resetting : e <= f
        /\ target' = e
        /\ idleBytes' = [idleBytes EXCEPT ![e] =
                            IF ~believedIdle[e] /\ @ > 0 THEN @ - 1 ELSE @]
        /\ believedIdle' = [believedIdle EXCEPT ![e] = TRUE]
    /\ serverPc' = "submit"
    /\ UNCHANGED <<request, pool, started, brokenPipe, process, work, inbox, running,
                   clientVars>>

StartExecutor ==
    /\ serverPc = "handle"
    /\ Idle = {} /\ Resetting = {}
    /\ started < MaxExecutors
    /\ started' = started + 1
    /\ target' = started'
    /\ pool' = pool \cup {started'}
    /\ process' = [process EXCEPT ![started'] = "up"]
    /\ believedIdle' = [believedIdle EXCEPT ![started'] = TRUE]
    /\ serverPc' = "submit"
    /\ UNCHANGED <<request, brokenPipe, work, inbox, running, idleBytes, clientVars>>

\* Mutated Submit: the executor is not marked busy.
Submit_StaysIdle ==
    /\ serverPc = "submit"
    /\ Contract!SocketOpen(target)
    /\ inbox' = [inbox EXCEPT ![target] = @ \cup {request}]
    /\ client' = [client EXCEPT ![request] = "given"]
    /\ givenTo' = [givenTo EXCEPT ![request] = @ \cup {target}]
    /\ request' = NoClient
    /\ target' = 0
    /\ serverPc' = "reap"
    /\ UNCHANGED <<pool, started, believedIdle, brokenPipe, process, work, running, idleBytes>>

\* Mutated Submit: the loop of _handle_single_request is not left.
Submit_LoopsOn ==
    /\ serverPc = "submit"
    /\ Contract!SocketOpen(target)
    /\ inbox' = [inbox EXCEPT ![target] = @ \cup {request}]
    /\ believedIdle' = [believedIdle EXCEPT ![target] = FALSE]
    /\ client' = [client EXCEPT ![request] = "given"]
    /\ givenTo' = [givenTo EXCEPT ![request] = @ \cup {target}]
    /\ target' = 0
    /\ serverPc' = "handle"
    /\ UNCHANGED <<request, pool, started, brokenPipe, process, work, running, idleBytes>>

\* Mutated Submit: a broken pipe is not noticed.
Submit_Blind ==
    /\ serverPc = "submit"
    /\ inbox' = [inbox EXCEPT ![target] = @ \cup {request}]
    /\ believedIdle' = [believedIdle EXCEPT ![target] = FALSE]
    /\ client' = [client EXCEPT ![request] = "given"]
    /\ givenTo' = [givenTo EXCEPT ![request] = @ \cup {target}]
    /\ request' = NoClient
    /\ target' = 0
    /\ serverPc' = "reap"
    /\ UNCHANGED <<pool, started, brokenPipe, process, work, running, idleBytes>>

\* submit_job: the client's socket goes to the executor, the server's copy is closed.
Submit ==
    /\ serverPc = "submit"
    /\ Contract!SocketOpen(target)
    /\ inbox' = [inbox EXCEPT ![target] = @ \cup {request}]
    /\ believedIdle' = [believedIdle EXCEPT ![target] = FALSE]
    /\ client' = [client EXCEPT ![request] = "given"]
    /\ givenTo' = [givenTo EXCEPT ![request] = @ \cup {target}]
    /\ request' = NoClient
    /\ target' = 0
    /\ serverPc' = "reap"
    /\ UNCHANGED <<pool, started, brokenPipe, process, work, running, idleBytes>>

\* BrokenPipeError, TryAgain: the executor is given up and the search starts anew.
SubmitFails ==
    /\ serverPc = "submit"
    /\ ~Contract!SocketOpen(target)
    /\ believedIdle' = [believedIdle EXCEPT ![target] = FALSE]
    /\ brokenPipe' = [brokenPipe EXCEPT ![target] = TRUE]
    /\ target' = 0
    /\ serverPc' = "handle"
    /\ UNCHANGED <<request, pool, started, executorVars, clientVars>>

\* SystemExit from the SIGTERM handler of pid 1, or KeyboardInterrupt: a server
\* forked by a client stays in that client's process group, and so do the
\* executors.  Either is raised before the server's next call.
ServerStops == ServerUp /\ ServerFails("stopped")

\* The ConnectionResetError of is_idle leaves serve as any exception does.
PollResets ==
    /\ serverPc = "handle"
    /\ \E e \in Resetting : \A f \in Idle : e < f
    /\ ServerStops

\* SIGKILL; the death of pid 1 would be the end of the whole container.
ServerKilled == ~Daemon /\ ServerUp /\ ServerFails("killed")

\* multiprocessing's exit handler joins the executors, which are its daemons.
JoinAtExit ==
    /\ serverPc = "stopped"
    /\ \A e \in Executors : ~Contract!Alive(e)
    /\ \E e \in Executors : process[e] = "exited"
    /\ Contract!ReapAll({e \in Executors : process[e] = "exited"})
    /\ UNCHANGED <<serverVars, managerVars>>

-----------------------------------------------------------------------------
(* The executors                                                            *)

TakeJob(e)     == Contract!TakeJob(e) /\ UNCHANGED <<serverVars, managerVars>>
Reply(e)       == Contract!Reply(e) /\ UNCHANGED <<serverVars, managerVars>>
CloseSocket(e) == Contract!CloseSocket(e) /\ UNCHANGED <<serverVars, managerVars>>
Exit(e)        == Contract!Exit(e) /\ UNCHANGED <<serverVars, managerVars>>

\* Mutated ServerEndHeld: an executor that is forked keeps all the server's ends,
\* its own among them.
ServerEndHeld_ByItselfToo(e) ==
    serverPc # "killed" \/ \E f \in Executors : f >= e /\ Contract!Alive(f)

\* Somebody holds the server's end of e's socket pair: the server, or an executor
\* forked later, which closes of what it inherits only its own (close_in_child).
ServerEndHeld(e) ==
    serverPc # "killed" \/ \E f \in Executors : f > e /\ Contract!Alive(f)

SendIdle(e) ==
    /\ ServerEndHeld(e)
    /\ Contract!SendIdle(e)
    /\ UNCHANGED <<serverVars, managerVars>>

SendIdleFails(e) ==
    /\ ~ServerEndHeld(e)
    /\ work[e] = "replied"
    /\ Contract!Die(e)
    /\ UNCHANGED <<serverVars, managerVars>>

\* The last server's end is closed: select reports it and recv_fds fails.
EndOfStream(e) ==
    /\ ~ServerEndHeld(e)
    /\ Contract!Retire(e)
    /\ UNCHANGED <<serverVars, managerVars>>

\* Process.terminate in serve, and again at exit, or the Ctrl-C that stopped the
\* server.  KeyboardInterrupt, and SystemExit from the SIGTERM handler of a server
\* that is pid 1, which is inherited, let the executor close up.
Terminate(e) ==
    /\ serverPc = "stopped"
    /\ Contract!Die(e) \/ (~Daemon /\ Contract!Terminate(e))
    /\ UNCHANGED <<serverVars, managerVars>>

\* Rejected request, failed reply, client that left in the middle of its job, or
\* in the next one after a job that raised; Ctrl-C after the server was killed.
Die(e) == MayDie /\ Contract!Die(e) /\ UNCHANGED <<serverVars, managerVars>>

\* A timeout of some seconds never expires before the first job has come.
IdleTimeout(e) ==
    /\ TimeoutEnabled
    /\ ZeroTimeout \/ Contract!Used(e)
    /\ Contract!Retire(e)
    /\ UNCHANGED <<serverVars, managerVars>>

Connect(c) ==
    /\ ServerUp
    /\ client[c] = "away"
    /\ client' = [client EXCEPT ![c] = "backlog"]
    /\ UNCHANGED <<serverVars, managerVars, executorVars, givenTo>>

-----------------------------------------------------------------------------
ServerStep == \/ Reap \/ ReapCrashes \/ ChildExited
              \/ \E c \in Clients : Accept(c)
              \/ ReuseExecutor \/ StartExecutor \/ PollResets \/ Submit \/ SubmitFails
              \/ SelectTimesOut \/ CloseListener \/ JoinAtExit

ExecutorStep(e) == \/ TakeJob(e) \/ Reply(e) \/ SendIdle(e) \/ SendIdleFails(e)
                   \/ CloseSocket(e) \/ Exit(e) \/ EndOfStream(e) \/ Terminate(e)

Next == \/ ServerStep \/ ServerStops \/ ServerKilled
        \/ \E e \in Executors : ExecutorStep(e) \/ Die(e) \/ IdleTimeout(e)
        \/ \E c \in Clients : Connect(c)

Spec == Init /\ [][Next]_vars

(* The server's thread runs and so do the executors' processes, whose jobs   *)
(* end and who get their signals.  Nobody has to connect, to time out or to  *)
(* stop the server.                                                          *)
FairSpec == /\ Spec
            /\ WF_vars(ServerStep)
            /\ \A e \in Executors : WF_vars(ExecutorStep(e))

\* As FairSpec; an executor that stays idle does time out while its server lives.
TimeoutSpec == FairSpec /\ \A e \in Executors : WF_vars(ServerUp /\ IdleTimeout(e))

-----------------------------------------------------------------------------
(* Properties                                                               *)

\* Every variable holds a value of its type.
TypeOK ==
    /\ serverPc \in {"reap", "select", "selectTimed", "handle", "submit", "closing",
                     "timedOut", "stopped", "killed"}
    /\ request \in Clients \cup {NoClient}
    /\ target \in 0 .. MaxExecutors
    /\ pool \subseteq Executors
    /\ started \in 0 .. MaxExecutors
    /\ believedIdle \in [Executors -> BOOLEAN]
    /\ brokenPipe \in [Executors -> BOOLEAN]
    /\ process \in [Executors -> {"none", "up", "closing", "closed", "exited", "reaped"}]
    /\ work \in [Executors -> {"free", "busy", "replied"}]
    /\ inbox \in [Executors -> SUBSET Clients]
    /\ running \in [Executors -> Clients \cup {NoClient}]
    /\ idleBytes \in [Executors -> Nat]
    /\ client \in [Clients -> {"away", "backlog", "accepted", "given", "answered",
                               "lost", "refused"}]
    /\ givenTo \in [Clients -> SUBSET Executors]

\* A client is only ever given to an executor that has nothing else in its
\* socket or in its hands ("There is no queueing", CLI_RUNNER.md).
OneJobEach ==
    \A e \in Executors : inbox[e] # {} => Cardinality(inbox[e]) = 1 /\ work[e] = "free"

\* Resubmission after TryAgain never runs a job twice: a client's socket reaches
\* one executor at most.
DeliveredOnce == \A c \in Clients : Cardinality(givenTo[c]) <= 1

\* A server that times out leaves no executor process behind and no client
\* that it has accepted without its outcome.
NobodyLeftBehind ==
    serverPc \in {"closing", "timedOut"} =>
        /\ \A e \in Executors : process[e] \in {"none", "reaped"}
        /\ \A c \in Clients : client[c] \notin {"accepted", "given"}

\* A client that was given away and has no outcome yet is in the socket or in the
\* hands of one executor that has not exited, whether or not there is a server.
GivenIsHeld ==
    \A c \in Clients : client[c] = "given" =>
        \E e \in Executors :
            /\ givenTo[c] = {e}
            /\ \/ c \in inbox[e] /\ Contract!SocketOpen(e)
               \/ Contract!HeldBy(e) = c /\ Contract!Alive(e)

\* A client that was given to an executor is answered, unless the server stopped
\* (CLI_RUNNER.md on jobs received while executors exit: they "will still be processed").
GivenJobsAreProcessed ==
    \A c \in Clients : client[c] = "lost" => serverPc \in {"stopped", "killed"}

\* A client that connected gets an answer, the end of the stream or a reset.
EveryClientReleased ==
    \A c \in Clients : client[c] = "backlog" ~> client[c] \in {"answered", "lost", "refused"}

\* With finitely many clients the server started by one of them exits in the end:
\* it is woken for every executor that exits, and reaps it.
ServerTimesOut == <>~ServerUp

\* However the server ends, no executor stays behind, and none as a zombie of a
\* server that is still there to reap it.  Without a signal each one finds its
\* socket closed, though the executors forked after it hold copies of the
\* server's end, and without the help of an idle timeout.
NoOrphans ==
    ~ServerUp ~> \A e \in Executors : \/ process[e] \in {"none", "reaped"}
                                      \/ process[e] = "exited" /\ serverPc = "killed"

\* What the executors and the clients rely on: a client is handed to one executor
\* at most, which has nothing else to do and whose idle bytes are all read, and
\* nothing the server does touches a client that an executor has.
KeepsContract == Contract!Spec

=============================================================================
