------------------------------ MODULE JobSession ------------------------------
(***************************************************************************)
(* What one executor process keeps and changes from job to job: JobRequest *)
(* and LogConfig of mpf_cli_executor_process.py, which lend the process to *)
(* the client (its descriptors 1 and 2, its log levels, LOG_LEVEL), the    *)
(* component loaded by the first job, and JobRunner of                     *)
(* mpf_cli_job_runner.py.  All of it is on the runner thread; any step may *)
(* raise, and what was acquired is given back from exit stacks, last in    *)
(* first out.  ExecutorProcess models the threads and the sockets.         *)
(***************************************************************************)
EXTENDS ResultConverter, SequencesExt

CONSTANTS
    Jobs,
    Requests,      \* what a client may ask: see RequestsAssumption
    Results,       \* what a component may return, see ResultConverter
    Descriptors,
    None,
    Props,         \* the names of job properties
    ExecutorProps, \* those in the executor's environment from the start
    EnvOf,         \* those a descriptor sets in the environment
    DefaultsOf,    \* those a descriptor has a default for
    LevelOf,       \* the LOG_LEVEL a descriptor sets in the environment, or None
    ExecutorLevel  \* the LOG_LEVEL in the executor's environment, or None

LogLevels == {"TRACE", "DEBUG", "INFO", "WARN", "ERROR", "FATAL"}

ASSUME NamesAssumption == None \notin Jobs \cup Descriptors \cup LogLevels
ASSUME RequestsAssumption ==
    Requests \subseteq [verbose : {0, 1, 2}, descriptor : Descriptors, commandLine : SUBSET Props,
                        clientEnv : SUBSET Props, output : {"stdout", "file"},
                        copiesVideo : BOOLEAN]
ASSUME ResultsAssumption == Results \subseteq Seq(Tracks)
ASSUME DescriptorsAssumption ==
    /\ EnvOf \in [Descriptors -> SUBSET Props]
    /\ DefaultsOf \in [Descriptors -> SUBSET Props]
    /\ LevelOf \in [Descriptors -> LogLevels \cup {None}]
    /\ ExecutorProps \subseteq Props
    /\ ExecutorLevel \in LogLevels \cup {None}

VARIABLES
    pc,         \* where _run_job is
    job,        \* the job in hand
    request,    \* what its client asked
    exits,      \* the callbacks on the exit stacks, in the order they were pushed
    raised,     \* an exception is on its way up
    stream,     \* the client's streams
    fd,         \* whose stderr the process's descriptors 1 and 2 are
    envLevel,   \* LOG_LEVEL in os.environ
    rootLevel,  \* of Python's root logger
    cliLevel,   \* of the runner's own logger
    handler,    \* the level of the handler that writes to the client's stderr, or None
    saved,      \* the levels config_job_logging found
    component,  \* the descriptor of the loaded component, or None
    descriptor, \* ExecutorProcess._descriptor
    envProps,   \* the MPF_PROP_ variables in os.environ
    props,      \* the job properties, each with where it comes from
    tmpFile,    \* the copy of a video read from standard input exists
    found,      \* what the component returned
    results,    \* what was made of it
    output,     \* what became of it
    answered    \* the byte sent to each client

logVars == <<envLevel, rootLevel, cliLevel, handler, saved>>
componentVars == <<component, descriptor, envProps>>
outputVars == <<tmpFile, found, results, output>>
vars == <<pc, job, request, exits, raised, stream, fd, logVars, componentVars, props,
          outputVars, answered>>

Streams == {"stdin", "stdout", "stderr"}
Fds == {"fd1", "fd2"}
\* Python has no TRACE.
LevelInt == [l \in LogLevels |-> CASE l \in {"TRACE", "DEBUG"} -> 10
                                   [] l = "INFO" -> 20 [] l = "WARN" -> 30
                                   [] l = "ERROR" -> 40 [] l = "FATAL" -> 50]
LevelNumbers == {10, 20, 30, 40, 50}
Lower(m, n) == IF m < n THEN m ELSE n
LevelFor(verbose, env) == CASE verbose = 1 -> "DEBUG"
                            [] verbose = 2 -> "TRACE"
                            [] verbose = 0 -> IF env = None THEN "INFO" ELSE env
\* configure_server_logging; the root logger is left at WARNING.
RootLevel == LevelInt["WARN"]
CliLevel == LevelInt[IF ExecutorLevel = None THEN "DEBUG" ELSE ExecutorLevel]

From(kind, owner, names) == [p \in names |-> <<kind, owner>>]
\* dict.setdefault for every item of g (@@ of the TLC module, which no proof can use).
Over(f, g) == [p \in DOMAIN f \cup DOMAIN g |-> IF p \in DOMAIN f THEN f[p] ELSE g[p]]

Init ==
    /\ pc = "idle" /\ job = None /\ request = None
    /\ exits = <<>> /\ raised = FALSE
    /\ stream = [s \in Streams |-> "none"]
    /\ fd = [n \in Fds |-> "server"]
    /\ envLevel = ExecutorLevel
    /\ rootLevel = RootLevel /\ cliLevel = CliLevel
    /\ handler = None
    /\ saved = [env |-> ExecutorLevel, root |-> RootLevel, cli |-> CliLevel]
    /\ component = None /\ descriptor = None
    /\ envProps = From("executor", None, ExecutorProps)
    /\ props = From("none", None, {})
    /\ tmpFile = FALSE /\ found = <<>> /\ results = <<>> /\ output = "none"
    /\ answered = [j \in Jobs |-> "none"]

Goto(l) == pc' = l
Push(callbacks) == exits' = exits \o callbacks

-----------------------------------------------------------------------------
(* JobRequest.__init__                                                      *)

Begin(j, r) ==
    /\ pc = "idle" /\ answered[j] = "none"
    /\ job' = j /\ request' = r
    /\ found' = <<>> /\ results' = <<>> /\ output' = "none"
    /\ Goto("receive")
    /\ UNCHANGED <<exits, raised, stream, fd, logVars, componentVars, props, tmpFile, answered>>

ReceiveStreams ==
    /\ pc = "receive"
    /\ stream' = [s \in Streams |-> "open"]
    /\ Push(<<"stdin", "stdout", "stderr">>)
    /\ Goto("replace1")
    /\ UNCHANGED <<job, request, raised, fd, logVars, componentVars, props, outputVars, answered>>

\* replace_fd_temp: the process's own output goes to the client's stderr.
ReplaceFd(n, here, next) ==
    /\ pc = here
    /\ fd' = [fd EXCEPT ![n] = "client"]
    /\ Push(<<n>>)
    /\ Goto(next)
    /\ UNCHANGED <<job, request, raised, stream, logVars, componentVars, props, outputVars, answered>>

\* Mutated Parse: one default dict for all parsers.
Parse_SharedDefault ==
    /\ pc = "parse"
    /\ props' = Over(From("commandLine", job, request.commandLine), props)
    /\ Goto("logging")
    /\ UNCHANGED <<job, request, exits, raised, stream, fd, logVars, componentVars, outputVars,
                   answered>>

\* A parser of its own for every job, and with it a dict of its own for -P.
Parse ==
    /\ pc = "parse"
    /\ props' = From("commandLine", job, request.commandLine)
    /\ Goto("logging")
    /\ UNCHANGED <<job, request, exits, raised, stream, fd, logVars, componentVars, outputVars,
                   answered>>

\* Mutated SetLevels: each -v lowers the level by one more step.
SetLevels_StepDown ==
    LET name == LevelFor(request.verbose, envLevel)
    IN  /\ envLevel' = name
        /\ rootLevel' = Lower(rootLevel, LevelInt[name]) - 10 * request.verbose
        /\ cliLevel' = Lower(cliLevel, LevelInt[name])
        /\ handler' = LevelInt[name]
        /\ saved' = [env |-> envLevel, root |-> rootLevel, cli |-> cliLevel]

\* What config_job_logging sets; the level it starts from is that of the process.
SetLevels ==
    LET name == LevelFor(request.verbose, envLevel)
    IN  /\ envLevel' = name
        /\ rootLevel' = Lower(rootLevel, LevelInt[name])
        /\ cliLevel' = Lower(cliLevel, LevelInt[name])
        /\ handler' = LevelInt[name]
        /\ saved' = [env |-> envLevel, root |-> rootLevel, cli |-> cliLevel]

LoggingCallbacks == <<"env", "root", "flush", "handler", "cli", "log">>

\* Mutated ConfigLogging: entered first, so left last.
ConfigLogging_Outermost ==
    /\ pc = "logging"
    /\ SetLevels
    /\ exits' = LoggingCallbacks \o exits
    /\ Goto("init")
    /\ UNCHANGED <<job, request, raised, stream, fd, componentVars, props, outputVars, answered>>

\* Mutated ConfigLogging: LOG_LEVEL is not put back.
ConfigLogging_KeepsEnv ==
    /\ pc = "logging"
    /\ SetLevels
    /\ Push(Tail(LoggingCallbacks))
    /\ Goto("init")
    /\ UNCHANGED <<job, request, raised, stream, fd, componentVars, props, outputVars, answered>>

ConfigLogging ==
    /\ pc = "logging"
    /\ SetLevels
    /\ Push(LoggingCallbacks)
    /\ Goto("init")
    /\ UNCHANGED <<job, request, raised, stream, fd, componentVars, props, outputVars, answered>>

-----------------------------------------------------------------------------
(* _init_component: the first job that succeeds loads the component.        *)

KeepComponent ==
    /\ pc = "init" /\ component # None
    /\ Goto("open")
    /\ UNCHANGED <<job, request, exits, raised, stream, fd, logVars, componentVars, props,
                   outputVars, answered>>

LoadDescriptorWhen(guard) ==
    /\ pc = "init" /\ guard
    /\ descriptor' = request.descriptor
    /\ envLevel' = IF LevelOf[request.descriptor] = None THEN envLevel
                   ELSE LevelOf[request.descriptor]
    /\ envProps' = Over(From("environment", request.descriptor, EnvOf[request.descriptor]),
                        envProps)
    /\ Goto("create")
    /\ UNCHANGED <<job, request, exits, raised, stream, fd, rootLevel, cliLevel, handler, saved,
                   component, props, outputVars, answered>>

\* Mutated LoadDescriptor: read for every job.
LoadDescriptor_Always == LoadDescriptorWhen(TRUE)

\* _load_descriptor and _set_env_vars_from_descriptor.
LoadDescriptor == LoadDescriptorWhen(component = None)

\* Its file is not there, or a variable cannot be expanded: those before it are set.
LoadDescriptorFails ==
    /\ pc = "init" /\ component = None
    /\ \E some \in SUBSET EnvOf[request.descriptor] :
           envProps' = Over(From("environment", request.descriptor, some), envProps)
    /\ \/ UNCHANGED envLevel
       \/ LevelOf[request.descriptor] # None /\ envLevel' = LevelOf[request.descriptor]
    /\ raised' = TRUE
    /\ Goto("unwind")
    /\ UNCHANGED <<job, request, exits, stream, fd, rootLevel, cliLevel, handler, saved,
                   component, descriptor, props, outputVars, answered>>

CreateComponent ==
    /\ pc = "create"
    /\ component' = descriptor
    /\ Goto("open")
    /\ UNCHANGED <<job, request, exits, raised, stream, fd, logVars, descriptor, envProps, props,
                   outputVars, answered>>

-----------------------------------------------------------------------------
(* JobRunner                                                                *)

OpenRunner ==
    /\ pc = "open"
    /\ Push(<<"output">>)
    /\ Goto("prepare")
    /\ UNCHANGED <<job, request, raised, stream, fd, logVars, componentVars, props, outputVars,
                   answered>>

\* The media is of a type the component supports and found; setdefault, property
\* by property, lets what was there stand.
Prepare ==
    /\ pc = "prepare"
    /\ props' = Over(Over(Over(props, From("client", job, request.clientEnv)), envProps),
                     From("default", descriptor, DefaultsOf[descriptor]))
    /\ tmpFile' = request.copiesVideo
    /\ Push(IF request.copiesVideo THEN <<"tmpFile">> ELSE <<>>)
    /\ Goto("run")
    /\ UNCHANGED <<job, request, raised, stream, fd, logVars, componentVars, found, results,
                   output, answered>>

\* run_job: the results are in the buffer of the output, or a part of them when
\* the buffer did not hold them and the write raised.
RunJob ==
    /\ pc = "run"
    /\ found' \in Results
    /\ results' = Convert(found')
    /\ \/ output' = "buffered" /\ UNCHANGED raised
       \/ output' = "partial" /\ raised' = TRUE
    /\ Goto("unwind")
    /\ UNCHANGED <<job, request, exits, stream, fd, logVars, componentVars, props, tmpFile,
                   answered>>

\* Bad arguments, a component that cannot be loaded or raises, media that is missing
\* or of a type the component does not support.
Raise ==
    /\ pc \in {"receive", "replace1", "replace2", "parse", "create", "prepare", "run"}
    /\ raised' = TRUE
    /\ Goto("unwind")
    /\ UNCHANGED <<job, request, exits, stream, fd, logVars, componentVars, props, outputVars,
                   answered>>

-----------------------------------------------------------------------------
(* The way out: the callbacks, the last one first, each whatever the others *)
(* did.  A flush raises when the client has closed the other end.           *)

Leave(callback) ==
    /\ pc = "unwind" /\ exits # <<>>
    /\ Last(exits) = callback
    /\ exits' = Front(exits)
    /\ UNCHANGED <<pc, job, request, componentVars, props, answered>>

MayRaise == raised' \in {raised, TRUE}

DeleteTmpFile ==
    /\ Leave("tmpFile")
    /\ tmpFile' = FALSE
    /\ UNCHANGED <<raised, stream, fd, logVars, found, results, output>>

\* The output is the client's stdout unless the command line names a file.
CloseOutput ==
    /\ Leave("output")
    /\ \/ output' = (IF output = "buffered" THEN "complete" ELSE output) /\ UNCHANGED raised
       \/ output' = "partial" /\ output = "buffered" /\ raised' = TRUE
    /\ stream' = IF request.output = "stdout" THEN [stream EXCEPT !["stdout"] = "closed"]
                 ELSE stream
    /\ UNCHANGED <<fd, logVars, tmpFile, found, results>>

\* The exception of the job ends here, in the client's log.
LogException ==
    /\ Leave("log")
    /\ raised' = FALSE
    /\ UNCHANGED <<stream, fd, logVars, outputVars>>

RestoreCliLevel ==
    /\ Leave("cli")
    /\ cliLevel' = saved.cli
    /\ UNCHANGED <<raised, stream, fd, envLevel, rootLevel, handler, saved, outputVars>>

RemoveHandler ==
    /\ Leave("handler")
    /\ handler' = None
    /\ UNCHANGED <<raised, stream, fd, envLevel, rootLevel, cliLevel, saved, outputVars>>

FlushHandler ==
    /\ Leave("flush")
    /\ MayRaise
    /\ UNCHANGED <<stream, fd, logVars, outputVars>>

RestoreRootLevel ==
    /\ Leave("root")
    /\ rootLevel' = saved.root
    /\ UNCHANGED <<raised, stream, fd, envLevel, cliLevel, handler, saved, outputVars>>

RestoreEnvLevel ==
    /\ Leave("env")
    /\ envLevel' = saved.env
    /\ UNCHANGED <<raised, stream, fd, rootLevel, cliLevel, handler, saved, outputVars>>

\* Mutated RestoreFd: the error of the flush is dropped.
RestoreFd_Suppresses(n) ==
    /\ Leave(n)
    /\ fd' \in {fd, [fd EXCEPT ![n] = "server"]}
    /\ UNCHANGED <<raised, stream, logVars, outputVars>>

\* The finally of replace_fd_temp: a flush that raises skips the dup2.
RestoreFd(n) ==
    /\ Leave(n)
    /\ \/ fd' = [fd EXCEPT ![n] = "server"] /\ UNCHANGED raised
       \/ fd' = fd /\ raised' = TRUE
    /\ UNCHANGED <<stream, logVars, outputVars>>

CloseStream(s) ==
    /\ Leave(s)
    /\ stream' = [stream EXCEPT ![s] = "closed"]
    /\ MayRaise
    /\ UNCHANGED <<fd, logVars, outputVars>>

\* Mutated Reply: sent once the job is done, before the way out of JobRequest.
Reply_BeforeClosing ==
    /\ pc = "unwind" /\ Len(exits) \in {0, 3}
    /\ answered' = [answered EXCEPT ![job] = IF raised THEN "one" ELSE "zero"]
    /\ Goto(IF raised THEN "ended" ELSE "idle")
    /\ UNCHANGED <<job, request, exits, raised, stream, fd, logVars, componentVars, props,
                   outputVars>>

\* _recv_client_socket; an exception that came so far ends the process.
Reply ==
    /\ pc = "unwind" /\ exits = <<>>
    /\ answered' = [answered EXCEPT ![job] = IF raised THEN "one" ELSE "zero"]
    /\ Goto(IF raised THEN "ended" ELSE "idle")
    /\ UNCHANGED <<job, request, exits, raised, stream, fd, logVars, componentVars, props,
                   outputVars>>

-----------------------------------------------------------------------------
Acquire ==
    \/ \E j \in Jobs, r \in Requests : Begin(j, r)
    \/ ReceiveStreams
    \/ ReplaceFd("fd1", "replace1", "replace2") \/ ReplaceFd("fd2", "replace2", "parse")
    \/ Parse \/ ConfigLogging
    \/ KeepComponent \/ LoadDescriptor \/ CreateComponent
    \/ OpenRunner \/ Prepare \/ RunJob
    \/ Raise \/ LoadDescriptorFails

Unwind ==
    \/ DeleteTmpFile \/ CloseOutput
    \/ LogException \/ RestoreCliLevel \/ RemoveHandler \/ FlushHandler
    \/ RestoreRootLevel \/ RestoreEnvLevel
    \/ \E n \in Fds : RestoreFd(n)
    \/ \E s \in Streams : CloseStream(s)
    \/ Reply

Next == Acquire \/ Unwind

Spec == Init /\ [][Next]_vars

-----------------------------------------------------------------------------
(* Properties                                                               *)

Sources == {"commandLine", "client", "executor", "environment", "default"}
Callbacks == Streams \cup Fds \cup {"env", "root", "flush", "handler", "cli", "log",
                                     "output", "tmpFile"}

\* Every variable holds a value of its type.
TypeOK ==
    /\ pc \in {"idle", "receive", "replace1", "replace2", "parse", "logging", "init", "create",
               "open", "prepare", "run", "unwind", "ended"}
    /\ job \in Jobs \cup {None}
    /\ request \in Requests \cup {None}
    /\ exits \in Seq(Callbacks)
    /\ raised \in BOOLEAN
    /\ stream \in [Streams -> {"none", "open", "closed"}]
    /\ fd \in [Fds -> {"server", "client"}]
    /\ envLevel \in LogLevels \cup {None}
    /\ rootLevel \in LevelNumbers /\ cliLevel \in LevelNumbers
    /\ handler \in LevelNumbers \cup {None}
    /\ saved \in [env : LogLevels \cup {None}, root : LevelNumbers,
                 cli : LevelNumbers]
    /\ component \in Descriptors \cup {None}
    /\ descriptor \in Descriptors \cup {None}
    /\ DOMAIN envProps \subseteq Props
    /\ DOMAIN props \subseteq Props
    /\ tmpFile \in BOOLEAN
    /\ output \in {"none", "buffered", "partial", "complete"}
    /\ answered \in [Jobs -> {"none", "zero", "one"}]

\* Whatever a job did and wherever it failed, the process that takes the next
\* one is as it was: its own descriptors 1 and 2, its log levels, LOG_LEVEL, no
\* handler left behind and no copy of a video (the exit stacks of JobRequest,
\* config_job_logging and JobRunner).
RestoredBetweenJobs ==
    pc = "idle" =>
        /\ exits = <<>> /\ ~raised
        /\ \A n \in Fds : fd[n] = "server"
        /\ envLevel = ExecutorLevel
        /\ rootLevel = RootLevel /\ cliLevel = CliLevel /\ handler = None
        /\ ~tmpFile

\* The client's log has the level it asked for, or else that of the executor's
\* own environment, whatever earlier jobs and the descriptor asked for, and no
\* logger keeps back what the client's handler lets through; this until the
\* exception of a failed job is logged.
SeesOwnLevel ==
    "log" \in Range(exits) =>
        /\ handler = LevelInt[LevelFor(request.verbose, ExecutorLevel)]
        /\ rootLevel <= handler /\ cliLevel <= handler

\* The handler on the client's stderr is gone before that stream is closed
\* (comment of JobRequest.__init__: "This must be added to the stack last").
LogsToOpenStream == handler # None => stream["stderr"] = "open"

\* The client's streams are closed, and what was written to the output is out
\* of its buffer, before the client has its byte (docstring of JobRequest).
ClosedBeforeReply ==
    pc \in {"idle", "ended"} => /\ \A s \in Streams : stream[s] # "open"
                               /\ output # "buffered"

\* No property of one client reaches the job of another, a client's own come
\* before those of the executor, and the defaults are those of the component
\* that runs, whichever descriptor the job names.
PropsAreOwn ==
    pc = "run" =>
        /\ \A p \in DOMAIN props :
               /\ props[p][1] \in {"commandLine", "client"} => props[p][2] = job
               /\ props[p][1] = "default" => props[p][2] = component
        /\ \A p \in request.commandLine : props[p] = <<"commandLine", job>>
        /\ \A p \in request.clientEnv \ request.commandLine : props[p] = <<"client", job>>

\* Once its component is loaded the executor keeps it, its descriptor and the
\* component's properties that the descriptor set in its environment (envProps),
\* whatever the jobs to come name.  A descriptor's LOG_LEVEL is not among them:
\* RestoreEnvLevel takes it back with every job.
ComponentSettled ==
    [][component # None => UNCHANGED <<component, descriptor, envProps>>]_vars

\* Every track is written once, in the order of the tracks' keys, with each of its
\* detections once and in the order of their frames, and with the earliest of the
\* most confident of them as its exemplar, whatever the order in which the
\* component added them.
FaithfulResults == Faithful(results, found)

=============================================================================
