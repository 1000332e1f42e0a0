# The OpenMPF component runner in TLA+

`openmpf-docker` builds and runs the containers of OpenMPF. Most of the
repository is build configuration and sequential scripts. Its concurrent core is
the *CLI runner* (`src/components/cli_runner`): a server inside a component's
container that keeps a pool of executor processes, so that `docker exec
<container> runner <media>` does not have to load the component's models each
time. This directory holds TLA+ modules of that core, the TLC configurations
that check them, and theorems about them that TLAPS checks.

## The system

A **client** (`mpf_cli_client.py`) connects to an address in Linux's abstract
namespace, sends its three standard streams, arguments, directory and job
properties, and blocks until it has read one byte, its exit code. At the end of
the stream it exits with 6. If nobody listens at the address it constructs a
server socket, forks, and the child becomes the server.

The **component server** (`mpf_cli_server.py`) has one thread. It accepts a
client, looks for an idle executor in its list, starts one if there is none, and
passes the client's socket on. There is no queue of jobs: an executor gets one
at a time. A server forked by a client exits when it has had no executors and no
client for the idle timeout; one started as `runner --daemon` is pid 1 of its
container and stays.

An **executor process** (`mpf_cli_executor_process.py`) has two threads. The
*runner* takes client sockets from a socket pair shared with the server, runs
the job, replies to the client and sends the server an idle byte. The *watcher*
(the main thread) blocks in `recv` on the current client's socket: when the
client leaves, the watcher ends the process, even if the component is deep in
native code. `JobSync` keeps the two in step with two barriers and a lock.

| Component | State it keeps | Operations | What is hard | What makes it correct |
| --- | --- | --- | --- | --- |
| client | its connection | connect, fork a server, send, wait | servers appearing and disappearing | it gets an exit code or learns that there is none |
| server | pool, listening socket | accept, choose, start, submit, reap, idle exit | executors that die or time out as they are chosen | no job twice, none forgotten, every executor reaped |
| executor manager | `_is_idle`, `_broken_pipe` | `submit_job`, `is_idle`, `is_alive`, `cleanup` | a stale idea of a process that changes by itself | never a second job into a busy executor |
| executor | two threads, `JobSync`, the component | take, run, answer, abort, time out, SIGTERM, Ctrl-C | threads losing step, tear-down under a running job | success means it ran; abort only if that client left |
| job session (`JobRequest`, `LogConfig`, job runner, component handles) | streams, descriptors 1 and 2, log levels, environment, the component | acquire, load, run, convert, give back | process-wide state lent to one client after the other, failures on the way out | the next job finds the process as it was; its own level, properties and output |
| container (`component-executor.py`) | the executor's `Popen`, a `tail`, a stack of signal handlers | start, forward signals, wait for both | handlers on top of a wait, processes waiting for each other | it ends when it is told to or its executor ends, with the executor's code |
| registry clean-up | the images that match and their digests | search, look up, delete | images named by tag and removed by digest, pushes in between | it removes what matches and nothing else |
| other maintenance scripts | none that a later step depends on | list, remove, retag, push | | not modelled |
| build scripts, entry points, installers | files of an image | copy, link, install | none beyond order | not modelled |

## Modules

| Module | Models |
| --- | --- |
| `ExecutorProcess` | one executor with both threads, its manager in the server, its clients |
| `ExecutorProcess_proofs` | its inductive invariants and theorems |
| `ExecutorContract` | what server and executors promise each other, threads and pool left out |
| `ExecutorRefinement` | `ExecutorProcess` seen as one executor of the contract |
| `ExecutorRefinement_proofs` | that it implements the contract |
| `ComponentServer` | the server's thread and the pool, with the contract's executors |
| `ComponentServer_proofs` | its inductive invariants and theorems |
| `JobSession` | what an executor keeps and lends from job to job |
| `JobSession_proofs` | its inductive invariant and theorems |
| `ResultConverter` | a component's results as the tracks that are written, operators only |
| `ResultConverter_proofs` | that what is written is what was returned, sorted |
| `ServerStartup` | clients that find, start and lose servers; the shared address |
| `ServerStartup_proofs` | its theorems |
| `ComponentExecutor` | pid 1 of a component's container, its executor, tail and signals |
| `ComponentExecutor_proofs` | its inductive invariants and theorems |
| `RegistryCleanup` | `docker-registry-remove-images.py` and the registry it works on |
| `RegistryCleanup_proofs` | its inductive invariants and theorems |
| `MCExecutorProcess`, `MCComponentServer`, `MCJobSession`, `MCServerStartup`, `MCComponentExecutor`, `MCRegistryCleanup` | instances for TLC |

Operators whose name has an underscore (`Submit_StaysIdle`) are mutated forms of
the definition that follows them: plausible mistakes that the runs must notice.
No specification uses them.

### ExecutorProcess

`pc["runner"]` and `pc["watcher"]` follow the two threads; each section under
`JobSync._lock` is one step, everything else that another thread or process can
observe is a step of its own. `barrier[b]` is the state of a `threading.Barrier(2)`:
*filling*, *draining* (released, the first party not yet awake: a thread that
arrives now must block) or *broken*. `conn[j]` is the server side of client
`j`'s socket: with the server, queued in the socket pair, open in the executor,
shut down for reading, or closed.

| Code | Actions |
| --- | --- |
| `_run_jobs`: select | `TakeJob`, `ParentGone`, `IdleTimeout` |
| `JobRequest.__init__` | `AcceptRequest`, `RejectRequest` |
| `begin_process_job` | `AcceptRequest`, the begin barrier, `Deactivate`, the end barrier, `ClearSocket` |
| `_init_component`, `JobRunner` | `InitComponent`, `RunComponent`, `JobRaises` |
| `_recv_client_socket` after the yield | `Reply`, `ReplyFails` |
| `_run_job`'s last line | `SendIdle`, `SendIdleFails` |
| `_check_close`, `begin_watch_job_abort` | `Expose`, `EnterRecv`, `RecvRaises`, `RecvReturns`, `JobIsOver`, `AbortJob` |
| `run_jobs` after `_check_close` | `WatcherFindsBroken`, `JoinRunner`, `AbortJob` (which does not join) |
| `ExecutorProcess.__exit__`, end of process | `CloseComponent`, `CloseParentSocket`, `Exit` |
| `fix_sig_term`, `terminate`, Ctrl-C | `KilledBySigterm`, `SignalWhileWatching`, `SignalWhileJoining`, `CtrlC` |
| `ExecutorProcessManager` | `PollIdle`, `PollResets`, `Submit`, `SubmitFails` |
| `serve`'s `except`, exit of the server | `ServerStops`, `ServerJoins`, `ServerDies` |

Three points decide much of what the model does. First, `config_job_logging`
catches whatever a job raises, logs it and does not raise it again; since
`begin_process_job` has no `finally`, `JobRaises` goes straight to the reply,
which is the zero byte. Arguments are parsed before that handler is in place, so
`RejectRequest` does answer one. Second, closing `JobSync` breaks both barriers
but does not interrupt a runner that waits in `select`. Third, the executor is
forked from the server: if the server is pid 1 it inherits a handler for SIGTERM
that raises `SystemExit` in the main thread. A server that stops sends SIGTERM
in `serve` and again in multiprocessing's exit handler, which then joins; two
signals may arrive as one.

Ctrl-C is a second signal of this kind, and it needs no pid 1. Where server and
executors are in the foreground of a terminal (`Terminal`), it reaches all of them
at once. An executor keeps Python's handler for SIGINT over the fork, so that
`KeyboardInterrupt` is raised in its main thread: it leaves `_check_close` through
`closing(job_sync)`, which breaks both barriers, and `run_jobs` joins the runner. A
runner that has its job but is not past the begin barrier then finds it broken,
`config_job_logging` drops that exception too, and its client is told of success. All
this may come before the server's SIGTERM, which is sent when the server has its own
`KeyboardInterrupt`: from `CtrlC` on the server is *interrupted* and makes no further
call, until `ServerStops`. `signals` holds what is pending; `SignalWhileWatching(s)`
and `SignalWhileJoining(s)` are the exception in `_check_close` and in `join`. An
exception during the tear-down only repeats what is under way, so that a signal that comes then
stays pending here; breaking both barriers is one step, and so is the start of an executor.

A peer that closes with something unread in its socket resets the connection. If an
executor drops a client it never took, the server's `recv` in `is_idle`
raises `ConnectionResetError`, which nobody catches (`PollResets`); with nothing
unread it returns the end of the stream, and the executor is taken for idle
(`PollIdle`) until a send fails.

`Failing` is the set of jobs that may raise. Output that cannot be written
because the client's pipe is gone is a job that raises in this sense. A flush
that fails when `JobRequest` is left is not: it comes after the exception handler
of the job, the client is sent 1 and the executor ends (`ReplyFails`). The jobs
that may do either are those of `Malformed`.

### ExecutorContract and ExecutorRefinement

The contract is the composition of the two halves. An executor of the contract has
an inbox, a client in hand, what it has done for that client (`work`), the
idle bytes it sent and the state of its process. `Hand` is what a server may do: give
a client that nobody has to an executor that is free and whose bytes are read.
`Retire` and `Die` are the two ways an executor starts to end: with nothing to do,
or (for whatever reason) not before its first job, unless the server has stopped.
`Elsewhere` is all that does not concern clients that an executor has.

`ExecutorRefinement` maps `ExecutorProcess` to a contract with one executor.
The runner and the watcher are folded into `process`: an executor is *closing* as soon
as one of the two is past the point of return, and since the runner is a daemon
thread it may still take, answer or finish a job until the process is gone. A job
whose component raised is *answered* like any other. `ComponentServer` takes the
actions of its executors from the contract (`Contract!TakeJob` and so on) with its own
guards added, and its hand-overs, reads and reapings are checked against it too.
Both halves are runs (`KeepsContract` in `executor` and `server`) and
theorems (`ExecutorKeepsContract`, `ServerKeepsContract`).

The contract is about safety. `ComponentServer` assumes in addition that executors with a
job get on with it (`WF` of `ExecutorStep`), which is what
`EveryClientReleased` and `HungJobIsAbandoned` say of `ExecutorProcess`
when components do not raise. After a job that raised, the executor may stop
answering (see below); the pool's liveness does not cover that case.

### ComponentServer

The loop of `serve` is `Reap` (`_remove_dead_processes` and the choice of how to
wait), `Accept`, then `ReuseExecutor` or `StartExecutor` and `Submit`; with a
broken pipe `SubmitFails` returns to the choice (`TryAgain`). `ChildExited` is
select reporting only sentinels, `SelectTimesOut` and `CloseListener` the idle
exit, `ServerStops` and `ServerKilled` the two ways to end from outside. `ReapCrashes`
is a third: `cleanup` waits half a second for a process that closed its socket,
sends it SIGTERM and calls `Process.close` without waiting, which raises
`ValueError` if the process is still there. `PollResets` is a fourth: `is_idle`
reads from an executor that is not yet dead and has closed its socket over a client
it did not take (`Resetting`). A server that stops sends SIGTERM
(`Terminate`, which for a server in a terminal may be the executors' own Ctrl-C) and joins its executors (`JoinAtExit`); one that was killed does
neither, and an executor learns of it by the end of its stream.

For that, `ServerEndHeld(e)` says who holds the server's end of e's socket pair. An
executor closes the copy it inherits of its own pair only, so that it holds the
ends of all executors started before it. `EndOfStream` and `SendIdleFails` are
possible once neither the server nor a later executor holds it. `NoOrphans` then
says that the executors of a dead server end one after the other, the last
one first, and `ServerEndHeld_ByItselfToo` is the mistake `close_in_child` is
there to prevent.

An executor may die at any moment at which it has a job (`Die`), and time out when
it has none. With a timeout of some seconds it does not time out before its
first job (`IdleTimeout`); with a timeout of 0 it may, because its first
`select` is then a poll.

### JobSession and ResultConverter

All of `_run_job` between two selects, as the runner thread sees it.
The process lends itself to each client: descriptors 1 and 2 become the
client's stderr, the root logger and the runner's logger take the job's level if
it is lower, `LOG_LEVEL` is set for native code, and a handler writes to the client's
stderr. `exits` is the list of callbacks on the exit stacks of `JobRequest`,
`config_job_logging` and `JobRunner`, one after the other. `Push` stands for `enter_context` and
`callback`, and each callback is an action that is possible when it is the last one.
A step may raise (`Raise`, `LoadDescriptorFails`, a failing write or
flush), and then the way out is the same. `LogException` ends the exception of
a job; one raised after it ends the process (`Reply`, *ended*).

| Code | Actions |
| --- | --- |
| `JobRequest.__init__` | `ReceiveStreams`, `ReplaceFd`, `Parse`, `ConfigLogging` |
| `_init_component`, component handles | `KeepComponent`, `LoadDescriptor`, `LoadDescriptorFails`, `CreateComponent` |
| `JobRunner` | `OpenRunner`, `Prepare`, `RunJob` |
| exits of `JobRunner` | `DeleteTmpFile`, `CloseOutput` |
| exits of `config_job_logging` | `LogException` to `RestoreEnvLevel` |
| exits of `JobRequest` | `RestoreFd`, `CloseStream` |
| `_recv_client_socket` | `Begin`, `Reply` |

A property is a pair of where it comes from and whose it is, so that one that
reaches the wrong job shows. `Prepare` applies `setdefault` from the client's
environment, the process's and the descriptor's defaults in that order. `RestoreFd`
keeps the client's stderr when a flush raises, as the `finally` of
`replace_fd_temp` does; the exception then ends the process. This also covers
`-o -`, for which argparse returns the process's own `sys.stdout`: the job closes it
and descriptor 1 cannot be given back. `Convert` sorts the detections of each
track, picks the exemplar and sorts the tracks. `Faithful` says what that owes to the
component's results: the tracks written are those returned in another order, one to one, and
sorted; so are the detections of each; and its exemplar is one of them, the earliest of the most confident. Python's sort is stable and is defined by that: an
element goes to the place given by the number of those that have to come before it,
by their keys or, where the keys decide nothing, by where they were.

### ServerStartup

A socket is named by the client that created it and lives while the client or
the server it forked holds it (`holders`): the address is free when the last of
them closes. `Bind` and `Listen` are two steps; a socket that is bound and not
listening makes `bind` fail and `connect` too. A server times out with an empty
queue and closes its socket in a later step, and clients in its queue by then
are reset.

### ComponentExecutor

`component-executor.py` runs in containers that are started without arguments,
in place of the CLI runner. `docker-entrypoint.sh` execs it, so that it is pid 1:
a SIGTERM without a handler is ignored, and whatever still runs is killed when it
ends. `pc` follows `main` through `init` (`StartExecutor`, `InstallHandler`,
`StartTail`) and the two waits. A handler runs on top of `main`, or of another
handler, and `main` moves only when the stack `frames` is empty. While `main` is
inside `executor_proc.wait()` it holds the lock of `Popen`, so that the `wait(1)`
of a handler cannot reap and times out, whatever the executor does
(`IntTimesOut`, `TermTimesOut`); before that, `HandlerReaps` is possible, and
`EnterWait` finds the code there. A process is a zombie until somebody reaps it,
and `tail --pid` follows until the process is gone, a zombie not counting as gone.

### RegistryCleanup

The script's loops are `ListTags`, `LookUp` and `Delete`; arguments, the initial
registry and the order of everything are chosen freely, each call to the registry
may fail, and others push in between. A DELETE has three ends. The registry deletes
(`Delete`); `curl` fails and the script with it (`DeleteFails`); or the registry
answers with an HTTP error, for example because deletions are not enabled. Of that
`curl -s -S` says nothing and `do_rest_call` parses nothing, so that the script
goes on with the image in place (`DeleteRefused`). `refused` records these images, as the script does not. `-n` and `-t`, exact or partial, are the
sets `NameMatches` and `TagMatches`. The registry is external: `DeleteManifest`
is its documented answer to a DELETE by digest.

## Runs

| Run | Instance | States | Shows |
| --- | --- | --- | --- |
| `executor` | 3 jobs, all possibly malformed, none raises, Ctrl-C, `WaitedSpec` | 1,506,986 | five invariants of the executor, every client released, hung jobs abandoned, the contract kept |
| `executor_pid1` | 2 jobs, all may raise or be malformed, server is pid 1, Ctrl-C, `LiveSpec` | 556,668 | the executor ends with its server; false zeros have a cause; no mutual wait before a component raises |
| `server` | 3 clients, 3 executors, positive timeout, deaths, late exits, `TimeoutSpec` | 354,567 | jobs given once, to a free executor, and held there until their outcome; clients released, server exits, nobody left behind by it, alive or dead; the contract kept |
| `session` | 3 jobs, 2 descriptors, 1 property, 32 requests, 2 results | 419,917 | the process restored between jobs; level, properties, output and component of each job |
| `startup` | 4 clients, positive timeout, `FairSpec` | 12,671 | one server; its starter reaches it; every queue has a server in prospect; clients end |
| `container` | 3 signals, 2 lines of log, `FairSpec` | 34,019 | ends with its executor, or when signalled; SIGKILL only after SIGTERM; right code; whole log |
| `registry` | 2 repositories, 2 tags, 2 digests, one push, failing and refused calls | 143,118 | all that matches is removed but for what failed or was refused, nothing that was not seen, and nothing with `--dry-run` |
| `executor_failed_job_zero` | 2 jobs, the first may raise | violation | a failed job is answered with success |
| `executor_client_blocked` | the same, `LiveSpec` | violation | a client can be left waiting for ever |
| `server_loses_job` | 2 clients, timeout 0 | violation | a job is dropped between send and close |
| `startup_refused` | 2 clients, no timeout | violation | the second client is refused in the bind-listen window |
| `registry_kept` | as `registry` | violation | a kept tag is removed with a matching one |

`ServerStartup` and `RegistryCleanup` have no run for `TypeOK`: it is proved, and
every other theorem of theirs rests on it.

All configurations turn deadlock checking off: an executor, a server and a
client that have ended are meant to stop.

**Bounds.** Two jobs are needed for any confusion of one job with the next;
three let a job stay with the server while one is refused and one is running.
In `session` the first job may fail to load its component, the second load
another, and the third find it loaded; one descriptor sets the property and
`LOG_LEVEL` in the environment, both have a default; verbosities 0 and 2 are
requested, 1 differs from 2 by name only. The results are none, and four tracks: out of order, two with the same key, one with two
detections of the same confidence in the wrong order, one with no detection.
Three clients with three executors give the server a choice among executors
while another client is in its hands and a third in the backlog. `MaxExecutors`
bounds how many are ever started: with a positive timeout each client causes at
most one start, so that three clients never meet the bound. With a timeout of 0
executors may time out before they get the job, any number of times; the safety
of that setting is a matter of the theorems, which bound nothing. Nothing else is
bounded in the runner's modules; in particular `idleBytes` is not: that it is 0 or 1 is
part of an inductive invariant (`TokenInv`). Three signals are one Ctrl-C, one more on top of its handler and a
docker stop on top of that. Two repositories, tags and digests are one of each
that matches and one that does not, and two tags with the same image.

**Fairness.** Both threads of an executor, the server's thread, signals that
were sent, a stopping server and a client that has its answer go on (weak
fairness each; a signal is `HandleSignal`, a stopping server `ServerEnds`). This is what the
operating system's scheduler gives. `WaitedSpec`
adds that a component returns or raises *as long as its client waits*, `LiveSpec`
that it does so always, which is assumed only where the server's end is the
question. A component that hangs after its client left is thus part of the
run `executor`. Nobody is made to leave, to submit, to stop or to press Ctrl-C. `TimeoutSpec` adds
that the `select` of an idle executor times out while the server is up; once the server is gone no
timeout helps `NoOrphans`. In `ComponentExecutor` main, handlers and tail go on
and SIGKILL is carried out; the executor itself is not fair at all. `JobSession`
is checked for safety only. The positive timeouts are assumed longer than the
few system calls between a fork and the first use of what was forked.

`EveryClientReleased` and `HungJobIsAbandoned` of `ExecutorProcess` are written `[]<>P`, where P
says that nobody is waiting, or that no runner is in a component for a client that left.
No client that waits no more waits again, there are finitely many of them, and a job is
run once, so that this is the same as one *leads to* for each client, and TLC checks one formula in place
of three. `HungJobIsAbandoned` has one exception. After a Ctrl-C the watcher joins the runner
of a component that hangs; what ends the join is the server's SIGTERM, and a server
that is killed before it sends that leaves the executor as it is, with its client gone.

Two runs have an empty set where a theorem has any: no component raises in
`executor` (the properties are about that), and `session` has no property of the executor's own
environment (`ExecutorProps`), whose place in the precedence is checked by `SessionProps` alone.

No run uses symmetry: most check liveness, for which it is not sound.

## What the checks found

The five violation runs are disagreements between the code and what its
comments or documents say; `PROJECT.json` quotes both sides.

* *A failed job exits with 0.* The exception is swallowed in
  `config_job_logging`; `SuccessMeansRan` fails in a few steps. `FalseZeroHasCause`
  is what does hold: such a zero has a component that raised, or a signal, behind it.
  The signal is a Ctrl-C at the terminal of the server, or a docker stop of a server that
  is pid 1: either breaks the barriers under a job that has not begun.
* *A client can wait for ever after another's job failed.* The job fails before
  the watcher has taken its socket from `JobSync`. The next job replaces the
  socket and goes to the begin barrier; the watcher takes that socket without
  having met the runner, and blocks in `recv`. No third party exists for the
  barrier, and the client waits for its answer, so nobody moves.
  The same missing step has other effects: the watcher may be on a closed socket
  and end with an error, after which the executor waits in `select` with broken
  barriers and answers zero to its next job without running it; or it may report
  an abort of a job that was answered, and close the component.
* *A timeout of 0 can lose a job.* The executor's `select` has timed out, its
  socket is still open, the server's send succeeds, and the close drops the job.
  The same setting lets an executor, or the server itself, exit before its first
  job or client. Executors that time out or die are the only way to lose a job:
  with neither, `OnlyEndingsLoseJobs` proves the property that this run refutes.
* *"Using existing server" can be refused*, with an exception nobody catches.
* *The registry clean-up removes tags it reports as kept*, when they name the same
  image as a tag that matches. `OnlySeenImagesRemoved` is what does hold, and as
  long as no two tags share a manifest the kept ones do stay (`UnsharedTagsAreKept`).

## Theorems

For every set of jobs or clients and every value of the other constants:

| Theorem | Assumes | Says |
| --- | --- | --- |
| `TypeCorrect` (each proof module) | | `[]TypeOK` |
| `OneJobAtATime` | | `[]NeverGivenSecondJob` |
| `WatcherOnCurrentJob` | | `[](NoneRaised => WatchesCurrentJob)` |
| `AbortsAreJustified` | | `[](NoneRaised => AbortJustified)` |
| `ComponentOutlivesItsJob` | | `[](NoneRaised => ClosedOnlyUnderAbandonedJob)` |
| `ThreadsNeverBlockEachOther` | | `[]NoMutualWait` (which says: until a component raises) |
| `FalseZeroIsExplained` | | `[]FalseZeroHasCause` |
| `SafeWithoutRaises` | no component raises | the first three of these, in every state |
| `ZeroMeansRan` | no component raises, server not pid 1, no terminal | `[]SuccessMeansRan` |
| `OneJobForEach` | | `[]OneJobEach` |
| `GivenToOne` | | `[]DeliveredOnce` |
| `NobodyIsForgotten` | | `[]GivenIsHeld` |
| `NobodyIsLeftBehind` | | `[]NobodyLeftBehind` |
| `OnlyEndingsLoseJobs` | no idle timeout, no executor dies | `[]GivenJobsAreProcessed` |
| `ServerKeepsContract` | | `KeepsContract` of `ComponentServer` |
| `ExecutorKeepsContract` | | `KeepsContract` of `ExecutorRefinement` |
| `AtMostOneServer` | | `[]OneServer` |
| `StarterIsNotRefused` | the timeout is not 0 | `[]StarterConnects` |
| `NoQueueIsForgotten` | | `[]QueueIsAttended` |
| `SessionTypes` | | `[]TypeOK` of `JobSession` |
| `SessionRestores` | | `[]RestoredBetweenJobs` |
| `SessionLevels` | | `[]SeesOwnLevel` |
| `SessionLogs` | | `[]LogsToOpenStream` |
| `SessionClosesFirst` | | `[]ClosedBeforeReply` |
| `SessionProps` | | `[]PropsAreOwn` |
| `SessionSettles` | | `ComponentSettled` |
| `SessionFaithful` | | `[]FaithfulResults` |
| `ConvertIsFaithful` | | `Faithful(Convert(tracks), tracks)` for every sequence of tracks |
| `ExitsWithExecutorsCode` | | `[]CodeIsExecutors` |
| `AllOfLogIsShown` | | `[]LogIsShown` |
| `EscalatesInOrder` | | `[]SignalsEscalate` |
| `OnlySeenAreRemoved` | | `[]OnlySeenImagesRemoved` |
| `AllMatchesAreRemoved` | | `[]MatchesAreGone` |
| `UnsharedTagsAreKept` | no two tags of a repository share a manifest, at any time | `[]KeptTagsStay` |

The executor's theorems hold for every `Failing`, the set of jobs whose component
may raise. `NoneRaised` says of a state that none has yet; the violation runs
show what happens to the three properties under it once one has, and the theorems say
that nothing else can break them: no malformed request, client that leaves, signal or
dying server. `ZeroMeansRan` also needs a server that is not pid 1, and no Ctrl-C: when `docker
stop`, or SIGINT, interrupts the watcher of an executor whose runner is not past the begin
barrier, the broken barrier counts as a job that raised, and its client is sent the zero byte.
That these two are all is `FalseZeroIsExplained`.

The argument for the executor (`ExecutorProcess_proofs`) is a chain of invariants.
`TokenInv`: between manager and executor one token goes round (believed idle,
job in the socket, job in hand, idle byte), which is lost only with a runner
that ends. `JobInv` relates the runner's place to the job's socket and answer.
`SyncInv` lists, for each place of the watcher and each state of the barriers,
where the runner can be; a draining barrier has exactly one thread that has yet
to wake. It is this case list that fails as soon as a job raises. `AbortInv`
says what an abort rests on, `EndInv` who closes what while a thread is still at
work, `RanInv` which places of the runner come after a completed run, `RaiseInv`
that a job runs once (so that no later step takes back what `NoneRaised` says), and
`JoinInv` that the watcher broke the barriers before it joins and ends its loop with its
first exception; `SignalInv` says which signals there can be. None of
the properties is inductive without them. `HarmonyInv` puts them together: `TypeOK`, `JobInv`,
`RaiseInv` and `JoinInv` always; `SyncInv`, `AbortInv` and `EndInv` while `NoneRaised`;
`RanInv` while, besides, no signal has interrupted the watcher. `NoMutualWait` follows from `SyncInv` by
going through the barriers: a runner that waits at one leaves the watcher no
place where it could be waiting for the runner.

For the pool (`ComponentServer_proofs`) there are again five. `RequestInv` (what
the server submits is a client, to an executor of the pool it believes idle) is
needed even for the types. `TokenInv` is the token of the previous paragraph,
now for each executor; `OneJobEach` follows. `DeliveryInv` ties a client's state
to the executors its socket was sent to: only the client in the server's hands
is *accepted*, it was given to nobody, and whatever an executor holds was given
to it and to no other, from which `DeliveredOnce` follows. `PoolInv` says that a
process which is neither reaped nor unborn is in the pool, so that an empty pool
means no process; `CustodyInv` that a client which was given away and has no
outcome yet is in the socket or the hands of a living executor. The last two
give `GivenIsHeld` and `NobodyLeftBehind`: reaping must not take an executor that
still lives, and an executor must not end without its clients' outcome. Where no
executor times out or dies, `UpInv` adds that none ends while the server is up, so that nothing
it was given is lost.

`AddressInv` in `ServerStartup_proofs`
says which process holds which socket; that two servers are never at work
follows, because a bound socket excludes another one and a server at work holds
a listening socket. `StarterInv` adds that a client which has forked and not yet
connected has a server that is still serving, `QueueInv` that who waits in a
queue waits at a socket that listens. With a timeout of 0 the server may be gone while
its starter still holds the socket; the queue is then reset when the starter lets go.

The two refinement theorems rest on these invariants. `ServerKeepsContract` needs
`TokenInv` to show that the executor a client is handed to is free and its bytes
are read, and `DeliveryInv` that what the server refuses or drops by itself was
given to nobody. `ExecutorKeepsContract` adds to `JobInv` and `TokenInv` of
`ExecutorProcess` where the job is (`HandInv`: a free executor has none; an
executor that aborts has had one) and that a signal comes only from a server
that no longer serves, or with what ends it (`StopInv`). It goes through the actions of both threads and shows for
each which step of the contract it is. It assumes nothing of the components: a job that raises
and the loss of step that follows change which client is released, not what the
server was promised.

In `JobSession_proofs` everything follows from the depth of the exit stacks.
`DepthInv` says that they hold a first part of one fixed order, and how much at
each place in the code; `LentInv` and `LevelInv` say, for each depth, what is still
lent or what the levels are; `PropsInv` follows the properties and the component.
A restoration that failed leaves an exception that nothing below it swallows,
so that a process which is idle has had none.

`ConvertIsFaithful` holds for results of any length without an induction.
What `StableSort` sorts by is a strict order of the indexes in which any two compare
(`StableOrder`), so that the ranks of n elements are n different numbers up to n
(`Ranks`), hence each place is taken by exactly one element (`RankOnto`, a surjection
between finite sets of the same size). Sorting is thus a bijection that respects the order
(`SortedByRank`, `SortsOneToOne`), from which follow both what is kept, for tracks and for the
detections of each, and how it is ordered. The earliest
of the most confident in a sorted sequence is the one with the least index, which is
what `max` returns (`MostConfidentIsFirst`).

In `ComponentExecutor_proofs`, `CodeInv` says that a code is there from the
executor's end on and is held by nobody but the one who reaped it, which may be
`main` in the middle of `wait` or a handler; `LogInv` that `tail` has only ended
by itself, after it read what a process that is gone wrote; `AskedInv` that each
`handle_sig_term` on the stack has sent its SIGTERM. In
`RegistryCleanup_proofs`, `SearchInv` follows what is deleted back to what was
seen. `PendingInv` is the converse: an image that matches and is still there is
yet to be searched, to be looked up, or to be deleted under the digest it has. A
push in between breaks it for the image pushed, and so does a failed call or a refused DELETE for
the image concerned; those are the exceptions `MatchesAreGone` makes. `SharingInv`
says that a digest to delete is that of no other tag but those pushed later; the
hypothesis of `UnsharedTagsAreKept` is about every state because a push may
make two tags share a manifest too.

Checked by TLC only: the liveness properties (ENABLED and fairness are out of
the prover's reach). Every invariant and every action property of the passing runs is a theorem.

## Not modelled

* The text of requests, arguments and log messages, beyond what may fail; the
  media type, MIME type and frame rate of the media (they decide whether `Prepare`
  fails); fields of a detection other than frame and confidence; `Stats`.
* The values of variables that descriptors append to (`sep`), and what the
  component's SDK keeps: it is not part of this repository.
* Ctrl-C at an executor in the middle of its tear-down or of its start-up (see
  above), and at a client, which is a client that leaves. What the other executors of
  a server in a terminal do is `Terminate`.
* SIGKILL of an executor other than as a death of the process in
  `ComponentServer`; failing forks, exhausted descriptors, a full backlog.
* How `component-executor.py` finds its descriptor and builds the executor's
  command and environment (once, before anything runs beside it); the last ten
  lines `tail` starts with.
* The other maintenance scripts. They run one docker command for each image or
  node of a list. `docker-swarm-remove-images.sh` keeps the list of images to
  remove from one node to the next; a name on it matches the same search on the
  later node, so that the removals are those announced, though not the messages.
* The build scripts, installers and containers' entry points: sequential,
  run once, with the file system of an image as their state.
* `check-test-reports.py` and the integration tests' entry point, which add up
  reports that are all there when they start; the Jenkins and bake files.

## Plan

1. Done: `ExecutorProcess`, `ComponentServer`, `ServerStartup`,
   `ComponentExecutor`, `RegistryCleanup`, their runs and theorems.
2. Done: `ExecutorContract`, implemented by `ExecutorProcess` and by
   `ComponentServer`, which is built from it.
3. Done: `JobSession` and `ResultConverter`.
4. Open: the executors' liveness as a contract too, so that the fairness
   `ComponentServer` assumes is what `ExecutorProcess` provides.
5. Done: every safety property of the runs is proved; those of the executor
   up to the first component that raises.
6. Open: what remains true of the two threads after a component has raised, beyond
   `NeverGivenSecondJob`, `FalseZeroHasCause` and the contract; which properties
   would hold with a `finally` in `begin_process_job` is worth a run once the code
   has one.

A new module gets one MC module and one run, with its properties and a mutant
for each.
