------------------------- MODULE ComponentExecutor -------------------------
(***************************************************************************)
(* The entry point of a component's container (component-executor.py): it  *)
(* starts the component's executor and a `tail` of the component's log,    *)
(* passes signals on to the executor, waits for both and exits with the    *)
(* executor's code.  docker-entrypoint.sh execs it, so that it is pid 1:   *)
(* it ignores a SIGTERM it has no handler for, and nothing survives it.    *)
(*                                                                         *)
(* Python runs signal handlers on the main thread, on top of what it is    *)
(* doing, another handler included: `frames` is the stack of them.         *)
(* Popen.wait holds a lock while it is in waitpid, so that a handler's own *)
(* wait(1) on top of it cannot see the executor's end and always times out.*)
(***************************************************************************)
EXTENDS Integers, Sequences

CONSTANTS
    MaxSignals,     \* bound on the signals sent to the container
    MaxLines,       \* bound on the lines the executor logs
    NoCode

ASSUME BoundsAssumption == MaxSignals \in Nat /\ MaxLines \in Nat
ASSUME NoCodeAssumption == NoCode \notin Int

VARIABLES
    pc,            \* where main is
    frames,        \* the handlers on top of it, the running one first
    pending,       \* signals the container got, whose handlers have not started
    signals,       \* how many signals were sent to it
    executor,      \* the executor's process
    toExecutor,    \* signals sent to the executor
    code,          \* what it exited with, negative if a signal ended it
    returncode,    \* Popen.returncode of the executor
    tail,          \* the tail process
    written,       \* lines in the component's log
    shown,         \* how far tail has read it
    status         \* the container's exit status

mainVars     == <<pc, frames, returncode, status>>
executorVars == <<executor, toExecutor, code>>
logVars      == <<tail, written, shown>>
signalVars   == <<pending, signals>>
vars == <<mainVars, executorVars, logVars, signalVars>>

Init ==
    /\ pc = "init" /\ frames = <<>> /\ returncode = NoCode /\ status = NoCode
    /\ executor = "none" /\ toExecutor = {} /\ code = NoCode
    /\ tail = "none" /\ written = 0 /\ shown = 0
    /\ pending = {} /\ signals = 0

\* Mutated ExitStatus: the code is not cut to a byte.
ExitStatus_Whole(n) == n

\* Exit status of a process that calls exit with n: the low byte.
ExitStatus(n) == n % 256

\* pid 1 ends, with sys.exit or with an exception: the kernel kills all others.
ContainerEnds(how, n) ==
    /\ pc' = how
    /\ status' = ExitStatus(n)
    /\ executor' = IF executor = "none" THEN "none" ELSE "reaped"
    /\ tail' = IF tail = "none" THEN "none" ELSE "gone"
    /\ frames' = <<>>

Ended == pc \in {"exited", "failed"}

-----------------------------------------------------------------------------
(* main                                                                     *)

\* A step of main's own code: no handler is running.
MainAt(place) == pc = place /\ frames = <<>>

StartExecutor ==
    /\ MainAt("init")
    /\ executor' = "running"
    /\ pc' = "installInt"
    /\ UNCHANGED <<frames, returncode, status, toExecutor, code, logVars, signalVars>>

\* signal.signal for SIGINT, then for SIGTERM.
InstallHandler ==
    /\ \/ MainAt("installInt") /\ pc' = "installTerm"
       \/ MainAt("installTerm") /\ pc' = "startTail"
    /\ UNCHANGED <<frames, returncode, status, executorVars, logVars, signalVars>>

\* tail_log_if_needed: COMPONENT_LOG_NAME may not be set.
StartTail ==
    /\ MainAt("startTail")
    /\ tail' \in {"none", "following"}
    /\ pc' = "enterWait"
    /\ UNCHANGED <<frames, returncode, status, executorVars, written, shown, signalVars>>

\* No descriptor, a bad language, a log directory that cannot be made.
InitFails ==
    /\ MainAt("init") \/ MainAt("startTail")
    /\ ContainerEnds("failed", 1)
    /\ UNCHANGED <<returncode, toExecutor, code, written, shown, signalVars>>

\* executor_proc.wait(): a handler's wait may have the code already; if not, main
\* takes the lock and calls waitpid.
EnterWait ==
    /\ MainAt("enterWait")
    /\ pc' = IF returncode = NoCode THEN "wait" ELSE "tailWait"
    /\ UNCHANGED <<frames, returncode, status, executorVars, logVars, signalVars>>

\* Mutated WaitReaps: tail is waited for first.
WaitReaps_TailFirst ==
    /\ MainAt("wait")
    /\ executor = "zombie" /\ tail # "following"
    /\ executor' = "reaped"
    /\ pc' = "record"
    /\ UNCHANGED <<frames, returncode, status, toExecutor, code, logVars, signalVars>>

\* waitpid returns: the process is gone before returncode says so.
WaitReaps ==
    /\ MainAt("wait")
    /\ executor = "zombie"
    /\ executor' = "reaped"
    /\ pc' = "record"
    /\ UNCHANGED <<frames, returncode, status, toExecutor, code, logVars, signalVars>>

RecordCode ==
    /\ MainAt("record")
    /\ returncode' = code
    /\ pc' = "tailWait"
    /\ UNCHANGED <<frames, status, executorVars, logVars, signalVars>>

\* tail_proc.wait() and sys.exit.
Finish ==
    /\ MainAt("tailWait")
    /\ tail # "following"
    /\ ContainerEnds("exited", returncode)
    /\ UNCHANGED <<returncode, toExecutor, code, written, shown, signalVars>>

MainStep == \/ StartExecutor \/ InstallHandler \/ StartTail
            \/ WaitReaps \/ RecordCode \/ EnterWait \/ Finish

-----------------------------------------------------------------------------
(* Signals                                                                  *)

HasHandler(s) ==
    pc \notin ({"init", "installInt"} \cup (IF s = "term" THEN {"installTerm"} ELSE {}))

\* Popen.send_signal: nothing is sent once returncode is known, and nobody gets
\* what is sent to a process that is gone.
SendSignal(s) ==
    toExecutor' = IF returncode = NoCode /\ executor = "running"
                  THEN toExecutor \cup {s} ELSE toExecutor

\* Mutated Foreground: tail is in the terminal's process group.
Foreground_TailToo == {"executor", "tail"}

\* What Ctrl-C reaches besides pid 1: tail has a session of its own.
Foreground == {"executor"}

\* docker stop, docker kill: pid 1 gets the signal, or ignores a SIGTERM.
DockerSignal(s) ==
    /\ ~Ended /\ signals < MaxSignals
    /\ s = "int" => HasHandler("int")
    /\ signals' = signals + 1
    /\ pending' = IF HasHandler(s) THEN pending \cup {s} ELSE pending
    /\ UNCHANGED <<mainVars, executorVars, logVars>>

CtrlC ==
    /\ ~Ended /\ signals < MaxSignals /\ HasHandler("int")
    /\ signals' = signals + 1
    /\ pending' = pending \cup {"int"}
    /\ toExecutor' = IF executor = "running" /\ "executor" \in Foreground
                     THEN toExecutor \cup {"int"} ELSE toExecutor
    /\ tail' = IF tail = "following" /\ "tail" \in Foreground THEN "gone" ELSE tail
    /\ UNCHANGED <<mainVars, executor, code, written, shown>>

\* SIGINT before its handler is set: KeyboardInterrupt ends main.
InterruptedEarly ==
    /\ ~Ended /\ signals < MaxSignals /\ ~HasHandler("int")
    /\ signals' = signals + 1
    /\ ContainerEnds("failed", 130)
    /\ UNCHANGED <<pending, returncode, toExecutor, code, written, shown>>

\* handle_sig_term or handle_sig_int up to its wait(1), which returns at once if
\* the code is known.
RunHandler(s) ==
    /\ ~Ended
    /\ s \in pending
    /\ pending' = pending \ {s}
    /\ SendSignal(s)
    /\ frames' = IF returncode = NoCode THEN <<s>> \o frames ELSE frames
    /\ UNCHANGED <<pc, returncode, status, executor, code, logVars, signals>>

\* Mutated IntTimesOut: what handle_sig_term does when it has waited.
IntTimesOut_Kills ==
    /\ frames # <<>> /\ Head(frames) = "int" /\ returncode = NoCode
    /\ SendSignal("kill")
    /\ frames' = Tail(frames)
    /\ UNCHANGED <<pc, returncode, status, executor, code, logVars, signalVars>>

\* wait(1) in handle_sig_int times out: handle_sig_term is called.
IntTimesOut ==
    /\ frames # <<>> /\ Head(frames) = "int" /\ returncode = NoCode
    /\ SendSignal("term")
    /\ frames' = <<"term">> \o Tail(frames)
    /\ UNCHANGED <<pc, returncode, status, executor, code, logVars, signalVars>>

\* Mutated TermTimesOut: the executor is not killed.
TermTimesOut_GivesUp ==
    /\ frames # <<>> /\ Head(frames) = "term" /\ returncode = NoCode
    /\ frames' = Tail(frames)
    /\ UNCHANGED <<pc, returncode, status, executorVars, logVars, signalVars>>

\* wait(1) in handle_sig_term times out: kill, which nobody waits for.
TermTimesOut ==
    /\ frames # <<>> /\ Head(frames) = "term" /\ returncode = NoCode
    /\ SendSignal("kill")
    /\ frames' = Tail(frames)
    /\ UNCHANGED <<pc, returncode, status, executor, code, logVars, signalVars>>

\* Mutated HandlerReaps: the code is not kept.
HandlerReaps_LosesCode ==
    /\ frames # <<>> /\ returncode = NoCode
    /\ pc \notin {"wait", "record"}
    /\ executor = "zombie"
    /\ executor' = "reaped"
    /\ returncode' = 0
    /\ frames' = Tail(frames)
    /\ UNCHANGED <<pc, status, toExecutor, code, logVars, signalVars>>

\* wait(1) sees the executor's end, unless main is in waitpid.
HandlerReaps ==
    /\ frames # <<>> /\ returncode = NoCode
    /\ pc \notin {"wait", "record"}
    /\ executor = "zombie"
    /\ executor' = "reaped"
    /\ returncode' = code
    /\ frames' = Tail(frames)
    /\ UNCHANGED <<pc, status, toExecutor, code, logVars, signalVars>>

\* A handler that ran on top of this one has the code.
HandlerHasCode ==
    /\ frames # <<>> /\ returncode # NoCode
    /\ frames' = Tail(frames)
    /\ UNCHANGED <<pc, returncode, status, executorVars, logVars, signalVars>>

HandlerStep == \/ \E s \in {"int", "term"} : RunHandler(s)
               \/ IntTimesOut \/ TermTimesOut \/ HandlerReaps \/ HandlerHasCode

-----------------------------------------------------------------------------
(* The executor and tail                                                    *)

Log ==
    /\ executor = "running" /\ written < MaxLines
    /\ written' = written + 1
    /\ UNCHANGED <<mainVars, executorVars, tail, shown, signalVars>>

Number == [int |-> 2, kill |-> 9, term |-> 15]

Ends(n) ==
    /\ executor = "running"
    /\ executor' = "zombie"
    /\ code' = n
    /\ UNCHANGED <<mainVars, toExecutor, logVars, signalVars>>

\* By itself or when it is asked to.
ExecutorExits == \E n \in {0, 1} : Ends(n)

ExecutorDiesOf(s) == s \in toExecutor /\ Ends(-Number[s])

Show ==
    /\ tail = "following" /\ shown < written
    /\ shown' = written
    /\ UNCHANGED <<mainVars, executorVars, tail, written, signalVars>>

\* --pid: tail reads once more when that process is gone.  A zombie is not gone.
TailEnds ==
    /\ tail = "following" /\ executor = "reaped"
    /\ tail' = "gone"
    /\ shown' = written
    /\ UNCHANGED <<mainVars, executorVars, written, signalVars>>

-----------------------------------------------------------------------------
Next == \/ MainStep \/ HandlerStep \/ InitFails \/ InterruptedEarly \/ CtrlC
        \/ \E s \in {"int", "term"} : DockerSignal(s)
        \/ Log \/ ExecutorExits
        \/ \E s \in {"int", "term", "kill"} : ExecutorDiesOf(s)
        \/ Show \/ TailEnds

Spec == Init /\ [][Next]_vars

(* main, its handlers and tail run; the kernel carries out SIGKILL.  The     *)
(* executor may run for ever and ignore all other signals.                   *)
FairSpec == /\ Spec
            /\ WF_vars(MainStep) /\ WF_vars(HandlerStep)
            /\ WF_vars(TailEnds) /\ WF_vars(ExecutorDiesOf("kill"))

-----------------------------------------------------------------------------
(* Properties                                                               *)

\* Every variable holds a value of its type.
TypeOK ==
    /\ pc \in {"init", "installInt", "installTerm", "startTail", "enterWait", "wait",
               "record", "tailWait", "exited", "failed"}
    /\ frames \in Seq({"int", "term"})
    /\ pending \subseteq {"int", "term"}
    /\ signals \in 0 .. MaxSignals
    /\ executor \in {"none", "running", "zombie", "reaped"}
    /\ toExecutor \subseteq {"int", "term", "kill"}
    /\ code \in Int \cup {NoCode}
    /\ returncode \in Int \cup {NoCode}
    /\ tail \in {"none", "following", "gone"}
    /\ written \in 0 .. MaxLines
    /\ shown \in 0 .. MaxLines
    /\ status \in 0 .. 255 \cup {NoCode}

\* Whoever reaped the executor, main or a handler on top of it, the container
\* exits with the executor's code, and with 0 only if the executor did.
CodeIsExecutors ==
    pc = "exited" =>
        /\ status = ExitStatus(code)
        /\ status = 0 => code = 0

\* What the executor logs while it shuts down is displayed before the container
\* ends, Ctrl-C included ("executor may write to log file when shutting down").
LogIsShown ==
    pc = "exited" /\ tail # "none" => shown = written

\* However the handlers interrupt each other, the executor is killed only after it
\* was asked to terminate, and one that was asked has been killed if it is still
\* running when the last handler returns (handle_sig_int, handle_sig_term).
SignalsEscalate ==
    /\ "kill" \in toExecutor => "term" \in toExecutor
    /\ "term" \in toExecutor /\ frames = <<>> /\ executor = "running" => "kill" \in toExecutor

\* When the executor ends so does the container: main and tail do not wait for
\* each other, though tail outlives a process that nobody has reaped.
ContainerEndsWithExecutor == executor = "zombie" ~> Ended

\* A signal whose handler ran ends the container, even if the executor ignores
\* all that can be ignored and whatever main was doing.
SignalEndsContainer == frames # <<>> ~> Ended

=============================================================================
