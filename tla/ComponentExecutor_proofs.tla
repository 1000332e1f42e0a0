---------------------- MODULE ComponentExecutor_proofs ----------------------
(***************************************************************************)
(* Theorems about ComponentExecutor, for any number of signals and lines   *)
(* of log: whatever handlers run on top of each other.                     *)
(***************************************************************************)
EXTENDS ComponentExecutor, TLAPS

Codes == {0, 1, -2, -9, -15}

\* The code is there from the executor's end on, and only who reaps the executor
\* passes it on: main between two of its steps, or a handler.
CodeInv ==
    /\ code \in Codes \cup {NoCode}
    /\ pc = "init" => executor = "none"
    /\ executor = "zombie" => code # NoCode
    /\ executor \in {"none", "running"} => returncode = NoCode
    /\ returncode # NoCode => returncode = code
    /\ executor = "zombie" => returncode = NoCode
    /\ pc = "record" => executor = "reaped" /\ code # NoCode
    /\ pc \in {"tailWait", "exited"} => returncode # NoCode
    /\ pc = "exited" => status = ExitStatus(returncode)
    /\ returncode # NoCode => executor = "reaped"

\* tail has only ended by itself, after it read what a process that is gone wrote.
LogInv ==
    /\ tail \in {"none", "following", "gone"}
    /\ pc # "failed" /\ tail = "gone" => executor = "reaped" /\ shown = written
    /\ pc = "exited" => tail # "following"

\* The low byte of a code is a byte, and 0 for no code but 0.
LEMMA LowByte ==
    ASSUME NEW n \in Codes
    PROVE  ExitStatus(n) \in 0 .. 255 /\ (ExitStatus(n) = 0 => n = 0)
BY DEF Codes, ExitStatus

\* The code invariant is inductive.
LEMMA CodeStep ==
    ASSUME CodeInv, [Next]_vars
    PROVE  CodeInv'
<1> USE NoCodeAssumption DEF CodeInv, Codes
<1>1. CASE StartExecutor
  BY <1>1 DEF StartExecutor, MainAt
<1>2. CASE InstallHandler
  BY <1>2 DEF InstallHandler, MainAt, executorVars
<1>3. CASE StartTail
  BY <1>3 DEF StartTail, MainAt, executorVars
<1>4. CASE EnterWait
  BY <1>4 DEF EnterWait, MainAt, executorVars
<1>5. CASE WaitReaps
  BY <1>5 DEF WaitReaps, MainAt
<1>6. CASE RecordCode
  BY <1>6 DEF RecordCode, MainAt, executorVars
<1>7. CASE Finish
  BY <1>7 DEF Finish, MainAt, ContainerEnds
<1>8. CASE InitFails
  BY <1>8 DEF InitFails, MainAt, ContainerEnds
<1>9. CASE InterruptedEarly
  BY <1>9 DEF InterruptedEarly, ContainerEnds
<1>10. ASSUME NEW s \in {"int", "term"}, RunHandler(s) PROVE CodeInv'
  BY <1>10 DEF RunHandler, SendSignal
<1>11. CASE IntTimesOut
  BY <1>11 DEF IntTimesOut, SendSignal
<1>12. CASE TermTimesOut
  BY <1>12 DEF TermTimesOut, SendSignal
<1>13. CASE HandlerReaps
  BY <1>13 DEF HandlerReaps
<1>14. CASE HandlerHasCode
  BY <1>14 DEF HandlerHasCode, executorVars
<1>15. CASE CtrlC
  BY <1>15 DEF CtrlC, mainVars
<1>16. ASSUME NEW s \in {"int", "term"}, DockerSignal(s) PROVE CodeInv'
  BY <1>16 DEF DockerSignal, mainVars, executorVars
<1>17. CASE Log
  BY <1>17 DEF Log, mainVars, executorVars
<1>18. ASSUME NEW n \in Codes, Ends(n) PROVE CodeInv'
  BY <1>18 DEF Ends, mainVars
<1>19. CASE ExecutorExits
  BY <1>18, <1>19 DEF ExecutorExits
<1>20. ASSUME NEW s \in {"int", "term", "kill"}, ExecutorDiesOf(s) PROVE CodeInv'
  <2>1. -Number[s] \in Codes
    BY DEF Number
  <2>2. QED
    BY <1>18, <1>20, <2>1 DEF ExecutorDiesOf
<1>21. CASE Show
  BY <1>21 DEF Show, mainVars, executorVars
<1>22. CASE TailEnds
  BY <1>22 DEF TailEnds, mainVars, executorVars
<1>23. CASE UNCHANGED vars
  BY <1>23 DEF vars, mainVars, executorVars
<1>24. QED
  BY <1>1, <1>2, <1>3, <1>4, <1>5, <1>6, <1>7, <1>8, <1>9, <1>10, <1>11, <1>12, <1>13,
     <1>14, <1>15, <1>16, <1>17, <1>19, <1>20, <1>21, <1>22, <1>23
     DEF Next, MainStep, HandlerStep

\* The log invariant is inductive.
LEMMA LogStep ==
    ASSUME CodeInv, LogInv, [Next]_vars
    PROVE  LogInv'
<1> USE DEF CodeInv, LogInv
<1>1. CASE MainStep \/ InitFails
  BY <1>1 DEF MainStep, StartExecutor, InstallHandler, StartTail, EnterWait, WaitReaps,
              RecordCode, Finish, InitFails, MainAt, ContainerEnds, executorVars, logVars
<1>2. CASE HandlerStep
  BY <1>2 DEF HandlerStep, RunHandler, IntTimesOut, TermTimesOut, HandlerReaps,
              HandlerHasCode, executorVars, logVars
<1>3. CASE InterruptedEarly
  BY <1>3 DEF InterruptedEarly, ContainerEnds
<1>4. CASE CtrlC
  BY <1>4 DEF CtrlC, Foreground, mainVars
<1>5. ASSUME NEW s \in {"int", "term"}, DockerSignal(s) PROVE LogInv'
  BY <1>5 DEF DockerSignal, mainVars, executorVars, logVars
<1>6. CASE Log
  BY <1>6 DEF Log, mainVars, executorVars
<1>7. CASE ExecutorExits \/ \E s \in {"int", "term", "kill"} : ExecutorDiesOf(s)
  BY <1>7 DEF ExecutorExits, ExecutorDiesOf, Ends, mainVars, logVars
<1>8. CASE Show \/ TailEnds
  BY <1>8 DEF Show, TailEnds, mainVars, executorVars
<1>9. CASE UNCHANGED vars
  BY <1>9 DEF vars, mainVars, executorVars, logVars
<1>10. QED
  BY <1>1, <1>2, <1>3, <1>4, <1>5, <1>6, <1>7, <1>8, <1>9 DEF Next

\* The two are invariants.
LEMMA Invariants == Spec => [](CodeInv /\ LogInv)
<1>1. Init => CodeInv /\ LogInv
  BY NoCodeAssumption DEF Init, CodeInv, LogInv
<1>2. CodeInv /\ LogInv /\ [Next]_vars => (CodeInv /\ LogInv)'
  BY CodeStep, LogStep
<1>3. QED
  BY <1>1, <1>2, PTL DEF Spec

\* A container that ends by itself ends with the code of its executor, whoever
\* reaped it, and with 0 only if that was 0.
THEOREM ExitsWithExecutorsCode == Spec => []CodeIsExecutors
<1>1. CodeInv => CodeIsExecutors
  BY LowByte DEF CodeInv, CodeIsExecutors
<1>2. QED
  BY <1>1, Invariants, PTL

\* A container that ends by itself has displayed all that its executor logged
\* from the start of tail on.
THEOREM AllOfLogIsShown == Spec => []LogIsShown
<1>1. LogInv => LogIsShown
  BY DEF LogInv, LogIsShown
<1>2. QED
  BY <1>1, Invariants, PTL

\* Every variable keeps its type.
LEMMA TypeStep ==
    ASSUME TypeOK, CodeInv, [Next]_vars
    PROVE  TypeOK'
<1> USE BoundsAssumption, NoCodeAssumption DEF TypeOK
<1>1. ASSUME NEW how \in {"exited", "failed"}, NEW n \in Codes \cup {1, 130},
             ContainerEnds(how, n),
             UNCHANGED <<returncode, toExecutor, code, written, shown, pending>>,
             signals' \in 0 .. MaxSignals
      PROVE  TypeOK'
  <2>1. ExitStatus(n) \in 0 .. 255
    BY DEF Codes, ExitStatus
  <2>2. QED
    BY <1>1, <2>1 DEF ContainerEnds
<1>2. CASE InitFails
  BY <1>1, <1>2 DEF InitFails, signalVars
<1>3. CASE InterruptedEarly
  BY <1>1, <1>3 DEF InterruptedEarly
<1>4. CASE Finish
  <2>1. returncode \in Codes
    BY <1>4 DEF Finish, MainAt, CodeInv
  <2>2. QED
    BY <1>1, <1>4, <2>1 DEF Finish, signalVars
<1>5. CASE StartExecutor \/ InstallHandler \/ StartTail \/ EnterWait \/ WaitReaps \/ RecordCode
  <2>1. CASE StartExecutor
    BY <2>1 DEF StartExecutor, MainAt, logVars, signalVars
  <2>2. CASE InstallHandler
    BY <2>2 DEF InstallHandler, MainAt, executorVars, logVars, signalVars
  <2>3. CASE StartTail
    BY <2>3 DEF StartTail, MainAt, executorVars, signalVars
  <2>4. CASE EnterWait
    BY <2>4 DEF EnterWait, MainAt, executorVars, logVars, signalVars
  <2>5. CASE WaitReaps
    BY <2>5 DEF WaitReaps, MainAt, logVars, signalVars
  <2>6. CASE RecordCode
    BY <2>6 DEF RecordCode, MainAt, executorVars, logVars, signalVars
  <2>7. QED
    BY <1>5, <2>1, <2>2, <2>3, <2>4, <2>5, <2>6
<1>6. ASSUME NEW s \in {"int", "term"}, RunHandler(s) PROVE TypeOK'
  <2>1. frames' \in Seq({"int", "term"})
    BY <1>6 DEF RunHandler
  <2>2. QED
    BY <1>6, <2>1 DEF RunHandler, SendSignal, logVars
<1>7. ASSUME frames # <<>> PROVE Tail(frames) \in Seq({"int", "term"})
  BY <1>7
<1>8. CASE IntTimesOut
  <2>1. frames' \in Seq({"int", "term"})
    BY <1>7, <1>8 DEF IntTimesOut
  <2>2. QED
    BY <1>8, <2>1 DEF IntTimesOut, SendSignal, logVars, signalVars
<1>9. CASE TermTimesOut
  BY <1>7, <1>9 DEF TermTimesOut, SendSignal, logVars, signalVars
<1>10. CASE HandlerReaps
  BY <1>7, <1>10 DEF HandlerReaps, logVars, signalVars
<1>11. CASE HandlerHasCode
  BY <1>7, <1>11 DEF HandlerHasCode, executorVars, logVars, signalVars
<1>12. CASE CtrlC
  BY <1>12 DEF CtrlC, mainVars
<1>13. ASSUME NEW s \in {"int", "term"}, DockerSignal(s) PROVE TypeOK'
  BY <1>13 DEF DockerSignal, mainVars, executorVars, logVars
<1>14. CASE Log
  BY <1>14 DEF Log, mainVars, executorVars, signalVars
<1>15. CASE ExecutorExits \/ \E s \in {"int", "term", "kill"} : ExecutorDiesOf(s)
  <2>1. code' \in Int /\ executor' = "zombie"
    BY <1>15 DEF ExecutorExits, ExecutorDiesOf, Ends, Number
  <2>2. UNCHANGED <<mainVars, toExecutor, logVars, signalVars>>
    BY <1>15 DEF ExecutorExits, ExecutorDiesOf, Ends
  <2>3. QED
    BY <2>1, <2>2 DEF mainVars, logVars, signalVars
<1>16. CASE Show \/ TailEnds
  <2>1. shown' \in 0 .. MaxLines /\ tail' \in {"none", "following", "gone"}
    BY <1>16 DEF Show, TailEnds
  <2>2. UNCHANGED <<mainVars, executorVars, written, signalVars>>
    BY <1>16 DEF Show, TailEnds
  <2>3. QED
    BY <2>1, <2>2 DEF mainVars, executorVars, signalVars
<1>17. CASE UNCHANGED vars
  BY <1>17 DEF vars, mainVars, executorVars, logVars, signalVars
<1>18. QED
  BY <1>2, <1>3, <1>4, <1>5, <1>6, <1>8, <1>9, <1>10, <1>11, <1>12, <1>13, <1>14, <1>15,
     <1>16, <1>17 DEF Next, MainStep, HandlerStep

\* Every variable of the container keeps its type; that the exit status is a byte
\* needs that there is a code when the container exits with it.
THEOREM TypeCorrect == Spec => []TypeOK
<1>1. Init => TypeOK
  BY BoundsAssumption, NoCodeAssumption DEF Init, TypeOK
<1>2. TypeOK /\ CodeInv /\ [Next]_vars => TypeOK'
  BY TypeStep
<1>3. QED
  BY <1>1, <1>2, Invariants, PTL DEF Spec

\* A handle_sig_term on the stack has sent its signal, unless there was nobody to
\* get it any more; nothing is sent to an executor that is yet to start.
AskedInv ==
    /\ \A k \in 1 .. Len(frames) : frames[k] = "term" /\ executor = "running" =>
           "term" \in toExecutor
    /\ executor = "none" => toExecutor = {}

\* The escalation, and what it rests on, is inductive.
LEMMA EscalationStep ==
    ASSUME TypeOK, CodeInv, AskedInv, SignalsEscalate, [Next]_vars
    PROVE  AskedInv' /\ SignalsEscalate'
<1> USE DEF TypeOK, CodeInv, AskedInv, SignalsEscalate
<1> DEFINE Goal == AskedInv' /\ SignalsEscalate'
<1>1. ASSUME UNCHANGED <<frames, toExecutor>>,
             executor' \in {"none", "running"} => executor' = executor
      PROVE  Goal
  BY <1>1
<1>2. ASSUME frames' = <<>>, UNCHANGED toExecutor,
             executor' = IF executor = "none" THEN "none" ELSE "reaped"
      PROVE  Goal
  BY <1>2
<1>3. ASSUME frames # <<>>
      PROVE  /\ Len(Tail(frames)) = Len(frames) - 1
             /\ \A k \in 1 .. Len(Tail(frames)) :
                    Tail(frames)[k] = frames[k + 1] /\ k + 1 \in 1 .. Len(frames)
  BY <1>3
<1>4. ASSUME frames # <<>>, frames' = Tail(frames), UNCHANGED toExecutor,
             executor' = "reaped"
      PROVE  Goal
  BY <1>3, <1>4
<1>5. CASE StartExecutor
  BY <1>5 DEF StartExecutor, MainAt
<1>6. CASE InstallHandler \/ StartTail \/ EnterWait \/ WaitReaps \/ RecordCode
  BY <1>1, <1>6 DEF InstallHandler, StartTail, EnterWait, WaitReaps, RecordCode, executorVars
<1>7. CASE Finish \/ InitFails \/ InterruptedEarly
  BY <1>2, <1>7 DEF Finish, InitFails, InterruptedEarly, ContainerEnds
<1>8. ASSUME NEW s \in {"int", "term"}, RunHandler(s) PROVE Goal
  <2>1. CASE returncode = NoCode
    <3>1. frames' = <<s>> \o frames /\ executor' = executor
      BY <1>8, <2>1 DEF RunHandler
    <3>2. \A k \in 1 .. Len(frames') : frames'[k] = IF k = 1 THEN s ELSE frames[k - 1]
      BY <3>1
    <3>3. Len(frames') = Len(frames) + 1
      BY <3>1
    <3>4. toExecutor' = IF executor = "running" THEN toExecutor \cup {s} ELSE toExecutor
      BY <1>8, <2>1 DEF RunHandler, SendSignal
    <3>5. AskedInv'
      BY <3>1, <3>2, <3>3, <3>4
    <3>6. SignalsEscalate'
      BY <3>1, <3>3, <3>4
    <3>7. QED
      BY <3>5, <3>6
  <2>2. CASE returncode # NoCode
    BY <1>1, <1>8, <2>2 DEF RunHandler, SendSignal
  <2>3. QED
    BY <2>1, <2>2
<1>9. CASE IntTimesOut
  <2>1. /\ frames # <<>> /\ frames' = <<"term">> \o Tail(frames) /\ executor' = executor
        /\ toExecutor' = IF executor = "running" THEN toExecutor \cup {"term"} ELSE toExecutor
    BY <1>9 DEF IntTimesOut, SendSignal
  <2>2. Len(frames') # 0
    BY <2>1
  <2>3. QED
    BY <2>1, <2>2
<1>10. CASE TermTimesOut
  <2>1. /\ frames # <<>> /\ frames[1] = "term" /\ frames' = Tail(frames) /\ executor' = executor
        /\ toExecutor' = IF executor = "running" THEN toExecutor \cup {"kill"} ELSE toExecutor
    BY <1>10 DEF TermTimesOut, SendSignal
  <2>2. 1 \in 1 .. Len(frames)
    BY <2>1
  <2>3. executor = "running" => "term" \in toExecutor
    BY <2>1, <2>2
  <2>4. AskedInv'
    BY <1>3, <2>1
  <2>5. QED
    BY <2>1, <2>3, <2>4
<1>11. CASE HandlerReaps
  BY <1>4, <1>11 DEF HandlerReaps
<1>12. CASE HandlerHasCode
  BY <1>4, <1>12 DEF HandlerHasCode, executorVars
<1>13. CASE CtrlC
  BY <1>13 DEF CtrlC, mainVars
<1>14. ASSUME NEW s \in {"int", "term"}, DockerSignal(s) PROVE Goal
  BY <1>1, <1>14 DEF DockerSignal, mainVars, executorVars
<1>15. CASE Log \/ Show \/ TailEnds
  BY <1>1, <1>15 DEF Log, Show, TailEnds, mainVars, executorVars
<1>16. CASE ExecutorExits \/ \E s \in {"int", "term", "kill"} : ExecutorDiesOf(s)
  BY <1>1, <1>16 DEF ExecutorExits, ExecutorDiesOf, Ends, mainVars
<1>17. CASE UNCHANGED vars
  BY <1>1, <1>17 DEF vars, mainVars, executorVars
<1>18. QED
  BY <1>5, <1>6, <1>7, <1>8, <1>9, <1>10, <1>11, <1>12, <1>13, <1>14, <1>15, <1>16, <1>17
     DEF Next, MainStep, HandlerStep

\* No executor is killed that was not asked to terminate, and none that was asked
\* is left running by the handlers, however deep they are stacked.
THEOREM EscalatesInOrder == Spec => []SignalsEscalate
<1>1. Init => AskedInv /\ SignalsEscalate
  BY DEF Init, AskedInv, SignalsEscalate
<1>2. TypeOK /\ CodeInv /\ AskedInv /\ SignalsEscalate /\ [Next]_vars
          => AskedInv' /\ SignalsEscalate'
  BY EscalationStep
<1>3. QED
  BY <1>1, <1>2, TypeCorrect, Invariants, PTL DEF Spec

=============================================================================
