---------------------- MODULE ExecutorRefinement_proofs ----------------------
(* The executor process implements ExecutorContract, whatever its constants. *)
EXTENDS ExecutorRefinement, ExecutorProcess_proofs

\* Where the job is, in the runner's hands and at the manager: what the contract
\* calls a free executor has none.
HandInv ==
    /\ pc["runner"] = "select" => job = NoJob
    /\ pc["runner"] = "idle" => job \in Jobs /\ answer[job] # "none"
    /\ job # NoJob => conn[job] \notin {"server", "queued"}
    /\ ParentSocketOpen /\ (believedIdle \/ idleBytes # 0) => job = NoJob
    /\ \A j \in Jobs : conn[j] = "queued" => job = NoJob
    /\ isJobActive => \E j \in Jobs : conn[j] # "server"

\* EndInv without the part that is about aborts.
StopInv ==
    /\ signals # {} => server # "serving"
    /\ pc["watcher"] = "gone" <=> pc["runner"] = "gone"

\* Where the job is known to be is inductive.
LEMMA HandStep ==
    ASSUME TypeOK, JobInv, TokenInv, HandInv, [Next]_vars
    PROVE  HandInv'
<1> USE JobsAssumption DEF TypeOK, JobInv, TokenInv, HandInv, InHand, AtRest, ParentSocketOpen, AtBarrier, Threads, Barriers, Goto, Move, BreakBarriers, threadVars, processVars, jobVars, serverVars
<1>1. ASSUME NEW t \in Threads, NEW b \in Barriers, ArriveFirst(t, b) PROVE HandInv'
  BY <1>1 DEF ArriveFirst, Waiting, Passed, Other
<1>2. ASSUME NEW t \in Threads, NEW b \in Barriers, ArriveSecond(t, b) PROVE HandInv'
  BY <1>2 DEF ArriveSecond, Waiting, Passed, Other
<1>3. ASSUME NEW t \in Threads, NEW b \in Barriers, Wake(t, b) PROVE HandInv'
  BY <1>3 DEF Wake, Waiting, Passed, Other
<1>4. ASSUME NEW b \in Barriers, RunnerFindsBroken(b) PROVE HandInv'
  BY <1>4 DEF RunnerFindsBroken, Waiting
<1>5. ASSUME NEW b \in Barriers, WatcherFindsBroken(b) PROVE HandInv'
  BY <1>5 DEF WatcherFindsBroken, Waiting
<1>6. ASSUME NEW j \in Jobs, TakeJob(j) PROVE HandInv'
  BY <1>6 DEF TakeJob
<1>7. ASSUME NEW j \in Jobs, Submit(j) PROVE HandInv'
  BY <1>7 DEF Submit
<1>8. ASSUME NEW j \in Jobs, SubmitFails(j) PROVE HandInv'
  BY <1>8 DEF SubmitFails
<1>9. ASSUME NEW j \in Jobs, ClientExits(j) PROVE HandInv'
  BY <1>9 DEF ClientExits, ClientEnds
<1>10. ASSUME NEW j \in Jobs, ClientGetsNothing(j) PROVE HandInv'
  BY <1>10 DEF ClientGetsNothing, ClientEnds
<1>11. ASSUME NEW j \in Jobs, ClientLeaves(j) PROVE HandInv'
  BY <1>11 DEF ClientLeaves, ClientEnds
<1>12. CASE ParentGone
  BY <1>12 DEF ParentGone
<1>13. CASE IdleTimeout
  BY <1>13 DEF IdleTimeout
<1>14. CASE AcceptRequest
  BY <1>14 DEF AcceptRequest
<1>15. CASE RejectRequest
  BY <1>15 DEF RejectRequest
<1>16. CASE InitComponent
  BY <1>16 DEF InitComponent
<1>17. CASE RunComponent
  BY <1>17 DEF RunComponent
<1>18. CASE JobRaises
  BY <1>18 DEF JobRaises
<1>19. CASE Deactivate
  BY <1>19 DEF Deactivate
<1>20. CASE ClearSocket
  BY <1>20 DEF ClearSocket
<1>21. CASE Reply
  BY <1>21 DEF Reply
<1>22. CASE ReplyFails
  BY <1>22 DEF ReplyFails
<1>23. CASE SendIdle
  BY <1>23 DEF SendIdle
<1>24. CASE SendIdleFails
  BY <1>24 DEF SendIdleFails
<1>25. CASE CloseJobSync
  BY <1>25 DEF CloseJobSync
<1>26. CASE Expose
  BY <1>26 DEF Expose
<1>27. CASE EnterRecv
  BY <1>27 DEF EnterRecv
<1>28. CASE RecvRaises
  BY <1>28 DEF RecvRaises
<1>29. CASE RecvReturns
  BY <1>29 DEF RecvReturns
<1>30. CASE JobIsOver
  BY <1>30 DEF JobIsOver
<1>31. CASE AbortJob
  BY <1>31 DEF AbortJob
<1>32. CASE JoinRunner
  BY <1>32 DEF JoinRunner
<1>33. CASE CloseComponent
  BY <1>33 DEF CloseComponent
<1>34. CASE CloseParentSocket
  BY <1>34 DEF CloseParentSocket
<1>35. CASE Exit
  BY <1>35 DEF Exit, ProcessGone
<1>36. CASE KilledBySigterm
  BY <1>36 DEF KilledBySigterm, ProcessGone
<1>37. ASSUME NEW s \in {"int", "term"}, SignalWhileWatching(s) PROVE HandInv'
  BY <1>37 DEF SignalWhileWatching, Watching
<1>38. ASSUME NEW s \in {"int", "term"}, SignalWhileJoining(s) PROVE HandInv'
  BY <1>38 DEF SignalWhileJoining
<1>39. CASE PollIdle
  BY <1>39 DEF PollIdle
<1>40. CASE ServerStops
  BY <1>40 DEF ServerStops
<1>41. CASE ServerJoins
  BY <1>41 DEF ServerJoins
<1>42. CASE ServerDies
  BY <1>42 DEF ServerDies
<1>43. CASE UNCHANGED vars
  BY <1>43 DEF vars
<1>44. CASE CtrlC
  BY <1>44 DEF CtrlC
<1>45. QED
  BY <1>1, <1>2, <1>3, <1>4, <1>5, <1>6, <1>7, <1>8, <1>9, <1>10, <1>11, <1>12, <1>13, <1>14, <1>15, <1>16, <1>17, <1>18, <1>19, <1>20, <1>21, <1>22, <1>23, <1>24, <1>25, <1>26, <1>27, <1>28, <1>29, <1>30, <1>31, <1>32, <1>33, <1>34, <1>35, <1>36, <1>37, <1>38, <1>39, <1>40, <1>41, <1>42, <1>43, <1>44
     DEF Next, RunnerStep, BarrierStep, ComponentStep, WatcherStep, HandleSignal, ServerStep, PollResets,
         ClientAnswered

\* A signal comes from a server that stopped, and both threads end together.
LEMMA StopStep ==
    ASSUME TypeOK, StopInv, [Next]_vars
    PROVE  StopInv'
<1> USE DEF TypeOK, StopInv, AtBarrier, Watching, Threads, Barriers, Goto, Move, BreakBarriers, threadVars, processVars, jobVars, serverVars
<1>1. ASSUME NEW t \in Threads, NEW b \in Barriers, ArriveFirst(t, b) PROVE StopInv'
  BY <1>1 DEF ArriveFirst, Waiting, Passed, Other
<1>2. ASSUME NEW t \in Threads, NEW b \in Barriers, ArriveSecond(t, b) PROVE StopInv'
  BY <1>2 DEF ArriveSecond, Waiting, Passed, Other
<1>3. ASSUME NEW t \in Threads, NEW b \in Barriers, Wake(t, b) PROVE StopInv'
  BY <1>3 DEF Wake, Waiting, Passed, Other
<1>4. ASSUME NEW b \in Barriers, RunnerFindsBroken(b) PROVE StopInv'
  BY <1>4 DEF RunnerFindsBroken, Waiting
<1>5. ASSUME NEW b \in Barriers, WatcherFindsBroken(b) PROVE StopInv'
  BY <1>5 DEF WatcherFindsBroken, Waiting
<1>6. ASSUME NEW j \in Jobs, TakeJob(j) PROVE StopInv'
  BY <1>6 DEF TakeJob
<1>7. ASSUME NEW j \in Jobs, Submit(j) PROVE StopInv'
  BY <1>7 DEF Submit
<1>8. ASSUME NEW j \in Jobs, SubmitFails(j) PROVE StopInv'
  BY <1>8 DEF SubmitFails
<1>9. ASSUME NEW j \in Jobs, ClientExits(j) PROVE StopInv'
  BY <1>9 DEF ClientExits, ClientEnds
<1>10. ASSUME NEW j \in Jobs, ClientGetsNothing(j) PROVE StopInv'
  BY <1>10 DEF ClientGetsNothing, ClientEnds
<1>11. ASSUME NEW j \in Jobs, ClientLeaves(j) PROVE StopInv'
  BY <1>11 DEF ClientLeaves, ClientEnds
<1>12. CASE ParentGone
  BY <1>12 DEF ParentGone
<1>13. CASE IdleTimeout
  BY <1>13 DEF IdleTimeout
<1>14. CASE AcceptRequest
  BY <1>14 DEF AcceptRequest
<1>15. CASE RejectRequest
  BY <1>15 DEF RejectRequest
<1>16. CASE InitComponent
  BY <1>16 DEF InitComponent
<1>17. CASE RunComponent
  BY <1>17 DEF RunComponent
<1>18. CASE JobRaises
  BY <1>18 DEF JobRaises
<1>19. CASE Deactivate
  BY <1>19 DEF Deactivate
<1>20. CASE ClearSocket
  BY <1>20 DEF ClearSocket
<1>21. CASE Reply
  BY <1>21 DEF Reply
<1>22. CASE ReplyFails
  BY <1>22 DEF ReplyFails
<1>23. CASE SendIdle
  BY <1>23 DEF SendIdle
<1>24. CASE SendIdleFails
  BY <1>24 DEF SendIdleFails
<1>25. CASE CloseJobSync
  BY <1>25 DEF CloseJobSync
<1>26. CASE Expose
  BY <1>26 DEF Expose
<1>27. CASE EnterRecv
  BY <1>27 DEF EnterRecv
<1>28. CASE RecvRaises
  BY <1>28 DEF RecvRaises
<1>29. CASE RecvReturns
  BY <1>29 DEF RecvReturns
<1>30. CASE JobIsOver
  BY <1>30 DEF JobIsOver
<1>31. CASE AbortJob
  BY <1>31 DEF AbortJob
<1>32. CASE JoinRunner
  BY <1>32 DEF JoinRunner
<1>33. CASE CloseComponent
  BY <1>33 DEF CloseComponent
<1>34. CASE CloseParentSocket
  BY <1>34 DEF CloseParentSocket
<1>35. CASE Exit
  BY <1>35 DEF Exit, ProcessGone
<1>36. CASE KilledBySigterm
  BY <1>36 DEF KilledBySigterm, ProcessGone
<1>37. ASSUME NEW s \in {"int", "term"}, SignalWhileWatching(s) PROVE StopInv'
  BY <1>37 DEF SignalWhileWatching
<1>38. ASSUME NEW s \in {"int", "term"}, SignalWhileJoining(s) PROVE StopInv'
  BY <1>38 DEF SignalWhileJoining
<1>39. CASE PollIdle
  BY <1>39 DEF PollIdle
<1>40. CASE ServerStops
  BY <1>40 DEF ServerStops
<1>41. CASE ServerJoins
  BY <1>41 DEF ServerJoins
<1>42. CASE ServerDies
  BY <1>42 DEF ServerDies
<1>43. CASE UNCHANGED vars
  BY <1>43 DEF vars
<1>44. CASE CtrlC
  BY <1>44 DEF CtrlC
<1>45. QED
  BY <1>1, <1>2, <1>3, <1>4, <1>5, <1>6, <1>7, <1>8, <1>9, <1>10, <1>11, <1>12, <1>13, <1>14, <1>15, <1>16, <1>17, <1>18, <1>19, <1>20, <1>21, <1>22, <1>23, <1>24, <1>25, <1>26, <1>27, <1>28, <1>29, <1>30, <1>31, <1>32, <1>33, <1>34, <1>35, <1>36, <1>37, <1>38, <1>39, <1>40, <1>41, <1>42, <1>43, <1>44
     DEF Next, RunnerStep, BarrierStep, ComponentStep, WatcherStep, HandleSignal, ServerStep, PollResets,
         ClientAnswered

-----------------------------------------------------------------------------
\* Nothing changes of what the contract speaks of, but for the process.
Held ==
    /\ Work' = Work /\ Queued' = Queued /\ job' = job /\ idleBytes' = idleBytes
    /\ \A j \in Jobs : ClientState(j)' = ClientState(j)
    /\ \A j \in Jobs : conn'[j] = "server" <=> conn[j] = "server"
    /\ server' # "serving" <=> server # "serving"

\* A step of the threads alone.
LEMMA ThreadsAlone ==
    ASSUME UNCHANGED <<job, conn, answer, idleBytes, server>>,
           pc'["watcher"] = "gone" <=> pc["watcher"] = "gone"
    PROVE  Held
BY DEF Held, Work, Queued, ClientState, Dropped

LEMMA Stutter ==
    ASSUME Held, ProcessState' = ProcessState
    PROVE  UNCHANGED Contract!contractVars
<1>1. UNCHANGED [e \in {TheExecutor} |-> ProcessState]
  OBVIOUS
<1>2. UNCHANGED [j \in Jobs |-> ClientState(j)]
  BY DEF Held
<1>3. UNCHANGED [j \in Jobs |-> IF conn[j] = "server" THEN {} ELSE {TheExecutor}]
  BY DEF Held
<1>4. UNCHANGED (server # "serving")
  BY DEF Held
<1>5. UNCHANGED [e \in {TheExecutor} |-> Work]
  BY DEF Held
<1>6. QED
  BY <1>1, <1>2, <1>3, <1>4, <1>5 DEF Held, Contract!contractVars, Contract!handVars

LEMMA ExecutorsStep ==
    ASSUME Contract!ExecutorStep(TheExecutor), UNCHANGED (server # "serving")
    PROVE  Contract!Next
BY DEF Contract!Next

LEMMA Closes ==
    ASSUME Held, ProcessState = "up", ProcessState' = "closing"
    PROVE  Contract!StartsToClose(TheExecutor)
BY DEF Held, Contract!StartsToClose, Contract!handVars, TheExecutor

\* Once used, or with a server that stopped, the process may go for any reason.
LEMMA DiesOrStays ==
    ASSUME Held, ProcessState' # ProcessState => ProcessState = "up" /\ ProcessState' = "closing",
           server # "serving" \/ \E j \in Jobs : conn[j] # "server"
    PROVE  Contract!Next \/ UNCHANGED Contract!contractVars
<1>1. CASE ProcessState' = ProcessState
  BY <1>1, Stutter
<1>2. CASE ProcessState' # ProcessState
  <2>1. Contract!Used(TheExecutor) \/ server # "serving"
    BY DEF Contract!Used
  <2>2. Contract!Die(TheExecutor)
    BY <1>2, <2>1, Closes DEF Contract!Die
  <2>3. QED
    BY <2>2, ExecutorsStep DEF Held, Contract!ExecutorStep
<1>3. QED
  BY <1>1, <1>2

LEMMA RetiresOrStays ==
    ASSUME Held, ProcessState' # ProcessState => ProcessState = "up" /\ ProcessState' = "closing",
           job = NoJob, Queued = {}
    PROVE  Contract!Next \/ UNCHANGED Contract!contractVars
<1>1. CASE ProcessState' = ProcessState
  BY <1>1, Stutter
<1>2. CASE ProcessState' # ProcessState
  <2>1. Contract!Retire(TheExecutor)
    BY <1>2, Closes DEF Contract!Retire, Work, TheExecutor
  <2>2. QED
    BY <2>1, ExecutorsStep DEF Held, Contract!ExecutorStep
<1>3. QED
  BY <1>1, <1>2

\* The byte of success or failure, sent on the socket of the job in hand.
LEMMA Replies ==
    ASSUME TypeOK, JobInv, StopInv, pc["runner"] \in InHand, NEW a \in {"zero", "one"},
           answer' = [answer EXCEPT ![job] = a], conn' = [conn EXCEPT ![job] = "closed"],
           UNCHANGED <<job, idleBytes, server>>, pc'["watcher"] = pc["watcher"],
           ProcessState' = ProcessState
    PROVE  Contract!Next
<1>1. /\ job \in Jobs /\ conn[job] \in {"open", "shut"} /\ answer[job] = "none"
      /\ pc["watcher"] # "gone"
  BY DEF JobInv, StopInv, InHand, TypeOK
<1>2. Work = "busy" /\ Work' = "replied"
  BY <1>1, JobsAssumption DEF Work, TypeOK
<1>3. Queued' = Queued
  BY <1>1 DEF Queued, TypeOK
<1>4. \A j \in Jobs : ClientState(j)' = IF j = job THEN "answered" ELSE ClientState(j)
  BY <1>1 DEF ClientState, Dropped, TypeOK
<1>5. \A j \in Jobs : conn'[j] = "server" <=> conn[j] = "server"
  BY <1>1 DEF TypeOK
<1>6. ProcessState \in {"up", "closing", "closed"}
  BY <1>1 DEF ProcessState
<1>7. Contract!Reply(TheExecutor)
  BY <1>1, <1>2, <1>3, <1>4, <1>5, <1>6 DEF Contract!Reply, Contract!Alive, TheExecutor
<1>8. QED
  BY <1>7, ExecutorsStep DEF Contract!ExecutorStep

\* A socket that is closed on a client that left is still the client in hand.
LEMMA ClosedUnanswered ==
    ASSUME TypeOK, JobInv, StopInv, pc["runner"] \in InHand,
           answer' = answer, conn' = [conn EXCEPT ![job] = "closed"],
           UNCHANGED <<job, idleBytes, server>>, pc'["watcher"] = pc["watcher"]
    PROVE  Held
<1>1. /\ job \in Jobs /\ conn[job] \in {"open", "shut"} /\ answer[job] = "none"
      /\ pc["watcher"] # "gone"
  BY DEF JobInv, StopInv, InHand, TypeOK
<1>2. QED
  BY <1>1 DEF Held, Work, Queued, ClientState, Dropped, TypeOK

LEMMA Takes ==
    ASSUME TypeOK, JobInv, TokenInv, HandInv, NEW j \in Jobs, TakeJob(j)
    PROVE  Contract!Next
<1>1. /\ job = NoJob /\ answer[j] = "none" /\ conn[j] = "queued" /\ job' = j
      /\ conn' = [conn EXCEPT ![j] = "open"] /\ answer' = answer
      /\ pc'["watcher"] = pc["watcher"]
  BY DEF TypeOK, HandInv, JobInv, TakeJob, Goto, Threads
<1>2. Work = "free" /\ Work' = "busy"
  BY <1>1, JobsAssumption DEF Work
<1>3. j \in Queued /\ Queued' = Queued \ {j}
  BY <1>1 DEF Queued, TypeOK
<1>4. \A k \in Jobs : ClientState(k)' = ClientState(k)
  BY <1>1, JobsAssumption DEF ClientState, Dropped, TypeOK
<1>5. \A k \in Jobs : conn'[k] = "server" <=> conn[k] = "server"
  BY <1>1 DEF TypeOK
<1>6. ProcessState' = ProcessState /\ ProcessState \in {"up", "closing"}
  BY <1>1 DEF ProcessState, Leaving, TakeJob, ParentSocketOpen, Goto, TypeOK, Threads
<1>7. Contract!TakeJob(TheExecutor)
  BY <1>1, <1>2, <1>3, <1>4, <1>5, <1>6 DEF Contract!TakeJob, Contract!SocketOpen, TheExecutor,
     TakeJob, serverVars
<1>8. QED
  BY <1>7, ExecutorsStep DEF Contract!ExecutorStep, TakeJob, serverVars

LEMMA SendsIdle ==
    ASSUME TypeOK, JobInv, HandInv, SendIdle
    PROVE  Contract!Next
<1>1. /\ job \in Jobs /\ answer[job] # "none" /\ conn[job] = "closed" /\ job' = NoJob
      /\ conn' = conn /\ answer' = answer /\ pc'["watcher"] = pc["watcher"]
  BY DEF TypeOK, HandInv, JobInv, SendIdle, Goto, Threads, jobVars
<1>2. Work = "replied" /\ Work' = "free"
  BY <1>1, JobsAssumption DEF Work
<1>3. Queued' = Queued
  BY <1>1 DEF Queued
<1>4. \A k \in Jobs : ClientState(k)' = ClientState(k)
  BY <1>1, JobsAssumption DEF ClientState, Dropped
<1>5. ProcessState' = ProcessState /\ ProcessState \in {"up", "closing"}
  BY <1>1, JobsAssumption DEF ProcessState, Leaving, SendIdle, ParentSocketOpen, Goto, TypeOK, Threads
<1>6. Contract!SendIdle(TheExecutor)
  BY <1>1, <1>2, <1>3, <1>4, <1>5 DEF Contract!SendIdle, Contract!SocketOpen, TheExecutor, SendIdle
<1>7. QED
  BY <1>6, ExecutorsStep DEF Contract!ExecutorStep, SendIdle

LEMMA ClosesSocket ==
    ASSUME TypeOK, JobInv, HandInv, CloseParentSocket
    PROVE  Contract!Next
<1>1. /\ pc["watcher"] = "closeSocket" /\ pc'["watcher"] = "exit" /\ job' = job
      /\ conn' = [j \in Jobs |-> IF conn[j] = "queued" THEN "closed" ELSE conn[j]]
      /\ answer' = answer /\ idleBytes' = idleBytes /\ server' = server
  BY DEF TypeOK, CloseParentSocket, Goto, Threads, serverVars
<1>2. Work' = Work
  BY <1>1 DEF Work
<1>3. Queued' = {}
  BY <1>1 DEF Queued
<1>4. \A j \in Jobs : ClientState(j)' = IF j \in Queued THEN "lost" ELSE ClientState(j)
  BY <1>1, JobsAssumption DEF ClientState, Dropped, Queued, HandInv, JobInv
<1>5. \A j \in Jobs : conn'[j] = "server" <=> conn[j] = "server"
  BY <1>1
<1>6. ProcessState = "closing" /\ ProcessState' = "closed"
  BY <1>1 DEF ProcessState, Leaving
<1>7. Contract!CloseSocket(TheExecutor)
  BY <1>1, <1>2, <1>3, <1>4, <1>5, <1>6 DEF Contract!CloseSocket, Contract!Lose, TheExecutor
<1>8. QED
  BY <1>1, <1>7, ExecutorsStep DEF Contract!ExecutorStep

\* The end of the process takes every socket with it but those still at the server.
LEMMA Goes ==
    ASSUME TypeOK, JobInv, TokenInv, HandInv, ProcessGone, pc["watcher"] # "gone"
    PROVE  /\ Work' = Work /\ job' = job /\ Queued' = {} /\ ProcessState' = "exited"
           /\ \A j \in Jobs : ClientState(j)' =
                  IF j \in Queued \/ (j = job /\ Work = "busy") THEN "lost" ELSE ClientState(j)
           /\ \A j \in Jobs : conn'[j] = "server" <=> conn[j] = "server"
<1>1. /\ pc'["watcher"] = "gone" /\ job' = job /\ answer' = answer
      /\ conn' = [j \in Jobs |-> IF conn[j] = "server" THEN "server" ELSE "closed"]
  BY DEF ProcessGone, Threads
<1>2. \A j \in Jobs : conn[j] \in {"open", "shut"} => j = job
  BY DEF TokenInv
<1>3. ASSUME NEW j \in Jobs PROVE ClientState(j)' =
          IF j \in Queued \/ (j = job /\ Work = "busy") THEN "lost" ELSE ClientState(j)
  BY <1>1, <1>2, JobsAssumption DEF ClientState, Dropped, Queued, Work, HandInv, JobInv, TypeOK
<1>4. QED
  BY <1>1, <1>3 DEF Work, Queued, ProcessState

LEMMA Exits ==
    ASSUME TypeOK, JobInv, TokenInv, HandInv, Exit
    PROVE  Contract!Next
<1>1. /\ pc["watcher"] = "exit" /\ ProcessState = "closed" /\ idleBytes' = idleBytes
      /\ server' = server /\ ProcessGone
  BY DEF Exit, ProcessState, serverVars
<1>2. Queued = {}
  BY <1>1 DEF TokenInv, Queued, ParentSocketOpen
<1>3. Contract!Exit(TheExecutor)
  BY <1>1, <1>2, Goes, JobsAssumption DEF Contract!Exit, Contract!Lose, Contract!HeldBy,
     Contract!handVars, TheExecutor, Work
<1>4. QED
  BY <1>1, <1>3, ExecutorsStep DEF Contract!ExecutorStep

LEMMA IsTerminated ==
    ASSUME TypeOK, JobInv, TokenInv, HandInv, StopInv, KilledBySigterm
    PROVE  Contract!Next
<1>1. /\ pc["watcher"] # "gone" /\ server # "serving" /\ idleBytes' = idleBytes
      /\ server' = server /\ ProcessGone
  BY DEF KilledBySigterm, StopInv
<1>2. ProcessState \in {"up", "closing", "closed"}
  BY <1>1 DEF ProcessState
<1>3. Contract!Terminate(TheExecutor)
  BY <1>1, <1>2, Goes, JobsAssumption DEF Contract!Terminate, Contract!Alive, Contract!Lose,
     Contract!HeldBy, TheExecutor, Work
<1>4. QED
  BY <1>1, <1>3, ExecutorsStep DEF Contract!ExecutorStep

LEMMA Hands ==
    ASSUME TypeOK, JobInv, TokenInv, HandInv, NEW j \in Jobs, Submit(j)
    PROVE  Contract!Next
<1>1. /\ job = NoJob /\ idleBytes = 0 /\ conn[j] = "server" /\ answer[j] = "none"
      /\ conn' = [conn EXCEPT ![j] = "queued"] /\ answer' = answer /\ pc' = pc /\ job' = job
      /\ idleBytes' = idleBytes /\ server' = server /\ server = "serving"
  BY DEF TypeOK, HandInv, JobInv, TokenInv, Submit, threadVars
<1>2. Work = "free" /\ Work' = "free"
  BY <1>1 DEF Work
<1>3. Queued = {} /\ Queued' = {j}
  BY <1>1 DEF Queued, TypeOK, Submit, TokenInv
<1>4. \A k \in Jobs : ClientState(k)' = IF k = j THEN "given" ELSE ClientState(k)
  BY <1>1 DEF ClientState, Dropped, TypeOK
<1>5. \A k \in Jobs : conn'[k] = "server" <=> conn[k] = "server" /\ k # j
  BY <1>1 DEF TypeOK
<1>6. ProcessState' = ProcessState /\ ProcessState \in {"up", "closing"}
  BY <1>1 DEF ProcessState, Leaving, Submit, ParentSocketOpen
<1>7. Contract!Hand(TheExecutor, j)
  BY <1>1, <1>2, <1>3, <1>4, <1>5, <1>6 DEF Contract!Hand, Contract!SocketOpen, TheExecutor
<1>8. QED
  BY <1>1, <1>7 DEF Contract!Next

LEMMA Polls ==
    ASSUME TypeOK, PollIdle
    PROVE  Contract!Next \/ UNCHANGED Contract!contractVars
<1>1. /\ UNCHANGED <<pc, job, conn, answer, server>>
      /\ idleBytes' = IF idleBytes > 0 THEN idleBytes - 1 ELSE 0
  BY DEF PollIdle, threadVars, jobVars
<1>2. ProcessState' = ProcessState /\ Work' = Work /\ Queued' = Queued
  BY <1>1 DEF ProcessState, Leaving, Work, Queued
<1>3. \A j \in Jobs : ClientState(j)' = ClientState(j)
  BY <1>1 DEF ClientState, Dropped
<1>4. CASE idleBytes = 0
  BY <1>1, <1>2, <1>3, <1>4, Stutter DEF Held
<1>5. CASE idleBytes # 0
  <2>1. idleBytes > 0
    BY <1>5 DEF TypeOK
  <2>2. Contract!ReadByte(TheExecutor)
    BY <1>1, <1>2, <1>3, <2>1 DEF Contract!ReadByte, Contract!handVars, TheExecutor
  <2>3. QED
    BY <1>1, <2>2 DEF Contract!Next
<1>6. QED
  BY <1>4, <1>5

\* The server stops or dies: nothing else of the contract changes at once.
LEMMA ServerGoes ==
    ASSUME UNCHANGED <<pc, job, conn, answer, idleBytes>>, server' # "serving"
    PROVE  Contract!Next
<1>1. ProcessState' = ProcessState /\ Work' = Work /\ Queued' = Queued
  BY DEF ProcessState, Leaving, Work, Queued
<1>2. \A j \in Jobs : ClientState(j)' = ClientState(j)
  BY DEF ClientState, Dropped
<1>3. [j \in Jobs |-> ClientState(j)] \in
          [Jobs -> {"away", "backlog", "accepted", "refused", "given", "answered", "lost"}]
  BY DEF ClientState
<1>4. UNCHANGED [j \in Jobs |-> ClientState(j)]
  BY <1>2
<1>5. Contract!Elsewhere
  BY <1>1, <1>3, <1>4 DEF Contract!Elsewhere, Contract!handVars
<1>6. QED
  BY <1>5 DEF Contract!Next

-----------------------------------------------------------------------------
\* Every step of the executor is a step of the contract, or none.
LEMMA ContractStepOf ==
    ASSUME TypeOK, JobInv, TokenInv, HandInv, StopInv, [Next]_vars
    PROVE  Contract!Next \/ UNCHANGED Contract!contractVars
<1> DEFINE Refined == Contract!Next \/ UNCHANGED Contract!contractVars
<1> USE DEF Goto, Move, BreakBarriers, threadVars, processVars, jobVars, serverVars
<1>1. ASSUME NEW t \in Threads, NEW b \in Barriers, ArriveFirst(t, b) PROVE Refined
  <2>1. /\ UNCHANGED <<job, conn, answer, idleBytes, server>>
        /\ pc'["watcher"] = "gone" <=> pc["watcher"] = "gone"
    BY <1>1 DEF ArriveFirst, TypeOK, Threads, Waiting, Passed, Other, Barriers
  <2>2. ProcessState' = ProcessState
    BY <1>1, JobsAssumption DEF ArriveFirst, ProcessState, Leaving, TypeOK, Threads, Waiting, Passed, Other, Barriers
  <2>3. QED
    BY <2>1, <2>2, ThreadsAlone, Stutter
<1>2. ASSUME NEW t \in Threads, NEW b \in Barriers, ArriveSecond(t, b) PROVE Refined
  <2>1. /\ UNCHANGED <<job, conn, answer, idleBytes, server>>
        /\ pc'["watcher"] = "gone" <=> pc["watcher"] = "gone"
    BY <1>2 DEF ArriveSecond, TypeOK, Threads, Waiting, Passed, Other, Barriers
  <2>2. ProcessState' = ProcessState
    BY <1>2, JobsAssumption DEF ArriveSecond, ProcessState, Leaving, TypeOK, Threads, Waiting, Passed, Other, Barriers
  <2>3. QED
    BY <2>1, <2>2, ThreadsAlone, Stutter
<1>3. ASSUME NEW t \in Threads, NEW b \in Barriers, Wake(t, b) PROVE Refined
  <2>1. /\ UNCHANGED <<job, conn, answer, idleBytes, server>>
        /\ pc'["watcher"] = "gone" <=> pc["watcher"] = "gone"
    BY <1>3 DEF Wake, TypeOK, Threads, Waiting, Passed, Other, Barriers
  <2>2. ProcessState' = ProcessState
    BY <1>3, JobsAssumption DEF Wake, ProcessState, Leaving, TypeOK, Threads, Waiting, Passed, Other, Barriers
  <2>3. QED
    BY <2>1, <2>2, ThreadsAlone, Stutter
<1>4. ASSUME NEW b \in Barriers, RunnerFindsBroken(b) PROVE Refined
  <2>1. /\ UNCHANGED <<job, conn, answer, idleBytes, server>>
        /\ pc'["watcher"] = "gone" <=> pc["watcher"] = "gone"
    BY <1>4 DEF RunnerFindsBroken, TypeOK, Threads, Waiting, Barriers
  <2>2. ProcessState' = ProcessState
    BY <1>4, JobsAssumption DEF RunnerFindsBroken, ProcessState, Leaving, TypeOK, Threads, Waiting, Barriers
  <2>3. QED
    BY <2>1, <2>2, ThreadsAlone, Stutter
<1>5. ASSUME NEW b \in Barriers, WatcherFindsBroken(b) PROVE Refined
  <2>1. /\ UNCHANGED <<job, conn, answer, idleBytes, server>>
        /\ pc'["watcher"] = "gone" <=> pc["watcher"] = "gone"
    BY <1>5 DEF WatcherFindsBroken, TypeOK, Threads, Waiting, Barriers
  <2>2. ProcessState' = ProcessState
    BY <1>5, JobsAssumption DEF WatcherFindsBroken, ProcessState, Leaving, TypeOK, Threads, Waiting, Barriers
  <2>3. QED
    BY <2>1, <2>2, ThreadsAlone, Stutter
<1>6. ASSUME NEW j \in Jobs, TakeJob(j) PROVE Refined
  BY <1>6, Takes
<1>7. ASSUME NEW j \in Jobs, Submit(j) PROVE Refined
  BY <1>7, Hands
<1>8. ASSUME NEW j \in Jobs, SubmitFails(j) PROVE Refined
  <2>1. /\ UNCHANGED <<job, conn, answer, idleBytes, server>>
        /\ pc'["watcher"] = "gone" <=> pc["watcher"] = "gone"
    BY <1>8 DEF SubmitFails, TypeOK, Threads
  <2>2. ProcessState' = ProcessState
    BY <1>8, JobsAssumption DEF SubmitFails, ProcessState, Leaving, TypeOK, Threads
  <2>3. QED
    BY <2>1, <2>2, ThreadsAlone, Stutter
<1>9. ASSUME NEW j \in Jobs, ClientExits(j) PROVE Refined
  <2>1. /\ UNCHANGED <<job, conn, answer, idleBytes, server>>
        /\ pc'["watcher"] = "gone" <=> pc["watcher"] = "gone"
    BY <1>9 DEF ClientExits, TypeOK, Threads, ClientEnds
  <2>2. ProcessState' = ProcessState
    BY <1>9, JobsAssumption DEF ClientExits, ProcessState, Leaving, TypeOK, Threads, ClientEnds
  <2>3. QED
    BY <2>1, <2>2, ThreadsAlone, Stutter
<1>10. ASSUME NEW j \in Jobs, ClientGetsNothing(j) PROVE Refined
  <2>1. /\ UNCHANGED <<job, conn, answer, idleBytes, server>>
        /\ pc'["watcher"] = "gone" <=> pc["watcher"] = "gone"
    BY <1>10 DEF ClientGetsNothing, TypeOK, Threads, ClientEnds
  <2>2. ProcessState' = ProcessState
    BY <1>10, JobsAssumption DEF ClientGetsNothing, ProcessState, Leaving, TypeOK, Threads, ClientEnds
  <2>3. QED
    BY <2>1, <2>2, ThreadsAlone, Stutter
<1>11. ASSUME NEW j \in Jobs, ClientLeaves(j) PROVE Refined
  <2>1. /\ UNCHANGED <<job, conn, answer, idleBytes, server>>
        /\ pc'["watcher"] = "gone" <=> pc["watcher"] = "gone"
    BY <1>11 DEF ClientLeaves, TypeOK, Threads, ClientEnds
  <2>2. ProcessState' = ProcessState
    BY <1>11, JobsAssumption DEF ClientLeaves, ProcessState, Leaving, TypeOK, Threads, ClientEnds
  <2>3. QED
    BY <2>1, <2>2, ThreadsAlone, Stutter
<1>12. CASE ParentGone
  <2>1. /\ UNCHANGED <<job, conn, answer, idleBytes, server>>
        /\ pc'["watcher"] = "gone" <=> pc["watcher"] = "gone"
    BY <1>12 DEF ParentGone, TypeOK, Threads
  <2>2. ProcessState' # ProcessState => ProcessState = "up" /\ ProcessState' = "closing"
    BY <1>12, JobsAssumption DEF ParentGone, ProcessState, Leaving, TypeOK, Threads, ParentSocketOpen
  <2>3. job = NoJob /\ Queued = {}
    BY <1>12, JobsAssumption DEF ParentGone, HandInv, StopInv, TypeOK, ProcessState, Leaving, TypeOK, Threads
  <2>4. QED
    BY <2>1, <2>2, <2>3, ThreadsAlone, RetiresOrStays
<1>13. CASE IdleTimeout
  <2>1. /\ UNCHANGED <<job, conn, answer, idleBytes, server>>
        /\ pc'["watcher"] = "gone" <=> pc["watcher"] = "gone"
    BY <1>13 DEF IdleTimeout, TypeOK, Threads
  <2>2. ProcessState' # ProcessState => ProcessState = "up" /\ ProcessState' = "closing"
    BY <1>13, JobsAssumption DEF IdleTimeout, ProcessState, Leaving, TypeOK, Threads, ParentSocketOpen
  <2>3. job = NoJob /\ Queued = {}
    BY <1>13, JobsAssumption DEF IdleTimeout, HandInv, StopInv, TypeOK, ProcessState, Leaving, TypeOK, Threads
  <2>4. QED
    BY <2>1, <2>2, <2>3, ThreadsAlone, RetiresOrStays
<1>14. CASE AcceptRequest
  <2>1. /\ UNCHANGED <<job, conn, answer, idleBytes, server>>
        /\ pc'["watcher"] = "gone" <=> pc["watcher"] = "gone"
    BY <1>14 DEF AcceptRequest, TypeOK, Threads
  <2>2. ProcessState' = ProcessState
    BY <1>14, JobsAssumption DEF AcceptRequest, ProcessState, Leaving, TypeOK, Threads
  <2>3. QED
    BY <2>1, <2>2, ThreadsAlone, Stutter
<1>15. CASE RejectRequest
  <2>1. /\ pc["runner"] \in InHand /\ conn' = [conn EXCEPT ![job] = "closed"]
        /\ UNCHANGED <<job, idleBytes, server>> /\ pc'["watcher"] = pc["watcher"]
    BY <1>15 DEF RejectRequest, InHand, TypeOK, Threads
  <2>2. job # NoJob
    BY <2>1, JobsAssumption DEF JobInv
  <2>3. ProcessState' = ProcessState
    BY <1>15, <2>2 DEF RejectRequest, ProcessState, Leaving, TypeOK, Threads
  <2>4. CASE client[job] = "waiting"
    <3>1. answer' = [answer EXCEPT ![job] = "one"]
      BY <1>15, <2>4 DEF RejectRequest
    <3>2. QED
      BY <2>1, <2>3, <3>1, Replies
  <2>5. CASE client[job] # "waiting"
    <3>1. answer' = answer
      BY <1>15, <2>5 DEF RejectRequest, TypeOK
    <3>2. QED
      BY <2>1, <2>3, <3>1, ClosedUnanswered, Stutter
  <2>6. QED
    BY <2>4, <2>5
<1>16. CASE InitComponent
  <2>1. /\ UNCHANGED <<job, conn, answer, idleBytes, server>>
        /\ pc'["watcher"] = "gone" <=> pc["watcher"] = "gone"
    BY <1>16 DEF InitComponent, TypeOK, Threads
  <2>2. ProcessState' = ProcessState
    BY <1>16, JobsAssumption DEF InitComponent, ProcessState, Leaving, TypeOK, Threads
  <2>3. QED
    BY <2>1, <2>2, ThreadsAlone, Stutter
<1>17. CASE RunComponent
  <2>1. /\ UNCHANGED <<job, conn, answer, idleBytes, server>>
        /\ pc'["watcher"] = "gone" <=> pc["watcher"] = "gone"
    BY <1>17 DEF RunComponent, TypeOK, Threads
  <2>2. ProcessState' = ProcessState
    BY <1>17, JobsAssumption DEF RunComponent, ProcessState, Leaving, TypeOK, Threads
  <2>3. QED
    BY <2>1, <2>2, ThreadsAlone, Stutter
<1>18. CASE JobRaises
  <2>1. /\ UNCHANGED <<job, conn, answer, idleBytes, server>>
        /\ pc'["watcher"] = "gone" <=> pc["watcher"] = "gone"
    BY <1>18 DEF JobRaises, TypeOK, Threads
  <2>2. ProcessState' = ProcessState
    BY <1>18, JobsAssumption DEF JobRaises, ProcessState, Leaving, TypeOK, Threads
  <2>3. QED
    BY <2>1, <2>2, ThreadsAlone, Stutter
<1>19. CASE Deactivate
  <2>1. /\ clientSocket = job /\ job \in Jobs /\ conn[job] = "open"
        /\ conn' = [conn EXCEPT ![job] = "shut"] /\ answer' = answer
        /\ UNCHANGED <<job, idleBytes, server>> /\ pc'["watcher"] = pc["watcher"]
    BY <1>19 DEF Deactivate, JobInv, InHand, TypeOK, Threads
  <2>2. Held
    BY <2>1 DEF Held, Work, Queued, ClientState, Dropped, TypeOK
  <2>3. ProcessState' = ProcessState
    BY <1>19 DEF Deactivate, ProcessState, Leaving, TypeOK, Threads
  <2>4. QED
    BY <2>2, <2>3, Stutter
<1>20. CASE ClearSocket
  <2>1. /\ UNCHANGED <<job, conn, answer, idleBytes, server>>
        /\ pc'["watcher"] = "gone" <=> pc["watcher"] = "gone"
    BY <1>20 DEF ClearSocket, TypeOK, Threads
  <2>2. ProcessState' = ProcessState
    BY <1>20, JobsAssumption DEF ClearSocket, ProcessState, Leaving, TypeOK, Threads
  <2>3. QED
    BY <2>1, <2>2, ThreadsAlone, Stutter
<1>21. CASE Reply
  <2>1. /\ pc["runner"] \in InHand /\ conn' = [conn EXCEPT ![job] = "closed"]
        /\ UNCHANGED <<job, idleBytes, server>> /\ pc'["watcher"] = pc["watcher"]
    BY <1>21 DEF Reply, InHand, TypeOK, Threads
  <2>2. job # NoJob
    BY <2>1, JobsAssumption DEF JobInv
  <2>3. ProcessState' = ProcessState
    BY <1>21, <2>2 DEF Reply, ProcessState, Leaving, TypeOK, Threads
  <2>4. answer' = [answer EXCEPT ![job] = "zero"]
    BY <1>21 DEF Reply
  <2>5. QED
    BY <2>1, <2>3, <2>4, Replies
<1>22. CASE ReplyFails
  <2>1. /\ pc["runner"] \in InHand /\ conn' = [conn EXCEPT ![job] = "closed"]
        /\ UNCHANGED <<job, idleBytes, server>> /\ pc'["watcher"] = pc["watcher"]
    BY <1>22 DEF ReplyFails, InHand, TypeOK, Threads
  <2>2. job # NoJob
    BY <2>1, JobsAssumption DEF JobInv
  <2>3. ProcessState' = ProcessState
    BY <1>22, <2>2 DEF ReplyFails, ProcessState, Leaving, TypeOK, Threads
  <2>4. CASE client[job] = "waiting"
    <3>1. answer' = [answer EXCEPT ![job] = "one"]
      BY <1>22, <2>4 DEF ReplyFails
    <3>2. QED
      BY <2>1, <2>3, <3>1, Replies
  <2>5. CASE client[job] # "waiting"
    <3>1. answer' = answer
      BY <1>22, <2>5 DEF ReplyFails, TypeOK
    <3>2. QED
      BY <2>1, <2>3, <3>1, ClosedUnanswered, Stutter
  <2>6. QED
    BY <2>4, <2>5
<1>23. CASE SendIdle
  BY <1>23, SendsIdle
<1>24. CASE SendIdleFails
  <2>1. /\ UNCHANGED <<job, conn, answer, idleBytes, server>>
        /\ pc'["watcher"] = "gone" <=> pc["watcher"] = "gone"
    BY <1>24 DEF SendIdleFails, TypeOK, Threads
  <2>2. ProcessState' = ProcessState
    BY <1>24, JobsAssumption DEF SendIdleFails, ProcessState, Leaving, TypeOK, Threads, HandInv
  <2>3. QED
    BY <2>1, <2>2, ThreadsAlone, Stutter
<1>25. CASE CloseJobSync
  <2>1. /\ UNCHANGED <<job, conn, answer, idleBytes, server>>
        /\ pc'["watcher"] = pc["watcher"] /\ pc'["runner"] = "done"
        /\ pc["runner"] = "closing"
    BY <1>25 DEF CloseJobSync, TypeOK, Threads
  <2>2. Held
    BY <2>1, ThreadsAlone
  <2>3. ProcessState' # ProcessState =>
            ProcessState = "up" /\ ProcessState' = "closing" /\ job # NoJob
    BY <2>1 DEF ProcessState, Leaving
  <2>4. job # NoJob => \E j \in Jobs : conn[j] # "server"
    BY DEF HandInv, TypeOK
  <2>5. QED
    BY <2>2, <2>3, <2>4, DiesOrStays, Stutter
<1>26. CASE Expose
  <2>1. /\ UNCHANGED <<job, conn, answer, idleBytes, server>>
        /\ pc'["watcher"] = "gone" <=> pc["watcher"] = "gone"
    BY <1>26 DEF Expose, TypeOK, Threads
  <2>2. ProcessState' = ProcessState
    BY <1>26, JobsAssumption DEF Expose, ProcessState, Leaving, TypeOK, Threads
  <2>3. QED
    BY <2>1, <2>2, ThreadsAlone, Stutter
<1>27. CASE EnterRecv
  <2>1. /\ UNCHANGED <<job, conn, answer, idleBytes, server>>
        /\ pc'["watcher"] = "gone" <=> pc["watcher"] = "gone"
    BY <1>27 DEF EnterRecv, TypeOK, Threads
  <2>2. ProcessState' = ProcessState
    BY <1>27, JobsAssumption DEF EnterRecv, ProcessState, Leaving, TypeOK, Threads
  <2>3. QED
    BY <2>1, <2>2, ThreadsAlone, Stutter
<1>28. CASE RecvRaises
  <2>1. /\ UNCHANGED <<job, conn, answer, idleBytes, server>>
        /\ pc'["watcher"] = "gone" <=> pc["watcher"] = "gone"
    BY <1>28 DEF RecvRaises, TypeOK, Threads
  <2>2. ProcessState' = ProcessState
    BY <1>28, JobsAssumption DEF RecvRaises, ProcessState, Leaving, TypeOK, Threads
  <2>3. QED
    BY <2>1, <2>2, ThreadsAlone, Stutter
<1>29. CASE RecvReturns
  <2>1. /\ UNCHANGED <<job, conn, answer, idleBytes, server>>
        /\ pc'["watcher"] = "gone" <=> pc["watcher"] = "gone"
    BY <1>29 DEF RecvReturns, TypeOK, Threads
  <2>2. ProcessState' = ProcessState
    BY <1>29, JobsAssumption DEF RecvReturns, ProcessState, Leaving, TypeOK, Threads
  <2>3. QED
    BY <2>1, <2>2, ThreadsAlone, Stutter
<1>30. CASE JobIsOver
  <2>1. /\ UNCHANGED <<job, conn, answer, idleBytes, server>>
        /\ pc'["watcher"] = "gone" <=> pc["watcher"] = "gone"
    BY <1>30 DEF JobIsOver, TypeOK, Threads
  <2>2. ProcessState' = ProcessState
    BY <1>30, JobsAssumption DEF JobIsOver, ProcessState, Leaving, TypeOK, Threads
  <2>3. QED
    BY <2>1, <2>2, ThreadsAlone, Stutter
<1>31. CASE AbortJob
  <2>1. /\ UNCHANGED <<job, conn, answer, idleBytes, server>>
        /\ pc'["watcher"] = "gone" <=> pc["watcher"] = "gone"
    BY <1>31 DEF AbortJob, TypeOK, Threads
  <2>2. ProcessState' # ProcessState => ProcessState = "up" /\ ProcessState' = "closing"
    BY <1>31, JobsAssumption DEF AbortJob, ProcessState, Leaving, TypeOK, Threads
  <2>3. server # "serving" \/ \E j \in Jobs : conn[j] # "server"
    BY <1>31, JobsAssumption DEF AbortJob, HandInv, StopInv, TypeOK, ProcessState, Leaving, TypeOK, Threads
  <2>4. QED
    BY <2>1, <2>2, <2>3, ThreadsAlone, DiesOrStays
<1>32. CASE JoinRunner
  <2>1. /\ UNCHANGED <<job, conn, answer, idleBytes, server>>
        /\ pc'["watcher"] = "gone" <=> pc["watcher"] = "gone"
    BY <1>32 DEF JoinRunner, TypeOK, Threads
  <2>2. ProcessState' = ProcessState
    BY <1>32, JobsAssumption DEF JoinRunner, ProcessState, Leaving, TypeOK, Threads
  <2>3. QED
    BY <2>1, <2>2, ThreadsAlone, Stutter
<1>33. CASE CloseComponent
  <2>1. /\ UNCHANGED <<job, conn, answer, idleBytes, server>>
        /\ pc'["watcher"] = "gone" <=> pc["watcher"] = "gone"
    BY <1>33 DEF CloseComponent, TypeOK, Threads
  <2>2. ProcessState' = ProcessState
    BY <1>33, JobsAssumption DEF CloseComponent, ProcessState, Leaving, TypeOK, Threads
  <2>3. QED
    BY <2>1, <2>2, ThreadsAlone, Stutter
<1>34. CASE CloseParentSocket
  BY <1>34, ClosesSocket
<1>35. CASE Exit
  BY <1>35, Exits
<1>36. CASE KilledBySigterm
  BY <1>36, IsTerminated
<1>37. ASSUME NEW s \in {"int", "term"}, SignalWhileWatching(s) PROVE Refined
  <2>1. /\ UNCHANGED <<job, conn, answer, idleBytes, server>>
        /\ pc'["watcher"] = "gone" <=> pc["watcher"] = "gone"
    BY <1>37 DEF SignalWhileWatching, TypeOK, Threads, Watching, AtBarrier
  <2>2. ProcessState' = ProcessState
    BY <1>37, JobsAssumption DEF SignalWhileWatching, ProcessState, Leaving, TypeOK, Threads, Watching, AtBarrier
  <2>3. QED
    BY <2>1, <2>2, ThreadsAlone, Stutter
<1>38. ASSUME NEW s \in {"int", "term"}, SignalWhileJoining(s) PROVE Refined
  <2>1. /\ UNCHANGED <<job, conn, answer, idleBytes, server>>
        /\ pc'["watcher"] = "gone" <=> pc["watcher"] = "gone"
    BY <1>38 DEF SignalWhileJoining, TypeOK, Threads
  <2>2. ProcessState' # ProcessState => ProcessState = "up" /\ ProcessState' = "closing"
    BY <1>38, JobsAssumption DEF SignalWhileJoining, ProcessState, Leaving, TypeOK, Threads
  <2>3. server # "serving"
    BY <1>38 DEF SignalWhileJoining, Raises, StopInv
  <2>4. QED
    BY <2>1, <2>2, <2>3, ThreadsAlone, DiesOrStays
<1>39. CASE PollIdle
  BY <1>39, Polls
<1>40. CASE ServerStops
  BY <1>40, ServerGoes DEF ServerStops
<1>41. CASE ServerJoins
  BY <1>41, ServerGoes DEF ServerJoins
<1>42. CASE ServerDies
  BY <1>42, ServerGoes DEF ServerDies
<1>43. CASE UNCHANGED vars
  <2>1. /\ UNCHANGED <<job, conn, answer, idleBytes, server>>
        /\ pc'["watcher"] = "gone" <=> pc["watcher"] = "gone"
    BY <1>43 DEF vars, TypeOK, Threads
  <2>2. ProcessState' = ProcessState
    BY <1>43, JobsAssumption DEF vars, ProcessState, Leaving, TypeOK, Threads
  <2>3. QED
    BY <2>1, <2>2, ThreadsAlone, Stutter
<1>44. CASE CtrlC
  BY <1>44, ServerGoes DEF CtrlC
<1>45. QED
  BY <1>1, <1>2, <1>3, <1>4, <1>5, <1>6, <1>7, <1>8, <1>9, <1>10, <1>11, <1>12, <1>13, <1>14, <1>15, <1>16, <1>17, <1>18, <1>19, <1>20, <1>21, <1>22, <1>23, <1>24, <1>25, <1>26, <1>27, <1>28, <1>29, <1>30, <1>31, <1>32, <1>33, <1>34, <1>35, <1>36, <1>37, <1>38, <1>39, <1>40, <1>41, <1>42, <1>43, <1>44
     DEF Next, RunnerStep, BarrierStep, ComponentStep, WatcherStep, HandleSignal, ServerStep, PollResets,
         ClientAnswered, Threads

\* The two threads implement the contract: from the initial state on, every step
\* maps to a step of ExecutorContract or to none, whatever the constants.
THEOREM ExecutorKeepsContract == Spec => KeepsContract
<1>1. Init => Contract!Init
  <2> SUFFICES ASSUME Init PROVE Contract!Init
    OBVIOUS
  <2>1. ProcessState = "up" /\ Work = "free" /\ Queued = {} /\ job = NoJob
    BY DEF Init, ProcessState, Leaving, Work, Queued, Threads
  <2>2. \A j \in Jobs : ClientState(j) = "away" /\ conn[j] = "server"
    BY DEF Init, ClientState
  <2>3. QED
    BY <2>1, <2>2 DEF Init, Contract!Init
<1>2. Init => JobInv /\ TokenInv /\ HandInv /\ StopInv
  BY DEF Init, JobInv, TokenInv, HandInv, StopInv, InHand, AtRest, ParentSocketOpen, Threads
<1>3. TypeOK /\ JobInv /\ TokenInv /\ HandInv /\ StopInv /\ [Next]_vars
          => (JobInv /\ TokenInv /\ HandInv /\ StopInv)'
  BY JobStep, TokenStep, HandStep, StopStep
<1>4. TypeOK /\ JobInv /\ TokenInv /\ HandInv /\ StopInv /\ [Next]_vars
          => [Contract!Next]_(Contract!contractVars)
  BY ContractStepOf
<1>5. QED
  BY <1>1, <1>2, <1>3, <1>4, TypeCorrect, PTL DEF Spec, KeepsContract, Contract!Spec

=============================================================================
