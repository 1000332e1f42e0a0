----------------------- MODULE ExecutorProcess_proofs -----------------------
(***************************************************************************)
(* Theorems about ExecutorProcess, for every set of jobs and every value   *)
(* of the other constants, with the inductive invariants they rest on.     *)
(***************************************************************************)
EXTENDS ExecutorProcess, TLAPS

\* The runner has a job's socket in its hands, and has not replied on it.
InHand == {"request", "begin", "beginWait", "init", "run", "deactivate", "end",
           "endWait", "clear", "reply"}

\* The runner wants nothing more from the job it had, if it had one.
AtRest == {"select", "closing", "done", "gone"}

\* One token goes round: the manager believes the executor idle, or a job is in
\* the socket, or the runner has it, or the idle byte is on its way back.  (It
\* may also be lost, with a runner that ends.)  An executor that closed its end
\* of the socket is out of the round.
TokenInv ==
    /\ \A j \in Jobs : conn[j] \in {"open", "shut"} => job = j /\ pc["runner"] \in InHand
    /\ \A j \in Jobs : conn[j] = "queued" => /\ ParentSocketOpen
                                             /\ pc["runner"] \in AtRest
                                             /\ ~believedIdle /\ idleBytes = 0
    /\ \A j, k \in Jobs : conn[j] = "queued" /\ conn[k] = "queued" => j = k
    /\ ParentSocketOpen /\ believedIdle => idleBytes = 0 /\ pc["runner"] \in AtRest
    /\ ParentSocketOpen /\ idleBytes # 0 => idleBytes = 1 /\ pc["runner"] \in AtRest

\* The runner's job, until it is answered; clients end on what they were sent.
JobInv ==
    /\ pc["runner"] \in InHand => job \in Jobs /\ conn[job] \in {"open", "shut"}
    /\ pc["runner"] \in {"request", "begin", "beginWait", "init", "run", "deactivate"} =>
           conn[job] = "open"
    /\ pc["runner"] \in {"end", "endWait"} => conn[job] = "shut"
    /\ pc["runner"] \in InHand \ {"request", "reply"} => clientSocket = job
    /\ \A j \in Jobs : conn[j] # "closed" => answer[j] = "none"
    /\ \A j \in Jobs : client[j] \in {"success", "failure"} => answer[j] # "none"
    /\ \A j \in Jobs : client[j] = "noAnswer" => conn[j] = "closed"

Inside  == {"init", "run", "deactivate", "end", "endWait"}
Outside == {"select", "request", "begin", "clear", "reply", "idle", "closing"}

\* Where the runner can be, given where the watcher is, while no barrier is
\* broken: each barrier is draining exactly while one thread has yet to wake.
InStep ==
    \/ /\ pc["watcher"] = "begin"
       /\ barrier["begin"] = "filling"
       /\ \/ barrier["end"] = "filling"  /\ pc["runner"] \in Outside \cup {"beginWait"}
          \/ barrier["end"] = "draining" /\ pc["runner"] = "endWait"
    \/ /\ pc["watcher"] = "beginWait"
       /\ \/ barrier["begin"] = "filling" /\ barrier["end"] = "filling"
             /\ pc["runner"] \in Outside
          \/ barrier["begin"] = "filling" /\ barrier["end"] = "draining"
             /\ pc["runner"] = "endWait"
          \/ barrier["begin"] = "draining" /\ barrier["end"] = "filling"
             /\ pc["runner"] \in Inside
    \/ /\ pc["watcher"] \in {"expose", "recv", "blocked", "check"}
       /\ barrier["end"] = "filling"
       /\ \/ barrier["begin"] = "filling"  /\ pc["runner"] \in Inside
          \/ barrier["begin"] = "draining" /\ pc["runner"] = "beginWait"
    \/ /\ pc["watcher"] = "end"
       /\ barrier["begin"] = "filling" /\ barrier["end"] = "filling"
       /\ pc["runner"] \in {"end", "endWait"}
    \/ /\ pc["watcher"] = "endWait"
       /\ barrier["begin"] = "filling"
       /\ \/ barrier["end"] = "filling"  /\ pc["runner"] = "end"
          \/ barrier["end"] = "draining" /\ pc["runner"] \in Outside \cup {"beginWait"}

\* While the watcher is in its loop the threads are in step, or the runner has
\* closed JobSync and the watcher has only to notice.
SyncInv ==
    pc["watcher"] \in Watching =>
        /\ \/ InStep
           \/ /\ pc["runner"] = "done"
              /\ barrier = [b \in Barriers |-> "broken"]
              /\ pc["watcher"] \in {"begin", "beginWait", "endWait"}
        /\ isJobActive <=> pc["runner"] \in {"begin", "beginWait", "init", "run", "deactivate"}
        /\ pc["watcher"] \in {"recv", "blocked", "check"} => watched = clientSocket

\* What the watcher knows when recv has returned, and what an abort rests on.
AbortInv ==
    /\ pc["watcher"] = "check" => conn[watched] = "shut" \/ client[watched] # "waiting"
    /\ outcome = "aborted" => /\ pc["watcher"] \in TearDown \cup {"gone"}
                              /\ watched \in Jobs
                              /\ client[watched] = "left"
                              /\ answer[watched] = "none"

\* How the process comes to its end, and what the runner can still be doing.
EndInv ==
    /\ outcome = "aborted" =>
           /\ pc["runner"] \in (InHand \ {"request"}) \cup {"closing", "done", "gone"}
           /\ pc["runner"] \in InHand => job = watched
    /\ pc["watcher"] \in TearDown =>
           outcome = "aborted" \/ pc["runner"] = "done" \/ server # "serving"
    /\ component = "closed" => pc["watcher"] \in {"closeSocket", "exit", "gone"}
    /\ signals # {} => server # "serving"
    /\ pc["watcher"] = "gone" <=> pc["runner"] = "gone"

\* A zero byte stands for a completed job, and so does a runner about to send
\* one; only an abort can break the barriers under it (and a signal, of which this
\* invariant is not claimed).
RanInv ==
    /\ \A j \in Jobs : answer[j] = "zero" => ran[j] = "ok"
    /\ pc["runner"] \in {"deactivate", "end", "endWait", "clear"} => ran[job] = "ok"
    /\ pc["runner"] = "reply" => ran[job] = "ok" \/ client[job] # "waiting"
    /\ \A b \in Barriers : barrier[b] = "broken" =>
           outcome = "aborted" \/ pc["runner"] \in {"done", "gone"}

\* A job runs once, so that what is known of its end stays.
RaiseInv ==
    /\ \A j \in Jobs : ran[j] # "no" => conn[j] \notin {"server", "queued"}
    /\ pc["runner"] \in {"request", "begin", "beginWait", "init", "run"} => ran[job] = "no"
    /\ \A j \in Jobs : ran[j] = "failed" => j \in Failing

\* The watcher joins the runner only after it broke the barriers, and its loop
\* ends with the first exception.
JoinInv ==
    /\ pc["watcher"] = "join" => \A b \in Barriers : barrier[b] = "broken"
    /\ pc["watcher"] \in Watching => watcherException = "none"

\* Where the signals come from.
SignalInv ==
    /\ "int" \in signals => Terminal
    /\ watcherException = "int" => Terminal
    /\ watcherException = "term" => ServerIsInit

-----------------------------------------------------------------------------
\* The types of the program counters, the part of TypeOK that most steps change.
PCsOK == /\ pc \in [Threads -> RunnerPCs \cup WatcherPCs]
         /\ pc["runner"] \in RunnerPCs
         /\ pc["watcher"] \in WatcherPCs

LEMMA TypeInitially ==
    ASSUME Init
    PROVE  TypeOK
<1>1. PCsOK
  BY DEF Init, PCsOK, Threads, RunnerPCs, WatcherPCs, Watching, AtBarrier
<1>2. barrier \in [Barriers -> {"filling", "draining", "broken"}]
  BY DEF Init
<1>3. /\ conn \in [Jobs -> {"server", "queued", "open", "shut", "closed"}]
      /\ answer \in [Jobs -> {"none", "zero", "one"}]
  BY DEF Init
<1>4. /\ client \in [Jobs -> {"waiting", "success", "failure", "noAnswer", "left"}]
      /\ ran \in [Jobs -> {"no", "ok", "failed"}]
  BY DEF Init
<1>5. /\ clientSocket \in Jobs \cup {NoJob} /\ isJobActive \in BOOLEAN
      /\ job \in Jobs \cup {NoJob} /\ watched \in Jobs \cup {NoJob}
  BY DEF Init
<1>6. /\ component \in {"none", "loaded", "closed"} /\ runnerException \in BOOLEAN
      /\ watcherException \in {"none", "error", "term", "int"}
      /\ outcome \in {"running", "ok", "error", "aborted", "term", "int"}
  BY DEF Init
<1>7. /\ idleBytes \in Nat /\ believedIdle \in BOOLEAN /\ brokenPipe \in BOOLEAN
      /\ server \in {"serving", "interrupted", "stopping", "joining", "gone"}
      /\ signals \subseteq {"int", "term"}
  BY DEF Init
<1>8. QED
  BY <1>1, <1>2, <1>3, <1>4, <1>5, <1>6, <1>7 DEF TypeOK, PCsOK

\* Every step keeps every variable's type.
LEMMA TypeStep ==
    ASSUME TypeOK, [Next]_vars
    PROVE  TypeOK'
<1> USE DEF TypeOK, Threads, Barriers, RunnerPCs, WatcherPCs, Watching, AtBarrier, TearDown,
           Goto, Move, BreakBarriers, threadVars, processVars, jobVars, serverVars
<1>1. ASSUME NEW t \in Threads, NEW b \in Barriers, ArriveFirst(t, b) PROVE TypeOK'
  BY <1>1 DEF ArriveFirst, Waiting, Passed
<1>2. ASSUME NEW t \in Threads, NEW b \in Barriers, ArriveSecond(t, b) PROVE TypeOK'
  BY <1>2 DEF ArriveSecond, Waiting, Passed
<1>3. ASSUME NEW t \in Threads, NEW b \in Barriers, Wake(t, b) PROVE TypeOK'
  BY <1>3 DEF Wake, Waiting, Passed
<1>4. ASSUME NEW b \in Barriers, RunnerFindsBroken(b) PROVE TypeOK'
  BY <1>4 DEF RunnerFindsBroken, Waiting
<1>5. ASSUME NEW b \in Barriers, WatcherFindsBroken(b) PROVE TypeOK'
  BY <1>5 DEF WatcherFindsBroken, Waiting
<1>6. ASSUME NEW j \in Jobs, TakeJob(j) PROVE TypeOK'
  BY <1>6 DEF TakeJob
<1>7. ASSUME NEW j \in Jobs, Submit(j) PROVE TypeOK'
  <2>1. conn' \in [Jobs -> {"server", "queued", "open", "shut", "closed"}]
    BY <1>7 DEF Submit
  <2>2. believedIdle' \in BOOLEAN
    BY <1>7 DEF Submit
  <2>3. QED
    BY <1>7, <2>1, <2>2 DEF Submit, PCsOK
<1>8. ASSUME NEW j \in Jobs, SubmitFails(j) PROVE TypeOK'
  <2>1. believedIdle' \in BOOLEAN
    BY <1>8 DEF SubmitFails
  <2>2. brokenPipe' \in BOOLEAN
    BY <1>8 DEF SubmitFails
  <2>3. QED
    BY <1>8, <2>1, <2>2 DEF SubmitFails, PCsOK
<1>9. ASSUME NEW j \in Jobs, ClientExits(j) PROVE TypeOK'
  <2>1. client' \in [Jobs -> {"waiting", "success", "failure", "noAnswer", "left"}]
    BY <1>9 DEF ClientExits, ClientEnds
  <2>2. UNCHANGED <<threadVars, processVars, conn, answer, ran, serverVars>>
    BY <1>9 DEF ClientExits, ClientEnds
  <2>3. QED
    BY <2>1, <2>2
<1>10. ASSUME NEW j \in Jobs, ClientGetsNothing(j) PROVE TypeOK'
  BY <1>10 DEF ClientGetsNothing, ClientEnds
<1>11. ASSUME NEW j \in Jobs, ClientLeaves(j) PROVE TypeOK'
  BY <1>11 DEF ClientLeaves, ClientEnds
<1>12. CASE ParentGone
  BY <1>12 DEF ParentGone
<1>13. CASE IdleTimeout
  BY <1>13 DEF IdleTimeout
<1>14. CASE AcceptRequest
  BY <1>14 DEF AcceptRequest
<1>15. CASE RejectRequest
  <2>1. PCsOK'
    BY <1>15 DEF RejectRequest, PCsOK
  <2>2. answer' \in [Jobs -> {"none", "zero", "one"}]
    BY <1>15 DEF RejectRequest
  <2>3. conn' \in [Jobs -> {"server", "queued", "open", "shut", "closed"}]
    BY <1>15 DEF RejectRequest
  <2>4. runnerException' \in BOOLEAN
    BY <1>15 DEF RejectRequest
  <2>5. QED
    BY <1>15, <2>1, <2>2, <2>3, <2>4 DEF RejectRequest, PCsOK
<1>16. CASE InitComponent
  BY <1>16 DEF InitComponent
<1>17. CASE RunComponent
  <2>1. PCsOK'
    BY <1>17 DEF RunComponent, PCsOK
  <2>2. ran' \in [Jobs -> {"no", "ok", "failed"}]
    BY <1>17 DEF RunComponent
  <2>3. QED
    BY <1>17, <2>1, <2>2 DEF RunComponent, PCsOK
<1>18. CASE JobRaises
  <2>1. PCsOK'
    BY <1>18 DEF JobRaises, PCsOK
  <2>2. ran' \in [Jobs -> {"no", "ok", "failed"}]
    BY <1>18 DEF JobRaises
  <2>3. QED
    BY <1>18, <2>1, <2>2 DEF JobRaises, PCsOK
<1>19. CASE Deactivate
  <2>1. PCsOK'
    BY <1>19 DEF Deactivate, PCsOK
  <2>2. isJobActive' \in BOOLEAN
    BY <1>19 DEF Deactivate
  <2>3. conn' \in [Jobs -> {"server", "queued", "open", "shut", "closed"}]
    BY <1>19 DEF Deactivate
  <2>4. QED
    BY <1>19, <2>1, <2>2, <2>3 DEF Deactivate, PCsOK
<1>20. CASE ClearSocket
  BY <1>20 DEF ClearSocket
<1>21. CASE Reply
  <2>1. PCsOK'
    BY <1>21 DEF Reply, PCsOK
  <2>2. answer' \in [Jobs -> {"none", "zero", "one"}]
    BY <1>21 DEF Reply
  <2>3. conn' \in [Jobs -> {"server", "queued", "open", "shut", "closed"}]
    BY <1>21 DEF Reply
  <2>4. QED
    BY <1>21, <2>1, <2>2, <2>3 DEF Reply, PCsOK
<1>22. CASE ReplyFails
  <2>1. PCsOK'
    BY <1>22 DEF ReplyFails, PCsOK
  <2>2. conn' \in [Jobs -> {"server", "queued", "open", "shut", "closed"}]
    BY <1>22 DEF ReplyFails
  <2>3. runnerException' \in BOOLEAN
    BY <1>22 DEF ReplyFails
  <2>4. QED
    BY <1>22, <2>1, <2>2, <2>3 DEF ReplyFails, PCsOK
<1>23. CASE SendIdle
  BY <1>23 DEF SendIdle
<1>24. CASE SendIdleFails
  BY <1>24 DEF SendIdleFails
<1>25. CASE CloseJobSync
  BY <1>25 DEF CloseJobSync
<1>26. CASE Expose
  BY <1>26 DEF Expose
<1>27. CASE EnterRecv
  BY <1>27 DEF EnterRecv
<1>28. CASE RecvRaises
  BY <1>28 DEF RecvRaises
<1>29. CASE RecvReturns
  BY <1>29 DEF RecvReturns
<1>30. CASE JobIsOver
  BY <1>30 DEF JobIsOver
<1>31. CASE AbortJob
  BY <1>31 DEF AbortJob
<1>32. CASE JoinRunner
  BY <1>32 DEF JoinRunner
<1>33. CASE CloseComponent
  BY <1>33 DEF CloseComponent
<1>34. CASE CloseParentSocket
  BY <1>34 DEF CloseParentSocket
<1>35. CASE Exit
  BY <1>35 DEF Exit, ProcessGone
<1>36. CASE KilledBySigterm
  <2>1. PCsOK'
    BY <1>36 DEF KilledBySigterm, ProcessGone, PCsOK
  <2>2. conn' \in [Jobs -> {"server", "queued", "open", "shut", "closed"}]
    BY <1>36 DEF KilledBySigterm, ProcessGone
  <2>3. signals' \subseteq {"int", "term"}
    BY <1>36 DEF KilledBySigterm, ProcessGone
  <2>4. QED
    BY <1>36, <2>1, <2>2, <2>3 DEF KilledBySigterm, ProcessGone, PCsOK
<1>37. ASSUME NEW s \in {"int", "term"}, SignalWhileWatching(s) PROVE TypeOK'
  <2>1. PCsOK'
    BY <1>37 DEF SignalWhileWatching, PCsOK
  <2>2. signals' \subseteq {"int", "term"}
    BY <1>37 DEF SignalWhileWatching
  <2>3. QED
    BY <1>37, <2>1, <2>2 DEF SignalWhileWatching, PCsOK
<1>38. ASSUME NEW s \in {"int", "term"}, SignalWhileJoining(s) PROVE TypeOK'
  <2>1. PCsOK'
    BY <1>38 DEF SignalWhileJoining, PCsOK
  <2>2. signals' \subseteq {"int", "term"}
    BY <1>38 DEF SignalWhileJoining
  <2>3. QED
    BY <1>38, <2>1, <2>2 DEF SignalWhileJoining, PCsOK
<1>39. CASE PollIdle
  BY <1>39 DEF PollIdle
<1>40. CASE ServerStops
  BY <1>40 DEF ServerStops
<1>41. CASE ServerJoins
  BY <1>41 DEF ServerJoins
<1>42. CASE ServerDies
  BY <1>42 DEF ServerDies
<1>43. CASE UNCHANGED vars
  BY <1>43 DEF vars
<1>44. CASE CtrlC
  BY <1>44 DEF CtrlC
<1>45. QED
  BY <1>1, <1>2, <1>3, <1>4, <1>5, <1>6, <1>7, <1>8, <1>9, <1>10, <1>11, <1>12, <1>13, <1>14, <1>15, <1>16, <1>17, <1>18, <1>19, <1>20, <1>21, <1>22, <1>23, <1>24, <1>25, <1>26, <1>27, <1>28, <1>29, <1>30, <1>31, <1>32, <1>33, <1>34, <1>35, <1>36, <1>37, <1>38, <1>39, <1>40, <1>41, <1>42, <1>43, <1>44
     DEF Next, RunnerStep, BarrierStep, ComponentStep, WatcherStep, HandleSignal, ServerStep, PollResets, ClientAnswered

\* Every variable keeps its type.
THEOREM TypeCorrect == Spec => []TypeOK
<1>1. Init => TypeOK
  BY TypeInitially
<1>2. TypeOK /\ [Next]_vars => TypeOK'
  BY TypeStep
<1>3. QED
  BY <1>1, <1>2, PTL DEF Spec

\* What is known of the job in hand is inductive.
LEMMA JobStep ==
    ASSUME TypeOK, JobInv, [Next]_vars
    PROVE  JobInv'
<1> USE DEF TypeOK, JobInv, InHand, ParentSocketOpen, AtBarrier, Threads, Barriers, Goto, Move, BreakBarriers, threadVars, processVars, jobVars, serverVars
<1>1. ASSUME NEW t \in Threads, NEW b \in Barriers, ArriveFirst(t, b) PROVE JobInv'
  BY <1>1 DEF ArriveFirst, Waiting, Passed, Other
<1>2. ASSUME NEW t \in Threads, NEW b \in Barriers, ArriveSecond(t, b) PROVE JobInv'
  BY <1>2 DEF ArriveSecond, Waiting, Passed, Other
<1>3. ASSUME NEW t \in Threads, NEW b \in Barriers, Wake(t, b) PROVE JobInv'
  BY <1>3 DEF Wake, Waiting, Passed, Other
<1>4. ASSUME NEW b \in Barriers, RunnerFindsBroken(b) PROVE JobInv'
  BY <1>4 DEF RunnerFindsBroken, Waiting
<1>5. ASSUME NEW b \in Barriers, WatcherFindsBroken(b) PROVE JobInv'
  BY <1>5 DEF WatcherFindsBroken, Waiting
<1>6. ASSUME NEW j \in Jobs, TakeJob(j) PROVE JobInv'
  BY <1>6 DEF TakeJob
<1>7. ASSUME NEW j \in Jobs, Submit(j) PROVE JobInv'
  BY <1>7 DEF Submit
<1>8. ASSUME NEW j \in Jobs, SubmitFails(j) PROVE JobInv'
  BY <1>8 DEF SubmitFails
<1>9. ASSUME NEW j \in Jobs, ClientExits(j) PROVE JobInv'
  BY <1>9 DEF ClientExits, ClientEnds
<1>10. ASSUME NEW j \in Jobs, ClientGetsNothing(j) PROVE JobInv'
  BY <1>10 DEF ClientGetsNothing, ClientEnds
<1>11. ASSUME NEW j \in Jobs, ClientLeaves(j) PROVE JobInv'
  BY <1>11 DEF ClientLeaves, ClientEnds
<1>12. CASE ParentGone
  BY <1>12 DEF ParentGone
<1>13. CASE IdleTimeout
  BY <1>13 DEF IdleTimeout
<1>14. CASE AcceptRequest
  BY <1>14 DEF AcceptRequest
<1>15. CASE RejectRequest
  BY <1>15 DEF RejectRequest
<1>16. CASE InitComponent
  BY <1>16 DEF InitComponent
<1>17. CASE RunComponent
  BY <1>17 DEF RunComponent
<1>18. CASE JobRaises
  BY <1>18 DEF JobRaises
<1>19. CASE Deactivate
  BY <1>19 DEF Deactivate
<1>20. CASE ClearSocket
  BY <1>20 DEF ClearSocket
<1>21. CASE Reply
  BY <1>21 DEF Reply
<1>22. CASE ReplyFails
  BY <1>22 DEF ReplyFails
<1>23. CASE SendIdle
  BY <1>23 DEF SendIdle
<1>24. CASE SendIdleFails
  BY <1>24 DEF SendIdleFails
<1>25. CASE CloseJobSync
  BY <1>25 DEF CloseJobSync
<1>26. CASE Expose
  BY <1>26 DEF Expose
<1>27. CASE EnterRecv
  BY <1>27 DEF EnterRecv
<1>28. CASE RecvRaises
  BY <1>28 DEF RecvRaises
<1>29. CASE RecvReturns
  BY <1>29 DEF RecvReturns
<1>30. CASE JobIsOver
  BY <1>30 DEF JobIsOver
<1>31. CASE AbortJob
  BY <1>31 DEF AbortJob
<1>32. CASE JoinRunner
  BY <1>32 DEF JoinRunner
<1>33. CASE CloseComponent
  BY <1>33 DEF CloseComponent
<1>34. CASE CloseParentSocket
  BY <1>34 DEF CloseParentSocket
<1>35. CASE Exit
  BY <1>35 DEF Exit, ProcessGone
<1>36. CASE KilledBySigterm
  BY <1>36 DEF KilledBySigterm, ProcessGone
<1>37. ASSUME NEW s \in {"int", "term"}, SignalWhileWatching(s) PROVE JobInv'
  BY <1>37 DEF SignalWhileWatching
<1>38. ASSUME NEW s \in {"int", "term"}, SignalWhileJoining(s) PROVE JobInv'
  BY <1>38 DEF SignalWhileJoining
<1>39. CASE PollIdle
  BY <1>39 DEF PollIdle
<1>40. CASE ServerStops
  BY <1>40 DEF ServerStops
<1>41. CASE ServerJoins
  BY <1>41 DEF ServerJoins
<1>42. CASE ServerDies
  BY <1>42 DEF ServerDies
<1>43. CASE UNCHANGED vars
  BY <1>43 DEF vars
<1>44. CASE CtrlC
  BY <1>44 DEF CtrlC
<1>45. QED
  BY <1>1, <1>2, <1>3, <1>4, <1>5, <1>6, <1>7, <1>8, <1>9, <1>10, <1>11, <1>12, <1>13, <1>14, <1>15, <1>16, <1>17, <1>18, <1>19, <1>20, <1>21, <1>22, <1>23, <1>24, <1>25, <1>26, <1>27, <1>28, <1>29, <1>30, <1>31, <1>32, <1>33, <1>34, <1>35, <1>36, <1>37, <1>38, <1>39, <1>40, <1>41, <1>42, <1>43, <1>44
     DEF Next, RunnerStep, BarrierStep, ComponentStep, WatcherStep, HandleSignal, ServerStep, PollResets,
         ClientAnswered

\* What is known of jobs that ran is inductive.
LEMMA RaiseStep ==
    ASSUME TypeOK, JobInv, RaiseInv, [Next]_vars
    PROVE  RaiseInv'
<1> USE DEF TypeOK, JobInv, RaiseInv, InHand, ParentSocketOpen, AtBarrier, Threads, Barriers, Goto, Move, BreakBarriers, threadVars, processVars, jobVars, serverVars
<1>1. ASSUME NEW t \in Threads, NEW b \in Barriers, ArriveFirst(t, b) PROVE RaiseInv'
  BY <1>1 DEF ArriveFirst, Waiting, Passed, Other
<1>2. ASSUME NEW t \in Threads, NEW b \in Barriers, ArriveSecond(t, b) PROVE RaiseInv'
  BY <1>2 DEF ArriveSecond, Waiting, Passed, Other
<1>3. ASSUME NEW t \in Threads, NEW b \in Barriers, Wake(t, b) PROVE RaiseInv'
  BY <1>3 DEF Wake, Waiting, Passed, Other
<1>4. ASSUME NEW b \in Barriers, RunnerFindsBroken(b) PROVE RaiseInv'
  BY <1>4 DEF RunnerFindsBroken, Waiting
<1>5. ASSUME NEW b \in Barriers, WatcherFindsBroken(b) PROVE RaiseInv'
  BY <1>5 DEF WatcherFindsBroken, Waiting
<1>6. ASSUME NEW j \in Jobs, TakeJob(j) PROVE RaiseInv'
  BY <1>6 DEF TakeJob
<1>7. ASSUME NEW j \in Jobs, Submit(j) PROVE RaiseInv'
  BY <1>7 DEF Submit
<1>8. ASSUME NEW j \in Jobs, SubmitFails(j) PROVE RaiseInv'
  BY <1>8 DEF SubmitFails
<1>9. ASSUME NEW j \in Jobs, ClientExits(j) PROVE RaiseInv'
  BY <1>9 DEF ClientExits, ClientEnds
<1>10. ASSUME NEW j \in Jobs, ClientGetsNothing(j) PROVE RaiseInv'
  BY <1>10 DEF ClientGetsNothing, ClientEnds
<1>11. ASSUME NEW j \in Jobs, ClientLeaves(j) PROVE RaiseInv'
  BY <1>11 DEF ClientLeaves, ClientEnds
<1>12. CASE ParentGone
  BY <1>12 DEF ParentGone
<1>13. CASE IdleTimeout
  BY <1>13 DEF IdleTimeout
<1>14. CASE AcceptRequest
  BY <1>14 DEF AcceptRequest
<1>15. CASE RejectRequest
  BY <1>15 DEF RejectRequest
<1>16. CASE InitComponent
  BY <1>16 DEF InitComponent
<1>17. CASE RunComponent
  BY <1>17 DEF RunComponent
<1>18. CASE JobRaises
  BY <1>18 DEF JobRaises
<1>19. CASE Deactivate
  BY <1>19 DEF Deactivate
<1>20. CASE ClearSocket
  BY <1>20 DEF ClearSocket
<1>21. CASE Reply
  BY <1>21 DEF Reply
<1>22. CASE ReplyFails
  BY <1>22 DEF ReplyFails
<1>23. CASE SendIdle
  BY <1>23 DEF SendIdle
<1>24. CASE SendIdleFails
  BY <1>24 DEF SendIdleFails
<1>25. CASE CloseJobSync
  BY <1>25 DEF CloseJobSync
<1>26. CASE Expose
  BY <1>26 DEF Expose
<1>27. CASE EnterRecv
  BY <1>27 DEF EnterRecv
<1>28. CASE RecvRaises
  BY <1>28 DEF RecvRaises
<1>29. CASE RecvReturns
  BY <1>29 DEF RecvReturns
<1>30. CASE JobIsOver
  BY <1>30 DEF JobIsOver
<1>31. CASE AbortJob
  BY <1>31 DEF AbortJob
<1>32. CASE JoinRunner
  BY <1>32 DEF JoinRunner
<1>33. CASE CloseComponent
  BY <1>33 DEF CloseComponent
<1>34. CASE CloseParentSocket
  BY <1>34 DEF CloseParentSocket
<1>35. CASE Exit
  BY <1>35 DEF Exit, ProcessGone
<1>36. CASE KilledBySigterm
  BY <1>36 DEF KilledBySigterm, ProcessGone
<1>37. ASSUME NEW s \in {"int", "term"}, SignalWhileWatching(s) PROVE RaiseInv'
  BY <1>37 DEF SignalWhileWatching
<1>38. ASSUME NEW s \in {"int", "term"}, SignalWhileJoining(s) PROVE RaiseInv'
  BY <1>38 DEF SignalWhileJoining
<1>39. CASE PollIdle
  BY <1>39 DEF PollIdle
<1>40. CASE ServerStops
  BY <1>40 DEF ServerStops
<1>41. CASE ServerJoins
  BY <1>41 DEF ServerJoins
<1>42. CASE ServerDies
  BY <1>42 DEF ServerDies
<1>43. CASE UNCHANGED vars
  BY <1>43 DEF vars
<1>44. CASE CtrlC
  BY <1>44 DEF CtrlC
<1>45. QED
  BY <1>1, <1>2, <1>3, <1>4, <1>5, <1>6, <1>7, <1>8, <1>9, <1>10, <1>11, <1>12, <1>13, <1>14, <1>15, <1>16, <1>17, <1>18, <1>19, <1>20, <1>21, <1>22, <1>23, <1>24, <1>25, <1>26, <1>27, <1>28, <1>29, <1>30, <1>31, <1>32, <1>33, <1>34, <1>35, <1>36, <1>37, <1>38, <1>39, <1>40, <1>41, <1>42, <1>43, <1>44
     DEF Next, RunnerStep, BarrierStep, ComponentStep, WatcherStep, HandleSignal, ServerStep, PollResets,
         ClientAnswered

\* No step mends a broken barrier.
LEMMA JoinStep ==
    ASSUME TypeOK, JoinInv, [Next]_vars
    PROVE  JoinInv'
<1> USE DEF TypeOK, JoinInv, RunnerPCs, WatcherPCs, Watching, TearDown, ParentSocketOpen, AtBarrier, Threads, Barriers, Goto, Move, BreakBarriers, threadVars, processVars, jobVars, serverVars
<1>1. ASSUME NEW t \in Threads, NEW b \in Barriers, ArriveFirst(t, b) PROVE JoinInv'
  BY <1>1 DEF ArriveFirst, Waiting, Passed, Other
<1>2. ASSUME NEW t \in Threads, NEW b \in Barriers, ArriveSecond(t, b) PROVE JoinInv'
  BY <1>2 DEF ArriveSecond, Waiting, Passed, Other
<1>3. ASSUME NEW t \in Threads, NEW b \in Barriers, Wake(t, b) PROVE JoinInv'
  BY <1>3 DEF Wake, Waiting, Passed, Other
<1>4. ASSUME NEW b \in Barriers, RunnerFindsBroken(b) PROVE JoinInv'
  BY <1>4 DEF RunnerFindsBroken, Waiting
<1>5. ASSUME NEW b \in Barriers, WatcherFindsBroken(b) PROVE JoinInv'
  BY <1>5 DEF WatcherFindsBroken, Waiting
<1>6. ASSUME NEW j \in Jobs, TakeJob(j) PROVE JoinInv'
  BY <1>6 DEF TakeJob
<1>7. ASSUME NEW j \in Jobs, Submit(j) PROVE JoinInv'
  BY <1>7 DEF Submit
<1>8. ASSUME NEW j \in Jobs, SubmitFails(j) PROVE JoinInv'
  BY <1>8 DEF SubmitFails
<1>9. ASSUME NEW j \in Jobs, ClientExits(j) PROVE JoinInv'
  BY <1>9 DEF ClientExits, ClientEnds
<1>10. ASSUME NEW j \in Jobs, ClientGetsNothing(j) PROVE JoinInv'
  BY <1>10 DEF ClientGetsNothing, ClientEnds
<1>11. ASSUME NEW j \in Jobs, ClientLeaves(j) PROVE JoinInv'
  BY <1>11 DEF ClientLeaves, ClientEnds
<1>12. CASE ParentGone
  BY <1>12 DEF ParentGone
<1>13. CASE IdleTimeout
  BY <1>13 DEF IdleTimeout
<1>14. CASE AcceptRequest
  BY <1>14 DEF AcceptRequest
<1>15. CASE RejectRequest
  BY <1>15 DEF RejectRequest
<1>16. CASE InitComponent
  BY <1>16 DEF InitComponent
<1>17. CASE RunComponent
  BY <1>17 DEF RunComponent
<1>18. CASE JobRaises
  BY <1>18 DEF JobRaises
<1>19. CASE Deactivate
  BY <1>19 DEF Deactivate
<1>20. CASE ClearSocket
  BY <1>20 DEF ClearSocket
<1>21. CASE Reply
  BY <1>21 DEF Reply
<1>22. CASE ReplyFails
  BY <1>22 DEF ReplyFails
<1>23. CASE SendIdle
  BY <1>23 DEF SendIdle
<1>24. CASE SendIdleFails
  BY <1>24 DEF SendIdleFails
<1>25. CASE CloseJobSync
  BY <1>25 DEF CloseJobSync
<1>26. CASE Expose
  BY <1>26 DEF Expose
<1>27. CASE EnterRecv
  BY <1>27 DEF EnterRecv
<1>28. CASE RecvRaises
  BY <1>28 DEF RecvRaises
<1>29. CASE RecvReturns
  BY <1>29 DEF RecvReturns
<1>30. CASE JobIsOver
  BY <1>30 DEF JobIsOver
<1>31. CASE AbortJob
  BY <1>31 DEF AbortJob
<1>32. CASE JoinRunner
  BY <1>32 DEF JoinRunner
<1>33. CASE CloseComponent
  BY <1>33 DEF CloseComponent
<1>34. CASE CloseParentSocket
  BY <1>34 DEF CloseParentSocket
<1>35. CASE Exit
  BY <1>35 DEF Exit, ProcessGone
<1>36. CASE KilledBySigterm
  BY <1>36 DEF KilledBySigterm, ProcessGone
<1>37. ASSUME NEW s \in {"int", "term"}, SignalWhileWatching(s) PROVE JoinInv'
  BY <1>37 DEF SignalWhileWatching
<1>38. ASSUME NEW s \in {"int", "term"}, SignalWhileJoining(s) PROVE JoinInv'
  BY <1>38 DEF SignalWhileJoining
<1>39. CASE PollIdle
  BY <1>39 DEF PollIdle
<1>40. CASE ServerStops
  BY <1>40 DEF ServerStops
<1>41. CASE ServerJoins
  BY <1>41 DEF ServerJoins
<1>42. CASE ServerDies
  BY <1>42 DEF ServerDies
<1>43. CASE UNCHANGED vars
  BY <1>43 DEF vars
<1>44. CASE CtrlC
  BY <1>44 DEF CtrlC
<1>45. QED
  BY <1>1, <1>2, <1>3, <1>4, <1>5, <1>6, <1>7, <1>8, <1>9, <1>10, <1>11, <1>12, <1>13, <1>14, <1>15, <1>16, <1>17, <1>18, <1>19, <1>20, <1>21, <1>22, <1>23, <1>24, <1>25, <1>26, <1>27, <1>28, <1>29, <1>30, <1>31, <1>32, <1>33, <1>34, <1>35, <1>36, <1>37, <1>38, <1>39, <1>40, <1>41, <1>42, <1>43, <1>44
     DEF Next, RunnerStep, BarrierStep, ComponentStep, WatcherStep, HandleSignal, ServerStep, PollResets,
         ClientAnswered

\* A component that raises is known at once ...
LEMMA Raising ==
    ASSUME TypeOK, JobInv, JobRaises
    PROVE  ~NoneRaised'
<1>1. job \in Jobs /\ ran \in [Jobs -> {"no", "ok", "failed"}]
  BY DEF JobRaises, TypeOK, JobInv, InHand
<1>2. QED
  BY <1>1 DEF JobRaises, NoneRaised

\* ... and for good.
LEMMA RaisedStays ==
    ASSUME TypeOK, JobInv, RaiseInv, [Next]_vars
    PROVE  NoneRaised' => NoneRaised
<1>1. RunComponent \/ JobRaises \/ ran' = ran
  BY DEF Next, vars, threadVars, processVars, jobVars, serverVars, RunnerStep, BarrierStep,
         ComponentStep, WatcherStep, HandleSignal, ServerStep, ClientAnswered, Move, Goto,
         ProcessGone, ClientEnds, ArriveFirst, ArriveSecond, Wake, RunnerFindsBroken, TakeJob,
         ParentGone, IdleTimeout, AcceptRequest, RejectRequest, Deactivate, ClearSocket, Reply,
         ReplyFails, SendIdle, SendIdleFails, CloseJobSync, InitComponent, WatcherFindsBroken,
         Expose, EnterRecv, RecvRaises, RecvReturns, JobIsOver, AbortJob, JoinRunner,
         CloseComponent, CloseParentSocket, Exit, KilledBySigterm, SignalWhileWatching,
         SignalWhileJoining, PollIdle, PollResets, Submit, SubmitFails, ServerStops,
         ServerJoins, ServerDies, CtrlC, ClientExits, ClientGetsNothing, ClientLeaves
<1>2. CASE RunComponent
  <2>1. job \in Jobs /\ ran[job] = "no"
    BY <1>2 DEF RunComponent, JobInv, RaiseInv, InHand
  <2>2. QED
    BY <1>2, <2>1 DEF RunComponent, NoneRaised, TypeOK
<1>3. CASE JobRaises
  BY <1>3, Raising
<1>4. CASE ran' = ran
  BY <1>4 DEF NoneRaised
<1>5. QED
  BY <1>1, <1>2, <1>3, <1>4

\* What becomes of the exception that ends the watcher's loop.
LEMMA ExceptionChanges ==
    ASSUME [Next]_vars
    PROVE  \/ RecvRaises
           \/ \E s \in {"int", "term"} : SignalWhileWatching(s)
           \/ watcherException' = watcherException
  BY DEF Next, vars, threadVars, processVars, jobVars, serverVars, RunnerStep, BarrierStep,
         ComponentStep, WatcherStep, HandleSignal, ServerStep, ClientAnswered, Move, Goto,
         ProcessGone, ClientEnds, ArriveFirst, ArriveSecond, Wake, RunnerFindsBroken, TakeJob,
         ParentGone, IdleTimeout, AcceptRequest, RejectRequest, Deactivate, ClearSocket, Reply,
         ReplyFails, SendIdle, SendIdleFails, CloseJobSync, InitComponent, RunComponent, JobRaises, WatcherFindsBroken,
         Expose, EnterRecv, RecvReturns, JobIsOver, AbortJob, JoinRunner,
         CloseComponent, CloseParentSocket, Exit, KilledBySigterm,
         SignalWhileJoining, PollIdle, PollResets, Submit, SubmitFails, ServerStops,
         ServerJoins, ServerDies, CtrlC, ClientExits, ClientGetsNothing, ClientLeaves

\* Only a Ctrl-C makes SIGINT pending.
LEMMA SignalChanges ==
    ASSUME [Next]_vars, "int" \in signals'
    PROVE  "int" \in signals \/ Terminal
  BY DEF Next, vars, threadVars, processVars, jobVars, serverVars, RunnerStep, BarrierStep,
         ComponentStep, WatcherStep, HandleSignal, ServerStep, ClientAnswered, Move, Goto,
         ProcessGone, ClientEnds, ArriveFirst, ArriveSecond, Wake, RunnerFindsBroken, TakeJob,
         ParentGone, IdleTimeout, AcceptRequest, RejectRequest, Deactivate, ClearSocket, Reply,
         ReplyFails, SendIdle, SendIdleFails, CloseJobSync, InitComponent, RunComponent, JobRaises, WatcherFindsBroken,
         Expose, EnterRecv, RecvRaises, RecvReturns, JobIsOver, AbortJob, JoinRunner,
         CloseComponent, CloseParentSocket, Exit, KilledBySigterm, SignalWhileWatching,
         SignalWhileJoining, PollIdle, PollResets, Submit, SubmitFails, ServerStops,
         ServerJoins, ServerDies, CtrlC, ClientExits, ClientGetsNothing, ClientLeaves

\* A watcher that was interrupted does not watch again.
LEMMA InterruptedStays ==
    ASSUME JoinInv, [Next]_vars, Interrupted
    PROVE  Interrupted'
  BY ExceptionChanges DEF Interrupted, JoinInv, RecvRaises, SignalWhileWatching, Watching

\* Without a terminal there is no SIGINT, and without a server that is pid 1 no
\* SIGTERM that the main thread survives.
LEMMA Signals == Spec => []SignalInv
<1>1. Init => SignalInv
  BY DEF Init, SignalInv
<1>2. SignalInv /\ [Next]_vars => SignalInv'
  <2> SUFFICES ASSUME SignalInv, [Next]_vars PROVE SignalInv'
    OBVIOUS
  <2>1. "int" \in signals' => Terminal
    BY SignalChanges DEF SignalInv
  <2>2. /\ watcherException' = "int" => Terminal
        /\ watcherException' = "term" => ServerIsInit
    BY ExceptionChanges DEF SignalInv, RecvRaises, SignalWhileWatching, Raises
  <2>3. QED
    BY <2>1, <2>2 DEF SignalInv
<1>3. QED
  BY <1>1, <1>2, PTL DEF Spec

\* The token invariant is inductive.
LEMMA TokenStep ==
    ASSUME TypeOK, JobInv, TokenInv, [Next]_vars
    PROVE  TokenInv'
<1> USE DEF TypeOK, TokenInv, InHand, AtRest, ParentSocketOpen, Queued, RunnerPCs, AtBarrier, Watching, TearDown, WatcherPCs, Threads, Barriers, Goto, Move, BreakBarriers, threadVars, processVars, jobVars, serverVars
<1>1. ASSUME NEW t \in Threads, NEW b \in Barriers, ArriveFirst(t, b) PROVE TokenInv'
  BY <1>1 DEF ArriveFirst, Waiting, Passed, Other
<1>2. ASSUME NEW t \in Threads, NEW b \in Barriers, ArriveSecond(t, b) PROVE TokenInv'
  BY <1>2 DEF ArriveSecond, Waiting, Passed, Other
<1>3. ASSUME NEW t \in Threads, NEW b \in Barriers, Wake(t, b) PROVE TokenInv'
  BY <1>3 DEF Wake, Waiting, Passed, Other
<1>4. ASSUME NEW b \in Barriers, RunnerFindsBroken(b) PROVE TokenInv'
  BY <1>4 DEF RunnerFindsBroken, Waiting
<1>5. ASSUME NEW b \in Barriers, WatcherFindsBroken(b) PROVE TokenInv'
  BY <1>5 DEF WatcherFindsBroken, Waiting
<1>6. ASSUME NEW j \in Jobs, TakeJob(j) PROVE TokenInv'
  BY <1>6 DEF TakeJob
<1>7. ASSUME NEW j \in Jobs, Submit(j) PROVE TokenInv'
  BY <1>7 DEF Submit
<1>8. ASSUME NEW j \in Jobs, SubmitFails(j) PROVE TokenInv'
  BY <1>8 DEF SubmitFails
<1>9. ASSUME NEW j \in Jobs, ClientExits(j) PROVE TokenInv'
  BY <1>9 DEF ClientExits, ClientEnds
<1>10. ASSUME NEW j \in Jobs, ClientGetsNothing(j) PROVE TokenInv'
  BY <1>10 DEF ClientGetsNothing, ClientEnds
<1>11. ASSUME NEW j \in Jobs, ClientLeaves(j) PROVE TokenInv'
  BY <1>11 DEF ClientLeaves, ClientEnds
<1>12. CASE ParentGone
  BY <1>12 DEF ParentGone
<1>13. CASE IdleTimeout
  BY <1>13 DEF IdleTimeout
<1>14. CASE AcceptRequest
  BY <1>14 DEF AcceptRequest
<1>15. CASE RejectRequest
  BY <1>15 DEF RejectRequest
<1>16. CASE InitComponent
  BY <1>16 DEF InitComponent
<1>17. CASE RunComponent
  BY <1>17 DEF RunComponent
<1>18. CASE JobRaises
  BY <1>18 DEF JobRaises
<1>19. CASE Deactivate
  <2>1. clientSocket = job /\ job \in Jobs
    BY <1>19 DEF Deactivate, JobInv
  <2>2. QED
    BY <1>19, <2>1 DEF Deactivate
<1>20. CASE ClearSocket
  BY <1>20 DEF ClearSocket
<1>21. CASE Reply
  BY <1>21 DEF Reply
<1>22. CASE ReplyFails
  BY <1>22 DEF ReplyFails
<1>23. CASE SendIdle
  BY <1>23 DEF SendIdle
<1>24. CASE SendIdleFails
  BY <1>24 DEF SendIdleFails
<1>25. CASE CloseJobSync
  BY <1>25 DEF CloseJobSync
<1>26. CASE Expose
  BY <1>26 DEF Expose
<1>27. CASE EnterRecv
  BY <1>27 DEF EnterRecv
<1>28. CASE RecvRaises
  BY <1>28 DEF RecvRaises
<1>29. CASE RecvReturns
  BY <1>29 DEF RecvReturns
<1>30. CASE JobIsOver
  BY <1>30 DEF JobIsOver
<1>31. CASE AbortJob
  BY <1>31 DEF AbortJob
<1>32. CASE JoinRunner
  BY <1>32 DEF JoinRunner
<1>33. CASE CloseComponent
  BY <1>33 DEF CloseComponent
<1>34. CASE CloseParentSocket
  BY <1>34 DEF CloseParentSocket
<1>35. CASE Exit
  BY <1>35 DEF Exit, ProcessGone
<1>36. CASE KilledBySigterm
  BY <1>36 DEF KilledBySigterm, ProcessGone
<1>37. ASSUME NEW s \in {"int", "term"}, SignalWhileWatching(s) PROVE TokenInv'
  BY <1>37 DEF SignalWhileWatching
<1>38. ASSUME NEW s \in {"int", "term"}, SignalWhileJoining(s) PROVE TokenInv'
  BY <1>38 DEF SignalWhileJoining
<1>39. CASE PollIdle
  BY <1>39 DEF PollIdle
<1>40. CASE ServerStops
  BY <1>40 DEF ServerStops
<1>41. CASE ServerJoins
  BY <1>41 DEF ServerJoins
<1>42. CASE ServerDies
  BY <1>42 DEF ServerDies
<1>43. CASE UNCHANGED vars
  BY <1>43 DEF vars
<1>44. CASE CtrlC
  BY <1>44 DEF CtrlC
<1>45. QED
  BY <1>1, <1>2, <1>3, <1>4, <1>5, <1>6, <1>7, <1>8, <1>9, <1>10, <1>11, <1>12, <1>13, <1>14, <1>15, <1>16, <1>17, <1>18, <1>19, <1>20, <1>21, <1>22, <1>23, <1>24, <1>25, <1>26, <1>27, <1>28, <1>29, <1>30, <1>31, <1>32, <1>33, <1>34, <1>35, <1>36, <1>37, <1>38, <1>39, <1>40, <1>41, <1>42, <1>43, <1>44
     DEF Next, RunnerStep, BarrierStep, ComponentStep, WatcherStep, HandleSignal, ServerStep, PollResets,
         ClientAnswered

\* No second job reaches an executor that still has one: the idle byte and the
\* manager's view of it are one token, and _run_job sends it last.
THEOREM OneJobAtATime == Spec => []NeverGivenSecondJob
<1>1. Init => JobInv /\ TokenInv
  BY DEF Init, JobInv, TokenInv, InHand, AtRest, ParentSocketOpen, Threads
<1>2. TypeOK /\ JobInv /\ TokenInv /\ [Next]_vars => (JobInv /\ TokenInv)'
  BY JobStep, TokenStep
<1>3. JobInv /\ TokenInv => NeverGivenSecondJob
  BY DEF JobInv, TokenInv, NeverGivenSecondJob, InHand, AtRest
<1>4. QED
  BY <1>1, <1>2, <1>3, TypeCorrect, PTL DEF Spec

\* The threads stay in step as long as no job raises.
LEMMA SyncStep ==
    ASSUME NoneRaised', TypeOK, JobInv, SyncInv, [Next]_vars
    PROVE  SyncInv'
<1> USE DEF TypeOK, JobInv, SyncInv, InStep, Inside, Outside, InHand, AtBarrier, Watching, TearDown, RunnerPCs, WatcherPCs, Threads, Barriers, Goto, Move, BreakBarriers, threadVars, processVars, jobVars, serverVars
<1>1. ASSUME NEW t \in Threads, NEW b \in Barriers, ArriveFirst(t, b) PROVE SyncInv'
  BY <1>1 DEF ArriveFirst, Waiting, Passed, Other
<1>2. ASSUME NEW t \in Threads, NEW b \in Barriers, ArriveSecond(t, b) PROVE SyncInv'
  BY <1>2 DEF ArriveSecond, Waiting, Passed, Other
<1>3. ASSUME NEW t \in Threads, NEW b \in Barriers, Wake(t, b) PROVE SyncInv'
  BY <1>3 DEF Wake, Waiting, Passed, Other
<1>4. ASSUME NEW b \in Barriers, RunnerFindsBroken(b) PROVE SyncInv'
  BY <1>4 DEF RunnerFindsBroken, Waiting
<1>5. ASSUME NEW b \in Barriers, WatcherFindsBroken(b) PROVE SyncInv'
  BY <1>5 DEF WatcherFindsBroken, Waiting
<1>6. ASSUME NEW j \in Jobs, TakeJob(j) PROVE SyncInv'
  BY <1>6 DEF TakeJob
<1>7. ASSUME NEW j \in Jobs, Submit(j) PROVE SyncInv'
  BY <1>7 DEF Submit
<1>8. ASSUME NEW j \in Jobs, SubmitFails(j) PROVE SyncInv'
  BY <1>8 DEF SubmitFails
<1>9. ASSUME NEW j \in Jobs, ClientExits(j) PROVE SyncInv'
  BY <1>9 DEF ClientExits, ClientEnds
<1>10. ASSUME NEW j \in Jobs, ClientGetsNothing(j) PROVE SyncInv'
  BY <1>10 DEF ClientGetsNothing, ClientEnds
<1>11. ASSUME NEW j \in Jobs, ClientLeaves(j) PROVE SyncInv'
  BY <1>11 DEF ClientLeaves, ClientEnds
<1>12. CASE ParentGone
  BY <1>12 DEF ParentGone
<1>13. CASE IdleTimeout
  BY <1>13 DEF IdleTimeout
<1>14. CASE AcceptRequest
  BY <1>14 DEF AcceptRequest
<1>15. CASE RejectRequest
  BY <1>15 DEF RejectRequest
<1>16. CASE InitComponent
  BY <1>16 DEF InitComponent
<1>17. CASE RunComponent
  BY <1>17 DEF RunComponent
<1>18. CASE JobRaises
  BY <1>18, Raising
<1>19. CASE Deactivate
  BY <1>19 DEF Deactivate
<1>20. CASE ClearSocket
  BY <1>20 DEF ClearSocket
<1>21. CASE Reply
  BY <1>21 DEF Reply
<1>22. CASE ReplyFails
  BY <1>22 DEF ReplyFails
<1>23. CASE SendIdle
  BY <1>23 DEF SendIdle
<1>24. CASE SendIdleFails
  BY <1>24 DEF SendIdleFails
<1>25. CASE CloseJobSync
  BY <1>25 DEF CloseJobSync
<1>26. CASE Expose
  BY <1>26 DEF Expose
<1>27. CASE EnterRecv
  BY <1>27 DEF EnterRecv
<1>28. CASE RecvRaises
  BY <1>28 DEF RecvRaises
<1>29. CASE RecvReturns
  BY <1>29 DEF RecvReturns
<1>30. CASE JobIsOver
  BY <1>30 DEF JobIsOver
<1>31. CASE AbortJob
  BY <1>31 DEF AbortJob
<1>32. CASE JoinRunner
  BY <1>32 DEF JoinRunner
<1>33. CASE CloseComponent
  BY <1>33 DEF CloseComponent
<1>34. CASE CloseParentSocket
  BY <1>34 DEF CloseParentSocket
<1>35. CASE Exit
  BY <1>35 DEF Exit, ProcessGone
<1>36. CASE KilledBySigterm
  BY <1>36 DEF KilledBySigterm, ProcessGone
<1>37. ASSUME NEW s \in {"int", "term"}, SignalWhileWatching(s) PROVE SyncInv'
  BY <1>37 DEF SignalWhileWatching
<1>38. ASSUME NEW s \in {"int", "term"}, SignalWhileJoining(s) PROVE SyncInv'
  BY <1>38 DEF SignalWhileJoining
<1>39. CASE PollIdle
  BY <1>39 DEF PollIdle
<1>40. CASE ServerStops
  BY <1>40 DEF ServerStops
<1>41. CASE ServerJoins
  BY <1>41 DEF ServerJoins
<1>42. CASE ServerDies
  BY <1>42 DEF ServerDies
<1>43. CASE UNCHANGED vars
  BY <1>43 DEF vars
<1>44. CASE CtrlC
  BY <1>44 DEF CtrlC
<1>45. QED
  BY <1>1, <1>2, <1>3, <1>4, <1>5, <1>6, <1>7, <1>8, <1>9, <1>10, <1>11, <1>12, <1>13, <1>14, <1>15, <1>16, <1>17, <1>18, <1>19, <1>20, <1>21, <1>22, <1>23, <1>24, <1>25, <1>26, <1>27, <1>28, <1>29, <1>30, <1>31, <1>32, <1>33, <1>34, <1>35, <1>36, <1>37, <1>38, <1>39, <1>40, <1>41, <1>42, <1>43, <1>44
     DEF Next, RunnerStep, BarrierStep, ComponentStep, WatcherStep, HandleSignal, ServerStep, PollResets,
         ClientAnswered

\* What an abort rests on is inductive.
LEMMA AbortStep ==
    ASSUME NoneRaised', TypeOK, JobInv, SyncInv, AbortInv, [Next]_vars
    PROVE  AbortInv'
<1> USE DEF TypeOK, JobInv, SyncInv, InStep, AbortInv, Inside, Outside, InHand, AtBarrier, Watching, TearDown, RunnerPCs, WatcherPCs, Threads, Barriers, Goto, Move, BreakBarriers, threadVars, processVars, jobVars, serverVars
<1>1. ASSUME NEW t \in Threads, NEW b \in Barriers, ArriveFirst(t, b) PROVE AbortInv'
  BY <1>1 DEF ArriveFirst, Waiting, Passed, Other
<1>2. ASSUME NEW t \in Threads, NEW b \in Barriers, ArriveSecond(t, b) PROVE AbortInv'
  BY <1>2 DEF ArriveSecond, Waiting, Passed, Other
<1>3. ASSUME NEW t \in Threads, NEW b \in Barriers, Wake(t, b) PROVE AbortInv'
  BY <1>3 DEF Wake, Waiting, Passed, Other
<1>4. ASSUME NEW b \in Barriers, RunnerFindsBroken(b) PROVE AbortInv'
  BY <1>4 DEF RunnerFindsBroken, Waiting
<1>5. ASSUME NEW b \in Barriers, WatcherFindsBroken(b) PROVE AbortInv'
  BY <1>5 DEF WatcherFindsBroken, Waiting
<1>6. ASSUME NEW j \in Jobs, TakeJob(j) PROVE AbortInv'
  BY <1>6 DEF TakeJob
<1>7. ASSUME NEW j \in Jobs, Submit(j) PROVE AbortInv'
  BY <1>7 DEF Submit
<1>8. ASSUME NEW j \in Jobs, SubmitFails(j) PROVE AbortInv'
  BY <1>8 DEF SubmitFails
<1>9. ASSUME NEW j \in Jobs, ClientExits(j) PROVE AbortInv'
  BY <1>9 DEF ClientExits, ClientEnds
<1>10. ASSUME NEW j \in Jobs, ClientGetsNothing(j) PROVE AbortInv'
  BY <1>10 DEF ClientGetsNothing, ClientEnds
<1>11. ASSUME NEW j \in Jobs, ClientLeaves(j) PROVE AbortInv'
  BY <1>11 DEF ClientLeaves, ClientEnds
<1>12. CASE ParentGone
  BY <1>12 DEF ParentGone
<1>13. CASE IdleTimeout
  BY <1>13 DEF IdleTimeout
<1>14. CASE AcceptRequest
  BY <1>14 DEF AcceptRequest
<1>15. CASE RejectRequest
  BY <1>15 DEF RejectRequest
<1>16. CASE InitComponent
  BY <1>16 DEF InitComponent
<1>17. CASE RunComponent
  BY <1>17 DEF RunComponent
<1>18. CASE JobRaises
  BY <1>18, Raising
<1>19. CASE Deactivate
  BY <1>19 DEF Deactivate
<1>20. CASE ClearSocket
  BY <1>20 DEF ClearSocket
<1>21. CASE Reply
  BY <1>21 DEF Reply
<1>22. CASE ReplyFails
  BY <1>22 DEF ReplyFails
<1>23. CASE SendIdle
  BY <1>23 DEF SendIdle
<1>24. CASE SendIdleFails
  BY <1>24 DEF SendIdleFails
<1>25. CASE CloseJobSync
  BY <1>25 DEF CloseJobSync
<1>26. CASE Expose
  BY <1>26 DEF Expose
<1>27. CASE EnterRecv
  BY <1>27 DEF EnterRecv
<1>28. CASE RecvRaises
  BY <1>28 DEF RecvRaises
<1>29. CASE RecvReturns
  BY <1>29 DEF RecvReturns
<1>30. CASE JobIsOver
  BY <1>30 DEF JobIsOver
<1>31. CASE AbortJob
  BY <1>31 DEF AbortJob
<1>32. CASE JoinRunner
  BY <1>32 DEF JoinRunner
<1>33. CASE CloseComponent
  BY <1>33 DEF CloseComponent
<1>34. CASE CloseParentSocket
  BY <1>34 DEF CloseParentSocket
<1>35. CASE Exit
  BY <1>35 DEF Exit, ProcessGone
<1>36. CASE KilledBySigterm
  BY <1>36 DEF KilledBySigterm, ProcessGone
<1>37. ASSUME NEW s \in {"int", "term"}, SignalWhileWatching(s) PROVE AbortInv'
  BY <1>37 DEF SignalWhileWatching
<1>38. ASSUME NEW s \in {"int", "term"}, SignalWhileJoining(s) PROVE AbortInv'
  BY <1>38 DEF SignalWhileJoining
<1>39. CASE PollIdle
  BY <1>39 DEF PollIdle
<1>40. CASE ServerStops
  BY <1>40 DEF ServerStops
<1>41. CASE ServerJoins
  BY <1>41 DEF ServerJoins
<1>42. CASE ServerDies
  BY <1>42 DEF ServerDies
<1>43. CASE UNCHANGED vars
  BY <1>43 DEF vars
<1>44. CASE CtrlC
  BY <1>44 DEF CtrlC
<1>45. QED
  BY <1>1, <1>2, <1>3, <1>4, <1>5, <1>6, <1>7, <1>8, <1>9, <1>10, <1>11, <1>12, <1>13, <1>14, <1>15, <1>16, <1>17, <1>18, <1>19, <1>20, <1>21, <1>22, <1>23, <1>24, <1>25, <1>26, <1>27, <1>28, <1>29, <1>30, <1>31, <1>32, <1>33, <1>34, <1>35, <1>36, <1>37, <1>38, <1>39, <1>40, <1>41, <1>42, <1>43, <1>44
     DEF Next, RunnerStep, BarrierStep, ComponentStep, WatcherStep, HandleSignal, ServerStep, PollResets,
         ClientAnswered

\* How the process ends is inductive.
LEMMA EndStep ==
    ASSUME NoneRaised', TypeOK, JobInv, SyncInv, AbortInv, EndInv, [Next]_vars
    PROVE  EndInv'
<1> USE DEF TypeOK, JobInv, SyncInv, InStep, AbortInv, EndInv, Inside, Outside, InHand, AtBarrier, Watching, TearDown, RunnerPCs, WatcherPCs, ParentSocketOpen, Threads, Barriers, Goto, Move, BreakBarriers, threadVars, processVars, jobVars, serverVars
<1>1. ASSUME NEW t \in Threads, NEW b \in Barriers, ArriveFirst(t, b) PROVE EndInv'
  BY <1>1 DEF ArriveFirst, Waiting, Passed, Other
<1>2. ASSUME NEW t \in Threads, NEW b \in Barriers, ArriveSecond(t, b) PROVE EndInv'
  BY <1>2 DEF ArriveSecond, Waiting, Passed, Other
<1>3. ASSUME NEW t \in Threads, NEW b \in Barriers, Wake(t, b) PROVE EndInv'
  BY <1>3 DEF Wake, Waiting, Passed, Other
<1>4. ASSUME NEW b \in Barriers, RunnerFindsBroken(b) PROVE EndInv'
  BY <1>4 DEF RunnerFindsBroken, Waiting
<1>5. ASSUME NEW b \in Barriers, WatcherFindsBroken(b) PROVE EndInv'
  BY <1>5 DEF WatcherFindsBroken, Waiting
<1>6. ASSUME NEW j \in Jobs, TakeJob(j) PROVE EndInv'
  BY <1>6 DEF TakeJob
<1>7. ASSUME NEW j \in Jobs, Submit(j) PROVE EndInv'
  BY <1>7 DEF Submit
<1>8. ASSUME NEW j \in Jobs, SubmitFails(j) PROVE EndInv'
  BY <1>8 DEF SubmitFails
<1>9. ASSUME NEW j \in Jobs, ClientExits(j) PROVE EndInv'
  BY <1>9 DEF ClientExits, ClientEnds
<1>10. ASSUME NEW j \in Jobs, ClientGetsNothing(j) PROVE EndInv'
  BY <1>10 DEF ClientGetsNothing, ClientEnds
<1>11. ASSUME NEW j \in Jobs, ClientLeaves(j) PROVE EndInv'
  BY <1>11 DEF ClientLeaves, ClientEnds
<1>12. CASE ParentGone
  BY <1>12 DEF ParentGone
<1>13. CASE IdleTimeout
  BY <1>13 DEF IdleTimeout
<1>14. CASE AcceptRequest
  BY <1>14 DEF AcceptRequest
<1>15. CASE RejectRequest
  BY <1>15 DEF RejectRequest
<1>16. CASE InitComponent
  BY <1>16 DEF InitComponent
<1>17. CASE RunComponent
  BY <1>17 DEF RunComponent
<1>18. CASE JobRaises
  BY <1>18, Raising
<1>19. CASE Deactivate
  BY <1>19 DEF Deactivate
<1>20. CASE ClearSocket
  BY <1>20 DEF ClearSocket
<1>21. CASE Reply
  BY <1>21 DEF Reply
<1>22. CASE ReplyFails
  BY <1>22 DEF ReplyFails
<1>23. CASE SendIdle
  BY <1>23 DEF SendIdle
<1>24. CASE SendIdleFails
  BY <1>24 DEF SendIdleFails
<1>25. CASE CloseJobSync
  BY <1>25 DEF CloseJobSync
<1>26. CASE Expose
  BY <1>26 DEF Expose
<1>27. CASE EnterRecv
  BY <1>27 DEF EnterRecv
<1>28. CASE RecvRaises
  BY <1>28 DEF RecvRaises
<1>29. CASE RecvReturns
  BY <1>29 DEF RecvReturns
<1>30. CASE JobIsOver
  BY <1>30 DEF JobIsOver
<1>31. CASE AbortJob
  BY <1>31 DEF AbortJob
<1>32. CASE JoinRunner
  BY <1>32 DEF JoinRunner
<1>33. CASE CloseComponent
  BY <1>33 DEF CloseComponent
<1>34. CASE CloseParentSocket
  BY <1>34 DEF CloseParentSocket
<1>35. CASE Exit
  BY <1>35 DEF Exit, ProcessGone
<1>36. CASE KilledBySigterm
  BY <1>36 DEF KilledBySigterm, ProcessGone
<1>37. ASSUME NEW s \in {"int", "term"}, SignalWhileWatching(s) PROVE EndInv'
  <2>1. s \in signals /\ signals # {} /\ server' = server
    BY <1>37 DEF SignalWhileWatching, Raises
  <2>2. signals' # {} => server' # "serving"
    BY <2>1
  <2>3. QED
    BY <1>37, <2>1, <2>2 DEF SignalWhileWatching
<1>38. ASSUME NEW s \in {"int", "term"}, SignalWhileJoining(s) PROVE EndInv'
  <2>1. s \in signals /\ signals # {} /\ server' = server
    BY <1>38 DEF SignalWhileJoining, Raises
  <2>2. signals' # {} => server' # "serving"
    BY <2>1
  <2>3. QED
    BY <1>38, <2>1, <2>2 DEF SignalWhileJoining
<1>39. CASE PollIdle
  BY <1>39 DEF PollIdle
<1>40. CASE ServerStops
  BY <1>40 DEF ServerStops
<1>41. CASE ServerJoins
  BY <1>41 DEF ServerJoins
<1>42. CASE ServerDies
  BY <1>42 DEF ServerDies
<1>43. CASE UNCHANGED vars
  BY <1>43 DEF vars
<1>44. CASE CtrlC
  BY <1>44 DEF CtrlC
<1>45. QED
  BY <1>1, <1>2, <1>3, <1>4, <1>5, <1>6, <1>7, <1>8, <1>9, <1>10, <1>11, <1>12, <1>13, <1>14, <1>15, <1>16, <1>17, <1>18, <1>19, <1>20, <1>21, <1>22, <1>23, <1>24, <1>25, <1>26, <1>27, <1>28, <1>29, <1>30, <1>31, <1>32, <1>33, <1>34, <1>35, <1>36, <1>37, <1>38, <1>39, <1>40, <1>41, <1>42, <1>43, <1>44
     DEF Next, RunnerStep, BarrierStep, ComponentStep, WatcherStep, HandleSignal, ServerStep, PollResets,
         ClientAnswered

\* What a zero byte stands for is inductive.
LEMMA RanStep ==
    ASSUME NoneRaised', ~Interrupted',
           TypeOK, JobInv, SyncInv, AbortInv, EndInv, RanInv, [Next]_vars
    PROVE  RanInv'
<1> USE DEF TypeOK, JobInv, SyncInv, InStep, AbortInv, EndInv, RanInv, Inside, Outside, InHand, AtBarrier, Watching, TearDown, RunnerPCs, WatcherPCs, ParentSocketOpen, Threads, Barriers, Goto, Move, BreakBarriers, threadVars, processVars, jobVars, serverVars
<1>1. ASSUME NEW t \in Threads, NEW b \in Barriers, ArriveFirst(t, b) PROVE RanInv'
  BY <1>1 DEF ArriveFirst, Waiting, Passed, Other
<1>2. ASSUME NEW t \in Threads, NEW b \in Barriers, ArriveSecond(t, b) PROVE RanInv'
  BY <1>2 DEF ArriveSecond, Waiting, Passed, Other
<1>3. ASSUME NEW t \in Threads, NEW b \in Barriers, Wake(t, b) PROVE RanInv'
  BY <1>3 DEF Wake, Waiting, Passed, Other
<1>4. ASSUME NEW b \in Barriers, RunnerFindsBroken(b) PROVE RanInv'
  BY <1>4 DEF RunnerFindsBroken, Waiting
<1>5. ASSUME NEW b \in Barriers, WatcherFindsBroken(b) PROVE RanInv'
  BY <1>5 DEF WatcherFindsBroken, Waiting
<1>6. ASSUME NEW j \in Jobs, TakeJob(j) PROVE RanInv'
  BY <1>6 DEF TakeJob
<1>7. ASSUME NEW j \in Jobs, Submit(j) PROVE RanInv'
  BY <1>7 DEF Submit
<1>8. ASSUME NEW j \in Jobs, SubmitFails(j) PROVE RanInv'
  BY <1>8 DEF SubmitFails
<1>9. ASSUME NEW j \in Jobs, ClientExits(j) PROVE RanInv'
  BY <1>9 DEF ClientExits, ClientEnds
<1>10. ASSUME NEW j \in Jobs, ClientGetsNothing(j) PROVE RanInv'
  BY <1>10 DEF ClientGetsNothing, ClientEnds
<1>11. ASSUME NEW j \in Jobs, ClientLeaves(j) PROVE RanInv'
  BY <1>11 DEF ClientLeaves, ClientEnds
<1>12. CASE ParentGone
  BY <1>12 DEF ParentGone
<1>13. CASE IdleTimeout
  BY <1>13 DEF IdleTimeout
<1>14. CASE AcceptRequest
  BY <1>14 DEF AcceptRequest
<1>15. CASE RejectRequest
  BY <1>15 DEF RejectRequest
<1>16. CASE InitComponent
  BY <1>16 DEF InitComponent
<1>17. CASE RunComponent
  BY <1>17 DEF RunComponent
<1>18. CASE JobRaises
  BY <1>18, Raising
<1>19. CASE Deactivate
  BY <1>19 DEF Deactivate
<1>20. CASE ClearSocket
  BY <1>20 DEF ClearSocket
<1>21. CASE Reply
  BY <1>21 DEF Reply
<1>22. CASE ReplyFails
  BY <1>22 DEF ReplyFails
<1>23. CASE SendIdle
  BY <1>23 DEF SendIdle
<1>24. CASE SendIdleFails
  BY <1>24 DEF SendIdleFails
<1>25. CASE CloseJobSync
  BY <1>25 DEF CloseJobSync
<1>26. CASE Expose
  BY <1>26 DEF Expose
<1>27. CASE EnterRecv
  BY <1>27 DEF EnterRecv
<1>28. CASE RecvRaises
  <2>1. pc["runner"] \in Inside \cup {"beginWait"} /\ watched = clientSocket
    BY <1>28 DEF RecvRaises
  <2>2. clientSocket = job /\ job \in Jobs /\ conn[job] # "closed"
    BY <2>1
  <2>3. FALSE
    BY <1>28, <2>1, <2>2, JobsAssumption DEF RecvRaises
  <2>4. QED
    BY <2>3
<1>29. CASE RecvReturns
  BY <1>29 DEF RecvReturns
<1>30. CASE JobIsOver
  BY <1>30 DEF JobIsOver
<1>31. CASE AbortJob
  BY <1>31 DEF AbortJob
<1>32. CASE JoinRunner
  BY <1>32 DEF JoinRunner
<1>33. CASE CloseComponent
  BY <1>33 DEF CloseComponent
<1>34. CASE CloseParentSocket
  BY <1>34 DEF CloseParentSocket
<1>35. CASE Exit
  BY <1>35 DEF Exit, ProcessGone
<1>36. CASE KilledBySigterm
  BY <1>36 DEF KilledBySigterm, ProcessGone
<1>37. ASSUME NEW s \in {"int", "term"}, SignalWhileWatching(s) PROVE RanInv'
  BY <1>37 DEF SignalWhileWatching, Interrupted
<1>38. ASSUME NEW s \in {"int", "term"}, SignalWhileJoining(s) PROVE RanInv'
  BY <1>38 DEF SignalWhileJoining
<1>39. CASE PollIdle
  BY <1>39 DEF PollIdle
<1>40. CASE ServerStops
  BY <1>40 DEF ServerStops
<1>41. CASE ServerJoins
  BY <1>41 DEF ServerJoins
<1>42. CASE ServerDies
  BY <1>42 DEF ServerDies
<1>43. CASE UNCHANGED vars
  BY <1>43 DEF vars
<1>44. CASE CtrlC
  BY <1>44 DEF CtrlC
<1>45. QED
  BY <1>1, <1>2, <1>3, <1>4, <1>5, <1>6, <1>7, <1>8, <1>9, <1>10, <1>11, <1>12, <1>13, <1>14, <1>15, <1>16, <1>17, <1>18, <1>19, <1>20, <1>21, <1>22, <1>23, <1>24, <1>25, <1>26, <1>27, <1>28, <1>29, <1>30, <1>31, <1>32, <1>33, <1>34, <1>35, <1>36, <1>37, <1>38, <1>39, <1>40, <1>41, <1>42, <1>43, <1>44
     DEF Next, RunnerStep, BarrierStep, ComponentStep, WatcherStep, HandleSignal, ServerStep, PollResets,
         ClientAnswered

-----------------------------------------------------------------------------
(* What holds until a component raises                                      *)

\* The inductive invariant: a component that raises ends what is known of the two
\* threads, and a signal under the watcher's loop ends what a zero byte means.
HarmonyInv ==
    /\ TypeOK /\ JobInv /\ RaiseInv /\ JoinInv
    /\ NoneRaised => /\ SyncInv /\ AbortInv /\ EndInv
                     /\ ~Interrupted => RanInv

LEMMA Harmony == Spec => []HarmonyInv
<1>1. Init => HarmonyInv
  <2> SUFFICES ASSUME Init PROVE HarmonyInv
    OBVIOUS
  <2>1. TypeOK
    BY TypeInitially
  <2>2. JobInv /\ RaiseInv /\ JoinInv
    BY DEF Init, JobInv, RaiseInv, JoinInv, InHand, Threads
  <2>3. SyncInv /\ AbortInv /\ EndInv /\ RanInv
    BY DEF Init, SyncInv, AbortInv, EndInv, RanInv, InStep, InHand, Inside, Outside, Watching,
           AtBarrier, TearDown, Threads, Barriers
  <2>4. QED
    BY <2>1, <2>2, <2>3 DEF HarmonyInv
<1>2. HarmonyInv /\ [Next]_vars => HarmonyInv'
  <2> SUFFICES ASSUME HarmonyInv, [Next]_vars PROVE HarmonyInv'
    OBVIOUS
  <2>1. TypeOK /\ JobInv /\ RaiseInv /\ JoinInv
    BY DEF HarmonyInv
  <2>2. TypeOK' /\ JobInv' /\ RaiseInv' /\ JoinInv'
    BY <2>1, TypeStep, JobStep, RaiseStep, JoinStep
  <2>3. ASSUME NoneRaised' PROVE SyncInv' /\ AbortInv' /\ EndInv'
    <3>1. SyncInv /\ AbortInv /\ EndInv
      BY <2>1, <2>3, RaisedStays DEF HarmonyInv
    <3>2. QED
      BY <2>1, <2>3, <3>1, SyncStep, AbortStep, EndStep
  <2>4. ASSUME NoneRaised', ~Interrupted' PROVE RanInv'
    <3>1. SyncInv /\ AbortInv /\ EndInv /\ RanInv
      BY <2>1, <2>4, RaisedStays, InterruptedStays DEF HarmonyInv
    <3>2. QED
      BY <2>1, <2>4, <3>1, RanStep
  <2>5. QED
    BY <2>2, <2>3, <2>4 DEF HarmonyInv
<1>3. QED
  BY <1>1, <1>2, PTL DEF Spec

\* As long as no component has raised, the watcher is on the socket of the job in
\* the runner's hands, and that job has not been answered.
THEOREM WatcherOnCurrentJob == Spec => [](NoneRaised => WatchesCurrentJob)
<1>1. HarmonyInv => (NoneRaised => WatchesCurrentJob)
  BY DEF HarmonyInv, TypeOK, JobInv, SyncInv, InStep, WatchesCurrentJob, InHand, Inside, Watching,
         AtBarrier
<1>2. QED
  BY <1>1, Harmony, PTL

\* As long as no component has raised, the process gives up a job only when that
\* job's own client has left unanswered.
THEOREM AbortsAreJustified == Spec => [](NoneRaised => AbortJustified)
<1>1. HarmonyInv => (NoneRaised => AbortJustified)
  BY DEF HarmonyInv, AbortInv, AbortJustified
<1>2. QED
  BY <1>1, Harmony, PTL

\* As long as no component has raised, one is closed under a running job only if
\* that job's client left or the server no longer serves.
THEOREM ComponentOutlivesItsJob == Spec => [](NoneRaised => ClosedOnlyUnderAbandonedJob)
<1>1. HarmonyInv => (NoneRaised => ClosedOnlyUnderAbandonedJob)
  BY DEF HarmonyInv, AbortInv, EndInv, ClosedOnlyUnderAbandonedJob, InHand, TearDown
<1>2. QED
  BY <1>1, Harmony, PTL

\* A zero byte for a job that did not run is the doing of a component that raised
\* or of a signal that interrupted the watcher's loop (a Ctrl-C, or the SIGTERM of a
\* server that is pid 1), and of nothing else.
THEOREM FalseZeroIsExplained == Spec => []FalseZeroHasCause
<1>1. HarmonyInv => FalseZeroHasCause
  BY DEF HarmonyInv, RanInv, FalseZeroHasCause
<1>2. QED
  BY <1>1, Harmony, PTL

\* Until a component raises runner and watcher never wait for each other, in every
\* interleaving of the barriers, aborts, signals and clients that leave.
THEOREM ThreadsNeverBlockEachOther == Spec => []NoMutualWait
<1>1. HarmonyInv => NoMutualWait
  <2> SUFFICES ASSUME HarmonyInv, NoneRaised, RunnerWaits, WatcherWaits PROVE FALSE
    BY DEF NoMutualWait
  <2>1. TypeOK /\ JobInv /\ JoinInv /\ SyncInv
    BY DEF HarmonyInv
  <2>2. PICK b \in Barriers : pc["runner"] = Waiting(b) /\ barrier[b] = "filling"
    BY DEF RunnerWaits
  <2>3. pc["watcher"] \in Watching
    BY <2>1, <2>2 DEF WatcherWaits, JoinInv, Watching, AtBarrier, Waiting
  <2>4. InStep
    BY <2>1, <2>2, <2>3 DEF SyncInv, Waiting
  <2>5. CASE b = "begin"
    <3>1. pc["runner"] = "beginWait" /\ barrier["begin"] = "filling"
      BY <2>2, <2>5 DEF Waiting
    <3>2. \/ pc["watcher"] = "begin"
          \/ pc["watcher"] = "endWait" /\ barrier["end"] = "draining"
      BY <2>4, <3>1 DEF InStep, Inside, Outside
    <3>3. QED
      BY <3>1, <3>2 DEF WatcherWaits, Waiting, Barriers
  <2>6. CASE b = "end"
    <3>1. pc["runner"] = "endWait" /\ barrier["end"] = "filling"
      BY <2>2, <2>6 DEF Waiting
    <3>2. CASE pc["watcher"] = "blocked"
      <4>1. watched = clientSocket /\ clientSocket = job /\ conn[job] = "shut"
        BY <2>1, <2>3, <3>1, <3>2 DEF SyncInv, JobInv, InHand
      <4>2. QED
        BY <3>2, <4>1 DEF WatcherWaits, Waiting
    <3>3. CASE pc["watcher"] # "blocked"
      BY <2>3, <2>4, <3>1, <3>3 DEF InStep, Inside, Outside, WatcherWaits, Waiting, Watching,
                                   AtBarrier, Barriers
    <3>4. QED
      BY <3>2, <3>3
  <2>7. QED
    BY <2>5, <2>6 DEF Barriers
<1>2. QED
  BY <1>1, Harmony, PTL

\* With components that never raise, a server that is not pid 1 and no terminal
\* whose Ctrl-C reaches the executor, a client is told of success only if the
\* component completed its job, whoever leaves, dies or times out.
THEOREM ZeroMeansRan ==
    ASSUME Failing = {}, ServerIsInit = FALSE, Terminal = FALSE
    PROVE  Spec => []SuccessMeansRan
<1>1. HarmonyInv /\ SignalInv => SuccessMeansRan
  BY DEF HarmonyInv, SignalInv, Interrupted, RaiseInv, NoneRaised, RanInv, SuccessMeansRan
<1>2. QED
  BY <1>1, Harmony, Signals, PTL

\* With components that never raise the three hold throughout, whatever signals
\* reach the executor's threads.
THEOREM SafeWithoutRaises ==
    ASSUME Failing = {}
    PROVE  Spec => [](WatchesCurrentJob /\ AbortJustified /\ ClosedOnlyUnderAbandonedJob)
<1>1. HarmonyInv => NoneRaised
  BY DEF HarmonyInv, RaiseInv, NoneRaised
<1>2. QED
  BY <1>1, Harmony, WatcherOnCurrentJob, AbortsAreJustified, ComponentOutlivesItsJob, PTL

=============================================================================
