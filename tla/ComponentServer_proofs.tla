----------------------- MODULE ComponentServer_proofs -----------------------
(***************************************************************************)
(* Theorems about ComponentServer, for every set of clients, every bound   *)
(* on the executors and every mode of the server.                          *)
(***************************************************************************)
EXTENDS ComponentServer, FiniteSetTheorems, TLAPS

\* While a request is handled the server has its client, and what it submits to
\* is an executor of the pool that it believes idle.  The pool has only executors
\* that were started.
RequestInv ==
    /\ \A e \in pool : e <= started
    /\ serverPc \in {"handle", "submit"} => request \in Clients
    /\ serverPc = "submit" => target \in pool /\ believedIdle[target]

\* What a step of an executor can be, all of it the executor's own.
ExecutorActs(e) ==
    \/ Contract!TakeJob(e) \/ Contract!Reply(e) \/ Contract!SendIdle(e)
    \/ Contract!StartsToClose(e) \/ Contract!CloseSocket(e) \/ Contract!Exit(e)
    \/ Contract!Terminate(e)

\* The server's variables have no part in what an executor does.
LEMMA ExecutorAlone ==
    ASSUME NEW e \in Executors, ExecutorStep(e) \/ Die(e) \/ IdleTimeout(e)
    PROVE  ExecutorActs(e) /\ UNCHANGED <<serverVars, managerVars>>
<1> USE DEF ExecutorActs
<1>1. CASE TakeJob(e) \/ Reply(e) \/ CloseSocket(e) \/ Exit(e)
  BY <1>1 DEF TakeJob, Reply, CloseSocket, Exit
<1>2. CASE SendIdle(e)
  BY <1>2 DEF SendIdle
<1>3. CASE SendIdleFails(e) \/ Die(e)
  BY <1>3 DEF SendIdleFails, Die, Contract!Die
<1>4. CASE EndOfStream(e) \/ IdleTimeout(e)
  BY <1>4 DEF EndOfStream, IdleTimeout, Contract!Retire
<1>5. CASE Terminate(e)
  BY <1>5 DEF Terminate, Contract!Die
<1>6. QED
  BY <1>1, <1>2, <1>3, <1>4, <1>5 DEF ExecutorStep

\* Every variable keeps its type, which for the executors' sockets rests on what
\* the server has in its hands.
LEMMA TypeStep ==
    ASSUME TypeOK, RequestInv, [Next]_vars
    PROVE  TypeOK'
<1> USE BoundAssumption DEF Executors
<1> USE DEF TypeOK
<1>1. CASE Reap
  BY <1>1 DEF Reap, Contract!ReapAll, Contract!Lose, Contract!handVars, Dead
<1>2. ASSUME NEW how \in {"stopped", "killed"}, ServerFails(how) PROVE TypeOK'
  BY <1>2 DEF ServerFails, RefuseOthers, executorVars
<1>3. CASE ReapCrashes
  BY <1>2, <1>3 DEF ReapCrashes
<1>4. CASE ServerStops
  BY <1>2, <1>4 DEF ServerStops
<1>5. ASSUME NEW c \in Clients, Accept(c) PROVE TypeOK'
  BY <1>5 DEF Accept, managerVars, executorVars
<1>6. CASE ChildExited
  BY <1>6 DEF ChildExited, managerVars, executorVars, clientVars
<1>7. CASE SelectTimesOut
  BY <1>7 DEF SelectTimesOut, managerVars, executorVars, clientVars
<1>8. CASE CloseListener
  BY <1>8 DEF CloseListener, RefuseOthers, managerVars, executorVars
<1>9. CASE ReuseExecutor
  BY <1>9 DEF ReuseExecutor, Idle, clientVars
<1>10. CASE StartExecutor
  BY <1>10 DEF StartExecutor, Contract!Start, clientVars
<1>11. CASE Submit
  <2>1. request \in Clients /\ target \in Executors
    BY <1>11 DEF Submit, RequestInv
  <2>2. inbox' \in [Executors -> SUBSET Clients]
    BY <1>11, <2>1 DEF Submit
  <2>3. givenTo' \in [Clients -> SUBSET Executors]
    BY <1>11, <2>1 DEF Submit
  <2>4. QED
    BY <1>11, <2>1, <2>2, <2>3 DEF Submit
<1>12. CASE SubmitFails
  <2>1. /\ believedIdle' \in [Executors -> BOOLEAN]
        /\ brokenPipe' \in [Executors -> BOOLEAN]
    BY <1>12 DEF SubmitFails
  <2>2. UNCHANGED <<request, pool, started, process, work, inbox, running, idleBytes,
                    client, givenTo>>
    BY <1>12 DEF SubmitFails, executorVars, clientVars
  <2>3. target' = 0 /\ serverPc' = "handle"
    BY <1>12 DEF SubmitFails
  <2>4. QED
    BY <2>1, <2>2, <2>3
<1>13. ASSUME NEW e \in Executors, ExecutorStep(e) \/ Die(e) \/ IdleTimeout(e) PROVE TypeOK'
  <2>1. ExecutorActs(e) /\ UNCHANGED <<serverVars, managerVars>>
    BY <1>13, ExecutorAlone
  <2>2. CASE Contract!TakeJob(e)
    BY <2>1, <2>2 DEF Contract!TakeJob, Contract!Lose, Contract!handVars,
             serverVars, managerVars
  <2>3. CASE Contract!Reply(e)
    BY <2>1, <2>3 DEF Contract!Reply, Contract!Lose, Contract!handVars,
             serverVars, managerVars
  <2>4. CASE Contract!SendIdle(e)
    BY <2>1, <2>4 DEF Contract!SendIdle, Contract!Lose, Contract!handVars,
             serverVars, managerVars
  <2>5. CASE Contract!StartsToClose(e)
    BY <2>1, <2>5 DEF Contract!StartsToClose, Contract!Lose, Contract!handVars,
             serverVars, managerVars
  <2>6. CASE Contract!CloseSocket(e)
    BY <2>1, <2>6 DEF Contract!CloseSocket, Contract!Lose, Contract!handVars,
             serverVars, managerVars
  <2>7. CASE Contract!Exit(e)
    BY <2>1, <2>7 DEF Contract!Exit, Contract!Lose, Contract!handVars,
             serverVars, managerVars
  <2>8. CASE Contract!Terminate(e)
    BY <2>1, <2>8 DEF Contract!Terminate, Contract!Alive, Contract!Lose, Contract!handVars,
             serverVars, managerVars
  <2>9. QED
    BY <2>1, <2>2, <2>3, <2>4, <2>5, <2>6, <2>7, <2>8 DEF ExecutorActs
<1>14. CASE ServerKilled
  BY <1>2, <1>14 DEF ServerKilled
<1>15. CASE JoinAtExit
  BY <1>15 DEF JoinAtExit, Contract!ReapAll, Contract!Lose, Contract!handVars,
             serverVars, managerVars
<1>16. ASSUME NEW c \in Clients, Connect(c) PROVE TypeOK'
  BY <1>16 DEF Connect, serverVars, managerVars, executorVars
<1>17. CASE UNCHANGED vars
  BY <1>17 DEF vars, serverVars, managerVars, executorVars, clientVars
<1>18. QED
  BY <1>1, <1>3, <1>4, <1>5, <1>6, <1>7, <1>8, <1>9, <1>10, <1>11, <1>12, <1>13, <1>14,
     <1>15, <1>16, <1>17
     DEF Next, ServerStep, PollResets

\* The request invariant is inductive.
LEMMA RequestStep ==
    ASSUME TypeOK, RequestInv, [Next]_vars
    PROVE  RequestInv'
<1> USE BoundAssumption DEF Executors, TypeOK, RequestInv
<1>1. CASE Reap
  BY <1>1 DEF Reap, Contract!ReapAll, Contract!Lose, Contract!handVars
<1>2. ASSUME NEW how \in {"stopped", "killed"}, ServerFails(how) PROVE RequestInv'
  BY <1>2 DEF ServerFails, executorVars
<1>3. CASE ReapCrashes
  BY <1>2, <1>3 DEF ReapCrashes
<1>4. CASE ServerStops
  BY <1>2, <1>4 DEF ServerStops
<1>5. ASSUME NEW c \in Clients, Accept(c) PROVE RequestInv'
  BY <1>5 DEF Accept, managerVars, executorVars
<1>6. CASE ChildExited
  BY <1>6 DEF ChildExited, managerVars, executorVars, clientVars
<1>7. CASE SelectTimesOut
  BY <1>7 DEF SelectTimesOut, managerVars, executorVars, clientVars
<1>8. CASE CloseListener
  BY <1>8 DEF CloseListener, managerVars, executorVars
<1>9. CASE ReuseExecutor
  BY <1>9 DEF ReuseExecutor, Idle, clientVars
<1>10. CASE StartExecutor
  BY <1>10 DEF StartExecutor, Contract!Start, clientVars
<1>11. CASE Submit
  BY <1>11 DEF Submit
<1>12. CASE SubmitFails
  BY <1>12 DEF SubmitFails, executorVars, clientVars
<1>13. ASSUME NEW e \in Executors, ExecutorStep(e) \/ Die(e) \/ IdleTimeout(e) PROVE RequestInv'
  <2>1. ExecutorActs(e) /\ UNCHANGED <<serverVars, managerVars>>
    BY <1>13, ExecutorAlone
  <2>2. QED
    BY <2>1 DEF serverVars, managerVars
<1>14. CASE ServerKilled
  BY <1>2, <1>14 DEF ServerKilled
<1>15. CASE JoinAtExit
  BY <1>15 DEF JoinAtExit, Contract!ReapAll, Contract!Lose, Contract!handVars,
             serverVars, managerVars
<1>16. ASSUME NEW c \in Clients, Connect(c) PROVE RequestInv'
  BY <1>16 DEF Connect, serverVars, managerVars
<1>17. CASE UNCHANGED vars
  BY <1>17 DEF vars, serverVars, managerVars
<1>18. QED
  BY <1>1, <1>3, <1>4, <1>5, <1>6, <1>7, <1>8, <1>9, <1>10, <1>11, <1>12, <1>13, <1>14,
     <1>15, <1>16, <1>17
     DEF Next, ServerStep, PollResets

\* The two together are inductive.
LEMMA TypeAndRequest == Spec => [](TypeOK /\ RequestInv)
<1>1. Init => TypeOK /\ RequestInv
  BY BoundAssumption DEF Init, TypeOK, RequestInv, Executors
<1>2. TypeOK /\ RequestInv /\ [Next]_vars => (TypeOK /\ RequestInv)'
  BY TypeStep, RequestStep
<1>3. QED
  BY <1>1, <1>2, PTL DEF Spec

\* Every variable of the server and its executors keeps its type.
THEOREM TypeCorrect == Spec => []TypeOK
BY TypeAndRequest, PTL

\* One executor has one thing in its hands or none: the idle byte, a client in
\* its socket, a job at work, or the server's belief that it is idle.
TokenAt(e) ==
    /\ Contract!SocketOpen(e) /\ believedIdle[e] =>
           inbox[e] = {} /\ work[e] = "free" /\ idleBytes[e] = 0
    /\ Contract!SocketOpen(e) /\ idleBytes[e] # 0 =>
           inbox[e] = {} /\ work[e] = "free" /\ idleBytes[e] = 1
    /\ inbox[e] # {} => work[e] = "free" /\ \E c \in Clients : inbox[e] = {c}
    /\ e > started => /\ process[e] = "none" /\ work[e] = "free"
                      /\ inbox[e] = {} /\ idleBytes[e] = 0
TokenInv == \A e \in Executors : TokenAt(e)

\* Only the client in the server's hands is accepted, and a client has been given
\* to nobody as long as it is waiting for the server.
DeliveryInv ==
    /\ \A c \in Clients :
           client[c] = "accepted" <=> serverPc \in {"handle", "submit"} /\ request = c
    /\ \A c \in Clients : client[c] \in {"away", "backlog", "accepted"} => givenTo[c] = {}
    /\ \A c \in Clients : client[c] = "given" => givenTo[c] # {}
    /\ \A c \in Clients : givenTo[c] = {} \/ \E e \in Executors : givenTo[c] = {e}
    /\ \A e \in Executors : \A c \in inbox[e] : givenTo[c] = {e}
    /\ \A e \in Executors :
           work[e] # "free" => running[e] \in Clients /\ givenTo[running[e]] = {e}

Live == {"up", "closing", "closed"}

\* Executors leave the pool dead, and each one that lives is in it.
PoolInv ==
    /\ \A e \in Executors : /\ \/ process[e] \in {"none", "reaped"} \/ e \in pool
                               \/ serverPc \in {"stopped", "killed"}
                            /\ process[e] = "none" <=> e > started
                            /\ brokenPipe[e] => ~Contract!SocketOpen(e) /\ e <= started
    /\ serverPc \in {"selectTimed", "closing", "timedOut"} => pool = {}

\* A client that was given away and has no outcome yet is with the executor it was
\* given to, which lives, and the clients of an executor that lives are such.
CustodyAt(e, c) ==
    client[c] = "given" /\ givenTo[c] = {e} <=>
        \/ Contract!SocketOpen(e) /\ c \in inbox[e]
        \/ process[e] \in Live /\ work[e] = "busy" /\ running[e] = c
CustodyInv == \A e \in Executors : \A c \in Clients : CustodyAt(e, c)

\* The token invariant is inductive.
LEMMA TokenStep ==
    ASSUME TypeOK, RequestInv, TokenInv, [Next]_vars
    PROVE  TokenInv'
<1> USE BoundAssumption, ClientsAssumption
        DEF Executors, TypeOK, RequestInv, TokenInv, Contract!SocketOpen
<1>1. CASE Reap
  BY <1>1 DEF Reap, Contract!ReapAll, Contract!Lose, Contract!handVars,
              Dead, IsAlive, Contract!Exited, TokenAt
<1>2. ASSUME NEW how \in {"stopped", "killed"}, ServerFails(how) PROVE TokenInv'
  BY <1>2 DEF ServerFails, RefuseOthers, executorVars, TokenAt
<1>3. CASE ReapCrashes
  BY <1>2, <1>3 DEF ReapCrashes
<1>4. CASE ServerStops
  BY <1>2, <1>4 DEF ServerStops
<1>5. ASSUME NEW c \in Clients, Accept(c) PROVE TokenInv'
  BY <1>5 DEF Accept, Backlog, managerVars, executorVars, TokenAt
<1>6. CASE ChildExited
  BY <1>6 DEF ChildExited, managerVars, executorVars, clientVars, TokenAt
<1>7. CASE SelectTimesOut
  BY <1>7 DEF SelectTimesOut, managerVars, executorVars, clientVars, TokenAt
<1>8. CASE CloseListener
  BY <1>8 DEF CloseListener, RefuseOthers, managerVars, executorVars, TokenAt
<1>9. CASE ReuseExecutor
  <2>1. PICK e \in Idle :
           /\ idleBytes' = [idleBytes EXCEPT ![e] =
                               IF ~believedIdle[e] /\ @ > 0 THEN @ - 1 ELSE @]
           /\ believedIdle' = [believedIdle EXCEPT ![e] = TRUE]
    BY <1>9 DEF ReuseExecutor
  <2>2. e \in Executors /\ IsIdle(e)
    BY <2>1 DEF Idle
  <2>3. UNCHANGED <<started, process, work, inbox>>
    BY <1>9 DEF ReuseExecutor
  <2>4. ASSUME NEW f \in Executors PROVE TokenAt(f)'
    <3>1. TokenAt(f) /\ TokenAt(e)
      BY <2>2
    <3>2. CASE f # e
      BY <2>1, <2>2, <2>3, <3>1, <3>2 DEF TokenAt
    <3>3. CASE f = e
      BY <2>1, <2>2, <2>3, <3>1, <3>3 DEF TokenAt, IsIdle
    <3>4. QED
      BY <3>2, <3>3
  <2>5. QED
    BY <2>4
<1>10. CASE StartExecutor
  BY <1>10 DEF StartExecutor, Contract!Start, clientVars, TokenAt
<1>11. CASE Submit
  BY <1>11 DEF Submit, TokenAt
<1>12. CASE SubmitFails
  BY <1>12 DEF SubmitFails, executorVars, clientVars, TokenAt
<1>13. ASSUME NEW e \in Executors, ExecutorStep(e) \/ Die(e) \/ IdleTimeout(e) PROVE TokenInv'
  <2>1. ExecutorActs(e) /\ UNCHANGED <<serverVars, managerVars>>
    BY <1>13, ExecutorAlone
  <2>2. CASE Contract!TakeJob(e)
    <3>1. PICK c \in inbox[e] :
             /\ running' = [running EXCEPT ![e] = c]
             /\ inbox' = [inbox EXCEPT ![e] = @ \ {c}]
      BY <2>2 DEF Contract!TakeJob
    <3>2. /\ work[e] = "free" /\ work' = [work EXCEPT ![e] = "busy"]
          /\ UNCHANGED <<started, believedIdle, process, idleBytes>>
      BY <2>1, <2>2 DEF Contract!TakeJob, managerVars
    <3>3. ASSUME NEW f \in Executors PROVE TokenAt(f)'
      <4>1. TokenAt(f) /\ TokenAt(e)
        OBVIOUS
      <4>2. CASE f # e
        BY <3>1, <3>2, <4>1, <4>2 DEF TokenAt
      <4>3. CASE f = e
        BY <2>2, <3>1, <3>2, <4>1, <4>3 DEF TokenAt, Contract!TakeJob
      <4>4. QED
        BY <4>2, <4>3
    <3>4. QED
      BY <3>3
  <2>3. CASE Contract!Reply(e)
    BY <2>1, <2>3 DEF Contract!Reply, TokenAt, Contract!Lose, Contract!handVars,
             serverVars, managerVars
  <2>4. CASE Contract!SendIdle(e)
    BY <2>1, <2>4 DEF Contract!SendIdle, TokenAt, Contract!Lose, Contract!handVars,
             serverVars, managerVars
  <2>5. CASE Contract!StartsToClose(e)
    BY <2>1, <2>5 DEF Contract!StartsToClose, TokenAt, Contract!Lose, Contract!handVars,
             serverVars, managerVars
  <2>6. CASE Contract!CloseSocket(e)
    BY <2>1, <2>6 DEF Contract!CloseSocket, TokenAt, Contract!Lose, Contract!handVars,
             serverVars, managerVars
  <2>7. CASE Contract!Exit(e)
    BY <2>1, <2>7 DEF Contract!Exit, TokenAt, Contract!Lose, Contract!handVars,
             serverVars, managerVars
  <2>8. CASE Contract!Terminate(e)
    BY <2>1, <2>8 DEF Contract!Terminate, Contract!Alive, TokenAt, Contract!Lose, Contract!handVars,
             serverVars, managerVars
  <2>9. QED
    BY <2>1, <2>2, <2>3, <2>4, <2>5, <2>6, <2>7, <2>8 DEF ExecutorActs
<1>14. CASE ServerKilled
  BY <1>2, <1>14 DEF ServerKilled
<1>15. CASE JoinAtExit
  BY <1>15 DEF JoinAtExit, Contract!ReapAll, Contract!Lose, Contract!handVars,
             serverVars, managerVars, TokenAt
<1>16. ASSUME NEW c \in Clients, Connect(c) PROVE TokenInv'
  BY <1>16 DEF Connect, serverVars, managerVars, executorVars, TokenAt
<1>17. CASE UNCHANGED vars
  BY <1>17 DEF vars, serverVars, managerVars, executorVars, clientVars, TokenAt
<1>18. QED
  BY <1>1, <1>3, <1>4, <1>5, <1>6, <1>7, <1>8, <1>9, <1>10, <1>11, <1>12, <1>13, <1>14,
     <1>15, <1>16, <1>17
     DEF Next, ServerStep, PollResets

\* A client is only given to an executor that has nothing else in its socket or
\* in its hands: _find_idle_process, is_idle and the idle byte keep a second job
\* out of every executor of the pool.
THEOREM OneJobForEach == Spec => []OneJobEach
<1>1. Init => TokenInv
  BY BoundAssumption DEF Init, TokenInv, TokenAt, Executors, Contract!SocketOpen
<1>2. TypeOK /\ RequestInv /\ TokenInv /\ [Next]_vars => TokenInv'
  BY TokenStep
<1>3. TokenInv => OneJobEach
  <2> SUFFICES ASSUME TokenInv, NEW e \in Executors, inbox[e] # {}
               PROVE  Cardinality(inbox[e]) = 1 /\ work[e] = "free"
    BY DEF OneJobEach
  <2>1. PICK c \in Clients : inbox[e] = {c}
    BY DEF TokenInv, TokenAt
  <2>2. QED
    BY <2>1, FS_Singleton DEF TokenInv, TokenAt
<1>4. QED
  BY <1>1, <1>2, <1>3, TypeAndRequest, PTL DEF Spec

\* The delivery invariant is inductive.
LEMMA DeliveryStep ==
    ASSUME TypeOK, RequestInv, DeliveryInv, [Next]_vars
    PROVE  DeliveryInv'
<1> USE BoundAssumption, ClientsAssumption
        DEF Executors, TypeOK, RequestInv, DeliveryInv, Contract!SocketOpen
<1>1. CASE Reap
  BY <1>1 DEF Reap, Contract!ReapAll, Contract!Lose, Contract!handVars,
              Dead, IsAlive, Contract!Exited
<1>2. ASSUME NEW how \in {"stopped", "killed"}, ServerFails(how) PROVE DeliveryInv'
  BY <1>2 DEF ServerFails, RefuseOthers, executorVars
<1>3. CASE ReapCrashes
  BY <1>2, <1>3 DEF ReapCrashes
<1>4. CASE ServerStops
  BY <1>2, <1>4 DEF ServerStops
<1>5. ASSUME NEW c \in Clients, Accept(c) PROVE DeliveryInv'
  BY <1>5 DEF Accept, Backlog, managerVars, executorVars
<1>6. CASE ChildExited
  BY <1>6 DEF ChildExited, managerVars, executorVars, clientVars
<1>7. CASE SelectTimesOut
  BY <1>7 DEF SelectTimesOut, managerVars, executorVars, clientVars
<1>8. CASE CloseListener
  BY <1>8 DEF CloseListener, RefuseOthers, managerVars, executorVars
<1>9. CASE ReuseExecutor
  <2>1. /\ serverPc = "handle" /\ serverPc' = "submit"
        /\ UNCHANGED <<request, work, inbox, running, client, givenTo>>
    BY <1>9 DEF ReuseExecutor, clientVars
  <2>2. QED
    BY <2>1
<1>10. CASE StartExecutor
  BY <1>10 DEF StartExecutor, Contract!Start, clientVars
<1>11. CASE Submit
  <2>1. /\ request \in Clients /\ client[request] = "accepted" /\ givenTo[request] = {}
        /\ target \in Executors
    BY <1>11 DEF Submit
  <2>2. /\ client' = [client EXCEPT ![request] = "given"]
        /\ givenTo' = [givenTo EXCEPT ![request] = {target}]
        /\ inbox' = [inbox EXCEPT ![target] = @ \cup {request}]
        /\ serverPc' = "reap"
        /\ UNCHANGED <<work, running>>
    BY <1>11, <2>1 DEF Submit
  <2>3. \A c \in Clients : client'[c] # "accepted"
    BY <1>11, <2>1, <2>2 DEF Submit
  <2>4. \A c \in Clients : /\ client'[c] \in {"away", "backlog", "accepted"} => givenTo'[c] = {}
                           /\ client'[c] = "given" => givenTo'[c] # {}
                           /\ givenTo'[c] = {} \/ \E e \in Executors : givenTo'[c] = {e}
    BY <2>1, <2>2
  <2>5. \A e \in Executors : \A c \in inbox'[e] : givenTo'[c] = {e}
    <3> SUFFICES ASSUME NEW e \in Executors, NEW c \in inbox'[e]
                 PROVE  givenTo'[c] = {e}
      OBVIOUS
    <3>1. CASE c \in inbox[e]
      <4>1. c \in Clients /\ givenTo[c] = {e}
        BY <3>1
      <4>2. QED
        BY <2>1, <2>2, <4>1
    <3>2. CASE c \notin inbox[e]
      <4>1. e = target /\ c = request
        BY <2>1, <2>2, <3>2
      <4>2. QED
        BY <2>1, <2>2, <4>1
    <3>3. QED
      BY <3>1, <3>2
  <2>6. \A e \in Executors :
           work'[e] # "free" => running'[e] \in Clients /\ givenTo'[running'[e]] = {e}
    <3> SUFFICES ASSUME NEW e \in Executors, work'[e] # "free"
                 PROVE  running'[e] \in Clients /\ givenTo'[running'[e]] = {e}
      OBVIOUS
    <3>1. running[e] \in Clients /\ givenTo[running[e]] = {e} /\ running'[e] = running[e]
      BY <2>2
    <3>2. running[e] # request
      BY <2>1, <3>1
    <3>3. QED
      BY <2>1, <2>2, <3>1, <3>2
  <2>7. QED
    BY <2>2, <2>3, <2>4, <2>5, <2>6
<1>12. CASE SubmitFails
  BY <1>12 DEF SubmitFails, executorVars, clientVars
<1>13. ASSUME NEW e \in Executors, ExecutorStep(e) \/ Die(e) \/ IdleTimeout(e) PROVE DeliveryInv'
  <2>1. ExecutorActs(e) /\ UNCHANGED <<serverVars, managerVars>>
    BY <1>13, ExecutorAlone
  <2>2. CASE Contract!TakeJob(e)
    <3>1. PICK c \in inbox[e] :
             /\ running' = [running EXCEPT ![e] = c]
             /\ inbox' = [inbox EXCEPT ![e] = @ \ {c}]
      BY <2>2 DEF Contract!TakeJob
    <3>2. /\ work' = [work EXCEPT ![e] = "busy"]
          /\ UNCHANGED <<serverPc, request, client, givenTo>>
      BY <2>1, <2>2 DEF Contract!TakeJob, serverVars
    <3>3. c \in Clients /\ givenTo[c] = {e}
      OBVIOUS
    <3>4. \A f \in Executors : \A d \in inbox'[f] : givenTo'[d] = {f}
      BY <3>1, <3>2
    <3>5. \A f \in Executors :
             work'[f] # "free" => running'[f] \in Clients /\ givenTo'[running'[f]] = {f}
      BY <3>1, <3>2, <3>3
    <3>6. QED
      BY <3>2, <3>4, <3>5
  <2>3. CASE Contract!Reply(e)
    <3>1. running[e] \in Clients /\ givenTo[running[e]] = {e}
      BY <2>3 DEF Contract!Reply
    <3>2. /\ client' = [client EXCEPT ![running[e]] = "answered"]
          /\ work' = [work EXCEPT ![e] = "replied"] /\ work[e] = "busy"
          /\ UNCHANGED <<serverPc, request, givenTo, inbox, running>>
      BY <2>1, <2>3 DEF Contract!Reply, serverVars
    <3>3. client[running[e]] # "accepted"
      BY <3>1
    <3>4. \A d \in Clients : /\ client'[d] = "accepted" <=> client[d] = "accepted"
                             /\ client'[d] \in {"away", "backlog", "accepted", "given"} =>
                                    client'[d] = client[d]
      BY <3>1, <3>2, <3>3
    <3>5. \A f \in Executors : work'[f] # "free" => work[f] # "free"
      BY <3>2
    <3>6. \A f \in Executors :
             work'[f] # "free" => running'[f] \in Clients /\ givenTo'[running'[f]] = {f}
      BY <3>2, <3>5
    <3>7. \A f \in Executors : \A d \in inbox'[f] : givenTo'[d] = {f}
      BY <3>2
    <3>8. \A d \in Clients :
             client'[d] = "accepted" <=> serverPc' \in {"handle", "submit"} /\ request' = d
      BY <3>2, <3>4
    <3>9. \A d \in Clients :
             /\ client'[d] \in {"away", "backlog", "accepted"} => givenTo'[d] = {}
             /\ client'[d] = "given" => givenTo'[d] # {}
             /\ givenTo'[d] = {} \/ \E f \in Executors : givenTo'[d] = {f}
      BY <3>2, <3>4
    <3>10. QED
      BY <3>6, <3>7, <3>8, <3>9 DEF DeliveryInv
  <2>4. CASE Contract!SendIdle(e)
    BY <2>1, <2>4 DEF Contract!SendIdle, Contract!Lose, Contract!handVars,
             serverVars, managerVars
  <2>5. CASE Contract!StartsToClose(e)
    BY <2>1, <2>5 DEF Contract!StartsToClose, Contract!Lose, Contract!handVars,
             serverVars, managerVars
  <2>6. CASE Contract!CloseSocket(e)
    <3>1. \A c \in Clients : client'[c] # client[c] => client'[c] = "lost" /\ givenTo[c] = {e}
      BY <2>6 DEF Contract!CloseSocket, Contract!Lose, Contract!HeldBy
    <3>2. \A d \in Clients : /\ client'[d] = "accepted" <=> client[d] = "accepted"
                             /\ client'[d] \in {"away", "backlog", "accepted", "given"} =>
                                    client'[d] = client[d]
      BY <3>1
    <3>3. /\ UNCHANGED <<serverPc, request, givenTo, work, running>>
          /\ \A f \in Executors : inbox'[f] \subseteq inbox[f]
      BY <2>1, <2>6 DEF Contract!CloseSocket, Contract!handVars, serverVars
    <3>4. QED
      BY <3>2, <3>3
  <2>7. CASE Contract!Exit(e)
    <3>1. \A c \in Clients : client'[c] # client[c] => client'[c] = "lost" /\ givenTo[c] = {e}
      BY <2>7 DEF Contract!Exit, Contract!Lose, Contract!HeldBy
    <3>2. \A d \in Clients : /\ client'[d] = "accepted" <=> client[d] = "accepted"
                             /\ client'[d] \in {"away", "backlog", "accepted", "given"} =>
                                    client'[d] = client[d]
      BY <3>1
    <3>3. /\ UNCHANGED <<serverPc, request, givenTo, work, running>>
          /\ \A f \in Executors : inbox'[f] \subseteq inbox[f]
      BY <2>1, <2>7 DEF Contract!Exit, Contract!handVars, serverVars
    <3>4. QED
      BY <3>2, <3>3
  <2>8. CASE Contract!Terminate(e)
    <3>1. \A c \in Clients : client'[c] # client[c] => client'[c] = "lost" /\ givenTo[c] = {e}
      BY <2>8 DEF Contract!Terminate, Contract!Lose, Contract!HeldBy
    <3>2. \A d \in Clients : /\ client'[d] = "accepted" <=> client[d] = "accepted"
                             /\ client'[d] \in {"away", "backlog", "accepted", "given"} =>
                                    client'[d] = client[d]
      BY <3>1
    <3>3. /\ UNCHANGED <<serverPc, request, givenTo, work, running>>
          /\ \A f \in Executors : inbox'[f] \subseteq inbox[f]
      BY <2>1, <2>8 DEF Contract!Terminate, Contract!handVars, serverVars
    <3>4. QED
      BY <3>2, <3>3
  <2>9. QED
    BY <2>1, <2>2, <2>3, <2>4, <2>5, <2>6, <2>7, <2>8 DEF ExecutorActs
<1>14. CASE ServerKilled
  BY <1>2, <1>14 DEF ServerKilled
<1>15. CASE JoinAtExit
  BY <1>15 DEF JoinAtExit, Contract!ReapAll, Contract!Lose, Contract!handVars,
             serverVars, managerVars
<1>16. ASSUME NEW c \in Clients, Connect(c) PROVE DeliveryInv'
  BY <1>16 DEF Connect, serverVars, managerVars, executorVars
<1>17. CASE UNCHANGED vars
  BY <1>17 DEF vars, serverVars, managerVars, executorVars, clientVars
<1>18. QED
  BY <1>1, <1>3, <1>4, <1>5, <1>6, <1>7, <1>8, <1>9, <1>10, <1>11, <1>12, <1>13, <1>14,
     <1>15, <1>16, <1>17
     DEF Next, ServerStep, PollResets

\* The server gives a client to one executor at most: TryAgain resubmits only
\* what nobody received.
THEOREM GivenToOne == Spec => []DeliveredOnce
<1>1. Init => DeliveryInv
  BY BoundAssumption DEF Init, DeliveryInv, Executors
<1>2. TypeOK /\ RequestInv /\ DeliveryInv /\ [Next]_vars => DeliveryInv'
  BY DeliveryStep
<1>3. DeliveryInv => DeliveredOnce
  <2> SUFFICES ASSUME DeliveryInv, NEW c \in Clients
               PROVE  Cardinality(givenTo[c]) <= 1
    BY DEF DeliveredOnce
  <2>1. givenTo[c] = {} \/ \E e \in Executors : givenTo[c] = {e}
    BY DEF DeliveryInv
  <2>2. CASE givenTo[c] = {}
    BY <2>2, FS_EmptySet
  <2>3. ASSUME NEW e \in Executors, givenTo[c] = {e} PROVE Cardinality(givenTo[c]) <= 1
    <3>1. Cardinality({e}) = 1
      BY FS_Singleton
    <3>2. QED
      BY <2>3, <3>1
  <2>4. QED
    BY <2>1, <2>2, <2>3
<1>4. QED
  BY <1>1, <1>2, <1>3, TypeAndRequest, PTL DEF Spec

\* The pool invariant is inductive.
LEMMA PoolStep ==
    ASSUME TypeOK, RequestInv, PoolInv, [Next]_vars
    PROVE  PoolInv'
<1> USE BoundAssumption, ClientsAssumption
        DEF Executors, TypeOK, RequestInv, PoolInv, Contract!SocketOpen
<1>1. CASE Reap
  <2>1. /\ pool' = pool \ Dead
        /\ process' = [e \in Executors |-> IF e \in Dead THEN "reaped" ELSE process[e]]
        /\ serverPc = "reap"
        /\ serverPc' = IF MayExitIdle(pool') THEN "selectTimed" ELSE "select"
        /\ UNCHANGED <<started, brokenPipe>>
    BY <1>1 DEF Reap, Contract!ReapAll
  <2>2. Dead \subseteq pool
    BY DEF Dead
  <2>3. serverPc' = "selectTimed" => pool' = {}
    BY <2>1 DEF MayExitIdle
  <2>4. QED
    BY <2>1, <2>2, <2>3
<1>2. ASSUME NEW how \in {"stopped", "killed"}, ServerFails(how) PROVE PoolInv'
  BY <1>2 DEF ServerFails, RefuseOthers, executorVars
<1>3. CASE ReapCrashes
  BY <1>2, <1>3 DEF ReapCrashes
<1>4. CASE ServerStops
  BY <1>2, <1>4 DEF ServerStops
<1>5. ASSUME NEW c \in Clients, Accept(c) PROVE PoolInv'
  BY <1>5 DEF Accept, Backlog, managerVars, executorVars
<1>6. CASE ChildExited
  BY <1>6 DEF ChildExited, managerVars, executorVars, clientVars
<1>7. CASE SelectTimesOut
  BY <1>7 DEF SelectTimesOut, managerVars, executorVars, clientVars
<1>8. CASE CloseListener
  BY <1>8 DEF CloseListener, RefuseOthers, managerVars, executorVars
<1>9. CASE ReuseExecutor
  BY <1>9 DEF ReuseExecutor, Idle, IsAlive, Contract!Exited, IsIdle, clientVars
<1>10. CASE StartExecutor
  <2>1. /\ started' = started + 1 /\ started' \in Executors
        /\ pool' = pool \cup {started + 1}
        /\ process' = [process EXCEPT ![started + 1] = "up"]
        /\ serverPc = "handle" /\ serverPc' = "submit"
        /\ UNCHANGED brokenPipe
    BY <1>10 DEF StartExecutor
  <2>2. ~brokenPipe[started + 1]
    BY <2>1, <1>10 DEF StartExecutor
  <2>3. QED
    BY <2>1, <2>2
<1>11. CASE Submit
  BY <1>11 DEF Submit
<1>12. CASE SubmitFails
  BY <1>12 DEF SubmitFails, executorVars, clientVars
<1>13. ASSUME NEW e \in Executors, ExecutorStep(e) \/ Die(e) \/ IdleTimeout(e) PROVE PoolInv'
  <2>1. ExecutorActs(e) /\ UNCHANGED <<serverVars, managerVars>>
    BY <1>13, ExecutorAlone
  <2>2. CASE Contract!TakeJob(e)
    BY <2>1, <2>2 DEF Contract!TakeJob, Contract!Lose, Contract!handVars,
             serverVars, managerVars
  <2>3. CASE Contract!Reply(e)
    BY <2>1, <2>3 DEF Contract!Reply, Contract!Lose, Contract!handVars,
             serverVars, managerVars
  <2>4. CASE Contract!SendIdle(e)
    BY <2>1, <2>4 DEF Contract!SendIdle, Contract!Lose, Contract!handVars,
             serverVars, managerVars
  <2>5. CASE Contract!StartsToClose(e)
    BY <2>1, <2>5 DEF Contract!StartsToClose, Contract!Lose, Contract!handVars,
             serverVars, managerVars
  <2>6. CASE Contract!CloseSocket(e)
    BY <2>1, <2>6 DEF Contract!CloseSocket, Contract!Lose, Contract!handVars,
             serverVars, managerVars
  <2>7. CASE Contract!Exit(e)
    BY <2>1, <2>7 DEF Contract!Exit, Contract!Lose, Contract!handVars,
             serverVars, managerVars
  <2>8. CASE Contract!Terminate(e)
    BY <2>1, <2>8 DEF Contract!Terminate, Contract!Alive, Contract!Lose, Contract!handVars,
             serverVars, managerVars
  <2>9. QED
    BY <2>1, <2>2, <2>3, <2>4, <2>5, <2>6, <2>7, <2>8 DEF ExecutorActs
<1>14. CASE ServerKilled
  BY <1>2, <1>14 DEF ServerKilled
<1>15. CASE JoinAtExit
  BY <1>15 DEF JoinAtExit, Contract!ReapAll, Contract!Lose, Contract!handVars,
             serverVars, managerVars
<1>16. ASSUME NEW c \in Clients, Connect(c) PROVE PoolInv'
  BY <1>16 DEF Connect, serverVars, managerVars, executorVars
<1>17. CASE UNCHANGED vars
  BY <1>17 DEF vars, serverVars, managerVars, executorVars, clientVars
<1>18. QED
  BY <1>1, <1>3, <1>4, <1>5, <1>6, <1>7, <1>8, <1>9, <1>10, <1>11, <1>12, <1>13, <1>14,
     <1>15, <1>16, <1>17
     DEF Next, ServerStep, PollResets

\* An executor has no hold of a client that was given to nobody or to another.
LEMMA NotHeld ==
    ASSUME DeliveryInv, NEW e \in Executors, NEW c \in Clients, givenTo[c] # {e}
    PROVE  c \notin inbox[e] /\ ~(work[e] # "free" /\ running[e] = c)
<1>1. c \notin inbox[e]
  BY DEF DeliveryInv
<1>2. work[e] # "free" => running[e] # c
  BY DEF DeliveryInv
<1>3. QED
  BY <1>1, <1>2

\* Custody ends for the executors that are reaped and stays for the others.
LEMMA Reaped ==
    ASSUME TypeOK, DeliveryInv, CustodyInv, NEW S \in SUBSET Executors, Contract!ReapAll(S)
    PROVE  CustodyInv'
<1> USE DEF TypeOK, DeliveryInv, CustodyInv, Contract!SocketOpen, Live
<1>1. /\ process' = [e \in Executors |-> IF e \in S THEN "reaped" ELSE process[e]]
      /\ client' = [c \in Clients |->
                       IF c \in {Contract!HeldBy(e) : e \in S} THEN "lost" ELSE client[c]]
      /\ UNCHANGED <<work, inbox, running, givenTo>>
  BY DEF Contract!ReapAll, Contract!Lose, Contract!handVars
<1>2. \A e \in S : ~Contract!SocketOpen(e)
  BY DEF Contract!ReapAll
<1>3. ASSUME NEW e \in Executors, NEW c \in Clients PROVE CustodyAt(e, c)'
  <2>1. CASE c \in {Contract!HeldBy(f) : f \in S}
    <3>1. PICK f \in S : c = Contract!HeldBy(f)
      BY <2>1
    <3>2. work[f] = "busy" /\ running[f] = c
      BY <3>1, ClientsAssumption DEF Contract!HeldBy
    <3>3. givenTo[c] = {f}
      BY <1>2, <3>2
    <3>4. client'[c] = "lost"
      BY <1>1, <2>1
    <3>5. CASE e = f
      <4>1. process'[e] = "reaped"
        BY <1>1, <3>1, <3>5
      <4>2. QED
        BY <3>4, <4>1 DEF CustodyAt
    <3>6. CASE e # f
      <4>1. givenTo[c] # {e}
        BY <3>3, <3>6
      <4>2. c \notin inbox[e] /\ ~(work[e] # "free" /\ running[e] = c)
        BY <4>1, NotHeld
      <4>3. c \notin inbox'[e] /\ ~(work'[e] = "busy" /\ running'[e] = c)
        BY <1>1, <4>2
      <4>4. QED
        BY <3>4, <4>3 DEF CustodyAt
    <3>7. QED
      BY <3>5, <3>6
  <2>2. CASE c \notin {Contract!HeldBy(f) : f \in S}
    <3>1. client'[c] = client[c]
      BY <1>1, <2>2
    <3>2. CASE e \notin S
      BY <1>1, <3>1, <3>2 DEF CustodyAt
    <3>3. CASE e \in S
      <4>1. Contract!HeldBy(e) # c
        BY <2>2, <3>3
      <4>2. ~(work[e] = "busy" /\ running[e] = c)
        BY <4>1 DEF Contract!HeldBy
      <4>3. QED
        BY <1>1, <1>2, <3>1, <3>3, <4>2 DEF CustodyAt
    <3>4. QED
      BY <3>2, <3>3
  <2>3. QED
    BY <2>1, <2>2
<1>4. QED
  BY <1>3

\* The custody invariant is inductive.
LEMMA CustodyStep ==
    ASSUME TypeOK, RequestInv, TokenInv, DeliveryInv, PoolInv, CustodyInv, [Next]_vars
    PROVE  CustodyInv'
<1> USE BoundAssumption, ClientsAssumption DEF Executors, TypeOK, RequestInv,
        TokenInv, DeliveryInv, PoolInv, CustodyInv, Contract!SocketOpen, Live
<1>1. CASE Reap
  BY <1>1, Reaped DEF Reap, Dead
<1>2. ASSUME NEW how \in {"stopped", "killed"}, ServerFails(how) PROVE CustodyInv'
  BY <1>2 DEF ServerFails, RefuseOthers, executorVars, CustodyAt, Contract!HeldBy
<1>3. CASE ReapCrashes
  BY <1>2, <1>3 DEF ReapCrashes
<1>4. CASE ServerStops
  BY <1>2, <1>4 DEF ServerStops
<1>5. ASSUME NEW c \in Clients, Accept(c) PROVE CustodyInv'
  BY <1>5 DEF Accept, Backlog, managerVars, executorVars, CustodyAt, Contract!HeldBy
<1>6. CASE ChildExited
  <2>1. UNCHANGED <<process, work, inbox, running, client, givenTo>>
    BY <1>6 DEF ChildExited, executorVars, clientVars
  <2>2. QED
    BY <2>1 DEF CustodyAt
<1>7. CASE SelectTimesOut
  BY <1>7 DEF SelectTimesOut, managerVars, executorVars, clientVars, CustodyAt, Contract!HeldBy
<1>8. CASE CloseListener
  BY <1>8 DEF CloseListener, RefuseOthers, managerVars, executorVars, CustodyAt, Contract!HeldBy
<1>9. CASE ReuseExecutor
  <2>1. UNCHANGED <<process, work, inbox, running, client, givenTo>>
    BY <1>9 DEF ReuseExecutor, clientVars
  <2>2. QED
    BY <2>1 DEF CustodyAt
<1>10. CASE StartExecutor
  <2>1. /\ process' = [process EXCEPT ![started + 1] = "up"]
        /\ started + 1 \in Executors
        /\ UNCHANGED <<work, inbox, running, client, givenTo>>
    BY <1>10 DEF StartExecutor, Contract!Start, clientVars
  <2>2. inbox[started + 1] = {} /\ work[started + 1] = "free" /\ process[started + 1] = "none"
    BY <2>1 DEF TokenAt
  <2>3. ASSUME NEW e \in Executors, NEW c \in Clients PROVE CustodyAt(e, c)'
    <3>1. CustodyAt(e, c)
      OBVIOUS
    <3>2. CASE e = started + 1
      <4>1. ~(client[c] = "given" /\ givenTo[c] = {e})
        BY <2>2, <3>1, <3>2 DEF CustodyAt
      <4>2. c \notin inbox'[e] /\ work'[e] = "free"
        BY <2>1, <2>2, <3>2
      <4>3. QED
        BY <2>1, <4>1, <4>2 DEF CustodyAt
    <3>3. CASE e # started + 1
      <4>1. process'[e] = process[e]
        BY <2>1, <3>3
      <4>2. QED
        BY <2>1, <3>1, <4>1 DEF CustodyAt
    <3>4. QED
      BY <3>2, <3>3
  <2>4. QED
    BY <2>3
<1>11. CASE Submit
  <2>1. /\ request \in Clients /\ client[request] = "accepted" /\ givenTo[request] = {}
        /\ target \in Executors /\ Contract!SocketOpen(target)
    BY <1>11 DEF Submit
  <2>2. /\ client' = [client EXCEPT ![request] = "given"]
        /\ givenTo' = [givenTo EXCEPT ![request] = {target}]
        /\ inbox' = [inbox EXCEPT ![target] = @ \cup {request}]
        /\ UNCHANGED <<process, work, running>>
    BY <1>11, <2>1 DEF Submit
  <2>3. ASSUME NEW e \in Executors, NEW c \in Clients PROVE CustodyAt(e, c)'
    <3>1. CASE c # request
      BY <2>1, <2>2, <3>1 DEF CustodyAt
    <3>2. CASE c = request /\ e = target
      BY <2>1, <2>2, <3>2 DEF CustodyAt
    <3>3. CASE c = request /\ e # target
      <4>1. c \notin inbox[e] /\ ~(work[e] # "free" /\ running[e] = c)
        <5>1. givenTo[c] # {e}
          BY <2>1, <3>3
        <5>2. QED
          BY <5>1, NotHeld
      <4>2. c \notin inbox'[e]
        BY <2>1, <2>2, <3>3, <4>1
      <4>3. givenTo'[c] = {target}
        BY <2>1, <2>2, <3>3
      <4>4. givenTo'[c] # {e}
        BY <3>3, <4>3
      <4>5. QED
        BY <2>2, <4>1, <4>2, <4>4 DEF CustodyAt
    <3>4. QED
      BY <3>1, <3>2, <3>3
  <2>4. QED
    BY <2>3
<1>12. CASE SubmitFails
  BY <1>12 DEF SubmitFails, executorVars, clientVars, CustodyAt, Contract!HeldBy
<1>13. ASSUME NEW e \in Executors, ExecutorStep(e) \/ Die(e) \/ IdleTimeout(e) PROVE CustodyInv'
  <2>1. ExecutorActs(e) /\ UNCHANGED <<serverVars, managerVars>>
    BY <1>13, ExecutorAlone
  <2>2. CASE Contract!TakeJob(e)
    BY <2>1, <2>2 DEF Contract!TakeJob, CustodyAt, Contract!HeldBy,
             Contract!Lose, Contract!handVars, serverVars, managerVars
  <2>3. CASE Contract!Reply(e)
    <3>1. /\ client' = [client EXCEPT ![running[e]] = "answered"]
          /\ work[e] = "busy" /\ work' = [work EXCEPT ![e] = "replied"]
          /\ UNCHANGED <<process, inbox, running, givenTo>>
      BY <2>3 DEF Contract!Reply, Contract!Lose, Contract!handVars
    <3>2. running[e] \in Clients /\ givenTo[running[e]] = {e}
      BY <3>1
    <3>3. inbox[e] = {}
      BY <3>1 DEF TokenAt
    <3>4. ASSUME NEW f \in Executors, NEW c \in Clients PROVE CustodyAt(f, c)'
      <4>1. CASE c # running[e]
        BY <3>1, <3>2, <4>1 DEF CustodyAt
      <4>2. CASE c = running[e] /\ f = e
        BY <3>1, <3>2, <3>3, <4>2 DEF CustodyAt
      <4>3. CASE c = running[e] /\ f # e
        <5>1. c \notin inbox[f] /\ ~(work[f] # "free" /\ running[f] = c)
          BY <3>2, <4>3, NotHeld
        <5>2. QED
          <6>1. client'[c] = "answered"
            BY <3>1, <3>2, <4>3
          <6>2. QED
            BY <3>1, <4>3, <5>1, <6>1 DEF CustodyAt
      <4>4. QED
        BY <4>1, <4>2, <4>3
    <3>5. QED
      BY <3>4
  <2>4. CASE Contract!SendIdle(e)
    BY <2>1, <2>4 DEF Contract!SendIdle, CustodyAt, Contract!HeldBy,
             Contract!Lose, Contract!handVars, serverVars, managerVars
  <2>5. CASE Contract!StartsToClose(e)
    BY <2>1, <2>5 DEF Contract!StartsToClose, CustodyAt, Contract!HeldBy,
             Contract!Lose, Contract!handVars, serverVars, managerVars
  <2>6. CASE Contract!CloseSocket(e)
    <3>1. /\ process[e] = "closing" /\ process' = [process EXCEPT ![e] = "closed"]
          /\ client' = [c \in Clients |-> IF c \in inbox[e] THEN "lost" ELSE client[c]]
          /\ inbox' = [inbox EXCEPT ![e] = {}]
          /\ UNCHANGED <<work, running, givenTo>>
      BY <2>6 DEF Contract!CloseSocket, Contract!Lose, Contract!handVars
    <3>2. inbox[e] # {} => work[e] = "free"
      BY DEF TokenAt
    <3>3. ASSUME NEW f \in Executors, NEW c \in Clients PROVE CustodyAt(f, c)'
      <4>1. CASE c \in inbox[e]
        <5>1. givenTo[c] = {e}
          BY <4>1
        <5>2. f # e => c \notin inbox[f] /\ ~(work[f] # "free" /\ running[f] = c)
          BY <5>1, NotHeld
        <5>3. QED
          BY <3>1, <3>2, <4>1, <5>2 DEF CustodyAt
      <4>2. CASE c \notin inbox[e]
        BY <3>1, <4>2 DEF CustodyAt
      <4>3. QED
        BY <4>1, <4>2
    <3>4. QED
      BY <3>3
  <2>7. CASE Contract!Exit(e)
    BY <2>1, <2>7 DEF Contract!Exit, CustodyAt, Contract!HeldBy,
             Contract!Lose, Contract!handVars, serverVars, managerVars
  <2>8. CASE Contract!Terminate(e)
    <3>1. /\ process' = [process EXCEPT ![e] = "exited"]
          /\ \A c \in Clients :
                 client'[c] = IF c \in inbox[e] \/ c = Contract!HeldBy(e) THEN "lost" ELSE client[c]
          /\ inbox' = [inbox EXCEPT ![e] = {}]
          /\ UNCHANGED <<work, running, givenTo>>
      BY <2>8 DEF Contract!Terminate, Contract!Lose
    <3>2. ASSUME NEW f \in Executors, NEW c \in Clients PROVE CustodyAt(f, c)'
      <4>1. CASE c \in inbox[e] \/ c = Contract!HeldBy(e)
        <5>1. givenTo[c] = {e}
          BY <4>1 DEF Contract!HeldBy
        <5>2. f # e => c \notin inbox[f] /\ ~(work[f] # "free" /\ running[f] = c)
          BY <5>1, NotHeld
        <5>3. client'[c] = "lost" /\ inbox'[f] \subseteq inbox[f]
          BY <3>1, <4>1
        <5>4. process'[e] = "exited"
          BY <3>1
        <5>5. QED
          BY <3>1, <5>2, <5>3, <5>4 DEF CustodyAt
      <4>2. CASE c \notin inbox[e] /\ c # Contract!HeldBy(e)
        BY <3>1, <4>2 DEF CustodyAt, Contract!HeldBy
      <4>3. QED
        BY <4>1, <4>2
    <3>3. QED
      BY <3>2
  <2>9. QED
    BY <2>1, <2>2, <2>3, <2>4, <2>5, <2>6, <2>7, <2>8 DEF ExecutorActs
<1>14. CASE ServerKilled
  BY <1>2, <1>14 DEF ServerKilled
<1>15. CASE JoinAtExit
  BY <1>15, Reaped DEF JoinAtExit
<1>16. ASSUME NEW c \in Clients, Connect(c) PROVE CustodyInv'
  BY <1>16 DEF Connect, serverVars, managerVars, executorVars, CustodyAt, Contract!HeldBy
<1>17. CASE UNCHANGED vars
  BY <1>17 DEF vars, serverVars, managerVars, executorVars, clientVars, CustodyAt, Contract!HeldBy
<1>18. QED
  BY <1>1, <1>3, <1>4, <1>5, <1>6, <1>7, <1>8, <1>9, <1>10, <1>11, <1>12, <1>13, <1>14,
     <1>15, <1>16, <1>17
     DEF Next, ServerStep, PollResets

\* The invariants hold together.
LEMMA Custody == Spec => [](TypeOK /\ TokenInv /\ DeliveryInv /\ PoolInv /\ CustodyInv)
<1>1. Init => TokenInv /\ DeliveryInv /\ PoolInv /\ CustodyInv
  BY BoundAssumption DEF Init, TokenInv, TokenAt, DeliveryInv, PoolInv, CustodyInv, CustodyAt,
                         Executors, Contract!SocketOpen, Live
<1>2. TypeOK /\ RequestInv /\ TokenInv /\ DeliveryInv /\ PoolInv /\ CustodyInv /\ [Next]_vars
          => (TokenInv /\ DeliveryInv /\ PoolInv /\ CustodyInv)'
  BY TokenStep, DeliveryStep, PoolStep, CustodyStep
<1>3. QED
  BY <1>1, <1>2, TypeAndRequest, PTL DEF Spec

\* Nobody who was given away is forgotten: however server and executors end, a
\* client without an outcome is still with an executor that can give it one or
\* drop it (submit_job, cleanup).
THEOREM NobodyIsForgotten == Spec => []GivenIsHeld
<1>1. TypeOK /\ DeliveryInv /\ CustodyInv => GivenIsHeld
  <2> SUFFICES ASSUME TypeOK, DeliveryInv, CustodyInv, NEW c \in Clients, client[c] = "given"
               PROVE  \E e \in Executors :
                          /\ givenTo[c] = {e}
                          /\ \/ c \in inbox[e] /\ Contract!SocketOpen(e)
                             \/ Contract!HeldBy(e) = c /\ Contract!Alive(e)
    BY DEF GivenIsHeld
  <2>1. PICK e \in Executors : givenTo[c] = {e}
    BY DEF DeliveryInv
  <2>2. CustodyAt(e, c)
    BY DEF CustodyInv
  <2>3. QED
    BY <2>1, <2>2 DEF CustodyAt, Live, Contract!HeldBy, Contract!Alive
<1>2. QED
  BY <1>1, Custody, PTL

\* A server that times out has no executor process left, and no client that it
\* accepted is without its outcome (_wait_for_accept).
THEOREM NobodyIsLeftBehind == Spec => []NobodyLeftBehind
<1>1. TypeOK /\ DeliveryInv /\ PoolInv /\ GivenIsHeld => NobodyLeftBehind
  <2> SUFFICES ASSUME TypeOK, DeliveryInv, PoolInv, GivenIsHeld,
                      serverPc \in {"closing", "timedOut"}
               PROVE  /\ \A e \in Executors : process[e] \in {"none", "reaped"}
                      /\ \A c \in Clients : client[c] \notin {"accepted", "given"}
    BY DEF NobodyLeftBehind
  <2>1. \A e \in Executors : process[e] \in {"none", "reaped"}
    BY DEF PoolInv
  <2>2. \A c \in Clients : client[c] # "given"
    BY <2>1 DEF GivenIsHeld, Contract!SocketOpen, Contract!Alive
  <2>3. QED
    BY <2>1, <2>2 DEF DeliveryInv
<1>2. QED
  BY <1>1, Custody, NobodyIsForgotten, PTL

\* While the server is up no executor ends, where none of them dies or times out.
UpInv == serverPc # "stopped" /\ serverPc # "killed" =>
    /\ \A e \in Executors : process[e] \in {"none", "up"}
    /\ \A c \in Clients : client[c] # "lost"

LEMMA UpStep ==
    ASSUME TimeoutEnabled = FALSE, MayDie = FALSE, TypeOK, RequestInv, PoolInv, UpInv,
           [Next]_vars
    PROVE  UpInv'
<1> USE FlagsAssumption DEF TypeOK, UpInv
<1>1. CASE Reap
  <2>1. /\ process' = [e \in Executors |-> IF e \in Dead THEN "reaped" ELSE process[e]]
        /\ client' = [c \in Clients |->
                         IF c \in {Contract!HeldBy(e) : e \in Dead} THEN "lost" ELSE client[c]]
        /\ serverPc = "reap"
    BY <1>1 DEF Reap, Contract!ReapAll, Contract!Lose
  <2>2. ASSUME NEW e \in pool PROVE IsAlive(e)
    <3>1. process[e] \in {"none", "up"} /\ e \in Executors
      BY <2>1
    <3>2. ~brokenPipe[e]
      BY <3>1, BoundAssumption DEF PoolInv, Executors, Contract!SocketOpen
    <3>3. QED
      BY <3>1, <3>2 DEF IsAlive, Contract!Exited
  <2>3. Dead = {}
    BY <2>2 DEF Dead
  <2>4. QED
    BY <2>1, <2>3
<1>2. ASSUME NEW how \in {"stopped", "killed"}, ServerFails(how) PROVE UpInv'
  BY <1>2 DEF ServerFails
<1>3. CASE ReapCrashes \/ ServerStops \/ ServerKilled
  BY <1>2, <1>3 DEF ReapCrashes, ServerStops, ServerKilled
<1>4. ASSUME NEW c \in Clients, Accept(c) PROVE UpInv'
  BY <1>4 DEF Accept, executorVars
<1>5. CASE ChildExited \/ SelectTimesOut \/ SubmitFails
  BY <1>5 DEF ChildExited, SelectTimesOut, SubmitFails, executorVars, clientVars
<1>6. CASE CloseListener
  BY <1>6 DEF CloseListener, RefuseOthers, executorVars
<1>7. CASE ReuseExecutor
  BY <1>7 DEF ReuseExecutor, clientVars
<1>8. CASE StartExecutor
  BY <1>8 DEF StartExecutor, clientVars
<1>9. CASE Submit
  BY <1>9 DEF Submit, RequestInv
<1>10. ASSUME NEW e \in Executors, ExecutorStep(e) \/ Die(e) \/ IdleTimeout(e) PROVE UpInv'
  <2>1. UNCHANGED serverPc
    BY <1>10, ExecutorAlone DEF serverVars
  <2>2. CASE serverPc = "stopped" \/ serverPc = "killed"
    BY <2>1, <2>2
  <2>3. CASE serverPc # "stopped" /\ serverPc # "killed"
    <3>1. ServerEndHeld(e) /\ process[e] \in {"none", "up"}
      BY <2>3 DEF ServerEndHeld
    <3>2. Contract!TakeJob(e) \/ Contract!Reply(e) \/ Contract!SendIdle(e)
      BY <1>10, <2>3, <3>1
         DEF ExecutorStep, TakeJob, Reply, SendIdle, SendIdleFails, CloseSocket, Exit,
             EndOfStream, Terminate, Die, IdleTimeout, Contract!CloseSocket, Contract!Exit
    <3>3. QED
      BY <2>1, <2>3, <3>2 DEF Contract!TakeJob, Contract!Reply, Contract!SendIdle
  <2>4. QED
    BY <2>2, <2>3
<1>11. CASE JoinAtExit
  BY <1>11 DEF JoinAtExit, serverVars
<1>12. ASSUME NEW c \in Clients, Connect(c) PROVE UpInv'
  BY <1>12 DEF Connect, serverVars, executorVars
<1>13. CASE UNCHANGED vars
  BY <1>13 DEF vars, serverVars, executorVars, clientVars
<1>14. QED
  BY <1>1, <1>3, <1>4, <1>5, <1>6, <1>7, <1>8, <1>9, <1>10, <1>11, <1>12, <1>13
     DEF Next, ServerStep, PollResets

\* Jobs are lost to an idle timeout or to the death of an executor, and to nothing
\* else while the server is up: with the timeout disabled and executors that live,
\* CLI_RUNNER.md is right that every job given to one is processed.
THEOREM OnlyEndingsLoseJobs ==
    ASSUME TimeoutEnabled = FALSE, MayDie = FALSE
    PROVE  Spec => []GivenJobsAreProcessed
<1>1. Init => UpInv
  BY DEF Init, UpInv
<1>2. TypeOK /\ RequestInv /\ PoolInv /\ UpInv /\ [Next]_vars => UpInv'
  BY UpStep
<1>3. UpInv => GivenJobsAreProcessed
  BY DEF UpInv, GivenJobsAreProcessed
<1>4. QED
  BY <1>1, <1>2, <1>3, TypeAndRequest, Custody, PTL DEF Spec

\* What the server does besides handing clients over is no business of the
\* executors' clients.
LEMMA ElsewhereStep ==
    ASSUME TypeOK', UNCHANGED <<executorVars, givenTo>>,
           serverPc \in {"stopped", "killed"} => serverPc' \in {"stopped", "killed"},
           \A c \in Clients : \/ client'[c] = client[c]
                             \/ /\ givenTo[c] = {}
                                /\ client'[c] \in {"away", "backlog", "accepted", "refused"}
    PROVE  Contract!Elsewhere
BY DEF Contract!Elsewhere, Contract!handVars, executorVars, TypeOK

\* Every step of the server and its executors is one that the contract allows.
LEMMA ContractStep ==
    ASSUME TypeOK, TypeOK', RequestInv, TokenInv, DeliveryInv, [Next]_vars
    PROVE  [Contract!Next]_Contract!contractVars
<1> USE DEF Contract!Next
<1>1. CASE Reap
  <2>1. Dead \in SUBSET Executors /\ Contract!ReapAll(Dead)
    BY <1>1 DEF Reap, Dead, TypeOK
  <2>2. serverPc = "reap" /\ serverPc' \in {"select", "selectTimed"}
    BY <1>1 DEF Reap
  <2>3. QED
    BY <2>1, <2>2
<1>2. ASSUME NEW how \in {"stopped", "killed"}, ServerUp, ServerFails(how) PROVE Contract!Elsewhere
  <2>1. \A c \in Clients : client'[c] # client[c] => givenTo[c] = {} /\ client'[c] = "refused"
    BY <1>2 DEF ServerFails, RefuseOthers, DeliveryInv
  <2>2. QED
    BY <1>2, <2>1, ElsewhereStep DEF ServerFails
<1>3. CASE ReapCrashes
  BY <1>2, <1>3 DEF ReapCrashes, ServerUp
<1>4. CASE ServerStops \/ ServerKilled
  BY <1>2, <1>4 DEF ServerStops, ServerKilled
<1>5. ASSUME NEW c \in Clients, Accept(c) PROVE Contract!Elsewhere
  <2>1. client[c] = "backlog" /\ client' = [client EXCEPT ![c] = "accepted"]
    BY <1>5 DEF Accept, Backlog
  <2>2. givenTo[c] = {}
    BY <2>1 DEF DeliveryInv
  <2>3. UNCHANGED <<executorVars, givenTo>> /\ serverPc \notin {"stopped", "killed"}
    BY <1>5 DEF Accept
  <2>4. QED
    BY <2>1, <2>2, <2>3, ElsewhereStep DEF TypeOK
<1>6. ASSUME NEW c \in Clients, Connect(c) PROVE Contract!Elsewhere
  <2>1. client[c] = "away" /\ client' = [client EXCEPT ![c] = "backlog"]
    BY <1>6 DEF Connect
  <2>2. givenTo[c] = {}
    BY <2>1 DEF DeliveryInv
  <2>3. UNCHANGED <<executorVars, givenTo, serverPc>>
    BY <1>6 DEF Connect, serverVars
  <2>4. QED
    BY <2>1, <2>2, <2>3, ElsewhereStep DEF TypeOK
<1>7. CASE ChildExited \/ SelectTimesOut \/ SubmitFails
  <2>1. /\ UNCHANGED <<executorVars, givenTo, client>>
        /\ serverPc \notin {"stopped", "killed"}
    BY <1>7 DEF ChildExited, SelectTimesOut, SubmitFails, clientVars
  <2>2. QED
    BY <2>1, ElsewhereStep
<1>8. CASE CloseListener
  <2>1. \A c \in Clients : client'[c] # client[c] => givenTo[c] = {} /\ client'[c] = "refused"
    BY <1>8 DEF CloseListener, RefuseOthers, DeliveryInv
  <2>2. UNCHANGED <<executorVars, givenTo>> /\ serverPc = "closing"
    BY <1>8 DEF CloseListener
  <2>3. QED
    BY <2>1, <2>2, ElsewhereStep
<1>9. CASE ReuseExecutor
  <2>1. PICK e \in Idle : idleBytes' = [idleBytes EXCEPT ![e] =
                                           IF ~believedIdle[e] /\ @ > 0 THEN @ - 1 ELSE @]
    BY <1>9 DEF ReuseExecutor
  <2>2. /\ e \in Executors
        /\ UNCHANGED <<process, work, inbox, running, client, givenTo>>
        /\ serverPc = "handle" /\ serverPc' = "submit"
    BY <1>9 DEF ReuseExecutor, clientVars, Idle, TypeOK
  <2>3. CASE ~believedIdle[e] /\ idleBytes[e] > 0
    <3>1. Contract!ReadByte(e)
      BY <2>1, <2>2, <2>3 DEF Contract!ReadByte, Contract!handVars, TypeOK
    <3>2. QED
      BY <2>2, <3>1
  <2>4. CASE ~(~believedIdle[e] /\ idleBytes[e] > 0)
    <3>1. UNCHANGED idleBytes
      BY <2>1, <2>2, <2>4 DEF TypeOK
    <3>2. QED
      BY <2>2, <3>1, ElsewhereStep DEF executorVars
  <2>5. QED
    BY <2>3, <2>4
<1>10. CASE StartExecutor
  <2>1. /\ started + 1 \in Executors /\ process[started + 1] = "none"
        /\ process' = [process EXCEPT ![started + 1] = "up"]
        /\ UNCHANGED <<work, inbox, running, idleBytes, client, givenTo>>
        /\ serverPc = "handle" /\ serverPc' = "submit"
    BY <1>10, BoundAssumption DEF StartExecutor, clientVars, TypeOK, TokenInv, TokenAt, Executors
  <2>2. Contract!Start(started + 1)
    BY <2>1 DEF Contract!Start, Contract!handVars
  <2>3. QED
    BY <2>1, <2>2
<1>11. CASE Submit
  <2>1. /\ request \in Clients /\ target \in Executors /\ Contract!SocketOpen(target)
        /\ inbox' = [inbox EXCEPT ![target] = @ \cup {request}]
        /\ client' = [client EXCEPT ![request] = "given"]
        /\ givenTo' = [givenTo EXCEPT ![request] = @ \cup {target}]
        /\ UNCHANGED <<process, work, running, idleBytes>>
        /\ serverPc = "submit" /\ serverPc' = "reap"
    BY <1>11 DEF Submit, RequestInv, TypeOK
  <2>2. work[target] = "free" /\ inbox[target] = {} /\ idleBytes[target] = 0
    BY <2>1 DEF TokenInv, TokenAt, RequestInv, TypeOK
  <2>3. givenTo[request] = {}
    BY <2>1 DEF DeliveryInv
  <2>4. Contract!Hand(target, request)
    BY <2>1, <2>2, <2>3 DEF Contract!Hand, TypeOK
  <2>5. QED
    BY <2>1, <2>4
<1>12. ASSUME NEW e \in Executors, ExecutorStep(e) \/ Die(e) \/ IdleTimeout(e)
       PROVE  Contract!Next
  <2>1. Contract!ExecutorStep(e)
    BY <1>12 DEF ExecutorStep, TakeJob, Reply, SendIdle, SendIdleFails, CloseSocket, Exit,
                 EndOfStream, Terminate, Die, IdleTimeout, Contract!ExecutorStep
  <2>2. UNCHANGED serverPc
    BY <1>12, ExecutorAlone DEF serverVars
  <2>3. QED
    BY <2>1, <2>2
<1>13. CASE JoinAtExit
  <2>1. PICK S \in SUBSET Executors : Contract!ReapAll(S)
    BY <1>13 DEF JoinAtExit
  <2>2. UNCHANGED serverPc
    BY <1>13 DEF JoinAtExit, serverVars
  <2>3. QED
    BY <2>1, <2>2
<1>14. CASE UNCHANGED vars
  BY <1>14 DEF vars, serverVars, executorVars, clientVars, Contract!contractVars, Contract!handVars
<1>15. QED
  BY <1>1, <1>3, <1>4, <1>5, <1>6, <1>7, <1>8, <1>9, <1>10, <1>11, <1>12, <1>13, <1>14
     DEF Next, ServerStep, PollResets

\* The server keeps to what its executors rely on, and its executors are those of
\* the contract.
THEOREM ServerKeepsContract == Spec => KeepsContract
<1>1. Init => /\ TokenInv /\ DeliveryInv
              /\ Contract!Init
  <2> SUFFICES ASSUME Init PROVE TokenInv /\ DeliveryInv /\ Contract!Init
    OBVIOUS
  <2>1. TokenInv /\ DeliveryInv
    BY BoundAssumption DEF Init, TokenInv, TokenAt, DeliveryInv, Executors, Contract!SocketOpen
  <2>2. Contract!Init
    BY DEF Init, Contract!Init
  <2>3. QED
    BY <2>1, <2>2
<1>2. TypeOK /\ RequestInv /\ TokenInv /\ DeliveryInv /\ [Next]_vars
          => (TokenInv /\ DeliveryInv)'
  BY TokenStep, DeliveryStep
<1>3. TypeOK /\ TypeOK' /\ RequestInv /\ TokenInv /\ DeliveryInv /\ [Next]_vars
          => [Contract!Next]_Contract!contractVars
  BY ContractStep
<1>4. QED
  BY <1>1, <1>2, <1>3, TypeAndRequest, PTL DEF Spec, KeepsContract, Contract!Spec

=============================================================================
