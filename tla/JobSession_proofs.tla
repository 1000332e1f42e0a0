-------------------------- MODULE JobSession_proofs --------------------------
(***************************************************************************)
(* Theorems about JobSession, for every set of jobs, requests, descriptors *)
(* and properties, with the invariant they rest on: what is still lent to  *)
(* the client is told by how many callbacks are on the exit stacks.        *)
(***************************************************************************)
EXTENDS JobSession, ResultConverter_proofs

\* The order in which the callbacks are pushed, when all of them are.
Order == <<"stdin", "stdout", "stderr", "fd1", "fd2", "env", "root", "flush", "handler", "cli",
           "log", "output", "tmpFile">>

\* The stacks hold a first part of them.
InOrder(s) ==
    /\ s \in Seq(Callbacks) /\ Len(s) \in 0..13
    /\ \A i \in 1..Len(s) : s[i] = Order[i]

\* The callbacks t come next after n of them and make them m.
NextInOrder(t, n, m) ==
    /\ n \in 0..13 /\ m \in n..13
    /\ t \in Seq(Callbacks) /\ Len(t) = m - n /\ \A i \in 1..(m - n) : t[i] = Order[n + i]

\* How far JobRequest.__init__ and JobRunner have come, by where the job is.
DepthInv ==
    /\ InOrder(exits)
    /\ pc \in {"idle", "receive", "ended"} => Len(exits) = 0
    /\ pc = "replace1" => Len(exits) = 3
    /\ pc = "replace2" => Len(exits) = 4
    /\ pc \in {"parse", "logging"} => Len(exits) = 5
    /\ pc \in {"init", "create", "open"} => Len(exits) = 11
    /\ pc = "prepare" => Len(exits) = 12
    /\ pc = "run" => Len(exits) \in {12, 13}
    /\ raised => pc \in {"unwind", "ended"}

\* What is lent at each depth.  A descriptor whose restoration failed is told by
\* the exception, which nothing swallows below the callback of config_job_logging.
LentInv ==
    /\ Len(exits) < 3 => stream["stderr"] # "open"
    /\ Len(exits) < 2 => stream["stdout"] # "open"
    /\ Len(exits) < 1 => stream["stdin"] # "open"
    /\ Len(exits) >= 3 => stream["stderr"] = "open"
    /\ Len(exits) < 4 => fd["fd1"] = "server" \/ raised
    /\ Len(exits) < 5 => fd["fd2"] = "server" \/ raised
    /\ Len(exits) < 12 => output # "buffered"
    /\ Len(exits) < 13 => ~tmpFile

LevelInv ==
    /\ Len(exits) < 6 => envLevel = ExecutorLevel
    /\ Len(exits) < 7 => rootLevel = RootLevel
    /\ Len(exits) < 9 => handler = None
    /\ Len(exits) < 10 => cliLevel = CliLevel
    /\ Len(exits) >= 6 => /\ saved.env = ExecutorLevel
                          /\ saved.root = RootLevel /\ saved.cli = CliLevel
    /\ Len(exits) >= 9 => handler = LevelInt[LevelFor(request.verbose, ExecutorLevel)]
    /\ Len(exits) >= 11 => rootLevel <= handler /\ cliLevel <= handler

\* Where the job's properties come from; the component is that of the descriptor.
PropsInv ==
    /\ pc \in {"logging", "init", "create", "open", "prepare"} =>
           props = From("commandLine", job, request.commandLine)
    /\ \A p \in DOMAIN envProps : envProps[p][1] \in {"executor", "environment"}
    /\ pc = "create" => descriptor \in Descriptors /\ component = None
    /\ pc \in {"open", "prepare", "run"} => component # None
    /\ component # None => descriptor = component
    /\ PropsAreOwn

\* The types the rest relies on.
TypeInv ==
    /\ pc \in {"idle", "receive", "replace1", "replace2", "parse", "logging", "init", "create",
               "open", "prepare", "run", "unwind", "ended"}
    /\ job \in Jobs \cup {None}
    /\ request \in Requests \cup {None}
    /\ pc # "idle" => request \in Requests
    /\ raised \in BOOLEAN
    /\ stream \in [Streams -> {"none", "open", "closed"}]
    /\ fd \in [Fds -> {"server", "client"}]
    /\ envLevel \in LogLevels \cup {None}
    /\ rootLevel \in LevelNumbers /\ cliLevel \in LevelNumbers
    /\ handler \in LevelNumbers \cup {None}
    /\ saved \in [env : LogLevels \cup {None}, root : LevelNumbers, cli : LevelNumbers]
    /\ component \in Descriptors \cup {None}
    /\ descriptor \in Descriptors \cup {None}
    /\ DOMAIN envProps \subseteq Props
    /\ DOMAIN props \subseteq Props
    /\ tmpFile \in BOOLEAN
    /\ output \in {"none", "buffered", "partial", "complete"}
    /\ answered \in [Jobs -> {"none", "zero", "one"}]

-----------------------------------------------------------------------------
\* More callbacks that are next in order make a longer first part of it.
LEMMA Pushed ==
    ASSUME NEW s, InOrder(s), NEW t, NEW m, NextInOrder(t, Len(s), m)
    PROVE  InOrder(s \o t) /\ Len(s \o t) = m
<1>0. PICK n \in 0..13 : n = Len(s)
  BY DEF InOrder
<1>a. PICK k \in 0..13 : n + k = m
  <2>1. m - n \in 0..13 /\ n + (m - n) = m
    BY <1>0 DEF NextInOrder
  <2>2. QED
    BY <2>1
<1>1. /\ s \in Seq(Callbacks) /\ Len(s) = n /\ \A i \in 1..n : s[i] = Order[i]
      /\ t \in Seq(Callbacks) /\ Len(t) = k /\ \A i \in 1..k : t[i] = Order[n + i]
      /\ n + k \in 0..13
  <2>1. m - n = k /\ m \in n..13
    BY <1>0, <1>a DEF NextInOrder
  <2>2. t \in Seq(Callbacks) /\ Len(t) = m - n /\ \A i \in 1..(m - n) : t[i] = Order[n + i]
    BY <1>0 DEF NextInOrder
  <2>3. t \in Seq(Callbacks) /\ Len(t) = k /\ \A i \in 1..k : t[i] = Order[n + i]
    BY <2>1, <2>2
  <2>4. s \in Seq(Callbacks) /\ Len(s) = n /\ \A i \in 1..n : s[i] = Order[i]
    BY <1>0 DEF InOrder
  <2>5. QED
    BY <1>a, <2>1, <2>3, <2>4
<1>2. s \o t \in Seq(Callbacks) /\ Len(s \o t) = n + k
  BY <1>1
<1>3. ASSUME NEW i \in 1..(n + k) PROVE (s \o t)[i] = Order[i]
  <2>1. CASE i <= n
    BY <1>1, <2>1
  <2>2. CASE i > n
    <3>1. PICK h \in 1..k : n + h = i
      <4>1. i - n \in 1..k /\ n + (i - n) = i
        BY <2>2
      <4>2. QED
        BY <4>1
    <3>2. (s \o t)[i] = t[h]
      BY <1>1, <2>2, <3>1
    <3>3. t[h] = Order[n + h]
      BY <1>1, <3>1
    <3>4. QED
      BY <3>1, <3>2, <3>3
  <2>3. i <= n \/ i > n
    OBVIOUS
  <2>4. QED
    BY <2>1, <2>2, <2>3
<1> DEFINE u == s \o t
<1>4. u \in Seq(Callbacks) /\ Len(u) = n + k /\ \A i \in 1..(n + k) : u[i] = Order[i]
  BY <1>2, <1>3
<1> HIDE DEF u
<1>5. InOrder(u) /\ Len(u) = n + k
  BY <1>1, <1>4 DEF InOrder
<1>6. QED
  BY <1>5, <1>a DEF u

\* The last callback tells the depth, and what is left is a first part again.
LEMMA Popped ==
    ASSUME NEW s, InOrder(s), s # <<>>
    PROVE  /\ InOrder(Front(s)) /\ Len(Front(s)) = Len(s) - 1
           /\ Len(s) \in 1..13 /\ Last(s) = Order[Len(s)]
<1>1. s \in Seq(Callbacks) /\ Len(s) \in 0..13 /\ \A i \in 1..Len(s) : s[i] = Order[i]
  BY DEF InOrder
<1>2. PICK n \in 0..12 : Len(s) = n + 1
  <2>1. Len(s) # 0
    BY <1>1, EmptySeq
  <2>2. Len(s) - 1 \in 0..12 /\ Len(s) = (Len(s) - 1) + 1
    BY <1>1, <2>1
  <2>3. QED
    BY <2>2
<1> DEFINE f == SubSeq(s, 1, n)
<1>3. f \in Seq(Callbacks) /\ Len(f) = n
  BY <1>1, <1>2, SubSeqProperties
<1>4. \A i \in 1..n : f[i] = s[i]
  BY <1>1, <1>2, SubSeqProperties
<1>5. Front(s) = f /\ Last(s) = s[n + 1]
  BY <1>1, <1>2 DEF Front, Last
<1> HIDE DEF f
<1>6. InOrder(f)
  <2>1. \A i \in 1..n : f[i] = Order[i]
    BY <1>1, <1>2, <1>4
  <2>2. n \in 0..13
    OBVIOUS
  <2>3. QED
    BY <1>3, <2>1, <2>2 DEF InOrder
<1>7. QED
  BY <1>1, <1>2, <1>3, <1>5, <1>6

\* What each way out of a callback does to the stacks.
LEMMA Left ==
    ASSUME DepthInv, NEW c, Leave(c)
    PROVE  /\ InOrder(exits') /\ Len(exits') = Len(exits) - 1
           /\ Len(exits) \in 1..13 /\ c = Order[Len(exits)] /\ pc = "unwind" /\ pc' = "unwind"
BY Popped DEF Leave, DepthInv

LEMMA Levels ==
    /\ \A l \in LogLevels : LevelInt[l] \in LevelNumbers
    /\ \A r \in Requests : LevelFor(r.verbose, ExecutorLevel) \in LogLevels
    /\ RootLevel \in LevelNumbers /\ CliLevel \in LevelNumbers
    /\ \A r \in Requests, e \in LogLevels \cup {None} : LevelFor(r.verbose, e) \in LogLevels
    /\ \A m, n \in LevelNumbers : /\ Lower(m, n) \in LevelNumbers
                                  /\ Lower(m, n) <= m /\ Lower(m, n) <= n
<1>1. \A l \in LogLevels : LevelInt[l] \in LevelNumbers
  BY DEF LevelInt, LevelNumbers, LogLevels
<1>2. \A r \in Requests, e \in LogLevels \cup {None} : LevelFor(r.verbose, e) \in LogLevels
  BY RequestsAssumption DEF LevelFor, LogLevels
<1>3. ExecutorLevel \in LogLevels \cup {None}
  BY DescriptorsAssumption
<1>4. RootLevel \in LevelNumbers /\ CliLevel \in LevelNumbers
  <2>1. RootLevel \in LevelNumbers
    BY <1>1 DEF RootLevel, LogLevels
  <2>2. CASE ExecutorLevel = None
    BY <1>1, <2>1, <2>2 DEF CliLevel, LogLevels
  <2>3. CASE ExecutorLevel \in LogLevels
    BY <1>1, <2>1, <2>3, NamesAssumption DEF CliLevel
  <2>4. QED
    BY <1>3, <2>2, <2>3
<1>5. QED
  BY <1>1, <1>2, <1>3, <1>4 DEF Lower, LevelNumbers

LEMMA Pushing ==
    ASSUME DepthInv, NEW t, NEW m, NextInOrder(t, Len(exits), m), exits' = exits \o t
    PROVE  InOrder(exits') /\ Len(exits') = m
BY Pushed DEF DepthInv

\* The depth follows the program counter.
LEMMA DepthStep ==
    ASSUME TypeInv, DepthInv, [Next]_vars
    PROVE  DepthInv'
<1>1. ASSUME NEW j \in Jobs, NEW r \in Requests, Begin(j, r) PROVE DepthInv'
  BY <1>1 DEF Begin, DepthInv, TypeInv, Goto, Push
<1>2. CASE ReceiveStreams
  <2> DEFINE t == <<"stdin", "stdout", "stderr">>
  <2>1. NextInOrder(t, 0, 3)
    BY DEF NextInOrder, Callbacks, Streams, Fds, Order
  <2>2. exits' = exits \o t /\ Len(exits) = 0
    BY <1>2 DEF ReceiveStreams, DepthInv, Push
  <2> HIDE DEF t
  <2>3. InOrder(exits') /\ Len(exits') = 3
    BY <2>1, <2>2, Pushing
  <2>4. QED
    BY <1>2, <2>3 DEF ReceiveStreams, DepthInv, Goto
<1>3. CASE ReplaceFd("fd1", "replace1", "replace2")
  <2> DEFINE t == <<"fd1">>
  <2>1. NextInOrder(t, 3, 4)
    BY DEF NextInOrder, Callbacks, Streams, Fds, Order
  <2>2. exits' = exits \o t /\ Len(exits) = 3
    BY <1>3 DEF ReplaceFd, DepthInv, Push
  <2> HIDE DEF t
  <2>3. InOrder(exits') /\ Len(exits') = 4
    BY <2>1, <2>2, Pushing
  <2>4. QED
    BY <1>3, <2>3 DEF ReplaceFd, DepthInv, Goto, DepthInv, TypeInv, Goto, Push
<1>4. CASE ReplaceFd("fd2", "replace2", "parse")
  <2> DEFINE t == <<"fd2">>
  <2>1. NextInOrder(t, 4, 5)
    BY DEF NextInOrder, Callbacks, Streams, Fds, Order
  <2>2. exits' = exits \o t /\ Len(exits) = 4
    BY <1>4 DEF ReplaceFd, DepthInv, Push
  <2> HIDE DEF t
  <2>3. InOrder(exits') /\ Len(exits') = 5
    BY <2>1, <2>2, Pushing
  <2>4. QED
    BY <1>4, <2>3 DEF ReplaceFd, DepthInv, Goto, DepthInv, TypeInv, Goto, Push
<1>5. CASE Parse
  BY <1>5 DEF Parse, DepthInv, TypeInv, Goto, Push
<1>6. CASE ConfigLogging
  <2> DEFINE t == LoggingCallbacks
  <2>1. NextInOrder(t, 5, 11)
    BY DEF NextInOrder, Callbacks, Streams, Fds, Order, LoggingCallbacks
  <2>2. exits' = exits \o t /\ Len(exits) = 5
    BY <1>6 DEF ConfigLogging, DepthInv, Push
  <2> HIDE DEF t
  <2>3. InOrder(exits') /\ Len(exits') = 11
    BY <2>1, <2>2, Pushing
  <2>4. QED
    BY <1>6, <2>3 DEF ConfigLogging, DepthInv, Goto
<1>7. CASE KeepComponent
  BY <1>7 DEF KeepComponent, DepthInv, TypeInv, Goto, Push
<1>8. CASE LoadDescriptor
  BY <1>8 DEF LoadDescriptor, LoadDescriptorWhen, DepthInv, TypeInv, Goto, Push
<1>9. CASE CreateComponent
  BY <1>9 DEF CreateComponent, DepthInv, TypeInv, Goto, Push
<1>10. CASE OpenRunner
  <2> DEFINE t == <<"output">>
  <2>1. NextInOrder(t, 11, 12)
    BY DEF NextInOrder, Callbacks, Streams, Fds, Order
  <2>2. exits' = exits \o t /\ Len(exits) = 11
    BY <1>10 DEF OpenRunner, DepthInv, Push
  <2> HIDE DEF t
  <2>3. InOrder(exits') /\ Len(exits') = 12
    BY <2>1, <2>2, Pushing
  <2>4. QED
    BY <1>10, <2>3 DEF OpenRunner, DepthInv, Goto
<1>11. CASE Prepare
  <2>1. CASE request.copiesVideo
    <3> DEFINE t == <<"tmpFile">>
    <3>1. NextInOrder(t, 12, 13)
      BY DEF NextInOrder, Callbacks, Order
    <3>2. exits' = exits \o t /\ Len(exits) = 12
      BY <1>11, <2>1 DEF Prepare, DepthInv, Push
    <3> HIDE DEF t
    <3>3. InOrder(exits') /\ Len(exits') = 13
      BY <3>1, <3>2, Pushing
    <3>4. QED
      BY <1>11, <3>3 DEF Prepare, DepthInv, Goto
  <2>2. CASE ~request.copiesVideo
    <3>1. exits' = exits
      BY <1>11, <2>2 DEF Prepare, DepthInv, InOrder, Push
    <3>2. QED
      BY <1>11, <3>1 DEF Prepare, DepthInv, Goto
  <2>3. QED
    BY <2>1, <2>2
<1>12. CASE RunJob
  BY <1>12 DEF RunJob, DepthInv, TypeInv, Goto, Push
<1>13. CASE Raise
  BY <1>13 DEF Raise, DepthInv, TypeInv, Goto, Push
<1>14. CASE LoadDescriptorFails
  BY <1>14 DEF LoadDescriptorFails, DepthInv, TypeInv, Goto, Push
<1>15. CASE DeleteTmpFile
  <2>1. InOrder(exits') /\ Len(exits') \in Nat /\ pc' = "unwind"
    BY <1>15, Left DEF DeleteTmpFile, InOrder
  <2>2. QED
    BY <2>1 DEF DepthInv
<1>16. CASE CloseOutput
  <2>1. InOrder(exits') /\ Len(exits') \in Nat /\ pc' = "unwind"
    BY <1>16, Left DEF CloseOutput, InOrder
  <2>2. QED
    BY <2>1 DEF DepthInv
<1>17. CASE LogException
  <2>1. InOrder(exits') /\ Len(exits') \in Nat /\ pc' = "unwind"
    BY <1>17, Left DEF LogException, InOrder
  <2>2. QED
    BY <2>1 DEF DepthInv
<1>18. CASE RestoreCliLevel
  <2>1. InOrder(exits') /\ Len(exits') \in Nat /\ pc' = "unwind"
    BY <1>18, Left DEF RestoreCliLevel, InOrder
  <2>2. QED
    BY <2>1 DEF DepthInv
<1>19. CASE RemoveHandler
  <2>1. InOrder(exits') /\ Len(exits') \in Nat /\ pc' = "unwind"
    BY <1>19, Left DEF RemoveHandler, InOrder
  <2>2. QED
    BY <2>1 DEF DepthInv
<1>20. CASE FlushHandler
  <2>1. InOrder(exits') /\ Len(exits') \in Nat /\ pc' = "unwind"
    BY <1>20, Left DEF FlushHandler, InOrder
  <2>2. QED
    BY <2>1 DEF DepthInv
<1>21. CASE RestoreRootLevel
  <2>1. InOrder(exits') /\ Len(exits') \in Nat /\ pc' = "unwind"
    BY <1>21, Left DEF RestoreRootLevel, InOrder
  <2>2. QED
    BY <2>1 DEF DepthInv
<1>22. CASE RestoreEnvLevel
  <2>1. InOrder(exits') /\ Len(exits') \in Nat /\ pc' = "unwind"
    BY <1>22, Left DEF RestoreEnvLevel, InOrder
  <2>2. QED
    BY <2>1 DEF DepthInv
<1>23. ASSUME NEW n \in Fds, RestoreFd(n) PROVE DepthInv'
  <2>1. InOrder(exits') /\ Len(exits') \in Nat /\ pc' = "unwind"
    BY <1>23, Left DEF RestoreFd, InOrder
  <2>2. QED
    BY <2>1 DEF DepthInv
<1>24. ASSUME NEW s \in Streams, CloseStream(s) PROVE DepthInv'
  <2>1. InOrder(exits') /\ Len(exits') \in Nat /\ pc' = "unwind"
    BY <1>24, Left DEF CloseStream, InOrder
  <2>2. QED
    BY <2>1 DEF DepthInv
<1>25. CASE Reply
  BY <1>25 DEF Reply, DepthInv, TypeInv, Goto, Push
<1>26. CASE UNCHANGED vars
  BY <1>26 DEF vars, DepthInv
<1>27. QED
  BY <1>1, <1>2, <1>3, <1>4, <1>5, <1>6, <1>7, <1>8, <1>9, <1>10, <1>11, <1>12, <1>13, <1>14, <1>15, <1>16, <1>17, <1>18, <1>19, <1>20, <1>21, <1>22, <1>23, <1>24, <1>25, <1>26 DEF Next, Acquire, Unwind

\* Each callback has its depth.
LEMMA Depths ==
    ASSUME DepthInv, NEW c, Leave(c)
    PROVE  /\ pc = "unwind" /\ pc' = "unwind" /\ request' = request
           /\ c = "tmpFile" => Len(exits) = 13 /\ Len(exits') = 12
           /\ c = "output" => Len(exits) = 12 /\ Len(exits') = 11
           /\ c = "log" => Len(exits) = 11 /\ Len(exits') = 10
           /\ c = "cli" => Len(exits) = 10 /\ Len(exits') = 9
           /\ c = "handler" => Len(exits) = 9 /\ Len(exits') = 8
           /\ c = "flush" => Len(exits) = 8 /\ Len(exits') = 7
           /\ c = "root" => Len(exits) = 7 /\ Len(exits') = 6
           /\ c = "env" => Len(exits) = 6 /\ Len(exits') = 5
           /\ c = "fd2" => Len(exits) = 5 /\ Len(exits') = 4
           /\ c = "fd1" => Len(exits) = 4 /\ Len(exits') = 3
           /\ c = "stderr" => Len(exits) = 3 /\ Len(exits') = 2
           /\ c = "stdout" => Len(exits) = 2 /\ Len(exits') = 1
           /\ c = "stdin" => Len(exits) = 1 /\ Len(exits') = 0
<1>1. Len(exits) \in 1..13 /\ Len(exits') = Len(exits) - 1 /\ c = Order[Len(exits)]
  BY Left
<1>2. pc = "unwind" /\ pc' = "unwind" /\ request' = request
  BY DEF Leave
<1>3. \/ Len(exits) = 1 /\ Len(exits') = 0 /\ c = "stdin"
      \/ Len(exits) = 2 /\ Len(exits') = 1 /\ c = "stdout"
      \/ Len(exits) = 3 /\ Len(exits') = 2 /\ c = "stderr"
      \/ Len(exits) = 4 /\ Len(exits') = 3 /\ c = "fd1"
      \/ Len(exits) = 5 /\ Len(exits') = 4 /\ c = "fd2"
      \/ Len(exits) = 6 /\ Len(exits') = 5 /\ c = "env"
      \/ Len(exits) = 7 /\ Len(exits') = 6 /\ c = "root"
      \/ Len(exits) = 8 /\ Len(exits') = 7 /\ c = "flush"
      \/ Len(exits) = 9 /\ Len(exits') = 8 /\ c = "handler"
      \/ Len(exits) = 10 /\ Len(exits') = 9 /\ c = "cli"
      \/ Len(exits) = 11 /\ Len(exits') = 10 /\ c = "log"
      \/ Len(exits) = 12 /\ Len(exits') = 11 /\ c = "output"
      \/ Len(exits) = 13 /\ Len(exits') = 12 /\ c = "tmpFile"
  <2>1. \A k \in 1..13 : \/ k = 1 \/ k = 2 \/ k = 3 \/ k = 4 \/ k = 5 \/ k = 6 \/ k = 7
                         \/ k = 8 \/ k = 9 \/ k = 10 \/ k = 11 \/ k = 12 \/ k = 13
    OBVIOUS
  <2>2. PICK k \in 1..13 : k = Len(exits)
    BY <1>1
  <2>3. c = Order[k] /\ Len(exits') = k - 1
    BY <1>1, <2>2
  <2>4. \/ k = 1 /\ Len(exits') = 0 /\ c = "stdin"
        \/ k = 2 /\ Len(exits') = 1 /\ c = "stdout"
        \/ k = 3 /\ Len(exits') = 2 /\ c = "stderr"
        \/ k = 4 /\ Len(exits') = 3 /\ c = "fd1"
        \/ k = 5 /\ Len(exits') = 4 /\ c = "fd2"
        \/ k = 6 /\ Len(exits') = 5 /\ c = "env"
        \/ k = 7 /\ Len(exits') = 6 /\ c = "root"
        \/ k = 8 /\ Len(exits') = 7 /\ c = "flush"
        \/ k = 9 /\ Len(exits') = 8 /\ c = "handler"
        \/ k = 10 /\ Len(exits') = 9 /\ c = "cli"
        \/ k = 11 /\ Len(exits') = 10 /\ c = "log"
        \/ k = 12 /\ Len(exits') = 11 /\ c = "output"
        \/ k = 13 /\ Len(exits') = 12 /\ c = "tmpFile"
    BY <2>1, <2>3 DEF Order
  <2>5. QED
    BY <2>2, <2>4
<1>4. QED
  BY <1>2, <1>3

LEMMA TypeStep ==
    ASSUME TypeInv, PropsInv, [Next]_vars
    PROVE  TypeInv'
<1>1. ASSUME NEW j \in Jobs, NEW r \in Requests, Begin(j, r) PROVE TypeInv'
  BY <1>1 DEF Begin, TypeInv, Goto, logVars, componentVars, outputVars
<1>2. CASE ReceiveStreams
  BY <1>2 DEF ReceiveStreams, TypeInv, Goto, logVars, componentVars, outputVars
<1>3. CASE ReplaceFd("fd1", "replace1", "replace2")
  BY <1>3 DEF ReplaceFd, TypeInv, Goto, logVars, componentVars, outputVars
<1>4. CASE ReplaceFd("fd2", "replace2", "parse")
  BY <1>4 DEF ReplaceFd, TypeInv, Goto, logVars, componentVars, outputVars
<1>5. CASE Parse
  BY <1>5, RequestsAssumption DEF Parse, TypeInv, Goto, From, logVars, componentVars, outputVars
<1>6. CASE ConfigLogging
  <2>1. LevelFor(request.verbose, envLevel) \in LogLevels
    BY <1>6, Levels DEF ConfigLogging, TypeInv
  <2>2. rootLevel' \in LevelNumbers /\ cliLevel' \in LevelNumbers /\ handler' \in LevelNumbers
    BY <1>6, <2>1, Levels DEF ConfigLogging, SetLevels, TypeInv
  <2>3. saved' = [env |-> envLevel, root |-> rootLevel, cli |-> cliLevel]
    BY <1>6 DEF ConfigLogging, SetLevels
  <2>4. envLevel' \in LogLevels
    BY <1>6, <2>1 DEF ConfigLogging, SetLevels
  <2>5. QED
    BY <1>6, <2>2, <2>3, <2>4 DEF ConfigLogging, TypeInv, Goto, componentVars, outputVars
<1>7. CASE KeepComponent
  BY <1>7 DEF KeepComponent, TypeInv, Goto, logVars, componentVars, outputVars
<1>8. CASE LoadDescriptor
  <2>1. request.descriptor \in Descriptors
    BY <1>8, RequestsAssumption DEF LoadDescriptor, LoadDescriptorWhen, TypeInv
  <2>2. envLevel' \in LogLevels \cup {None}
    BY <1>8, <2>1, DescriptorsAssumption DEF LoadDescriptor, LoadDescriptorWhen, TypeInv
  <2>3. DOMAIN envProps' \subseteq Props
    BY <1>8, <2>1, DescriptorsAssumption DEF LoadDescriptor, LoadDescriptorWhen, TypeInv, Over, From
  <2>4. QED
    BY <1>8, <2>1, <2>2, <2>3 DEF LoadDescriptor, LoadDescriptorWhen, TypeInv, Goto, outputVars
<1>9. CASE CreateComponent
  BY <1>9 DEF CreateComponent, TypeInv, Goto, logVars, componentVars, outputVars
<1>10. CASE OpenRunner
  BY <1>10 DEF OpenRunner, TypeInv, Goto, logVars, componentVars, outputVars
<1>11. CASE Prepare
  <2>1. request \in Requests /\ DefaultsOf[descriptor] \subseteq Props
    BY <1>11, DescriptorsAssumption DEF Prepare, TypeInv, PropsInv
  <2>2. DOMAIN props' \subseteq Props
    BY <1>11, <2>1, RequestsAssumption DEF Prepare, TypeInv, Over, From
  <2>3. tmpFile' \in BOOLEAN
    BY <1>11, <2>1, RequestsAssumption DEF Prepare
  <2>4. QED
    BY <1>11, <2>2, <2>3 DEF Prepare, TypeInv, Goto, logVars, componentVars
<1>12. CASE RunJob
  BY <1>12 DEF RunJob, TypeInv, Goto, logVars, componentVars, outputVars
<1>13. CASE Raise
  BY <1>13 DEF Raise, TypeInv, Goto, logVars, componentVars, outputVars
<1>14. CASE LoadDescriptorFails
  <2>1. request.descriptor \in Descriptors
    BY <1>14, RequestsAssumption DEF LoadDescriptorFails, TypeInv
  <2>2. envLevel' \in LogLevels \cup {None}
    BY <1>14, <2>1, DescriptorsAssumption DEF LoadDescriptorFails, TypeInv
  <2>3. DOMAIN envProps' \subseteq Props
    BY <1>14, <2>1, DescriptorsAssumption DEF LoadDescriptorFails, TypeInv, Over, From
  <2>4. QED
    BY <1>14, <2>1, <2>2, <2>3 DEF LoadDescriptorFails, TypeInv, Goto, outputVars
<1>15. CASE DeleteTmpFile
  BY <1>15 DEF DeleteTmpFile, Leave, MayRaise, TypeInv, logVars, componentVars
<1>16. CASE CloseOutput
  BY <1>16 DEF CloseOutput, Leave, MayRaise, TypeInv, logVars, componentVars
<1>17. CASE LogException
  BY <1>17 DEF LogException, Leave, MayRaise, TypeInv, logVars, outputVars, componentVars
<1>18. CASE RestoreCliLevel
  BY <1>18 DEF RestoreCliLevel, Leave, MayRaise, TypeInv, outputVars, componentVars
<1>19. CASE RemoveHandler
  BY <1>19 DEF RemoveHandler, Leave, MayRaise, TypeInv, outputVars, componentVars
<1>20. CASE FlushHandler
  BY <1>20, ZenonT(60) DEF FlushHandler, Leave, MayRaise, TypeInv, logVars, outputVars, componentVars
<1>21. CASE RestoreRootLevel
  BY <1>21 DEF RestoreRootLevel, Leave, MayRaise, TypeInv, outputVars, componentVars
<1>22. CASE RestoreEnvLevel
  BY <1>22 DEF RestoreEnvLevel, Leave, MayRaise, TypeInv, outputVars, componentVars
<1>23. ASSUME NEW n \in Fds, RestoreFd(n) PROVE TypeInv'
  BY <1>23, ZenonT(60) DEF RestoreFd, Leave, MayRaise, TypeInv, logVars, outputVars, componentVars
<1>24. ASSUME NEW s \in Streams, CloseStream(s) PROVE TypeInv'
  BY <1>24, ZenonT(60) DEF CloseStream, Leave, MayRaise, TypeInv, logVars, outputVars, componentVars
<1>25. CASE Reply
  BY <1>25, ZenonT(60) DEF Reply, TypeInv, Goto, logVars, componentVars, outputVars
<1>26. CASE UNCHANGED vars
  BY <1>26 DEF vars, logVars, componentVars, outputVars, TypeInv
<1>27. QED
  BY <1>1, <1>2, <1>3, <1>4, <1>5, <1>6, <1>7, <1>8, <1>9, <1>10, <1>11, <1>12, <1>13, <1>14, <1>15, <1>16, <1>17, <1>18, <1>19, <1>20, <1>21, <1>22, <1>23, <1>24, <1>25, <1>26 DEF Next, Acquire, Unwind

\* What is lent is given back with the callback of it.
LEMMA LentStep ==
    ASSUME TypeInv, DepthInv, DepthInv', LentInv, [Next]_vars
    PROVE  LentInv'
<1>1. ASSUME NEW j \in Jobs, NEW r \in Requests, Begin(j, r) PROVE LentInv'
  <2>1. Len(exits) = 0 /\ Len(exits') = 0
    BY <1>1 DEF Begin, DepthInv, Goto
  <2>2. QED
    BY <1>1, <2>1 DEF Begin, DepthInv, Goto, TypeInv, outputVars, Streams, Fds, LentInv
<1>2. CASE ReceiveStreams
  <2>1. Len(exits) = 0 /\ Len(exits') = 3
    BY <1>2 DEF ReceiveStreams, DepthInv, Goto
  <2>2. QED
    BY <1>2, <2>1 DEF ReceiveStreams, DepthInv, Goto, TypeInv, outputVars, Streams, Fds, LentInv
<1>3. CASE ReplaceFd("fd1", "replace1", "replace2")
  <2>1. Len(exits) = 3 /\ Len(exits') = 4
    BY <1>3 DEF ReplaceFd, DepthInv, Goto
  <2>2. QED
    BY <1>3, <2>1 DEF ReplaceFd, DepthInv, Goto, TypeInv, outputVars, Streams, Fds, LentInv
<1>4. CASE ReplaceFd("fd2", "replace2", "parse")
  <2>1. Len(exits) = 4 /\ Len(exits') = 5
    BY <1>4 DEF ReplaceFd, DepthInv, Goto
  <2>2. QED
    BY <1>4, <2>1 DEF ReplaceFd, DepthInv, Goto, TypeInv, outputVars, Streams, Fds, LentInv
<1>5. CASE Parse
  <2>1. Len(exits) = 5 /\ Len(exits') = 5
    BY <1>5 DEF Parse, DepthInv, Goto
  <2>2. QED
    BY <1>5, <2>1 DEF Parse, DepthInv, Goto, TypeInv, outputVars, Streams, Fds, LentInv
<1>6. CASE ConfigLogging
  <2>1. Len(exits) = 5 /\ Len(exits') = 11
    BY <1>6 DEF ConfigLogging, SetLevels, DepthInv, Goto
  <2>2. QED
    BY <1>6, <2>1 DEF ConfigLogging, SetLevels, DepthInv, Goto, TypeInv, outputVars, Streams, Fds, LentInv
<1>7. CASE KeepComponent
  <2>1. Len(exits) = 11 /\ Len(exits') = 11
    BY <1>7 DEF KeepComponent, DepthInv, Goto
  <2>2. QED
    BY <1>7, <2>1 DEF KeepComponent, DepthInv, Goto, TypeInv, outputVars, Streams, Fds, LentInv
<1>8. CASE LoadDescriptor
  <2>1. Len(exits) = 11 /\ Len(exits') = 11
    BY <1>8 DEF LoadDescriptor, LoadDescriptorWhen, DepthInv, Goto
  <2>2. QED
    BY <1>8, <2>1 DEF LoadDescriptor, LoadDescriptorWhen, DepthInv, Goto, TypeInv, outputVars, Streams, Fds, LentInv
<1>9. CASE CreateComponent
  <2>1. Len(exits) = 11 /\ Len(exits') = 11
    BY <1>9 DEF CreateComponent, DepthInv, Goto
  <2>2. QED
    BY <1>9, <2>1 DEF CreateComponent, DepthInv, Goto, TypeInv, outputVars, Streams, Fds, LentInv
<1>10. CASE OpenRunner
  <2>1. Len(exits) = 11 /\ Len(exits') = 12
    BY <1>10 DEF OpenRunner, DepthInv, Goto
  <2>2. QED
    BY <1>10, <2>1 DEF OpenRunner, DepthInv, Goto, TypeInv, outputVars, Streams, Fds, LentInv
<1>11. CASE Prepare
  <2>1. Len(exits) = 12 /\ exits \in Seq(Callbacks)
    BY <1>11 DEF Prepare, DepthInv, InOrder
  <2>2. request.copiesVideo => Len(exits') = 13
    <3>1. request.copiesVideo => exits' = exits \o <<"tmpFile">>
      BY <1>11 DEF Prepare, Push
    <3>2. Len(exits \o <<"tmpFile">>) = 13
      <4> DEFINE t == <<"tmpFile">>
      <4>1. t \in Seq(Callbacks) /\ Len(t) = 1
        BY DEF Callbacks
      <4> HIDE DEF t
      <4>2. Len(exits \o t) = Len(exits) + Len(t)
        BY <2>1, <4>1, ConcatProperties
      <4>3. Len(exits \o t) = 13
        BY <2>1, <4>1, <4>2
      <4>4. QED
        BY <4>3 DEF t
    <3>3. QED
      BY <3>1, <3>2
  <2>3. request.copiesVideo \in BOOLEAN
    BY <1>11, RequestsAssumption DEF Prepare, TypeInv
  <2>4. Len(exits') = 12 \/ Len(exits') = 13
    BY <1>11 DEF Prepare, DepthInv, Goto
  <2>5. CASE Len(exits') = 12
    BY <1>11, <2>1, <2>2, <2>3, <2>5 DEF Prepare, LentInv
  <2>6. CASE Len(exits') = 13
    BY <1>11, <2>1, <2>3, <2>6 DEF Prepare, LentInv
  <2>7. QED
    BY <2>4, <2>5, <2>6
<1>12. CASE RunJob
  <2>1. (Len(exits) = 12 \/ Len(exits) = 13) /\ exits' = exits
    BY <1>12 DEF RunJob, DepthInv
  <2>2. raised => raised'
    BY <1>12 DEF RunJob
  <2>3. CASE Len(exits) = 12
    BY <1>12, <2>1, <2>2, <2>3 DEF RunJob, LentInv
  <2>4. CASE Len(exits) = 13
    BY <1>12, <2>1, <2>2, <2>4 DEF RunJob, LentInv
  <2>5. QED
    BY <2>1, <2>3, <2>4
<1>13. CASE Raise
  BY <1>13 DEF Raise, DepthInv, LentInv, TypeInv, Goto, Streams, Fds, outputVars
<1>14. CASE LoadDescriptorFails
  <2>1. Len(exits) = 11 /\ Len(exits') = 11
    BY <1>14 DEF LoadDescriptorFails, DepthInv, Goto
  <2>2. QED
    BY <1>14, <2>1 DEF LoadDescriptorFails, DepthInv, Goto, TypeInv, outputVars, Streams, Fds, LentInv
<1>15. CASE DeleteTmpFile
  <2>1. Len(exits) = 13 /\ Len(exits') = 12
    BY <1>15, Depths DEF DeleteTmpFile
  <2>2. QED
    BY <1>15, <2>1 DEF DeleteTmpFile, Leave, MayRaise, TypeInv, outputVars, Streams, Fds, LentInv
<1>16. CASE CloseOutput
  <2>1. Len(exits) = 12 /\ Len(exits') = 11
    BY <1>16, Depths DEF CloseOutput
  <2>2. QED
    BY <1>16, <2>1 DEF CloseOutput, Leave, MayRaise, TypeInv, outputVars, Streams, Fds, LentInv
<1>17. CASE LogException
  <2>1. Len(exits) = 11 /\ Len(exits') = 10
    BY <1>17, Depths DEF LogException
  <2>2. QED
    BY <1>17, <2>1 DEF LogException, Leave, MayRaise, TypeInv, outputVars, Streams, Fds, LentInv
<1>18. CASE RestoreCliLevel
  <2>1. Len(exits) = 10 /\ Len(exits') = 9
    BY <1>18, Depths DEF RestoreCliLevel
  <2>2. QED
    BY <1>18, <2>1 DEF RestoreCliLevel, Leave, MayRaise, TypeInv, outputVars, Streams, Fds, LentInv
<1>19. CASE RemoveHandler
  <2>1. Len(exits) = 9 /\ Len(exits') = 8
    BY <1>19, Depths DEF RemoveHandler
  <2>2. QED
    BY <1>19, <2>1 DEF RemoveHandler, Leave, MayRaise, TypeInv, outputVars, Streams, Fds, LentInv
<1>20. CASE FlushHandler
  <2>1. Len(exits) = 8 /\ Len(exits') = 7
    BY <1>20, Depths DEF FlushHandler
  <2>2. QED
    BY <1>20, <2>1 DEF FlushHandler, Leave, MayRaise, TypeInv, outputVars, Streams, Fds, LentInv
<1>21. CASE RestoreRootLevel
  <2>1. Len(exits) = 7 /\ Len(exits') = 6
    BY <1>21, Depths DEF RestoreRootLevel
  <2>2. QED
    BY <1>21, <2>1 DEF RestoreRootLevel, Leave, MayRaise, TypeInv, outputVars, Streams, Fds, LentInv
<1>22. CASE RestoreEnvLevel
  <2>1. Len(exits) = 6 /\ Len(exits') = 5
    BY <1>22, Depths DEF RestoreEnvLevel
  <2>2. QED
    BY <1>22, <2>1 DEF RestoreEnvLevel, Leave, MayRaise, TypeInv, outputVars, Streams, Fds, LentInv
<1>23. ASSUME NEW n \in Fds, RestoreFd(n) PROVE LentInv'
  <2>1. CASE n = "fd1"
    <3>1. Leave("fd1")
      BY <1>23, <2>1 DEF RestoreFd
    <3>2. Len(exits) = 4 /\ Len(exits') = 3
      BY <3>1, Depths
    <3>3. raised => raised'
      BY <1>23 DEF RestoreFd, MayRaise, TypeInv
    <3>4. QED
      BY <1>23, <2>1, <3>2, <3>3 DEF RestoreFd, Leave, MayRaise, TypeInv, outputVars, Streams, Fds, LentInv
  <2>2. CASE n = "fd2"
    <3>1. Leave("fd2")
      BY <1>23, <2>2 DEF RestoreFd
    <3>2. Len(exits) = 5 /\ Len(exits') = 4
      BY <3>1, Depths
    <3>3. raised => raised'
      BY <1>23 DEF RestoreFd, MayRaise, TypeInv
    <3>4. QED
      BY <1>23, <2>2, <3>2, <3>3 DEF RestoreFd, Leave, MayRaise, TypeInv, outputVars, Streams, Fds, LentInv
  <2>3. QED
    BY <2>1, <2>2 DEF Fds
<1>24. ASSUME NEW s \in Streams, CloseStream(s) PROVE LentInv'
  <2>1. CASE s = "stdin"
    <3>1. Leave("stdin")
      BY <1>24, <2>1 DEF CloseStream
    <3>2. Len(exits) = 1 /\ Len(exits') = 0
      BY <3>1, Depths
    <3>3. raised => raised'
      BY <1>24 DEF CloseStream, MayRaise, TypeInv
    <3>4. QED
      BY <1>24, <2>1, <3>2, <3>3 DEF CloseStream, Leave, MayRaise, TypeInv, outputVars, Streams, Fds, LentInv
  <2>2. CASE s = "stdout"
    <3>1. Leave("stdout")
      BY <1>24, <2>2 DEF CloseStream
    <3>2. Len(exits) = 2 /\ Len(exits') = 1
      BY <3>1, Depths
    <3>3. raised => raised'
      BY <1>24 DEF CloseStream, MayRaise, TypeInv
    <3>4. QED
      BY <1>24, <2>2, <3>2, <3>3 DEF CloseStream, Leave, MayRaise, TypeInv, outputVars, Streams, Fds, LentInv
  <2>3. CASE s = "stderr"
    <3>1. Leave("stderr")
      BY <1>24, <2>3 DEF CloseStream
    <3>2. Len(exits) = 3 /\ Len(exits') = 2
      BY <3>1, Depths
    <3>3. raised => raised'
      BY <1>24 DEF CloseStream, MayRaise, TypeInv
    <3>4. QED
      BY <1>24, <2>3, <3>2, <3>3 DEF CloseStream, Leave, MayRaise, TypeInv, outputVars, Streams, Fds, LentInv
  <2>4. QED
    BY <2>1, <2>2, <2>3 DEF Streams
<1>25. CASE Reply
  BY <1>25 DEF Reply, DepthInv, LentInv, TypeInv, Goto, Streams, Fds, outputVars
<1>26. CASE UNCHANGED vars
  BY <1>26 DEF vars, outputVars, LentInv
<1>27. QED
  BY <1>1, <1>2, <1>3, <1>4, <1>5, <1>6, <1>7, <1>8, <1>9, <1>10, <1>11, <1>12, <1>13, <1>14, <1>15, <1>16, <1>17, <1>18, <1>19, <1>20, <1>21, <1>22, <1>23, <1>24, <1>25, <1>26 DEF Next, Acquire, Unwind

\* The levels are those of the executor up to config_job_logging and after it.
LEMMA LevelStep ==
    ASSUME TypeInv, DepthInv, DepthInv', LevelInv, [Next]_vars
    PROVE  LevelInv'
<1>1. ASSUME NEW j \in Jobs, NEW r \in Requests, Begin(j, r) PROVE LevelInv'
  <2>1. Len(exits) = 0 /\ Len(exits') = 0
    BY <1>1 DEF Begin, DepthInv, Goto
  <2>2. QED
    BY <1>1, <2>1 DEF Begin, logVars, LevelInv
<1>2. CASE ReceiveStreams
  <2>1. Len(exits) = 0 /\ Len(exits') = 3
    BY <1>2 DEF ReceiveStreams, DepthInv, Goto
  <2>2. QED
    BY <1>2, <2>1 DEF ReceiveStreams, logVars, LevelInv
<1>3. CASE ReplaceFd("fd1", "replace1", "replace2")
  <2>1. Len(exits) = 3 /\ Len(exits') = 4
    BY <1>3 DEF ReplaceFd, DepthInv, Goto
  <2>2. QED
    BY <1>3, <2>1 DEF ReplaceFd, logVars, LevelInv
<1>4. CASE ReplaceFd("fd2", "replace2", "parse")
  <2>1. Len(exits) = 4 /\ Len(exits') = 5
    BY <1>4 DEF ReplaceFd, DepthInv, Goto
  <2>2. QED
    BY <1>4, <2>1 DEF ReplaceFd, logVars, LevelInv
<1>5. CASE Parse
  <2>1. Len(exits) = 5 /\ Len(exits') = 5
    BY <1>5 DEF Parse, DepthInv, Goto
  <2>2. QED
    BY <1>5, <2>1 DEF Parse, logVars, LevelInv
<1>6. CASE ConfigLogging
  <2>1. Len(exits) = 5 /\ Len(exits') = 11
    BY <1>6 DEF ConfigLogging, DepthInv, Goto
  <2> DEFINE name == LevelFor(request.verbose, ExecutorLevel)
  <2>2. /\ handler' = LevelInt[name] /\ request' = request
        /\ saved' = [env |-> ExecutorLevel, root |-> RootLevel, cli |-> CliLevel]
        /\ rootLevel' = Lower(RootLevel, LevelInt[name])
        /\ cliLevel' = Lower(CliLevel, LevelInt[name])
    BY <1>6, <2>1 DEF ConfigLogging, SetLevels, LevelInv
  <2>3. LevelInt[name] \in LevelNumbers
    BY <1>6, Levels DEF ConfigLogging, TypeInv
  <2> HIDE DEF name
  <2>4. rootLevel' <= handler' /\ cliLevel' <= handler'
    BY <2>2, <2>3, Levels
  <2>5. QED
    BY <2>1, <2>2, <2>4 DEF LevelInv, name
<1>7. CASE KeepComponent
  <2>1. Len(exits) = 11 /\ Len(exits') = 11
    BY <1>7 DEF KeepComponent, DepthInv, Goto
  <2>2. QED
    BY <1>7, <2>1 DEF KeepComponent, logVars, LevelInv
<1>8. CASE LoadDescriptor
  <2>1. Len(exits) = 11 /\ Len(exits') = 11
    BY <1>8 DEF LoadDescriptor, LoadDescriptorWhen, DepthInv, Goto
  <2>2. QED
    BY <1>8, <2>1 DEF LoadDescriptor, LoadDescriptorWhen, logVars, LevelInv
<1>9. CASE CreateComponent
  <2>1. Len(exits) = 11 /\ Len(exits') = 11
    BY <1>9 DEF CreateComponent, DepthInv, Goto
  <2>2. QED
    BY <1>9, <2>1 DEF CreateComponent, logVars, LevelInv
<1>10. CASE OpenRunner
  <2>1. Len(exits) = 11 /\ Len(exits') = 12
    BY <1>10 DEF OpenRunner, DepthInv, Goto
  <2>2. QED
    BY <1>10, <2>1 DEF OpenRunner, logVars, LevelInv
<1>11. CASE Prepare
  <2>1. Len(exits) = 12 /\ (Len(exits') = 12 \/ Len(exits') = 13)
    BY <1>11 DEF Prepare, DepthInv, Goto
  <2>2. CASE Len(exits') = 12
    BY <1>11, <2>1, <2>2 DEF Prepare, LevelInv, logVars
  <2>3. CASE Len(exits') = 13
    BY <1>11, <2>1, <2>3 DEF Prepare, LevelInv, logVars
  <2>4. QED
    BY <2>1, <2>2, <2>3
<1>12. CASE RunJob
  BY <1>12 DEF RunJob, DepthInv, LevelInv, Goto, logVars
<1>13. CASE Raise
  BY <1>13 DEF Raise, DepthInv, LevelInv, Goto, logVars
<1>14. CASE LoadDescriptorFails
  <2>1. Len(exits) = 11 /\ Len(exits') = 11
    BY <1>14 DEF LoadDescriptorFails, DepthInv, Goto
  <2>2. QED
    BY <1>14, <2>1 DEF LoadDescriptorFails, logVars, LevelInv
<1>15. CASE DeleteTmpFile
  <2>1. Len(exits) = 13 /\ Len(exits') = 12
    BY <1>15, Depths DEF DeleteTmpFile
  <2>2. QED
    BY <1>15, <2>1 DEF DeleteTmpFile, Leave, logVars, LevelInv
<1>16. CASE CloseOutput
  <2>1. Len(exits) = 12 /\ Len(exits') = 11
    BY <1>16, Depths DEF CloseOutput
  <2>2. QED
    BY <1>16, <2>1 DEF CloseOutput, Leave, logVars, LevelInv
<1>17. CASE LogException
  <2>1. Len(exits) = 11 /\ Len(exits') = 10
    BY <1>17, Depths DEF LogException
  <2>2. QED
    BY <1>17, <2>1 DEF LogException, Leave, logVars, LevelInv
<1>18. CASE RestoreCliLevel
  <2>1. Len(exits) = 10 /\ Len(exits') = 9
    BY <1>18, Depths DEF RestoreCliLevel
  <2>2. QED
    BY <1>18, <2>1 DEF RestoreCliLevel, Leave, logVars, LevelInv
<1>19. CASE RemoveHandler
  <2>1. Len(exits) = 9 /\ Len(exits') = 8
    BY <1>19, Depths DEF RemoveHandler
  <2>2. QED
    BY <1>19, <2>1 DEF RemoveHandler, Leave, logVars, LevelInv
<1>20. CASE FlushHandler
  <2>1. Len(exits) = 8 /\ Len(exits') = 7
    BY <1>20, Depths DEF FlushHandler
  <2>2. QED
    BY <1>20, <2>1 DEF FlushHandler, Leave, logVars, LevelInv
<1>21. CASE RestoreRootLevel
  <2>1. Len(exits) = 7 /\ Len(exits') = 6
    BY <1>21, Depths DEF RestoreRootLevel
  <2>2. QED
    BY <1>21, <2>1 DEF RestoreRootLevel, Leave, logVars, LevelInv
<1>22. CASE RestoreEnvLevel
  <2>1. Len(exits) = 6 /\ Len(exits') = 5
    BY <1>22, Depths DEF RestoreEnvLevel
  <2>2. QED
    BY <1>22, <2>1 DEF RestoreEnvLevel, Leave, logVars, LevelInv
<1>23. ASSUME NEW n \in Fds, RestoreFd(n) PROVE LevelInv'
  <2>1. CASE n = "fd1"
    <3>1. Leave("fd1")
      BY <1>23, <2>1 DEF RestoreFd
    <3>2. Len(exits) = 4 /\ Len(exits') = 3
      BY <3>1, Depths
    <3>3. QED
      BY <1>23, <2>1, <3>2 DEF RestoreFd, Leave, logVars, LevelInv
  <2>2. CASE n = "fd2"
    <3>1. Leave("fd2")
      BY <1>23, <2>2 DEF RestoreFd
    <3>2. Len(exits) = 5 /\ Len(exits') = 4
      BY <3>1, Depths
    <3>3. QED
      BY <1>23, <2>2, <3>2 DEF RestoreFd, Leave, logVars, LevelInv
  <2>3. QED
    BY <2>1, <2>2 DEF Fds
<1>24. ASSUME NEW s \in Streams, CloseStream(s) PROVE LevelInv'
  <2>1. CASE s = "stdin"
    <3>1. Leave("stdin")
      BY <1>24, <2>1 DEF CloseStream
    <3>2. Len(exits) = 1 /\ Len(exits') = 0
      BY <3>1, Depths
    <3>3. QED
      BY <1>24, <2>1, <3>2 DEF CloseStream, Leave, logVars, LevelInv
  <2>2. CASE s = "stdout"
    <3>1. Leave("stdout")
      BY <1>24, <2>2 DEF CloseStream
    <3>2. Len(exits) = 2 /\ Len(exits') = 1
      BY <3>1, Depths
    <3>3. QED
      BY <1>24, <2>2, <3>2 DEF CloseStream, Leave, logVars, LevelInv
  <2>3. CASE s = "stderr"
    <3>1. Leave("stderr")
      BY <1>24, <2>3 DEF CloseStream
    <3>2. Len(exits) = 3 /\ Len(exits') = 2
      BY <3>1, Depths
    <3>3. QED
      BY <1>24, <2>3, <3>2 DEF CloseStream, Leave, logVars, LevelInv
  <2>4. QED
    BY <2>1, <2>2, <2>3 DEF Streams
<1>25. CASE Reply
  BY <1>25 DEF Reply, DepthInv, LevelInv, Goto, logVars
<1>26. CASE UNCHANGED vars
  BY <1>26 DEF vars, logVars, LevelInv
<1>27. QED
  BY <1>1, <1>2, <1>3, <1>4, <1>5, <1>6, <1>7, <1>8, <1>9, <1>10, <1>11, <1>12, <1>13, <1>14, <1>15, <1>16, <1>17, <1>18, <1>19, <1>20, <1>21, <1>22, <1>23, <1>24, <1>25, <1>26 DEF Next, Acquire, Unwind

\* Where the properties come from, and that the component stays.
LEMMA PropsStep ==
    ASSUME TypeInv, DepthInv, PropsInv, [Next]_vars
    PROVE  PropsInv' /\ (component # None => UNCHANGED <<component, descriptor, envProps>>)
<1>1. ASSUME NEW j \in Jobs, NEW r \in Requests, Begin(j, r) PROVE PropsInv' /\ (component # None => UNCHANGED <<component, descriptor, envProps>>)
  BY <1>1 DEF Begin, PropsInv, PropsAreOwn, Goto, componentVars
<1>2. CASE ReceiveStreams
  BY <1>2 DEF ReceiveStreams, PropsInv, PropsAreOwn, Goto, componentVars
<1>3. CASE ReplaceFd("fd1", "replace1", "replace2")
  BY <1>3 DEF ReplaceFd, PropsInv, PropsAreOwn, Goto, componentVars
<1>4. CASE ReplaceFd("fd2", "replace2", "parse")
  BY <1>4 DEF ReplaceFd, PropsInv, PropsAreOwn, Goto, componentVars
<1>5. CASE Parse
  BY <1>5 DEF Parse, PropsInv, PropsAreOwn, Goto, componentVars
<1>6. CASE ConfigLogging
  BY <1>6 DEF ConfigLogging, SetLevels, PropsInv, PropsAreOwn, Goto, componentVars
<1>7. CASE KeepComponent
  BY <1>7 DEF KeepComponent, PropsInv, PropsAreOwn, Goto, componentVars
<1>8. CASE LoadDescriptor
  <2>1. \A p \in DOMAIN envProps' : envProps'[p][1] \in {"executor", "environment"}
    <3> DEFINE e == From("environment", request.descriptor, EnvOf[request.descriptor])
    <3>1. envProps' = Over(e, envProps)
      BY <1>8 DEF LoadDescriptor, LoadDescriptorWhen
    <3>2. \A p \in DOMAIN e : e[p][1] = "environment"
      BY DEF From
    <3> HIDE DEF e
    <3>3. QED
      BY <3>1, <3>2 DEF Over, PropsInv
  <2>2. descriptor' \in Descriptors /\ component = None
    BY <1>8, RequestsAssumption DEF LoadDescriptor, LoadDescriptorWhen, TypeInv
  <2>3. QED
    BY <1>8, <2>1, <2>2 DEF LoadDescriptor, LoadDescriptorWhen, PropsInv, PropsAreOwn, Goto
<1>9. CASE CreateComponent
  BY <1>9, NamesAssumption DEF CreateComponent, PropsInv, PropsAreOwn, Goto
<1>10. CASE OpenRunner
  BY <1>10 DEF OpenRunner, PropsInv, PropsAreOwn, Goto, componentVars
<1>11. CASE Prepare
  <2> DEFINE P == From("commandLine", job, request.commandLine)
             C == From("client", job, request.clientEnv)
             D == From("default", descriptor, DefaultsOf[descriptor])
  <2>1. /\ props' = Over(Over(Over(P, C), envProps), D)
        /\ request' = request /\ job' = job /\ pc' = "run" /\ descriptor = component
        /\ UNCHANGED <<component, descriptor, envProps>> /\ component # None
    BY <1>11 DEF Prepare, PropsInv, Goto, componentVars
  <2>2. /\ DOMAIN P = request.commandLine /\ DOMAIN C = request.clientEnv
        /\ \A p \in DOMAIN P : P[p] = <<"commandLine", job>>
        /\ \A p \in DOMAIN C : C[p] = <<"client", job>>
        /\ \A p \in DOMAIN D : D[p] = <<"default", component>>
    BY <2>1 DEF From
  <2> HIDE DEF P, C, D
  <2> DEFINE PC == Over(P, C)
             PE == Over(PC, envProps)
  <2>3. /\ DOMAIN PC = DOMAIN P \cup DOMAIN C
        /\ \A p \in DOMAIN P : PC[p] = P[p]
        /\ \A p \in DOMAIN C \ DOMAIN P : PC[p] = C[p]
    BY DEF Over
  <2> HIDE DEF PC
  <2>4. /\ DOMAIN PE = DOMAIN PC \cup DOMAIN envProps
        /\ \A p \in DOMAIN PC : PE[p] = PC[p]
        /\ \A p \in DOMAIN envProps \ DOMAIN PC : PE[p] = envProps[p]
    BY DEF Over
  <2> HIDE DEF PE
  <2>5. /\ DOMAIN props' = DOMAIN PE \cup DOMAIN D
        /\ \A p \in DOMAIN PE : props'[p] = PE[p]
        /\ \A p \in DOMAIN D \ DOMAIN PE : props'[p] = D[p]
    BY <2>1 DEF Over, PE, PC
  <2>6. \A p \in DOMAIN P : props'[p] = <<"commandLine", job>>
    BY <2>2, <2>3, <2>4, <2>5
  <2>7. \A p \in DOMAIN C \ DOMAIN P : props'[p] = <<"client", job>>
    BY <2>2, <2>3, <2>4, <2>5
  <2>8. \A p \in DOMAIN envProps \ DOMAIN PC :
            props'[p][1] \in {"executor", "environment"}
    BY <2>4, <2>5 DEF PropsInv
  <2>9. \A p \in DOMAIN D \ DOMAIN PE : props'[p] = <<"default", component>>
    BY <2>2, <2>5
  <2>10. ASSUME NEW p \in DOMAIN props'
         PROVE  /\ props'[p][1] \in {"commandLine", "client"} => props'[p][2] = job
                /\ props'[p][1] = "default" => props'[p][2] = component
    <3>1. CASE p \in DOMAIN P
      BY <2>6, <3>1
    <3>2. CASE p \in DOMAIN C \ DOMAIN P
      BY <2>7, <3>2
    <3>3. CASE p \in DOMAIN envProps \ DOMAIN PC
      BY <2>8, <3>3
    <3>4. CASE p \in DOMAIN D \ DOMAIN PE
      BY <2>9, <3>4
    <3>5. QED
      BY <2>3, <2>4, <2>5, <3>1, <3>2, <3>3, <3>4
  <2>11. PropsAreOwn'
    BY <2>1, <2>2, <2>6, <2>7, <2>10 DEF PropsAreOwn
  <2>12. QED
    BY <2>1, <2>11 DEF PropsInv
<1>12. CASE RunJob
  BY <1>12 DEF RunJob, PropsInv, PropsAreOwn, Goto, componentVars
<1>13. CASE Raise
  BY <1>13 DEF Raise, PropsInv, PropsAreOwn, Goto, componentVars
<1>14. CASE LoadDescriptorFails
  <2>1. \A p \in DOMAIN envProps' : envProps'[p][1] \in {"executor", "environment"}
    <3> DEFINE e(some) == From("environment", request.descriptor, some)
    <3>1. PICK some : envProps' = Over(e(some), envProps)
      BY <1>14 DEF LoadDescriptorFails
    <3>2. \A p \in DOMAIN e(some) : e(some)[p][1] = "environment"
      BY DEF From
    <3> HIDE DEF e
    <3>3. QED
      BY <3>1, <3>2 DEF Over, PropsInv
  <2>2. QED
    BY <1>14, <2>1 DEF LoadDescriptorFails, PropsInv, PropsAreOwn, Goto
<1>15. CASE DeleteTmpFile
  BY <1>15 DEF DeleteTmpFile, Leave, PropsInv, PropsAreOwn, componentVars
<1>16. CASE CloseOutput
  BY <1>16 DEF CloseOutput, Leave, PropsInv, PropsAreOwn, componentVars
<1>17. CASE LogException
  BY <1>17 DEF LogException, Leave, PropsInv, PropsAreOwn, componentVars
<1>18. CASE RestoreCliLevel
  BY <1>18 DEF RestoreCliLevel, Leave, PropsInv, PropsAreOwn, componentVars
<1>19. CASE RemoveHandler
  BY <1>19 DEF RemoveHandler, Leave, PropsInv, PropsAreOwn, componentVars
<1>20. CASE FlushHandler
  BY <1>20 DEF FlushHandler, Leave, PropsInv, PropsAreOwn, componentVars
<1>21. CASE RestoreRootLevel
  BY <1>21 DEF RestoreRootLevel, Leave, PropsInv, PropsAreOwn, componentVars
<1>22. CASE RestoreEnvLevel
  BY <1>22 DEF RestoreEnvLevel, Leave, PropsInv, PropsAreOwn, componentVars
<1>23. ASSUME NEW n \in Fds, RestoreFd(n) PROVE PropsInv' /\ (component # None => UNCHANGED <<component, descriptor, envProps>>)
  BY <1>23 DEF RestoreFd, Leave, PropsInv, PropsAreOwn, componentVars
<1>24. ASSUME NEW s \in Streams, CloseStream(s) PROVE PropsInv' /\ (component # None => UNCHANGED <<component, descriptor, envProps>>)
  BY <1>24 DEF CloseStream, Leave, PropsInv, PropsAreOwn, componentVars
<1>25. CASE Reply
  BY <1>25 DEF Reply, PropsInv, PropsAreOwn, Goto, componentVars
<1>26. CASE UNCHANGED vars
  BY <1>26 DEF vars, componentVars, PropsInv, PropsAreOwn
<1>27. QED
  BY <1>1, <1>2, <1>3, <1>4, <1>5, <1>6, <1>7, <1>8, <1>9, <1>10, <1>11, <1>12, <1>13, <1>14, <1>15, <1>16, <1>17, <1>18, <1>19, <1>20, <1>21, <1>22, <1>23, <1>24, <1>25, <1>26 DEF Next, Acquire, Unwind

-----------------------------------------------------------------------------
(* The theorems                                                             *)

SessionInv == TypeInv /\ DepthInv /\ LentInv /\ LevelInv /\ PropsInv

LEMMA Initially == Init => SessionInv
<1> SUFFICES ASSUME Init PROVE SessionInv
  OBVIOUS
<1>1. Len(exits) = 0 /\ InOrder(exits)
  BY DEF Init, InOrder
<1>2. TypeInv
  <2>1. DOMAIN envProps \subseteq Props /\ DOMAIN props \subseteq Props
    BY DescriptorsAssumption DEF Init, From
  <2>2. saved \in [env : LogLevels \cup {None}, root : LevelNumbers, cli : LevelNumbers]
    BY DescriptorsAssumption, Levels DEF Init
  <2>3. QED
    BY <2>1, <2>2, DescriptorsAssumption, Levels DEF Init, TypeInv
<1>3. DepthInv
  BY <1>1 DEF Init, DepthInv
<1>4. LentInv
  BY <1>1 DEF Init, LentInv, Streams, Fds
<1>5. LevelInv
  BY <1>1 DEF Init, LevelInv
<1>6. PropsInv
  BY NamesAssumption DEF Init, PropsInv, PropsAreOwn, From
<1>7. QED
  BY <1>2, <1>3, <1>4, <1>5, <1>6 DEF SessionInv

LEMMA SessionInvariant == Spec => []SessionInv
<1>1. ASSUME SessionInv, [Next]_vars PROVE SessionInv'
  <2>1. DepthInv'
    BY <1>1, DepthStep DEF SessionInv
  <2>2. QED
    BY <1>1, <2>1, TypeStep, LentStep, LevelStep, PropsStep DEF SessionInv
<1>2. QED
  BY Initially, <1>1, PTL DEF Spec

\* JobRequest and JobRunner leave every variable of its type.
THEOREM SessionTypes == Spec => []TypeOK
<1>1. SessionInv => TypeOK
  BY DEF SessionInv, TypeInv, DepthInv, InOrder, TypeOK
<1>2. QED
  BY <1>1, SessionInvariant, PTL

\* Whatever a job did and wherever it failed, the exit stacks have put the
\* process back as it was before it takes the next one.
THEOREM SessionRestores == Spec => []RestoredBetweenJobs
<1>1. SessionInv => RestoredBetweenJobs
  <2> SUFFICES ASSUME SessionInv, pc = "idle" PROVE RestoredBetweenJobs
    BY DEF RestoredBetweenJobs
  <2>1. Len(exits) = 0 /\ ~raised
    BY DEF SessionInv, DepthInv
  <2>2. exits = <<>>
    BY <2>1, EmptySeq DEF SessionInv, DepthInv, InOrder
  <2>3. \A n \in Fds : fd[n] = "server"
    BY <2>1 DEF SessionInv, LentInv, Fds
  <2>4. ~tmpFile
    BY <2>1 DEF SessionInv, LentInv
  <2>5. envLevel = ExecutorLevel /\ rootLevel = RootLevel /\ cliLevel = CliLevel /\ handler = None
    BY <2>1 DEF SessionInv, LevelInv
  <2>6. QED
    BY <2>1, <2>2, <2>3, <2>4, <2>5 DEF RestoredBetweenJobs
<1>2. QED
  BY <1>1, SessionInvariant, PTL

\* The client's log has the level it asked for, or that of the executor's own
\* environment, whatever the jobs before it and the descriptor set.
THEOREM SessionLevels == Spec => []SeesOwnLevel
<1>1. SessionInv => SeesOwnLevel
  <2> SUFFICES ASSUME SessionInv, "log" \in Range(exits) PROVE SeesOwnLevel
    BY DEF SeesOwnLevel
  <2>1. PICK i \in 1..Len(exits) : Order[i] = "log"
    <3>1. exits \in Seq(Callbacks) /\ \A i \in 1..Len(exits) : exits[i] = Order[i]
      BY DEF SessionInv, DepthInv, InOrder
    <3>2. DOMAIN exits = 1..Len(exits)
      BY <3>1
    <3>3. QED
      BY <3>1, <3>2 DEF Range
  <2>2. Len(exits) \in 0..13
    BY DEF SessionInv, DepthInv, InOrder
  <2>3. i = 11
    <3>1. \A k \in 1..13 : \/ k = 1 \/ k = 2 \/ k = 3 \/ k = 4 \/ k = 5 \/ k = 6 \/ k = 7
                           \/ k = 8 \/ k = 9 \/ k = 10 \/ k = 11 \/ k = 12 \/ k = 13
      OBVIOUS
    <3>2. i \in 1..13
      <4>1. PICK n \in 0..13 : n = Len(exits)
        BY <2>2
      <4>2. i \in 1..n
        BY <4>1
      <4>3. QED
        BY <4>2
    <3>3. QED
      BY <2>1, <3>1, <3>2 DEF Order
  <2>4. Len(exits) >= 11 /\ Len(exits) >= 9
    BY <2>2, <2>3
  <2>5. QED
    BY <2>4 DEF SessionInv, LevelInv, SeesOwnLevel
<1>2. QED
  BY <1>1, SessionInvariant, PTL

\* While the handler of config_job_logging is there the client's stderr is open.
THEOREM SessionLogs == Spec => []LogsToOpenStream
<1>1. SessionInv => LogsToOpenStream
  <2> SUFFICES ASSUME SessionInv, handler # None PROVE stream["stderr"] = "open"
    BY DEF LogsToOpenStream
  <2>1. Len(exits) \in 0..13 /\ ~(Len(exits) < 9)
    BY DEF SessionInv, LevelInv, DepthInv, InOrder
  <2>2. Len(exits) >= 3
    BY <2>1
  <2>3. QED
    BY <2>2 DEF SessionInv, LentInv
<1>2. QED
  BY <1>1, SessionInvariant, PTL

\* When the client has its byte its streams are closed and its output is written.
THEOREM SessionClosesFirst == Spec => []ClosedBeforeReply
<1>1. SessionInv => ClosedBeforeReply
  <2> SUFFICES ASSUME SessionInv, pc \in {"idle", "ended"} PROVE ClosedBeforeReply
    BY DEF ClosedBeforeReply
  <2>1. Len(exits) = 0
    BY DEF SessionInv, DepthInv
  <2>2. QED
    BY <2>1 DEF SessionInv, LentInv, ClosedBeforeReply, Streams
<1>2. QED
  BY <1>1, SessionInvariant, PTL

\* No job runs with the properties of another client or the defaults of a
\* component that is not the one that runs.
THEOREM SessionProps == Spec => []PropsAreOwn
<1>1. SessionInv => PropsAreOwn
  BY DEF SessionInv, PropsInv
<1>2. QED
  BY <1>1, SessionInvariant, PTL

\* Once loaded, the component and the environment of its descriptor stay.
THEOREM SessionSettles == Spec => ComponentSettled
<1>1. SessionInv /\ [Next]_vars
      => [component # None => UNCHANGED <<component, descriptor, envProps>>]_vars
  <2> SUFFICES ASSUME SessionInv, [Next]_vars
               PROVE  [component # None => UNCHANGED <<component, descriptor, envProps>>]_vars
    OBVIOUS
  <2>1. component # None => UNCHANGED <<component, descriptor, envProps>>
    BY PropsStep DEF SessionInv
  <2>2. QED
    BY <2>1
<1>2. QED
  BY <1>1, SessionInvariant, PTL DEF Spec, ComponentSettled

\* What is written of a job's results is what its component returned, in whichever
\* order it did: every track once, with each of its detections once, both sorted,
\* and with the earliest of the most confident detections as its exemplar.
THEOREM SessionFaithful == Spec => []FaithfulResults
<1> DEFINE Converted == found \in Seq(Tracks) /\ results = Convert(found)
           Empty == found = <<>> /\ results = <<>>
           WrittenInv == Converted \/ Empty
<1>1. Init => WrittenInv
  BY DEF Init
<1>2. WrittenInv /\ [Next]_vars => WrittenInv'
  <2> SUFFICES ASSUME WrittenInv, [Next]_vars PROVE WrittenInv'
    OBVIOUS
  <2>1. ASSUME NEW j \in Jobs, NEW r \in Requests, Begin(j, r) PROVE WrittenInv'
    BY <2>1 DEF Begin
  <2>2. CASE RunJob
    BY <2>2, ResultsAssumption DEF RunJob
  <2>3. CASE UNCHANGED <<found, results>>
    BY <2>3
  <2>4. Next => RunJob \/ UNCHANGED <<found, results>> \/ \E j \in Jobs, r \in Requests : Begin(j, r)
    BY DEF Next, Acquire, Unwind, outputVars, ReceiveStreams, ReplaceFd, Parse, ConfigLogging,
           KeepComponent, LoadDescriptor, LoadDescriptorWhen, LoadDescriptorFails,
           CreateComponent, OpenRunner, Prepare, Raise, Leave, DeleteTmpFile, CloseOutput,
           LogException, RestoreCliLevel, RemoveHandler, FlushHandler, RestoreRootLevel,
           RestoreEnvLevel, RestoreFd, CloseStream, Reply
  <2>5. QED
    BY <2>1, <2>2, <2>3, <2>4 DEF vars, outputVars
<1>3. WrittenInv => FaithfulResults
  <2>1. CASE Converted
    BY <2>1, ConvertIsFaithful DEF FaithfulResults
  <2>2. CASE Empty
    <3>1. DOMAIN results = {} /\ DOMAIN found = {} /\ Len(results) = Len(found)
      BY <2>2
    <3>2. [i \in {} |-> i] \in Bijection({}, {})
      BY DEF Bijection, Injection, Surjection, IsInjective
    <3>3. QED
      BY <3>1, <3>2 DEF FaithfulResults, Faithful
  <2>3. QED
    BY <2>1, <2>2
<1>4. QED
  BY <1>1, <1>2, <1>3, PTL DEF Spec

=============================================================================
