------------------------- MODULE ExecutorRefinement -------------------------
(***************************************************************************)
(* The executor with its two threads, its manager and its clients          *)
(* (ExecutorProcess), seen as one executor of ExecutorContract: the        *)
(* component server is modelled, and proved about, with executors that     *)
(* are no more than this.                                                  *)
(***************************************************************************)
EXTENDS ExecutorProcess

\* The one executor.
TheExecutor == 1

\* The runner or the watcher is on its way out.  A runner that replied and found
\* its sockets broken has yet to close JobSync.
Leaving == \/ pc["watcher"] \in {"closeComponent", "closeSocket"}
           \/ pc["runner"] = "done"
           \/ pc["runner"] = "closing" /\ job = NoJob

ProcessState == IF pc["watcher"] = "gone" THEN "exited"
                ELSE IF pc["watcher"] = "exit" THEN "closed"
                ELSE IF Leaving THEN "closing" ELSE "up"

Work == IF job = NoJob THEN "free" ELSE IF answer[job] = "none" THEN "busy" ELSE "replied"

\* A socket closed without an answer is lost to its client at once, but for that
\* of the runner's job, which is only given up with the process.
Dropped(j) == conn[j] = "closed" /\ (j # job \/ pc["watcher"] = "gone")

ClientState(j) == IF conn[j] = "server" THEN "away"
                  ELSE IF answer[j] # "none" THEN "answered"
                  ELSE IF Dropped(j) THEN "lost" ELSE "given"

Contract == INSTANCE ExecutorContract WITH
    Clients   <- Jobs,
    NoClient  <- NoJob,
    Executors <- {TheExecutor},
    process   <- [e \in {TheExecutor} |-> ProcessState],
    work      <- [e \in {TheExecutor} |-> Work],
    inbox     <- [e \in {TheExecutor} |-> Queued],
    running   <- [e \in {TheExecutor} |-> job],
    idleBytes <- [e \in {TheExecutor} |-> idleBytes],
    client    <- [j \in Jobs |-> ClientState(j)],
    givenTo   <- [j \in Jobs |-> IF conn[j] = "server" THEN {} ELSE {TheExecutor}],
    stopped   <- server # "serving"

\* The two threads do what the server is built on: a job in hand until its byte is
\* sent, the idle byte after it, the way out only when idle, after a first job or
\* with the server, and no client dropped but by closing the socket or exiting.
KeepsContract == Contract!Spec

=============================================================================
