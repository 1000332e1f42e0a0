-------------------------- MODULE ExecutorContract --------------------------
(***************************************************************************)
(* What the component server and its executor processes promise each       *)
(* other, each executor being no more than the clients it was handed and   *)
(* the bytes it sent back.  ComponentServer builds its executors from the  *)
(* actions of this module; ExecutorRefinement shows that the two threads   *)
(* of ExecutorProcess implement them.                                      *)
(***************************************************************************)
EXTENDS Naturals

CONSTANTS
    Clients,
    NoClient,
    Executors

VARIABLES
    process,    \* each executor process, its death known to the server when reaped
    work,       \* what the executor is doing with a job
    inbox,      \* the clients in the executor's socket
    running,    \* the client in the executor's hands
    idleBytes,  \* bytes sent to the server and not read
    client,     \* each client's connection
    givenTo,    \* the executors a client's socket was ever sent to
    stopped     \* the server has left its loop, or is dead

handVars == <<inbox, running, work>>
contractVars == <<process, handVars, idleBytes, client, givenTo, stopped>>

\* The executor's end of its socket pair is open.
SocketOpen(e) == process[e] \in {"up", "closing"}
Alive(e) == process[e] \in {"up", "closing", "closed"}
Exited(e)  == process[e] \in {"exited", "reaped"}
Used(e) == \E c \in Clients : e \in givenTo[c]
\* The client an executor has in its hands and has not answered.
HeldBy(e) == IF work[e] = "busy" THEN running[e] ELSE NoClient
Lose(S) == client' = [c \in Clients |-> IF c \in S THEN "lost" ELSE client[c]]

Init ==
    /\ process \in [Executors -> {"none", "up"}]
    /\ work = [e \in Executors |-> "free"]
    /\ inbox = [e \in Executors |-> {}]
    /\ running = [e \in Executors |-> NoClient]
    /\ idleBytes = [e \in Executors |-> 0]
    /\ client \in [Clients -> {"away", "backlog", "accepted", "refused"}]
    /\ givenTo = [c \in Clients |-> {}]
    /\ stopped = FALSE

-----------------------------------------------------------------------------
(* The executors.  The runner is a daemon thread: until the process is gone *)
(* it may go on while the main thread is already closing what it uses.      *)

TakeJob(e) ==
    /\ SocketOpen(e) /\ work[e] = "free"
    /\ \E c \in inbox[e] :
        /\ running' = [running EXCEPT ![e] = c]
        /\ inbox' = [inbox EXCEPT ![e] = @ \ {c}]
    /\ work' = [work EXCEPT ![e] = "busy"]
    /\ UNCHANGED <<process, idleBytes, client, givenTo>>

\* The one byte, of success or of failure, is on its way to the client.
Reply(e) ==
    /\ Alive(e) /\ work[e] = "busy"
    /\ client' = [client EXCEPT ![running[e]] = "answered"]
    /\ work' = [work EXCEPT ![e] = "replied"]
    /\ UNCHANGED <<process, inbox, running, idleBytes, givenTo>>

SendIdle(e) ==
    /\ SocketOpen(e) /\ work[e] = "replied"
    /\ work' = [work EXCEPT ![e] = "free"]
    /\ running' = [running EXCEPT ![e] = NoClient]
    /\ idleBytes' = [idleBytes EXCEPT ![e] = @ + 1]
    /\ UNCHANGED <<process, inbox, client, givenTo>>

StartsToClose(e) ==
    /\ process[e] = "up"
    /\ process' = [process EXCEPT ![e] = "closing"]
    /\ UNCHANGED <<handVars, idleBytes, client, givenTo>>

\* select reports nothing for the idle timeout, or the end of the stream.
Retire(e) == work[e] = "free" /\ inbox[e] = {} /\ StartsToClose(e)

\* A rejected request, a failed reply, a client that left; or a signal, which has
\* then reached the server as well.  Nothing of the kind comes before the first job
\* while the server is at work.
Die(e) == (Used(e) \/ stopped) /\ StartsToClose(e)

\* The clients nobody took from the socket are dropped with it.
CloseSocket(e) ==
    /\ process[e] = "closing"
    /\ process' = [process EXCEPT ![e] = "closed"]
    /\ Lose(inbox[e])
    /\ inbox' = [inbox EXCEPT ![e] = {}]
    /\ UNCHANGED <<work, running, idleBytes, givenTo>>

Exit(e) ==
    /\ process[e] = "closed"
    /\ process' = [process EXCEPT ![e] = "exited"]
    /\ Lose({HeldBy(e)})
    /\ UNCHANGED <<handVars, idleBytes, givenTo>>

\* SIGTERM ends the process at once, unless its handler lets it close up (Die).
Terminate(e) ==
    /\ stopped
    /\ Alive(e)
    /\ process' = [process EXCEPT ![e] = "exited"]
    /\ Lose(inbox[e] \cup {HeldBy(e)})
    /\ inbox' = [inbox EXCEPT ![e] = {}]
    /\ UNCHANGED <<work, running, idleBytes, givenTo>>

ExecutorStep(e) ==
    \/ TakeJob(e) \/ Reply(e) \/ SendIdle(e) \/ Retire(e) \/ Die(e)
    \/ CloseSocket(e) \/ Exit(e) \/ Terminate(e)

-----------------------------------------------------------------------------
(* The server                                                               *)

Start(e) ==
    /\ process[e] = "none"
    /\ process' = [process EXCEPT ![e] = "up"]
    /\ UNCHANGED <<handVars, idleBytes, client, givenTo>>

\* An executor is handed a client only when it has nothing else to do and no
\* byte of its is left to read, and no client is handed over twice.
Hand(e, c) ==
    /\ SocketOpen(e) /\ work[e] = "free" /\ inbox[e] = {} /\ idleBytes[e] = 0
    /\ givenTo[c] = {}
    /\ inbox' = [inbox EXCEPT ![e] = {c}]
    /\ client' = [client EXCEPT ![c] = "given"]
    /\ givenTo' = [givenTo EXCEPT ![c] = {e}]
    /\ UNCHANGED <<process, work, running, idleBytes>>

ReadByte(e) ==
    /\ idleBytes[e] > 0
    /\ idleBytes' = [idleBytes EXCEPT ![e] = @ - 1]
    /\ UNCHANGED <<process, handVars, client, givenTo>>

\* A process is not waited for before it has closed its socket.
ReapAll(S) ==
    /\ \A e \in S : process[e] \in {"closed", "exited"}
    /\ process' = [e \in Executors |-> IF e \in S THEN "reaped" ELSE process[e]]
    /\ Lose({HeldBy(e) : e \in S})
    /\ UNCHANGED <<handVars, idleBytes, givenTo>>

\* Whatever server and clients do otherwise, no client with an executor is
\* answered or dropped by it, and a server that stopped stays so.
Elsewhere ==
    /\ UNCHANGED <<process, handVars, idleBytes, givenTo>>
    /\ client' \in [Clients -> {"away", "backlog", "accepted", "refused",
                                "given", "answered", "lost"}]
    /\ \A c \in Clients :
           \/ client'[c] = client[c]
           \/ givenTo[c] = {} /\ client'[c] \in {"away", "backlog", "accepted", "refused"}
    /\ stopped => stopped'

Next ==
    \/ \E e \in Executors : /\ ExecutorStep(e) \/ Start(e) \/ ReadByte(e)
                            /\ UNCHANGED stopped
    \/ ~stopped /\ UNCHANGED stopped /\ \E e \in Executors, c \in Clients : Hand(e, c)
    \/ UNCHANGED stopped /\ \E S \in SUBSET Executors : ReapAll(S)
    \/ Elsewhere

Spec == Init /\ [][Next]_contractVars
=============================================================================
