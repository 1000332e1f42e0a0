--------------------------- MODULE ServerStartup ---------------------------
(***************************************************************************)
(* How clients find or start the component server (main in                 *)
(* mpf_cli_client.py, start_from_client in mpf_cli_server.py) and how a    *)
(* server started in this way goes away again.                             *)
(*                                                                         *)
(* All clients and servers share one address of Linux's abstract           *)
(* namespace.  A socket owns the address from bind until the last process  *)
(* that holds a descriptor of it closes it.  A socket is named here by the *)
(* client that created it; its server is the process that client forked.   *)
(***************************************************************************)
EXTENDS Naturals, FiniteSets

CONSTANTS
    Clients,      \* the clients, that is docker exec commands in one container
    TimeoutEnabled, \* FALSE: COMPONENT_SERVER_IDLE_TIMEOUT is negative
    ZeroTimeout   \* COMPONENT_SERVER_IDLE_TIMEOUT is 0

ASSUME FlagsAssumption == /\ {TimeoutEnabled, ZeroTimeout} \subseteq BOOLEAN
                          /\ ZeroTimeout => TimeoutEnabled

VARIABLES
    pc,       \* where each client is
    sock,     \* the listening socket each client created
    holders,  \* which of its two processes have it open
    server,   \* the server process each client forked
    peer      \* the sockets whose queue of connections a client is in

vars == <<pc, sock, holders, server, peer>>

Init ==
    /\ pc = [c \in Clients |-> "connect"]
    /\ sock = [o \in Clients |-> "none"]
    /\ holders = [o \in Clients |-> {}]
    /\ server = [o \in Clients |-> "none"]
    /\ peer = [c \in Clients |-> {}]

Bound     == {o \in Clients : sock[o] \in {"bound", "listening"}}
Listening == {o \in Clients : sock[o] = "listening"}
Queue(o)  == {c \in Clients : o \in peer[c]}

-----------------------------------------------------------------------------
(* The client                                                               *)

\* connect succeeds as soon as the socket at the address listens.
Connect(c) ==
    /\ pc[c] \in {"connect", "connectAgain"}
    /\ \E o \in Listening : peer' = [peer EXCEPT ![c] = {o}]
    /\ pc' = [pc EXCEPT ![c] = "waiting"]
    /\ UNCHANGED <<sock, holders, server>>

\* ConnectionRefusedError is caught the first time only.
ConnectRefused(c) ==
    /\ pc[c] \in {"connect", "connectAgain"}
    /\ Listening = {}
    /\ pc' = [pc EXCEPT ![c] = IF pc[c] = "connect" THEN "bind" ELSE "failed"]
    /\ UNCHANGED <<sock, holders, server, peer>>

\* Mutated Bind: an address in use is taken over.
Bind_TakesOver(c) ==
    /\ pc[c] = "bind"
    /\ sock' = [sock EXCEPT ![c] = "bound"]
    /\ holders' = [holders EXCEPT ![c] = {"client"}]
    /\ pc' = [pc EXCEPT ![c] = "listen"]
    /\ UNCHANGED <<server, peer>>

\* ComponentServer(): bind, then listen, in the client's own process.
Bind(c) ==
    /\ pc[c] = "bind"
    /\ Bound = {}
    /\ sock' = [sock EXCEPT ![c] = "bound"]
    /\ holders' = [holders EXCEPT ![c] = {"client"}]
    /\ pc' = [pc EXCEPT ![c] = "listen"]
    /\ UNCHANGED <<server, peer>>

\* EADDRINUSE: another client is starting a server; use that one.
AddressInUse(c) ==
    /\ pc[c] = "bind"
    /\ Bound # {}
    /\ pc' = [pc EXCEPT ![c] = "connectAgain"]
    /\ UNCHANGED <<sock, holders, server, peer>>

\* Mutated Listen: left to the server's process.
Listen_Later(c) ==
    /\ pc[c] = "listen"
    /\ pc' = [pc EXCEPT ![c] = "fork"]
    /\ UNCHANGED <<sock, holders, server, peer>>

Listen(c) ==
    /\ pc[c] = "listen"
    /\ sock' = [sock EXCEPT ![c] = "listening"]
    /\ pc' = [pc EXCEPT ![c] = "fork"]
    /\ UNCHANGED <<holders, server, peer>>

\* os.fork: both processes now hold the listening socket.
Fork(c) ==
    /\ pc[c] = "fork"
    /\ server' = [server EXCEPT ![c] = "serving"]
    /\ holders' = [holders EXCEPT ![c] = @ \cup {"server"}]
    /\ pc' = [pc EXCEPT ![c] = "close"]
    /\ UNCHANGED <<sock, peer>>

\* Process p closes its copy of socket o.  With the last copy the socket goes,
\* and the clients still in its queue are reset.
CloseCopy(o, p) ==
    /\ holders' = [holders EXCEPT ![o] = @ \ {p}]
    /\ IF holders[o] = {p}
         THEN /\ sock' = [sock EXCEPT ![o] = "closed"]
              /\ peer' = [c \in Clients |-> peer[c] \ {o}]
         ELSE UNCHANGED <<sock, peer>>

\* Mutated CloseOwnCopy: the client keeps the listening socket.
CloseOwnCopy_Kept(c) ==
    /\ pc[c] = "close"
    /\ pc' = [pc EXCEPT ![c] = "connectAgain"]
    /\ UNCHANGED <<sock, holders, server, peer>>

\* The client leaves "with server", which closes its copy of the socket.
CloseOwnCopy(c) ==
    /\ pc[c] = "close"
    /\ CloseCopy(c, "client")
    /\ pc' = [pc EXCEPT ![c] = "connectAgain"]
    /\ UNCHANGED server

\* The connection is gone before the server took it.
Reset(c) ==
    /\ pc[c] = "waiting"
    /\ peer[c] = {}
    /\ pc' = [pc EXCEPT ![c] = "reset"]
    /\ UNCHANGED <<sock, holders, server, peer>>

-----------------------------------------------------------------------------
(* The server                                                               *)

\* The job of an accepted client is run and answered (see ComponentServer).
Serve(o, c) ==
    /\ server[o] = "serving"
    /\ c \in Queue(o)
    /\ pc' = [pc EXCEPT ![c] = "answered"]
    /\ peer' = [peer EXCEPT ![c] = {}]
    /\ UNCHANGED <<sock, holders, server>>

\* select timed out with nobody in the queue.  A timeout of some seconds is
\* long enough for the client that started the server to connect to it.
TimeOut(o) ==
    /\ TimeoutEnabled
    /\ server[o] = "serving"
    /\ ZeroTimeout \/ pc[o] \notin {"close", "connectAgain"}
    /\ Queue(o) = {}
    /\ server' = [server EXCEPT ![o] = "closing"]
    /\ UNCHANGED <<pc, sock, holders, peer>>

StopListening(o) ==
    /\ server[o] = "closing"
    /\ CloseCopy(o, "server")
    /\ server' = [server EXCEPT ![o] = "gone"]
    /\ UNCHANGED pc

-----------------------------------------------------------------------------
ClientStep(c) == \/ Connect(c) \/ ConnectRefused(c)
                 \/ Bind(c) \/ AddressInUse(c) \/ Listen(c) \/ Fork(c) \/ CloseOwnCopy(c)
                 \/ Reset(c)

ServerStep(o) == (\E c \in Clients : Serve(o, c)) \/ StopListening(o)

Next == \E c \in Clients : ClientStep(c) \/ ServerStep(c) \/ TimeOut(c)

Spec == Init /\ [][Next]_vars

\* Every process runs; a server that waits need not time out.
FairSpec == Spec /\ \A c \in Clients : WF_vars(ClientStep(c)) /\ WF_vars(ServerStep(c))

-----------------------------------------------------------------------------
(* Properties                                                               *)

\* Every variable holds a value of its type.
TypeOK ==
    /\ pc \in [Clients -> {"connect", "bind", "listen", "fork", "close", "connectAgain",
                           "waiting", "answered", "reset", "failed"}]
    /\ sock \in [Clients -> {"none", "bound", "listening", "closed"}]
    /\ holders \in [Clients -> SUBSET {"client", "server"}]
    /\ server \in [Clients -> {"none", "serving", "closing", "gone"}]
    /\ peer \in [Clients -> SUBSET Clients]

Serving == {o \in Clients : server[o] = "serving"}

\* However many clients start at once, one server at most is at work in the
\* container, and the socket at the address is its own (SOCKET_ADDRESS).
OneServer == \A o, s \in Serving : o = s /\ sock[o] = "listening"

\* A client that started a server can connect to it: it is listening before the
\* fork (start_from_client).
StarterConnects == \A c \in Clients : pc[c] = "failed" => server[c] = "none"

\* A client that finds another server being started uses that one
\* (start_from_client: "Using existing server.").
NobodyFails == \A c \in Clients : pc[c] # "failed"

\* A connection in the queue of a socket is not forgotten: a server is there to
\* accept it or about to reset it, or the client that listens has yet to fork one.
\* (After a timeout of 0 its starter may be the last to hold the socket, until it
\* leaves "with server".)
QueueIsAttended ==
    \A c \in Clients : \A o \in peer[c] :
        /\ pc[c] = "waiting" /\ sock[o] = "listening"
        /\ \/ server[o] \in {"serving", "closing"}
           \/ pc[o] = "fork"
           \/ pc[o] = "close" /\ ZeroTimeout

\* Every client comes to an end: nobody waits on a socket that has no server.
EveryClientEnds == \A c \in Clients : <>(pc[c] \in {"answered", "reset", "failed"})

=============================================================================
