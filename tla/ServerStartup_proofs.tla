------------------------ MODULE ServerStartup_proofs ------------------------
(***************************************************************************)
(* Theorems about ServerStartup, for every set of clients and every        *)
(* timeout.                                                                *)
(***************************************************************************)
EXTENDS ServerStartup, TLAPS

\* The address belongs to one socket, a socket lives while a process holds it,
\* and each process holds it in a known part of its life.
AddressInv ==
    /\ \A o, s \in Bound : o = s
    /\ \A o \in Clients :
        /\ holders[o] = {} <=> sock[o] \in {"none", "closed"}
        /\ "client" \in holders[o] <=> pc[o] \in {"listen", "fork", "close"}
        /\ "server" \in holders[o] <=> server[o] \in {"serving", "closing"}
        /\ sock[o] = "bound" => pc[o] = "listen"
        /\ pc[o] \in {"connect", "bind", "listen", "fork"} => server[o] = "none"
        /\ pc[o] \in {"connect", "bind"} => sock[o] = "none"
        /\ peer[o] # {} => pc[o] = "waiting"

\* Every variable keeps its type.
THEOREM TypeCorrect == Spec => []TypeOK
<1>1. Init => TypeOK
  BY DEF Init, TypeOK
<1>2. TypeOK /\ [Next]_vars => TypeOK'
  <2> SUFFICES ASSUME TypeOK, [Next]_vars
               PROVE  TypeOK'
    OBVIOUS
  <2> USE DEF TypeOK, CloseCopy
  <2>1. ASSUME NEW c \in Clients, Connect(c) PROVE TypeOK'
    BY <2>1 DEF Connect, Listening
  <2>2. ASSUME NEW c \in Clients, ConnectRefused(c) PROVE TypeOK'
    BY <2>2 DEF ConnectRefused
  <2>3. ASSUME NEW c \in Clients, Bind(c) PROVE TypeOK'
    BY <2>3 DEF Bind
  <2>4. ASSUME NEW c \in Clients, AddressInUse(c) PROVE TypeOK'
    BY <2>4 DEF AddressInUse
  <2>5. ASSUME NEW c \in Clients, Listen(c) PROVE TypeOK'
    BY <2>5 DEF Listen
  <2>6. ASSUME NEW c \in Clients, Fork(c) PROVE TypeOK'
    BY <2>6 DEF Fork
  <2>7. ASSUME NEW c \in Clients, CloseOwnCopy(c) PROVE TypeOK'
    BY <2>7 DEF CloseOwnCopy
  <2>8. ASSUME NEW c \in Clients, Reset(c) PROVE TypeOK'
    BY <2>8 DEF Reset
  <2>9. ASSUME NEW o \in Clients, NEW c \in Clients, Serve(o, c) PROVE TypeOK'
    BY <2>9 DEF Serve
  <2>10. ASSUME NEW o \in Clients, TimeOut(o) PROVE TypeOK'
    BY <2>10 DEF TimeOut
  <2>11. ASSUME NEW o \in Clients, StopListening(o) PROVE TypeOK'
    BY <2>11 DEF StopListening
  <2>12. CASE UNCHANGED vars
    BY <2>12 DEF vars
  <2>13. QED
    BY <2>1, <2>2, <2>3, <2>4, <2>5, <2>6, <2>7, <2>8, <2>9, <2>10, <2>11, <2>12
       DEF Next, ClientStep, ServerStep
<1>3. QED
  BY <1>1, <1>2, PTL DEF Spec

\* The address invariant is inductive.
LEMMA AddressStep ==
    ASSUME TypeOK, AddressInv, [Next]_vars
    PROVE  AddressInv'
<1> USE DEF TypeOK, AddressInv, Bound
<1>1. ASSUME NEW c \in Clients, Connect(c) PROVE AddressInv'
  BY <1>1 DEF Connect, Listening
<1>2. ASSUME NEW c \in Clients, ConnectRefused(c) PROVE AddressInv'
  BY <1>2 DEF ConnectRefused
<1>3. ASSUME NEW c \in Clients, Bind(c) PROVE AddressInv'
  BY <1>3 DEF Bind
<1>4. ASSUME NEW c \in Clients, AddressInUse(c) PROVE AddressInv'
  BY <1>4 DEF AddressInUse
<1>5. ASSUME NEW c \in Clients, Listen(c) PROVE AddressInv'
  BY <1>5 DEF Listen
<1>6. ASSUME NEW c \in Clients, Fork(c) PROVE AddressInv'
  BY <1>6 DEF Fork
<1>7. ASSUME NEW c \in Clients, CloseOwnCopy(c) PROVE AddressInv'
  BY <1>7 DEF CloseOwnCopy, CloseCopy
<1>8. ASSUME NEW c \in Clients, Reset(c) PROVE AddressInv'
  BY <1>8 DEF Reset
<1>9. ASSUME NEW o \in Clients, NEW c \in Clients, Serve(o, c) PROVE AddressInv'
  BY <1>9 DEF Serve, Queue
<1>10. ASSUME NEW o \in Clients, TimeOut(o) PROVE AddressInv'
  BY <1>10 DEF TimeOut
<1>11. ASSUME NEW o \in Clients, StopListening(o) PROVE AddressInv'
  BY <1>11 DEF StopListening, CloseCopy
<1>12. CASE UNCHANGED vars
  BY <1>12 DEF vars
<1>13. QED
  BY <1>1, <1>2, <1>3, <1>4, <1>5, <1>6, <1>7, <1>8, <1>9, <1>10, <1>11, <1>12
     DEF Next, ClientStep, ServerStep

\* Two servers are never at work at once, and the one at work is the one the
\* address leads to, however many clients start at the same time.
THEOREM AtMostOneServer == Spec => []OneServer
<1>1. Init => AddressInv
  BY DEF Init, AddressInv, Bound
<1>2. TypeOK /\ AddressInv /\ [Next]_vars => AddressInv'
  BY AddressStep
<1>3. TypeOK /\ AddressInv => OneServer
  BY DEF TypeOK, AddressInv, OneServer, Serving, Bound
<1>4. QED
  BY <1>1, <1>2, <1>3, TypeCorrect, PTL DEF Spec

\* A client between the fork and its second attempt has a server that has not
\* begun to close, and without a server of its own it may fail.
StarterInv ==
    \A c \in Clients :
        /\ pc[c] \in {"close", "connectAgain"} => server[c] \in {"none", "serving"}
        /\ pc[c] = "failed" => server[c] = "none"

LEMMA StarterStep ==
    ASSUME ZeroTimeout = FALSE, TypeOK, AddressInv, StarterInv, [Next]_vars
    PROVE  StarterInv'
<1> USE DEF TypeOK, StarterInv
<1>1. ASSUME NEW c \in Clients, Connect(c) PROVE StarterInv'
  BY <1>1 DEF Connect
<1>2. ASSUME NEW c \in Clients, ConnectRefused(c) PROVE StarterInv'
  <2>1. server[c] # "serving"
    BY <1>2 DEF ConnectRefused, AddressInv, Listening
  <2>2. server[c] = "none"
    BY <1>2, <2>1 DEF ConnectRefused, AddressInv
  <2>3. QED
    BY <1>2, <2>2 DEF ConnectRefused
<1>3. ASSUME NEW c \in Clients, Bind(c) PROVE StarterInv'
  BY <1>3 DEF Bind
<1>4. ASSUME NEW c \in Clients, AddressInUse(c) PROVE StarterInv'
  BY <1>4 DEF AddressInUse, AddressInv
<1>5. ASSUME NEW c \in Clients, Listen(c) PROVE StarterInv'
  BY <1>5 DEF Listen
<1>6. ASSUME NEW c \in Clients, Fork(c) PROVE StarterInv'
  BY <1>6 DEF Fork, AddressInv
<1>7. ASSUME NEW c \in Clients, CloseOwnCopy(c) PROVE StarterInv'
  BY <1>7 DEF CloseOwnCopy, CloseCopy
<1>8. ASSUME NEW c \in Clients, Reset(c) PROVE StarterInv'
  BY <1>8 DEF Reset
<1>9. ASSUME NEW o \in Clients, NEW c \in Clients, Serve(o, c) PROVE StarterInv'
  BY <1>9 DEF Serve
<1>10. ASSUME NEW o \in Clients, TimeOut(o) PROVE StarterInv'
  BY <1>10 DEF TimeOut
<1>11. ASSUME NEW o \in Clients, StopListening(o) PROVE StarterInv'
  BY <1>11 DEF StopListening, CloseCopy
<1>12. CASE UNCHANGED vars
  BY <1>12 DEF vars
<1>13. QED
  BY <1>1, <1>2, <1>3, <1>4, <1>5, <1>6, <1>7, <1>8, <1>9, <1>10, <1>11, <1>12
     DEF Next, ClientStep, ServerStep

\* However many clients start at once, one that forked a server is never refused
\* by it: the socket listens before the fork, and an idle timeout of some seconds
\* does not end the server before its starter has connected.
THEOREM StarterIsNotRefused ==
    ASSUME ZeroTimeout = FALSE
    PROVE  Spec => []StarterConnects
<1>1. Init => AddressInv /\ StarterInv
  BY DEF Init, AddressInv, Bound, StarterInv
<1>2. TypeOK /\ AddressInv /\ StarterInv /\ [Next]_vars => AddressInv' /\ StarterInv'
  BY AddressStep, StarterStep
<1>3. StarterInv => StarterConnects
  BY DEF StarterInv, StarterConnects
<1>4. QED
  BY <1>1, <1>2, <1>3, TypeCorrect, PTL DEF Spec

\* Who waits in a queue waits at a socket that listens, with its server forked
\* after that and, unless the timeout is 0, serving until its starter has let go.
QueueInv ==
    /\ \A c \in Clients : \A o \in peer[c] : sock[o] = "listening"
    /\ \A o \in Clients : pc[o] = "listen" => sock[o] = "bound"
    /\ \A o \in Clients : pc[o] = "close" /\ ~ZeroTimeout => server[o] = "serving"

LEMMA QueueStep ==
    ASSUME TypeOK, AddressInv, QueueInv, [Next]_vars
    PROVE  QueueInv'
<1> USE DEF TypeOK, QueueInv
<1>1. ASSUME NEW c \in Clients, Connect(c) PROVE QueueInv'
  BY <1>1 DEF Connect, Listening
<1>2. ASSUME NEW c \in Clients, ConnectRefused(c) PROVE QueueInv'
  BY <1>2 DEF ConnectRefused
<1>3. ASSUME NEW c \in Clients, Bind(c) PROVE QueueInv'
  <2>1. sock[c] = "none"
    BY <1>3 DEF Bind, AddressInv
  <2>2. QED
    BY <1>3, <2>1 DEF Bind
<1>4. ASSUME NEW c \in Clients, AddressInUse(c) PROVE QueueInv'
  BY <1>4 DEF AddressInUse
<1>5. ASSUME NEW c \in Clients, Listen(c) PROVE QueueInv'
  BY <1>5 DEF Listen
<1>6. ASSUME NEW c \in Clients, Fork(c) PROVE QueueInv'
  BY <1>6 DEF Fork
<1>7. ASSUME NEW c \in Clients, CloseOwnCopy(c) PROVE QueueInv'
  BY <1>7 DEF CloseOwnCopy, CloseCopy
<1>8. ASSUME NEW c \in Clients, Reset(c) PROVE QueueInv'
  BY <1>8 DEF Reset
<1>9. ASSUME NEW o \in Clients, NEW c \in Clients, Serve(o, c) PROVE QueueInv'
  BY <1>9 DEF Serve, Queue
<1>10. ASSUME NEW o \in Clients, TimeOut(o) PROVE QueueInv'
  BY <1>10 DEF TimeOut
<1>11. ASSUME NEW o \in Clients, StopListening(o) PROVE QueueInv'
  <2>1. pc[o] # "listen"
    BY <1>11 DEF StopListening, AddressInv
  <2>2. QED
    BY <1>11, <2>1 DEF StopListening, CloseCopy
<1>12. CASE UNCHANGED vars
  BY <1>12 DEF vars
<1>13. QED
  BY <1>1, <1>2, <1>3, <1>4, <1>5, <1>6, <1>7, <1>8, <1>9, <1>10, <1>11, <1>12
     DEF Next, ClientStep, ServerStep

\* No connection is left in the queue of a socket that no server will look at,
\* in whichever order clients and servers come and go.
THEOREM NoQueueIsForgotten == Spec => []QueueIsAttended
<1>1. Init => AddressInv /\ QueueInv
  BY DEF Init, AddressInv, Bound, QueueInv
<1>2. TypeOK /\ AddressInv /\ QueueInv /\ [Next]_vars => AddressInv' /\ QueueInv'
  BY AddressStep, QueueStep
<1>3. TypeOK /\ AddressInv /\ QueueInv => QueueIsAttended
  <2> SUFFICES ASSUME TypeOK, AddressInv, QueueInv, NEW c \in Clients, NEW o \in peer[c]
               PROVE  /\ pc[c] = "waiting" /\ sock[o] = "listening"
                      /\ \/ server[o] \in {"serving", "closing"}
                         \/ pc[o] = "fork"
                         \/ pc[o] = "close" /\ ZeroTimeout
    BY DEF QueueIsAttended
  <2>1. o \in Clients /\ pc[c] = "waiting" /\ sock[o] = "listening"
    BY DEF TypeOK, AddressInv, QueueInv
  <2>2. "client" \in holders[o] \/ "server" \in holders[o]
    BY <2>1 DEF TypeOK, AddressInv
  <2>3. CASE "client" \in holders[o]
    BY <2>1, <2>3 DEF AddressInv, QueueInv
  <2>4. CASE "server" \in holders[o]
    BY <2>1, <2>4 DEF AddressInv
  <2>5. QED
    BY <2>1, <2>2, <2>3, <2>4
<1>4. QED
  BY <1>1, <1>2, <1>3, TypeCorrect, PTL DEF Spec

=============================================================================
