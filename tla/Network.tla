------------------------------- MODULE Network -------------------------------
(***************************************************************************)
(* The broadcast network between the robots, once they run: one router     *)
(* process (src/VM/router.cpp) that repeats every update it receives to    *)
(* every registered client, the sender included, over UDP on one host.     *)
(*                                                                         *)
(* A socket's receive buffer is a FIFO queue: router is the buffer of the  *)
(* router's socket, inbox[r] the buffer of robot r's socket.  Datagrams on *)
(* the loopback interface arrive in the order they are sent; a loss (a     *)
(* full buffer) is not modelled here but in Startup.                       *)
(*                                                                         *)
(* The operators are conjoined into the actions of the modules that extend *)
(* this one.  The handshake that precedes Register is module Startup.      *)
(***************************************************************************)
EXTENDS Naturals, Sequences

CONSTANT Robot      \* the robots of the swarm, one VM process each

VARIABLES
    clients,        \* the robots in the router's clients vector
    router,         \* updates waiting in the router's socket
    inbox           \* inbox[r]: updates waiting in robot r's socket

netVars == <<clients, router, inbox>>

NetInit ==
    /\ clients = {}
    /\ router = <<>>
    /\ inbox = [r \in Robot |-> <<>>]

(* The router reads the first packet of an unknown address and adds it to  *)
(* clients.  Updates forwarded before this step never reach r.             *)
AddClient(r) ==
    /\ r \notin clients
    /\ clients' = clients \cup {r}
    /\ UNCHANGED <<router, inbox>>

(* sendto() to the router's address. *)
Send(m) == router' = Append(router, m)

(* Mutant of Forward: the loop over the clients misses one of them.        *)
ForwardButOne ==
    /\ router # <<>>
    /\ router' = Tail(router)
    /\ \E missed \in clients :
          inbox' = [r \in Robot |-> IF r \in clients \ {missed}
                                   THEN Append(inbox[r], Head(router))
                                   ELSE inbox[r]]
    /\ UNCHANGED clients

(* One turn of the router's receive-forward loop on a well-sized packet:   *)
(* it goes to all clients, the sender included.                            *)
Forward ==
    /\ router # <<>>
    /\ router' = Tail(router)
    /\ inbox' = [r \in Robot |-> IF r \in clients
                                 THEN Append(inbox[r], Head(router))
                                 ELSE inbox[r]]
    /\ UNCHANGED clients

(* recvfrom() on robot r's socket returns the oldest datagram. *)
Receive(r) ==
    /\ inbox[r] # <<>>
    /\ inbox' = [inbox EXCEPT ![r] = Tail(@)]

(* Message m waits in queue q. *)
Waits(m, q) == \E i \in 1 .. Len(q) : q[i] = m

(* No update waits in any socket. *)
NetworkEmpty == router = <<>> /\ \A r \in Robot : inbox[r] = <<>>
==============================================================================
