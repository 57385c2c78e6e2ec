------------------------------- MODULE Startup -------------------------------
(***************************************************************************)
(* How robots join: the handshake between initNetworking (networking.cpp)  *)
(* and the router (router.cpp).  A robot pings the router, waits for the   *)
(* packet with its ID, waits for the start signal, and only then runs.     *)
(* The operator gives the start signal once, by ending the router's child  *)
(* process; whoever registers later gets it with the ID.                   *)
(*                                                                         *)
(* The robot does not look at what it receives: whatever arrives first is  *)
(* its ID, whatever arrives second is the start signal, both read into     *)
(* robotID.  Next is the program without faults; FaultyNext adds what UDP, *)
(* the operating system and a user may do to it.                           *)
(***************************************************************************)
EXTENDS Integers, Sequences, FiniteSets

CONSTANTS
    Robot,          \* robot processes, each with a socket address of its own
    TimestampWord,  \* what the first bytes of an update are, read as robotID
    MaxUpdates,     \* bound: how many updates are broadcast
    MaxFaults       \* bound: how many faults happen (FaultyNext only)

(* Packets to robots and packets to the router. *)
Packet == [kind : {"id", "go", "update"}, id : Int]
Ping(r) == [from |-> r, kind |-> "ping", id |-> -1]
Update(r, i) == [from |-> r, kind |-> "update", id |-> i]
Request == [from : Robot, kind : {"ping", "update"}, id : Int]

ASSUME WordAssumption == TimestampWord \in Int

VARIABLES
    phase,          \* phase[r]: where robot r's main() is
    robotID,        \* robotID[r]: the global robotID of r's VM
    inbox,          \* inbox[r]: packets in robot r's socket
    router,         \* packets in the router's socket
    clients,        \* addresses in the router's clients vector
    currentID,      \* the next ID the router gives out
    goSignalSent,   \* the router's flag
    childAlive,     \* the router's child still waits for the operator
    updates,        \* the number of updates broadcast so far
    faults,         \* the number of faults so far
    started,        \* history: the operator has given a start signal
    misread         \* history: robots that took a short packet for an update

routerVars == <<clients, currentID, goSignalSent, childAlive>>
vars == <<phase, robotID, inbox, router, routerVars, updates, faults, started, misread>>

Phase == {"off", "awaitID", "awaitGo", "running", "gone"}

(* A socket receives only while its process lives. *)
Listening(r) == phase[r] \in {"awaitID", "awaitGo", "running"}

Init ==
    /\ phase = [r \in Robot |-> "off"]
    /\ robotID = [r \in Robot |-> -1]
    /\ inbox = [r \in Robot |-> <<>>]
    /\ router = <<>>
    /\ clients = {}
    /\ currentID = 0
    /\ goSignalSent = FALSE
    /\ childAlive = TRUE
    /\ updates = 0
    /\ faults = 0
    /\ started = FALSE
    /\ misread = {}

------------------------------------------------------------------------------
(* The robot.                                                              *)

(* A new process binds its socket and pings the router. *)
Launch(r) ==
    /\ phase[r] = "off"
    /\ phase' = [phase EXCEPT ![r] = "awaitID"]
    /\ robotID' = [robotID EXCEPT ![r] = -1]
    /\ router' = Append(router, Ping(r))
    /\ UNCHANGED <<inbox, routerVars, updates, faults, started, misread>>

(* What recvfrom(&robotID) leaves in robotID: an ID packet sets it, the    *)
(* empty start signal leaves it, an update puts its first bytes there.     *)
ReadInto(old, p) ==
    CASE p.kind = "id" -> p.id
      [] p.kind = "go" -> old
      [] p.kind = "update" -> TimestampWord

(* The two blocking recvfrom() calls of initNetworking, in turn.           *)
Await(r, here, next) ==
    /\ phase[r] = here
    /\ inbox[r] # <<>>
    /\ robotID' = [robotID EXCEPT ![r] = ReadInto(@, Head(inbox[r]))]
    /\ inbox' = [inbox EXCEPT ![r] = Tail(@)]
    /\ phase' = [phase EXCEPT ![r] = next]
    /\ UNCHANGED <<router, routerVars, updates, faults, started, misread>>

ReceiveID(r) == Await(r, "awaitID", "awaitGo")
ReceiveGo(r) == Await(r, "awaitGo", "running")

(* A running robot broadcasts an update that carries its robotID. *)
Broadcast(r) ==
    /\ phase[r] = "running"
    /\ updates < MaxUpdates
    /\ updates' = updates + 1
    /\ router' = Append(router, Update(r, robotID[r]))
    /\ UNCHANGED <<phase, robotID, inbox, routerVars, faults, started, misread>>

(* checkForMessage notices a packet of the wrong size, says so, and goes   *)
(* on as if it were an update.                                             *)
CheckForMessage(r) ==
    /\ phase[r] = "running"
    /\ inbox[r] # <<>>
    /\ inbox' = [inbox EXCEPT ![r] = Tail(@)]
    /\ misread' = IF Head(inbox[r]).kind = "update" THEN misread ELSE misread \cup {r}
    /\ UNCHANGED <<phase, robotID, router, routerVars, updates, faults, started>>

(* The program ended; the process closes its socket. *)
Finish(r) ==
    /\ phase[r] = "running"
    /\ phase' = [phase EXCEPT ![r] = "gone"]
    /\ inbox' = [inbox EXCEPT ![r] = <<>>]
    /\ UNCHANGED <<robotID, router, routerVars, updates, faults, started, misread>>

------------------------------------------------------------------------------
(* The router.                                                             *)

Go == [kind |-> "go", id |-> -1]
ID(i) == [kind |-> "id", id |-> i]

(* The packets of sequence ps reach robot r if its socket is open. *)
Deliver(r, ps) == IF Listening(r) THEN inbox[r] \o ps ELSE inbox[r]

(* The child has ended: the start signal goes to every client, once. *)
SendGo ==
    /\ childAlive
    /\ childAlive' = FALSE
    /\ goSignalSent' = TRUE
    /\ started' = TRUE
    /\ inbox' = [r \in Robot |-> IF r \in clients THEN Deliver(r, <<Go>>) ELSE inbox[r]]
    /\ UNCHANGED <<phase, robotID, router, clients, currentID, updates, faults, misread>>

(* Mutants of Welcome: the signal goes out with the ID whether it was      *)
(* given or not, or never.                                                 *)
WelcomeWithGo == <<ID(currentID), Go>>
WelcomeWithoutGo == <<ID(currentID)>>

(* What a newly registered address is sent. *)
Welcome == IF goSignalSent THEN <<ID(currentID), Go>> ELSE <<ID(currentID)>>

(* Mutant of Repeated: the router does not check the size. *)
RepeatedAnyway(p) == <<[kind |-> p.kind, id |-> p.id]>>

(* What the router repeats: an update, never a ping. *)
Repeated(p) == IF p.kind = "update" THEN <<[kind |-> "update", id |-> p.id]>> ELSE <<>>

(* Mutant of NextID: the counter stays where it is. *)
SameID == currentID

(* currentID++ after an ID was given out. *)
NextID == currentID + 1

(* One packet from an address the router does not know. *)
RegisterClient ==
    /\ router # <<>>
    /\ Head(router).from \notin clients
    /\ LET p == Head(router) IN
         /\ clients' = clients \cup {p.from}
         /\ currentID' = NextID
         /\ inbox' = [r \in Robot |->
                        IF r = p.from THEN Deliver(r, Welcome \o Repeated(p))
                        ELSE IF r \in clients THEN Deliver(r, Repeated(p))
                        ELSE inbox[r]]
    /\ router' = Tail(router)
    /\ UNCHANGED <<phase, robotID, goSignalSent, childAlive, updates, faults, started, misread>>

(* One packet from a known address: a ping is dropped by the size check. *)
ForwardUpdate ==
    /\ router # <<>>
    /\ Head(router).from \in clients
    /\ inbox' = [r \in Robot |-> IF r \in clients
                                 THEN Deliver(r, Repeated(Head(router)))
                                 ELSE inbox[r]]
    /\ router' = Tail(router)
    /\ UNCHANGED <<phase, robotID, routerVars, updates, faults, started, misread>>

------------------------------------------------------------------------------
RouterStep == SendGo \/ RegisterClient \/ ForwardUpdate

RobotStep(r) ==
    Launch(r) \/ ReceiveID(r) \/ ReceiveGo(r) \/ Broadcast(r) \/ CheckForMessage(r) \/ Finish(r)

Next == RouterStep \/ \E r \in Robot : RobotStep(r)

Spec == Init /\ [][Next]_vars

(* The router loops and a robot blocked in recvfrom wakes up; that the     *)
(* operator gives the start signal or starts a robot is not assumed.       *)
Fairness ==
    /\ WF_vars(RegisterClient \/ ForwardUpdate)
    /\ \A r \in Robot : WF_vars(ReceiveID(r) \/ ReceiveGo(r) \/ CheckForMessage(r))

------------------------------------------------------------------------------
(* Faults.                                                                 *)

Fault == faults < MaxFaults /\ faults' = faults + 1

(* A datagram is lost on its way. *)
LosePacket ==
    /\ Fault
    /\ \/ /\ router # <<>>
          /\ router' = Tail(router)
          /\ UNCHANGED inbox
       \/ \E r \in Robot :
            /\ inbox[r] # <<>>
            /\ inbox' = [inbox EXCEPT ![r] = Tail(@)]
            /\ UNCHANGED router
    /\ UNCHANGED <<phase, robotID, routerVars, updates, started, misread>>

(* A robot is killed, or has ended, and is launched again with the same    *)
(* ephemeral port.                                                         *)
ReusePort(r) ==
    /\ Fault
    /\ phase[r] # "off"
    /\ phase' = [phase EXCEPT ![r] = "off"]
    /\ inbox' = [inbox EXCEPT ![r] = <<>>]
    /\ UNCHANGED <<robotID, router, routerVars, updates, started, misread>>

(* The router is stopped and started again: it has forgotten its clients   *)
(* and has a new child.                                                    *)
RestartRouter ==
    /\ Fault
    /\ router' = <<>>
    /\ clients' = {}
    /\ currentID' = 0
    /\ goSignalSent' = FALSE
    /\ childAlive' = TRUE
    /\ UNCHANGED <<phase, robotID, inbox, updates, started, misread>>

FaultyNext == Next \/ LosePacket \/ RestartRouter \/ \E r \in Robot : ReusePort(r)

FaultySpec == Init /\ [][FaultyNext]_vars

FairFaultySpec == FaultySpec /\ Fairness

------------------------------------------------------------------------------
TypeOK ==
    /\ phase \in [Robot -> Phase]
    /\ robotID \in [Robot -> Int]
    /\ inbox \in [Robot -> Seq(Packet)]
    /\ router \in Seq(Request)
    /\ clients \subseteq Robot
    /\ currentID \in Nat
    /\ goSignalSent \in BOOLEAN
    /\ childAlive \in BOOLEAN
    /\ updates \in Nat
    /\ faults \in Nat
    /\ started \in BOOLEAN
    /\ misread \subseteq Robot

Running == {r \in Robot : phase[r] = "running"}

(* Before the first fault, robots that run have IDs of their own, from 0    *)
(* up: the stigmergy entries they write never collide.  The two blind      *)
(* reads of initNetworking got the ID and the start signal, in spite of    *)
(* updates from robots that already run.                                   *)
DistinctIDs ==
    faults = 0 =>
        \A r, s \in Running :
            /\ robotID[r] \in 0 .. currentID - 1
            /\ r # s => robotID[r] # robotID[s]

(* Before the first fault checkForMessage is never handed a packet that is *)
(* not an update, so going on after the size check does no harm.           *)
NoMisreadPacket == faults = 0 => misread = {}

(* No robot runs before the operator has given a start signal, not even    *)
(* when packets are lost, a port is reused or the router is restarted.     *)
NobodyStartsEarly == Running # {} => started

(* A robot that is launched runs sooner or later once the start signal has *)
(* been sent, the ones that come late included, unless there is a fault.   *)
EverybodyStarts ==
    \A r \in Robot :
        (phase[r] \in {"awaitID", "awaitGo"} /\ goSignalSent /\ faults = 0)
            ~> (phase[r] \in {"running", "gone"} \/ faults > 0)
------------------------------------------------------------------------------
(* The inductive invariant of Spec behind DistinctIDs and NoMisreadPacket. *)

(* From place n on, queue q holds nothing but updates. *)
AllUpdates(q, n) == \A i \in n .. Len(q) : q[i].kind = "update"

(* From place n on, queue q holds the start signal and updates behind it   *)
(* if the signal has been sent, and nothing if not.                        *)
SignalAt(q, n) ==
    IF goSignalSent
    THEN Len(q) >= n /\ q[n].kind = "go" /\ AllUpdates(q, n + 1)
    ELSE Len(q) = n - 1

(* What is in r's inbox is what r is about to read. *)
Handshake(r) ==
    /\ phase[r] = "off" => r \notin clients /\ inbox[r] = <<>>
    /\ phase[r] = "awaitID" /\ r \notin clients => inbox[r] = <<>>
    /\ phase[r] = "awaitID" /\ r \in clients =>
          inbox[r] # <<>> /\ inbox[r][1].kind = "id" /\ SignalAt(inbox[r], 2)
    /\ phase[r] = "awaitGo" => r \in clients /\ SignalAt(inbox[r], 1)
    /\ phase[r] = "running" => r \in clients /\ goSignalSent /\ AllUpdates(inbox[r], 1)
    /\ phase[r] = "gone" => r \in clients /\ inbox[r] = <<>>

(* Only clients send updates, and only after the start signal. *)
Requests ==
    \A i \in 1 .. Len(router) :
        /\ phase[router[i].from] # "off"
        /\ router[i].kind = "update" => goSignalSent /\ router[i].from \in clients

SignalOnce == childAlive = ~ goSignalSent /\ (goSignalSent => started)

(* The ID of client r: read already, or first in its inbox. *)
OwnID(r) == IF phase[r] = "awaitID" THEN inbox[r][1].id ELSE robotID[r]

OwnIDsDistinct ==
    \A r, s \in clients :
        /\ OwnID(r) \in 0 .. currentID - 1
        /\ r # s => OwnID(r) # OwnID(s)

NothingMisread == misread = {}

IInv ==
    /\ TypeOK
    /\ \A r \in Robot : Handshake(r)
    /\ Requests
    /\ SignalOnce
    /\ OwnIDsDistinct
    /\ NothingMisread
==============================================================================
