------------------------------ MODULE TaggedVar ------------------------------
(***************************************************************************)
(* One tagged variable of the swarm, replicated in every robot's           *)
(* taggedTable by last-writer-wins on broadcast timestamps.                *)
(*                                                                         *)
(* A robot alternates, in vm.cpp's step(), one instruction and one call of *)
(* checkForMessage().  A store to the tagged variable stamps the local     *)
(* entry and then calls broadcastVariable(), which reads the clock a       *)
(* second time for the message and sends it; other robots run between      *)
(* those three.  A received update is applied if its timestamp is newer    *)
(* than the entry's, and otherwise answered by broadcasting the own entry  *)
(* under a fresh timestamp.                                                *)
(*                                                                         *)
(* The variable holds plain data (nil, int, float), the table entry of     *)
(* another name is independent of it, and the reactions that an update     *)
(* triggers in the interpreter (handleDependants) are not of this module.  *)
(* A value is named by the number of the storeTagged that wrote it.        *)
(***************************************************************************)
EXTENDS Network

CONSTANTS
    Writer,         \* the robots whose program stores the variable
    None,           \* no table entry, or no message under construction
    MaxClock,       \* bound: the last microsecond the clock shows
    MaxStores,      \* bound: how many times the variable is stored
    MaxBroadcasts   \* bound: how many messages are stamped

(* What a robot knows of the variable, and what it sends about it. *)
Entry == [value : Nat, lastUpdated : Nat]
Message == [value : Nat, variableLastUpdated : Nat]

ASSUME WriterAssumption == Writer \subseteq Robot
ASSUME NoneAssumption == None \notin Entry /\ None \notin Message

VARIABLES
    clock,          \* gettimeofday() of the host all robots run on
    tagged,         \* tagged[r]: the entry in robot r's taggedTable, or None
    at,             \* at[r]: where robot r is inside step()
    out,            \* out[r]: the message broadcastVariable() has stamped
    stores,         \* the number of stores so far: the next value
    broadcasts,     \* the number of messages stamped so far
    newest,         \* history: the message stamped last
    audience        \* history: the clients when newest was stamped

vars == <<netVars, clock, tagged, at, out, stores, broadcasts, newest, audience>>
history == <<newest, audience, broadcasts>>

(* Where step() may be: before handleInstruction(), before                 *)
(* checkForMessage(), or inside the broadcast that either of them ends in. *)
Place == {"instruction", "storeBroadcast", "check", "rebroadcast"}

Broadcasting(r) == at[r] \in {"storeBroadcast", "rebroadcast"}

Init ==
    /\ NetInit
    /\ clock = 0
    /\ tagged = [r \in Robot |-> None]
    /\ at = [r \in Robot |-> "instruction"]
    /\ out = [r \in Robot |-> None]
    /\ stores = 0
    /\ broadcasts = 0
    /\ newest = [value |-> 0, variableLastUpdated |-> 0]
    /\ audience = {}

------------------------------------------------------------------------------
(* Time passes: the clock of one host never steps back. *)
Tick ==
    /\ clock < MaxClock
    /\ clock' = clock + 1
    /\ UNCHANGED <<netVars, tagged, at, out, stores, history>>

(* Robot r joins, possibly after others have stored and broadcast. *)
Register(r) ==
    /\ AddClient(r)
    /\ UNCHANGED <<clock, tagged, at, out, stores, history>>

(* storeTagged up to its call of broadcastVariable.  An absent name is     *)
(* created (the catch branch), a present one mutated: both leave the value *)
(* and the current time in the entry.                                      *)
StoreTagged(r) ==
    /\ r \in clients \cap Writer
    /\ at[r] = "instruction"
    /\ stores < MaxStores
    /\ stores' = stores + 1
    /\ tagged' = [tagged EXCEPT ![r] = [value |-> stores + 1, lastUpdated |-> clock]]
    /\ at' = [at EXCEPT ![r] = "storeBroadcast"]
    /\ UNCHANGED <<netVars, clock, out, history>>

(* Any instruction that does not store the variable. *)
OtherInstruction(r) ==
    /\ r \in clients
    /\ at[r] = "instruction"
    /\ at' = [at EXCEPT ![r] = "check"]
    /\ UNCHANGED <<netVars, clock, tagged, out, stores, history>>

(* broadcastVariable builds its message: the value of the entry, but the   *)
(* time of now, not the entry's lastUpdated.                               *)
StampMessage(r) ==
    /\ Broadcasting(r)
    /\ out[r] = None
    /\ broadcasts < MaxBroadcasts
    /\ broadcasts' = broadcasts + 1
    /\ out' = [out EXCEPT ![r] = [value |-> tagged[r].value, variableLastUpdated |-> clock]]
    /\ newest' = out'[r]
    /\ audience' = clients
    /\ UNCHANGED <<netVars, clock, tagged, at, stores>>

(* broadcastVariable hands the message to sendto and returns to its caller: *)
(* the end of the instruction or the end of checkForMessage.               *)
SendMessage(r) ==
    /\ Broadcasting(r)
    /\ out[r] # None
    /\ Send(out[r])
    /\ out' = [out EXCEPT ![r] = None]
    /\ at' = [at EXCEPT ![r] = IF @ = "storeBroadcast" THEN "check" ELSE "instruction"]
    /\ UNCHANGED <<clients, inbox, clock, tagged, stores, history>>

------------------------------------------------------------------------------
(* Mutant of IsNewer: updates are not compared. *)
Always(m, entry) == TRUE

(* The timestamp comparison of checkForMessage. *)
IsNewer(m, entry) == entry.lastUpdated < m.variableLastUpdated

(* Mutant of EntryOf: the new entry is left without a time. *)
EntryWithoutTime(m) == [value |-> m.value]

(* What a received message leaves in the table. *)
EntryOf(m) == [value |-> m.value, lastUpdated |-> m.variableLastUpdated]

(* recvfrom timed out (EAGAIN): nothing to do this step. *)
NoMessage(r) ==
    /\ at[r] = "check"
    /\ inbox[r] = <<>>
    /\ at' = [at EXCEPT ![r] = "instruction"]
    /\ UNCHANGED <<netVars, clock, tagged, out, stores, history>>

(* The name is unknown (the catch branch), or the update is newer than the *)
(* entry: the message's value and timestamp become the entry.              *)
ApplyUpdate(r) ==
    /\ at[r] = "check"
    /\ Receive(r)
    /\ tagged[r] # None => IsNewer(Head(inbox[r]), tagged[r])
    /\ tagged' = [tagged EXCEPT ![r] = EntryOf(Head(inbox[r]))]
    /\ at' = [at EXCEPT ![r] = "instruction"]
    /\ UNCHANGED <<clients, router, clock, out, stores, history>>

(* Mutant of AnswerUpdate: an old update is ignored. *)
IgnoreUpdate(r) ==
    /\ at[r] = "check"
    /\ Receive(r)
    /\ tagged[r] # None
    /\ ~ IsNewer(Head(inbox[r]), tagged[r])
    /\ at' = [at EXCEPT ![r] = "instruction"]
    /\ UNCHANGED <<clients, router, clock, tagged, out, stores, history>>

(* The entry is at least as new: the robot answers with its own value. *)
AnswerUpdate(r) ==
    /\ at[r] = "check"
    /\ Receive(r)
    /\ tagged[r] # None
    /\ ~ IsNewer(Head(inbox[r]), tagged[r])
    /\ at' = [at EXCEPT ![r] = "rebroadcast"]
    /\ UNCHANGED <<clients, router, clock, tagged, out, stores, history>>

CheckForMessage(r) == NoMessage(r) \/ ApplyUpdate(r) \/ AnswerUpdate(r)

(* The router's turn touches no robot's VM. *)
RouterForward ==
    /\ Forward
    /\ UNCHANGED <<clock, tagged, at, out, stores, history>>

------------------------------------------------------------------------------
RobotStep(r) ==
    \/ StoreTagged(r)
    \/ OtherInstruction(r)
    \/ StampMessage(r)
    \/ SendMessage(r)
    \/ CheckForMessage(r)

Next ==
    \/ Tick
    \/ RouterForward
    \/ \E r \in Robot : Register(r) \/ RobotStep(r)

Spec == Init /\ [][Next]_vars

(* The router loops for ever and a robot's main() loops over step(): each  *)
(* keeps taking its enabled steps.  Nothing makes a robot store.           *)
Fairness ==
    /\ WF_vars(RouterForward)
    /\ \A r \in Robot : WF_vars(OtherInstruction(r) \/ StampMessage(r)
                                   \/ SendMessage(r) \/ CheckForMessage(r))

FairSpec == Spec /\ Fairness

------------------------------------------------------------------------------
(* Each variable holds a value of its kind. *)
TypeOK ==
    /\ clients \subseteq Robot
    /\ router \in Seq(Message)
    /\ inbox \in [Robot -> Seq(Message)]
    /\ clock \in Nat
    /\ tagged \in [Robot -> Entry \cup {None}]
    /\ at \in [Robot -> Place]
    /\ out \in [Robot -> Message \cup {None}]
    /\ stores \in Nat
    /\ broadcasts \in Nat
    /\ newest \in Message
    /\ audience \subseteq Robot

(* Nothing is under way: no update waits in a socket and no robot is       *)
(* inside a broadcast.                                                     *)
Quiescent == NetworkEmpty /\ \A r \in Robot : ~ Broadcasting(r)

Holds(r, m) == tagged[r] = EntryOf(m)

(* Robot r has nothing older than message newest: it holds it, or it knows *)
(* nothing of the variable because it joined after newest was stamped.     *)
UpToDate(r) == Holds(r, newest) \/ (tagged[r] = None /\ r \notin audience)

(* When the swarm comes to rest, all clients agree: whoever was registered *)
(* when the last message was stamped holds that message's value, and a     *)
(* late joiner holds it too or has no entry at all.  Racing stores, equal  *)
(* timestamps, sends in another order than stamps and late joiners do not  *)
(* leave two robots with different values (checkForMessage's comparison    *)
(* and answer, the router's echo to the sender).                           *)
Convergence == Quiescent => \A r \in clients : UpToDate(r)

(* An entry's lastUpdated never moves back, whatever arrives in whatever   *)
(* order: neither the interpreter's stores nor checkForMessage replace an  *)
(* entry by one of an earlier time.                                        *)
NeverOlder ==
    [][\A r \in Robot : tagged[r] # None =>
          tagged'[r] # None /\ tagged'[r].lastUpdated >= tagged[r].lastUpdated]_vars

(* A received update never replaces a value by one that was stored before  *)
(* it: what networking.cpp:190 and the field name variableLastUpdated      *)
(* (networking.h:22) say of the comparison.                                *)
NoStaleOverwrite ==
    [][\A r \in Robot : ApplyUpdate(r) /\ tagged[r] # None =>
          tagged'[r].value >= tagged[r].value]_vars

(* If from some time on no robot broadcasts, then from some time on        *)
(* everybody is up to date: no update is left undelivered or unapplied by  *)
(* the router's loop and the robots' steps.                                *)
EventualAgreement ==
    <>[](\A r \in Robot : ~ Broadcasting(r)) => <>[](\A r \in clients : UpToDate(r))
------------------------------------------------------------------------------
(* The inductive invariant behind Convergence.                             *)

(* Some robot is inside broadcastVariable before reading the clock: the    *)
(* message it is about to stamp will be the newest and reach everybody.    *)
Unstamped == \E s \in Robot : Broadcasting(s) /\ out[s] = None

(* A stamped message has not left the router's socket yet. *)
Unforwarded == router # <<>> \/ \E s \in Robot : out[s] # None

(* Message m has still to be received by client r. *)
InFlight(m, r) ==
    Waits(m, inbox[r]) \/ Waits(m, router) \/ \E s \in Robot : out[s] = m

(* Client s holds newest, or will when it reads it, and has another        *)
(* message to receive after that one: an answer from s is certain.         *)
WillAnswer(s) ==
    \/ Holds(s, newest) /\ (inbox[s] # <<>> \/ Unforwarded)
    \/ \E i \in 1 .. Len(inbox[s]) :
          inbox[s][i] = newest /\ (i < Len(inbox[s]) \/ Unforwarded)

(* Client r has newest, will receive it, or is a late joiner to whom       *)
(* nothing at all has been sent.                                           *)
Settling(r) ==
    \/ InFlight(newest, r)
    \/ Holds(r, newest)
    \/ tagged[r] = None /\ r \notin audience /\ inbox[r] = <<>> /\ ~ Unforwarded

Agreeing ==
    \/ Unstamped
    \/ \E s \in clients : WillAnswer(s)
    \/ \A r \in clients : Settling(r)

(* No timestamp is newer than newest's, except that of a store whose       *)
(* broadcast is not stamped yet.                                           *)
NewestIsNewest ==
    /\ newest.variableLastUpdated <= clock
    /\ \A i \in 1 .. Len(router) :
          router[i].variableLastUpdated <= newest.variableLastUpdated
    /\ \A r \in Robot : \A i \in 1 .. Len(inbox[r]) :
          inbox[r][i].variableLastUpdated <= newest.variableLastUpdated
    /\ \A r \in Robot : out[r] # None =>
          out[r].variableLastUpdated <= newest.variableLastUpdated
    /\ \A r \in Robot : tagged[r] # None =>
          /\ tagged[r].lastUpdated <= clock
          /\ \/ tagged[r].lastUpdated <= newest.variableLastUpdated
             \/ Broadcasting(r) /\ out[r] = None

(* A robot acts on the variable only as a client, and broadcasts only what *)
(* it has.                                                                 *)
Participation ==
    /\ audience \subseteq clients
    /\ router # <<>> => clients # {}
    /\ \A r \in Robot : out[r] # None => Broadcasting(r)
    /\ \A r \in Robot : Broadcasting(r) => tagged[r] # None
    /\ \A r \in Robot \ clients :
          at[r] = "instruction" /\ tagged[r] = None /\ inbox[r] = <<>>

IInv == TypeOK /\ NewestIsNewest /\ Participation /\ Agreeing
==============================================================================
