------------------------------ MODULE Stigmergy ------------------------------
(***************************************************************************)
(* One stigmergy variable of the swarm: a map from robot IDs to values in  *)
(* every robot's taggedTable.  A robot stores only under its own ID        *)
(* (storeStig) and broadcasts that entry; whoever receives it, the sender  *)
(* included, writes it under the sender's ID without looking at times      *)
(* (checkForMessage).                                                      *)
(*                                                                         *)
(* Robot IDs are the robots themselves: Startup shows that they are        *)
(* distinct.  The value of an entry is the number of the store, per robot, *)
(* that wrote it; 0 says that the map has no entry, and a map without      *)
(* entries that the robot has no such variable, for both storeStig and     *)
(* checkForMessage create the variable with its first entry.               *)
(*                                                                         *)
(* storeStig reads nothing of the network between its write and its        *)
(* sendto, so that the two are one step here.                              *)
(***************************************************************************)
EXTENDS Network, FiniteSets

CONSTANT MaxStores  \* bound: how many times each robot stores; -1 for no bound

VARIABLES
    stig,           \* stig[r][q]: the entry of q in robot r's map, or 0
    at,             \* at[r]: where robot r is inside step()
    stored,         \* history: stored[r], the number of r's stores
    audience        \* history: the clients when r stored last

vars == <<netVars, stig, at, stored, audience>>

Message == [robotID : Robot, data : Nat]

Init ==
    /\ NetInit
    /\ stig = [r \in Robot |-> [q \in Robot |-> 0]]
    /\ at = [r \in Robot |-> "instruction"]
    /\ stored = [r \in Robot |-> 0]
    /\ audience = [r \in Robot |-> {}]

(* A robot joins; the map's earlier updates are not repeated to it. *)
Register(r) ==
    /\ AddClient(r)
    /\ UNCHANGED <<stig, at, stored, audience>>

(* Mutants of updateStigValue: an entry that is there stays as it is (the  *)
(* insert of a C++ map), and the map is made anew for every entry.         *)
InsertStigValue(map, id, data) == IF map[id] = 0 THEN [map EXCEPT ![id] = data] ELSE map
RenewStig(map, id, data) == [q \in Robot |-> IF q = id THEN data ELSE 0]

(* Variable's method of this name: one entry is overwritten or added. *)
updateStigValue(map, id, data) == [map EXCEPT ![id] = data]

(* Mutant of MessageOf: broadcastVariable forgets the robot's ID. *)
MessageWithoutID(r, n) == [data |-> n]

(* The message broadcastVariable sends of r's entry. *)
MessageOf(r, n) == [robotID |-> r, data |-> n]

(* store stig: write the own entry and broadcast it.                       *)
StoreStig(r) ==
    /\ r \in clients
    /\ at[r] = "instruction"
    /\ stored[r] # MaxStores
    /\ stored' = [stored EXCEPT ![r] = @ + 1]
    /\ audience' = [audience EXCEPT ![r] = clients]
    /\ stig' = [stig EXCEPT ![r] = updateStigValue(@, r, stored[r] + 1)]
    /\ Send(MessageOf(r, stored[r] + 1))
    /\ at' = [at EXCEPT ![r] = "check"]
    /\ UNCHANGED <<clients, inbox>>

(* Any other instruction. *)
OtherInstruction(r) ==
    /\ r \in clients
    /\ at[r] = "instruction"
    /\ at' = [at EXCEPT ![r] = "check"]
    /\ UNCHANGED <<netVars, stig, stored, audience>>

(* checkForMessage: nothing there, or an entry to write. *)
NoMessage(r) ==
    /\ at[r] = "check"
    /\ inbox[r] = <<>>
    /\ at' = [at EXCEPT ![r] = "instruction"]
    /\ UNCHANGED <<netVars, stig, stored, audience>>

UpdateStigValue(r) ==
    /\ at[r] = "check"
    /\ Receive(r)
    /\ stig' = [stig EXCEPT ![r] = updateStigValue(@, Head(inbox[r]).robotID,
                                                   Head(inbox[r]).data)]
    /\ at' = [at EXCEPT ![r] = "instruction"]
    /\ UNCHANGED <<clients, router, stored, audience>>

RouterForward == Forward /\ UNCHANGED <<stig, at, stored, audience>>

CheckForMessage(r) == NoMessage(r) \/ UpdateStigValue(r)

Next ==
    \/ RouterForward
    \/ \E r \in Robot :
          Register(r) \/ StoreStig(r) \/ OtherInstruction(r) \/ CheckForMessage(r)

Spec == Init /\ [][Next]_vars

(* Robots keep stepping and the router keeps forwarding; nothing makes a   *)
(* robot store or join.                                                    *)
Fairness ==
    /\ WF_vars(RouterForward)
    /\ \A r \in Robot : WF_vars(OtherInstruction(r) \/ CheckForMessage(r))

FairSpec == Spec /\ Fairness

------------------------------------------------------------------------------
TypeOK ==
    /\ clients \subseteq Robot
    /\ router \in Seq(Message)
    /\ inbox \in [Robot -> Seq(Message)]
    /\ stig \in [Robot -> [Robot -> Nat]]
    /\ at \in [Robot -> {"instruction", "check"}]
    /\ stored \in [Robot -> Nat]
    /\ audience \in [Robot -> SUBSET Robot]

(* getStigSize: how many robots have an entry. *)
StigSize(r) == Cardinality({q \in Robot : stig[r][q] # 0})

(* The last thing robot q has stored, on its way. *)
Latest(q) == MessageOf(q, stored[q])

(* Robot r has q's last store, or joined too late to be sent anything of   *)
(* q's map entry and has none.                                             *)
Knows(r, q) == stig[r][q] = stored[q] \/ (stig[r][q] = 0 /\ r \notin audience[q])

(* At every moment a client either knows what q stored last or has that    *)
(* very update still to receive.  In particular a robot's own entry, which *)
(* the echo of its older stores may set back, is back to its last store    *)
(* once the echoes have arrived.                                           *)
KnownOrOnTheWay ==
    \A r, q \in clients :
        Knows(r, q) \/ Waits(Latest(q), inbox[r]) \/ Waits(Latest(q), router)

(* No robot ever sees another robot's entry go back to an earlier value or *)
(* disappear, so that stig_size never shrinks (storeLoad.cpp's             *)
(* updateStigValue never erases, and the router keeps the order).          *)
OthersNeverGoBack ==
    [][\A r \in Robot : \A q \in Robot \ {r} : stig'[r][q] >= stig[r][q]]_vars

(* What a robot has stored last reaches everybody who had joined by then,  *)
(* or is replaced by a later store.                                        *)
StoresSpread ==
    \A r, q \in Robot : \A n \in 1 .. MaxStores :
        (stored[q] = n /\ r \in audience[q]) ~> (stig[r][q] = stored[q])

(* A barrier on stig_size as in testPrograms/barrier.txt: once everybody   *)
(* has stored, everybody counts everybody.                                 *)
EverybodyCounted ==
    (\A r \in Robot : stored[r] # 0) ~> (\A r \in Robot : StigSize(r) = Cardinality(Robot))
==============================================================================
