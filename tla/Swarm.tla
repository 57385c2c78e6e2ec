-------------------------------- MODULE Swarm --------------------------------
(***************************************************************************)
(* A swarm of robots that run their programs, instruction by instruction,  *)
(* each on its own machine, with the router between them.                  *)
(*                                                                         *)
(* A robot's loop is step(): one instruction, then one look at the socket. *)
(* store stig is an action of its own because it sends.  Between two       *)
(* actions of a robot others act, and the update a robot then finds makes  *)
(* its dependent closures run in the middle of whatever it was doing.      *)
(*                                                                         *)
(* The programs store one stigmergy variable and no tagged ones, so that   *)
(* the network carries nothing else.                                       *)
(***************************************************************************)
EXTENDS Network, Machine

CONSTANTS
    Launches,       \* which program each robot may be launched with
    Shared          \* the stigmergy variable the programs store

(* A robot's ID is the robot, a number; a variable is known by its name. *)
ASSUME RobotAssumption == Robot \subseteq Nat
ASSUME SharedAssumption == Shared \in STRING
ASSUME LaunchAssumption ==
    /\ Launches \subseteq [Robot -> Program]
    /\ \A p \in Program : IsLoadable(Text[p])

(* The loader has put an operand behind each of these, has made numbers of *)
(* labels and literals, and refuses no program but the program without an  *)
(* instruction, where the machine would read past the bytecode.            *)
ASSUME BytecodeAssumption ==
    \A p \in Program :
        /\ BytecodeSize[p] \in Nat \ {0}
        /\ \A t \in DOMAIN Definition[p] : Definition[p][t].codePointer \in -1 .. BytecodeSize[p] - 1
        /\ \A pc \in DOMAIN bytecode[p] : bytecode[p][pc].kind = "instruction" =>
              LET op == bytecode[p][pc].value
                  operand == bytecode[p][pc + 1].value
              IN /\ op \in OperandInstruction \cup {"store stig"} => pc + 1 \in DOMAIN bytecode[p]
                 /\ op = "tag variable" => pc + 2 \in DOMAIN bytecode[p]
                 /\ op = "push i" => operand \in Int
                 /\ op \in Jump \ {"is_nil"} => operand \in 0 .. BytecodeSize[p]

(* What the programs may store. *)
ASSUME StoreAssumption ==
    \A p \in Program : \A pc \in DOMAIN bytecode[p] :
        bytecode[p][pc].kind = "instruction" =>
            /\ bytecode[p][pc].value # "store tagged"
            /\ bytecode[p][pc].value = "store stig" => bytecode[p][pc + 1].value = Shared

VARIABLES
    vm,             \* vm[r]: the machine of robot r
    at,             \* at[r]: where robot r is inside step()
    stored,         \* history: the number of r's stores
    written,        \* history: written[r][n]: what the n-th of them stored
    known,          \* history: known[r][q]: which of q's stores r has heard of last
    audience        \* history: the clients when r stored last

history == <<stored, written, known, audience>>
vars == <<netVars, vm, at, history>>

(* store: the number of the store, which is history and not in the packet. *)
Message == [robotID : Robot, name : STRING, data : Data, store : Nat]

Init ==
    /\ NetInit
    /\ \E launch \in Launches : vm = [r \in Robot |-> Loaded(launch[r])]
    /\ at = [r \in Robot |-> "instruction"]
    /\ stored = [r \in Robot |-> 0]
    /\ written = [r \in Robot |-> <<>>]
    /\ known = [r \in Robot |-> [q \in Robot |-> 0]]
    /\ audience = [r \in Robot |-> {}]

Register(r) ==
    /\ AddClient(r)
    /\ UNCHANGED <<vm, at, history>>

(* Robot r is about to run an instruction. *)
AtInstruction(r) ==
    /\ r \in clients
    /\ vm[r].state = "ready"
    /\ at[r] = "instruction"

Stored(r) == storeStig(Fetched(vm[r]), r, Argument(vm[r]))

(* An exception ends the robot's process where it is, before the           *)
(* instruction as far as others can see.                                   *)
Run(r, m) ==
    IF m.state = "error"
    THEN vm' = [vm EXCEPT ![r] = Fail(@)] /\ UNCHANGED at
    ELSE vm' = [vm EXCEPT ![r] = m] /\ at' = [at EXCEPT ![r] = "check"]

(* An instruction that sends nothing: any but store stig, and a store stig *)
(* without an operand or to a name that is no stigmergy variable.          *)
Instruction(r) ==
    /\ AtInstruction(r)
    /\ \E m \in {IF IsStore(vm[r]) THEN Stored(r) ELSE handleInstruction(vm[r])} :
       /\ IsStore(vm[r]) => m.state = "error"
       /\ Run(r, m)
       /\ UNCHANGED <<netVars, history>>

(* The message broadcastVariable sends: the robot's own entry. *)
MessageOf(r, name, m) ==
    [robotID |-> r, name |-> name, data |-> m.tagged[name].entries[r],
     store |-> stored[r] + 1]

(* store stig: write the entry, run the dependants, broadcast. *)
Store(r) ==
    /\ AtInstruction(r)
    /\ IsStore(vm[r])
    /\ \E m \in {Stored(r)} :
       /\ m.state # "error"
       /\ Run(r, m)
       /\ Send(MessageOf(r, Argument(vm[r]), m))
       /\ stored' = [stored EXCEPT ![r] = @ + 1]
       /\ written' = [written EXCEPT ![r] = Append(@, Top(vm[r]).data)]
       /\ known' = [known EXCEPT ![r][r] = stored[r] + 1]
       /\ audience' = [audience EXCEPT ![r] = clients]
       /\ UNCHANGED <<clients, inbox>>

(* The rest of step(): checkForMessage, which may enter a dependant of     *)
(* the variable it updates, and the next program counter.                  *)
EndStep(r, m) ==
    /\ vm' = [vm EXCEPT ![r] = stepEnd(m)]
    /\ at' = [at EXCEPT ![r] = "instruction"]

NoMessage(r) ==
    /\ at[r] = "check"
    /\ inbox[r] = <<>>
    /\ EndStep(r, vm[r])
    /\ UNCHANGED <<netVars, history>>

ReceiveUpdate(r) ==
    /\ at[r] = "check"
    /\ Receive(r)
    /\ LET update == Head(inbox[r])
       IN \E m \in {receiveStig(vm[r], update.robotID, update.name, update.data)} :
             EndStep(r, m)
    /\ known' = [known EXCEPT ![r][Head(inbox[r]).robotID] = Head(inbox[r]).store]
    /\ UNCHANGED <<clients, router, stored, written, audience>>

CheckForMessage(r) == NoMessage(r) \/ ReceiveUpdate(r)

RouterForward == Forward /\ UNCHANGED <<vm, at, history>>

RobotStep(r) == Instruction(r) \/ Store(r) \/ CheckForMessage(r)

Next ==
    \/ RouterForward
    \/ \E r \in Robot : Register(r) \/ RobotStep(r)

Spec == Init /\ [][Next]_vars

(* main() calls step() again and again, the router forwards; nothing makes *)
(* a robot join.  Steps(r) is what RobotStep(r) does to at unless it fails *)
(* in its instruction, after which it does nothing.                        *)
Steps(r) ==
    /\ at[r] = "check" \/ AtInstruction(r)
    /\ at' = [at EXCEPT ![r] = IF @ = "check" THEN "instruction" ELSE "check"]

Fairness == WF_vars(RouterForward) /\ \A r \in Robot : WF_at(Steps(r))

FairSpec == Spec /\ Fairness

------------------------------------------------------------------------------
(* Every machine is a machine; in particular the scopes and the closures   *)
(* on the return address stack, to which the code keeps raw pointers, have *)
(* not been freed by the collector, whatever runs when.                    *)
TypeOK ==
    /\ clients \subseteq Robot
    /\ \A r \in Robot : IsMachine(vm[r])
    /\ at \in [Robot -> {"instruction", "check"}]
    /\ router \in Seq(Message)
    /\ inbox \in [Robot -> Seq(Message)]
    /\ stored \in [Robot -> Nat]
    /\ \A r \in Robot : written[r] \in Seq(Data) /\ Len(written[r]) = stored[r]
    /\ known \in [Robot -> [Robot -> Nat]]
    /\ audience \in [Robot -> SUBSET Robot]

(* The collector frees nothing that the program can still reach: operand   *)
(* stack, tables, values of closures (gc.cpp's markRoots and sweep).       *)
NothingReachableIsFreed ==
    \A r \in Robot :
        (vm[r].state = "ready" /\ vm[r].head > 0) =>
            Referred(vm[r]) \subseteq DOMAIN vm[r].closures

(* However calls, reactions to updates and returns are interleaved, a      *)
(* robot executes the body of a closure with the local variables of an     *)
(* instance of that closure, and will do so wherever it returns to.        *)
CodeRunsInItsScope ==
    \A r \in Robot : vm[r].state = "ready" =>
        LET m == vm[r]
        IN /\ ScopeFitsCode(m, Here(m), IF at[r] = "check" THEN m.pc + 1 ELSE m.pc)
           /\ \A k \in DOMAIN m.frames : ScopeFitsCode(m, m.frames[k], m.frames[k].pc + 1)

(* A reaction runs a closure that is there: the code neither calls nor     *)
(* enters an empty closure, which indexing the closure list with the index *)
(* of a dependant that has been freed would make.                          *)
EveryClosureHasCode ==
    \A r \in Robot : \A i \in DOMAIN vm[r].closures : HasTemplate(vm[r], vm[r].closures[i])

(* Reactions end: once no more updates come, a robot that runs gets back   *)
(* to its main program, unless the program stops.                          *)
ReactionsEnd ==
    \A r \in Robot : []<>(vm[r].frames = <<>> \/ vm[r].state # "ready")

(* The closures that depend on a variable are there when it is updated     *)
(* (gctest.txt: "maybe have some reactivity to show that the things don't  *)
(* break").  The collector does not follow lists of dependants, and a      *)
(* closure whose index the program has popped is kept by nothing else.     *)
DependantsAreKept ==
    \A r \in Robot : \A name \in DOMAIN vm[r].tagged :
        ToSet(vm[r].tagged[name].dependants) \subseteq DOMAIN vm[r].closures

------------------------------------------------------------------------------
(* The variable as module Stigmergy sees it: an entry, in a map or on its  *)
(* way, is the number of the store that history says it comes from, if it  *)
(* is what that store wrote, and otherwise no number of a store.           *)
NumberOf(q, n, data) == IF n \in 1 .. stored[q] /\ written[q][n] = data THEN n ELSE -1

Numbered(queue) ==
    [i \in DOMAIN queue |->
        LET m == queue[i]
        IN [robotID |-> m.robotID, data |-> NumberOf(m.robotID, m.store, m.data)]]

EntriesOf(m) == IF IsStig(m, Shared) THEN m.tagged[Shared].entries ELSE NoEntries

NumbersIn(r) ==
    [q \in Robot |-> IF q \in DOMAIN EntriesOf(vm[r])
                     THEN NumberOf(q, known[r][q], EntriesOf(vm[r])[q]) ELSE 0]

Abstract ==
    INSTANCE Stigmergy WITH
        MaxStores <- -1,
        router <- Numbered(router),
        inbox <- [r \in Robot |-> Numbered(inbox[r])],
        stig <- [r \in Robot |-> NumbersIn(r)]

(* The instruction-level swarm implements the stigmergy variable, whatever *)
(* its programs store, and whatever they do between their stores.          *)
ImplementsStigmergy == Abstract!Spec
==============================================================================
