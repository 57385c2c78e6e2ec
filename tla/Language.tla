------------------------------- MODULE Language -------------------------------
(***************************************************************************)
(* A robot from the text of its program on: the text is read (module       *)
(* Reader), compiled (Codegen), loaded (Loader) and executed (Machine),    *)
(* and what comes out is compared with what the program means (Semantics). *)
(*                                                                         *)
(* The robot is alone with a network that it sees through the updates it   *)
(* is handed.  An update of a variable that closures depend on comes while *)
(* the robot spins: what a reaction does to a computation that it          *)
(* interrupts is shown by module Swarm.  Every other update comes at any   *)
(* moment.                                                                 *)
(***************************************************************************)
EXTENDS Machine, Codegen, Semantics

CONSTANTS
    Source,         \* Source[p]: the text of program p, if it is compiled
    Code,           \* Code[p]: the expression it is written from
    Updates,        \* Updates[p]: the updates that may reach program p
    RobotID,
    MaxUpdates      \* bound on the updates a robot is handed

(* What the compiler makes of the texts.  Constant Text has these and the  *)
(* programs that are written in bytecode.                                  *)
Compiled == LET source == Source IN [p \in DOMAIN source |-> parseFile(source[p])]

ASSUME LanguageAssumption ==
    /\ DOMAIN Source = DOMAIN Code
    /\ LET compiled == Compiled
           text == Text
       IN \A p \in DOMAIN compiled : p \in DOMAIN text /\ text[p] = compiled[p]
    /\ RobotID \in Nat /\ MaxUpdates \in Nat

VARIABLES
    vm,             \* the machine
    updates,        \* how many updates it was handed
    reactions       \* history: how many reruns of closures were started

vars == <<vm, updates, reactions>>

(* A program that does not compile or load is not run. *)
Init ==
    /\ \E p \in Program :
          vm = IF Text[p] # <<>> /\ IsLoadable(Text[p]) THEN Loaded(p) ELSE Fail(Loaded(p))
    /\ updates = 0
    /\ reactions = 0

------------------------------------------------------------------------------
Instructed(m) ==
    IF IsStore(m) THEN storeStig(Fetched(m), RobotID, Argument(m)) ELSE handleInstruction(m)

IsCall(m) == IsInstruction(m) /\ Opcode(m) = "call_closure"

IsSpinning(m) ==
    m.state = "ready" /\ m.frames = <<>> /\ IsInstruction(m) /\ Opcode(m) = "spin"

(* How many reruns a step from m to n has put on the return address stack. *)
Started(m, n) ==
    IF Len(n.frames) > Len(m.frames) /\ ~ IsCall(m) THEN Len(n.frames) - Len(m.frames) ELSE 0

(* step() *)
Step ==
    /\ vm.state = "ready"
    /\ \E m \in {Instructed(vm)} :
       /\ vm' = stepEnd(m)
       /\ reactions' = reactions + Started(vm, m)
    /\ UNCHANGED updates

DependantsOn(m, name) ==
    IF name \in DOMAIN m.tagged THEN m.tagged[name].dependants ELSE <<>>

(* step(), when its checkForMessage finds an update. *)
StepWithUpdate ==
    /\ vm.state = "ready"
    /\ updates < MaxUpdates
    /\ \E update \in Updates[vm.program] :
       /\ DependantsOn(vm, update.name) # <<>> => IsSpinning(vm)
       /\ \E m \in {Instructed(vm)} :
          /\ m.state # "error"
          /\ \E n \in {checkForMessage(m, update)} :
             /\ vm' = stepEnd(n)
             /\ reactions' = reactions + Started(m, n) + Started(vm, m)
    /\ updates' = updates + 1

Next == Step \/ StepWithUpdate

Spec == Init /\ [][Next]_vars

(* main() calls step() again and again; a step that spins changes nothing. *)
FairSpec == Spec /\ WF_vars(Step)

------------------------------------------------------------------------------
TypeOK ==
    /\ Text[vm.program] # <<>> => IsMachine(vm)
    /\ updates \in 0 .. MaxUpdates
    /\ reactions \in Nat

IsAtRest(m) == m.state # "ready" \/ IsSpinning(m)

(* Every program here ends or spins, and so does every reaction to an      *)
(* update: jumps, calls and reruns lead nowhere else.                      *)
ProgramsComeToRest == []<>IsAtRest(vm)

(* The value behind a closure, behind its closure, and so on. *)
Plain(m, d) ==
    LET cached == CachedValues(m)
        follow[x \in Data] == IF x.type = "closure" THEN follow[CachedValue(x, cached)] ELSE x
    IN follow[d]

(* The value that the expression has left on the stack. *)
Answer(m) == Plain(m, Top(m).data)

Meanings == LET code == Code IN [p \in DOMAIN code |-> Meaning(code[p], Blank)]

(* What a while leaves is compared in a run of its own; here, only a       *)
(* program may end in one.                                                 *)
RECURSIVE EndsInLoop(_)
EndsInLoop(e) ==
    e.kind = "list" /\ CASE NameOf(Head(e.v)) = "while" -> TRUE
                         [] NameOf(Head(e.v)) = "begin" -> EndsInLoop(Last(e.v))
                         [] OTHER -> FALSE

IsCompiled(m) == m.program \in DOMAIN Code

(* The variables to compare: those that were declared, but for maps. *)
Settled(s) == {name \in DOMAIN s.value \cup DOMAIN s.formula :
                  name \in DOMAIN s.scope /\ s.scope[name] = "global"}

(* A compiled program computes what it means: the same value, the same     *)
(* variables, reactive ones as if their formulas were evaluated anew, and  *)
(* an error exactly where it means one.  The value of a program that ends  *)
(* in a loop is left open.                                                 *)
ProgramsMeanWhatTheySay ==
    (IsCompiled(vm) /\ IsAtRest(vm) /\ updates = 0) =>
        LET meaning == Meanings[vm.program]
        IN /\ meaning.ok = (vm.state # "error")
           /\ meaning.ok =>
                /\ (vm.state = "done" /\ ~ EndsInLoop(Code[vm.program])) =>
                        Depth(vm) > 0 /\ Answer(vm) = meaning.v
                /\ \A name \in Settled(meaning) :
                      Plain(vm, vm.globals[name].data) = NameMeaning(name, meaning).v

(* Each reaction leaves an index on the operand stack                      *)
(* (closureInstructions.cpp:129), and nothing else that a program does     *)
(* leaves anything behind: expressions, blocks, loops and calls are        *)
(* balanced, so that the stack does not grow with the length of a run.     *)
(* The program's own value is on it, too, which may miss after a loop.     *)
OnlyReactionsGrowTheStack ==
    (IsCompiled(vm) /\ vm.state # "error" /\ IsAtRest(vm)) =>
        Depth(vm) - reactions \in
            (CASE IsSpinning(vm) -> {0}
               [] ~ IsSpinning(vm) /\ EndsInLoop(Code[vm.program]) -> {0, 1}
               [] OTHER -> {1})

(* The code the compiler writes into one file per function, and nested     *)
(* ones into others, is executed with the local variables of its function. *)
CodeRunsInItsScope ==
    vm.state = "ready" =>
        /\ ScopeFitsCode(vm, Here(vm), vm.pc)
        /\ \A k \in DOMAIN vm.frames : ScopeFitsCode(vm, vm.frames[k], vm.frames[k].pc + 1)

(* Every program, as it is laid out in memory, keeps the bodies of its     *)
(* closures apart: the compiler ends each function with a return, numbers  *)
(* the labels of ifs, whiles and foreachs so that no two bodies share one, *)
(* and writes nested functions behind one another.                         *)
BodiesStayApart == (vm.pc = 0 /\ updates = 0) => BodiesAreApart(vm.program)

------------------------------------------------------------------------------
RECURSIVE Finished(_)
Finished(m) ==
    IF m.frames = <<>> \/ m.state = "error" THEN m
    ELSE Finished(stepEnd(Instructed(m)))

(* Closure i is run once more. *)
Rerun(m, i) ==
    Finished(stepEnd(Enter([m EXCEPT !.frames = <<Here(m)>>], EntryOf(m, i))))

(* The instances with dependencies, but for those whose value belongs to   *)
(* the network: a newer update replaces the value of a tagged closure.     *)
Reactive(m) ==
    {i \in DOMAIN m.closures :
        /\ i \notin DOMAIN Definition[m.program]
        /\ Dependencies(m, m.closures[i]) # <<>>}
    \ ClosuresIn(Range(m.tagged))

(* Whenever no reaction is under way, every reactive closure has the value *)
(* it would have if it were run again, although reactions visit closures   *)
(* depth first, some several times, and on the way on a mix of old and new *)
(* values (storeLoad.cpp:170: "This ensures that parent nodes are updated  *)
(* before their children").                                                *)
NothingIsOutOfDate ==
    (vm.state = "ready" /\ vm.frames = <<>>) =>
        \A i \in Reactive(vm) :
            \E m \in {Rerun(vm, i)} :
                /\ m.state # "error"
                /\ Plain(m, m.closures[i].cachedValue)
                        = Plain(vm, vm.closures[i].cachedValue)
==============================================================================
