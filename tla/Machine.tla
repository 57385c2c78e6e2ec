------------------------------- MODULE Machine -------------------------------
(***************************************************************************)
(* The stack machine of one robot (src/VM): its state is a record m, each  *)
(* instruction an operator on it.  Module Swarm runs one machine per robot *)
(* and connects them.                                                      *)
(*                                                                         *)
(* A call of a closure copies the closure's template to a new index of the *)
(* closure list and registers that instance as a dependant of the          *)
(* variables in its dependency list.  When such a variable is written, by  *)
(* a store or by an update from the network, every dependant is run again, *)
(* and its own dependants after it.  After every return the closures that  *)
(* nothing refers to are freed.                                            *)
(*                                                                         *)
(* An exception ends the program: it is state "error", and what was done   *)
(* before it in the same instruction is left out, for nobody sees it.  So  *)
(* does reading an empty return address stack, which C++ leaves undefined. *)
(*                                                                         *)
(* Left out: timestamps and the broadcast of store tagged (module          *)
(* TaggedVar), floats and strings, stigmergy variables that hold closures, *)
(* and the instructions the loader never emits.                            *)
(***************************************************************************)
EXTENDS Loader, Operators

CONSTANT RegisteredFunction     \* names of the C functions known to main()

GlobalScope == -1               \* currentSymbolTable = &globalSymbolTable
End == -1                       \* a map iterator at the end
NoTemplate == -2                \* a closure made by reading a missing index

(* The C function that moves the robot is told from the others. *)
CFunction(name) == [type |-> "cfun", v |-> IF name = "go_forward" THEN 1 ELSE 0]

(* A variable, in a table or on the operand stack.  Of a stigmergy         *)
(* variable entries is the map, iter the key its iterator stands at.       *)
NoEntries == [id \in {} |-> Nil]
Variable(data) ==
    [data |-> data, isStigmergy |-> FALSE, entries |-> NoEntries, iter |-> End,
     dependants |-> <<>>]
NoVariables == [name \in {} |-> Variable(Nil)]

(* A closure's code, arguments and dependencies are those of its template. *)
Closure(t) ==
    [template |-> t, local |-> NoVariables, dependants |-> <<>>, cachedValue |-> Nil]
HasTemplate(m, c) == c.template \in DOMAIN Definition[m.program]
CodePointer(m, c) ==
    IF HasTemplate(m, c) THEN Definition[m.program][c.template].codePointer ELSE 0
ArgNames(m, c) ==
    IF HasTemplate(m, c) THEN Definition[m.program][c.template].argNames ELSE <<>>
Dependencies(m, c) ==
    IF HasTemplate(m, c) THEN Definition[m.program][c.template].dependencies ELSE <<>>

(* The machine after the load of program p: the closures are defined,      *)
(* nothing has run.  moved is the effect on the robot.                     *)
Loaded(p) ==
    [program |-> p, state |-> "ready", pc |-> 0, stack |-> <<>>,
     frames |-> <<>>, scope |-> GlobalScope, current |-> 0,
     closures |-> [t \in DOMAIN Definition[p] |-> Closure(t)],
     head |-> Cardinality(DOMAIN Definition[p]),
     globals |-> [name \in ClosureName(p) |-> Variable(ClosureData(TemplateOf(p, name)))],
     tagged |-> [name \in RegisteredFunction |-> Variable(CFunction(name))],
     moved |-> FALSE]

Fail(m) == [m EXCEPT !.state = "error"]

(* F(x), for which TLC evaluates x once. *)
Once(F(_), x) == CHOOSE y \in {F(z) : z \in {x}} : TRUE

(* A map with value y at x; and map f on top of map g.                     *)
Put(map, x, y) == [z \in DOMAIN map \cup {x} |-> IF z = x THEN y ELSE map[z]]
Above(f, g) == [z \in DOMAIN f \cup DOMAIN g |-> IF z \in DOMAIN f THEN f[z] ELSE g[z]]

------------------------------------------------------------------------------
(* The operand stack; its top is the last element. *)
Depth(m) == Len(m.stack)
Top(m) == Last(m.stack)
Second(m) == m.stack[Depth(m) - 1]

PushVariable(m, v) == [m EXCEPT !.stack = Append(@, v)]
Push(m, data) == PushVariable(m, Variable(data))
Pop(m, n) == [m EXCEPT !.stack = SubSeq(@, 1, Len(@) - n)]

Holds(v, type) == v.data.type = type /\ ~ v.isStigmergy

(* Everything but a stigmergy variable that holds something. *)
IsReadable(v) == v.data.type = "nil" \/ ~ v.isStigmergy

CachedValues(m) == [i \in DOMAIN m.closures |-> m.closures[i].cachedValue]

(* A stigmergy variable that is taken for the integer its type says it is: *)
(* that throws.                                                            *)
IsMistaken(v) == v.isStigmergy /\ v.data.type = "int"

(* Which operands are read.  A comparison with nil reads neither.          *)
AreOperands(op, v, w) ==
    CASE op \in Logic -> ~ IsMistaken(v) /\ ~ IsMistaken(w)
      [] op \in Comparison /\ "nil" \in {v.data.type, w.data.type} -> TRUE
      [] OTHER -> IsReadable(v) /\ IsReadable(w)

BinaryOnStack(m, op) ==
    IF Depth(m) < 2 \/ ~ AreOperands(op, Top(m), Second(m)) THEN Fail(m)
    ELSE LET result == Binary(op, Top(m).data, Second(m).data, CachedValues(m))
         IN IF result = Error THEN Fail(m) ELSE Push(Pop(m, 2), result)

swap(m) ==
    IF Depth(m) < 2 THEN Fail(m)
    ELSE PushVariable(PushVariable(Pop(m, 2), Top(m)), Second(m))

dup(m) == IF Depth(m) = 0 THEN Fail(m) ELSE PushVariable(m, Top(m))

pop(m) == IF Depth(m) = 0 THEN Fail(m) ELSE Pop(m, 1)

(* The element stays below the answer. *)
isNil(m) == IF Depth(m) = 0 THEN Fail(m) ELSE Push(m, Truth(Top(m).data.type = "nil"))

(* A closure on the stack becomes the value of its last run. *)
uncache(m) ==
    CASE Depth(m) = 0 -> Fail(m)
      [] Depth(m) # 0 /\ Top(m).data.type = "closure" ->
            Push(Pop(m, 1), m.closures[Top(m).data.v].cachedValue)
      [] OTHER -> m

(* jmp, jmp_if_zero and jmp_if_not_zero.  A conditional jump on something  *)
(* that is no number is not taken.                                         *)
JumpTo(m, target) == [m EXCEPT !.pc = target - 1]

JumpIf(m, target, onZero) ==
    CASE Depth(m) = 0 \/ IsMistaken(Top(m)) -> Fail(m)
      [] Depth(m) # 0 /\ Holds(Top(m), "int") /\ (Top(m).data.v = 0) = onZero ->
            IF target < BytecodeSize[m.program] THEN JumpTo(Pop(m, 1), target) ELSE Fail(m)
      [] OTHER -> Pop(m, 1)

------------------------------------------------------------------------------
(* The three tables a name is looked up in. *)
Locals(m) == IF m.scope = GlobalScope THEN m.globals ELSE m.closures[m.scope].local

SetLocal(m, name, v) ==
    IF m.scope = GlobalScope
    THEN [m EXCEPT !.globals = Put(@, name, v)]
    ELSE [m EXCEPT !.closures[m.scope].local = Put(@, name, v)]

SetGlobal(m, name, v) == [m EXCEPT !.globals = Put(@, name, v)]
SetTagged(m, name, v) == [m EXCEPT !.tagged = Put(@, name, v)]

(* findVariable: the scope first, then the globals, then the tagged ones. *)
IsDefined(m, name) ==
    name \in DOMAIN Locals(m) \cup DOMAIN m.globals \cup DOMAIN m.tagged

findVariable(m, name) ==
    CASE name \in DOMAIN Locals(m) -> Locals(m)[name]
      [] name \in DOMAIN m.globals \ DOMAIN Locals(m) -> m.globals[name]
      [] OTHER -> m.tagged[name]

SetFound(m, name, v) ==
    CASE name \in DOMAIN Locals(m) -> SetLocal(m, name, v)
      [] name \in DOMAIN m.globals \ DOMAIN Locals(m) -> SetGlobal(m, name, v)
      [] OTHER -> SetTagged(m, name, v)

(* load pushes a copy, dependants and all.  It looks at the scope and lets *)
(* a global variable of the same name win.                                 *)
loadToStack(m, name) ==
    CASE name \in DOMAIN m.globals -> PushVariable(m, m.globals[name])
      [] name \in DOMAIN Locals(m) \ DOMAIN m.globals -> PushVariable(m, Locals(m)[name])
      [] name \in DOMAIN m.tagged \ (DOMAIN m.globals \cup DOMAIN Locals(m)) ->
            PushVariable(m, m.tagged[name])
      [] OTHER -> Fail(m)

------------------------------------------------------------------------------
(* Everything that is reached from a set of closures along a relation.     *)
Reached(next, from) ==
    LET After[n \in 0 .. Cardinality(DOMAIN next)] ==
            IF n = 0 THEN from ELSE UNION {{i} \cup next[i] : i \in After[n - 1]}
    IN After[Cardinality(DOMAIN next)]

IsCyclic(next, from) ==
    \E i \in Reached(next, from) : i \in Reached(next, next[i])

Index(m) == 0 .. m.head - 1

(* Reading a missing index of the closure list makes an empty closure.     *)
(* Closures on the operand stack are never missing (module Swarm).         *)
Touch(m, indices) ==
    [m EXCEPT !.closures = Above(@, [i \in indices |-> Closure(NoTemplate)])]

(* Reactions. *)
DependantsOf(m) ==
    [i \in Index(m) |->
        IF i \in DOMAIN m.closures THEN ToSet(m.closures[i].dependants) ELSE {}]

(* Mutant of WithDependants: nothing is listed twice. *)
WithDependantsOnce(m, list) ==
    LET Own(i) == IF i \in DOMAIN m.closures THEN m.closures[i].dependants ELSE <<>>
        visit[i \in Index(m)] ==
            <<i>> \o FlattenSeq([k \in DOMAIN Own(i) |-> visit[Own(i)[k]]])
        Join(done, i) == IF i \in ToSet(done) THEN done ELSE Append(done, i)
    IN FoldLeft(Join, <<>>, FlattenSeq([k \in DOMAIN list |-> visit[list[k]]]))

(* recursivelyAddDependantsOfClosureToReturnAddrStack, for a list of       *)
(* closures: each one is followed by its own dependants.  No chain of      *)
(* dependants without a cycle is longer than the closure list.             *)
WithDependants(m, list) ==
    LET Own(i) == IF i \in DOMAIN m.closures THEN m.closures[i].dependants ELSE <<>>
        visit[n \in 0 .. m.head] ==
            [i \in Index(m) |->
                IF n = 0 THEN <<>>
                ELSE <<i>> \o FlattenSeq([k \in DOMAIN Own(i) |-> visit[n - 1][Own(i)[k]]])]
    IN FlattenSeq([k \in DOMAIN list |-> visit[m.head][list[k]]])

Here(m) == [scope |-> m.scope, pc |-> m.pc, current |-> m.current]
EntryOf(m, i) == [scope |-> i, pc |-> CodePointer(m, m.closures[i]), current |-> i]
Enter(m, frame) ==
    [m EXCEPT !.scope = frame.scope, !.pc = frame.pc, !.current = frame.current]

(* The place the machine is at and the dependants go on the return address *)
(* stack, the first to run on top, and that one is entered.  Dependants    *)
(* that depend on each other are listed for ever: a crash.                 *)
handleDependants(m, list) ==
    CASE list = <<>> -> m
      [] list # <<>> /\ IsCyclic(DependantsOf(m), ToSet(list)) -> Fail(m)
      [] OTHER ->
            LET Reacting(visited) ==
                    LET touched == Touch(m, ToSet(visited))
                        waiting == [k \in 1 .. Len(visited) - 1 |-> EntryOf(touched, visited[k + 1])]
                    IN Enter([touched EXCEPT !.frames = Append(@, Here(m)) \o Reverse(waiting)],
                             EntryOf(touched, Head(visited)))
            IN Once(Reacting, WithDependants(m, list))

------------------------------------------------------------------------------
(* store local and store global.  Of a variable that is there the data is  *)
(* replaced and its dependants run; otherwise, and also when it is a       *)
(* stigmergy variable, which cannot be mutated, it becomes a copy of the   *)
(* top, dependants and all.                                                *)
IsMutable(table, name) == name \in DOMAIN table /\ ~ table[name].isStigmergy

Mutated(v, data) == [v EXCEPT !.data = data]

storeLocal(m, name) ==
    CASE Depth(m) = 0 -> Fail(m)
      [] Depth(m) # 0 /\ IsMutable(Locals(m), name) ->
            LET v == Locals(m)[name]
            IN handleDependants(Pop(SetLocal(m, name, Mutated(v, Top(m).data)), 1),
                                v.dependants)
      [] OTHER -> Pop(SetLocal(m, name, Top(m)), 1)

storeGlobal(m, name) ==
    CASE Depth(m) = 0 -> Fail(m)
      [] Depth(m) # 0 /\ IsMutable(m.globals, name) ->
            LET v == m.globals[name]
            IN handleDependants(Pop(SetGlobal(m, name, Mutated(v, Top(m).data)), 1),
                                v.dependants)
      [] OTHER -> Pop(SetGlobal(m, name, Top(m)), 1)

(* store tagged does the same in the tagged table; the caller broadcasts.  *)
(* A stigmergy variable of that name gives way to a plain one.             *)
storeTagged(m, name) ==
    CASE Depth(m) = 0 -> Fail(m)
      [] Depth(m) # 0 /\ IsMutable(m.tagged, name) ->
            LET v == m.tagged[name]
            IN handleDependants(Pop(SetTagged(m, name, Mutated(v, Top(m).data)), 1),
                                v.dependants)
      [] OTHER -> Pop(SetTagged(m, name, Top(m)), 1)

(* checkForMessage with an update of a tagged variable that is here.  An   *)
(* update that is newer becomes the value, or, of a variable that holds a  *)
(* closure, the closure's; one that is not newer is answered.  Either way  *)
(* the dependants of the variable run.                                     *)
receiveTagged(m, name, data, isNewer) ==
    LET v == m.tagged[name]
        c == v.data.v
        updated ==
            CASE ~ isNewer -> m
              [] isNewer /\ v.data.type = "closure" ->
                    [Touch(m, {c}) EXCEPT !.closures[c].cachedValue = data]
              [] OTHER -> SetTagged(m, name, Mutated(v, data))
    IN handleDependants(updated, v.dependants)

(* A tag is put on a variable of the scope or a tagged one; nobody reads   *)
(* it.                                                                     *)
tagVariable(m, name) ==
    IF name \in DOMAIN Locals(m) \cup DOMAIN m.tagged THEN m ELSE Fail(m)

------------------------------------------------------------------------------
(* Stigmergy variables are kept in the tagged table. *)
IsStig(m, name) == name \in DOMAIN m.tagged /\ m.tagged[name].isStigmergy

Begin(entries) == IF DOMAIN entries = {} THEN End ELSE Min(DOMAIN entries)
(* Mutant of Following: the map is taken for an array. *)
FollowingIndex(entries, key) == IF key > Cardinality(DOMAIN entries) THEN End ELSE key + 1

Following(entries, key) ==
    LET later == {k \in DOMAIN entries : k > key}
    IN IF later = {} THEN End ELSE Min(later)

(* The variable takes the type of its last update, not the value. *)
updateStigValue(v, id, data) ==
    [v EXCEPT !.data = [type |-> data.type, v |-> 0], !.entries = Put(@, id, data)]
resetIter(v) == [v EXCEPT !.iter = Begin(v.entries)]

NewStig(id, data) ==
    LET entries == Put(NoEntries, id, data)
    IN [Variable(Nil) EXCEPT !.isStigmergy = TRUE, !.entries = entries,
                             !.iter = Begin(entries)]

(* store stig on the robot with this ID; the caller broadcasts. *)
storeStig(m, id, name) ==
    CASE Depth(m) = 0 \/ (name \in DOMAIN m.tagged /\ ~ IsStig(m, name)) -> Fail(m)
      [] Depth(m) # 0 /\ IsStig(m, name) ->
            LET v == resetIter(updateStigValue(m.tagged[name], id, Top(m).data))
            IN handleDependants(Pop(SetTagged(m, name, v), 1), v.dependants)
      [] OTHER ->
            LET v == NewStig(id, Top(m).data)
            IN Pop(SetTagged(m, name, updateStigValue(v, id, Top(m).data)), 1)

(* Mutant of receiveStig: every update makes the map anew. *)
receiveStigAnew(m, id, name, data) ==
    SetTagged(m, name, NewStig(id, data))

(* checkForMessage with an update of a stigmergy variable: the iterator    *)
(* stays where it is.  What else is in the tagged table, a C function, is  *)
(* there on every robot, and nobody stores under its name.                 *)
receiveStig(m, id, name, data) ==
    IF IsStig(m, name)
    THEN LET v == updateStigValue(m.tagged[name], id, data)
         IN handleDependants(SetTagged(m, name, v), v.dependants)
    ELSE SetTagged(m, name, NewStig(id, data))

(* checkForMessage: the entry of that name decides what an update is for;  *)
(* only when there is none does the kind of the message count.             *)
checkForMessage(m, update) ==
    CASE update.name \in DOMAIN m.tagged /\ ~ IsStig(m, update.name) ->
            receiveTagged(m, update.name, update.data, update.isNewer)
      [] IsStig(m, update.name) \/ (update.isStigmergy /\ update.name \notin DOMAIN m.tagged) ->
            receiveStig(m, update.robotID, update.name, update.data)
      [] OTHER -> SetTagged(m, update.name, Variable(update.data))

stigSize(m, name) ==
    IF IsStig(m, name)
    THEN Push(m, IntData(Cardinality(DOMAIN m.tagged[name].entries)))
    ELSE Fail(m)

isIterAtEnd(m, name) ==
    IF IsStig(m, name) THEN Push(m, Truth(m.tagged[name].iter = End)) ELSE Fail(m)

(* At the end of the map it pushes nil. *)
pushNextElementOfStig(m, name) ==
    CASE ~ IsStig(m, name) -> Fail(m)
      [] IsStig(m, name) /\ m.tagged[name].iter = End -> Push(m, Nil)
      [] OTHER ->
            LET v == m.tagged[name]
            IN Push(SetTagged(m, name, [v EXCEPT !.iter = Following(v.entries, v.iter)]),
                    v.entries[v.iter])

resetIterOf(m, name) ==
    IF IsStig(m, name) THEN SetTagged(m, name, resetIter(m.tagged[name])) ELSE Fail(m)

(* The C functions return 0 and touch nothing but the robot. *)
callCClosure(m, name) ==
    IF name \in DOMAIN m.tagged /\ Holds(m.tagged[name], "cfun")
    THEN [Push(m, IntData(0)) EXCEPT !.moved = @ \/ m.tagged[name].data.v = 1]
    ELSE Fail(m)

------------------------------------------------------------------------------
(* Calls.  The operand stack holds the closure, the number of arguments,   *)
(* and the arguments, the first on top.                                    *)
push_back(m, c) == [m EXCEPT !.closures = Put(@, m.head, c), !.head = @ + 1]

AddDependant(v, i) == [v EXCEPT !.dependants = Append(@, i)]

(* Mutant of Depend: only closures get dependants. *)
DependOnClosure(m, name, i) ==
    LET v == findVariable(m, name)
    IN CASE m.state = "error" \/ ~ IsDefined(m, name) -> Fail(m)
         [] m.state # "error" /\ IsDefined(m, name) /\ Holds(v, "closure") ->
               [Touch(m, {v.data.v}) EXCEPT !.closures[v.data.v] = AddDependant(@, i)]
         [] OTHER -> m

(* Instance i becomes a dependant of the named variable, and of the        *)
(* closure the variable holds.                                             *)
Depend(m, name, i) ==
    LET v == findVariable(m, name)
        n == SetFound(m, name, AddDependant(v, i))
    IN CASE m.state = "error" \/ ~ IsDefined(m, name) -> Fail(m)
         [] m.state # "error" /\ IsDefined(m, name) /\ Holds(v, "closure") ->
               LET c == v.data.v
               IN [Touch(n, {c}) EXCEPT !.closures[c] = AddDependant(@, i)]
         [] OTHER -> n

(* The same for one name of the list after the other. *)
DependOnAll(m, on, i) ==
    LET after[k \in 0 .. Len(on)] ==
            IF k = 0 THEN m ELSE Once(LAMBDA n : Depend(n, on[k], i), after[k - 1])
    IN after[Len(on)]

(* The arguments are printed as they are passed, which reads them. *)
CanCall(m) ==
    /\ Depth(m) >= 2
    /\ Holds(Top(m), "closure")
    /\ Holds(Second(m), "int")
    /\ Second(m).data.v = Len(ArgNames(m, m.closures[Top(m).data.v]))
    /\ Depth(m) >= 2 + Second(m).data.v
    /\ \A i \in 1 .. Second(m).data.v : IsReadable(m.stack[Depth(m) - 1 - i])

callClosure(m) ==
    IF ~ CanCall(m) THEN Fail(m)
    ELSE LET template == m.closures[Top(m).data.v]
             names == ArgNames(m, template)
             Arg(i) == m.stack[Depth(m) - 1 - i]
             args == [x \in ToSet(names) |->
                        Arg(CHOOSE i \in DOMAIN names : names[i] = x)]
             instance == [template EXCEPT !.local = Above(args, @)]
             called == [push_back(Pop(m, 2 + Len(names)), instance) EXCEPT
                          !.frames = Append(@, Here(m)),
                          !.scope = m.head,
                          !.current = m.head]
         IN [DependOnAll(called, Dependencies(m, instance), m.head) EXCEPT
                !.pc = CodePointer(m, instance)]

------------------------------------------------------------------------------
(* The garbage collector: what a closure refers to, the roots, the sweep.  *)
ClosuresIn(vars) == {v.data.v : v \in {w \in vars : w.data.type = "closure"}}

ValueOf(c) == IF c.cachedValue.type = "closure" THEN {c.cachedValue.v} ELSE {}

(* Dependencies are looked up from where the machine is, not from where    *)
(* the closure was called.                                                 *)
References(m, c) ==
    ClosuresIn(Range(c.local)) \cup ValueOf(c)
        \cup ClosuresIn({findVariable(m, name) :
                            name \in {x \in ToSet(Dependencies(m, c)) : IsDefined(m, x)}})

ReferencesOf(m) ==
    [i \in Index(m) |->
        IF i \in DOMAIN m.closures THEN References(m, m.closures[i]) ELSE {}]

Roots(m) ==
    {m.current} \cup {m.frames[k].current : k \in DOMAIN m.frames}
        \cup ClosuresIn(Range(m.globals) \cup Range(m.tagged) \cup Range(m.stack))

(* Mutant of collectGarbage: the operand stack is forgotten. *)
collectWithoutStack(m) ==
    LET from == {m.current} \cup {m.frames[k].current : k \in DOMAIN m.frames}
                    \cup ClosuresIn(Range(m.globals) \cup Range(m.tagged))
    IN [m EXCEPT !.closures = Restrict(@, Reached(ReferencesOf(m), from))]

(* Marking follows every reference again and again, so that closures that  *)
(* refer to each other are a crash; so are a dependency and a closure that *)
(* are not there.                                                          *)
collectGarbage(m) ==
    LET live == Reached(ReferencesOf(m), Roots(m))
    IN IF \/ \E i \in live \cap DOMAIN m.closures :
                \E name \in ToSet(Dependencies(m, m.closures[i])) : ~ IsDefined(m, name)
          \/ ~ live \subseteq DOMAIN m.closures
          \/ IsCyclic(ReferencesOf(m), Roots(m))
       THEN Fail(m)
       ELSE [m EXCEPT !.closures = Restrict(@, live)]

(* A return: whether there is a value is on top of the stack, and the      *)
(* value, if any, below.  It is kept in the closure, and the closure's     *)
(* index is pushed, whoever the closure returns to.                        *)
CanReturn(m) ==
    /\ Depth(m) >= 1
    /\ Holds(Top(m), "int")
    /\ Top(m).data.v = 1 => Depth(m) >= 2 /\ IsReadable(Second(m))
    /\ m.frames # <<>>

Returned(m) ==
    CASE Top(m).data.v # 1 -> Pop(m, 1)
      [] Top(m).data.v = 1 /\ Second(m).data.type \in {"int", "closure"} ->
            [Pop(m, 2) EXCEPT !.closures[m.current].cachedValue = Second(m).data]
      [] OTHER -> Pop(m, 2)

(* Mutant of retFromClosure: the scope of the closure is not left. *)
retFromClosureInScope(m) ==
    IF ~ CanReturn(m) THEN Fail(m)
    ELSE LET n == Push(Returned(m), ClosureData(m.current))
         IN Enter([n EXCEPT !.frames = Front(@)],
                  [Last(m.frames) EXCEPT !.scope = m.scope])

(* Mutant of retFromClosure: the return address stays where it is. *)
retFromClosureUnpopped(m) ==
    IF ~ CanReturn(m) THEN Fail(m)
    ELSE Enter(Push(Returned(m), ClosureData(m.current)), Last(m.frames))

retFromClosure(m) ==
    IF ~ CanReturn(m) THEN Fail(m)
    ELSE LET n == Push(Returned(m), ClosureData(m.current))
         IN Enter([n EXCEPT !.frames = Front(@)], Last(m.frames))

return(m) ==
    Once(LAMBDA n : IF n.state = "error" THEN n ELSE collectGarbage(n), retFromClosure(m))

------------------------------------------------------------------------------
(* One instruction.  An operand is fetched by moving the program counter   *)
(* to its cell; step() moves it past the instruction in the end.           *)
Opcode(m) == bytecode[m.program][m.pc].value
Argument(m) == bytecode[m.program][m.pc + 1].value
Fetched(m) == [m EXCEPT !.pc = @ + 1]

(* The program counter never leaves the bytecode (IsFrame), where to read  *)
(* would be undefined.                                                     *)
IsInstruction(m) ==
    m.pc \in DOMAIN bytecode[m.program] /\ bytecode[m.program][m.pc].kind = "instruction"

(* The instructions with operands; store stig is not among them, since it  *)
(* also sends.  tag variable has two.  tag robot takes its own cell, which *)
(* holds no string, for its operand: a crash.                              *)
WithOperand(op, x, m) ==
    CASE op = "push i" -> Push(m, IntData(x))
      [] op = "load" -> loadToStack(m, x)
      [] op = "store local" -> storeLocal(m, x)
      [] op = "store global" -> storeGlobal(m, x)
      [] op = "store tagged" -> storeTagged(m, x)
      [] op = "tag variable" -> Fetched(tagVariable(m, x))
      [] op = "tag robot" -> Fail(m)
      [] op = "call_c_closure" -> callCClosure(m, x)
      [] op = "stig_size" -> stigSize(m, x)
      [] op = "push_next_in_stig" -> pushNextElementOfStig(m, x)
      [] op = "is_iter_at_end" -> isIterAtEnd(m, x)
      [] op = "reset_iter" -> resetIterOf(m, x)
      [] op = "debug_print" -> m
      [] op = "jmp" -> JumpTo(m, x)
      [] op = "jmp_if_zero" -> JumpIf(m, x, TRUE)
      [] op = "jmp_if_not_zero" -> JumpIf(m, x, FALSE)

WithoutOperand(op, m) ==
    CASE op = "push_nil" -> Push(m, Nil)
      [] op = "pop" -> pop(m)
      [] op = "dup" -> dup(m)
      [] op = "swap" -> swap(m)
      [] op = "uncache" -> uncache(m)
      [] op = "print" -> IF Depth(m) # 0 /\ IsReadable(Top(m)) THEN m ELSE Fail(m)
      [] op = "is_nil" -> isNil(m)
      [] op = "lnot" -> IF Depth(m) = 0 \/ IsMistaken(Top(m)) THEN Fail(m)
                        ELSE Push(Pop(m, 1), lnot(Top(m).data))
      [] op = "call_closure" -> callClosure(m)
      [] op = "ret_from_closure" -> return(m)
      [] op = "spin" -> [m EXCEPT !.pc = @ - 1]
      [] op = "end" -> [m EXCEPT !.state = "done"]
      [] op \in BinaryInstruction -> BinaryOnStack(m, op)
      [] OTHER -> Fail(m)

OperandInstruction ==
    {"push i", "load", "store local", "store global", "store tagged", "tag variable",
     "tag robot", "call_c_closure", "stig_size", "push_next_in_stig", "is_iter_at_end",
     "reset_iter", "debug_print", "jmp", "jmp_if_zero", "jmp_if_not_zero"}

handleInstruction(m) ==
    CASE ~ IsInstruction(m) -> Fail(m)
      [] IsInstruction(m) /\ Opcode(m) \in OperandInstruction ->
            WithOperand(Opcode(m), Argument(m), Fetched(m))
      [] OTHER -> WithoutOperand(Opcode(m), m)

IsStore(m) == IsInstruction(m) /\ Opcode(m) = "store stig"

(* The end of step(): the next instruction, or the end of the program.  An *)
(* exception does not get there.                                           *)
stepEnd(m) ==
    IF m.state = "error" THEN m
    ELSE [m EXCEPT !.pc = @ + 1,
                   !.state = IF m.pc + 1 >= BytecodeSize[m.program] THEN "done" ELSE @]

------------------------------------------------------------------------------
(* What is said of a machine. *)
IsVariable(v) ==
    /\ v.data \in Data
    /\ v.isStigmergy \in BOOLEAN
    /\ DOMAIN v.entries \subseteq Nat /\ Range(v.entries) \subseteq Data
    /\ v.iter \in DOMAIN v.entries \cup {End}
    /\ v.dependants \in Seq(Nat)

IsTable(table) == \A name \in DOMAIN table : IsVariable(table[name])

IsFrame(m, f) ==
    /\ f.pc \in -1 .. BytecodeSize[m.program] - 1
    /\ f.scope \in DOMAIN m.closures \cup {GlobalScope}
    /\ f.current \in DOMAIN m.closures \/ m.head = 0

IsMachine(m) ==
    /\ m.state \in {"ready", "done", "error"}
    /\ IsFrame(m, Here(m)) \/ m.state = "done"
    /\ \A k \in DOMAIN m.frames : IsFrame(m, m.frames[k])
    /\ m.head \in Nat /\ DOMAIN m.closures \subseteq Index(m)
    /\ \A i \in DOMAIN m.closures :
          IsTable(m.closures[i].local) /\ m.closures[i].cachedValue \in Data
    /\ IsTable(m.globals) /\ IsTable(m.tagged)
    /\ \A k \in DOMAIN m.stack : IsVariable(m.stack[k])
    /\ m.moved \in BOOLEAN

(* The closures a machine refers to, but for lists of dependants. *)
Referred(m) ==
    Roots(m) \cup UNION {References(m, m.closures[i]) : i \in DOMAIN m.closures}

(* The closure body that cell pc belongs to, or the main program. *)
BodyOf(p, pc) ==
    LET before == {t \in DOMAIN Definition[p] : Definition[p][t].codePointer < pc}
    IN IF before = {} THEN GlobalScope ELSE Max(before)

(* A place to go on from has the scope its code was written for. *)
ScopeFitsCode(m, frame, next) ==
    IF frame.scope = GlobalScope
    THEN BodyOf(m.program, next) = GlobalScope /\ frame.current = 0
    ELSE /\ BodyOf(m.program, next) = m.closures[frame.scope].template
         /\ frame.current = frame.scope

(* The instructions after which the machine does not go on to the next.    *)
Leaving == {"jmp", "spin", "end", "ret_from_closure", "tag robot"}

(* The cells of an instruction. *)
Width(op) ==
    1 + (IF op \in OperandInstruction \cup {"store stig"} THEN 1 ELSE 0)
      + (IF op = "tag variable" THEN 1 ELSE 0)

(* A program as codegen.cpp lays it out: the main program comes first, and *)
(* neither a jump nor the next instruction leads from it, or from the body *)
(* of a closure, into another body.                                        *)
BodiesAreApart(p) ==
    /\ BodyOf(p, 0) = GlobalScope
    /\ \A t \in DOMAIN Definition[p] : BodyOf(p, Definition[p][t].codePointer + 1) = t
    /\ \A pc \in DOMAIN bytecode[p] : bytecode[p][pc].kind = "instruction" =>
          LET op == bytecode[p][pc].value
          IN /\ op \in Jump \ {"is_nil"} =>
                    BodyOf(p, bytecode[p][pc + 1].value) = BodyOf(p, pc)
             /\ op \notin Leaving => BodyOf(p, pc + Width(op)) = BodyOf(p, pc)
==============================================================================
