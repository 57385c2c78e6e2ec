----------------------------- MODULE MCLanguage -----------------------------
(* Programs for TLC. *)
EXTENDS Language

(* Programs are put together from these.  x' is the variable P(x). *)
L(name, arguments) == List(<<Symbol(name)>> \o arguments)
S(x) == Symbol(x)
P(x) == Primed(x)
I(i) == Number(i)
Op(op, a, b) == L(op, <<a, b>>)
Var(scope, reactivity, x) == L("var", <<S(scope), S(reactivity), x>>)
SetTo(x, e) == L("set", <<x, e>>)
Fun(name, x, body) == L("fun", <<S("inert"), S(name), List(<<S(x)>>), body>>)
Call(name, e) == L(name, <<e>>)
Block(list) == L("begin", list)
If(test, then, else) == L("if", <<test, then, else>>)
While(test, body) == L("while", <<test, body>>)
Each(reactivity, x, map, body) ==
    L("foreach", <<S(reactivity), L("in", <<S(x), S(map)>>), body>>)

(* A text of an expression.  A word needs space before it and nothing else *)
(* does; the spacious text has more.                                       *)
RECURSIVE Written(_, _)
Written(e, spacious) ==
    LET Gap(i) == IF spacious \/ (i > 1 /\ e.v[i].kind # "list") THEN <<Space, Space>> ELSE <<>>
    IN IF e.kind # "list" THEN <<Word(e)>>
       ELSE <<Open>> \o FlattenSeq([i \in DOMAIN e.v |-> Gap(i) \o Written(e.v[i], spacious)])
                \o (IF spacious THEN <<Space>> ELSE <<>>) \o <<Close>>

------------------------------------------------------------------------------
(* Expressions of one and two operators. *)
Operator == <<"+", "-", "*", "/", "<", ">", "<=", ">=", "==", "!=", "&&", "||">>
Operand == <<-7, 0, 2>>

OneOperator ==
    FlattenSeq([k \in DOMAIN Operator |->
        FlattenSeq([i \in 1 .. 3 |->
            [j \in 1 .. 3 |-> Op(Operator[k], I(Operand[i]), I(Operand[j]))]])])

TwoOperators ==
    FlattenSeq([k \in DOMAIN Operator |->
        << Op("-", Op(Operator[k], I(7), I(2)), I(3)),
           Op(Operator[k], I(3), L("!", <<Op("<", I(7), I(2))>>)) >>])

(* Control: Parser/testPrograms/iftest.txt and whiletest.txt, and others. *)
Declared(list) == [i \in DOMAIN list |-> Var("global", "inert", list[i])]

Control == <<
    If(Op("<", I(3), I(10)), If(I(1), I(5), I(7)), I(2)),
    Block(<<Var("local", "inert", S("x")), SetTo(S("x"), I(0)),
            While(Op("<", S("x"), I(4)),
                  Block(<<L("print", <<S("x")>>), SetTo(S("x"), Op("+", I(1), S("x")))>>))>>),
    Block(Declared(<<S("x"), S("y")>>) \o
          <<SetTo(S("x"), I(5)), SetTo(S("y"), I(1)),
            While(Op(">", S("x"), I(0)),
                  Block(<<If(Op("!=", S("x"), I(3)),
                             SetTo(S("y"), Op("*", S("y"), I(2))),
                             Block(<<SetTo(S("y"), Op("-", S("y"), I(1))), I(9)>>)),
                          SetTo(S("x"), Op("-", S("x"), I(1)))>>))>>),
    Block(<<L("include", <<S("functions.txt")>>), L("random_sleep", <<>>),
            L("print", <<Quoted("done")>>), I(4)>>),
    Op("+", Block(<<I(1), I(2)>>), If(I(0), I(10), Block(<<I(20), I(30)>>))) >>

(* Functions. *)
Factorial == Fun("fact", "n", If(Op(">", S("n"), I(0)),
                                 Op("*", S("n"), Call("fact", Op("-", S("n"), I(1)))), I(1)))
Fibonacci == Fun("fib", "n", If(Op("<", S("n"), I(2)), S("n"),
                                Op("+", Call("fib", Op("-", S("n"), I(1))),
                                        Call("fib", Op("-", S("n"), I(2))))))
Functions == <<
    Block(<<Factorial, Call("fact", I(4))>>),
    Block(<<Fibonacci, Call("fib", I(4))>>),
    Block(<<Fun("outer", "n",
                Block(<<Fun("inner", "k", Op("*", S("k"), I(3))),
                        Op("+", Call("inner", S("n")), I(1))>>)),
            Op("+", Call("outer", I(4)), Call("outer", I(5)))>>),
    Block(Declared(<<S("c"), S("r")>>) \o
          <<SetTo(S("c"), I(0)),
            Fun("bump", "n", Block(<<SetTo(S("c"), Op("+", S("c"), S("n"))), S("c")>>)),
            SetTo(S("r"), Op("+", Call("bump", I(2)), Call("bump", I(3)))),
            Op("-", S("r"), S("c"))>>),
    Block(<<Fun("f", "n",
                Block(<<Var("local", "inert", S("t")), SetTo(S("t"), Op("*", S("n"), S("n"))),
                        If(Op(">", S("n"), I(1)),
                           Block(<<Call("f", Op("-", S("n"), I(1))), S("t")>>), S("t"))>>)),
            Op("+", Call("f", I(3)), I(0))>>),
    Block(Declared(<<S("r")>>) \o
          <<Factorial, Fun("g", "n", Call("fact", S("n"))),
            SetTo(S("r"), Call("g", I(3))), Op("+", S("r"), Call("g", I(2)))>>),
    Block(Declared(<<S("x")>>) \o
          <<SetTo(S("x"), I(0)), Fun("next", "n", Op("+", S("n"), I(1))),
            While(Op("<", S("x"), I(3)), SetTo(S("x"), Call("next", S("x"))))>>),
    Block(<<L("fun", <<S("inert"), S("plus"), List(<<S("a"), S("b")>>), Op("+", S("a"), S("b"))>>),
            Op("+", L("plus", <<I(4), L("plus", <<I(1), I(2)>>)>>), I(0))>>),
    Block(Declared(<<S("x"), P("x")>>) \o
          <<SetTo(P("x"), I(3)),
            L("fun", <<S("reactive"), S("f"), List(<<S("k")>>), Op("+", S("k"), P("x"))>>),
            Op("+", Call("f", I(2)), I(0))>>) >>

------------------------------------------------------------------------------
(* Reactive variables a', b' and c', each with a sum for its formula, over *)
(* a variable x' and those before it, in every shape.  Each is given a     *)
(* value before it is given a formula.                                     *)
Cell(scope, x, i) ==
    <<Var(scope, "inert", S(x)), Var(scope, "inert", P(x)), SetTo(P(x), I(i))>>
Reacting(scope, x) == Cell(scope, x, 0) \o <<Var(scope, "reactive", P(x))>>

RECURSIVE SumOf(_)
SumOf(names) == IF Len(names) = 1 THEN Op("*", P(names[1]), I(2))
               ELSE Op("+", P(Head(names)), SumOf(Tail(names)))

OverA == << <<"x">> >>
OverB == << <<"x">>, <<"a">>, <<"x", "a">> >>
OverC == << <<"x">>, <<"a">>, <<"b">>, <<"x", "a">>, <<"b", "x">>, <<"a", "b">>, <<"x", "a", "b">> >>

Names3 == <<"a", "b", "c">>
Cells3(scope, b, c, rest) ==
    Block(Cell(scope, "x", 1) \o FlattenSeq([i \in 1 .. 3 |-> Reacting("global", Names3[i])]) \o
          <<SetTo(P("a"), SumOf(OverA[1])), SetTo(P("b"), SumOf(OverB[b])), SetTo(P("c"), SumOf(OverC[c]))>>
          \o rest)

Networks ==
    FlattenSeq([b \in DOMAIN OverB |->
        [c \in DOMAIN OverC |->
            Cells3("global", b, c, <<SetTo(P("x"), I(3)), Op("+", P("b"), P("c"))>>)]])

(* A formula that calls a function and chooses, a formula set inside a     *)
(* function, and a function that sets what a formula is about.             *)
Twice == Fun("twice", "n", Op("*", S("n"), I(2)))
Formulas == <<
    Block(Cell("global", "x", 1) \o Reacting("global", "a") \o Reacting("global", "b") \o
          <<Twice,
            SetTo(P("a"), If(Op(">", P("x"), I(2)), Call("twice", P("x")), I(7))),
            SetTo(P("b"), Op("+", P("a"), Call("twice", I(1)))),
            SetTo(P("x"), I(3)), SetTo(P("x"), I(2)), SetTo(P("x"), I(4)), P("b")>>),
    Block(Cell("global", "x", 1) \o Reacting("global", "a") \o
          <<Fun("setup", "n",
                Block(<<SetTo(P("a"), Op("+", P("x"), I(1))), Op("+", S("n"), I(1))>>)),
            Call("setup", I(1)), SetTo(P("x"), I(3)), P("a")>>),
    Block(Cell("global", "x", 1) \o Reacting("global", "a") \o
          <<SetTo(P("a"), Op("*", P("x"), I(3))),
            Fun("assign", "n", Block(<<SetTo(P("x"), S("n")), S("n")>>)),
            Op("+", Call("assign", I(4)), P("a"))>>) >>

(* Programs that mean an error. *)
Errors == <<
    Op("+", L("print", <<Op("/", I(1), I(0))>>), I(1)),
    Block(Declared(<<S("x")>>) \o <<Op("+", S("x"), I(1))>>),
    Block(<<SetTo(S("y"), I(1)), I(2)>>),
    Call("g", I(1)),
    Block(Declared(<<S("x")>>) \o <<SetTo(S("x"), I(1)), Op("+", SetTo(S("x"), I(2)), I(1))>>),
    Block(Declared(<<S("x"), P("x")>>) \o
          <<SetTo(P("x"), I(5)), Var("global", "reactive", S("a")), Var("global", "reactive", P("a")),
            SetTo(P("a"), Op("/", I(10), P("x"))), SetTo(P("x"), I(0)), I(1)>>) >>

------------------------------------------------------------------------------
(* Variables of the swarm. *)
Update(id, name, i, isStigmergy, isNewer) ==
    [robotID |-> id, name |-> name, data |-> IntData(i), isStigmergy |-> isStigmergy,
     isNewer |-> isNewer]

(* x' is tagged; so may be a', whose value others may replace. *)
TaggedNetworks ==
    [c \in DOMAIN OverC |-> Cells3("tagged", 3, c, <<L("spin", <<>>)>>)] \o
    << Block(Cell("tagged", "x", 1) \o Reacting("tagged", "a") \o Reacting("global", "b") \o
             <<SetTo(P("a"), Op("+", P("x"), I(1))),
               SetTo(P("b"), Op("+", P("a"), P("x"))), L("spin", <<>>)>>) >>

TaggedUpdates ==
    {Update(1, "x'", 5, FALSE, TRUE), Update(3, "x'", 7, TRUE, TRUE),
     Update(3, "x'", 5, FALSE, FALSE), Update(1, "a'", 50, FALSE, TRUE),
     Update(3, "z", 1, TRUE, TRUE), Update(3, "z", 2, FALSE, TRUE)}

(* The sum of a map, to which robot k contributes 4 to the power of k - 1: *)
(* a sum in base 4 shows how often each entry was visited.  The loop is    *)
(* run once, or again after a store, or as a closure.                      *)
Contribution(k) == 4 ^ (k - 1)

AddUp(reactivity) ==
    Each(reactivity, "y", "m", SetTo(S("sum"), Op("+", S("y"), S("sum"))))

StoreOwn == SetTo(S("m"), I(Contribution(RobotID)))
Zero == SetTo(S("sum"), I(0))

Summing(rest) ==
    Block(<<Var("map", "inert", S("m")), Var("global", "inert", S("sum")), StoreOwn, Zero>> \o rest)

Sums == <<
    Summing(<<AddUp("inert"), S("sum")>>),
    Summing(<<AddUp("inert"), StoreOwn, Zero, AddUp("inert"), S("sum")>>),
    Summing(<<AddUp("reactive"), S("sum")>>) >>

Endless == << Summing(<<AddUp("reactive"), L("spin", <<>>)>>) >>

MapUpdates == {Update(k, "m", Contribution(k), isStigmergy, TRUE) :
                  k \in 1 .. 3, isStigmergy \in BOOLEAN}

------------------------------------------------------------------------------
Alone == OneOperator \o TwoOperators \o Control \o Functions \o Errors \o Networks \o Formulas

Codes == Alone \o TaggedNetworks \o Sums \o Endless

(* The programs with these numbers follow those that need no swarm. *)
After(first, list) == {first + i : i \in DOMAIN list}
TaggedProgram == After(Len(Alone), TaggedNetworks)
SumProgram == After(Len(Alone \o TaggedNetworks), Sums)
EndlessProgram == After(Len(Alone \o TaggedNetworks \o Sums), Endless)

(* VM/testPrograms/updater.txt *)
Updater == <<
    <<"push i", 1>>, <<"store tagged", "var">>,
    <<"push i", 2>>, <<"store stig", "s">>,
    <<"tag variable", "var", "global">>, <<"end">> >>

SourcesOf(codes) == [p \in DOMAIN codes |-> Written(codes[p], p % 2 = 0)]
Sources == LET codes == Codes IN SourcesOf(codes)
Texts == LET compiled == Compiled IN compiled @@ (0 :> Updater)

UpdatesOf ==
    LET tagged == TaggedProgram
        summing == SumProgram \cup EndlessProgram
    IN [p \in Program |->
            CASE p \in tagged -> TaggedUpdates
              [] p \in summing -> MapUpdates
              [] p = 0 -> {Update(1, "var", 5, FALSE, TRUE), Update(1, "s", 5, TRUE, TRUE)}
              [] OTHER -> {}]

------------------------------------------------------------------------------
(* A loop over a map visits no entry twice, none that is not there, and    *)
(* its own, whenever updates come in between and write into the map and    *)
(* while the iterator stands in it (storeLoad.cpp:252, networking.cpp:205).*)
Visits(sum, k) == (sum \div Contribution(k)) % 4

ForeachVisitsEachOnce ==
    (vm.program \in SumProgram /\ vm.state = "done") =>
        LET sum == Plain(vm, vm.globals["sum"].data).v
        IN /\ Visits(sum, RobotID) = 1
           /\ \A k \in 1 .. 3 :
                Visits(sum, k) <= (IF k \in DOMAIN vm.tagged["m"].entries THEN 1 ELSE 0)

------------------------------------------------------------------------------
(* Programs in which the system breaks what its comments promise: each of  *)
(* them alone is a counterexample.  They need no updates.                  *)
NoUpdates == [p \in Program |-> {}]

(* Loops that something follows, or that another loop is around. *)
Loops == <<
    Block(<<While(I(0), I(1)), I(2)>>),
    Op("+", I(4), Block(<<While(I(0), I(1)), I(2)>>)),
    Block(Declared(<<S("x")>>) \o
          <<SetTo(S("x"), I(2)),
            While(S("x"), Block(<<SetTo(S("x"), Op("-", S("x"), I(1))), While(I(0), I(1))>>))>>) >>

(* A loop whose variable has the name of a global one. *)
Hiding == <<
    Block(<<Var("map", "inert", S("m"))>> \o Declared(<<S("y"), S("sum")>>) \o
          <<SetTo(S("m"), I(4)), SetTo(S("y"), I(1)), SetTo(S("sum"), I(0)),
            Each("reactive", "y", "m", SetTo(S("sum"), Op("+", S("y"), S("sum")))), S("sum")>>) >>

(* The order of arguments, and of the operands of a subtraction and of a   *)
(* division one of which is the result of a call.                          *)
Minus == L("fun", <<S("inert"), S("minus"), List(<<S("a"), S("b")>>), Op("-", S("a"), S("b"))>>)
Identity == Fun("id", "n", S("n"))

Orders == <<
    Block(<<Minus, Op("+", L("minus", <<I(7), I(2)>>), I(0))>>),
    Block(<<Identity, Op("-", Call("id", I(7)), I(2))>>),
    Block(<<Identity, Op("/", I(7), Call("id", I(2)))>>) >>

Broken == Loops \o Hiding \o Orders
BrokenSources == SourcesOf(Broken)

(* VM/testPrograms/closure_test.txt, with the type of a literal, the table *)
(* of a store and the parameters written as the loader takes them today.   *)
ClosureTest == <<
    <<"push i", 7>>, <<"store tagged", "speed">>, <<"tag variable", "speed", "global">>,
    <<"push i", 3>>, <<"push i", 1>>, <<"load", "f">>, <<"call_closure">>,
    <<"store global", "fResult">>, <<"load", "fResult">>, <<"print">>, <<"pop">>,
    <<"push i", 0>>, <<"load", "fResultPlusOne">>, <<"call_closure">>,
    <<"store global", "valFResultPlusOne">>, <<"load", "valFResultPlusOne">>, <<"print">>, <<"pop">>,
    <<"push i", 8>>, <<"store tagged", "speed">>,
    <<"load", "fResult">>, <<"print">>, <<"pop">>,
    <<"load", "valFResultPlusOne">>, <<"print">>, <<"pop">>,
    <<"end">>,
    <<"define_closure", "f", <<"x">>, <<"speed">>>>,
    <<"load", "x">>, <<"load", "speed">>, <<"add">>, <<"print">>,
    <<"push i", 1>>, <<"ret_from_closure">>,
    <<"define_closure", "fResultPlusOne", <<>>, <<"fResult">>>>,
    <<"load", "fResult">>, <<"push i", 1>>, <<"add">>, <<"print">>,
    <<"push i", 1>>, <<"ret_from_closure">> >>
BrokenTexts == LET compiled == Compiled IN compiled @@ (0 :> ClosureTest)

(* Every program comes to its end, with the value it means on the stack:   *)
(* - "Everything has to push something!" (codegen.cpp:456, 603), because a *)
(*   block is to "Discard the result of all expressions other than the     *)
(*   last" (codegen.cpp:406).  A while pushes nothing.                     *)
(* - The variable of a foreach is "The local variable used for the foreach *)
(*   loop" (codegen.cpp:498; 517: "it is local").  load lets a global win. *)
(* - Arguments lie on the stack with arg1 below arg2                       *)
(*   (closureInstructions.cpp:32-38), and "Top of stack now holds the      *)
(*   first argument" (line 59).  It holds the last one.                    *)
(* - sub "subtracts from the second element in the stack(b) the top of the *)
(*   stack(a)" (arithmetic.cpp:62; 176 for div).  With a closure it does   *)
(*   the opposite.                                                         *)
(* - closure_test.txt goes on to "Call fResultPlusOne" (line 15) and to    *)
(*   end (line 37).  The collector stops it before.                        *)
ProgramsDoAsPromised ==
    IsAtRest(vm) =>
        /\ vm.state = "done"
        /\ IsCompiled(vm) => Depth(vm) > 0 /\ Answer(vm) = Meanings[vm.program].v
=============================================================================
