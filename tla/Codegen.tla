------------------------------- MODULE Codegen -------------------------------
(***************************************************************************)
(* The compiler (src/Parser/codegen.cpp): an expression becomes the text   *)
(* of a program as module Loader takes it.                                 *)
(*                                                                         *)
(* Each function is written to a file of its own, all of which are         *)
(* appended to the main file in the end.  The state of a compilation is a  *)
(* record c that every operator takes last and returns changed: the        *)
(* globals of codegen.cpp, with the files in c.text, the main file as      *)
(* number -1, and with error for an exception, which ends the compiler.    *)
(***************************************************************************)
EXTENDS Reader, TLC

(* What the compiler knows of a name.  A function has no scope.            *)
NoInfo == [scope |-> "", reactivity |-> "", dependencies |-> <<>>, functionType |-> "NIL"]

MainFile == -1

NewCompilation ==
    [env |-> [name \in {} |-> NoInfo], text |-> [file \in {MainFile} |-> <<>>],
     file |-> MainFile, ifs |-> 0, lambdas |-> 0, whiles |-> 0, iters |-> 0, error |-> FALSE]

Throw(c) == [c EXCEPT !.error = TRUE]

Emit(lines, c) == IF c.error THEN c ELSE [c EXCEPT !.text[c.file] = @ \o lines]

(* env[name], which makes an entry, with some fields set. *)
Info(name, c) == IF name \in DOMAIN c.env THEN c.env[name] ELSE NoInfo
SetInfo(name, info, c) == [c EXCEPT !.env = (name :> info) @@ @]

Numbered(label, n) == label \o ToString(n)

Start(name) == << <<"push i", 0>>, <<"load", name>>, <<"call_closure">> >>

------------------------------------------------------------------------------
(* findVariables: the names an expression depends on, in the order they    *)
(* are met, or ok is FALSE where it throws.  Only names with an apostrophe *)
(* count, and what the functions that are called depend on; a call without *)
(* arguments is passed over.                                               *)
Names(list, ok) == [names |-> list, ok |-> ok]

Joined(a, b) ==
    Names(a.names \o SelectSeq(b.names, LAMBDA x : x \notin ToSet(a.names)), a.ok /\ b.ok)

RECURSIVE findVariables(_, _)
findVariables(e, env) ==
    CASE e.kind = "primed" ->
            Names(<<NameOf(e)>>, e.v \in DOMAIN env /\ env[e.v].scope # "local")
      [] e.kind = "list" /\ Len(e.v) > 1 ->
            LET head == Head(e.v)
                called == IF IsSymbol(head) /\ NameOf(head) \in DOMAIN env
                          THEN env[NameOf(head)].dependencies ELSE <<>>
                inside == [i \in 1 .. Len(e.v) - 1 |-> findVariables(e.v[i + 1], env)]
            IN IF IsSymbol(head) /\ NameOf(head) \in {"var", "fun"}
               THEN Names(<<>>, TRUE)
               ELSE FoldLeft(Joined, Names(called, IsSymbol(head)), inside)
      [] OTHER -> Names(<<>>, TRUE)

(* The dependencies of a function without its arguments.  The loop over    *)
(* them passes over the one behind an argument, and runs off the end when  *)
(* an argument is last, which is left undefined: FALSE.                    *)
WithoutArguments(list, arguments) ==
    LET Step(kept, x) ==
            CASE kept.skip -> [names |-> Append(kept.names, x), skip |-> FALSE]
              [] ~ kept.skip /\ x \in ToSet(arguments) -> [kept EXCEPT !.skip = TRUE]
              [] OTHER -> [kept EXCEPT !.names = Append(@, x)]
        result == FoldLeft(Step, [names |-> <<>>, skip |-> FALSE], list)
    IN Names(result.names, ~ result.skip)

------------------------------------------------------------------------------
(* defineFunction, but for the body: a new file is begun with the          *)
(* definition, and in the end the file before it is gone back to.          *)
BeginFunction(name, arguments, dependencies, c) ==
    LET file == Cardinality(DOMAIN c.text) - 1
        known == SetInfo(name, [Info(name, c) EXCEPT !.dependencies = dependencies,
                                                     !.functionType = "PIELO_CLOSURE"], c)
    IN IF c.error \/ \E x \in ToSet(dependencies) :
                        x \notin DOMAIN known.env \/ known.env[x].scope = "local"
       THEN Throw(c)
       ELSE [known EXCEPT
               !.file = file,
               !.text = (file :> << <<"define_closure", name, arguments, dependencies>> >>) @@ @]

(* Mutant of EndFunction: the function does not return. *)
EndFunctionOpen(file, c) == [c EXCEPT !.file = file]

EndFunction(file, c) ==
    [Emit(<< <<"push i", 1>>, <<"ret_from_closure">> >>, c) EXCEPT !.file = file]

(* The names that stand for an instruction, and how many arguments each    *)
(* takes.  The comparisons are turned round, because the second argument   *)
(* is on top of the stack.                                                 *)
Builtin ==
    ("+" :> <<"add", 2>>) @@ ("-" :> <<"sub", 2>>) @@ ("*" :> <<"mul", 2>>) @@
    ("/" :> <<"div", 2>>) @@ ("%" :> <<"mod", 1>>) @@ ("&&" :> <<"land", 2>>) @@
    ("||" :> <<"lor", 2>>) @@ ("!" :> <<"lnot", 1>>) @@ ("==" :> <<"eql", 2>>) @@
    ("!=" :> <<"neql", 2>>) @@ (">" :> <<"lt", 2>>) @@ ("<" :> <<"gt", 2>>) @@
    (">=" :> <<"lte", 2>>) @@ ("<=" :> <<"gte", 2>>) @@ ("print" :> <<"print", 1>>) @@
    ("spin" :> <<"spin", 0>>) @@ ("end" :> <<"end", 0>>)

(* The names in the files that programs include; there is one such file.   *)
Included == "functions.txt" :> "random_sleep"

------------------------------------------------------------------------------
RECURSIVE codegen(_, _)

(* Mutant of codegenAll: from right to left. *)
codegenAllBackwards(list, c) ==
    LET Step(d, e) == codegen(e, d) IN FoldLeft(Step, c, Reverse(list))

(* Expressions one after the other. *)
codegenAll(list, c) ==
    LET Step(d, e) == codegen(e, d) IN FoldLeft(Step, c, list)

(* Operators and calls: the arguments from left to right, then the         *)
(* instruction.  A name that is no function calls nothing.                 *)
codegenProcedure(name, arguments, c) ==
    LET d == codegenAll(arguments, c)
        n == Len(arguments)
    IN CASE name \in DOMAIN Builtin ->
              IF n = Builtin[name][2] THEN Emit(<< <<Builtin[name][1]>> >>, d) ELSE Throw(d)
         [] name \notin DOMAIN Builtin /\ name \notin DOMAIN d.env -> Throw(d)
         [] name \notin DOMAIN Builtin /\ Info(name, d).functionType = "PIELO_CLOSURE" ->
              Emit(<< <<"push i", n>>, <<"load", name>>, <<"call_closure">> >>, d)
         [] name \notin DOMAIN Builtin /\ Info(name, d).functionType = "C_CLOSURE" ->
              Emit(<< <<"call_c_closure", name>> >>, d)
         [] OTHER -> d

codegenIf(arguments, c) ==
    LET elseLabel == Numbered("else_", c.ifs)
        endLabel == Numbered("endif_", c.ifs)
        condition == codegen(arguments[1], [c EXCEPT !.ifs = @ + 1])
        then == codegen(arguments[2], Emit(<< <<"jmp_if_zero", elseLabel>> >>, condition))
        else == codegen(arguments[3],
                        Emit(<< <<"jmp", endLabel>>, <<"label", elseLabel>> >>, then))
    IN IF Len(arguments) # 3 THEN Throw(c) ELSE Emit(<< <<"label", endLabel>> >>, else)

(* Declarations. *)
isValidScope(e) == e.kind = "symbol" /\ e.v \in {"local", "global", "tagged", "map"}
isValidReactivity(e) == e.kind = "symbol" /\ e.v \in {"reactive", "inert"}

codegenVar(arguments, c) ==
    IF /\ Len(arguments) = 3
       /\ isValidScope(arguments[1]) /\ isValidReactivity(arguments[2]) /\ IsSymbol(arguments[3])
    THEN LET name == NameOf(arguments[3])
         IN Emit(<< <<"push_nil">> >>,
                 SetInfo(name, [Info(name, c) EXCEPT !.scope = arguments[1].v,
                                                     !.reactivity = arguments[2].v], c))
    ELSE Throw(c)

(* A reactive variable is set to a closure that is called at once; the     *)
(* value of an inert one is taken out of its closure.                      *)
StoreInto(scope, name) ==
    << <<"store " \o (IF scope = "map" THEN "stig" ELSE scope), name>>, <<"push_nil">> >>

codegenSet(arguments, c) ==
    LET name == NameOf(arguments[1])
        value == arguments[2]
        lambda == Numbered("__lambda_", c.lambdas)
        d == [c EXCEPT !.lambdas = @ + 1]
        found == findVariables(value, c.env)
        defined == EndFunction(c.file, codegen(value,
                        BeginFunction(lambda, <<>>, found.names, d)))
    IN CASE Len(arguments) # 2 -> Throw(d)
         [] Len(arguments) = 2 /\ (~ IsSymbol(arguments[1]) \/ name \notin DOMAIN c.env) ->
              Throw(d)
         [] Len(arguments) = 2 /\ Info(name, c).reactivity = "reactive" ->
              IF found.ok
              THEN Emit(Start(lambda) \o StoreInto(c.env[name].scope, name), defined)
              ELSE Throw(d)
         [] OTHER ->
              Emit(<< <<"uncache">> >> \o StoreInto(c.env[name].scope, name), codegen(value, d))

(* Mutant of codegenBegin: all values stay on the stack. *)
codegenBeginKeeping(arguments, c) == codegenAll(arguments, c)

(* Every value is dropped but the last. *)
codegenBegin(arguments, c) ==
    LET Step(d, i) == codegen(arguments[i], IF i = 1 THEN d ELSE Emit(<< <<"pop">> >>, d))
    IN FoldLeft(Step, c, [i \in DOMAIN arguments |-> i])

codegenFun(arguments, c) ==
    LET reactivity == arguments[1]
        name == arguments[2]
        parameters == arguments[3]
        names == [i \in DOMAIN parameters.v |-> NameOf(parameters.v[i])]
        found == findVariables(arguments[4], c.env)
        dependencies == IF reactivity.v = "reactive" THEN WithoutArguments(found.names, names)
                        ELSE Names(<<>>, TRUE)
    IN IF \/ Len(arguments) # 4
          \/ ~ (IsSymbol(name) /\ isValidReactivity(reactivity) /\ parameters.kind = "list")
          \/ \E i \in DOMAIN parameters.v : ~ IsSymbol(parameters.v[i])
          \/ reactivity.v = "reactive" /\ ~ found.ok
          \/ ~ dependencies.ok
       THEN Throw(c)
       ELSE Emit(<< <<"push_nil">> >>, EndFunction(c.file, codegen(arguments[4],
                    BeginFunction(NameOf(name), names, dependencies.names, c))))

(* print of a text needs the quotation mark at both ends; what is between  *)
(* is printed and does not matter.                                         *)
codegenPrint(arguments, c) ==
    CASE arguments = <<>> -> Throw(c)
      [] arguments # <<>> /\ Head(arguments).kind = "text" ->
            IF Last(arguments).kind = "text"
            THEN Emit(<< <<"debug_print", Head(arguments).v>>, <<"push_nil">> >>, c)
            ELSE Throw(c)
      [] OTHER -> codegenProcedure("print", arguments, c)

(* The loop over a map goes on from where the iterator of the map stands.  *)
codegenIterBlock(map, inVar, body, c) ==
    LET startLabel == Numbered("iter_start_", c.iters)
        endLabel == Numbered("iter_end_", c.iters)
        begun == Emit(<< <<"label", startLabel>>, <<"is_iter_at_end", map>>,
                         <<"jmp_if_not_zero", endLabel>>, <<"push_next_in_stig", map>>,
                         <<"store local", inVar>> >>, [c EXCEPT !.iters = @ + 1])
    IN Emit(<< <<"pop">>, <<"jmp", startLabel>>, <<"label", endLabel>>, <<"push_nil">> >>,
            codegen(body, begun))

IsInBlock(e) ==
    e.kind = "list" /\ e.v # <<>> /\ IsSymbol(e.v[1]) /\ NameOf(e.v[1]) = "in"

codegenForeach(arguments, c) ==
    LET inVar == NameOf(arguments[2].v[2])
        map == NameOf(arguments[2].v[3])
        body == arguments[3]
        d == SetInfo(inVar, [Info(inVar, c) EXCEPT !.scope = "global",
                                                   !.reactivity = "inert"], c)
        lambda == Numbered("__lambda_", c.lambdas)
        found == findVariables(body, d.env)
        called == Emit(Start(lambda), [d EXCEPT !.lambdas = @ + 1])
        begun == BeginFunction(lambda, <<>>, Remove(Append(found.names, map), inVar), called)
    IN IF \/ Len(arguments) # 3
          \/ ~ (isValidReactivity(arguments[1]) /\ IsInBlock(arguments[2]))
          \/ ~ IsSymbol(arguments[2].v[2])
          \/ Info(map, c).scope # "map"
          \/ arguments[1].v = "reactive" /\ ~ found.ok
       THEN Throw(c)
       ELSE IF arguments[1].v = "reactive"
            THEN EndFunction(c.file, codegenIterBlock(map, inVar, body, begun))
            ELSE codegenIterBlock(map, inVar, body, d)

(* A loop leaves nothing on the stack, not even nil. *)
codegenWhile(arguments, c) ==
    LET startLabel == Numbered("while_", c.whiles)
        endLabel == Numbered("while_end_", c.whiles)
        begun == Emit(<< <<"label", startLabel>> >>, [c EXCEPT !.whiles = @ + 1])
        tested == Emit(<< <<"jmp_if_zero", endLabel>> >>, codegen(arguments[1], begun))
    IN IF Len(arguments) # 2 THEN Throw(c)
       ELSE Emit(<< <<"pop">>, <<"jmp", startLabel>>, <<"label", endLabel>> >>,
                 codegen(arguments[2], tested))

codegenInclude(arguments, c) ==
    IF Len(arguments) = 1 /\ IsSymbol(arguments[1]) /\ arguments[1].v \in DOMAIN Included
    THEN LET name == Included[arguments[1].v]
         IN Emit(<< <<"push_nil">> >>,
                 SetInfo(name, [Info(name, c) EXCEPT !.reactivity = "inert",
                                                     !.functionType = "C_CLOSURE"], c))
    ELSE Throw(c)

(* To look at the first of no elements is undefined: an error here. *)
codegenList(items, c) ==
    IF items = <<>> \/ ~ IsSymbol(Head(items)) THEN Throw(c)
    ELSE LET name == NameOf(Head(items))
             arguments == Tail(items)
         IN CASE name = "if" -> codegenIf(arguments, c)
              [] name = "var" -> codegenVar(arguments, c)
              [] name = "set" -> codegenSet(arguments, c)
              [] name = "begin" -> codegenBegin(arguments, c)
              [] name = "fun" -> codegenFun(arguments, c)
              [] name = "print" -> codegenPrint(arguments, c)
              [] name = "foreach" -> codegenForeach(arguments, c)
              [] name = "while" -> codegenWhile(arguments, c)
              [] name = "include" -> codegenInclude(arguments, c)
              [] OTHER -> codegenProcedure(name, arguments, c)

codegen(e, c) ==
    CASE c.error -> c
      [] ~ c.error /\ e.kind = "list" -> codegenList(e.v, c)
      [] ~ c.error /\ e.kind = "int" -> Emit(<< <<"push i", e.v>> >>, c)
      [] OTHER -> Emit(<< <<"load", NameOf(e)>> >>, c)

(* The main file, then the functions in the order they were begun.  A      *)
(* compiler that throws leaves no program.                                 *)
codegenProgram(e) ==
    LET c == codegen(e, NewCompilation)
        functions == Cardinality(DOMAIN c.text) - 1
    IN IF c.error THEN <<>>
       ELSE c.text[MainFile] \o << <<"end">> >>
                \o FlattenSeq([f \in 1 .. functions |-> c.text[f - 1]])

(* parseFile: from the text to the bytecode's text. *)
parseFile(text) ==
    LET read == parseString(text) IN IF read.ok THEN codegenProgram(read.e) ELSE <<>>
==============================================================================
