------------------------------ MODULE Semantics ------------------------------
(***************************************************************************)
(* What a program of the language means, said without tokens, bytecode,    *)
(* stacks or closures: the reference that the compiler and the machine     *)
(* are held against in module Language.                                    *)
(*                                                                         *)
(* The meaning of an expression takes a state to a state: a record with    *)
(* the value of each variable, the formula of each reactive variable, the  *)
(* functions, the local variables of the function that is executed, and    *)
(* the value v of the expression.  ok is FALSE after an error.             *)
(*                                                                         *)
(* A reactive variable always has the value its formula has now, as a cell *)
(* of a spreadsheet.  A map has an entry of this robot only.               *)
(***************************************************************************)
EXTENDS Reader, Operators, TLC

Blank ==
    [value |-> [name \in {} |-> Nil], formula |-> [name \in {} |-> List(<<>>)],
     function |-> [name \in {} |-> List(<<>>)], scope |-> [name \in {} |-> ""],
     reactive |-> {}, local |-> [name \in {} |-> Nil], inside |-> FALSE,
     ok |-> TRUE, v |-> Nil]

Say(v, s) == [s EXCEPT !.v = v]
Wrong(s) == [s EXCEPT !.ok = FALSE]

Meant(op, x, y) ==
    CASE op = "+" -> IntData(x + y)
      [] op = "-" -> IntData(x - y)
      [] op = "*" -> IntData(x * y)
      [] op = "/" -> IF y = 0 THEN Error ELSE IntData(Quotient(x, y))
      [] op = "<" -> Truth(x < y)
      [] op = ">" -> Truth(x > y)
      [] op = "<=" -> Truth(x <= y)
      [] op = ">=" -> Truth(x >= y)
      [] op = "==" -> Truth(x = y)
      [] op = "!=" -> Truth(x # y)

BinaryName == {"+", "-", "*", "/", "<", ">", "<=", ">=", "==", "!="}
LogicName == {"&&", "||"}

IsTrue(d) == d.type # "nil" /\ d.v # 0

Applied(op, a, b) ==
    CASE op = "&&" -> Truth(IsTrue(a) /\ IsTrue(b))
      [] op = "||" -> Truth(IsTrue(a) \/ IsTrue(b))
      [] op \in BinaryName /\ a.type = "int" /\ b.type = "int" -> Meant(op, a.v, b.v)
      [] OTHER -> Error

------------------------------------------------------------------------------
RECURSIVE Meaning(_, _), Loop(_, _)

InOrder(list, s) ==
    LET Step(t, e) == Meaning(e, t) IN FoldLeft(Step, s, list)

(* What a formula sees of a state. *)
Outside(s) == [s EXCEPT !.local = Blank.local, !.inside = FALSE]

(* A local name hides a global one.  A formula knows no local names; one    *)
(* that leads back to the variable it is for has no meaning, and no program *)
(* here has one.                                                            *)
NameMeaning(name, s) ==
    CASE name \in DOMAIN s.local -> Say(s.local[name], s)
      [] name \in DOMAIN s.formula \ DOMAIN s.local ->
            LET formula == Meaning(s.formula[name], Outside(s))
            IN IF formula.ok THEN Say(formula.v, s) ELSE Wrong(s)
      [] name \in DOMAIN s.value \ (DOMAIN s.formula \cup DOMAIN s.local) -> Say(s.value[name], s)
      [] OTHER -> Wrong(s)

(* Every formula has a value. *)
IsSound(s) == \A name \in DOMAIN s.formula : Meaning(s.formula[name], Outside(s)).ok

Scope(name, s) == IF name \in DOMAIN s.scope THEN s.scope[name] ELSE "none"

SetMeaning(name, e, s) ==
    IF name \in s.reactive
    THEN LET t == [s EXCEPT !.formula = (name :> e) @@ @]
         IN IF Meaning(e, Outside(s)).ok THEN Say(Nil, t) ELSE Wrong(s)
    ELSE LET t == IF Scope(name, s) # "none" THEN Meaning(e, s) ELSE Wrong(s)
             u == IF t.inside /\ Scope(name, t) = "local"
                  THEN [t EXCEPT !.local = (name :> t.v) @@ @]
                  ELSE [t EXCEPT !.value = (name :> t.v) @@ @]
         IN IF t.ok /\ IsSound(u) THEN Say(Nil, u) ELSE Wrong(t)

(* The first argument is for the first parameter. *)
CallMeaning(name, arguments, s) ==
    LET n == Len(arguments)
        after[i \in 0 .. n] == IF i = 0 THEN s ELSE Meaning(arguments[i], after[i - 1])
        function == s.function[name]
        Index(x) == CHOOSE i \in 1 .. n : function.parameters[i] = x
        called == [after[n] EXCEPT
                     !.inside = TRUE,
                     !.local = [x \in ToSet(function.parameters) |-> after[Index(x)].v]]
        result == Meaning(function.body, called)
    IN IF after[n].ok /\ name \in DOMAIN s.function /\ n = Len(function.parameters)
       THEN [result EXCEPT !.inside = s.inside, !.local = after[n].local]
       ELSE Wrong(s)

(* A loop has a value like everything else. *)
Loop(arguments, s) ==
    LET tested == Meaning(arguments[1], s)
    IN IF tested.ok /\ IsTrue(tested.v) THEN Loop(arguments, Meaning(arguments[2], tested))
       ELSE Say(Nil, tested)

(* The variable of the loop is a local one. *)
ForeachMeaning(inVar, map, body, s) ==
    IF map \notin DOMAIN s.value THEN Wrong(s)
    ELSE LET t == Meaning(body, [s EXCEPT !.local = (inVar :> s.value[map]) @@ @])
         IN Say(Nil, [t EXCEPT !.local = Restrict(@, DOMAIN @ \ {inVar})])

ListMeaning(name, arguments, s) ==
    LET first == Meaning(arguments[1], s)
        second == Meaning(arguments[2], first)
        applied == Applied(name, first.v, second.v)
    IN CASE name \in BinaryName \cup LogicName ->
              IF second.ok /\ applied # Error THEN Say(applied, second) ELSE Wrong(second)
         [] name = "!" -> Say(Truth(~ IsTrue(first.v)), first)
         [] name = "if" ->
              Meaning(IF IsTrue(first.v) THEN arguments[2] ELSE arguments[3], first)
         [] name = "begin" -> InOrder(arguments, s)
         [] name = "print" -> IF arguments[1].kind = "text" THEN Say(Nil, s) ELSE first
         [] name = "while" -> Loop(arguments, s)
         [] name = "var" ->
              LET x == NameOf(arguments[3])
              IN Say(Nil, [s EXCEPT
                    !.scope = (x :> arguments[1].v) @@ @,
                    !.reactive = IF arguments[2].v = "reactive" THEN @ \cup {x} ELSE @ \ {x}])
         [] name = "set" -> SetMeaning(NameOf(arguments[1]), arguments[2], s)
         [] name = "fun" ->
              Say(Nil, [s EXCEPT !.function = (NameOf(arguments[2]) :>
                    [parameters |-> [i \in DOMAIN arguments[3].v |-> NameOf(arguments[3].v[i])],
                     body |-> arguments[4]]) @@ @])
         [] name = "foreach" ->
              ForeachMeaning(NameOf(arguments[2].v[2]), NameOf(arguments[2].v[3]),
                             arguments[3], s)
         [] name = "include" -> Say(Nil, s)
         [] name = "random_sleep" -> Say(IntData(0), s)
         [] name \in {"spin", "end"} -> s
         [] OTHER -> CallMeaning(name, arguments, s)

Meaning(e, s) ==
    CASE ~ s.ok -> s
      [] s.ok /\ e.kind = "list" -> ListMeaning(NameOf(Head(e.v)), Tail(e.v), s)
      [] s.ok /\ e.kind = "int" -> Say(IntData(e.v), s)
      [] OTHER -> NameMeaning(NameOf(e), s)
==============================================================================
