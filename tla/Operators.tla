------------------------------ MODULE Operators ------------------------------
(***************************************************************************)
(* The arithmetic, comparison and logic instructions of the VM, as         *)
(* operators on data: a is the top of the operand stack, b the element     *)
(* below it, and the result is what the instruction pushes instead of the  *)
(* two, or Error where it throws, which ends the program.                  *)
(*                                                                         *)
(* An operand may be a closure.  Arithmetic then takes the value its last  *)
(* run returned, here cached[index], which may be a closure again.         *)
(*                                                                         *)
(* Floats are left out: every branch for them repeats the branch for       *)
(* integers after a conversion.  Integers stay far below overflow.         *)
(***************************************************************************)
EXTENDS Integers, FiniteSets

DataType == {"nil", "int", "closure", "cfun"}

(* v: the integer, the closure's index, or which C function.               *)
Data == [type : DataType, v : Int]

Nil == [type |-> "nil", v |-> 0]
IntData(i) == [type |-> "int", v |-> i]
ClosureData(i) == [type |-> "closure", v |-> i]
Error == [type |-> "error", v |-> 0]

Truth(b) == IntData(IF b THEN 1 ELSE 0)

(* Integer division of C++, which rounds towards zero. *)
Magnitude(x) == IF x < 0 THEN -x ELSE x
Quotient(x, y) == LET q == Magnitude(x) \div Magnitude(y)
                  IN IF (x < 0) = (y < 0) THEN q ELSE -q
Remainder(x, y) == x - y * Quotient(x, y)

------------------------------------------------------------------------------
(* Arithmetic: the difference and the quotient take b first. *)
Arithmetic == {"add", "sub", "mul", "div"}

(* div, on two integers. *)
divide(x, y) == IF x = 0 THEN Error ELSE IntData(Quotient(y, x))

Calculate(op, x, y) ==
    CASE op = "add" -> IntData(x + y)
      [] op = "sub" -> IntData(y - x)
      [] op = "mul" -> IntData(x * y)
      [] op = "div" -> divide(x, y)

(* The value of an operand; reading the list at an index that is not there *)
(* creates a closure without a value.                                      *)
CachedValue(d, cached) ==
    CASE d.type # "closure" -> d
      [] d.type = "closure" /\ d.v \in DOMAIN cached -> cached[d.v]
      [] OTHER -> Nil

(* Mutant of arithmetic: closures are operands like any other. *)
ArithmeticWithoutCache(op, a, b, cached) ==
    IF a.type = "int" /\ b.type = "int" THEN Calculate(op, a.v, b.v) ELSE Error

(* add, sub, mul and div on the two elements; again: what they are on the  *)
(* values of the closures among them.                                      *)
attempt(op, x, y, again) ==
    CASE x.type = "nil" \/ y.type = "nil"       -> Error
      [] op = "div" /\ x = IntData(0)           -> Error
      [] x.type = "int" /\ y.type = "int"       -> Calculate(op, x.v, y.v)
      [] /\ x.type # "nil" /\ y.type # "nil"
         /\ "closure" \in {x.type, y.type}       -> again
      [] OTHER                                  -> Error

(* With a closure among the operands, the cached values are pushed, a's    *)
(* first, and the instruction is run again: the operands change places.    *)
(* It is run n times more at most: a closure that is not resolved after    *)
(* once per closure leads back to itself, and the code calls itself until  *)
(* it crashes.                                                             *)
arithmetic(op, a, b, cached) ==
    LET times == Cardinality(DOMAIN cached) + 1
        run[n \in 0 .. times] ==
            [pair \in Data \X Data |->
                attempt(op, pair[1], pair[2],
                        IF n = 0 THEN Error
                        ELSE run[n - 1][<<CachedValue(pair[2], cached),
                                          CachedValue(pair[1], cached)>>])]
    IN run[times][<<a, b>>]

(* mod looks once into a closure and leaves the operands where they are.   *)
mod(a, b, cached) ==
    LET x == CachedValue(a, cached)
        y == CachedValue(b, cached)
    IN IF x.type = "int" /\ y.type = "int" /\ x.v # 0
       THEN IntData(Remainder(y.v, x.v))
       ELSE Error

------------------------------------------------------------------------------
Equality == {"eql", "neql"}
Comparison == Equality \cup {"gt", "gte", "lt", "lte"}

(* A comparison of a with b, the top first. *)
Compare(op, x, y) ==
    CASE op = "eql"  -> x = y
      [] op = "neql" -> x # y
      [] op = "gt"   -> x > y
      [] op = "gte"  -> x >= y
      [] op = "lt"   -> x < y
      [] op = "lte"  -> x <= y

(* Mutant of comparison: two nils are never ordered. *)
ComparisonOfNils(op, a, b) ==
    CASE a.type = "nil" /\ b.type = "nil" -> Truth(op = "eql")
      [] a.type = "int" /\ b.type = "int" -> Truth(Compare(op, a.v, b.v))
      [] OTHER -> Error

(* eql and neql: nil equals nil and nothing else. *)
equality(op, a, b) ==
    CASE (a.type = "nil") # (b.type = "nil") -> Truth(op = "neql")
      [] a.type = "nil" /\ b.type = "nil" -> Truth(op = "eql")
      [] a.type = "int" /\ b.type = "int" -> Truth(Compare(op, a.v, b.v))
      [] OTHER -> Error

(* gt, gte, lt and lte: nil is ordered against itself only. *)
order(op, a, b) ==
    CASE a.type = "nil" /\ b.type = "nil" -> Truth(op \in {"gte", "lte"})
      [] a.type = "int" /\ b.type = "int" -> Truth(Compare(op, a.v, b.v))
      [] OTHER -> Error

(* Closures and C functions are not compared. *)
comparison(op, a, b) == IF op \in Equality THEN equality(op, a, b) ELSE order(op, a, b)

------------------------------------------------------------------------------
(* Only nil and zero are false: a closure is true whatever its value. *)
convertVarToBool(d) == d.type # "nil" /\ d # IntData(0)

Logic == {"land", "lor"}

logic(op, a, b) ==
    LET x == convertVarToBool(a)
        y == convertVarToBool(b)
    IN Truth(IF op = "land" THEN x /\ y ELSE x \/ y)

lnot(a) == Truth(~ convertVarToBool(a))

------------------------------------------------------------------------------
BinaryInstruction == Arithmetic \cup {"mod"} \cup Comparison \cup Logic

(* What a binary instruction leaves in the place of its two operands. *)
Binary(op, a, b, cached) ==
    CASE op \in Arithmetic -> arithmetic(op, a, b, cached)
      [] op = "mod"        -> mod(a, b, cached)
      [] op \in Comparison -> comparison(op, a, b)
      [] op \in Logic      -> logic(op, a, b)
==============================================================================
