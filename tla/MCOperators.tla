----------------------------- MODULE MCOperators -----------------------------
(* Every pair of operands, with every value two closures may have, one     *)
(* after the other, for TLC.                                               *)
EXTENDS Operators

VARIABLES
    a,              \* the top of the operand stack
    b,              \* the element below it
    cached          \* the values of closures 0 and 1; closure 2 is gone

vars == <<a, b, cached>>

Plain == {Nil, [type |-> "cfun", v |-> 0]} \cup {IntData(i) : i \in -2 .. 2}
Operand == Plain \cup {ClosureData(i) : i \in 0 .. 2}
Value == {Nil, IntData(-2), IntData(0), IntData(3), ClosureData(0), ClosureData(1)}

(* A closure may have returned another one, or itself. *)
Caches == [{0, 1} -> Value]

Init == a \in Operand /\ b \in Operand /\ cached \in Caches

Next == a' = b /\ b' = a /\ UNCHANGED cached

Spec == Init /\ [][Next]_vars

------------------------------------------------------------------------------
Val(d) == CachedValue(d, cached)

(* Where closures have returned plain values, sums, products and           *)
(* remainders are those of the values: the replacement of the operands in  *)
(* arithmetic.cpp, which exchanges them, is not seen.                      *)
ClosuresActAsTheirValues ==
    (Val(a).type # "closure" /\ Val(b).type # "closure") =>
        \A op \in {"add", "mul", "mod"} :
            Binary(op, a, b, cached) = Binary(op, Val(a), Val(b), cached)

(* The six comparisons of comparisonJumps.cpp agree with each other, nil   *)
(* included: exactly one of <, = and > holds of two operands that are      *)
(* ordered, >= and <= and # are what is left of the others, and exchanging *)
(* the operands reverses the order.                                        *)
OrderIsTotal ==
    LET Holds(op, x, y) == comparison(op, x, y) = Truth(TRUE)
    IN /\ comparison("lt", a, b) # Error =>
            /\ \E op \in {"lt", "eql", "gt"} :
                  \A other \in {"lt", "eql", "gt"} :
                      Holds(other, a, b) <=> other = op
            /\ Holds("gte", a, b) <=> ~ Holds("lt", a, b)
            /\ Holds("lte", a, b) <=> ~ Holds("gt", a, b)
            /\ Holds("gt", a, b) <=> Holds("lt", b, a)
       /\ comparison("eql", a, b) # Error =>
            (Holds("neql", a, b) <=> ~ Holds("eql", a, b))
==============================================================================
