---------------------------- MODULE OperatorsProofs ----------------------------
(***************************************************************************)
(* The six comparison instructions agree with each other on all data of    *)
(* the VM, and add, mul and mod act on closures as on the values they      *)
(* returned: for integers of any size, any number of closures and whatever *)
(* these returned, and not only on the few that TLC enumerates in          *)
(* MCOperators.                                                            *)
(***************************************************************************)
EXTENDS MCOperators, Recursion

(* What a comparison pushes tells truth from falsehood and from an error. *)
LEMMA TruthTells ==
    /\ Truth(TRUE) # Truth(FALSE)
    /\ \A p : Truth(p) # Error
  BY DEF Truth, IntData, Error

(* Which comparisons hold of two integers, of two nils, of a nil and       *)
(* something else, and of what is not compared.                            *)
LEMMA LessCompared ==
    ASSUME NEW x \in Data, NEW y \in Data, x.type = "int", y.type = "int", x.v < y.v
    PROVE  /\ comparison("eql", x, y) = Truth(FALSE)
           /\ comparison("neql", x, y) = Truth(TRUE)
           /\ comparison("gt", x, y) = Truth(FALSE)
           /\ comparison("gte", x, y) = Truth(FALSE)
           /\ comparison("lt", x, y) = Truth(TRUE)
           /\ comparison("lte", x, y) = Truth(TRUE)
           /\ comparison("lt", y, x) = Truth(FALSE)
  <1>1. x.v \in Int /\ y.v \in Int
    BY DEF Data
  <1>2. /\ comparison("eql", x, y) = Truth(x.v = y.v)
        /\ comparison("neql", x, y) = Truth(x.v # y.v)
        /\ comparison("gt", x, y) = Truth(x.v > y.v)
        /\ comparison("gte", x, y) = Truth(x.v >= y.v)
        /\ comparison("lt", x, y) = Truth(x.v < y.v)
        /\ comparison("lte", x, y) = Truth(x.v <= y.v)
        /\ comparison("lt", y, x) = Truth(y.v < x.v)
    BY DEF comparison, equality, order, Equality, Compare
  <1>3. /\ (x.v = y.v) = FALSE
        /\ (x.v # y.v) = TRUE
        /\ (x.v > y.v) = FALSE
        /\ (x.v >= y.v) = FALSE
        /\ (x.v < y.v) = TRUE
        /\ (x.v <= y.v) = TRUE
        /\ (y.v < x.v) = FALSE
    BY <1>1
  <1> QED
    BY <1>2, <1>3

(* The first is equal to the second. *)
LEMMA EqualCompared ==
    ASSUME NEW x \in Data, NEW y \in Data, x.type = "int", y.type = "int", x.v = y.v
    PROVE  /\ comparison("eql", x, y) = Truth(TRUE)
           /\ comparison("neql", x, y) = Truth(FALSE)
           /\ comparison("gt", x, y) = Truth(FALSE)
           /\ comparison("gte", x, y) = Truth(TRUE)
           /\ comparison("lt", x, y) = Truth(FALSE)
           /\ comparison("lte", x, y) = Truth(TRUE)
           /\ comparison("lt", y, x) = Truth(FALSE)
  <1>1. x.v \in Int /\ y.v \in Int
    BY DEF Data
  <1>2. /\ comparison("eql", x, y) = Truth(x.v = y.v)
        /\ comparison("neql", x, y) = Truth(x.v # y.v)
        /\ comparison("gt", x, y) = Truth(x.v > y.v)
        /\ comparison("gte", x, y) = Truth(x.v >= y.v)
        /\ comparison("lt", x, y) = Truth(x.v < y.v)
        /\ comparison("lte", x, y) = Truth(x.v <= y.v)
        /\ comparison("lt", y, x) = Truth(y.v < x.v)
    BY DEF comparison, equality, order, Equality, Compare
  <1>3. /\ (x.v = y.v) = TRUE
        /\ (x.v # y.v) = FALSE
        /\ (x.v > y.v) = FALSE
        /\ (x.v >= y.v) = TRUE
        /\ (x.v < y.v) = FALSE
        /\ (x.v <= y.v) = TRUE
        /\ (y.v < x.v) = FALSE
    BY <1>1
  <1> QED
    BY <1>2, <1>3

(* It is greater. *)
LEMMA GreaterCompared ==
    ASSUME NEW x \in Data, NEW y \in Data, x.type = "int", y.type = "int", x.v > y.v
    PROVE  /\ comparison("eql", x, y) = Truth(FALSE)
           /\ comparison("neql", x, y) = Truth(TRUE)
           /\ comparison("gt", x, y) = Truth(TRUE)
           /\ comparison("gte", x, y) = Truth(TRUE)
           /\ comparison("lt", x, y) = Truth(FALSE)
           /\ comparison("lte", x, y) = Truth(FALSE)
           /\ comparison("lt", y, x) = Truth(TRUE)
  <1>1. x.v \in Int /\ y.v \in Int
    BY DEF Data
  <1>2. /\ comparison("eql", x, y) = Truth(x.v = y.v)
        /\ comparison("neql", x, y) = Truth(x.v # y.v)
        /\ comparison("gt", x, y) = Truth(x.v > y.v)
        /\ comparison("gte", x, y) = Truth(x.v >= y.v)
        /\ comparison("lt", x, y) = Truth(x.v < y.v)
        /\ comparison("lte", x, y) = Truth(x.v <= y.v)
        /\ comparison("lt", y, x) = Truth(y.v < x.v)
    BY DEF comparison, equality, order, Equality, Compare
  <1>3. /\ (x.v = y.v) = FALSE
        /\ (x.v # y.v) = TRUE
        /\ (x.v > y.v) = TRUE
        /\ (x.v >= y.v) = TRUE
        /\ (x.v < y.v) = FALSE
        /\ (x.v <= y.v) = FALSE
        /\ (y.v < x.v) = TRUE
    BY <1>1
  <1> QED
    BY <1>2, <1>3

(* Two nils. *)
LEMMA NilsCompared ==
    ASSUME NEW x \in Data, NEW y \in Data, x.type = "nil", y.type = "nil"
    PROVE  /\ comparison("eql", x, y) = Truth(TRUE)
           /\ comparison("neql", x, y) = Truth(FALSE)
           /\ comparison("gt", x, y) = Truth(FALSE)
           /\ comparison("gte", x, y) = Truth(TRUE)
           /\ comparison("lt", x, y) = Truth(FALSE)
           /\ comparison("lte", x, y) = Truth(TRUE)
  <1>1. /\ equality("eql", x, y) = Truth(TRUE)
        /\ equality("neql", x, y) = Truth(FALSE)
    BY DEF equality
  <1>2. /\ order("gt", x, y) = Truth("gt" \in {"gte", "lte"})
        /\ order("gte", x, y) = Truth("gte" \in {"gte", "lte"})
        /\ order("lt", x, y) = Truth("lt" \in {"gte", "lte"})
        /\ order("lte", x, y) = Truth("lte" \in {"gte", "lte"})
    BY DEF order
  <1>3. /\ Truth("gt" \in {"gte", "lte"}) = Truth(FALSE)
        /\ Truth("gte" \in {"gte", "lte"}) = Truth(TRUE)
        /\ Truth("lt" \in {"gte", "lte"}) = Truth(FALSE)
        /\ Truth("lte" \in {"gte", "lte"}) = Truth(TRUE)
    BY DEF Truth
  <1>4. /\ "eql" \in Equality /\ "neql" \in Equality
        /\ "gt" \notin Equality /\ "gte" \notin Equality
        /\ "lt" \notin Equality /\ "lte" \notin Equality
    BY DEF Equality
  <1> QED
    BY <1>1, <1>2, <1>3, <1>4 DEF comparison

(* A nil and something else. *)
LEMMA NilComparedWithOther ==
    ASSUME NEW x \in Data, NEW y \in Data, (x.type = "nil") # (y.type = "nil")
    PROVE  /\ comparison("lt", x, y) = Error
           /\ comparison("eql", x, y) = Truth(FALSE)
           /\ comparison("neql", x, y) = Truth(TRUE)
  BY DEF comparison, equality, order, Equality

(* What is neither nil nor an integer. *)
LEMMA OthersNotCompared ==
    ASSUME NEW x \in Data, NEW y \in Data, x.type # "nil", y.type # "nil",
           ~ (x.type = "int" /\ y.type = "int")
    PROVE  comparison("lt", x, y) = Error /\ comparison("eql", x, y) = Error
  BY DEF comparison, equality, order, Equality

(* Exactly one of <, = and > holds of two data that are ordered, the other *)
(* comparisons are what these leave, and exchanging the operands reverses  *)
(* the order (comparisonJumps.cpp), for all data.                          *)
THEOREM ComparisonsAgree == a \in Data /\ b \in Data => OrderIsTotal
  <1> SUFFICES ASSUME a \in Data, b \in Data PROVE OrderIsTotal
    OBVIOUS
  <1>1. CASE a.type = "int" /\ b.type = "int"
    <2>1. a.v \in Int /\ b.v \in Int
      BY DEF Data
    <2>2. CASE a.v < b.v
      <3>1. /\ comparison("lt", a, b) = Truth(TRUE) /\ comparison("gte", a, b) = Truth(FALSE)
            /\ comparison("eql", a, b) = Truth(FALSE) /\ comparison("neql", a, b) = Truth(TRUE)
            /\ comparison("gt", a, b) = Truth(FALSE) /\ comparison("lte", a, b) = Truth(TRUE)
            /\ comparison("lt", b, a) = Truth(FALSE)
        BY <1>1, <2>2, LessCompared
      <3> QED
        BY <3>1, TruthTells DEF OrderIsTotal
    <2>3. CASE a.v = b.v
      <3>1. /\ comparison("lt", a, b) = Truth(FALSE) /\ comparison("gte", a, b) = Truth(TRUE)
            /\ comparison("eql", a, b) = Truth(TRUE) /\ comparison("neql", a, b) = Truth(FALSE)
            /\ comparison("gt", a, b) = Truth(FALSE) /\ comparison("lte", a, b) = Truth(TRUE)
            /\ comparison("lt", b, a) = Truth(FALSE)
        BY <1>1, <2>3, EqualCompared
      <3> QED
        BY <3>1, TruthTells DEF OrderIsTotal
    <2>4. CASE a.v > b.v
      <3>1. /\ comparison("lt", a, b) = Truth(FALSE) /\ comparison("gte", a, b) = Truth(TRUE)
            /\ comparison("eql", a, b) = Truth(FALSE) /\ comparison("neql", a, b) = Truth(TRUE)
            /\ comparison("gt", a, b) = Truth(TRUE) /\ comparison("lte", a, b) = Truth(FALSE)
            /\ comparison("lt", b, a) = Truth(TRUE)
        BY <1>1, <2>4, GreaterCompared
      <3> QED
        BY <3>1, TruthTells DEF OrderIsTotal
    <2> QED
      BY <2>1, <2>2, <2>3, <2>4
  <1>2. CASE a.type = "nil" /\ b.type = "nil"
    <2>1. /\ comparison("lt", a, b) = Truth(FALSE) /\ comparison("gte", a, b) = Truth(TRUE)
          /\ comparison("eql", a, b) = Truth(TRUE) /\ comparison("neql", a, b) = Truth(FALSE)
          /\ comparison("gt", a, b) = Truth(FALSE) /\ comparison("lte", a, b) = Truth(TRUE)
          /\ comparison("lt", b, a) = Truth(FALSE)
      BY <1>2, NilsCompared
    <2> QED
      BY <2>1, TruthTells DEF OrderIsTotal
  <1>3. CASE (a.type = "nil") # (b.type = "nil")
    BY <1>3, NilComparedWithOther, TruthTells DEF OrderIsTotal
  <1>4. CASE a.type # "nil" /\ b.type # "nil" /\ ~ (a.type = "int" /\ b.type = "int")
    BY <1>4, OthersNotCompared DEF OrderIsTotal
  <1> QED
    BY <1>1, <1>2, <1>3, <1>4

(* In particular in every state of the run that enumerates operands. *)
THEOREM ComparisonsAgreeInRuns == Spec => []OrderIsTotal
  <1>1. Plain \subseteq Data /\ {ClosureData(i) : i \in 0 .. 2} \subseteq Data
    BY DEF Plain, Data, DataType, Nil, IntData, ClosureData
  <1>2. Operand \subseteq Data
    BY <1>1 DEF Operand
  <1> DEFINE Typed == a \in Data /\ b \in Data
  <1>3. Init => Typed
    BY <1>2 DEF Init
  <1>4. Typed /\ [Next]_vars => Typed'
    BY DEF Next, vars
  <1>5. Typed => OrderIsTotal
    BY ComparisonsAgree
  <1> QED
    BY <1>3, <1>4, <1>5, PTL DEF Spec

------------------------------------------------------------------------------
(* Sums and products of two data of which the cache knows plain values.    *)
LEMMA ValuesAreUsed ==
    ASSUME NEW op \in {"add", "mul"}, NEW cache, IsFiniteSet(DOMAIN cache),
           NEW x \in Data, NEW y \in Data,
           CachedValue(x, cache) \in Data, CachedValue(y, cache) \in Data,
           CachedValue(x, cache).type # "closure", CachedValue(y, cache).type # "closure"
    PROVE  arithmetic(op, x, y, cache)
              = arithmetic(op, CachedValue(x, cache), CachedValue(y, cache), cache)
  <1> DEFINE v == CachedValue(x, cache)
  <1> DEFINE w == CachedValue(y, cache)
  <1> SUFFICES arithmetic(op, x, y, cache) = arithmetic(op, v, w, cache)
    OBVIOUS
  <1>1. PICK f : Unfolds(op, cache, f)
    BY ArithmeticUnfolds
  <1>2. v \in Data /\ w \in Data /\ v.type # "closure" /\ w.type # "closure"
    OBVIOUS
  <1>3. /\ x.type # "closure" => v = x
        /\ y.type # "closure" => w = y
    BY DEF CachedValue
  <1> HIDE DEF v, w
  <1> DEFINE again == f[<<w, v>>]
  <1>4. arithmetic(op, x, y, cache) = attempt(op, x, y, again)
    BY <1>1 DEF v, w, Unfolds
  <1>5. \E last : arithmetic(op, v, w, cache) = attempt(op, v, w, last)
    BY <1>1, <1>2 DEF Unfolds
  <1>6. \E last : again = attempt(op, w, v, last)
    BY <1>1, <1>2 DEF Unfolds
  <1>7. \A last, other : attempt(op, w, v, last) = attempt(op, v, w, other)
    <2>1. /\ v.type = "int" => v.v \in Int
          /\ w.type = "int" => w.v \in Int
      BY <1>2 DEF Data
    <2>2. v.type = "int" /\ w.type = "int" => Calculate(op, w.v, v.v) = Calculate(op, v.v, w.v)
      BY <2>1 DEF Calculate
    <2> QED
      BY <1>2, <2>2 DEF attempt
  <1>8. CASE x.type # "closure" /\ y.type # "closure"
    BY <1>3, <1>8
  <1>9. CASE x.type = "closure" \/ y.type = "closure"
    <2>1. CASE x.type = "nil" \/ y.type = "nil"
      <3>1. v.type = "nil" \/ w.type = "nil"
        BY <1>3, <2>1
      <3>2. \A last : attempt(op, x, y, last) = Error /\ attempt(op, v, w, last) = Error
        BY <2>1, <3>1 DEF attempt
      <3> QED
        BY <1>4, <1>5, <3>2
    <2>2. CASE x.type # "nil" /\ y.type # "nil"
      <3>1. attempt(op, x, y, again) = again
        BY <1>9, <2>2 DEF attempt
      <3> QED
        BY <1>4, <1>5, <1>6, <1>7, <3>1
    <2> QED
      BY <2>1, <2>2
  <1> QED
    BY <1>8, <1>9 DEF v, w

(* Where closures have returned plain values, sums, products and           *)
(* remainders are those of the values, however many closures there are and *)
(* whatever they have returned.                                            *)
THEOREM ArithmeticOnValues ==
    /\ a \in Data /\ b \in Data
    /\ IsFiniteSet(DOMAIN cached) /\ cached \in [DOMAIN cached -> Data]
    => ClosuresActAsTheirValues
  <1> SUFFICES ASSUME a \in Data, b \in Data,
                      IsFiniteSet(DOMAIN cached), cached \in [DOMAIN cached -> Data],
                      Val(a).type # "closure", Val(b).type # "closure",
                      NEW op \in {"add", "mul", "mod"}
               PROVE  Binary(op, a, b, cached) = Binary(op, Val(a), Val(b), cached)
    BY DEF ClosuresActAsTheirValues
  <1>1. Nil \in Data
    BY DEF Nil, Data, DataType
  <1>2. Val(a) \in Data /\ Val(b) \in Data
    BY <1>1 DEF Val, CachedValue
  <1>3. CASE op \in {"add", "mul"}
    <2>1. \A x, y : Binary(op, x, y, cached) = arithmetic(op, x, y, cached)
      BY <1>3 DEF Binary, Arithmetic, Comparison, Equality, Logic
    <2>2. arithmetic(op, a, b, cached) = arithmetic(op, Val(a), Val(b), cached)
      BY <1>2, <1>3, ValuesAreUsed DEF Val
    <2> QED
      BY <2>1, <2>2
  <1>4. CASE op = "mod"
    <2>1. \A x, y : Binary(op, x, y, cached) = mod(x, y, cached)
      BY <1>4 DEF Binary, Arithmetic, Comparison, Equality, Logic
    <2>2. CachedValue(Val(a), cached) = Val(a) /\ CachedValue(Val(b), cached) = Val(b)
      BY DEF CachedValue
    <2>3. mod(Val(a), Val(b), cached) = mod(a, b, cached)
      BY <2>2 DEF mod, Val
    <2> QED
      BY <2>1, <2>3
  <1> QED
    BY <1>3, <1>4

(* In particular in every state of the run. *)
THEOREM ArithmeticOnValuesInRuns == Spec => []ClosuresActAsTheirValues
  <1> DEFINE Typed ==
          /\ a \in Data /\ b \in Data
          /\ IsFiniteSet(DOMAIN cached) /\ cached \in [DOMAIN cached -> Data]
  <1>1. Operand \subseteq Data /\ Value \subseteq Data
    BY DEF Operand, Plain, Value, Data, DataType, Nil, IntData, ClosureData
  <1>2. IsFiniteSet({0, 1})
    <2>1. {0, 1} = 0 .. 1
      OBVIOUS
    <2> QED
      BY <2>1, FS_Interval, 0 \in Int, 1 \in Int
  <1>3. Init => Typed
    BY <1>1, <1>2 DEF Init, Caches
  <1>4. Typed /\ [Next]_vars => Typed'
    BY DEF Next, vars
  <1> QED
    BY <1>3, <1>4, ArithmeticOnValues, PTL DEF Spec
==============================================================================
