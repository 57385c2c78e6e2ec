------------------------------- MODULE Recursion -------------------------------
(***************************************************************************)
(* Induction along the numbers up to N, said of a set, since the theorems  *)
(* of the library take the property to prove as an operator, which no SMT  *)
(* solver can be given; and by it what the recursive functions of the      *)
(* model return.                                                           *)
(***************************************************************************)
EXTENDS Operators, SequencesExt, SequenceTheorems, FiniteSetTheorems, NaturalsInduction,
        WellFoundedInduction, TLAPS

(* Induction up to N: a set that holds 0 and the next of what it holds. *)
LEMMA UpTo ==
    ASSUME NEW N \in Nat, NEW T, 0 \in T, \A n \in 1 .. N : n - 1 \in T => n \in T
    PROVE  0 .. N \subseteq T
  <1> DEFINE D == {n \in 0 .. N : n \notin T}
  <1> DEFINE R == OpToRel(<, Nat)
  <1>1. SUFFICES ASSUME D # {} PROVE FALSE
    OBVIOUS
  <1>a. D \subseteq Nat
    OBVIOUS
  <1>2. IsWellFoundedOn(R, Nat)
    BY NatLessThanWellFounded
  <1>b. \A x, y \in Nat : x < y => <<x, y>> \in R
    BY DEF OpToRel
  <1> HIDE DEF R
  <1>3. PICK x \in D : \A y \in D : ~ (<<y, x>> \in R)
    BY <1>1, <1>2, <1>a, WFMin
  <1>4. x \in 1 .. N /\ x \notin T
    BY <1>3
  <1>5. x - 1 \in D
    BY <1>4
  <1>6. x \in Nat /\ x - 1 \in Nat /\ x - 1 < x
    BY <1>4
  <1>7. <<x - 1, x>> \in R
    BY <1>6, <1>b
  <1> QED
    BY <1>3, <1>5, <1>7

------------------------------------------------------------------------------
(* The recursive function that arithmetic chooses, run, in N attempts.     *)
Runs(op, cache, run, N) ==
    /\ N \in Nat \ {0}
    /\ \A x, y \in Data : arithmetic(op, x, y, cache) = run[N][<<x, y>>]
    /\ \A n \in 0 .. N : \A x, y \in Data :
          run[n][<<x, y>>] =
              attempt(op, x, y,
                      IF n = 0 THEN Error
                      ELSE run[n - 1][<<CachedValue(y, cache), CachedValue(x, cache)>>])

(* There is one. *)
LEMMA ArithmeticRuns ==
    ASSUME NEW op, NEW cache, IsFiniteSet(DOMAIN cache)
    PROVE  \E run, N : Runs(op, cache, run, N)
  <1> DEFINE N == Cardinality(DOMAIN cache) + 1
  <1> DEFINE Row(n, last) ==
          [pair \in Data \X Data |->
              attempt(op, pair[1], pair[2],
                      IF n = 0 THEN Error
                      ELSE last[<<CachedValue(pair[2], cache), CachedValue(pair[1], cache)>>])]
  <1> DEFINE Is(f, n) == f = [k \in 0 .. n |-> Row(k, f[k - 1])]
  <1> DEFINE T == {n \in 0 .. N : \E f : Is(f, n)}
  <1> DEFINE run == CHOOSE f : Is(f, N)
  <1>1. N \in Nat \ {0}
    BY FS_CardinalityType
  <1>2. \A last, other : Row(0, last) = Row(0, other)
    OBVIOUS
  <1>3. ASSUME NEW x \in Data, NEW y \in Data PROVE arithmetic(op, x, y, cache) = run[N][<<x, y>>]
    BY DEF arithmetic
  <1>4. ASSUME NEW n, NEW last, NEW x \in Data, NEW y \in Data
        PROVE  Row(n, last)[<<x, y>>] =
                  attempt(op, x, y,
                          IF n = 0 THEN Error
                          ELSE last[<<CachedValue(y, cache), CachedValue(x, cache)>>])
    OBVIOUS
  <1> HIDE DEF N, Row
  <1>5. 0 \in T
    <2>1. Is([k \in 0 .. 0 |-> Row(0, 0)], 0)
      BY <1>2
    <2> HIDE DEF Is
    <2> QED
      BY <1>1, <2>1
  <1>6. ASSUME NEW n \in 1 .. N, n - 1 \in T PROVE n \in T
    <2>1. PICK f : Is(f, n - 1)
      BY <1>6
    <2> DEFINE g == [k \in 0 .. n |-> IF k = n THEN Row(n, f[n - 1]) ELSE f[k]]
    <2>2. n \in Nat \ {0}
      BY <1>1
    <2>3. ASSUME NEW k \in 0 .. n PROVE g[k] = Row(k, g[k - 1])
      <3>1. CASE k = n
        BY <2>2, <3>1
      <3>2. CASE k # n
        <4>1. k \in 0 .. n - 1
          BY <2>2, <3>2
        <4>2. f[k] = Row(k, f[k - 1])
          BY <2>1, <4>1
        <4>3. k # 0 => k - 1 \in 0 .. n /\ k - 1 # n
          BY <4>1, <2>2
        <4> QED
          BY <1>2, <3>2, <4>2, <4>3
      <3> QED
        BY <3>1, <3>2
    <2>4. Is(g, n)
      BY <2>3
    <2> HIDE DEF Is, g
    <2> QED
      BY <2>4
  <1>7. Is(run, N)
    <2> HIDE DEF Is
    <2>1. N \in T
      <3> HIDE DEF T
      <3>1. \A n \in 1 .. N : n - 1 \in T => n \in T
        BY <1>6
      <3>2. 0 .. N \subseteq T
        BY <1>1, <1>5, <3>1, UpTo
      <3> QED
        BY <1>1, <3>2
    <2> QED
      BY <2>1
  <1> HIDE DEF run
  <1>8. ASSUME NEW n \in 0 .. N, NEW x \in Data, NEW y \in Data
        PROVE  run[n][<<x, y>>] =
                  attempt(op, x, y,
                          IF n = 0 THEN Error
                          ELSE run[n - 1][<<CachedValue(y, cache), CachedValue(x, cache)>>])
    <2>1. run[n] = Row(n, run[n - 1])
      BY <1>7
    <2> QED
      BY <1>4, <2>1
  <1>9. Runs(op, cache, run, N)
    <2>1. \A x, y \in Data : arithmetic(op, x, y, cache) = run[N][<<x, y>>]
      BY <1>3
    <2>2. \A n \in 0 .. N : \A x, y \in Data :
             run[n][<<x, y>>] =
                attempt(op, x, y,
                        IF n = 0 THEN Error
                        ELSE run[n - 1][<<CachedValue(y, cache), CachedValue(x, cache)>>])
      BY <1>8
    <2> QED
      BY <1>1, <2>1, <2>2 DEF Runs
  <1> QED
    BY <1>9

(* With the values of closures in f, arithmetic is one attempt. *)
Unfolds(op, cache, f) ==
    /\ \A x, y \in Data :
          arithmetic(op, x, y, cache) =
              attempt(op, x, y, f[<<CachedValue(y, cache), CachedValue(x, cache)>>])
    /\ \A x, y \in Data : \E last : f[<<x, y>>] = attempt(op, x, y, last)

(* There is such an f: the attempts with one closure less to look into. *)
LEMMA ArithmeticUnfolds ==
    ASSUME NEW op, NEW cache, IsFiniteSet(DOMAIN cache)
    PROVE  \E f : Unfolds(op, cache, f)
  <1>1. PICK run, N : Runs(op, cache, run, N)
    BY ArithmeticRuns
  <1>2. N \in 0 .. N /\ N - 1 \in 0 .. N /\ N # 0
    BY <1>1 DEF Runs
  <1>3. Unfolds(op, cache, run[N - 1])
    <2>1. ASSUME NEW x \in Data, NEW y \in Data
          PROVE  arithmetic(op, x, y, cache) =
                    attempt(op, x, y, run[N - 1][<<CachedValue(y, cache), CachedValue(x, cache)>>])
      BY <1>1, <1>2 DEF Runs
    <2>2. ASSUME NEW x \in Data, NEW y \in Data
          PROVE  \E last : run[N - 1][<<x, y>>] = attempt(op, x, y, last)
      BY <1>1, <1>2 DEF Runs
    <2> QED
      BY <2>1, <2>2 DEF Unfolds
  <1> QED
    BY <1>3

(* What an instruction pushes instead of its operands: an integer, if it   *)
(* does not throw.                                                         *)
Result == [type : {"int"}, v : Int] \cup {Error}

(* The division of C++ leaves an integer. *)
LEMMA QuotientIsInteger ==
    ASSUME NEW x \in Int, NEW y \in Int, y # 0 PROVE Quotient(x, y) \in Int
  <1>1. Magnitude(x) \in Int /\ Magnitude(y) \in Int /\ Magnitude(y) > 0
    BY DEF Magnitude
  <1>2. Magnitude(x) \div Magnitude(y) \in Int
    BY <1>1
  <1> QED
    BY <1>2 DEF Quotient

(* Two numbers leave a number, or a division by zero fails. *)
LEMMA CalculatedResult ==
    ASSUME NEW op \in Arithmetic, NEW x \in Int, NEW y \in Int PROVE Calculate(op, x, y) \in Result
  <1>1. divide(x, y) \in Result
    BY QuotientIsInteger DEF divide, Result, IntData
  <1> QED
    BY <1>1 DEF Calculate, Arithmetic, Result, IntData

(* So does an attempt that has the results of the ones before it. *)
LEMMA AttemptedResult ==
    ASSUME NEW op \in Arithmetic, NEW x \in Data, NEW y \in Data, NEW again \in Result
    PROVE  attempt(op, x, y, again) \in Result
  <1>1. /\ x.type = "int" => x.v \in Int
        /\ y.type = "int" => y.v \in Int
    BY DEF Data
  <1>2. Error \in Result
    BY DEF Result
  <1>3. x.type = "int" /\ y.type = "int" => Calculate(op, x.v, y.v) \in Result
    BY <1>1, CalculatedResult
  <1> QED
    BY <1>2, <1>3 DEF attempt

(* What a closure stands for is a datum. *)
LEMMA ValueIsData ==
    ASSUME NEW cache, cache \in [DOMAIN cache -> Data], NEW d \in Data PROVE CachedValue(d, cache) \in Data
  <1>1. Nil \in Data
    BY DEF Nil, Data, DataType
  <1> QED
    BY <1>1 DEF CachedValue

(* Arithmetic leaves a datum that is no closure, or fails. *)
LEMMA ArithmeticResult ==
    ASSUME NEW op \in Arithmetic, NEW cache, cache \in [DOMAIN cache -> Data],
           IsFiniteSet(DOMAIN cache), NEW x \in Data, NEW y \in Data
    PROVE  arithmetic(op, x, y, cache) \in Result
  <1>1. PICK run, N : Runs(op, cache, run, N)
    BY ArithmeticRuns
  <1> DEFINE T == {n \in 0 .. N : \A d, e \in Data : run[n][<<d, e>>] \in Result}
  <1>2. N \in Nat
    BY <1>1 DEF Runs
  <1>3. Error \in Result
    BY DEF Result
  <1>4. \A d \in Data : CachedValue(d, cache) \in Data
    BY ValueIsData
  <1>5. 0 \in T
    <2>1. ASSUME NEW d \in Data, NEW e \in Data PROVE run[0][<<d, e>>] \in Result
      <3>0. 0 \in 0 .. N
        BY <1>2
      <3>a. run[0][<<d, e>>] =
               attempt(op, d, e,
                       IF 0 = 0 THEN Error
                       ELSE run[0 - 1][<<CachedValue(e, cache), CachedValue(d, cache)>>])
        BY <1>1, <3>0 DEF Runs
      <3>1. run[0][<<d, e>>] = attempt(op, d, e, Error)
        BY <3>a
      <3> QED
        BY <1>3, <3>1, AttemptedResult
    <2> QED
      BY <1>2, <2>1
  <1>6. ASSUME NEW n \in 1 .. N, n - 1 \in T PROVE n \in T
    <2>1. ASSUME NEW d \in Data, NEW e \in Data PROVE run[n][<<d, e>>] \in Result
      <3> DEFINE again == run[n - 1][<<CachedValue(e, cache), CachedValue(d, cache)>>]
      <3>1. n \in 0 .. N /\ n # 0
        BY <1>2
      <3>2. run[n][<<d, e>>] = attempt(op, d, e, again)
        BY <1>1, <3>1 DEF Runs
      <3>3. again \in Result
        BY <1>4, <1>6
      <3> QED
        BY <3>2, <3>3, AttemptedResult
    <2> QED
      BY <1>2, <2>1
  <1>7. N \in T
    <2> HIDE DEF T
    <2>1. \A n \in 1 .. N : n - 1 \in T => n \in T
      BY <1>6
    <2>2. 0 .. N \subseteq T
      BY <1>2, <1>5, <2>1, UpTo
    <2> QED
      BY <1>2, <2>2
  <1> QED
    BY <1>1, <1>7 DEF Runs

(* So does every binary instruction. *)
LEMMA BinaryResult ==
    ASSUME NEW op \in BinaryInstruction, NEW cache, cache \in [DOMAIN cache -> Data],
           IsFiniteSet(DOMAIN cache), NEW x \in Data, NEW y \in Data
    PROVE  Binary(op, x, y, cache) \in Result
  <1>1. \A p : Truth(p) \in Result
    BY DEF Truth, IntData, Result
  <1>2. Error \in Result
    BY DEF Result
  <1>3. CASE op \in Arithmetic
    <2>1. Binary(op, x, y, cache) = arithmetic(op, x, y, cache)
      BY <1>3 DEF Binary, Arithmetic, Comparison, Equality, Logic
    <2> QED
      BY <1>3, <2>1, ArithmeticResult
  <1>4. CASE op = "mod"
    <2>1. Binary(op, x, y, cache) = mod(x, y, cache)
      BY <1>4 DEF Binary, Arithmetic, Comparison, Equality, Logic
    <2> DEFINE v == CachedValue(x, cache)
    <2> DEFINE w == CachedValue(y, cache)
    <2>2. v \in Data /\ w \in Data
      BY ValueIsData
    <2>3. v.v \in Int /\ w.v \in Int
      BY <2>2 DEF Data
    <2>4. v.v # 0 => Remainder(w.v, v.v) \in Int
      BY <2>3, QuotientIsInteger DEF Remainder
    <2>5. mod(x, y, cache) \in {Error, IntData(Remainder(w.v, v.v))}
      BY DEF mod
    <2>6. v.v = 0 => mod(x, y, cache) = Error
      BY DEF mod
    <2> QED
      BY <1>2, <2>1, <2>4, <2>5, <2>6 DEF Result, IntData
  <1>5. CASE op \in Comparison
    <2>1. Binary(op, x, y, cache) = comparison(op, x, y)
      BY <1>5 DEF Binary, Arithmetic, Comparison, Equality, Logic
    <2>2. equality(op, x, y) \in Result
      BY <1>1, <1>2 DEF equality
    <2>3. order(op, x, y) \in Result
      BY <1>1, <1>2 DEF order
    <2> QED
      BY <2>1, <2>2, <2>3 DEF comparison
  <1>6. CASE op \in Logic
    <2>1. Binary(op, x, y, cache) = logic(op, x, y)
      BY <1>6 DEF Binary, Arithmetic, Comparison, Equality, Logic
    <2> QED
      BY <1>1, <2>1 DEF logic
  <1> QED
    BY <1>3, <1>4, <1>5, <1>6 DEF BinaryInstruction

------------------------------------------------------------------------------
(* The least and the greatest of some numbers. *)
LEMMA MinIsThere == ASSUME NEW S, S \subseteq Nat, S # {} PROVE Min(S) \in S
  <1> DEFINE R == OpToRel(<, Nat)
  <1>1. IsWellFoundedOn(R, Nat)
    BY NatLessThanWellFounded
  <1>2. \A x, y \in Nat : x < y => <<x, y>> \in R
    BY DEF OpToRel
  <1> HIDE DEF R
  <1>3. PICK x \in S : \A y \in S : ~ (<<y, x>> \in R)
    BY <1>1, WFMin
  <1>4. ASSUME NEW y \in S PROVE x =< y
    <2>1. x \in Nat /\ y \in Nat
      BY <1>3
    <2>2. ~ (y < x)
      BY <1>2, <1>3, <2>1
    <2> QED
      BY <2>1, <2>2
  <1> QED
    BY <1>3, <1>4 DEF Min

(* A set of numbers with a bound has its largest. *)
LEMMA MaxIsThere == ASSUME NEW N \in Nat, NEW S, S \subseteq 0 .. N, S # {} PROVE Max(S) \in S
  <1> DEFINE below == {N - x : x \in S}
  <1>1. below \subseteq Nat /\ below # {}
    OBVIOUS
  <1>2. Min(below) \in below
    BY <1>1, MinIsThere
  <1>3. PICK x \in S : Min(below) = N - x
    BY <1>2
  <1>4. PICK least \in below : \A y \in below : least =< y
    <2> DEFINE R == OpToRel(<, Nat)
    <2>1. IsWellFoundedOn(R, Nat)
      BY NatLessThanWellFounded
    <2>2. \A y, z \in Nat : y < z => <<y, z>> \in R
      BY DEF OpToRel
    <2> HIDE DEF R, below
    <2>3. PICK y \in below : \A z \in below : ~ (<<z, y>> \in R)
      BY <1>1, <2>1, WFMin
    <2>4. ASSUME NEW z \in below PROVE y =< z
      <3>1. y \in Nat /\ z \in Nat
        BY <1>1, <2>3
      <3>2. ~ (z < y)
        BY <2>2, <2>3, <3>1
      <3> QED
        BY <3>1, <3>2
    <2> QED
      BY <2>4
  <1>5. PICK most \in S : least = N - most
    BY <1>4
  <1>6. \A y \in S : most >= y
    BY <1>4, <1>5
  <1> QED
    BY <1>6 DEF Max

(* The sequences of a sequence, one after the other. *)
LEMMA Flattened ==
    ASSUME NEW S, NEW seqs \in Seq(Seq(S))
    PROVE  /\ FlattenSeq(seqs) \in Seq(S)
           /\ seqs # <<>> /\ seqs[1] # <<>> => FlattenSeq(seqs) # <<>>
  <1> DEFINE N == Len(seqs)
  <1> DEFINE Is(f, n) == f = [i \in 1 .. n |-> IF i = 1 THEN seqs[i] ELSE f[i - 1] \o seqs[i]]
  <1> DEFINE T == {n \in 0 .. N : \E f : Is(f, n)}
  <1> DEFINE flatten == CHOOSE f : Is(f, N)
  <1>1. N \in Nat /\ \A i \in 1 .. N : seqs[i] \in Seq(S)
    OBVIOUS
  <1>2. CASE N = 0
    <2>1. seqs = <<>> /\ FlattenSeq(seqs) = seqs
      BY <1>2 DEF FlattenSeq
    <2>2. <<>> \in Seq(S)
      OBVIOUS
    <2> QED
      BY <2>1, <2>2
  <1>3. CASE N # 0
    <2>1. FlattenSeq(seqs) = flatten[N]
      BY <1>3 DEF FlattenSeq
    <2> HIDE DEF N
    <2>2. 0 \in T
      <3>1. Is([i \in 1 .. 0 |-> <<>>], 0)
        OBVIOUS
      <3> HIDE DEF Is
      <3> QED
        BY <1>1, <3>1
    <2>3. ASSUME NEW n \in 1 .. N, n - 1 \in T PROVE n \in T
      <3>1. PICK f : Is(f, n - 1)
        BY <2>3
      <3> DEFINE g == [i \in 1 .. n |->
                          IF i = n THEN IF n = 1 THEN seqs[n] ELSE f[n - 1] \o seqs[n] ELSE f[i]]
      <3>2. n \in Nat \ {0}
        BY <1>1
      <3>3. ASSUME NEW i \in 1 .. n PROVE g[i] = IF i = 1 THEN seqs[i] ELSE g[i - 1] \o seqs[i]
        <4>1. CASE i = n
          BY <3>2, <4>1
        <4>2. CASE i # n
          <5>1. i \in 1 .. n - 1
            BY <3>2, <4>2
          <5>2. f[i] = IF i = 1 THEN seqs[i] ELSE f[i - 1] \o seqs[i]
            BY <3>1, <5>1
          <5>3. i # 1 => i - 1 \in 1 .. n /\ i - 1 # n
            BY <5>1, <3>2
          <5> QED
            BY <4>2, <5>2, <5>3
        <4> QED
          BY <4>1, <4>2
      <3>4. Is(g, n)
        BY <3>3
      <3> HIDE DEF Is, g
      <3> QED
        BY <3>4
    <2>4. Is(flatten, N)
      <3> HIDE DEF Is
      <3>1. N \in T
        <4> HIDE DEF T
        <4>1. \A n \in 1 .. N : n - 1 \in T => n \in T
          BY <2>3
        <4>2. 0 .. N \subseteq T
          BY <1>1, <2>2, <4>1, UpTo
        <4> QED
          BY <1>1, <4>2
      <3> QED
        BY <3>1
    <2> HIDE DEF flatten
    <2>5. \A i \in 1 .. N : flatten[i] = IF i = 1 THEN seqs[i] ELSE flatten[i - 1] \o seqs[i]
      BY <2>4
    <2> DEFINE K ==
            {n \in 0 .. N : n # 0 =>
                flatten[n] \in Seq(S) /\ (seqs[1] # <<>> => flatten[n] # <<>>)}
    <2>6. ASSUME NEW n \in 1 .. N, n - 1 \in K PROVE n \in K
      <3>1. CASE n = 1
        BY <1>1, <2>5, <3>1
      <3>2. CASE n # 1
        <4>1. n - 1 # 0 /\ n \in 1 .. N
          BY <1>1, <3>2
        <4>2. flatten[n - 1] \in Seq(S) /\ (seqs[1] # <<>> => flatten[n - 1] # <<>>)
          BY <2>6, <4>1
        <4>3. flatten[n] = flatten[n - 1] \o seqs[n] /\ seqs[n] \in Seq(S)
          BY <1>1, <2>5, <3>2
        <4>4. flatten[n] \in Seq(S)
          BY <4>2, <4>3, ConcatProperties
        <4>5. seqs[1] # <<>> => flatten[n] # <<>>
          BY <4>2, <4>3, ConcatEqualIffEmpty
        <4> QED
          BY <1>1, <4>4, <4>5
      <3> QED
        BY <3>1, <3>2
    <2>7. N \in K
      <3>1. 0 \in K
        BY <1>1
      <3> HIDE DEF K
      <3>2. \A n \in 1 .. N : n - 1 \in K => n \in K
        BY <2>6
      <3>3. 0 .. N \subseteq K
        BY <1>1, <3>1, <3>2, UpTo
      <3> QED
        BY <1>1, <3>3
    <2> QED
      BY <1>3, <2>1, <2>7
  <1> QED
    BY <1>2, <1>3
==============================================================================
