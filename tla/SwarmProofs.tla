------------------------------ MODULE SwarmProofs ------------------------------
(***************************************************************************)
(* The swarm of machines implements the stigmergy variable of module       *)
(* Stigmergy, and what is proved of that variable holds of the maps of the *)
(* machines, whatever programs the robots run and for any number of them.  *)
(*                                                                         *)
(* First, what an instruction, a reaction to an update and the rest of a   *)
(* step may do to the map of a stigmergy variable.  Only store stig and an *)
(* update from the network write one, each of them the entry it names and  *)
(* no other; everything else, whatever the bytecode, leaves the map alone  *)
(* though it rewrites the variable: a foreach moves its iterator, a call   *)
(* adds to its dependants.  Nothing is assumed of the bytecode but that it *)
(* holds no store tagged, nor of the machine but its shape, so that these  *)
(* lemmas hold of programs that underflow the stack, jump anywhere or name *)
(* what is not there.                                                      *)
(*                                                                         *)
(* Then the swarm.  The invariant says that the maps, and all that is on   *)
(* its way, are stores of the past: the entry of robot q in the map of r   *)
(* is the known[r][q]-th thing that q stored.                              *)
(***************************************************************************)
EXTENDS Swarm, Recursion

(* The fields of a machine. *)
Fields ==
    {"program", "state", "pc", "stack", "frames", "scope", "current", "closures", "head",
     "globals", "tagged", "moved"}

(* A machine has them, whatever their values. *)
IsRecord(m) == DOMAIN m = Fields

(* From machine m to n the tagged table stays as it is. *)
Spares(m, n) == IsRecord(n) /\ n.program = m.program /\ n.tagged = m.tagged

(* Two changes that spare the tagged table. *)
LEMMA SparesAgain ==
    ASSUME NEW l, NEW m, NEW n, Spares(l, m), Spares(m, n) PROVE Spares(l, n)
  BY DEF Spares

(* The ways in which the handlers change a machine. *)
LEMMA Updates ==
    ASSUME NEW m, IsRecord(m)
    PROVE  /\ Spares(m, m)
           /\ Spares(m, Fail(m))
           /\ \A v : Spares(m, PushVariable(m, v))
           /\ \A d : Spares(m, Push(m, d))
           /\ \A n : Spares(m, Pop(m, n))
           /\ \A t : Spares(m, JumpTo(m, t))
           /\ \A name, v : Spares(m, SetLocal(m, name, v))
           /\ \A name, v : Spares(m, SetGlobal(m, name, v))
           /\ \A s : Spares(m, Touch(m, s))
           /\ \A f : Spares(m, Enter(m, f))
           /\ \A c : Spares(m, push_back(m, c))
           /\ Spares(m, Fetched(m))
           /\ Spares(m, stepEnd(m))
  <1> USE DEF IsRecord, Fields, Spares
  <1>1. Spares(m, m) /\ Spares(m, Fail(m)) /\ Spares(m, Fetched(m)) /\ Spares(m, stepEnd(m))
    BY DEF Fail, Fetched, stepEnd
  <1>2. \A v : Spares(m, PushVariable(m, v))
    BY DEF PushVariable
  <1>3. \A d : Spares(m, Push(m, d))
    BY DEF PushVariable, Push
  <1>4. \A n : Spares(m, Pop(m, n))
    BY DEF Pop
  <1>5. \A t : Spares(m, JumpTo(m, t))
    BY DEF JumpTo
  <1>6. \A name, v : Spares(m, SetLocal(m, name, v))
    BY DEF SetLocal
  <1>7. \A name, v : Spares(m, SetGlobal(m, name, v))
    BY DEF SetGlobal
  <1>8. \A s : Spares(m, Touch(m, s))
    BY DEF Touch
  <1>9. \A f : Spares(m, Enter(m, f))
    BY DEF Enter
  <1>10. \A c : Spares(m, push_back(m, c))
    BY DEF push_back
  <1> QED
    BY <1>1, <1>2, <1>3, <1>4, <1>5, <1>6, <1>7, <1>8, <1>9, <1>10

(* Reacting to an update enters closures and stores nothing. *)
LEMMA SparedByDependants ==
    ASSUME NEW m, IsRecord(m), NEW list PROVE Spares(m, handleDependants(m, list))
  <1> DEFINE touched(visited) == Touch(m, ToSet(visited))
  <1> DEFINE waiting(visited) ==
          [k \in 1 .. Len(visited) - 1 |-> EntryOf(touched(visited), visited[k + 1])]
  <1> DEFINE framed(visited) ==
          [touched(visited) EXCEPT !.frames = Append(@, Here(m)) \o Reverse(waiting(visited))]
  <1> DEFINE reacting(visited) ==
          Enter(framed(visited), EntryOf(touched(visited), Head(visited)))
  <1>1. handleDependants(m, list) \in {m, Fail(m), reacting(WithDependants(m, list))}
    BY DEF handleDependants, Once
  <1>2. ASSUME NEW visited PROVE Spares(m, reacting(visited))
    <2>1. Spares(m, touched(visited))
      BY Updates
    <2>2. Spares(m, framed(visited))
      BY <2>1 DEF Spares, IsRecord, Fields
    <2>3. IsRecord(framed(visited))
      BY <2>2 DEF Spares
    <2> HIDE DEF framed
    <2> QED
      BY <2>2, <2>3, Updates, SparesAgain
  <1> QED
    BY <1>1, <1>2, Updates

(* The instructions that read the tagged table at most. *)
LEMMA SparedByOperands ==
    ASSUME NEW m, IsRecord(m)
    PROVE  /\ \A op : Spares(m, BinaryOnStack(m, op))
           /\ Spares(m, swap(m)) /\ Spares(m, dup(m)) /\ Spares(m, pop(m))
           /\ Spares(m, isNil(m)) /\ Spares(m, uncache(m))
           /\ \A t, z : Spares(m, JumpIf(m, t, z))
           /\ \A name : Spares(m, loadToStack(m, name))
           /\ \A name : Spares(m, tagVariable(m, name))
           /\ \A name : Spares(m, stigSize(m, name))
           /\ \A name : Spares(m, isIterAtEnd(m, name))
           /\ \A name : Spares(m, callCClosure(m, name))
  <1>1. \A n : IsRecord(Pop(m, n))
    BY Updates DEF Spares
  <1>2. \A n, v : Spares(m, PushVariable(Pop(m, n), v))
    BY <1>1, Updates, SparesAgain
  <1>3. \A n, d : Spares(m, Push(Pop(m, n), d))
    BY <1>1, Updates, SparesAgain
  <1>4. \A n, t : Spares(m, JumpTo(Pop(m, n), t))
    BY <1>1, Updates, SparesAgain
  <1>5. \A op : Spares(m, BinaryOnStack(m, op))
    BY <1>3, Updates DEF BinaryOnStack
  <1>6. Spares(m, swap(m))
    <2>1. IsRecord(PushVariable(Pop(m, 2), Top(m)))
      BY <1>2 DEF Spares
    <2> QED
      BY <2>1, <1>2, Updates, SparesAgain DEF swap
  <1>7. Spares(m, dup(m)) /\ Spares(m, pop(m))
    BY Updates DEF dup, pop
  <1>8. Spares(m, isNil(m))
    BY Updates DEF isNil
  <1>9. Spares(m, uncache(m))
    BY <1>3, Updates DEF uncache
  <1>10. ASSUME NEW t, NEW z PROVE Spares(m, JumpIf(m, t, z))
    BY <1>4, Updates DEF JumpIf
  <1>11. ASSUME NEW name PROVE Spares(m, loadToStack(m, name))
    BY Updates DEF loadToStack
  <1>12. ASSUME NEW name PROVE Spares(m, tagVariable(m, name))
    BY Updates DEF tagVariable
  <1>13. ASSUME NEW name PROVE Spares(m, stigSize(m, name)) /\ Spares(m, isIterAtEnd(m, name))
    BY Updates DEF stigSize, isIterAtEnd
  <1>14. ASSUME NEW name PROVE Spares(m, callCClosure(m, name))
    <2>1. Spares(m, Push(m, IntData(0))) /\ IsRecord(Push(m, IntData(0)))
      BY Updates DEF Spares
    <2>2. \A v : Spares(m, [Push(m, IntData(0)) EXCEPT !.moved = v])
      BY <2>1 DEF Spares, IsRecord, Fields
    <2> QED
      BY <2>2, Updates DEF callCClosure
  <1> QED
    BY <1>5, <1>6, <1>7, <1>8, <1>9, <1>10, <1>11, <1>12, <1>13, <1>14

(* store local and store global write other tables. *)
LEMMA SparedByStores ==
    ASSUME NEW m, IsRecord(m), NEW name
    PROVE  Spares(m, storeLocal(m, name)) /\ Spares(m, storeGlobal(m, name))
  <1>1. \A v : IsRecord(SetLocal(m, name, v)) /\ IsRecord(SetGlobal(m, name, v))
    BY Updates DEF Spares
  <1>2. \A v, n : /\ Spares(m, Pop(SetLocal(m, name, v), n))
                  /\ Spares(m, Pop(SetGlobal(m, name, v), n))
    BY <1>1, Updates, SparesAgain
  <1>3. \A v, n : IsRecord(Pop(SetLocal(m, name, v), n)) /\ IsRecord(Pop(SetGlobal(m, name, v), n))
    BY <1>2 DEF Spares
  <1>4. \A v, n, list : /\ Spares(m, handleDependants(Pop(SetLocal(m, name, v), n), list))
                        /\ Spares(m, handleDependants(Pop(SetGlobal(m, name, v), n), list))
    BY <1>2, <1>3, SparedByDependants, SparesAgain
  <1>5. Spares(m, storeLocal(m, name))
    BY <1>2, <1>4, Updates DEF storeLocal
  <1>6. Spares(m, storeGlobal(m, name))
    BY <1>2, <1>4, Updates DEF storeGlobal
  <1> QED
    BY <1>5, <1>6

(* A return frees closures and nothing else. *)
LEMMA SparedByReturn ==
    ASSUME NEW m, IsRecord(m) PROVE Spares(m, return(m))
  <1>1. ASSUME NEW n, IsRecord(n) PROVE Spares(n, collectGarbage(n))
    <2>1. \A live : Spares(n, [n EXCEPT !.closures = Restrict(@, live)])
      BY <1>1 DEF Spares, IsRecord, Fields
    <2> QED
      BY <1>1, <2>1, Updates DEF collectGarbage
  <1>2. Spares(m, retFromClosure(m))
    <2>1. Spares(m, Returned(m))
      <3>1. \A n : Spares(m, Pop(m, n)) /\ IsRecord(Pop(m, n))
        BY Updates DEF Spares
      <3>2. \A n, i, d : Spares(m, [Pop(m, n) EXCEPT !.closures[i].cachedValue = d])
        BY <3>1 DEF Spares, IsRecord, Fields
      <3> QED
        BY <3>1, <3>2 DEF Returned
    <2> DEFINE pushed == Push(Returned(m), ClosureData(m.current))
    <2> DEFINE left == [pushed EXCEPT !.frames = Front(@)]
    <2>2. Spares(m, pushed) /\ IsRecord(pushed)
      <3>1. IsRecord(Returned(m))
        BY <2>1 DEF Spares
      <3>2. Spares(Returned(m), pushed)
        BY <3>1, Updates
      <3> QED
        BY <2>1, <3>2, SparesAgain DEF Spares
    <2>3. Spares(m, left) /\ IsRecord(left)
      BY <2>2 DEF Spares, IsRecord, Fields
    <2>4. Spares(m, Enter(left, Last(m.frames)))
      <3> HIDE DEF left
      <3> QED
        BY <2>3, Updates, SparesAgain
    <2> QED
      BY <2>4, Updates DEF retFromClosure
  <1>3. return(m) \in {retFromClosure(m), collectGarbage(retFromClosure(m))}
    BY DEF return, Once
  <1> QED
    BY <1>1, <1>2, <1>3, SparesAgain DEF Spares

------------------------------------------------------------------------------
(* The fields of a tagged variable. *)
VariableFields == {"data", "isStigmergy", "entries", "iter", "dependants"}

(* What the proofs need of a machine: the shape of the machine and of the  *)
(* variable s.                                                             *)
IsSound(m, s) ==
    /\ IsRecord(m)
    /\ m.program \in Program
    /\ (s \in DOMAIN m.tagged => DOMAIN m.tagged[s] = VariableFields)

(* From m to n the map of the stigmergy variable s stays as it is. *)
Keeps(m, n, s) ==
    /\ IsSound(n, s)
    /\ n.program = m.program
    /\ IsStig(n, s) <=> IsStig(m, s)
    /\ IsStig(m, s) => n.tagged[s].entries = m.tagged[s].entries

(* Two changes that keep the map. *)
LEMMA KeepsAgain ==
    ASSUME NEW s, NEW l, NEW m, NEW n, Keeps(l, m, s), Keeps(m, n, s) PROVE Keeps(l, n, s)
  BY DEF Keeps

(* A change that spares the whole table keeps the map. *)
LEMMA SparedIsKept ==
    ASSUME NEW s, NEW m, NEW n, IsSound(m, s), Spares(m, n) PROVE Keeps(m, n, s)
  BY DEF Keeps, Spares, IsSound, IsStig

(* A variable that becomes another one with the same map. *)
LEMMA KeptBySetTagged ==
    ASSUME NEW s, NEW m, IsSound(m, s), NEW name, NEW v,
           name = s =>
              /\ DOMAIN v = VariableFields
              /\ v.isStigmergy <=> IsStig(m, s)
              /\ IsStig(m, s) => v.entries = m.tagged[s].entries
    PROVE  Keeps(m, SetTagged(m, name, v), s)
  <1> DEFINE n == SetTagged(m, name, v)
  <1>1. /\ IsRecord(n) /\ n.program = m.program
        /\ n.tagged = Put(m.tagged, name, v)
    BY DEF SetTagged, IsSound, IsRecord, Fields
  <1>2. /\ DOMAIN n.tagged = DOMAIN m.tagged \cup {name}
        /\ name = s => n.tagged[s] = v
        /\ (name # s /\ s \in DOMAIN m.tagged) => n.tagged[s] = m.tagged[s]
    BY <1>1 DEF Put
  <1> QED
    BY <1>1, <1>2 DEF Keeps, IsSound, IsStig

(* A foreach moves the iterator of the map and leaves the map. *)
LEMMA KeptByIteration ==
    ASSUME NEW s, NEW m, IsSound(m, s), NEW name
    PROVE  /\ Keeps(m, pushNextElementOfStig(m, name), s)
           /\ Keeps(m, resetIterOf(m, name), s)
  <1>1. /\ Keeps(m, m, s) /\ Keeps(m, Fail(m), s)
        /\ \A d : Keeps(m, Push(m, d), s)
    BY Updates, SparedIsKept DEF IsSound
  <1>2. ASSUME NEW x, IsStig(m, name)
        PROVE  Keeps(m, SetTagged(m, name, [m.tagged[name] EXCEPT !.iter = x]), s)
    <2>1. name = s => DOMAIN m.tagged[s] = VariableFields
      BY <1>2 DEF IsSound, IsStig
    <2> QED
      BY <1>2, <2>1, KeptBySetTagged DEF VariableFields, IsStig
  <1>3. ASSUME NEW x, NEW d, IsStig(m, name)
        PROVE  Keeps(m, Push(SetTagged(m, name, [m.tagged[name] EXCEPT !.iter = x]), d), s)
    <2> DEFINE n == SetTagged(m, name, [m.tagged[name] EXCEPT !.iter = x])
    <2>1. Keeps(m, n, s) /\ IsSound(n, s) /\ IsRecord(n)
      BY <1>2, <1>3 DEF Keeps, IsSound
    <2> HIDE DEF n
    <2>2. Keeps(n, Push(n, d), s)
      BY <2>1, Updates, SparedIsKept
    <2>3. Keeps(m, Push(n, d), s)
      BY <2>1, <2>2, KeepsAgain
    <2> QED
      BY <2>3 DEF n
  <1>4. Keeps(m, pushNextElementOfStig(m, name), s)
    BY <1>1, <1>3 DEF pushNextElementOfStig
  <1>5. Keeps(m, resetIterOf(m, name), s)
    BY <1>1, <1>2 DEF resetIterOf, resetIter
  <1> QED
    BY <1>4, <1>5

(* A closure that is called becomes a dependant of a variable. *)
LEMMA KeptByDepend ==
    ASSUME NEW s, NEW m, IsSound(m, s), NEW name, NEW i
    PROVE  Keeps(m, Depend(m, name, i), s)
  <1> DEFINE v == findVariable(m, name)
  <1> DEFINE n == SetFound(m, name, AddDependant(v, i))
  <1>1. Keeps(m, Fail(m), s)
    BY Updates, SparedIsKept DEF IsSound
  <1>2. ASSUME IsDefined(m, name) PROVE Keeps(m, n, s)
    <2>1. CASE name \in DOMAIN Locals(m) \cup DOMAIN m.globals
      <3>1. n \in {SetLocal(m, name, AddDependant(v, i)), SetGlobal(m, name, AddDependant(v, i))}
        BY <2>1 DEF SetFound
      <3> QED
        BY <3>1, Updates, SparedIsKept DEF IsSound
    <2>2. CASE name \notin DOMAIN Locals(m) \cup DOMAIN m.globals
      <3>1. n = SetTagged(m, name, AddDependant(m.tagged[name], i)) /\ name \in DOMAIN m.tagged
        BY <1>2, <2>2 DEF SetFound, findVariable, IsDefined
      <3>2. name = s => DOMAIN m.tagged[s] = VariableFields
        BY <3>1 DEF IsSound
      <3>3. name = s => LET w == AddDependant(m.tagged[name], i)
                        IN /\ DOMAIN w = VariableFields
                           /\ w.isStigmergy = m.tagged[s].isStigmergy
                           /\ w.entries = m.tagged[s].entries
        BY <3>2 DEF AddDependant, VariableFields
      <3>4. name = s => (IsStig(m, s) <=> m.tagged[s].isStigmergy)
        BY <3>1 DEF IsStig
      <3> QED
        BY <3>1, <3>3, <3>4, KeptBySetTagged
    <2> QED
      BY <2>1, <2>2
  <1>3. ASSUME IsDefined(m, name), NEW c
        PROVE  Keeps(m, [Touch(n, {c}) EXCEPT !.closures[c] = AddDependant(@, i)], s)
    <2>1. IsSound(n, s) /\ IsRecord(n)
      BY <1>2, <1>3 DEF Keeps, IsSound
    <2> HIDE DEF n
    <2>2. Spares(n, Touch(n, {c}))
      BY <2>1, Updates
    <2>3. Spares(n, [Touch(n, {c}) EXCEPT !.closures[c] = AddDependant(@, i)])
      BY <2>2 DEF Spares, IsRecord, Fields
    <2> QED
      BY <1>2, <1>3, <2>1, <2>3, SparedIsKept, KeepsAgain
  <1> QED
    BY <1>1, <1>2, <1>3 DEF Depend

(* DependOnAll, step by step: after[k] is the machine after k names.       *)
Depends(m, on, i, after) ==
    /\ DependOnAll(m, on, i) = after[Len(on)]
    /\ after[0] = m
    /\ \A k \in 1 .. Len(on) : after[k] = Depend(after[k - 1], on[k], i)

(* There are such steps. *)
LEMMA DependsInTurn ==
    ASSUME NEW m, NEW S, NEW on \in Seq(S), NEW i
    PROVE  \E after : Depends(m, on, i, after)
  <1> DEFINE Step(k, n) == Once(LAMBDA l : Depend(l, on[k], i), n)
  <1> DEFINE Is(f, n) == f = [k \in 0 .. n |-> IF k = 0 THEN m ELSE Step(k, f[k - 1])]
  <1> DEFINE T == {n \in 0 .. Len(on) : \E f : Is(f, n)}
  <1> DEFINE after == CHOOSE f : Is(f, Len(on))
  <1>1. Len(on) \in Nat
    OBVIOUS
  <1>2. ASSUME NEW n, NEW k PROVE Step(k, n) = Depend(n, on[k], i)
    BY DEF Once
  <1>a. DependOnAll(m, on, i) = after[Len(on)]
    BY DEF DependOnAll
  <1> HIDE DEF Step
  <1>3. 0 \in T
    <2>1. Is([k \in 0 .. 0 |-> m], 0)
      OBVIOUS
    <2> HIDE DEF Is
    <2> QED
      BY <1>1, <2>1
  <1>4. ASSUME NEW n \in 1 .. Len(on), n - 1 \in T PROVE n \in T
    <2>1. PICK f : Is(f, n - 1)
      BY <1>4
    <2> DEFINE g == [k \in 0 .. n |-> IF k = n THEN Step(n, f[n - 1]) ELSE f[k]]
    <2>2. n \in Nat \ {0}
      BY <1>1
    <2>3. ASSUME NEW k \in 0 .. n
          PROVE  g[k] = IF k = 0 THEN m ELSE Step(k, g[k - 1])
      <3>1. CASE k = n
        BY <2>2, <3>1
      <3>2. CASE k # n
        <4>1. k \in 0 .. n - 1
          BY <2>2, <3>2
        <4>2. f[k] = IF k = 0 THEN m ELSE Step(k, f[k - 1])
          BY <2>1, <4>1
        <4>3. k # 0 => k - 1 \in 0 .. n /\ k - 1 # n
          BY <4>1, <2>2
        <4> QED
          BY <3>2, <4>2, <4>3
      <3> QED
        BY <3>1, <3>2
    <2>4. Is(g, n)
      BY <2>3
    <2> HIDE DEF Is, g
    <2> QED
      BY <2>4
  <1>5. Is(after, Len(on))
    <2> HIDE DEF Is
    <2>1. Len(on) \in T
      <3> HIDE DEF T
      <3>1. \A n \in 1 .. Len(on) : n - 1 \in T => n \in T
        BY <1>4
      <3>2. 0 .. Len(on) \subseteq T
        BY <1>1, <1>3, <3>1, UpTo
      <3> QED
        BY <1>1, <3>2
    <2> QED
      BY <2>1
  <1> HIDE DEF after
  <1>6. after[0] = m
    BY <1>1, <1>5
  <1>7. \A k \in 1 .. Len(on) : after[k] = Depend(after[k - 1], on[k], i)
    BY <1>1, <1>2, <1>5
  <1>8. Depends(m, on, i, after)
    BY <1>a, <1>6, <1>7 DEF Depends
  <1> QED
    BY <1>8

(* A call registers the new instance with one dependency after the other. *)
LEMMA KeptByDependOnAll ==
    ASSUME NEW s, NEW m, IsSound(m, s), NEW S, NEW on \in Seq(S), NEW i
    PROVE  Keeps(m, DependOnAll(m, on, i), s)
  <1>1. PICK after : Depends(m, on, i, after)
    BY DependsInTurn
  <1>2. Len(on) \in Nat
    OBVIOUS
  <1> DEFINE K == {k \in 0 .. Len(on) : Keeps(m, after[k], s)}
  <1>3. 0 \in K
    <2>1. Keeps(m, m, s)
      BY Updates, SparedIsKept DEF IsSound
    <2> QED
      BY <1>1, <1>2, <2>1 DEF Depends
  <1>4. ASSUME NEW k \in 1 .. Len(on), k - 1 \in K PROVE k \in K
    <2>1. after[k] = Depend(after[k - 1], on[k], i)
      BY <1>1 DEF Depends
    <2>2. Keeps(m, after[k - 1], s) /\ IsSound(after[k - 1], s)
      BY <1>4 DEF Keeps
    <2>3. Keeps(m, after[k], s)
      BY <2>1, <2>2, KeptByDepend, KeepsAgain
    <2> QED
      BY <2>3
  <1>5. Len(on) \in K
    <2> HIDE DEF K
    <2>1. \A k \in 1 .. Len(on) : k - 1 \in K => k \in K
      BY <1>4
    <2>2. 0 .. Len(on) \subseteq K
      BY <1>2, <1>3, <2>1, UpTo
    <2> QED
      BY <1>2, <2>2
  <1> QED
    BY <1>1, <1>5 DEF Depends

(* Arguments and dependencies are names. *)
LEMMA NamesAreNames ==
    ASSUME NEW m, m.program \in Program, NEW c
    PROVE  ArgNames(m, c) \in Seq(STRING) /\ Dependencies(m, c) \in Seq(STRING)
  <1>1. <<>> \in Seq(STRING)
    OBVIOUS
  <1> QED
    BY <1>1, DefinitionAssumption DEF ArgNames, Dependencies, HasTemplate

(* A call enters the instance and makes it depend on its dependencies. *)
LEMMA KeptByCallClosure ==
    ASSUME NEW s, NEW m, IsSound(m, s) PROVE Keeps(m, callClosure(m), s)
  <1> DEFINE template == m.closures[Top(m).data.v]
  <1> DEFINE names == ArgNames(m, template)
  <1> DEFINE Arg(i) == m.stack[Depth(m) - 1 - i]
  <1> DEFINE args == [x \in ToSet(names) |->
                        Arg(CHOOSE i \in DOMAIN names : names[i] = x)]
  <1> DEFINE instance == [template EXCEPT !.local = Above(args, @)]
  <1> DEFINE called == [push_back(Pop(m, 2 + Len(names)), instance) EXCEPT
                          !.frames = Append(@, Here(m)),
                          !.scope = m.head,
                          !.current = m.head]
  <1> DEFINE on == Dependencies(m, instance)
  <1> DEFINE registered == DependOnAll(called, on, m.head)
  <1> DEFINE entered == [registered EXCEPT !.pc = CodePointer(m, instance)]
  <1>1. callClosure(m) = IF ~ CanCall(m) THEN Fail(m) ELSE entered
    BY DEF callClosure
  <1>2. Keeps(m, called, s)
    <2>1. IsRecord(m)
      BY DEF IsSound
    <2>2. \A n : Spares(m, Pop(m, n)) /\ IsRecord(Pop(m, n))
      BY <2>1, Updates DEF Spares
    <2>3. \A n, c : Spares(m, push_back(Pop(m, n), c))
      BY <2>2, Updates, SparesAgain
    <2> DEFINE pushed == push_back(Pop(m, 2 + Len(names)), instance)
    <2>4. Spares(m, pushed)
      BY <2>3
    <2> HIDE DEF pushed
    <2>5. \A f, x, y : Spares(m, [pushed EXCEPT !.frames = f, !.scope = x, !.current = y])
      BY <2>4 DEF Spares, IsRecord, Fields
    <2>6. Spares(m, called)
      BY <2>5 DEF pushed
    <2> HIDE DEF called
    <2> QED
      BY <2>6, SparedIsKept
  <1>3. on \in Seq(STRING)
    BY NamesAreNames DEF IsSound
  <1>4. Keeps(m, registered, s)
    <2> HIDE DEF called, on
    <2>1. IsSound(called, s)
      BY <1>2 DEF Keeps
    <2> QED
      BY <1>2, <1>3, <2>1, KeptByDependOnAll, KeepsAgain
  <1>5. Keeps(m, entered, s)
    <2> HIDE DEF registered, instance
    <2>1. IsSound(registered, s)
      BY <1>4 DEF Keeps
    <2>2. Spares(registered, entered)
      BY <2>1 DEF Spares, IsSound, IsRecord, Fields
    <2> HIDE DEF entered
    <2> QED
      BY <1>4, <2>1, <2>2, SparedIsKept, KeepsAgain
  <1>6. Keeps(m, Fail(m), s)
    BY Updates, SparedIsKept DEF IsSound
  <1> QED
    BY <1>1, <1>5, <1>6

(* Every instruction but store tagged and store stig. *)
LEMMA KeptByInstruction ==
    ASSUME NEW s, NEW m, IsSound(m, s), IsInstruction(m) => Opcode(m) # "store tagged"
    PROVE  Keeps(m, handleInstruction(m), s)
  <1>1. IsRecord(m) /\ Keeps(m, Fail(m), s)
    BY Updates, SparedIsKept DEF IsSound
  <1>2. ASSUME NEW op, NEW x, NEW l, IsSound(l, s), op \in OperandInstruction, op # "store tagged"
        PROVE  Keeps(l, WithOperand(op, x, l), s)
    <2>1. IsRecord(l)
      BY <1>2 DEF IsSound
    <2>2. Spares(l, Fetched(tagVariable(l, x)))
      <3>1. Spares(l, tagVariable(l, x)) /\ IsRecord(tagVariable(l, x))
        BY <2>1, SparedByOperands DEF Spares
      <3> QED
        BY <3>1, Updates, SparesAgain
    <2>3. \/ Spares(l, WithOperand(op, x, l))
          \/ WithOperand(op, x, l) = pushNextElementOfStig(l, x)
          \/ WithOperand(op, x, l) = resetIterOf(l, x)
      <3>1. CASE op \in {"push i", "debug_print", "jmp", "tag robot"}
        BY <2>1, <3>1, Updates DEF WithOperand
      <3>2. CASE op \in {"load", "call_c_closure", "stig_size", "is_iter_at_end"}
        BY <2>1, <3>2, SparedByOperands DEF WithOperand
      <3>3. CASE op \in {"jmp_if_zero", "jmp_if_not_zero"}
        BY <2>1, <3>3, SparedByOperands DEF WithOperand
      <3>4. CASE op \in {"store local", "store global"}
        BY <2>1, <3>4, SparedByStores DEF WithOperand
      <3>5. CASE op \in {"tag variable"}
        BY <2>2, <3>5 DEF WithOperand
      <3>6. CASE op \in {"push_next_in_stig", "reset_iter"}
        BY <3>6 DEF WithOperand
      <3> QED
        BY <1>2, <3>1, <3>2, <3>3, <3>4, <3>5, <3>6 DEF OperandInstruction
    <2> QED
      BY <1>2, <2>3, SparedIsKept, KeptByIteration
  <1>3. Keeps(m, Fetched(m), s) /\ IsSound(Fetched(m), s)
    BY <1>1, Updates, SparedIsKept DEF Keeps
  <1>4. ASSUME NEW op PROVE Keeps(m, WithoutOperand(op, m), s)
    <2>1. \A d : Spares(m, Push(Pop(m, 1), d))
      <3>1. IsRecord(Pop(m, 1)) /\ Spares(m, Pop(m, 1))
        BY <1>1, Updates DEF Spares
      <3> QED
        BY <3>1, Updates, SparesAgain
    <2>2. /\ Spares(m, [m EXCEPT !.pc = @ - 1])
          /\ Spares(m, [m EXCEPT !.state = "done"])
      BY <1>1 DEF Spares, IsRecord, Fields
    <2>3. /\ \A d : Spares(m, Push(m, d))
          /\ Spares(m, pop(m)) /\ Spares(m, dup(m)) /\ Spares(m, swap(m))
          /\ Spares(m, uncache(m)) /\ Spares(m, isNil(m)) /\ Spares(m, return(m))
          /\ Spares(m, m) /\ Spares(m, Fail(m))
          /\ Spares(m, BinaryOnStack(m, op))
      BY <1>1, Updates, SparedByOperands, SparedByReturn
    <2>4. Spares(m, WithoutOperand(op, m)) \/ WithoutOperand(op, m) = callClosure(m)
      <3>1. CASE op \in {"push_nil", "pop", "dup", "swap", "uncache", "print", "is_nil"}
        BY <2>3, <3>1 DEF WithoutOperand, BinaryInstruction, Arithmetic, Comparison, Equality, Logic
      <3>2. CASE op \in {"lnot", "ret_from_closure"}
        BY <2>1, <2>3, <3>2 DEF WithoutOperand, BinaryInstruction, Arithmetic, Comparison, Equality, Logic
      <3>3. CASE op \in {"spin", "end"}
        BY <2>2, <3>3 DEF WithoutOperand, BinaryInstruction, Arithmetic, Comparison, Equality, Logic
      <3>4. CASE op = "call_closure"
        BY <3>4 DEF WithoutOperand, BinaryInstruction, Arithmetic, Comparison, Equality, Logic
      <3>5. CASE op \notin {"push_nil", "pop", "dup", "swap", "uncache", "print", "is_nil", "lnot",
                           "ret_from_closure", "spin", "end", "call_closure"}
        BY <2>3, <3>5 DEF WithoutOperand, BinaryInstruction, Arithmetic, Comparison, Equality, Logic
      <3> QED
        BY <3>1, <3>2, <3>3, <3>4, <3>5
    <2> QED
      BY <2>4, SparedIsKept, KeptByCallClosure
  <1>5. CASE ~ IsInstruction(m)
    BY <1>1, <1>5 DEF handleInstruction
  <1>6. CASE IsInstruction(m) /\ Opcode(m) \in OperandInstruction
    BY <1>2, <1>3, <1>6, KeepsAgain DEF handleInstruction
  <1>7. CASE IsInstruction(m) /\ Opcode(m) \notin OperandInstruction
    BY <1>4, <1>7 DEF handleInstruction
  <1> QED
    BY <1>5, <1>6, <1>7

------------------------------------------------------------------------------
(* What the map of the stigmergy variable s holds. *)
Map(m, s) == IF IsStig(m, s) THEN m.tagged[s].entries ELSE NoEntries

(* From m to n one entry is written. *)
Writes(m, n, s, id, data) ==
    /\ IsSound(n, s)
    /\ n.program = m.program
    /\ IsStig(n, s)
    /\ Map(n, s) = Put(Map(m, s), id, data)

(* To keep a map is to leave it as it is. *)
LEMMA KeptMap ==
    ASSUME NEW s, NEW m, NEW n, Keeps(m, n, s) PROVE Map(n, s) = Map(m, s)
  BY DEF Keeps, Map

(* A write followed by a change that keeps the map. *)
LEMMA WritesAndKeeps ==
    ASSUME NEW s, NEW l, NEW m, NEW n, NEW id, NEW data, Writes(l, m, s, id, data), Keeps(m, n, s)
    PROVE  Writes(l, n, s, id, data)
  BY KeptMap DEF Writes, Keeps

(* The variable is replaced by one with the new entry, and its dependants  *)
(* may run.                                                                *)
LEMMA WrittenBySetTagged ==
    ASSUME NEW s, NEW m, IsSound(m, s), NEW id, NEW data, NEW v,
           DOMAIN v = VariableFields, v.isStigmergy, v.entries = Put(Map(m, s), id, data)
    PROVE  /\ Writes(m, SetTagged(m, s, v), s, id, data)
           /\ \A k : Writes(m, Pop(SetTagged(m, s, v), k), s, id, data)
           /\ \A list : Writes(m, handleDependants(SetTagged(m, s, v), list), s, id, data)
           /\ \A k, list : Writes(m, handleDependants(Pop(SetTagged(m, s, v), k), list), s, id, data)
  <1> DEFINE n == SetTagged(m, s, v)
  <1>1. Writes(m, n, s, id, data)
    <2>1. IsRecord(n) /\ n.program = m.program /\ n.tagged = Put(m.tagged, s, v)
      BY DEF SetTagged, IsSound, IsRecord, Fields
    <2>2. s \in DOMAIN n.tagged /\ n.tagged[s] = v
      BY <2>1 DEF Put
    <2>3. IsSound(n, s) /\ IsStig(n, s) /\ n.tagged[s].entries = Put(Map(m, s), id, data)
      BY <2>1, <2>2 DEF IsSound, IsStig
    <2> HIDE DEF n
    <2> QED
      BY <2>1, <2>3 DEF Writes, Map
  <1>2. IsSound(n, s) /\ IsRecord(n)
    BY <1>1 DEF Writes, IsSound
  <1> HIDE DEF n
  <1>3. \A k : Spares(n, Pop(n, k)) /\ IsRecord(Pop(n, k))
    BY <1>2, Updates DEF Spares
  <1>4. \A list : Spares(n, handleDependants(n, list))
    BY <1>2, SparedByDependants
  <1>5. ASSUME NEW k, NEW list PROVE Spares(n, handleDependants(Pop(n, k), list))
    BY <1>3, SparedByDependants, SparesAgain
  <1>6. \A l : Spares(n, l) => Writes(m, l, s, id, data)
    BY <1>1, <1>2, SparedIsKept, WritesAndKeeps
  <1>7. /\ Writes(m, n, s, id, data)
        /\ \A k : Writes(m, Pop(n, k), s, id, data)
        /\ \A list : Writes(m, handleDependants(n, list), s, id, data)
        /\ \A k, list : Writes(m, handleDependants(Pop(n, k), list), s, id, data)
    BY <1>1, <1>3, <1>4, <1>5, <1>6
  <1> QED
    BY <1>7 DEF n

(* The variable before and after the update of one entry. *)
LEMMA UpdatedVariable ==
    ASSUME NEW s, NEW m, IsSound(m, s), IsStig(m, s), NEW id, NEW data
    PROVE  LET v == updateStigValue(m.tagged[s], id, data)
           IN /\ DOMAIN v = VariableFields /\ v.isStigmergy
              /\ v.entries = Put(Map(m, s), id, data)
              /\ DOMAIN resetIter(v) = VariableFields /\ resetIter(v).isStigmergy
              /\ resetIter(v).entries = Put(Map(m, s), id, data)
  <1>1. DOMAIN m.tagged[s] = VariableFields /\ m.tagged[s].isStigmergy
    BY DEF IsSound, IsStig
  <1>2. Map(m, s) = m.tagged[s].entries
    BY DEF Map
  <1> QED
    BY <1>1, <1>2 DEF updateStigValue, resetIter, VariableFields

(* The variable that the first update makes. *)
LEMMA NewVariable ==
    ASSUME NEW id, NEW data
    PROVE  LET v == NewStig(id, data)
               w == updateStigValue(v, id, data)
           IN /\ DOMAIN v = VariableFields /\ v.isStigmergy
              /\ v.entries = Put(NoEntries, id, data)
              /\ DOMAIN w = VariableFields /\ w.isStigmergy
              /\ w.entries = Put(NoEntries, id, data)
  <1> DEFINE v == NewStig(id, data)
  <1>1. DOMAIN v = VariableFields /\ v.isStigmergy = TRUE /\ v.entries = Put(NoEntries, id, data)
    BY DEF NewStig, Variable, VariableFields
  <1> HIDE DEF v
  <1>2. LET w == updateStigValue(v, id, data)
        IN DOMAIN w = VariableFields /\ w.isStigmergy = TRUE /\ w.entries = Put(v.entries, id, data)
    BY <1>1 DEF updateStigValue, VariableFields
  <1>3. Put(Put(NoEntries, id, data), id, data) = Put(NoEntries, id, data)
    BY DEF Put
  <1>4. LET w == updateStigValue(v, id, data)
        IN DOMAIN w = VariableFields /\ w.isStigmergy /\ w.entries = Put(NoEntries, id, data)
    BY <1>1, <1>2, <1>3
  <1> QED
    BY <1>1, <1>4 DEF v

(* A store that succeeds writes the entry of the robot. *)
LEMMA WrittenByStore ==
    ASSUME NEW s, NEW m, IsSound(m, s), NEW id, storeStig(m, id, s).state # "error"
    PROVE  Writes(m, storeStig(m, id, s), s, id, Top(m).data)
  <1>1. Fail(m).state = "error"
    BY DEF Fail, IsSound, IsRecord, Fields
  <1>2. CASE IsStig(m, s)
    <2> DEFINE v == resetIter(updateStigValue(m.tagged[s], id, Top(m).data))
    <2>1. storeStig(m, id, s) = handleDependants(Pop(SetTagged(m, s, v), 1), v.dependants)
      BY <1>1, <1>2 DEF storeStig
    <2>2. DOMAIN v = VariableFields /\ v.isStigmergy /\ v.entries = Put(Map(m, s), id, Top(m).data)
      BY <1>2, UpdatedVariable
    <2> HIDE DEF v
    <2> QED
      BY <2>1, <2>2, WrittenBySetTagged
  <1>3. CASE ~ IsStig(m, s)
    <2> DEFINE v == updateStigValue(NewStig(id, Top(m).data), id, Top(m).data)
    <2>1. storeStig(m, id, s) = Pop(SetTagged(m, s, v), 1)
      BY <1>1, <1>3 DEF storeStig
    <2>2. DOMAIN v = VariableFields /\ v.isStigmergy /\ v.entries = Put(Map(m, s), id, Top(m).data)
      BY <1>3, NewVariable DEF Map
    <2> HIDE DEF v
    <2> QED
      BY <2>1, <2>2, WrittenBySetTagged
  <1> QED
    BY <1>2, <1>3

(* An update writes the entry of the robot it comes from. *)
LEMMA WrittenByReceive ==
    ASSUME NEW s, NEW m, IsSound(m, s), NEW id, NEW data
    PROVE  Writes(m, receiveStig(m, id, s, data), s, id, data)
  <1>1. CASE IsStig(m, s)
    <2> DEFINE v == updateStigValue(m.tagged[s], id, data)
    <2>1. receiveStig(m, id, s, data) = handleDependants(SetTagged(m, s, v), v.dependants)
      BY <1>1 DEF receiveStig
    <2>2. DOMAIN v = VariableFields /\ v.isStigmergy /\ v.entries = Put(Map(m, s), id, data)
      BY <1>1, UpdatedVariable
    <2> HIDE DEF v
    <2> QED
      BY <2>1, <2>2, WrittenBySetTagged
  <1>2. CASE ~ IsStig(m, s)
    <2> DEFINE v == NewStig(id, data)
    <2>1. receiveStig(m, id, s, data) = SetTagged(m, s, v)
      BY <1>2 DEF receiveStig
    <2>2. DOMAIN v = VariableFields /\ v.isStigmergy /\ v.entries = Put(Map(m, s), id, data)
      BY <1>2, NewVariable DEF Map
    <2> HIDE DEF v
    <2> QED
      BY <2>1, <2>2, WrittenBySetTagged
  <1> QED
    BY <1>1, <1>2

------------------------------------------------------------------------------
(* What has been sent: the n-th store of robot q. *)
StoreOf(q, n) == [robotID |-> q, name |-> Shared, data |-> written[q][n], store |-> n]
(* All that has been sent so far. *)
Sent == UNION {{StoreOf(q, n) : n \in 1 .. stored[q]} : q \in Robot}

(* Every machine has the shape of one. *)
Machines == DOMAIN vm = Robot /\ \A r \in Robot : IsSound(vm[r], Shared)

(* The counters and the histories belong together. *)
Places ==
    /\ at \in [Robot -> {"instruction", "check"}]
    /\ stored \in [Robot -> Nat]
    /\ known \in [Robot -> [Robot -> Nat]]
    /\ \A r, q \in Robot : known[r][q] <= stored[q]
    /\ DOMAIN written = Robot
    /\ \A q \in Robot : written[q] \in Seq(Range(written[q])) /\ Len(written[q]) = stored[q]

(* The network carries what has been stored and nothing else. *)
Carried == router \in Seq(Sent) /\ inbox \in [Robot -> Seq(Sent)]

(* A robot's map holds what history says. *)
MapsAreKnown ==
    \A r \in Robot :
        /\ DOMAIN Map(vm[r], Shared) = {q \in Robot : known[r][q] # 0}
        /\ \A q \in Robot : known[r][q] # 0 => Map(vm[r], Shared)[q] = written[q][known[r][q]]

(* The inductive invariant. *)
IInv == Machines /\ Places /\ Carried /\ MapsAreKnown

------------------------------------------------------------------------------
(* A sequence over fewer values is one over more. *)
LEMMA ShownAgain ==
    ASSUME NEW S, NEW T, S \subseteq T, NEW q \in Seq(S) PROVE q \in Seq(T)
  OBVIOUS

(* A history with one more store. *)
LEMMA AppendedRange ==
    ASSUME NEW q, q \in Seq(Range(q)), NEW x
    PROVE  /\ Append(q, x) \in Seq(Range(Append(q, x)))
           /\ Len(Append(q, x)) = Len(q) + 1
           /\ \A i \in 1 .. Len(q) : Append(q, x)[i] = q[i]
           /\ Append(q, x)[Len(q) + 1] = x
  <1> DEFINE S == Range(q) \cup {x}
  <1>1. q \in Seq(S)
    BY ShownAgain
  <1>2. /\ Append(q, x) \in Seq(S) /\ Len(Append(q, x)) = Len(q) + 1
        /\ \A i \in 1 .. Len(q) : Append(q, x)[i] = q[i]
        /\ Append(q, x)[Len(q) + 1] = x
        /\ Len(q) \in Nat
    BY <1>1
  <1>3. \A i \in 1 .. Len(Append(q, x)) : Append(q, x)[i] \in Range(Append(q, x))
    BY <1>2 DEF Range
  <1>4. Append(q, x) \in Seq(Range(Append(q, x)))
    BY <1>2, <1>3
  <1> QED
    BY <1>2, <1>4

(* A machine that has just loaded its program knows of no map. *)
LEMMA LoadedIsSound ==
    ASSUME NEW p \in Program
    PROVE  IsSound(Loaded(p), Shared) /\ ~ IsStig(Loaded(p), Shared)
  <1>1. /\ DOMAIN Loaded(p) = Fields
        /\ Loaded(p).program = p
        /\ Loaded(p).tagged = [name \in RegisteredFunction |-> Variable(CFunction(name))]
    BY DEF Loaded, Fields
  <1>2. \A d : DOMAIN Variable(d) = VariableFields /\ Variable(d).isStigmergy = FALSE
    BY DEF Variable, VariableFields
  <1> QED
    BY <1>1, <1>2 DEF IsSound, IsRecord, IsStig

(* At first nothing is known, nothing is on its way. *)
LEMMA InitIInv == Init => IInv
  <1> SUFFICES ASSUME Init PROVE IInv
    OBVIOUS
  <1> USE DEF Init, NetInit
  <1>1. PICK launch \in Launches : vm = [r \in Robot |-> Loaded(launch[r])]
    OBVIOUS
  <1>2. \A r \in Robot : launch[r] \in Program
    BY <1>1, LaunchAssumption
  <1>3. Machines
    BY <1>1, <1>2, LoadedIsSound DEF Machines
  <1>4. Places
    <2>1. <<>> \in Seq(Range(<<>>)) /\ Len(<<>>) = 0
      OBVIOUS
    <2> QED
      BY <2>1 DEF Places
  <1>5. Carried
    <2>1. <<>> \in Seq(Sent)
      OBVIOUS
    <2> QED
      BY <2>1 DEF Carried
  <1>6. MapsAreKnown
    <2>1. \A r \in Robot : Map(vm[r], Shared) = NoEntries
      BY <1>1, <1>2, LoadedIsSound DEF Map
    <2>2. DOMAIN NoEntries = {}
      BY DEF NoEntries
    <2> QED
      BY <2>1, <2>2 DEF MapsAreKnown
  <1> QED
    BY <1>3, <1>4, <1>5, <1>6 DEF IInv

(* A robot's machine moves, and its map stays. *)
LEMMA MapStays ==
    ASSUME IInv, NEW r \in Robot, NEW m, Keeps(vm[r], m, Shared),
           vm' = [vm EXCEPT ![r] = m], UNCHANGED <<written, known>>
    PROVE  Machines' /\ MapsAreKnown'
  <1>1. \A q \in Robot : vm'[q] = IF q = r THEN m ELSE vm[q]
    BY DEF IInv, Machines
  <1>2. IsSound(m, Shared) /\ Map(m, Shared) = Map(vm[r], Shared)
    BY KeptMap DEF Keeps
  <1>3. Machines'
    BY <1>1, <1>2 DEF IInv, Machines
  <1>4. \A q \in Robot : Map(vm'[q], Shared) = Map(vm[q], Shared)
    BY <1>1, <1>2
  <1>5. written' = written /\ known' = known
    OBVIOUS
  <1>6. ASSUME NEW p \in Robot
        PROVE  /\ DOMAIN Map(vm'[p], Shared) = {q \in Robot : known'[p][q] # 0}
               /\ \A q \in Robot :
                     known'[p][q] # 0 => Map(vm'[p], Shared)[q] = written'[q][known'[p][q]]
    <2>1. Map(vm'[p], Shared) = Map(vm[p], Shared)
      BY <1>4
    <2>2. /\ DOMAIN Map(vm[p], Shared) = {q \in Robot : known[p][q] # 0}
          /\ \A q \in Robot : known[p][q] # 0 => Map(vm[p], Shared)[q] = written[q][known[p][q]]
      BY DEF IInv, MapsAreKnown
    <2> QED
      BY <1>5, <2>1, <2>2
  <1>7. MapsAreKnown'
    BY <1>6 DEF MapsAreKnown
  <1> QED
    BY <1>3, <1>7

(* A robot's machine moves, and an entry of its map is written. *)
LEMMA MapIsWritten ==
    ASSUME Machines, MapsAreKnown, NEW r \in Robot, NEW m, NEW q \in Robot, NEW n \in Nat \ {0},
           NEW data,
           known \in [Robot -> [Robot -> Nat]],
           Writes(vm[r], m, Shared, q, data),
           vm' = [vm EXCEPT ![r] = m],
           known' = [known EXCEPT ![r][q] = n],
           written'[q][n] = data,
           \A p, t \in Robot : known[p][t] # 0 => written'[t][known[p][t]] = written[t][known[p][t]]
    PROVE  Machines' /\ MapsAreKnown'
  <1>1. \A p \in Robot : vm'[p] = IF p = r THEN m ELSE vm[p]
    BY DEF Machines
  <1>2. IsSound(m, Shared) /\ Map(m, Shared) = Put(Map(vm[r], Shared), q, data)
    BY DEF Writes
  <1>3. Machines'
    BY <1>1, <1>2 DEF Machines
  <1>4. \A p, t \in Robot : known'[p][t] = IF p = r /\ t = q THEN n ELSE known[p][t]
    OBVIOUS
  <1>5. ASSUME NEW p \in Robot
        PROVE  /\ DOMAIN Map(vm'[p], Shared) = {t \in Robot : known'[p][t] # 0}
               /\ \A t \in Robot :
                     known'[p][t] # 0 => Map(vm'[p], Shared)[t] = written'[t][known'[p][t]]
    <2>1. /\ DOMAIN Map(vm[p], Shared) = {t \in Robot : known[p][t] # 0}
          /\ \A t \in Robot : known[p][t] # 0 => Map(vm[p], Shared)[t] = written[t][known[p][t]]
      BY DEF MapsAreKnown
    <2>2. CASE p # r
      <3>1. vm'[p] = vm[p] /\ \A t \in Robot : known'[p][t] = known[p][t]
        BY <1>1, <1>4, <2>2
      <3>2. {t \in Robot : known'[p][t] # 0} = {t \in Robot : known[p][t] # 0}
        BY <3>1
      <3>3. \A t \in Robot : known'[p][t] # 0 => Map(vm'[p], Shared)[t] = written'[t][known'[p][t]]
        <4> SUFFICES ASSUME NEW t \in Robot, known[p][t] # 0
                     PROVE  Map(vm[p], Shared)[t] = written'[t][known[p][t]]
          BY <3>1
        <4>1. written'[t][known[p][t]] = written[t][known[p][t]]
          OBVIOUS
        <4> QED
          BY <2>1, <4>1
      <3> QED
        BY <2>1, <3>1, <3>2, <3>3
    <2>3. CASE p = r
      <3>1. Map(vm'[p], Shared) = Put(Map(vm[p], Shared), q, data)
        BY <1>1, <1>2, <2>3
      <3>2. DOMAIN Map(vm'[p], Shared) = DOMAIN Map(vm[p], Shared) \cup {q}
        BY <3>1 DEF Put
      <3>3. Map(vm'[p], Shared)[q] = data
        BY <3>1 DEF Put
      <3>4. \A t \in Robot : (t # q /\ known[p][t] # 0) =>
                                Map(vm'[p], Shared)[t] = Map(vm[p], Shared)[t]
        BY <2>1, <3>1 DEF Put
      <3>5. \A t \in Robot : known'[p][t] = IF t = q THEN n ELSE known[p][t]
        BY <1>4, <2>3
      <3>6. DOMAIN Map(vm'[p], Shared) = {t \in Robot : known'[p][t] # 0}
        BY <2>1, <3>2, <3>5
      <3>7. ASSUME NEW t \in Robot, known'[p][t] # 0
            PROVE  Map(vm'[p], Shared)[t] = written'[t][known'[p][t]]
        <4>1. CASE t = q
          BY <3>3, <3>5, <4>1
        <4>2. CASE t # q
          <5>1. known'[p][t] = known[p][t] /\ known[p][t] # 0
            BY <3>5, <3>7, <4>2
          <5>2. written'[t][known[p][t]] = written[t][known[p][t]]
            BY <5>1
          <5> QED
            BY <2>1, <3>4, <4>2, <5>1, <5>2
        <4> QED
          BY <4>1, <4>2
      <3> QED
        BY <3>6, <3>7
    <2> QED
      BY <2>2, <2>3
  <1> QED
    BY <1>3, <1>5 DEF MapsAreKnown

(* An instruction that sends nothing leaves the map alone. *)
LEMMA InstructionStep ==
    ASSUME IInv, NEW r \in Robot, Instruction(r) PROVE IInv'
  <1>1. PICK m \in {IF IsStore(vm[r]) THEN Stored(r) ELSE handleInstruction(vm[r])} :
            /\ IsStore(vm[r]) => m.state = "error"
            /\ Run(r, m)
            /\ UNCHANGED <<netVars, history>>
    BY DEF Instruction
  <1>2. IsSound(vm[r], Shared) /\ IsRecord(vm[r]) /\ vm[r].program \in Program
    BY DEF IInv, Machines, IsSound
  <1>3. PICK n : Keeps(vm[r], n, Shared) /\ vm' = [vm EXCEPT ![r] = n]
    <2>1. CASE m.state = "error"
      BY <1>1, <1>2, <2>1, Updates, SparedIsKept DEF Run
    <2>2. CASE m.state # "error"
      <3>1. m = handleInstruction(vm[r]) /\ vm' = [vm EXCEPT ![r] = m]
        BY <1>1, <2>2 DEF Run
      <3>2. IsInstruction(vm[r]) => Opcode(vm[r]) # "store tagged"
        BY <1>2, StoreAssumption DEF IsInstruction, Opcode
      <3> QED
        BY <1>2, <3>1, <3>2, KeptByInstruction
    <2> QED
      BY <2>1, <2>2
  <1>4. UNCHANGED <<router, inbox, stored, written, known>>
    BY <1>1 DEF netVars, history
  <1>5. Machines' /\ MapsAreKnown'
    BY <1>3, <1>4, MapStays
  <1>6. Carried'
    BY <1>4 DEF IInv, Carried, Sent, StoreOf
  <1>7. Places'
    <2>1. at' \in [Robot -> {"instruction", "check"}]
      BY <1>1 DEF Run, IInv, Places
    <2> QED
      BY <1>4, <2>1 DEF IInv, Places
  <1> QED
    BY <1>5, <1>6, <1>7 DEF IInv

(* What a store does to the machine. *)
LEMMA StoreWrites ==
    ASSUME IInv, NEW r \in Robot, IsStore(vm[r]), Stored(r).state # "error"
    PROVE  /\ Argument(vm[r]) = Shared
           /\ Writes(vm[r], Stored(r), Shared, r, Top(vm[r]).data)
           /\ MessageOf(r, Argument(vm[r]), Stored(r)) =
                 [robotID |-> r, name |-> Shared, data |-> Top(vm[r]).data, store |-> stored[r] + 1]
  <1> DEFINE f == Fetched(vm[r])
  <1>1. IsSound(vm[r], Shared) /\ IsRecord(vm[r]) /\ vm[r].program \in Program
    BY DEF IInv, Machines, IsSound
  <1>2. Argument(vm[r]) = Shared
    BY <1>1, StoreAssumption DEF IsStore, IsInstruction, Opcode, Argument
  <1>3. Keeps(vm[r], f, Shared) /\ IsSound(f, Shared) /\ Map(f, Shared) = Map(vm[r], Shared)
    BY <1>1, Updates, SparedIsKept, KeptMap DEF Keeps
  <1>4. Top(f) = Top(vm[r])
    BY <1>1 DEF Fetched, Top, IsRecord, Fields
  <1>5. Stored(r) = storeStig(f, r, Shared)
    BY <1>2 DEF Stored
  <1> HIDE DEF f
  <1>6. Writes(f, Stored(r), Shared, r, Top(vm[r]).data)
    BY <1>3, <1>4, <1>5, WrittenByStore
  <1>7. Writes(vm[r], Stored(r), Shared, r, Top(vm[r]).data)
    BY <1>3, <1>6 DEF Writes, Keeps
  <1>8. Stored(r).tagged[Shared].entries[r] = Top(vm[r]).data
    BY <1>7 DEF Writes, Map, Put
  <1> QED
    BY <1>2, <1>7, <1>8 DEF MessageOf

(* A store adds to its history what it writes and sends. *)
LEMMA StoreStep == ASSUME IInv, NEW r \in Robot, Store(r) PROVE IInv'
  <1> DEFINE data == Top(vm[r]).data
  <1> DEFINE message == [robotID |-> r, name |-> Shared, data |-> data, store |-> stored[r] + 1]
  <1>1. /\ Writes(vm[r], Stored(r), Shared, r, data)
        /\ vm' = [vm EXCEPT ![r] = Stored(r)] /\ at' = [at EXCEPT ![r] = "check"]
        /\ router' = Append(router, message)
        /\ stored' = [stored EXCEPT ![r] = @ + 1]
        /\ written' = [written EXCEPT ![r] = Append(@, data)]
        /\ known' = [known EXCEPT ![r][r] = stored[r] + 1]
        /\ inbox' = inbox
    BY StoreWrites DEF Store, Run, Send
  <1>2. /\ stored \in [Robot -> Nat] /\ known \in [Robot -> [Robot -> Nat]]
        /\ \A p, q \in Robot : known[p][q] <= stored[q]
        /\ DOMAIN written = Robot
        /\ \A q \in Robot : written[q] \in Seq(Range(written[q])) /\ Len(written[q]) = stored[q]
    BY DEF IInv, Places
  <1>3. /\ \A q \in Robot : stored'[q] = IF q = r THEN stored[q] + 1 ELSE stored[q]
        /\ \A q \in Robot : written'[q] = IF q = r THEN Append(written[q], data) ELSE written[q]
    BY <1>1, <1>2
  <1>4. /\ written'[r] \in Seq(Range(written'[r])) /\ Len(written'[r]) = stored[r] + 1
        /\ \A n \in 1 .. stored[r] : written'[r][n] = written[r][n]
        /\ written'[r][stored[r] + 1] = data
    <2>1. written[r] \in Seq(Range(written[r])) /\ Len(written[r]) = stored[r]
      BY <1>2
    <2>2. written'[r] = Append(written[r], data)
      BY <1>3
    <2> HIDE DEF data
    <2> QED
      BY <2>1, <2>2, AppendedRange
  <1>5. \A q \in Robot : \A n \in 1 .. stored[q] : written'[q][n] = written[q][n]
    BY <1>3, <1>4
  <1>6. Places'
    <2>1. at' \in [Robot -> {"instruction", "check"}]
      BY <1>1 DEF IInv, Places
    <2>2. stored' \in [Robot -> Nat] /\ known' \in [Robot -> [Robot -> Nat]] /\ DOMAIN written' = Robot
      BY <1>1, <1>2
    <2>3. \A p, q \in Robot : known'[p][q] <= stored'[q]
      BY <1>1, <1>2, <1>3
    <2>4. \A q \in Robot : written'[q] \in Seq(Range(written'[q])) /\ Len(written'[q]) = stored'[q]
      BY <1>2, <1>3, <1>4
    <2> QED
      BY <2>1, <2>2, <2>3, <2>4 DEF Places
  <1>7. Machines' /\ MapsAreKnown'
    <2>1. \A p, t \in Robot : known[p][t] # 0 => known[p][t] \in 1 .. stored[t]
      BY <1>2
    <2>2. stored[r] + 1 \in Nat \ {0}
      BY <1>2
    <2>3. Machines /\ MapsAreKnown
      BY DEF IInv
    <2>4. \A p, t \in Robot :
             known[p][t] # 0 => written'[t][known[p][t]] = written[t][known[p][t]]
      BY <1>5, <2>1
    <2> QED
      BY <1>1, <1>2, <1>4, <2>2, <2>3, <2>4, MapIsWritten
  <1>8. Carried'
    <2>1. Sent \subseteq Sent'
      <3> SUFFICES ASSUME NEW q \in Robot, NEW n \in 1 .. stored[q] PROVE StoreOf(q, n) \in Sent'
        BY DEF Sent
      <3>1. n \in 1 .. stored'[q]
        <4>1. stored[q] \in Nat /\ stored'[q] \in {stored[q], stored[q] + 1}
          BY <1>2, <1>3
        <4> QED
          BY <4>1
      <3>2. StoreOf(q, n) = StoreOf(q, n)'
        BY <1>5 DEF StoreOf
      <3> QED
        BY <3>1, <3>2 DEF Sent
    <2>2. message \in Sent'
      <3>1. stored[r] + 1 \in 1 .. stored'[r]
        BY <1>2, <1>3
      <3>2. message = [robotID |-> r, name |-> Shared, data |-> written'[r][stored[r] + 1],
                       store |-> stored[r] + 1]
        BY <1>4
      <3> QED
        BY <3>1, <3>2 DEF Sent, StoreOf
    <2>3. router \in Seq(Sent') /\ \A q \in Robot : inbox[q] \in Seq(Sent')
      BY <2>1, ShownAgain DEF IInv, Carried
    <2>4. router' \in Seq(Sent')
      BY <1>1, <2>2, <2>3
    <2>5. inbox' \in [Robot -> Seq(Sent')]
      BY <1>1, <2>3 DEF IInv, Carried
    <2> QED
      BY <2>4, <2>5 DEF Carried
  <1> QED
    BY <1>6, <1>7, <1>8 DEF IInv

(* A look at an empty socket. *)
LEMMA NoMessageStep == ASSUME IInv, NEW r \in Robot, NoMessage(r) PROVE IInv'
  <1>1. /\ vm' = [vm EXCEPT ![r] = stepEnd(vm[r])] /\ at' = [at EXCEPT ![r] = "instruction"]
        /\ UNCHANGED <<router, inbox, stored, written, known>>
    BY DEF NoMessage, EndStep, netVars, history
  <1>2. Keeps(vm[r], stepEnd(vm[r]), Shared)
    BY Updates, SparedIsKept DEF IInv, Machines, IsSound
  <1>3. Machines' /\ MapsAreKnown'
    BY <1>1, <1>2, MapStays
  <1>4. Carried' /\ Places'
    BY <1>1 DEF IInv, Carried, Places, Sent, StoreOf
  <1> QED
    BY <1>3, <1>4 DEF IInv

(* An update that waits is a store, and history knows of it. *)
LEMMA UpdateFields ==
    ASSUME IInv, NEW m \in Sent
    PROVE  /\ m.robotID \in Robot /\ m.name = Shared
           /\ m.store \in 1 .. stored[m.robotID]
           /\ m.data = written[m.robotID][m.store]
  BY DEF Sent, StoreOf

(* The message at the head of a queue. *)
LEMMA Taken ==
    ASSUME NEW S, NEW q \in Seq(S), q # <<>>
    PROVE  /\ Tail(q) \in Seq(S)
           /\ Len(q) \in Nat \ {0}
           /\ Len(Tail(q)) = Len(q) - 1
           /\ \A i \in 1 .. Len(q) - 1 : Tail(q)[i] = q[i + 1]
           /\ Head(q) = q[1]
           /\ Head(q) \in S
  BY HeadTailProperties, EmptySeq

(* What an update does to the machine. *)
LEMMA ReceiveWrites ==
    ASSUME IInv, NEW r \in Robot, ReceiveUpdate(r)
    PROVE  LET update == Head(inbox[r])
           IN /\ update \in Sent
              /\ inbox' = [inbox EXCEPT ![r] = Tail(@)]
              /\ known' = [known EXCEPT ![r][update.robotID] = update.store]
              /\ at' = [at EXCEPT ![r] = "instruction"]
              /\ \E m : /\ Writes(vm[r], m, Shared, update.robotID, update.data)
                        /\ vm' = [vm EXCEPT ![r] = m]
              /\ UNCHANGED <<clients, router, stored, written, audience>>
  <1> DEFINE update == Head(inbox[r])
  <1> DEFINE n == receiveStig(vm[r], update.robotID, update.name, update.data)
  <1>1. update \in Sent
    BY Taken DEF ReceiveUpdate, Receive, IInv, Carried
  <1>2. update.name = Shared
    BY <1>1, UpdateFields
  <1>3. /\ vm' = [vm EXCEPT ![r] = stepEnd(n)]
        /\ at' = [at EXCEPT ![r] = "instruction"]
    BY DEF ReceiveUpdate, EndStep
  <1>4. Writes(vm[r], stepEnd(n), Shared, update.robotID, update.data)
    <2>1. Writes(vm[r], n, Shared, update.robotID, update.data)
      BY <1>2, WrittenByReceive DEF IInv, Machines
    <2> HIDE DEF n, update
    <2>2. IsSound(n, Shared) /\ IsRecord(n)
      BY <2>1 DEF Writes, IsSound
    <2>3. Keeps(n, stepEnd(n), Shared)
      BY <2>2, Updates, SparedIsKept
    <2> QED
      BY <2>1, <2>3, WritesAndKeeps
  <1> QED
    BY <1>1, <1>3, <1>4 DEF ReceiveUpdate, Receive

(* An update is the store it says it is. *)
LEMMA ReceiveStep == ASSUME IInv, NEW r \in Robot, ReceiveUpdate(r) PROVE IInv'
  <1> DEFINE update == Head(inbox[r])
  <1>1. /\ update \in Sent
        /\ inbox' = [inbox EXCEPT ![r] = Tail(@)]
        /\ known' = [known EXCEPT ![r][update.robotID] = update.store]
        /\ at' = [at EXCEPT ![r] = "instruction"]
        /\ UNCHANGED <<clients, router, stored, written, audience>>
    BY ReceiveWrites
  <1>2. PICK m : /\ Writes(vm[r], m, Shared, update.robotID, update.data)
                 /\ vm' = [vm EXCEPT ![r] = m]
    BY ReceiveWrites
  <1>3. inbox[r] # <<>> /\ inbox[r] \in Seq(Sent)
    BY DEF ReceiveUpdate, Receive, IInv, Carried
  <1> HIDE DEF update
  <1>4. /\ update.robotID \in Robot /\ update.store \in 1 .. stored[update.robotID]
        /\ update.data = written[update.robotID][update.store]
    BY <1>1, UpdateFields
  <1>5. /\ stored \in [Robot -> Nat] /\ known \in [Robot -> [Robot -> Nat]]
        /\ \A p, q \in Robot : known[p][q] <= stored[q]
    BY DEF IInv, Places
  <1>6. update.store \in Nat \ {0} /\ update.store <= stored[update.robotID]
    BY <1>4, <1>5
  <1>7. Machines' /\ MapsAreKnown'
    <2>1. written' = written
      BY <1>1
    <2>2. Machines /\ MapsAreKnown
      BY DEF IInv
    <2> QED
      BY <1>1, <1>2, <1>4, <1>5, <1>6, <2>1, <2>2, MapIsWritten
  <1>8. Carried'
    <2>1. Sent' = Sent
      BY <1>1 DEF Sent, StoreOf
    <2>2. Tail(inbox[r]) \in Seq(Sent)
      BY <1>3, Taken
    <2>3. inbox' \in [Robot -> Seq(Sent)]
      BY <1>1, <2>2 DEF IInv, Carried
    <2> QED
      BY <1>1, <2>1, <2>3 DEF IInv, Carried
  <1>9. Places'
    <2>1. at' \in [Robot -> {"instruction", "check"}]
      BY <1>1 DEF IInv, Places
    <2>2. /\ known' \in [Robot -> [Robot -> Nat]]
          /\ \A p, q \in Robot : known'[p][q] <= stored[q]
      BY <1>1, <1>4, <1>5, <1>6
    <2> QED
      BY <1>1, <2>1, <2>2 DEF IInv, Places
  <1> QED
    BY <1>7, <1>8, <1>9 DEF IInv

(* The router copies what it carries. *)
LEMMA ForwardStep == ASSUME IInv, RouterForward PROVE IInv'
  <1>1. /\ router # <<>> /\ router' = Tail(router)
        /\ inbox' = [r \in Robot |-> IF r \in clients THEN Append(inbox[r], Head(router))
                                     ELSE inbox[r]]
        /\ UNCHANGED <<vm, at, stored, written, known>>
    BY DEF RouterForward, Forward, history
  <1>2. Machines' /\ Places' /\ MapsAreKnown'
    BY <1>1 DEF IInv, Machines, Places, MapsAreKnown
  <1>3. Carried'
    <2>1. Sent' = Sent
      BY <1>1 DEF Sent, StoreOf
    <2>2. router \in Seq(Sent) /\ \A r \in Robot : inbox[r] \in Seq(Sent)
      BY DEF IInv, Carried
    <2>3. Tail(router) \in Seq(Sent) /\ Head(router) \in Sent
      BY <1>1, <2>2, Taken
    <2>4. ASSUME NEW r \in Robot PROVE Append(inbox[r], Head(router)) \in Seq(Sent)
      <3>1. inbox[r] \in Seq(Sent) /\ Head(router) \in Sent
        BY <2>2, <2>3
      <3> QED
        BY <3>1, AppendProperties
    <2>5. inbox' \in [Robot -> Seq(Sent)]
      BY <1>1, <2>2, <2>4
    <2> QED
      BY <1>1, <2>1, <2>3, <2>5 DEF Carried
  <1> QED
    BY <1>2, <1>3 DEF IInv

(* No step breaks the invariant. *)
LEMMA NextIInv == IInv /\ [Next]_vars => IInv'
  <1> SUFFICES ASSUME IInv, [Next]_vars PROVE IInv'
    OBVIOUS
  <1>1. ASSUME UNCHANGED <<router, inbox, vm, at, stored, written, known>> PROVE IInv'
    <2>a. /\ router' = router /\ inbox' = inbox /\ vm' = vm /\ at' = at /\ stored' = stored
          /\ written' = written /\ known' = known
      BY <1>1
    <2>1. Machines' /\ Places' /\ MapsAreKnown'
      BY <2>a DEF IInv, Machines, Places, MapsAreKnown
    <2>2. Carried'
      BY <2>a DEF IInv, Carried, Sent, StoreOf
    <2> QED
      BY <2>1, <2>2 DEF IInv
  <1>2. CASE RouterForward
    BY <1>2, ForwardStep
  <1>3. ASSUME NEW r \in Robot, Register(r) PROVE IInv'
    BY <1>1, <1>3 DEF Register, AddClient, history
  <1>4. ASSUME NEW r \in Robot, RobotStep(r) PROVE IInv'
    BY <1>4, InstructionStep, StoreStep, NoMessageStep, ReceiveStep DEF RobotStep, CheckForMessage
  <1>5. CASE UNCHANGED vars
    BY <1>1, <1>5 DEF vars, netVars, history
  <1> QED
    BY <1>2, <1>3, <1>4, <1>5 DEF Next

(* However the robots' instructions, reads of the socket and the router    *)
(* are interleaved, a map holds what its robot has stored or been sent.    *)
THEOREM Invariance == Spec => []IInv
  BY InitIInv, NextIInv, PTL DEF Spec

------------------------------------------------------------------------------
(* The mapping, where IInv holds. *)
Plain(m) == [robotID |-> m.robotID, data |-> m.store]
(* A queue of them. *)
PlainQueue(queue) == [i \in DOMAIN queue |-> Plain(queue[i])]

(* Under the invariant every entry has the number history gives it. *)
Mapped ==
    /\ Numbered(router) = PlainQueue(router)
    /\ [r \in Robot |-> Numbered(inbox[r])] = [r \in Robot |-> PlainQueue(inbox[r])]
    /\ [r \in Robot |-> NumbersIn(r)] = known

(* What is on its way is what its store wrote. *)
LEMMA MappedQueue ==
    ASSUME IInv, NEW queue \in Seq(Sent) PROVE Numbered(queue) = PlainQueue(queue)
  <1>1. ASSUME NEW i \in DOMAIN queue
        PROVE  NumberOf(queue[i].robotID, queue[i].store, queue[i].data) = queue[i].store
    <2>1. queue[i] \in Sent
      BY <1>1
    <2> QED
      BY <2>1, UpdateFields DEF NumberOf
  <1> QED
    BY <1>1 DEF Numbered, PlainQueue, Plain

(* And so is what is in the maps. *)
LEMMA InvMapped == IInv => Mapped
  <1> SUFFICES ASSUME IInv PROVE Mapped
    OBVIOUS
  <1>1. router \in Seq(Sent) /\ \A r \in Robot : inbox[r] \in Seq(Sent)
    BY DEF IInv, Carried
  <1>2. Numbered(router) = PlainQueue(router)
    BY <1>1, MappedQueue
  <1>3. \A r \in Robot : Numbered(inbox[r]) = PlainQueue(inbox[r])
    BY <1>1, MappedQueue
  <1>4. ASSUME NEW r \in Robot PROVE NumbersIn(r) = known[r]
    <2>1. /\ DOMAIN Map(vm[r], Shared) = {q \in Robot : known[r][q] # 0}
          /\ \A q \in Robot : known[r][q] # 0 => Map(vm[r], Shared)[q] = written[q][known[r][q]]
      BY DEF IInv, MapsAreKnown
    <2>2. EntriesOf(vm[r]) = Map(vm[r], Shared)
      BY DEF EntriesOf, Map
    <2>3. known[r] \in [Robot -> Nat] /\ \A q \in Robot : known[r][q] <= stored[q] /\ stored[q] \in Nat
      BY DEF IInv, Places
    <2>4. ASSUME NEW q \in Robot PROVE NumbersIn(r)[q] = known[r][q]
      <3>1. CASE known[r][q] = 0
        BY <2>1, <2>2, <3>1 DEF NumbersIn
      <3>2. CASE known[r][q] # 0
        <4>1. known[r][q] \in 1 .. stored[q]
          BY <2>3, <3>2
        <4>2. NumberOf(q, known[r][q], EntriesOf(vm[r])[q]) = known[r][q]
          BY <2>1, <2>2, <3>2, <4>1 DEF NumberOf
        <4> QED
          BY <2>1, <2>2, <3>2, <4>2 DEF NumbersIn
      <3> QED
        BY <3>1, <3>2
    <2>5. NumbersIn(r) = [q \in Robot |-> NumbersIn(r)[q]]
      BY DEF NumbersIn
    <2> QED
      BY <2>3, <2>4, <2>5
  <1>5. known = [r \in Robot |-> known[r]]
    BY DEF IInv, Places
  <1> QED
    BY <1>2, <1>3, <1>4, <1>5 DEF Mapped

(* Queues as functions, which the next two lemmas need. *)
LEMMA QueueIsFunction ==
    ASSUME NEW S, NEW q \in Seq(S)
    PROVE  Len(q) \in Nat /\ DOMAIN q = 1 .. Len(q) /\ q = [i \in 1 .. Len(q) |-> q[i]]
  <1>1. q \in [1 .. Len(q) -> S] /\ Len(q) \in Nat
    BY LenProperties
  <1> QED
    BY <1>1

(* To send is to send. *)
LEMMA PlainAppend ==
    ASSUME NEW S, NEW q \in Seq(S), NEW m PROVE PlainQueue(Append(q, m)) = Append(PlainQueue(q), Plain(m))
  <1>1. q \in Seq(S \cup {m}) /\ Len(q) \in Nat /\ DOMAIN q = 1 .. Len(q)
    BY ShownAgain
  <1>2. /\ Len(Append(q, m)) = Len(q) + 1 /\ DOMAIN Append(q, m) = 1 .. Len(q) + 1
        /\ \A i \in 1 .. Len(q) : Append(q, m)[i] = q[i]
        /\ Append(q, m)[Len(q) + 1] = m
    BY <1>1
  <1>3. PlainQueue(q) \in Seq({Plain(x) : x \in S}) /\ Len(PlainQueue(q)) = Len(q)
    BY <1>1 DEF PlainQueue
  <1>4. PlainQueue(q) \in Seq({Plain(x) : x \in S} \cup {Plain(m)})
    BY <1>3, ShownAgain
  <1>5. /\ DOMAIN Append(PlainQueue(q), Plain(m)) = 1 .. Len(q) + 1
        /\ \A i \in 1 .. Len(q) : Append(PlainQueue(q), Plain(m))[i] = PlainQueue(q)[i]
        /\ Append(PlainQueue(q), Plain(m))[Len(q) + 1] = Plain(m)
        /\ Append(PlainQueue(q), Plain(m)) =
              [i \in 1 .. Len(q) + 1 |-> Append(PlainQueue(q), Plain(m))[i]]
    <2> DEFINE p == PlainQueue(q)
    <2> DEFINE x == Plain(m)
    <2> DEFINE T == {Plain(y) : y \in S} \cup {Plain(m)}
    <2>1. p \in Seq(T) /\ x \in T /\ Len(p) = Len(q)
      BY <1>3, <1>4
    <2> HIDE DEF p, x, T
    <2>2. /\ Append(p, x) \in Seq(T) /\ Len(Append(p, x)) = Len(p) + 1
          /\ \A i \in 1 .. Len(p) : Append(p, x)[i] = p[i]
          /\ Append(p, x)[Len(p) + 1] = x
      BY <2>1
    <2>3. /\ DOMAIN Append(p, x) = 1 .. Len(q) + 1
          /\ \A i \in 1 .. Len(q) : Append(p, x)[i] = p[i]
          /\ Append(p, x)[Len(q) + 1] = x
          /\ Append(p, x) = [i \in 1 .. Len(q) + 1 |-> Append(p, x)[i]]
      BY <2>1, <2>2, QueueIsFunction
    <2> QED
      BY <2>3 DEF p, x
  <1>6. ASSUME NEW i \in 1 .. Len(q) + 1
        PROVE  Plain(Append(q, m)[i]) = Append(PlainQueue(q), Plain(m))[i]
    <2>1. CASE i = Len(q) + 1
      BY <1>2, <1>5, <2>1
    <2>2. CASE i # Len(q) + 1
      <3>1. i \in 1 .. Len(q)
        BY <1>1, <2>2
      <3>2. PlainQueue(q)[i] = Plain(q[i])
        BY <1>1, <3>1 DEF PlainQueue
      <3>3. Append(q, m)[i] = q[i] /\ Append(PlainQueue(q), Plain(m))[i] = PlainQueue(q)[i]
        BY <1>2, <1>5, <3>1
      <3> QED
        BY <3>2, <3>3
    <2> QED
      BY <2>1, <2>2
  <1> QED
    BY <1>2, <1>5, <1>6 DEF PlainQueue

(* To take is to take. *)
LEMMA PlainTail ==
    ASSUME NEW S, NEW q \in Seq(S), q # <<>>
    PROVE  /\ PlainQueue(q) # <<>>
           /\ PlainQueue(Tail(q)) = Tail(PlainQueue(q))
           /\ Head(PlainQueue(q)) = Plain(Head(q))
  <1>1. /\ Tail(q) \in Seq(S) /\ Len(q) \in Nat \ {0} /\ Len(Tail(q)) = Len(q) - 1
        /\ \A i \in 1 .. Len(q) - 1 : Tail(q)[i] = q[i + 1]
        /\ Head(q) = q[1] /\ Head(q) \in S
    BY Taken
  <1>2. DOMAIN q = 1 .. Len(q)
    OBVIOUS
  <1>3. PlainQueue(q) \in Seq({Plain(x) : x \in S}) /\ Len(PlainQueue(q)) = Len(q)
    BY <1>1, <1>2 DEF PlainQueue
  <1>4. PlainQueue(q) # <<>>
    BY <1>1, <1>3
  <1>5. /\ Tail(PlainQueue(q)) \in Seq({Plain(x) : x \in S})
        /\ Len(Tail(PlainQueue(q))) = Len(q) - 1
        /\ \A i \in 1 .. Len(q) - 1 : Tail(PlainQueue(q))[i] = PlainQueue(q)[i + 1]
        /\ Head(PlainQueue(q)) = PlainQueue(q)[1]
    BY <1>3, <1>4, Taken
  <1>6. DOMAIN Tail(q) = 1 .. Len(q) - 1 /\ DOMAIN Tail(PlainQueue(q)) = 1 .. Len(q) - 1
        /\ Tail(PlainQueue(q)) = [i \in 1 .. Len(q) - 1 |-> Tail(PlainQueue(q))[i]]
    <2> DEFINE p == Tail(PlainQueue(q))
    <2> DEFINE T == {Plain(x) : x \in S}
    <2>1. p \in Seq(T) /\ Len(p) = Len(q) - 1
      BY <1>5
    <2> HIDE DEF p, T
    <2>2. DOMAIN p = 1 .. Len(q) - 1 /\ p = [i \in 1 .. Len(q) - 1 |-> p[i]]
      BY <2>1, QueueIsFunction
    <2>3. DOMAIN Tail(q) = 1 .. Len(q) - 1
      BY <1>1, QueueIsFunction
    <2> QED
      BY <2>2, <2>3 DEF p
  <1>7. ASSUME NEW i \in 1 .. Len(q) - 1 PROVE Plain(Tail(q)[i]) = Tail(PlainQueue(q))[i]
    <2>1. i + 1 \in DOMAIN q
      BY <1>1, <1>2
    <2>2. PlainQueue(q)[i + 1] = Plain(q[i + 1])
      BY <2>1 DEF PlainQueue
    <2> QED
      BY <1>1, <1>5, <2>2
  <1>8. PlainQueue(Tail(q)) = Tail(PlainQueue(q))
    BY <1>6, <1>7 DEF PlainQueue
  <1>9. Head(PlainQueue(q)) = Plain(Head(q))
    BY <1>1, <1>2, <1>5 DEF PlainQueue
  <1> QED
    BY <1>4, <1>8, <1>9

(* Steps of the abstract variable. *)
LEMMA RefinesInit == Init /\ Mapped => Abstract!Init
  <1> SUFFICES ASSUME Init, Mapped PROVE Abstract!Init
    OBVIOUS
  <1>1. PlainQueue(<<>>) = <<>>
    BY DEF PlainQueue
  <1> QED
    BY <1>1 DEF Init, NetInit, Mapped, Abstract!Init, Abstract!NetInit

(* Joining. *)
LEMMA RefinesRegister ==
    ASSUME Mapped, Mapped', NEW r \in Robot, Register(r) PROVE Abstract!Register(r)
  <1>1. UNCHANGED <<router, inbox, vm, at, stored, written, known, audience>>
    BY DEF Register, AddClient, history
  <1> QED
    BY <1>1 DEF Register, AddClient, Abstract!Register, Abstract!AddClient, Mapped, PlainQueue, Plain

(* An instruction that fails is nothing, one that does not is another      *)
(* instruction.                                                            *)
LEMMA RefinesInstruction ==
    ASSUME Mapped, Mapped', NEW r \in Robot, Instruction(r)
    PROVE  Abstract!OtherInstruction(r) \/ UNCHANGED Abstract!vars
  <1>1. PICK m : Run(r, m)
    BY DEF Instruction
  <1>2. UNCHANGED <<clients, router, inbox, stored, written, known, audience>>
    BY DEF Instruction, netVars, history
  <1>3. /\ Numbered(router)' = Numbered(router)
        /\ [q \in Robot |-> Numbered(inbox[q])]' = [q \in Robot |-> Numbered(inbox[q])]
        /\ [q \in Robot |-> NumbersIn(q)]' = [q \in Robot |-> NumbersIn(q)]
    BY <1>2 DEF Mapped, PlainQueue, Plain
  <1>4. CASE at' = at
    BY <1>2, <1>3, <1>4 DEF Abstract!vars, Abstract!netVars
  <1>5. CASE at' = [at EXCEPT ![r] = "check"]
    <2>1. r \in clients /\ at[r] = "instruction"
      BY DEF Instruction, AtInstruction
    <2> QED
      BY <1>2, <1>3, <1>5, <2>1 DEF Abstract!OtherInstruction, Abstract!netVars
  <1> QED
    BY <1>1, <1>4, <1>5 DEF Run

(* A look at an empty socket. *)
LEMMA RefinesNoMessage ==
    ASSUME Mapped, Mapped', NEW r \in Robot, NoMessage(r) PROVE Abstract!NoMessage(r)
  <1>1. UNCHANGED <<clients, router, inbox, stored, written, known, audience>>
    BY DEF NoMessage, netVars, history
  <1>2. /\ Numbered(router)' = Numbered(router)
        /\ [q \in Robot |-> Numbered(inbox[q])]' = [q \in Robot |-> Numbered(inbox[q])]
        /\ [q \in Robot |-> NumbersIn(q)]' = [q \in Robot |-> NumbersIn(q)]
    BY <1>1 DEF Mapped, PlainQueue, Plain
  <1>3. [q \in Robot |-> Numbered(inbox[q])][r] = <<>>
    BY DEF NoMessage, Numbered
  <1> QED
    BY <1>1, <1>2, <1>3 DEF NoMessage, EndStep, Abstract!NoMessage, Abstract!netVars

(* A store. *)
LEMMA RefinesStore ==
    ASSUME IInv, Mapped, Mapped', NEW r \in Robot, Store(r) PROVE Abstract!StoreStig(r)
  <1> DEFINE message == [robotID |-> r, name |-> Shared, data |-> Top(vm[r]).data,
                         store |-> stored[r] + 1]
  <1>1. /\ r \in clients /\ at[r] = "instruction"
        /\ at' = [at EXCEPT ![r] = "check"]
        /\ router' = Append(router, message)
        /\ stored' = [stored EXCEPT ![r] = @ + 1]
        /\ known' = [known EXCEPT ![r][r] = stored[r] + 1]
        /\ audience' = [audience EXCEPT ![r] = clients]
        /\ UNCHANGED <<clients, inbox>>
    BY StoreWrites DEF Store, AtInstruction, Run, Send
  <1>2. router \in Seq(Sent) /\ stored[r] \in Nat
    BY DEF IInv, Carried, Places
  <1>3. Numbered(router)' = Append(Numbered(router), Plain(message))
    BY <1>1, <1>2, PlainAppend DEF Mapped
  <1>4. Plain(message) = [robotID |-> r, data |-> stored[r] + 1]
    BY DEF Plain
  <1>5. [q \in Robot |-> Numbered(inbox[q])]' = [q \in Robot |-> Numbered(inbox[q])]
    <2>1. inbox' = inbox
      BY <1>1
    <2> QED
      BY <2>1 DEF Mapped, PlainQueue, Plain
  <1>6. [q \in Robot |-> NumbersIn(q)]' =
            [[q \in Robot |-> NumbersIn(q)] EXCEPT ![r] = [@ EXCEPT ![r] = stored[r] + 1]]
    BY <1>1 DEF Mapped
  <1>7. stored[r] # -1
    BY <1>2
  <1> QED
    BY <1>1, <1>3, <1>4, <1>5, <1>6, <1>7
    DEF Abstract!StoreStig, Abstract!Send, Abstract!MessageOf, Abstract!updateStigValue

(* An update. *)
LEMMA RefinesReceive ==
    ASSUME IInv, Mapped, Mapped', NEW r \in Robot, ReceiveUpdate(r) PROVE Abstract!UpdateStigValue(r)
  <1> DEFINE update == Head(inbox[r])
  <1> DEFINE queues == [q \in Robot |-> Numbered(inbox[q])]
  <1>1. /\ inbox' = [inbox EXCEPT ![r] = Tail(@)]
        /\ known' = [known EXCEPT ![r][update.robotID] = update.store]
        /\ at' = [at EXCEPT ![r] = "instruction"]
        /\ UNCHANGED <<clients, router, stored, audience>>
        /\ at[r] = "check"
    BY ReceiveWrites DEF ReceiveUpdate
  <1>2. inbox[r] # <<>> /\ inbox \in [Robot -> Seq(Sent)]
    BY DEF ReceiveUpdate, Receive, IInv, Carried
  <1>3. /\ queues[r] # <<>>
        /\ Head(queues[r]) = [robotID |-> update.robotID, data |-> update.store]
        /\ PlainQueue(Tail(inbox[r])) = Tail(queues[r])
    <2>1. queues[r] = PlainQueue(inbox[r])
      <3>1. queues = [q \in Robot |-> PlainQueue(inbox[q])]
        BY DEF Mapped
      <3> QED
        BY <3>1
    <2>2. inbox[r] \in Seq(Sent)
      BY <1>2
    <2>3. Plain(update) = [robotID |-> update.robotID, data |-> update.store]
      BY DEF Plain
    <2> HIDE DEF queues
    <2> QED
      BY <1>2, <2>1, <2>2, <2>3, PlainTail
  <1>4. queues' = [queues EXCEPT ![r] = Tail(@)]
    <2>1. queues = [q \in Robot |-> PlainQueue(inbox[q])]
      BY DEF Mapped
    <2>2. queues' = [q \in Robot |-> PlainQueue(inbox'[q])]
      BY DEF Mapped, PlainQueue
    <2> HIDE DEF queues
    <2> QED
      BY <1>1, <1>2, <1>3, <2>1, <2>2
  <1>5. Numbered(router)' = Numbered(router)
    BY <1>1 DEF Mapped, PlainQueue, Plain
  <1>6. [q \in Robot |-> NumbersIn(q)]' =
            [[q \in Robot |-> NumbersIn(q)] EXCEPT ![r] =
                [@ EXCEPT ![Head(queues[r]).robotID] = Head(queues[r]).data]]
    <2>1. Head(queues[r]).robotID = update.robotID /\ Head(queues[r]).data = update.store
      BY <1>3
    <2> HIDE DEF queues, update
    <2>2. known' = [known EXCEPT ![r] = [@ EXCEPT ![Head(queues[r]).robotID] = Head(queues[r]).data]]
      BY <1>1, <2>1
    <2> QED
      BY <2>2 DEF Mapped
  <1> QED
    BY <1>1, <1>3, <1>4, <1>5, <1>6
    DEF Abstract!UpdateStigValue, Abstract!Receive, Abstract!updateStigValue

(* The router. *)
LEMMA RefinesForward ==
    ASSUME IInv, Mapped, Mapped', RouterForward PROVE Abstract!RouterForward
  <1>1. /\ router # <<>> /\ router' = Tail(router)
        /\ inbox' = [r \in Robot |-> IF r \in clients THEN Append(inbox[r], Head(router))
                                     ELSE inbox[r]]
        /\ UNCHANGED <<clients, vm, at, stored, written, known, audience>>
    BY DEF RouterForward, Forward, history
  <1>2. router \in Seq(Sent) /\ \A r \in Robot : inbox[r] \in Seq(Sent)
    BY DEF IInv, Carried
  <1>3. /\ Numbered(router) # <<>>
        /\ Numbered(router)' = Tail(Numbered(router))
        /\ Head(Numbered(router)) = Plain(Head(router))
    BY <1>1, <1>2, PlainTail DEF Mapped
  <1> DEFINE queues == [q \in Robot |-> Numbered(inbox[q])]
  <1>4. queues' = [r \in Robot |-> IF r \in clients THEN Append(queues[r], Head(Numbered(router)))
                                   ELSE queues[r]]
    <2>1. queues = [q \in Robot |-> PlainQueue(inbox[q])]
      BY DEF Mapped
    <2>2. queues' = [q \in Robot |-> PlainQueue(inbox'[q])]
      BY DEF Mapped, PlainQueue
    <2>3. \A r \in Robot : PlainQueue(Append(inbox[r], Head(router)))
                              = Append(PlainQueue(inbox[r]), Plain(Head(router)))
      BY <1>2, PlainAppend
    <2> HIDE DEF queues
    <2> QED
      BY <1>1, <1>3, <2>1, <2>2, <2>3
  <1>5. [q \in Robot |-> NumbersIn(q)]' = [q \in Robot |-> NumbersIn(q)]
    BY <1>1 DEF Mapped
  <1> QED
    BY <1>1, <1>3, <1>4, <1>5 DEF Abstract!RouterForward, Abstract!Forward

(* Every step is a step of the variable or none. *)
LEMMA RefinesNext == IInv /\ Mapped /\ Mapped' /\ [Next]_vars => [Abstract!Next]_(Abstract!vars)
  <1> SUFFICES ASSUME IInv, Mapped, Mapped', [Next]_vars PROVE [Abstract!Next]_(Abstract!vars)
    OBVIOUS
  <1>1. CASE RouterForward
    BY <1>1, RefinesForward DEF Abstract!Next
  <1>2. ASSUME NEW r \in Robot, Register(r) PROVE Abstract!Next
    BY <1>2, RefinesRegister DEF Abstract!Next
  <1>3. ASSUME NEW r \in Robot, RobotStep(r) PROVE [Abstract!Next]_(Abstract!vars)
    BY <1>3, RefinesInstruction, RefinesStore, RefinesNoMessage, RefinesReceive
    DEF RobotStep, CheckForMessage, Abstract!Next, Abstract!CheckForMessage
  <1>4. CASE UNCHANGED vars
    <2>1. UNCHANGED <<clients, router, inbox, at, stored, written, known, audience>>
      BY <1>4 DEF vars, netVars, history
    <2> QED
      BY <2>1 DEF Abstract!vars, Abstract!netVars, Mapped, PlainQueue, Plain
  <1> QED
    BY <1>1, <1>2, <1>3, <1>4 DEF Next

(* The swarm of machines implements the stigmergy variable. *)
THEOREM SwarmImplementsStigmergy == Spec => ImplementsStigmergy
  BY Invariance, InvMapped, RefinesInit, RefinesNext, PTL DEF Spec, ImplementsStigmergy, Abstract!Spec

(* What has been proved of the variable holds of the machines' maps. *)
Proved ==
    INSTANCE StigmergyProofs WITH
        MaxStores <- -1,
        router <- Numbered(router),
        inbox <- [r \in Robot |-> Numbered(inbox[r])],
        stig <- [r \in Robot |-> NumbersIn(r)]

(* The definitions are the same. *)
LEMMA SameStep == [Abstract!Next]_(Abstract!vars) => [Proved!Next]_(Proved!vars)
  <1>1. UNCHANGED Abstract!vars => UNCHANGED Proved!vars
    BY DEF Abstract!vars, Proved!vars, Abstract!netVars, Proved!netVars
  <1>2. Abstract!RouterForward => Proved!RouterForward
    BY DEF Abstract!RouterForward, Proved!RouterForward, Abstract!Forward, Proved!Forward
  <1>3. ASSUME NEW r \in Robot
        PROVE  /\ Abstract!Register(r) => Proved!Register(r)
               /\ Abstract!StoreStig(r) => Proved!StoreStig(r)
               /\ Abstract!OtherInstruction(r) => Proved!OtherInstruction(r)
               /\ Abstract!CheckForMessage(r) => Proved!CheckForMessage(r)
    <2>1. Abstract!Register(r) => Proved!Register(r)
      BY DEF Abstract!Register, Proved!Register, Abstract!AddClient, Proved!AddClient
    <2>2. Abstract!StoreStig(r) => Proved!StoreStig(r)
      BY DEF Abstract!StoreStig, Proved!StoreStig, Abstract!Send, Proved!Send,
             Abstract!MessageOf, Proved!MessageOf, Abstract!updateStigValue, Proved!updateStigValue
    <2>3. Abstract!OtherInstruction(r) => Proved!OtherInstruction(r)
      BY DEF Abstract!OtherInstruction, Proved!OtherInstruction, Abstract!netVars, Proved!netVars
    <2>4. Abstract!CheckForMessage(r) => Proved!CheckForMessage(r)
      BY DEF Abstract!CheckForMessage, Proved!CheckForMessage, Abstract!NoMessage, Proved!NoMessage,
             Abstract!UpdateStigValue, Proved!UpdateStigValue, Abstract!Receive, Proved!Receive,
             Abstract!updateStigValue, Proved!updateStigValue, Abstract!netVars, Proved!netVars
    <2> QED
      BY <2>1, <2>2, <2>3, <2>4
  <1> QED
    BY <1>1, <1>2, <1>3 DEF Abstract!Next, Proved!Next

(* And so the specification is. *)
LEMMA SameSpecification == ImplementsStigmergy => Proved!Spec
  <1>1. Abstract!Init => Proved!Init
    BY DEF Abstract!Init, Proved!Init, Abstract!NetInit, Proved!NetInit
  <1> QED
    BY <1>1, SameStep, PTL DEF ImplementsStigmergy, Abstract!Spec, Proved!Spec

(* Every entry of a robot's map is what the robot it belongs to has stored *)
(* at that moment of its history: updateStigValue loses, mixes up and      *)
(* invents nothing, and what the code does with the map in between changes *)
(* nothing in it.                                                          *)
THEOREM EntriesAreWhatWasStored == Spec => []MapsAreKnown
  <1>1. IInv => MapsAreKnown
    BY DEF IInv
  <1> QED
    BY <1>1, Invariance, PTL

(* At every moment a robot that takes part either knows what another one   *)
(* has stored last or is about to be told, whatever the programs do.       *)
THEOREM EntriesKnownOrOnTheWay == Spec => []Abstract!KnownOrOnTheWay
  <1>1. Proved!KnownOrOnTheWay => Abstract!KnownOrOnTheWay
    BY DEF Proved!KnownOrOnTheWay, Abstract!KnownOrOnTheWay, Proved!Knows, Abstract!Knows,
           Proved!Waits, Abstract!Waits, Proved!Latest, Abstract!Latest,
           Proved!MessageOf, Abstract!MessageOf
  <1> QED
    BY <1>1, SwarmImplementsStigmergy, SameSpecification, Proved!EntriesKnownOrOnTheWay, PTL

(* What a robot's map says of another robot never becomes older and never  *)
(* goes away, whatever the programs do.                                    *)
OthersGoForward ==
    [][\A r \in Robot : \A q \in Robot \ {r} : known'[r][q] >= known[r][q]]_vars

(* It is so: known is what the abstract variable shows. *)
THEOREM OthersEntriesGoForward == Spec => OthersGoForward
  <1>1. ASSUME Proved!IInv, IInv, Mapped, Mapped', [Next]_vars,
               NEW r \in Robot, NEW q \in Robot \ {r}
        PROVE  known'[r][q] >= known[r][q]
    <2>1. [Abstract!Next]_(Abstract!vars)
      BY <1>1, RefinesNext
    <2>2. [Proved!Next]_(Proved!vars)
      BY <2>1, SameStep
    <2>3. [p \in Robot |-> NumbersIn(p)]'[r][q] >= [p \in Robot |-> NumbersIn(p)][r][q]
      BY <1>1, <2>2, Proved!OthersGoForward
    <2> QED
      BY <1>1, <2>3 DEF Mapped
  <1>2. Proved!IInv /\ IInv /\ Mapped /\ Mapped' /\ [Next]_vars
            => [\A r \in Robot : \A q \in Robot \ {r} : known'[r][q] >= known[r][q]]_vars
    BY <1>1
  <1>3. Spec => []Proved!IInv
    BY SwarmImplementsStigmergy, SameSpecification, Proved!Invariance, PTL
  <1> QED
    BY <1>2, <1>3, Invariance, InvMapped, PTL DEF Spec, OthersGoForward
==============================================================================
