---------------------------- MODULE CollectorProofs ----------------------------
(***************************************************************************)
(* The garbage collector frees nothing that a program can still reach, on  *)
(* every robot, whatever the programs do and whenever updates make         *)
(* closures run: but for lists of dependants, a machine holds indices of   *)
(* closures that are there.                                                *)
(*                                                                         *)
(* That is proved of programs that store no closure in the stigmergy       *)
(* variable: an index means nothing on another robot.                      *)
(***************************************************************************)
EXTENDS SwarmProofs

(* What may be sent: no closure. *)
Sendable == [type : DataType \ {"closure"}, v : Int]

(* What a datum may be when the closures with the indices in D are there. *)
Datum(D) == Sendable \cup [type : {"closure"}, v : D]

(* A map of a stigmergy variable. *)
EntryMap == UNION {[K -> Sendable] : K \in {S \in SUBSET Robot : IsFiniteSet(S)}}

(* A variable, when n closures have been made. *)
VariableOf(D, n) ==
    {v \in [data : Datum(D), isStigmergy : BOOLEAN, entries : EntryMap,
            iter : Nat \cup {End}, dependants : Seq(0 .. n - 1)] :
        v.iter \in DOMAIN v.entries \cup {End}}

(* A table of such variables, or another map into V. *)
IsMapTo(table, V) == table \in [DOMAIN table -> V]

(* The fields of a closure. *)
ClosureFields == {"template", "local", "dependants", "cachedValue"}

(* A closure that refers to closures that are there. *)
IsClosureOf(c, D, n) ==
    /\ DOMAIN c = ClosureFields
    /\ IsMapTo(c.local, VariableOf(D, n))
    /\ c.dependants \in Seq(0 .. n - 1)
    /\ c.cachedValue \in Datum(D)

(* Where the program counter may be: step() adds one to it. *)
Positions(p) == -1 .. BytecodeSize[p] - 1

(* A place to go on from: in the main program or in a closure that is there. *)
FrameOf(D, p) ==
    {f \in [scope : D \cup {GlobalScope}, pc : Positions(p), current : D] :
        f.scope \in {GlobalScope, f.current}}

(* The indices of the closures that are there. *)
Live(m) == DOMAIN m.closures

(* What the variables of a machine may be, and their data. *)
VariablesOf(m) == VariableOf(Live(m), m.head)

(* A machine that refers to closures that are there. *)
IsWhole(m) ==
    /\ IsRecord(m)
    /\ m.program \in Program
    /\ m.state \in {"ready", "done", "error"}
    /\ m.moved \in BOOLEAN
    /\ m.head \in Nat
    /\ m.closures \in [Live(m) -> Range(m.closures)]
    /\ Live(m) \subseteq Index(m)
    /\ \A i \in Live(m) : IsClosureOf(m.closures[i], Live(m), m.head)
    /\ IsMapTo(m.globals, VariablesOf(m))
    /\ IsMapTo(m.tagged, VariablesOf(m))
    /\ m.stack \in Seq(VariablesOf(m))
    /\ m.frames \in Seq(FrameOf(Live(m), m.program))
    /\ m.scope \in {GlobalScope, m.current}
    /\ m.current \in Live(m) \/ (m.head = 0 /\ m.scope = GlobalScope)

(* And stands at an instruction, or before one. *)
IsGood(m) == IsWhole(m) /\ m.pc \in Positions(m.program)

(* From m to n closures may be added, none is freed. *)
Becomes(m, n) ==
    /\ IsGood(n)
    /\ n.program = m.program
    /\ Live(m) \subseteq Live(n)
    /\ m.head <= n.head

------------------------------------------------------------------------------
(* With more closures there are more data, variables and places. *)
LEMMA Grows ==
    ASSUME NEW D, NEW E, D \subseteq E, NEW n \in Nat, NEW l \in Nat, n <= l, NEW p
    PROVE  /\ Datum(D) \subseteq Datum(E)
           /\ Seq(0 .. n - 1) \subseteq Seq(0 .. l - 1)
           /\ VariableOf(D, n) \subseteq VariableOf(E, l)
           /\ FrameOf(D, p) \subseteq FrameOf(E, p)
           /\ \A c : IsClosureOf(c, D, n) => IsClosureOf(c, E, l)
  <1>1. Datum(D) \subseteq Datum(E)
    BY DEF Datum
  <1>2. Seq(0 .. n - 1) \subseteq Seq(0 .. l - 1)
    <2>1. 0 .. n - 1 \subseteq 0 .. l - 1
      OBVIOUS
    <2> HIDE DEF Datum
    <2> QED
      BY <2>1, SeqMonotonic
  <1>3. VariableOf(D, n) \subseteq VariableOf(E, l)
    BY <1>1, <1>2 DEF VariableOf
  <1>4. FrameOf(D, p) \subseteq FrameOf(E, p)
    BY DEF FrameOf
  <1>5. ASSUME NEW c, IsClosureOf(c, D, n) PROVE IsClosureOf(c, E, l)
    BY <1>1, <1>2, <1>3, <1>5 DEF IsClosureOf, IsMapTo
  <1> QED
    BY <1>1, <1>2, <1>3, <1>4, <1>5

(* A map with another value. *)
LEMMA MapPut ==
    ASSUME NEW V, NEW t, IsMapTo(t, V), NEW x, NEW v \in V PROVE IsMapTo(Put(t, x, v), V)
  BY DEF IsMapTo, Put

(* A map on top of another one. *)
LEMMA MapAbove ==
    ASSUME NEW V, NEW t, NEW u, IsMapTo(t, V), IsMapTo(u, V) PROVE IsMapTo(Above(t, u), V)
  BY DEF IsMapTo, Above

(* What is in a map. *)
LEMMA MapHas ==
    ASSUME NEW V, NEW t, IsMapTo(t, V) PROVE \A x \in DOMAIN t : t[x] \in V
  BY DEF IsMapTo

(* A map of a stigmergy variable. *)
LEMMA EntryMaps ==
    /\ NoEntries \in EntryMap
    /\ \A e \in EntryMap :
          /\ DOMAIN e \subseteq Robot /\ IsFiniteSet(DOMAIN e)
          /\ \A k \in DOMAIN e : e[k] \in Sendable
          /\ \A id \in Robot : \A data \in Sendable : Put(e, id, data) \in EntryMap
  <1>1. NoEntries \in [{} -> Sendable]
    BY DEF NoEntries
  <1>2. ASSUME NEW e \in EntryMap
        PROVE  /\ DOMAIN e \subseteq Robot /\ IsFiniteSet(DOMAIN e)
               /\ \A k \in DOMAIN e : e[k] \in Sendable
               /\ \A id \in Robot : \A data \in Sendable : Put(e, id, data) \in EntryMap
    <2>1. PICK K \in {S \in SUBSET Robot : IsFiniteSet(S)} : e \in [K -> Sendable]
      BY DEF EntryMap
    <2>2. \A id \in Robot : \A data \in Sendable : Put(e, id, data) \in [K \cup {id} -> Sendable]
      BY <2>1 DEF Put
    <2>3. \A id \in Robot : \A data \in Sendable : Put(e, id, data) \in EntryMap
      <3> SUFFICES ASSUME NEW id \in Robot, NEW data \in Sendable PROVE Put(e, id, data) \in EntryMap
        OBVIOUS
      <3>1. K \cup {id} \in SUBSET Robot /\ Put(e, id, data) \in [K \cup {id} -> Sendable]
        BY <2>2
      <3>2. IsFiniteSet(K \cup {id})
        BY FS_AddElement
      <3> QED
        BY <3>1, <3>2 DEF EntryMap
    <2> QED
      BY <2>1, <2>3
  <1>3. IsFiniteSet({})
    BY FS_EmptySet
  <1> QED
    BY <1>1, <1>2, <1>3 DEF EntryMap

(* What a variable is made of. *)
LEMMA VariableHas ==
    ASSUME NEW D, NEW n, NEW v \in VariableOf(D, n)
    PROVE  /\ DOMAIN v = VariableFields
           /\ v.data \in Datum(D) /\ v.isStigmergy \in BOOLEAN
           /\ v.entries \in EntryMap
           /\ DOMAIN v.entries \subseteq Nat /\ IsFiniteSet(DOMAIN v.entries)
           /\ \A k \in DOMAIN v.entries : v.entries[k] \in Sendable
           /\ v.iter \in DOMAIN v.entries \cup {End}
           /\ v.dependants \in Seq(0 .. n - 1)
  <1>1. v \in [data : Datum(D), isStigmergy : BOOLEAN, entries : EntryMap,
               iter : Nat \cup {End}, dependants : Seq(0 .. n - 1)]
        /\ v.iter \in DOMAIN v.entries \cup {End}
    BY DEF VariableOf
  <1>2. DOMAIN v = VariableFields
    BY <1>1 DEF VariableFields
  <1> QED
    BY <1>1, <1>2, EntryMaps, RobotAssumption

(* Small data. *)
LEMMA SmallData ==
    ASSUME NEW D
    PROVE  /\ Sendable \subseteq Datum(D)
           /\ \A i \in Int : IntData(i) \in Sendable
           /\ Nil \in Sendable
           /\ \A p : Truth(p) \in Sendable
           /\ \A name : CFunction(name) \in Sendable
           /\ \A i \in D : ClosureData(i) \in Datum(D)
           /\ \A d \in Datum(D) : d.type = "closure" => d.v \in D
  BY DEF Sendable, Datum, DataType, IntData, Nil, Truth, CFunction, ClosureData

(* Variables that are made, and changed. *)
LEMMA MadeVariables ==
    ASSUME NEW D, NEW n
    PROVE  /\ \A d \in Datum(D) : Variable(d) \in VariableOf(D, n)
           /\ \A v \in VariableOf(D, n) : \A d \in Datum(D) : Mutated(v, d) \in VariableOf(D, n)
           /\ \A v \in VariableOf(D, n) : \A i \in 0 .. n - 1 : AddDependant(v, i) \in VariableOf(D, n)
           /\ \A v \in VariableOf(D, n) : \A k \in DOMAIN v.entries \cup {End} :
                 [v EXCEPT !.iter = k] \in VariableOf(D, n)
           /\ \A v \in VariableOf(D, n) : \A id \in Robot : \A d \in Sendable :
                 updateStigValue(v, id, d) \in VariableOf(D, n)
  <1> DEFINE S == [data : Datum(D), isStigmergy : BOOLEAN, entries : EntryMap,
                   iter : Nat \cup {End}, dependants : Seq(0 .. n - 1)]
  <1>1. \A d \in Datum(D) : Variable(d) \in VariableOf(D, n)
    <2>1. <<>> \in Seq(0 .. n - 1)
      OBVIOUS
    <2> QED
      BY <2>1, EntryMaps DEF Variable, VariableOf
  <1>2. \A v \in VariableOf(D, n) : \A d \in Datum(D) : Mutated(v, d) \in VariableOf(D, n)
    BY DEF Mutated, VariableOf
  <1>3. ASSUME NEW v \in VariableOf(D, n), NEW i \in 0 .. n - 1
        PROVE  AddDependant(v, i) \in VariableOf(D, n)
    <2>1. Append(v.dependants, i) \in Seq(0 .. n - 1)
      BY VariableHas, AppendProperties
    <2> QED
      BY <2>1 DEF AddDependant, VariableOf
  <1>4. ASSUME NEW v \in VariableOf(D, n), NEW k \in DOMAIN v.entries \cup {End}
        PROVE  [v EXCEPT !.iter = k] \in VariableOf(D, n)
    BY VariableHas DEF VariableOf
  <1>5. ASSUME NEW v \in VariableOf(D, n), NEW id \in Robot, NEW d \in Sendable
        PROVE  updateStigValue(v, id, d) \in VariableOf(D, n)
    <2>0. v.entries \in EntryMap
      BY VariableHas
    <2>1. Put(v.entries, id, d) \in EntryMap /\ DOMAIN v.entries \subseteq DOMAIN Put(v.entries, id, d)
      <3>1. Put(v.entries, id, d) \in EntryMap
        BY <2>0, EntryMaps
      <3>2. DOMAIN v.entries \subseteq DOMAIN Put(v.entries, id, d)
        BY DEF Put
      <3> QED
        BY <3>1, <3>2
    <2>2. [type |-> d.type, v |-> 0] \in Datum(D)
      BY DEF Datum, Sendable
    <2> DEFINE w == updateStigValue(v, id, d)
    <2>3. v \in S /\ v.iter \in DOMAIN v.entries \cup {End}
      BY DEF VariableOf
    <2>4. /\ w = [v EXCEPT !.data = [type |-> d.type, v |-> 0], !.entries = Put(v.entries, id, d)]
      BY DEF updateStigValue
    <2> HIDE DEF w
    <2>5. w \in S /\ w.iter = v.iter /\ w.entries = Put(v.entries, id, d)
      BY <2>1, <2>2, <2>3, <2>4
    <2>6. w.iter \in DOMAIN w.entries \cup {End}
      BY <2>1, <2>3, <2>5
    <2>7. w \in VariableOf(D, n)
      BY <2>5, <2>6 DEF VariableOf
    <2> QED
      BY <2>7 DEF w
  <1> QED
    BY <1>1, <1>2, <1>3, <1>4, <1>5

(* The iterator of a map stands at a key or at the end. *)
LEMMA Iterators ==
    ASSUME NEW D, NEW n
    PROVE  /\ \A v \in VariableOf(D, n) : resetIter(v) \in VariableOf(D, n)
           /\ \A v \in VariableOf(D, n) :
                 [v EXCEPT !.iter = Following(v.entries, v.iter)] \in VariableOf(D, n)
           /\ \A id \in Robot : \A d \in Sendable : NewStig(id, d) \in VariableOf(D, n)
  <1>1. ASSUME NEW e, DOMAIN e \subseteq Nat PROVE Begin(e) \in DOMAIN e \cup {End}
    BY <1>1, MinIsThere DEF Begin
  <1>2. ASSUME NEW e, DOMAIN e \subseteq Nat, NEW k PROVE Following(e, k) \in DOMAIN e \cup {End}
    <2> DEFINE later == {x \in DOMAIN e : x > k}
    <2>1. later \subseteq Nat /\ later \subseteq DOMAIN e
      BY <1>2
    <2> HIDE DEF later
    <2>2. later # {} => Min(later) \in later
      BY <2>1, MinIsThere
    <2> QED
      BY <2>1, <2>2 DEF Following, later
  <1>3. \A v \in VariableOf(D, n) : resetIter(v) \in VariableOf(D, n)
    BY <1>1, VariableHas, MadeVariables DEF resetIter
  <1>4. \A v \in VariableOf(D, n) :
           [v EXCEPT !.iter = Following(v.entries, v.iter)] \in VariableOf(D, n)
    BY <1>2, VariableHas, MadeVariables
  <1>5. ASSUME NEW id \in Robot, NEW d \in Sendable PROVE NewStig(id, d) \in VariableOf(D, n)
    <2> DEFINE e == Put(NoEntries, id, d)
    <2>1. e \in EntryMap /\ DOMAIN e \subseteq Nat
      BY EntryMaps, RobotAssumption
    <2>2. Begin(e) \in DOMAIN e \cup {End} /\ Begin(e) \in Nat \cup {End}
      BY <1>1, <2>1
    <2>3. Variable(Nil) \in VariableOf(D, n)
      BY SmallData, MadeVariables
    <2> HIDE DEF e
    <2>4. [Variable(Nil) EXCEPT !.isStigmergy = TRUE, !.entries = e, !.iter = Begin(e)]
              \in VariableOf(D, n)
      BY <2>1, <2>2, <2>3 DEF VariableOf
    <2> QED
      BY <2>4 DEF NewStig, e
  <1> QED
    BY <1>3, <1>4, <1>5

------------------------------------------------------------------------------
(* A machine after two changes. *)
LEMMA BecomesAgain ==
    ASSUME NEW l, IsGood(l), NEW m, Becomes(l, m), NEW n, Becomes(m, n) PROVE Becomes(l, n)
  BY DEF Becomes, IsGood, IsWhole

(* What a machine refers to it may still refer to after a change. *)
LEMMA GrowsAlong ==
    ASSUME NEW m, IsGood(m), NEW n, Becomes(m, n)
    PROVE  /\ Datum(Live(m)) \subseteq Datum(Live(n))
           /\ VariablesOf(m) \subseteq VariablesOf(n)
           /\ FrameOf(Live(m), m.program) \subseteq FrameOf(Live(n), n.program)
           /\ Index(m) \subseteq Index(n)
           /\ \A c : IsClosureOf(c, Live(m), m.head) => IsClosureOf(c, Live(n), n.head)
  <1>1. m.head \in Nat /\ n.head \in Nat /\ m.head <= n.head
        /\ Live(m) \subseteq Live(n) /\ n.program = m.program
    BY DEF Becomes, IsGood, IsWhole
  <1>2. /\ Datum(Live(m)) \subseteq Datum(Live(n))
        /\ VariableOf(Live(m), m.head) \subseteq VariableOf(Live(n), n.head)
        /\ FrameOf(Live(m), m.program) \subseteq FrameOf(Live(n), m.program)
        /\ \A c : IsClosureOf(c, Live(m), m.head) => IsClosureOf(c, Live(n), n.head)
    BY <1>1, Grows
  <1>3. Index(m) \subseteq Index(n)
    BY <1>1 DEF Index
  <1> QED
    BY <1>1, <1>2, <1>3 DEF VariablesOf

(* The ways in which the handlers change a machine. *)
LEMMA Setters ==
    ASSUME NEW m, IsGood(m)
    PROVE  /\ Becomes(m, m)
           /\ Becomes(m, Fail(m))
           /\ \A v \in VariablesOf(m) : Becomes(m, PushVariable(m, v))
           /\ \A d \in Datum(Live(m)) : Becomes(m, Push(m, d))
           /\ \A n \in Nat : Becomes(m, Pop(m, n))
           /\ \A v \in VariablesOf(m) : \A name : Becomes(m, SetGlobal(m, name, v))
           /\ \A v \in VariablesOf(m) : \A name : Becomes(m, SetTagged(m, name, v))
           /\ \A f \in FrameOf(Live(m), m.program) : Becomes(m, Enter(m, f))
           /\ \A q \in Seq(FrameOf(Live(m), m.program)) : Becomes(m, [m EXCEPT !.frames = q])
           /\ \A pc \in Positions(m.program) : Becomes(m, [m EXCEPT !.pc = pc])
           /\ \A b \in BOOLEAN : Becomes(m, [m EXCEPT !.moved = b])
           /\ Becomes(m, [m EXCEPT !.state = "done"])
  <1> USE DEF IsGood, IsWhole, IsRecord, Fields, Live, Index, VariablesOf, Becomes
  <1>1. /\ Becomes(m, m) /\ Becomes(m, Fail(m))
        /\ \A pc \in Positions(m.program) : Becomes(m, [m EXCEPT !.pc = pc])
        /\ \A b \in BOOLEAN : Becomes(m, [m EXCEPT !.moved = b])
        /\ Becomes(m, [m EXCEPT !.state = "done"])
    BY DEF Fail
  <1>2. \A v \in VariablesOf(m) : Becomes(m, PushVariable(m, v))
    <2> SUFFICES ASSUME NEW v \in VariablesOf(m) PROVE Becomes(m, PushVariable(m, v))
      OBVIOUS
    <2>1. Append(m.stack, v) \in Seq(VariablesOf(m))
      BY AppendProperties
    <2> QED
      BY <2>1 DEF PushVariable
  <1>3. \A d \in Datum(Live(m)) : Becomes(m, Push(m, d))
    BY <1>2, MadeVariables DEF Push
  <1>4. ASSUME NEW n \in Nat PROVE Becomes(m, Pop(m, n))
    <2>1. Len(m.stack) \in Nat /\ \A i \in 1 .. Len(m.stack) : m.stack[i] \in VariablesOf(m)
      BY LenProperties, ElementOfSeq
    <2>2. SubSeq(m.stack, 1, Len(m.stack) - n) \in Seq(VariablesOf(m))
      BY <2>1, SubSeqProperties
    <2> QED
      BY <2>2 DEF Pop
  <1>5. \A v \in VariablesOf(m) : \A name : Becomes(m, SetGlobal(m, name, v))
    BY MapPut DEF SetGlobal
  <1>6. \A v \in VariablesOf(m) : \A name : Becomes(m, SetTagged(m, name, v))
    BY MapPut DEF SetTagged
  <1>7. \A f \in FrameOf(Live(m), m.program) : Becomes(m, Enter(m, f))
    BY DEF Enter, FrameOf
  <1>8. \A q \in Seq(FrameOf(Live(m), m.program)) : Becomes(m, [m EXCEPT !.frames = q])
    OBVIOUS
  <1> QED
    BY <1>1, <1>2, <1>3, <1>4, <1>5, <1>6, <1>7, <1>8

(* A closure is changed. *)
LEMMA SetClosure ==
    ASSUME NEW m, IsGood(m), NEW i \in Live(m), NEW c, IsClosureOf(c, Live(m), m.head)
    PROVE  Becomes(m, [m EXCEPT !.closures[i] = c])
  <1> DEFINE n == [m EXCEPT !.closures[i] = c]
  <1>1. /\ IsRecord(n) /\ Live(n) = Live(m) /\ n.head = m.head
        /\ \A j \in Live(m) : n.closures[j] = IF j = i THEN c ELSE m.closures[j]
        /\ n.closures \in [Live(n) -> Range(n.closures)]
        /\ n.program = m.program /\ n.state = m.state /\ n.moved = m.moved
        /\ n.globals = m.globals /\ n.tagged = m.tagged /\ n.stack = m.stack
        /\ n.frames = m.frames /\ n.scope = m.scope /\ n.current = m.current /\ n.pc = m.pc
    BY DEF IsGood, IsWhole, IsRecord, Fields, Live, Range
  <1> HIDE DEF n
  <1>2. \A j \in Live(n) : IsClosureOf(n.closures[j], Live(n), n.head)
    BY <1>1 DEF IsGood, IsWhole
  <1>3. IsGood(n)
    BY <1>1, <1>2 DEF IsGood, IsWhole, VariablesOf, Index
  <1>4. Becomes(m, n)
    BY <1>1, <1>3 DEF Becomes, IsGood, IsWhole
  <1> QED
    BY <1>4 DEF n

(* What a closure becomes. *)
LEMMA ChangedClosures ==
    ASSUME NEW D, NEW n, NEW c, IsClosureOf(c, D, n)
    PROVE  /\ \A t : IsMapTo(t, VariableOf(D, n)) => IsClosureOf([c EXCEPT !.local = t], D, n)
           /\ \A d \in Datum(D) : IsClosureOf([c EXCEPT !.cachedValue = d], D, n)
           /\ \A i \in 0 .. n - 1 : IsClosureOf(AddDependant(c, i), D, n)
  <1>1. \A t : IsMapTo(t, VariableOf(D, n)) => IsClosureOf([c EXCEPT !.local = t], D, n)
    BY DEF IsClosureOf, ClosureFields
  <1>2. \A d \in Datum(D) : IsClosureOf([c EXCEPT !.cachedValue = d], D, n)
    BY DEF IsClosureOf, ClosureFields
  <1>3. \A i \in 0 .. n - 1 : IsClosureOf(AddDependant(c, i), D, n)
    BY AppendProperties DEF IsClosureOf, ClosureFields, AddDependant
  <1> QED
    BY <1>1, <1>2, <1>3

(* The tables a name is looked up in. *)
LEMMA TablesHave ==
    ASSUME NEW m, IsGood(m)
    PROVE  /\ IsMapTo(Locals(m), VariablesOf(m))
           /\ m.scope # GlobalScope => m.scope \in Live(m)
           /\ \A name : IsDefined(m, name) => findVariable(m, name) \in VariablesOf(m)
  <1>1. m.scope # GlobalScope => m.scope \in Live(m)
    BY DEF IsGood, IsWhole
  <1>2. IsMapTo(Locals(m), VariablesOf(m))
    BY <1>1 DEF IsGood, IsWhole, Locals, IsClosureOf, VariablesOf
  <1>3. IsMapTo(m.globals, VariablesOf(m)) /\ IsMapTo(m.tagged, VariablesOf(m))
    BY DEF IsGood, IsWhole
  <1> QED
    BY <1>1, <1>2, <1>3, MapHas DEF IsDefined, findVariable

(* A variable of the scope is set. *)
LEMMA LocalSetter ==
    ASSUME NEW m, IsGood(m), NEW v \in VariablesOf(m), NEW name
    PROVE  Becomes(m, SetLocal(m, name, v))
  <1>1. CASE m.scope = GlobalScope
    <2>1. SetLocal(m, name, v) = SetGlobal(m, name, v)
      BY <1>1 DEF SetLocal, SetGlobal
    <2>2. Becomes(m, SetGlobal(m, name, v))
      BY Setters
    <2> QED
      BY <2>1, <2>2
  <1>2. CASE m.scope # GlobalScope
    <2> DEFINE c == m.closures[m.scope]
    <2> DEFINE d == [c EXCEPT !.local = Put(c.local, name, v)]
    <2>1. m.scope \in Live(m) /\ IsClosureOf(c, Live(m), m.head)
      BY <1>2, TablesHave DEF IsGood, IsWhole
    <2>2. IsMapTo(Put(c.local, name, v), VariablesOf(m))
      BY <2>1, MapPut DEF IsClosureOf, VariablesOf
    <2>3. IsClosureOf(d, Live(m), m.head)
      BY <2>1, <2>2, ChangedClosures DEF VariablesOf
    <2>4. SetLocal(m, name, v) = [m EXCEPT !.closures[m.scope] = d]
      BY <1>2 DEF SetLocal
    <2> HIDE DEF d
    <2> QED
      BY <2>1, <2>3, <2>4, SetClosure
  <1> QED
    BY <1>1, <1>2

(* A variable is set where it was found. *)
LEMMA FoundSetter ==
    ASSUME NEW m, IsGood(m), NEW v \in VariablesOf(m), NEW name
    PROVE  Becomes(m, SetFound(m, name, v))
  BY Setters, LocalSetter DEF SetFound

(* Closures are looked up, and those that are not there are made. *)
LEMMA Toucher ==
    ASSUME NEW m, IsGood(m), NEW s, s \subseteq Index(m)
    PROVE  /\ Becomes(m, Touch(m, s))
           /\ Live(Touch(m, s)) = Live(m) \cup s
           /\ Touch(m, s).head = m.head /\ Touch(m, s).frames = m.frames
           /\ Touch(m, s).program = m.program
  <1> DEFINE n == Touch(m, s)
  <1> DEFINE D == Live(m) \cup s
  <1>1. /\ IsRecord(n) /\ n.head = m.head
        /\ n.closures = Above(m.closures, [i \in s |-> Closure(NoTemplate)])
        /\ n.program = m.program /\ n.state = m.state /\ n.moved = m.moved
        /\ n.globals = m.globals /\ n.tagged = m.tagged /\ n.stack = m.stack
        /\ n.frames = m.frames /\ n.scope = m.scope /\ n.current = m.current /\ n.pc = m.pc
    BY DEF IsGood, IsWhole, IsRecord, Fields, Touch
  <1> HIDE DEF n
  <1>2. /\ Live(n) = D
        /\ \A i \in D : n.closures[i] = IF i \in Live(m) THEN m.closures[i] ELSE Closure(NoTemplate)
        /\ n.closures \in [Live(n) -> Range(n.closures)]
    BY <1>1 DEF Above, Live, Range
  <1> HIDE DEF D
  <1>3. /\ m.head \in Nat /\ Live(m) \subseteq D /\ D \subseteq Index(m)
        /\ \A i \in Live(m) : IsClosureOf(m.closures[i], Live(m), m.head)
        /\ IsMapTo(m.globals, VariablesOf(m)) /\ IsMapTo(m.tagged, VariablesOf(m))
        /\ m.stack \in Seq(VariablesOf(m))
        /\ m.frames \in Seq(FrameOf(Live(m), m.program))
    BY DEF IsGood, IsWhole, D
  <1>4. /\ VariablesOf(m) \subseteq VariablesOf(n)
        /\ FrameOf(Live(m), m.program) \subseteq FrameOf(Live(n), n.program)
        /\ \A c : IsClosureOf(c, Live(m), m.head) => IsClosureOf(c, Live(n), n.head)
    <2>1. n.head \in Nat /\ m.head <= n.head /\ Live(m) \subseteq Live(n) /\ n.program = m.program
      BY <1>1, <1>2, <1>3
    <2>2. /\ VariableOf(Live(m), m.head) \subseteq VariableOf(Live(n), n.head)
          /\ FrameOf(Live(m), m.program) \subseteq FrameOf(Live(n), m.program)
          /\ \A c : IsClosureOf(c, Live(m), m.head) => IsClosureOf(c, Live(n), n.head)
      BY <1>3, <2>1, Grows
    <2> QED
      BY <2>1, <2>2 DEF VariablesOf
  <1>5. IsClosureOf(Closure(NoTemplate), Live(n), n.head)
    <2>1. IsMapTo(NoVariables, VariableOf(Live(n), n.head))
      BY DEF IsMapTo, NoVariables
    <2>2. <<>> \in Seq(0 .. n.head - 1) /\ Nil \in Datum(Live(n))
      BY SmallData
    <2> QED
      BY <2>1, <2>2 DEF IsClosureOf, Closure, ClosureFields
  <1>6. \A i \in Live(n) : IsClosureOf(n.closures[i], Live(n), n.head)
    BY <1>2, <1>3, <1>4, <1>5
  <1>7. IsMapTo(n.globals, VariablesOf(n)) /\ IsMapTo(n.tagged, VariablesOf(n))
    BY <1>1, <1>3, <1>4 DEF IsMapTo
  <1>8. n.stack \in Seq(VariablesOf(n)) /\ n.frames \in Seq(FrameOf(Live(n), n.program))
    BY <1>1, <1>3, <1>4, SeqMonotonic
  <1>9. IsGood(n)
    BY <1>1, <1>2, <1>3, <1>6, <1>7, <1>8 DEF IsGood, IsWhole, Index
  <1>10. Becomes(m, n)
    BY <1>1, <1>2, <1>3, <1>9 DEF Becomes
  <1> QED
    BY <1>1, <1>2, <1>10 DEF n, D

------------------------------------------------------------------------------
(* What is on the operand stack, and what the closures have returned. *)
LEMMA StackHas ==
    ASSUME NEW m, IsGood(m)
    PROVE  /\ Depth(m) \in Nat
           /\ \A i \in 1 .. Depth(m) : m.stack[i] \in VariablesOf(m)
           /\ Depth(m) # 0 => Top(m) \in VariablesOf(m) /\ Top(m).data \in Datum(Live(m))
           /\ Depth(m) >= 2 => Second(m) \in VariablesOf(m) /\ Second(m).data \in Datum(Live(m))
           /\ \A i \in Live(m) : m.closures[i].cachedValue \in Datum(Live(m))
  <1>1. m.stack \in Seq(VariablesOf(m))
    BY DEF IsGood, IsWhole
  <1>2. Len(m.stack) \in Nat /\ \A i \in 1 .. Len(m.stack) : m.stack[i] \in VariablesOf(m)
    BY <1>1, LenProperties, ElementOfSeq
  <1>3. Depth(m) # 0 => Top(m) \in VariablesOf(m)
    BY <1>2 DEF Depth, Top, Last
  <1>4. Depth(m) >= 2 => Second(m) \in VariablesOf(m)
    BY <1>2 DEF Depth, Second
  <1>5. \A v \in VariablesOf(m) : v.data \in Datum(Live(m))
    BY VariableHas DEF VariablesOf
  <1>6. \A i \in Live(m) : m.closures[i].cachedValue \in Datum(Live(m))
    BY DEF IsGood, IsWhole, IsClosureOf
  <1> QED
    BY <1>2, <1>3, <1>4, <1>5, <1>6 DEF Depth

(* Data of a machine are data. *)
LEMMA MachineData ==
    ASSUME NEW m, IsGood(m)
    PROVE  /\ Datum(Live(m)) \subseteq Data
           /\ IsFiniteSet(Live(m))
           /\ CachedValues(m) \in [DOMAIN CachedValues(m) -> Data]
           /\ IsFiniteSet(DOMAIN CachedValues(m))
  <1>1. Live(m) \subseteq 0 .. m.head - 1 /\ m.head \in Nat
    BY DEF IsGood, IsWhole, Index
  <1>2. Datum(Live(m)) \subseteq Data
    BY <1>1 DEF Datum, Sendable, Data, DataType
  <1>3. IsFiniteSet(0 .. m.head - 1)
    BY <1>1, FS_Interval
  <1>4. IsFiniteSet(Live(m))
    BY <1>1, <1>3, FS_Subset
  <1>5. \A i \in Live(m) : m.closures[i].cachedValue \in Data
    BY <1>2, StackHas
  <1> QED
    BY <1>2, <1>4, <1>5 DEF CachedValues, Live

(* Something is taken off the stack, something else is pushed. *)
LEMMA Popped ==
    ASSUME NEW m, IsGood(m), NEW n \in Nat
    PROVE  /\ IsGood(Pop(m, n)) /\ Becomes(m, Pop(m, n))
           /\ Live(Pop(m, n)) = Live(m) /\ VariablesOf(Pop(m, n)) = VariablesOf(m)
           /\ \A v \in VariablesOf(m) : Becomes(m, PushVariable(Pop(m, n), v))
           /\ \A d \in Datum(Live(m)) : Becomes(m, Push(Pop(m, n), d))
  <1>1. Becomes(m, Pop(m, n)) /\ IsGood(Pop(m, n))
    BY Setters DEF Becomes
  <1>2. Live(Pop(m, n)) = Live(m) /\ VariablesOf(Pop(m, n)) = VariablesOf(m)
    BY DEF Pop, Live, VariablesOf, IsGood, IsWhole, IsRecord, Fields
  <1>3. /\ \A v \in VariablesOf(m) : Becomes(Pop(m, n), PushVariable(Pop(m, n), v))
        /\ \A d \in Datum(Live(m)) : Becomes(Pop(m, n), Push(Pop(m, n), d))
    BY <1>1, <1>2, Setters
  <1> QED
    BY <1>1, <1>2, <1>3, BecomesAgain

(* A binary instruction pushes a number. *)
LEMMA BinaryIsGood ==
    ASSUME NEW m, IsGood(m), NEW op \in BinaryInstruction PROVE Becomes(m, BinaryOnStack(m, op))
  <1> DEFINE result == Binary(op, Top(m).data, Second(m).data, CachedValues(m))
  <1>1. CASE Depth(m) < 2 \/ ~ AreOperands(op, Top(m), Second(m)) \/ result = Error
    <2>1. BinaryOnStack(m, op) = Fail(m)
      BY <1>1 DEF BinaryOnStack
    <2> QED
      BY <2>1, Setters
  <1>2. CASE ~ (Depth(m) < 2 \/ ~ AreOperands(op, Top(m), Second(m)) \/ result = Error)
    <2>1. BinaryOnStack(m, op) = Push(Pop(m, 2), result)
      BY <1>2 DEF BinaryOnStack
    <2>2. Depth(m) # 0 /\ Depth(m) >= 2
      BY <1>2, StackHas
    <2>3. Top(m).data \in Data /\ Second(m).data \in Data
      BY <2>2, StackHas, MachineData
    <2>4. result \in Result
      BY <2>3, MachineData, BinaryResult
    <2>5. result \in Datum(Live(m))
      BY <1>2, <2>4 DEF Result, Datum, Sendable, DataType
    <2> HIDE DEF result
    <2> QED
      BY <2>1, <2>5, Popped
  <1> QED
    BY <1>1, <1>2

(* The instructions that push something, or a copy of something. *)
LEMMA OperandsAreGood ==
    ASSUME NEW m, IsGood(m)
    PROVE  /\ Becomes(m, swap(m)) /\ Becomes(m, dup(m)) /\ Becomes(m, pop(m))
           /\ Becomes(m, isNil(m)) /\ Becomes(m, uncache(m))
           /\ \A name : Becomes(m, loadToStack(m, name))
           /\ \A name : Becomes(m, tagVariable(m, name))
           /\ \A name : Becomes(m, stigSize(m, name))
           /\ \A name : Becomes(m, isIterAtEnd(m, name))
           /\ \A name : Becomes(m, callCClosure(m, name))
  <1>1. Becomes(m, m) /\ Becomes(m, Fail(m))
    BY Setters
  <1>2. \A d \in Sendable : Becomes(m, Push(m, d))
    BY Setters, SmallData
  <1>3. Becomes(m, swap(m))
    <2>1. CASE Depth(m) < 2
      BY <1>1, <2>1 DEF swap
    <2>2. CASE ~ Depth(m) < 2
      <3>1. Top(m) \in VariablesOf(m) /\ Second(m) \in VariablesOf(m)
        BY <2>2, StackHas
      <3> DEFINE n == PushVariable(Pop(m, 2), Top(m))
      <3>2. Becomes(m, n) /\ IsGood(n)
        BY <3>1, Popped DEF Becomes
      <3>3. swap(m) = PushVariable(n, Second(m))
        BY <2>2 DEF swap
      <3> HIDE DEF n
      <3>4. Second(m) \in VariablesOf(n)
        BY <3>1, <3>2, GrowsAlong
      <3>5. Becomes(n, PushVariable(n, Second(m)))
        BY <3>2, <3>4, Setters
      <3> QED
        BY <3>2, <3>3, <3>5, BecomesAgain
    <2> QED
      BY <2>1, <2>2
  <1>4. Becomes(m, dup(m)) /\ Becomes(m, pop(m))
    <2>1. Depth(m) # 0 => Becomes(m, PushVariable(m, Top(m)))
      BY StackHas, Setters
    <2>2. Becomes(m, Pop(m, 1))
      BY Setters
    <2> QED
      BY <1>1, <2>1, <2>2 DEF dup, pop
  <1>5. Becomes(m, isNil(m))
    BY <1>1, <1>2, SmallData DEF isNil
  <1>6. Becomes(m, uncache(m))
    <2>1. CASE Depth(m) = 0
      BY <1>1, <2>1 DEF uncache
    <2>2. CASE Depth(m) # 0 /\ Top(m).data.type = "closure"
      <3>1. Top(m).data.v \in Live(m)
        BY <2>2, StackHas, SmallData
      <3>2. Becomes(m, Push(Pop(m, 1), m.closures[Top(m).data.v].cachedValue))
        BY <3>1, StackHas, Popped
      <3> QED
        BY <2>2, <3>2 DEF uncache
    <2>3. CASE Depth(m) # 0 /\ Top(m).data.type # "closure"
      BY <1>1, <2>3 DEF uncache
    <2> QED
      BY <2>1, <2>2, <2>3
  <1>7. ASSUME NEW name PROVE Becomes(m, loadToStack(m, name))
    <2>1. /\ \A x \in DOMAIN m.globals : Becomes(m, PushVariable(m, m.globals[x]))
          /\ \A x \in DOMAIN m.tagged : Becomes(m, PushVariable(m, m.tagged[x]))
          /\ \A x \in DOMAIN Locals(m) : Becomes(m, PushVariable(m, Locals(m)[x]))
      <3>1. /\ IsMapTo(m.globals, VariablesOf(m)) /\ IsMapTo(m.tagged, VariablesOf(m))
            /\ IsMapTo(Locals(m), VariablesOf(m))
        BY TablesHave DEF IsGood, IsWhole
      <3>2. /\ \A x \in DOMAIN m.globals : m.globals[x] \in VariablesOf(m)
            /\ \A x \in DOMAIN m.tagged : m.tagged[x] \in VariablesOf(m)
            /\ \A x \in DOMAIN Locals(m) : Locals(m)[x] \in VariablesOf(m)
        BY <3>1, MapHas
      <3> QED
        BY <3>2, Setters
    <2> QED
      BY <1>1, <2>1 DEF loadToStack
  <1>8. ASSUME NEW name PROVE Becomes(m, tagVariable(m, name))
    BY <1>1 DEF tagVariable
  <1>9. ASSUME NEW name PROVE Becomes(m, stigSize(m, name)) /\ Becomes(m, isIterAtEnd(m, name))
    <2>1. IsStig(m, name) => Cardinality(DOMAIN m.tagged[name].entries) \in Int
      <3> SUFFICES ASSUME IsStig(m, name) PROVE Cardinality(DOMAIN m.tagged[name].entries) \in Int
        OBVIOUS
      <3> DEFINE K == DOMAIN m.tagged[name].entries
      <3>1. m.tagged[name] \in VariablesOf(m)
        BY MapHas DEF IsStig, IsGood, IsWhole
      <3>2. IsFiniteSet(K)
        BY <3>1, VariableHas DEF VariablesOf
      <3> HIDE DEF K
      <3>3. Cardinality(K) \in Nat
        BY <3>2, FS_CardinalityType
      <3> QED
        BY <3>3 DEF K
    <2>2. IsStig(m, name) => IntData(Cardinality(DOMAIN m.tagged[name].entries)) \in Sendable
      BY <2>1, SmallData
    <2> QED
      BY <1>1, <1>2, <2>2, SmallData DEF stigSize, isIterAtEnd
  <1>10. ASSUME NEW name PROVE Becomes(m, callCClosure(m, name))
    <2> DEFINE n == Push(m, IntData(0))
    <2>1. Becomes(m, n) /\ IsGood(n)
      BY <1>2, SmallData DEF Becomes
    <2>2. n.moved \in BOOLEAN
      BY <2>1 DEF IsGood, IsWhole
    <2> HIDE DEF n
    <2>3. \A b \in BOOLEAN : Becomes(m, [n EXCEPT !.moved = b])
      BY <2>1, Setters, BecomesAgain
    <2>4. (n.moved \/ m.tagged[name].data.v = 1) \in BOOLEAN
      OBVIOUS
    <2>5. Becomes(m, [n EXCEPT !.moved = @ \/ m.tagged[name].data.v = 1])
      BY <2>3, <2>4
    <2> QED
      BY <1>1, <2>5 DEF callCClosure, n
  <1> QED
    BY <1>3, <1>4, <1>5, <1>6, <1>7, <1>8, <1>9, <1>10

------------------------------------------------------------------------------
(* The recursive function that WithDependants chooses, visit. *)
OwnOf(m, i) == IF i \in DOMAIN m.closures THEN m.closures[i].dependants ELSE <<>>

(* What it returns: a closure, then its dependants and theirs. *)
Visits(m, visit) ==
    /\ \A list : WithDependants(m, list) = FlattenSeq([k \in DOMAIN list |-> visit[m.head][list[k]]])
    /\ \A n \in 0 .. m.head : \A i \in Index(m) :
          visit[n][i] =
              IF n = 0 THEN <<>>
              ELSE <<i>> \o FlattenSeq([k \in DOMAIN OwnOf(m, i) |-> visit[n - 1][OwnOf(m, i)[k]]])

(* There is one. *)
LEMMA DependantsAreVisited ==
    ASSUME NEW m, m.head \in Nat PROVE \E visit : Visits(m, visit)
  <1> DEFINE N == m.head
  <1> DEFINE Row(n, last) ==
          [i \in Index(m) |->
              IF n = 0 THEN <<>>
              ELSE <<i>> \o FlattenSeq([k \in DOMAIN OwnOf(m, i) |-> last[OwnOf(m, i)[k]]])]
  <1> DEFINE Is(f, n) == f = [k \in 0 .. n |-> Row(k, f[k - 1])]
  <1> DEFINE T == {n \in 0 .. N : \E f : Is(f, n)}
  <1> DEFINE visit == CHOOSE f : Is(f, N)
  <1>1. N \in Nat
    OBVIOUS
  <1>2. \A last, other : Row(0, last) = Row(0, other)
    OBVIOUS
  <1>3. \A list : WithDependants(m, list) = FlattenSeq([k \in DOMAIN list |-> visit[m.head][list[k]]])
    BY DEF WithDependants, OwnOf
  <1> HIDE DEF N, Row
  <1>5. 0 \in T
    <2>1. Is([k \in 0 .. 0 |-> Row(0, 0)], 0)
      BY <1>2
    <2> HIDE DEF Is
    <2> QED
      BY <1>1, <2>1
  <1>6. ASSUME NEW n \in 1 .. N, n - 1 \in T PROVE n \in T
    <2>1. PICK f : Is(f, n - 1)
      BY <1>6
    <2> DEFINE g == [k \in 0 .. n |-> IF k = n THEN Row(n, f[n - 1]) ELSE f[k]]
    <2>2. n \in Nat \ {0}
      BY <1>1
    <2>3. ASSUME NEW k \in 0 .. n PROVE g[k] = Row(k, g[k - 1])
      <3>1. CASE k = n
        BY <2>2, <3>1
      <3>2. CASE k # n
        <4>1. k \in 0 .. n - 1
          BY <2>2, <3>2
        <4>2. f[k] = Row(k, f[k - 1])
          BY <2>1, <4>1
        <4>3. k # 0 => k - 1 \in 0 .. n /\ k - 1 # n
          BY <4>1, <2>2
        <4> QED
          BY <1>2, <3>2, <4>2, <4>3
      <3> QED
        BY <3>1, <3>2
    <2>4. Is(g, n)
      BY <2>3
    <2> HIDE DEF Is, g
    <2> QED
      BY <2>4
  <1>7. Is(visit, N)
    <2> HIDE DEF Is
    <2>1. N \in T
      <3> HIDE DEF T
      <3>1. \A n \in 1 .. N : n - 1 \in T => n \in T
        BY <1>6
      <3>2. 0 .. N \subseteq T
        BY <1>1, <1>5, <3>1, UpTo
      <3> QED
        BY <1>1, <3>2
    <2> QED
      BY <2>1
  <1> HIDE DEF visit
  <1>8. ASSUME NEW n \in 0 .. N, NEW i \in Index(m)
        PROVE  visit[n][i] =
                  IF n = 0 THEN <<>>
                  ELSE <<i>> \o FlattenSeq([k \in DOMAIN OwnOf(m, i) |-> visit[n - 1][OwnOf(m, i)[k]]])
    <2>1. visit[n] = Row(n, visit[n - 1])
      BY <1>7
    <2> QED
      BY <2>1 DEF Row
  <1>9. Visits(m, visit)
    <2>0. 0 .. m.head = 0 .. N
      BY DEF N
    <2>1. \A n \in 0 .. m.head : \A i \in Index(m) :
             visit[n][i] =
                IF n = 0 THEN <<>>
                ELSE <<i>> \o FlattenSeq([k \in DOMAIN OwnOf(m, i) |-> visit[n - 1][OwnOf(m, i)[k]]])
      BY <1>8, <2>0
    <2> QED
      BY <1>3, <2>1 DEF Visits
  <1> QED
    BY <1>9

(* The values of a function along a sequence. *)
LEMMA Along ==
    ASSUME NEW S, NEW q \in Seq(S), NEW T, NEW f, \A x \in S : f[x] \in T
    PROVE  /\ [k \in DOMAIN q |-> f[q[k]]] \in Seq(T)
           /\ Len([k \in DOMAIN q |-> f[q[k]]]) = Len(q)
  <1>1. Len(q) \in Nat /\ DOMAIN q = 1 .. Len(q) /\ \A k \in 1 .. Len(q) : q[k] \in S
    BY LenProperties, ElementOfSeq
  <1>2. [k \in DOMAIN q |-> f[q[k]]] \in [1 .. Len(q) -> T]
    BY <1>1
  <1> QED
    BY <1>1, <1>2

(* A reaction runs at least one closure, and only such as have been made.  *)
LEMMA Visited ==
    ASSUME NEW m, IsGood(m), NEW list \in Seq(Index(m)), list # <<>>
    PROVE  WithDependants(m, list) \in Seq(Index(m)) /\ WithDependants(m, list) # <<>>
  <1>1. m.head \in Nat
    BY DEF IsGood, IsWhole
  <1>2. PICK visit : Visits(m, visit)
    BY <1>1, DependantsAreVisited
  <1>3. \A i \in Index(m) : OwnOf(m, i) \in Seq(Index(m))
    <2>1. <<>> \in Seq(Index(m))
      OBVIOUS
    <2> QED
      BY <2>1 DEF OwnOf, IsGood, IsWhole, IsClosureOf, Live, Index
  <1> DEFINE K == {n \in 0 .. m.head : \A i \in Index(m) :
                      visit[n][i] \in Seq(Index(m)) /\ (n # 0 => visit[n][i] # <<>>)}
  <1>4. 0 \in K
    <2>1. 0 \in 0 .. m.head
      BY <1>1
    <2>2. \A i \in Index(m) : visit[0][i] = <<>>
      BY <1>2, <2>1 DEF Visits
    <2>3. <<>> \in Seq(Index(m))
      OBVIOUS
    <2> QED
      BY <2>1, <2>2, <2>3
  <1>5. ASSUME NEW n \in 1 .. m.head, n - 1 \in K PROVE n \in K
    <2>1. n \in 0 .. m.head /\ n # 0
      BY <1>1
    <2>2. ASSUME NEW i \in Index(m) PROVE visit[n][i] \in Seq(Index(m)) /\ visit[n][i] # <<>>
      <3> DEFINE after == [k \in DOMAIN OwnOf(m, i) |-> visit[n - 1][OwnOf(m, i)[k]]]
      <3>1. visit[n][i] = <<i>> \o FlattenSeq(after)
        BY <1>2, <2>1 DEF Visits
      <3>2. \A j \in Index(m) : visit[n - 1][j] \in Seq(Index(m))
        BY <1>5
      <3>3. after \in Seq(Seq(Index(m)))
        BY <1>3, <3>2, Along
      <3> HIDE DEF after
      <3>4. FlattenSeq(after) \in Seq(Index(m))
        BY <3>3, Flattened
      <3>5. <<i>> \in Seq(Index(m)) /\ <<i>> # <<>>
        OBVIOUS
      <3> QED
        BY <3>1, <3>4, <3>5, ConcatProperties, ConcatEqualIffEmpty
    <2> QED
      BY <2>1, <2>2
  <1>6. m.head \in K
    <2> HIDE DEF K
    <2>1. \A n \in 1 .. m.head : n - 1 \in K => n \in K
      BY <1>5
    <2>2. 0 .. m.head \subseteq K
      BY <1>1, <1>4, <2>1, UpTo
    <2> QED
      BY <1>1, <2>2
  <1> DEFINE all == [k \in DOMAIN list |-> visit[m.head][list[k]]]
  <1>7. WithDependants(m, list) = FlattenSeq(all)
    BY <1>2 DEF Visits
  <1>8. all \in Seq(Seq(Index(m))) /\ Len(all) = Len(list)
    <2>1. \A j \in Index(m) : visit[m.head][j] \in Seq(Index(m))
      BY <1>6
    <2> QED
      BY <2>1, Along
  <1>9. Len(list) \in Nat \ {0} /\ list[1] \in Index(m)
    BY LenProperties, ElementOfSeq, EmptySeq
  <1>10. m.head # 0
    BY <1>1, <1>9 DEF Index
  <1>11. all[1] # <<>>
    <2>1. visit[m.head][list[1]] # <<>>
      BY <1>6, <1>9, <1>10
    <2>2. 1 \in DOMAIN list
      BY <1>9
    <2> QED
      BY <2>1, <2>2
  <1> HIDE DEF all
  <1>12. all # <<>>
    BY <1>8, <1>9
  <1> QED
    BY <1>7, <1>8, <1>11, <1>12, Flattened

(* Where a closure begins. *)
LEMMA CodeIsThere ==
    ASSUME NEW m, IsGood(m), NEW n, n.program = m.program, NEW c
    PROVE  CodePointer(n, c) \in Positions(m.program)
  <1>1. m.program \in Program
    BY DEF IsGood, IsWhole
  <1>2. /\ BytecodeSize[m.program] \in Nat \ {0}
        /\ \A t \in DOMAIN Definition[m.program] :
              Definition[m.program][t].codePointer \in -1 .. BytecodeSize[m.program] - 1
    BY <1>1, BytecodeAssumption
  <1> QED
    BY <1>2 DEF CodePointer, HasTemplate, Positions

(* The place the machine is at, to return to. *)
LEMMA HereIsAFrame ==
    ASSUME NEW m, IsGood(m), m.head # 0 PROVE Here(m) \in FrameOf(Live(m), m.program)
  BY DEF Here, FrameOf, IsGood, IsWhole

(* A reaction leaves a whole machine. *)
LEMMA ReactionsAreGood ==
    ASSUME NEW m, IsGood(m), NEW list \in Seq(Index(m)) PROVE Becomes(m, handleDependants(m, list))
  <1> DEFINE visited == WithDependants(m, list)
  <1> DEFINE touched == Touch(m, ToSet(visited))
  <1> DEFINE waiting == [k \in 1 .. Len(visited) - 1 |-> EntryOf(touched, visited[k + 1])]
  <1> DEFINE framed == [touched EXCEPT !.frames = Append(@, Here(m)) \o Reverse(waiting)]
  <1> DEFINE entered == Enter(framed, EntryOf(touched, Head(visited)))
  <1>1. CASE list = <<>> \/ IsCyclic(DependantsOf(m), ToSet(list))
    <2>1. handleDependants(m, list) \in {m, Fail(m)}
      BY <1>1 DEF handleDependants
    <2> QED
      BY <2>1, Setters
  <1>2. CASE ~ (list = <<>> \/ IsCyclic(DependantsOf(m), ToSet(list)))
    <2>1. handleDependants(m, list) = entered
      BY <1>2 DEF handleDependants, Once
    <2>2. visited \in Seq(Index(m)) /\ visited # <<>>
      BY <1>2, Visited
    <2> HIDE DEF visited
    <2>3. /\ Len(visited) \in Nat \ {0} /\ DOMAIN visited = 1 .. Len(visited)
          /\ \A k \in 1 .. Len(visited) : visited[k] \in Index(m)
          /\ Head(visited) = visited[1]
      BY <2>2, LenProperties, ElementOfSeq, EmptySeq
    <2>4. /\ ToSet(visited) \subseteq Index(m)
          /\ \A k \in 1 .. Len(visited) : visited[k] \in ToSet(visited)
      BY <2>3 DEF ToSet
    <2>5. /\ Becomes(m, touched) /\ IsGood(touched)
          /\ Live(touched) = Live(m) \cup ToSet(visited)
          /\ touched.frames = m.frames /\ touched.program = m.program
      BY <2>4, Toucher DEF Becomes
    <2> HIDE DEF touched
    <2>6. m.head # 0
      <3>1. m.head \in Nat
        BY DEF IsGood, IsWhole
      <3> QED
        BY <2>3, <3>1 DEF Index
    <2>7. \A k \in 1 .. Len(visited) : EntryOf(touched, visited[k]) \in FrameOf(Live(touched), m.program)
      <3> SUFFICES ASSUME NEW k \in 1 .. Len(visited)
                   PROVE  EntryOf(touched, visited[k]) \in FrameOf(Live(touched), m.program)
        OBVIOUS
      <3>1. visited[k] \in Live(touched)
        BY <2>4, <2>5
      <3>2. CodePointer(touched, touched.closures[visited[k]]) \in Positions(m.program)
        BY <2>5, CodeIsThere
      <3> QED
        BY <3>1, <3>2 DEF EntryOf, FrameOf
    <2> DEFINE F == FrameOf(Live(touched), m.program)
    <2>8. Append(m.frames, Here(m)) \in Seq(F)
      <3>1. m.frames \in Seq(FrameOf(Live(m), m.program))
        BY DEF IsGood, IsWhole
      <3>2. Append(m.frames, Here(m)) \in Seq(FrameOf(Live(m), m.program))
        BY <2>6, <3>1, HereIsAFrame, AppendProperties
      <3>3. FrameOf(Live(m), m.program) \subseteq F
        BY <2>5, GrowsAlong
      <3> HIDE DEF F
      <3> QED
        BY <3>2, <3>3, SeqMonotonic
    <2>9. Reverse(waiting) \in Seq(F)
      <3> DEFINE l == Len(visited) - 1
      <3>1. l \in Nat /\ \A k \in 1 .. l : k + 1 \in 1 .. Len(visited)
        BY <2>3
      <3>2. waiting \in [1 .. l -> F]
        BY <2>7, <3>1
      <3> HIDE DEF waiting, F, l
      <3>3. waiting \in Seq(F) /\ Len(waiting) = l
        BY <3>1, <3>2
      <3>4. Reverse(waiting) = [i \in 1 .. l |-> waiting[l - i + 1]]
        BY <3>3 DEF Reverse
      <3>5. \A i \in 1 .. l : l - i + 1 \in 1 .. l
        BY <3>1
      <3>6. Reverse(waiting) \in [1 .. l -> F]
        BY <3>2, <3>4, <3>5
      <3> QED
        BY <3>1, <3>6
    <2>10. Append(m.frames, Here(m)) \o Reverse(waiting) \in Seq(F)
      <3> HIDE DEF waiting, F
      <3> QED
        BY <2>8, <2>9, ConcatProperties
    <2>11. Becomes(touched, framed) /\ IsGood(framed)
      <3> HIDE DEF waiting
      <3> DEFINE q == Append(m.frames, Here(m)) \o Reverse(waiting)
      <3>1. framed = [touched EXCEPT !.frames = q]
        BY <2>5
      <3>2. q \in Seq(FrameOf(Live(touched), touched.program))
        BY <2>5, <2>10
      <3> HIDE DEF q, framed
      <3> QED
        BY <2>5, <3>1, <3>2, Setters DEF Becomes
    <2> HIDE DEF framed
    <2>12. Becomes(framed, entered)
      <3>1. EntryOf(touched, Head(visited)) \in FrameOf(Live(framed), framed.program)
        <4>1. EntryOf(touched, Head(visited)) \in FrameOf(Live(touched), m.program)
          BY <2>3, <2>7
        <4> QED
          BY <2>5, <2>11, <4>1, GrowsAlong
      <3> QED
        BY <2>11, <3>1, Setters
    <2> HIDE DEF entered
    <2>13. Becomes(m, framed)
      BY <2>5, <2>11, BecomesAgain
    <2> QED
      BY <2>1, <2>12, <2>13, BecomesAgain
  <1> QED
    BY <1>1, <1>2

------------------------------------------------------------------------------
(* After a change something may be taken off the stack, and closures react. *)
LEMMA ThenReacts ==
    ASSUME NEW m, IsGood(m), NEW n, Becomes(m, n), NEW list \in Seq(Index(m)), NEW k \in Nat
    PROVE  /\ Becomes(m, Pop(n, k))
           /\ Becomes(m, handleDependants(n, list))
           /\ Becomes(m, handleDependants(Pop(n, k), list))
  <1>1. IsGood(n) /\ Becomes(n, Pop(n, k)) /\ IsGood(Pop(n, k))
    BY Popped DEF Becomes
  <1>2. Becomes(m, Pop(n, k))
    BY <1>1, BecomesAgain
  <1>3. list \in Seq(Index(n)) /\ list \in Seq(Index(Pop(n, k)))
    BY <1>2, GrowsAlong, SeqMonotonic
  <1>4. Becomes(n, handleDependants(n, list)) /\ Becomes(Pop(n, k), handleDependants(Pop(n, k), list))
    BY <1>1, <1>3, ReactionsAreGood
  <1> QED
    BY <1>2, <1>4, BecomesAgain

(* The dependants of a variable have been made. *)
LEMMA DependantsAreThere ==
    ASSUME NEW m, NEW v \in VariablesOf(m) PROVE v.dependants \in Seq(Index(m))
  BY VariableHas DEF VariablesOf, Index

(* A store of plain data. *)
LEMMA StoresAreGood ==
    ASSUME NEW m, IsGood(m), NEW name
    PROVE  /\ Becomes(m, storeLocal(m, name))
           /\ Becomes(m, storeGlobal(m, name))
           /\ Becomes(m, storeTagged(m, name))
  <1>1. Becomes(m, Fail(m))
    BY Setters
  <1>2. ASSUME Depth(m) # 0, NEW table, IsMapTo(table, VariablesOf(m)), IsMutable(table, name)
        PROVE  /\ Mutated(table[name], Top(m).data) \in VariablesOf(m)
               /\ table[name].dependants \in Seq(Index(m))
    <2>1. table[name] \in VariablesOf(m)
      BY <1>2, MapHas DEF IsMutable
    <2>2. Top(m).data \in Datum(Live(m))
      BY <1>2, StackHas
    <2> QED
      BY <2>1, <2>2, MadeVariables, DependantsAreThere DEF VariablesOf
  <1>3. IsMapTo(Locals(m), VariablesOf(m)) /\ IsMapTo(m.globals, VariablesOf(m))
        /\ IsMapTo(m.tagged, VariablesOf(m))
    BY TablesHave DEF IsGood, IsWhole
  <1>4. Depth(m) # 0 => Top(m) \in VariablesOf(m)
    BY StackHas
  <1>5. <<>> \in Seq(Index(m))
    OBVIOUS
  <1>6. ASSUME NEW v \in VariablesOf(m)
        PROVE  /\ Becomes(m, SetLocal(m, name, v))
               /\ Becomes(m, SetGlobal(m, name, v))
               /\ Becomes(m, SetTagged(m, name, v))
    BY LocalSetter, Setters
  <1>7. ASSUME NEW v \in VariablesOf(m), NEW list \in Seq(Index(m))
        PROVE  /\ Becomes(m, Pop(SetLocal(m, name, v), 1))
               /\ Becomes(m, Pop(SetGlobal(m, name, v), 1))
               /\ Becomes(m, Pop(SetTagged(m, name, v), 1))
               /\ Becomes(m, handleDependants(Pop(SetLocal(m, name, v), 1), list))
               /\ Becomes(m, handleDependants(Pop(SetGlobal(m, name, v), 1), list))
               /\ Becomes(m, handleDependants(Pop(SetTagged(m, name, v), 1), list))
    BY <1>6, ThenReacts
  <1>8. Becomes(m, storeLocal(m, name))
    BY <1>1, <1>2, <1>3, <1>4, <1>5, <1>7 DEF storeLocal
  <1>9. Becomes(m, storeGlobal(m, name))
    BY <1>1, <1>2, <1>3, <1>4, <1>5, <1>7 DEF storeGlobal
  <1>10. Becomes(m, storeTagged(m, name))
    BY <1>1, <1>2, <1>3, <1>4, <1>5, <1>7 DEF storeTagged
  <1> QED
    BY <1>8, <1>9, <1>10

(* The stigmergy variable of a name, if there is one. *)
LEMMA StigIsThere ==
    ASSUME NEW m, IsGood(m), NEW name, IsStig(m, name) PROVE m.tagged[name] \in VariablesOf(m)
  BY MapHas DEF IsStig, IsGood, IsWhole

(* A foreach pushes an entry and moves the iterator. *)
LEMMA IterationIsGood ==
    ASSUME NEW m, IsGood(m), NEW name
    PROVE  Becomes(m, pushNextElementOfStig(m, name)) /\ Becomes(m, resetIterOf(m, name))
  <1>1. Becomes(m, Fail(m)) /\ Becomes(m, Push(m, Nil))
    BY Setters, SmallData
  <1> DEFINE v == m.tagged[name]
  <1>2. IsStig(m, name) => v \in VariablesOf(m)
    BY StigIsThere
  <1>3. IsStig(m, name) => resetIter(v) \in VariablesOf(m)
    BY <1>2, Iterators DEF VariablesOf
  <1>4. Becomes(m, resetIterOf(m, name))
    BY <1>1, <1>3, Setters DEF resetIterOf
  <1>5. CASE IsStig(m, name) /\ v.iter # End
    <2> DEFINE w == [v EXCEPT !.iter = Following(v.entries, v.iter)]
    <2> DEFINE n == SetTagged(m, name, w)
    <2>1. w \in VariablesOf(m)
      BY <1>2, <1>5, Iterators DEF VariablesOf
    <2>2. v.entries[v.iter] \in Sendable
      <3>1. v \in VariableOf(Live(m), m.head)
        BY <1>2, <1>5 DEF VariablesOf
      <3> HIDE DEF v, w, n
      <3>2. /\ v.iter \in DOMAIN v.entries \cup {End}
            /\ \A k \in DOMAIN v.entries : v.entries[k] \in Sendable
        BY <3>1, VariableHas
      <3> QED
        BY <1>5, <3>2
    <2> HIDE DEF w
    <2>3. Becomes(m, n) /\ IsGood(n)
      <3>1. Becomes(m, SetTagged(m, name, w))
        BY <2>1, Setters
      <3> QED
        BY <3>1 DEF Becomes
    <2>4. pushNextElementOfStig(m, name) = Push(n, v.entries[v.iter])
      BY <1>5 DEF pushNextElementOfStig, w
    <2> HIDE DEF n
    <2>5. Becomes(n, Push(n, v.entries[v.iter]))
      BY <2>2, <2>3, Setters, SmallData
    <2> QED
      BY <1>4, <2>3, <2>4, <2>5, BecomesAgain
  <1>6. CASE ~ (IsStig(m, name) /\ v.iter # End)
    BY <1>1, <1>4, <1>6 DEF pushNextElementOfStig
  <1> QED
    BY <1>4, <1>5, <1>6

(* A store of something that may be sent, and an update. *)
LEMMA StigmergyIsGood ==
    ASSUME NEW m, IsGood(m), NEW id \in Robot, NEW name
    PROVE  /\ (Depth(m) # 0 => Top(m).data \in Sendable) => Becomes(m, storeStig(m, id, name))
           /\ \A data \in Sendable : Becomes(m, receiveStig(m, id, name, data))
  <1>1. Becomes(m, Fail(m))
    BY Setters
  <1>2. ASSUME NEW v \in VariablesOf(m), NEW list \in Seq(Index(m))
        PROVE  /\ Becomes(m, SetTagged(m, name, v))
               /\ Becomes(m, Pop(SetTagged(m, name, v), 1))
               /\ Becomes(m, handleDependants(SetTagged(m, name, v), list))
               /\ Becomes(m, handleDependants(Pop(SetTagged(m, name, v), 1), list))
    <2>1. Becomes(m, SetTagged(m, name, v))
      BY Setters
    <2> QED
      BY <2>1, ThenReacts
  <1>3. ASSUME NEW data \in Sendable, NEW v \in VariablesOf(m)
        PROVE  /\ updateStigValue(v, id, data) \in VariablesOf(m)
               /\ resetIter(updateStigValue(v, id, data)) \in VariablesOf(m)
    BY MadeVariables, Iterators DEF VariablesOf
  <1>4. \A data \in Sendable : NewStig(id, data) \in VariablesOf(m)
    BY Iterators DEF VariablesOf
  <1>5. <<>> \in Seq(Index(m))
    OBVIOUS
  <1>6. ASSUME Depth(m) # 0 => Top(m).data \in Sendable PROVE Becomes(m, storeStig(m, id, name))
    <2>1. CASE Depth(m) = 0 \/ (name \in DOMAIN m.tagged /\ ~ IsStig(m, name))
      BY <1>1, <2>1 DEF storeStig
    <2>2. CASE Depth(m) # 0 /\ IsStig(m, name)
      <3> DEFINE v == resetIter(updateStigValue(m.tagged[name], id, Top(m).data))
      <3>1. v \in VariablesOf(m)
        BY <1>3, <1>6, <2>2, StigIsThere
      <3>2. storeStig(m, id, name) = handleDependants(Pop(SetTagged(m, name, v), 1), v.dependants)
        BY <2>2 DEF storeStig
      <3> HIDE DEF v
      <3> QED
        BY <1>2, <3>1, <3>2, DependantsAreThere
    <2>3. CASE Depth(m) # 0 /\ name \notin DOMAIN m.tagged
      <3> DEFINE v == updateStigValue(NewStig(id, Top(m).data), id, Top(m).data)
      <3>1. v \in VariablesOf(m)
        BY <1>3, <1>4, <1>6, <2>3
      <3>2. storeStig(m, id, name) = Pop(SetTagged(m, name, v), 1)
        BY <2>3 DEF storeStig, IsStig
      <3> HIDE DEF v
      <3> QED
        BY <1>2, <1>5, <3>1, <3>2
    <2> QED
      BY <2>1, <2>2, <2>3 DEF IsStig
  <1>7. ASSUME NEW data \in Sendable PROVE Becomes(m, receiveStig(m, id, name, data))
    <2>1. CASE IsStig(m, name)
      <3> DEFINE v == updateStigValue(m.tagged[name], id, data)
      <3>1. v \in VariablesOf(m)
        BY <1>3, <2>1, StigIsThere
      <3>2. receiveStig(m, id, name, data) = handleDependants(SetTagged(m, name, v), v.dependants)
        BY <2>1 DEF receiveStig
      <3> HIDE DEF v
      <3> QED
        BY <1>2, <3>1, <3>2, DependantsAreThere
    <2>2. CASE ~ IsStig(m, name)
      <3>1. receiveStig(m, id, name, data) = SetTagged(m, name, NewStig(id, data))
        BY <2>2 DEF receiveStig
      <3> QED
        BY <1>2, <1>4, <1>5, <3>1
    <2> QED
      BY <2>1, <2>2
  <1> QED
    BY <1>6, <1>7

------------------------------------------------------------------------------
(* An instance becomes a dependant of a variable, and of its closure. *)
LEMMA DependIsGood ==
    ASSUME NEW m, IsGood(m), NEW name, NEW i \in Index(m) PROVE Becomes(m, Depend(m, name, i))
  <1> DEFINE v == findVariable(m, name)
  <1> DEFINE n == SetFound(m, name, AddDependant(v, i))
  <1> DEFINE c == v.data.v
  <1>1. CASE m.state = "error" \/ ~ IsDefined(m, name)
    <2>1. Depend(m, name, i) = Fail(m)
      BY <1>1 DEF Depend
    <2> QED
      BY <2>1, Setters
  <1>2. CASE m.state # "error" /\ IsDefined(m, name)
    <2>1. v \in VariablesOf(m)
      BY <1>2, TablesHave
    <2>2. AddDependant(v, i) \in VariablesOf(m)
      <3> HIDE DEF v
      <3> QED
        BY <2>1, MadeVariables DEF VariablesOf, Index
    <2>3. Becomes(m, n) /\ IsGood(n)
      BY <2>2, FoundSetter DEF Becomes
    <2>4. CASE ~ Holds(v, "closure")
      <3>1. Depend(m, name, i) = n
        BY <1>2, <2>4 DEF Depend
      <3> QED
        BY <2>3, <3>1
    <2>5. CASE Holds(v, "closure")
      <3> DEFINE touched == Touch(n, {c})
      <3> DEFINE d == AddDependant(touched.closures[c], i)
      <3>1. Depend(m, name, i) = [touched EXCEPT !.closures[c] = d]
        BY <1>2, <2>5 DEF Depend
      <3>2. c \in Live(m)
        <4>1. v.data \in Datum(Live(m)) /\ v.data.type = "closure"
          BY <2>1, <2>5, VariableHas DEF VariablesOf, Holds
        <4> QED
          BY <4>1, SmallData
      <3> HIDE DEF v, c, n
      <3>3. c \in Index(n) /\ i \in Index(n)
        <4>1. c \in Index(m)
          BY <3>2 DEF IsGood, IsWhole
        <4> QED
          BY <2>3, <4>1, GrowsAlong
      <3>4. /\ Becomes(n, touched) /\ IsGood(touched)
            /\ c \in Live(touched) /\ touched.head = n.head
        BY <2>3, <3>3, Toucher DEF Becomes
      <3> HIDE DEF touched
      <3>5. IsClosureOf(touched.closures[c], Live(touched), touched.head)
        BY <3>4 DEF IsGood, IsWhole
      <3>6. IsClosureOf(d, Live(touched), touched.head)
        <4>1. i \in 0 .. touched.head - 1
          BY <3>3, <3>4 DEF Index
        <4> QED
          BY <3>5, <4>1, ChangedClosures
      <3> HIDE DEF d
      <3>7. Becomes(touched, [touched EXCEPT !.closures[c] = d])
        BY <3>4, <3>6, SetClosure
      <3>8. Becomes(m, touched)
        BY <2>3, <3>4, BecomesAgain
      <3> QED
        BY <3>1, <3>7, <3>8, BecomesAgain
    <2> QED
      BY <2>4, <2>5
  <1> QED
    BY <1>1, <1>2

(* The same for one name after the other. *)
LEMMA DependOnAllIsGood ==
    ASSUME NEW m, IsGood(m), NEW S, NEW on \in Seq(S), NEW i \in Index(m)
    PROVE  Becomes(m, DependOnAll(m, on, i))
  <1>1. PICK after : Depends(m, on, i, after)
    BY DependsInTurn
  <1>2. Len(on) \in Nat
    OBVIOUS
  <1> DEFINE K == {k \in 0 .. Len(on) : Becomes(m, after[k])}
  <1>3. 0 \in K
    <2>1. Becomes(m, m)
      BY Setters
    <2> QED
      BY <1>1, <1>2, <2>1 DEF Depends
  <1>4. ASSUME NEW k \in 1 .. Len(on), k - 1 \in K PROVE k \in K
    <2>1. after[k] = Depend(after[k - 1], on[k], i)
      BY <1>1 DEF Depends
    <2>2. Becomes(m, after[k - 1]) /\ IsGood(after[k - 1])
      BY <1>4 DEF Becomes
    <2>3. i \in Index(after[k - 1])
      BY <2>2, GrowsAlong
    <2>4. Becomes(after[k - 1], after[k])
      BY <2>1, <2>2, <2>3, DependIsGood
    <2>5. Becomes(m, after[k])
      BY <2>2, <2>4, BecomesAgain
    <2> QED
      BY <2>5
  <1>5. Len(on) \in K
    <2> HIDE DEF K
    <2>1. \A k \in 1 .. Len(on) : k - 1 \in K => k \in K
      BY <1>4
    <2>2. 0 .. Len(on) \subseteq K
      BY <1>2, <1>3, <2>1, UpTo
    <2> QED
      BY <1>2, <2>2
  <1> QED
    BY <1>1, <1>5 DEF Depends

(* A closure is added to the list. *)
LEMMA Pusher ==
    ASSUME NEW m, IsGood(m), m.head # 0, NEW c, IsClosureOf(c, Live(m), m.head)
    PROVE  LET n == push_back(m, c)
           IN /\ Becomes(m, n) /\ m.head \in Live(n) /\ n.head = m.head + 1
              /\ n.frames = m.frames /\ n.pc = m.pc
  <1> DEFINE n == push_back(m, c)
  <1> DEFINE D == Live(m) \cup {m.head}
  <1>1. /\ IsRecord(n) /\ n.head = m.head + 1
        /\ n.closures = Put(m.closures, m.head, c)
        /\ n.program = m.program /\ n.state = m.state /\ n.moved = m.moved
        /\ n.globals = m.globals /\ n.tagged = m.tagged /\ n.stack = m.stack
        /\ n.frames = m.frames /\ n.scope = m.scope /\ n.current = m.current /\ n.pc = m.pc
    BY DEF IsGood, IsWhole, IsRecord, Fields, push_back
  <1> HIDE DEF n
  <1>2. /\ Live(n) = D
        /\ \A i \in D : n.closures[i] = IF i = m.head THEN c ELSE m.closures[i]
        /\ n.closures \in [Live(n) -> Range(n.closures)]
    BY <1>1 DEF Put, Live, Range
  <1> HIDE DEF D
  <1>3. /\ m.head \in Nat /\ Live(m) \subseteq D /\ Live(m) \subseteq Index(m)
        /\ D \subseteq Index(n)
        /\ \A i \in Live(m) : IsClosureOf(m.closures[i], Live(m), m.head)
        /\ IsMapTo(m.globals, VariablesOf(m)) /\ IsMapTo(m.tagged, VariablesOf(m))
        /\ m.stack \in Seq(VariablesOf(m))
        /\ m.frames \in Seq(FrameOf(Live(m), m.program))
    BY <1>1 DEF IsGood, IsWhole, D, Index
  <1>4. /\ VariablesOf(m) \subseteq VariablesOf(n)
        /\ FrameOf(Live(m), m.program) \subseteq FrameOf(Live(n), n.program)
        /\ \A d : IsClosureOf(d, Live(m), m.head) => IsClosureOf(d, Live(n), n.head)
    <2>1. n.head \in Nat /\ m.head <= n.head /\ Live(m) \subseteq Live(n) /\ n.program = m.program
      BY <1>1, <1>2, <1>3
    <2>2. /\ VariableOf(Live(m), m.head) \subseteq VariableOf(Live(n), n.head)
          /\ FrameOf(Live(m), m.program) \subseteq FrameOf(Live(n), m.program)
          /\ \A d : IsClosureOf(d, Live(m), m.head) => IsClosureOf(d, Live(n), n.head)
      BY <1>3, <2>1, Grows
    <2> QED
      BY <2>1, <2>2 DEF VariablesOf
  <1>5. \A i \in Live(n) : IsClosureOf(n.closures[i], Live(n), n.head)
    BY <1>2, <1>3, <1>4 DEF D
  <1>6. IsMapTo(n.globals, VariablesOf(n)) /\ IsMapTo(n.tagged, VariablesOf(n))
    BY <1>1, <1>3, <1>4 DEF IsMapTo
  <1>7. n.stack \in Seq(VariablesOf(n)) /\ n.frames \in Seq(FrameOf(Live(n), n.program))
    BY <1>1, <1>3, <1>4, SeqMonotonic
  <1>8. /\ n.head \in Nat /\ n.scope \in {GlobalScope, n.current}
        /\ n.current \in Live(n) \/ (n.head = 0 /\ n.scope = GlobalScope)
    <2>1. m.current \in Live(m) => n.current \in Live(n)
      BY <1>1, <1>2, <1>3
    <2> QED
      BY <1>1, <2>1 DEF IsGood, IsWhole
  <1>9. IsGood(n)
    BY <1>1, <1>2, <1>3, <1>5, <1>6, <1>7, <1>8 DEF IsGood, IsWhole
  <1>10. Becomes(m, n)
    BY <1>1, <1>2, <1>3, <1>9 DEF Becomes
  <1> QED
    BY <1>1, <1>2, <1>10 DEF n, D

(* A call leaves a whole machine. *)
LEMMA CallIsGood == ASSUME NEW m, IsGood(m) PROVE Becomes(m, callClosure(m))
  <1> DEFINE template == m.closures[Top(m).data.v]
  <1> DEFINE names == ArgNames(m, template)
  <1> DEFINE Arg(i) == m.stack[Depth(m) - 1 - i]
  <1> DEFINE args == [x \in ToSet(names) |->
                        Arg(CHOOSE i \in DOMAIN names : names[i] = x)]
  <1> DEFINE instance == [template EXCEPT !.local = Above(args, @)]
  <1> DEFINE popped == Pop(m, 2 + Len(names))
  <1> DEFINE pushed == push_back(popped, instance)
  <1> DEFINE called == [pushed EXCEPT
                          !.frames = Append(@, Here(m)),
                          !.scope = m.head,
                          !.current = m.head]
  <1> DEFINE on == Dependencies(m, instance)
  <1> DEFINE registered == DependOnAll(called, on, m.head)
  <1> DEFINE entered == [registered EXCEPT !.pc = CodePointer(m, instance)]
  <1>1. CASE ~ CanCall(m)
    <2>1. callClosure(m) = Fail(m)
      BY <1>1 DEF callClosure
    <2> QED
      BY <2>1, Setters
  <1>2. CASE CanCall(m)
    <2>1. callClosure(m) = entered
      BY <1>2 DEF callClosure
    <2>2. /\ m.program \in Program /\ m.head \in Nat /\ Live(m) \subseteq Index(m)
          /\ m.pc \in Positions(m.program)
      BY DEF IsGood, IsWhole
    <2>3. /\ Depth(m) \in Nat /\ Depth(m) >= 2
          /\ Top(m).data.type = "closure" /\ Second(m).data.v = Len(names)
          /\ Depth(m) >= 2 + Second(m).data.v
      BY <1>2, StackHas DEF CanCall, Holds
    <2>4. Top(m).data.v \in Live(m)
      <3>1. Top(m).data \in Datum(Live(m))
        BY <2>3, StackHas
      <3> QED
        BY <2>3, <3>1, SmallData
    <2>5. m.head # 0
      BY <2>2, <2>4 DEF Index
    <2>6. IsClosureOf(template, Live(m), m.head)
      BY <2>4 DEF IsGood, IsWhole
    <2> HIDE DEF template
    <2>7. names \in Seq(STRING)
      BY <2>2, NamesAreNames
    <2>8. Len(names) \in Nat /\ DOMAIN names = 1 .. Len(names)
      <3> HIDE DEF names
      <3> QED
        BY <2>7
    <2>9. IsMapTo(args, VariablesOf(m))
      <3> SUFFICES ASSUME NEW x \in ToSet(names) PROVE args[x] \in VariablesOf(m)
        BY DEF IsMapTo
      <3> DEFINE i == CHOOSE i \in DOMAIN names : names[i] = x
      <3>1. i \in DOMAIN names
        BY DEF ToSet
      <3>2. args[x] = m.stack[Depth(m) - 1 - i]
        OBVIOUS
      <3> HIDE DEF i, names
      <3>3. Depth(m) - 1 - i \in 1 .. Depth(m)
        BY <2>3, <2>8, <3>1
      <3> QED
        BY <3>2, <3>3, StackHas
    <2>10. IsClosureOf(instance, Live(m), m.head)
      <3> HIDE DEF args
      <3> DEFINE local == Above(args, template.local)
      <3>1. IsMapTo(local, VariablesOf(m))
        BY <2>6, <2>9, MapAbove DEF IsClosureOf, VariablesOf
      <3> HIDE DEF local
      <3>2. IsClosureOf([template EXCEPT !.local = local], Live(m), m.head)
        BY <2>6, <3>1, ChangedClosures DEF VariablesOf
      <3> QED
        BY <3>2 DEF local
    <2>11. on \in Seq(STRING)
      BY <2>2, NamesAreNames
    <2>12. /\ IsGood(popped) /\ Becomes(m, popped) /\ Live(popped) = Live(m)
           /\ popped.head = m.head /\ popped.frames = m.frames
      <3>1. 2 + Len(names) \in Nat
        BY <2>8
      <3>2. IsGood(popped) /\ Becomes(m, popped) /\ Live(popped) = Live(m)
        BY <3>1, Popped
      <3>3. popped.head = m.head /\ popped.frames = m.frames
        BY DEF Pop, IsGood, IsWhole, IsRecord, Fields
      <3> QED
        BY <3>2, <3>3
    <2> HIDE DEF instance, popped, names, args
    <2>13. /\ Becomes(popped, pushed) /\ IsGood(pushed) /\ m.head \in Live(pushed)
           /\ pushed.head = m.head + 1 /\ pushed.frames = m.frames
      <3>1. IsClosureOf(instance, Live(popped), popped.head) /\ popped.head # 0
        BY <2>5, <2>10, <2>12
      <3> QED
        BY <2>12, <3>1, Pusher DEF Becomes
    <2>14. Becomes(m, pushed) /\ Becomes(m, m)
      BY <2>12, <2>13, BecomesAgain, Setters
    <2> HIDE DEF pushed
    <2>15. Append(m.frames, Here(m)) \in Seq(FrameOf(Live(pushed), pushed.program))
      <3>1. m.frames \in Seq(FrameOf(Live(m), m.program))
        BY DEF IsGood, IsWhole
      <3>2. Append(m.frames, Here(m)) \in Seq(FrameOf(Live(m), m.program))
        BY <2>5, <3>1, HereIsAFrame, AppendProperties
      <3>3. FrameOf(Live(m), m.program) \subseteq FrameOf(Live(pushed), pushed.program)
        BY <2>14, GrowsAlong
      <3> QED
        BY <3>2, <3>3, SeqMonotonic
    <2>16. Becomes(pushed, called) /\ IsGood(called) /\ called.head = m.head + 1
      <3>1. /\ IsRecord(called) /\ called.frames = Append(m.frames, Here(m))
            /\ called.scope = m.head /\ called.current = m.head
            /\ called.head = pushed.head /\ called.closures = pushed.closures
            /\ called.program = pushed.program /\ called.state = pushed.state
            /\ called.moved = pushed.moved /\ called.globals = pushed.globals
            /\ called.tagged = pushed.tagged /\ called.stack = pushed.stack
            /\ called.pc = pushed.pc
        BY <2>13 DEF IsGood, IsWhole, IsRecord, Fields
      <3> HIDE DEF called
      <3>2. Live(called) = Live(pushed) /\ VariablesOf(called) = VariablesOf(pushed)
        BY <3>1 DEF Live, VariablesOf
      <3>3. IsGood(called)
        BY <2>13, <2>15, <3>1, <3>2 DEF IsGood, IsWhole, Index
      <3>4. pushed.head \in Nat
        BY <2>13 DEF IsGood, IsWhole
      <3> QED
        BY <2>13, <3>1, <3>2, <3>3, <3>4 DEF Becomes
    <2> HIDE DEF called, on
    <2>17. Becomes(called, registered) /\ IsGood(registered)
      <3>1. m.head \in Index(called)
        BY <2>2, <2>16 DEF Index
      <3> QED
        BY <2>11, <2>16, <3>1, DependOnAllIsGood DEF Becomes
    <2> HIDE DEF registered
    <2>18. Becomes(m, registered)
      BY <2>14, <2>16, <2>17, BecomesAgain DEF Becomes
    <2>19. Becomes(registered, entered)
      <3>1. CodePointer(m, instance) \in Positions(m.program) /\ registered.program = m.program
        BY <2>18, CodeIsThere DEF Becomes
      <3> QED
        BY <2>17, <3>1, Setters
    <2> HIDE DEF entered
    <2> QED
      BY <2>1, <2>18, <2>19, BecomesAgain
  <1> QED
    BY <1>1, <1>2

------------------------------------------------------------------------------
(* A jump goes to the cell before its target, which is in the bytecode. *)
LEMMA JumpsAreGood ==
    ASSUME NEW m, IsGood(m), NEW target \in 0 .. BytecodeSize[m.program]
    PROVE  /\ Becomes(m, JumpTo(m, target))
           /\ Becomes(m, JumpIf(m, target, TRUE))
           /\ Becomes(m, JumpIf(m, target, FALSE))
  <1>1. BytecodeSize[m.program] \in Nat \ {0}
    BY BytecodeAssumption DEF IsGood, IsWhole
  <1>2. target - 1 \in Positions(m.program)
    BY <1>1 DEF Positions
  <1>3. Becomes(m, JumpTo(m, target)) /\ Becomes(m, Fail(m))
    BY <1>2, Setters DEF JumpTo
  <1>4. Becomes(m, Pop(m, 1)) /\ IsGood(Pop(m, 1)) /\ Pop(m, 1).program = m.program
    BY Setters DEF Becomes
  <1>5. Becomes(m, JumpTo(Pop(m, 1), target))
    <2> DEFINE n == Pop(m, 1)
    <2> HIDE DEF n
    <2>1. Becomes(m, n) => Becomes(n, [n EXCEPT !.pc = target - 1]) \/ ~ IsGood(n) \/ n.program # m.program
      BY <1>2, Setters
    <2>2. Becomes(m, n) /\ IsGood(n) /\ n.program = m.program
      BY <1>4 DEF n
    <2>3. Becomes(m, [n EXCEPT !.pc = target - 1])
      BY <2>1, <2>2, BecomesAgain
    <2> QED
      BY <2>3 DEF JumpTo, n
  <1>6. /\ JumpIf(m, target, TRUE) \in {Fail(m), Pop(m, 1), JumpTo(Pop(m, 1), target)}
        /\ JumpIf(m, target, FALSE) \in {Fail(m), Pop(m, 1), JumpTo(Pop(m, 1), target)}
    BY DEF JumpIf
  <1> QED
    BY <1>3, <1>4, <1>5, <1>6

------------------------------------------------------------------------------
(* The recursive function that Reached chooses, After. *)
Reaches(next, from, after) ==
    /\ after[0] = from
    /\ \A n \in 1 .. Cardinality(DOMAIN next) : after[n] = UNION {{i} \cup next[i] : i \in after[n - 1]}
    /\ Reached(next, from) = after[Cardinality(DOMAIN next)]

(* There is one. *)
LEMMA ReachedInTurn ==
    ASSUME NEW next, NEW from, IsFiniteSet(DOMAIN next) PROVE \E after : Reaches(next, from, after)
  <1> DEFINE N == Cardinality(DOMAIN next)
  <1> DEFINE Row(n, last) == IF n = 0 THEN from ELSE UNION {{i} \cup next[i] : i \in last}
  <1> DEFINE Is(f, n) == f = [k \in 0 .. n |-> Row(k, f[k - 1])]
  <1> DEFINE T == {n \in 0 .. N : \E f : Is(f, n)}
  <1> DEFINE after == CHOOSE f : Is(f, N)
  <1>1. N \in Nat
    BY FS_CardinalityType
  <1>2. \A last, other : Row(0, last) = Row(0, other)
    OBVIOUS
  <1>3. Reached(next, from) = after[N]
    BY DEF Reached
  <1> HIDE DEF N, Row
  <1>5. 0 \in T
    <2>1. Is([k \in 0 .. 0 |-> Row(0, 0)], 0)
      BY <1>2
    <2> HIDE DEF Is
    <2> QED
      BY <1>1, <2>1
  <1>6. ASSUME NEW n \in 1 .. N, n - 1 \in T PROVE n \in T
    <2>1. PICK f : Is(f, n - 1)
      BY <1>6
    <2> DEFINE g == [k \in 0 .. n |-> IF k = n THEN Row(n, f[n - 1]) ELSE f[k]]
    <2>2. n \in Nat \ {0}
      BY <1>1
    <2>3. ASSUME NEW k \in 0 .. n PROVE g[k] = Row(k, g[k - 1])
      <3>1. CASE k = n
        BY <2>2, <3>1
      <3>2. CASE k # n
        <4>1. k \in 0 .. n - 1
          BY <2>2, <3>2
        <4>2. f[k] = Row(k, f[k - 1])
          BY <2>1, <4>1
        <4>3. k # 0 => k - 1 \in 0 .. n /\ k - 1 # n
          BY <4>1, <2>2
        <4> QED
          BY <1>2, <3>2, <4>2, <4>3
      <3> QED
        BY <3>1, <3>2
    <2>4. Is(g, n)
      BY <2>3
    <2> HIDE DEF Is, g
    <2> QED
      BY <2>4
  <1>7. Is(after, N)
    <2> HIDE DEF Is
    <2>1. N \in T
      <3> HIDE DEF T
      <3>1. \A n \in 1 .. N : n - 1 \in T => n \in T
        BY <1>6
      <3>2. 0 .. N \subseteq T
        BY <1>1, <1>5, <3>1, UpTo
      <3> QED
        BY <1>1, <3>2
    <2> QED
      BY <2>1
  <1> HIDE DEF after
  <1>8. \A n \in 0 .. N : after[n] = Row(n, after[n - 1])
    BY <1>7
  <1>9. after[0] = from
    <2>1. 0 \in 0 .. N
      BY <1>1
    <2>2. after[0] = Row(0, after[0 - 1])
      BY <1>8, <2>1
    <2> QED
      BY <2>2 DEF Row
  <1>10. ASSUME NEW n \in 1 .. N PROVE after[n] = UNION {{i} \cup next[i] : i \in after[n - 1]}
    <2>1. n \in 0 .. N /\ n # 0
      BY <1>1
    <2>2. after[n] = Row(n, after[n - 1])
      BY <1>8, <2>1
    <2> QED
      BY <2>1, <2>2 DEF Row
  <1>11. Reaches(next, from, after)
    BY <1>3, <1>9, <1>10 DEF Reaches, N
  <1> QED
    BY <1>11

(* As many steps as there are closures reach everything: a step that finds *)
(* nothing new is the last that could, and every other one adds a closure. *)
LEMMA ReachedIsClosed ==
    ASSUME NEW next, NEW from, IsFiniteSet(DOMAIN next), from # {},
           Reached(next, from) \subseteq DOMAIN next
    PROVE  /\ from \subseteq Reached(next, from)
           /\ \A i \in Reached(next, from) : next[i] \subseteq Reached(next, from)
  <1> DEFINE N == Cardinality(DOMAIN next)
  <1>1. PICK after : Reaches(next, from, after)
    BY ReachedInTurn
  <1>2. N \in Nat
    BY FS_CardinalityType
  <1>3. /\ after[0] = from
        /\ Reached(next, from) = after[N]
        /\ \A n \in 1 .. N : after[n] = UNION {{i} \cup next[i] : i \in after[n - 1]}
    BY <1>1 DEF Reaches
  <1>4. ASSUME NEW n \in 1 .. N
        PROVE  /\ after[n - 1] \subseteq after[n]
               /\ \A i \in after[n - 1] : next[i] \subseteq after[n]
    <2>1. after[n] = UNION {{i} \cup next[i] : i \in after[n - 1]}
      BY <1>3
    <2> QED
      BY <2>1
  <1> DEFINE Before == {n \in 0 .. N : \A k \in 0 .. n : after[k] \subseteq after[n]}
  <1> DEFINE Closed(s) == \A i \in s : next[i] \subseteq s
  <1> DEFINE Enough == {n \in 0 .. N : Closed(after[n]) \/ Cardinality(after[n]) >= n + 1}
  <1> HIDE DEF N
  <1>5. N \in Before
    <2>1. 0 \in Before
      BY <1>2
    <2>2. ASSUME NEW n \in 1 .. N, n - 1 \in Before PROVE n \in Before
      <3>1. \A k \in 0 .. n : k = n \/ k \in 0 .. n - 1
        BY <1>2
      <3>2. \A k \in 0 .. n - 1 : after[k] \subseteq after[n - 1]
        BY <2>2
      <3>3. n \in 0 .. N
        BY <1>2
      <3> QED
        BY <1>4, <3>1, <3>2, <3>3
    <2> HIDE DEF Before
    <2>3. \A n \in 1 .. N : n - 1 \in Before => n \in Before
      BY <2>2
    <2>4. 0 .. N \subseteq Before
      BY <1>2, <2>1, <2>3, UpTo
    <2> QED
      BY <1>2, <2>4
  <1>6. \A n \in 0 .. N : after[n] \subseteq after[N] /\ after[n] \subseteq DOMAIN next
    BY <1>3, <1>5
  <1>7. \A n \in 0 .. N : IsFiniteSet(after[n]) /\ Cardinality(after[n]) \in Nat
                          /\ Cardinality(after[n]) <= N
    BY <1>6, FS_Subset, FS_CardinalityType DEF N
  <1>8. N \in Enough
    <2>1. 0 \in Enough
      <3>1. Cardinality(after[0]) # 0
        BY <1>2, <1>3, <1>7, FS_EmptySet
      <3> QED
        BY <1>2, <1>7, <3>1
    <2>2. ASSUME NEW n \in 1 .. N, n - 1 \in Enough PROVE n \in Enough
      <3>1. n \in 0 .. N /\ n - 1 \in 0 .. N
        BY <1>2
      <3>2. CASE Closed(after[n - 1])
        <4>1. after[n] = UNION {{i} \cup next[i] : i \in after[n - 1]}
          BY <1>3
        <4>2. after[n] = after[n - 1]
          BY <3>2, <4>1
        <4> QED
          BY <3>1, <3>2, <4>2
      <3>3. CASE ~ Closed(after[n - 1])
        <4>1. Cardinality(after[n - 1]) >= n
          BY <2>2, <3>3
        <4>2. after[n - 1] \subseteq after[n] /\ after[n - 1] # after[n]
          BY <1>4, <3>3
        <4>3. Cardinality(after[n - 1]) < Cardinality(after[n])
          BY <1>7, <3>1, <4>2, FS_Subset
        <4>4. Cardinality(after[n]) >= n + 1
          BY <1>7, <3>1, <4>1, <4>3
        <4> QED
          BY <3>1, <4>4
      <3> QED
        BY <3>2, <3>3
    <2> HIDE DEF Enough
    <2>3. \A n \in 1 .. N : n - 1 \in Enough => n \in Enough
      BY <2>2
    <2>4. 0 .. N \subseteq Enough
      BY <1>2, <2>1, <2>3, UpTo
    <2> QED
      BY <1>2, <2>4
  <1>9. Closed(after[N])
    BY <1>2, <1>7, <1>8
  <1>10. from \subseteq after[N]
    BY <1>2, <1>3, <1>6
  <1> QED
    BY <1>3, <1>9, <1>10

------------------------------------------------------------------------------
(* A variable that refers to a closure in E, or to none. *)
LEMMA KeptVariable ==
    ASSUME NEW D, NEW n, NEW v \in VariableOf(D, n), NEW E,
           v.data.type = "closure" => v.data.v \in E
    PROVE  v \in VariableOf(E, n)
  <1>1. v.data \in Datum(D) /\ v.data \in Datum(E)
    BY VariableHas DEF Datum
  <1> QED
    BY <1>1 DEF VariableOf

(* A table of such variables. *)
LEMMA KeptTable ==
    ASSUME NEW D, NEW n, NEW t, IsMapTo(t, VariableOf(D, n)), NEW E, ClosuresIn(Range(t)) \subseteq E
    PROVE  IsMapTo(t, VariableOf(E, n))
  <1> SUFFICES ASSUME NEW x \in DOMAIN t PROVE t[x] \in VariableOf(E, n)
    BY DEF IsMapTo
  <1>1. t[x] \in VariableOf(D, n) /\ t[x] \in Range(t)
    BY MapHas DEF Range
  <1>2. t[x].data.type = "closure" => t[x].data.v \in E
    BY <1>1 DEF ClosuresIn
  <1> QED
    BY <1>1, <1>2, KeptVariable

(* The collector keeps what is referred to: a machine stays whole. *)
LEMMA CollectorIsGood ==
    ASSUME NEW m, IsGood(m)
    PROVE  IsGood(collectGarbage(m)) /\ collectGarbage(m).program = m.program
  <1> DEFINE next == ReferencesOf(m)
  <1> DEFINE live == Reached(next, Roots(m))
  <1> DEFINE n == [m EXCEPT !.closures = Restrict(@, live)]
  <1>1. collectGarbage(m) = Fail(m) \/ (collectGarbage(m) = n /\ live \subseteq Live(m))
    BY DEF collectGarbage, Live
  <1>2. CASE collectGarbage(m) = Fail(m)
    BY <1>2, Setters DEF Becomes
  <1>3. CASE collectGarbage(m) = n /\ live \subseteq Live(m)
    <2>1. /\ m.head \in Nat /\ Live(m) \subseteq Index(m) /\ DOMAIN next = Index(m)
          /\ IsMapTo(m.globals, VariablesOf(m)) /\ IsMapTo(m.tagged, VariablesOf(m))
          /\ m.stack \in Seq(VariablesOf(m))
          /\ m.frames \in Seq(FrameOf(Live(m), m.program))
          /\ \A i \in Live(m) : IsClosureOf(m.closures[i], Live(m), m.head)
          /\ \A i \in Live(m) : next[i] = References(m, m.closures[i])
      <3>1. /\ m.head \in Nat /\ Live(m) \subseteq Index(m)
            /\ IsMapTo(m.globals, VariablesOf(m)) /\ IsMapTo(m.tagged, VariablesOf(m))
            /\ m.stack \in Seq(VariablesOf(m))
            /\ m.frames \in Seq(FrameOf(Live(m), m.program))
            /\ \A i \in Live(m) : IsClosureOf(m.closures[i], Live(m), m.head)
        BY DEF IsGood, IsWhole
      <3>2. DOMAIN next = Index(m)
        BY DEF ReferencesOf
      <3>3. \A i \in Index(m) : i \in Live(m) => next[i] = References(m, m.closures[i])
        BY DEF ReferencesOf, Live
      <3> QED
        BY <3>1, <3>2, <3>3
    <2> HIDE DEF next
    <2>2. IsFiniteSet(DOMAIN next)
      <3>1. m.head - 1 \in Int /\ DOMAIN next = 0 .. m.head - 1
        BY <2>1 DEF Index
      <3>2. IsFiniteSet(0 .. m.head - 1)
        BY <3>1, FS_Interval
      <3> QED
        BY <3>1, <3>2
    <2>3. Roots(m) # {}
      BY DEF Roots
    <2>4. /\ Roots(m) \subseteq live
          /\ \A i \in live : References(m, m.closures[i]) \subseteq live
      <3>1. live \subseteq DOMAIN next
        BY <1>3, <2>1
      <3>2. Roots(m) \subseteq live /\ \A i \in live : next[i] \subseteq live
        BY <2>2, <2>3, <3>1, ReachedIsClosed
      <3> QED
        BY <1>3, <2>1, <3>2
    <2>5. m.current \in live
      BY <2>4 DEF Roots
    <2>6. live \subseteq Live(m)
      BY <1>3
    <2> HIDE DEF live
    <2>7. /\ IsRecord(n) /\ Live(n) = live /\ n.head = m.head
          /\ \A i \in live : n.closures[i] = m.closures[i]
          /\ n.closures \in [Live(n) -> Range(n.closures)]
          /\ n.program = m.program /\ n.state = m.state /\ n.moved = m.moved
          /\ n.globals = m.globals /\ n.tagged = m.tagged /\ n.stack = m.stack
          /\ n.frames = m.frames /\ n.scope = m.scope /\ n.current = m.current /\ n.pc = m.pc
      BY <2>6 DEF IsGood, IsWhole, IsRecord, Fields, Live, Range, Restrict
    <2> HIDE DEF n
    <2>8. IsMapTo(n.globals, VariablesOf(n)) /\ IsMapTo(n.tagged, VariablesOf(n))
      <3>1. ClosuresIn(Range(m.globals)) \subseteq live /\ ClosuresIn(Range(m.tagged)) \subseteq live
        BY <2>4 DEF Roots, ClosuresIn
      <3> QED
        BY <2>1, <2>7, <3>1, KeptTable DEF VariablesOf
    <2>9. n.stack \in Seq(VariablesOf(n))
      <3>1. Len(m.stack) \in Nat /\ DOMAIN m.stack = 1 .. Len(m.stack)
            /\ \A k \in 1 .. Len(m.stack) : m.stack[k] \in VariablesOf(m)
        BY <2>1, LenProperties, ElementOfSeq
      <3>2. \A k \in 1 .. Len(m.stack) : m.stack[k].data.type = "closure" => m.stack[k].data.v \in live
        <4>1. \A k \in 1 .. Len(m.stack) : m.stack[k] \in Range(m.stack)
          BY <3>1 DEF Range
        <4> QED
          BY <2>4, <4>1 DEF Roots, ClosuresIn
      <3>3. \A k \in 1 .. Len(m.stack) : m.stack[k] \in VariablesOf(n)
        BY <2>7, <3>1, <3>2, KeptVariable DEF VariablesOf
      <3>4. m.stack = [k \in 1 .. Len(m.stack) |-> m.stack[k]]
        BY <2>1, <3>1
      <3>5. m.stack \in [1 .. Len(m.stack) -> VariablesOf(n)]
        BY <3>3, <3>4
      <3> QED
        BY <2>7, <3>1, <3>5
    <2>10. n.frames \in Seq(FrameOf(Live(n), n.program))
      <3>1. Len(m.frames) \in Nat /\ DOMAIN m.frames = 1 .. Len(m.frames)
            /\ \A k \in 1 .. Len(m.frames) : m.frames[k] \in FrameOf(Live(m), m.program)
        BY <2>1, LenProperties, ElementOfSeq
      <3>2. \A k \in 1 .. Len(m.frames) : m.frames[k].current \in live
        BY <2>4, <3>1 DEF Roots
      <3>3. \A k \in 1 .. Len(m.frames) : m.frames[k] \in FrameOf(live, m.program)
        BY <3>1, <3>2 DEF FrameOf
      <3>4. m.frames = [k \in 1 .. Len(m.frames) |-> m.frames[k]]
        BY <2>1, <3>1
      <3>5. m.frames \in [1 .. Len(m.frames) -> FrameOf(live, m.program)]
        BY <3>3, <3>4
      <3> QED
        BY <2>7, <3>1, <3>5
    <2>11. \A i \in Live(n) : IsClosureOf(n.closures[i], Live(n), n.head)
      <3> SUFFICES ASSUME NEW i \in live PROVE IsClosureOf(m.closures[i], live, m.head)
        BY <2>7
      <3> DEFINE c == m.closures[i]
      <3>1. IsClosureOf(c, Live(m), m.head)
        BY <2>1, <2>6
      <3>2. References(m, c) \subseteq live
        BY <2>4
      <3> HIDE DEF c
      <3>3. IsMapTo(c.local, VariableOf(live, m.head))
        <4>1. ClosuresIn(Range(c.local)) \subseteq live
          BY <3>2 DEF References
        <4> QED
          BY <3>1, <4>1, KeptTable DEF IsClosureOf
      <3>4. c.cachedValue \in Datum(live)
        <4>1. c.cachedValue.type = "closure" => c.cachedValue.v \in live
          BY <3>2 DEF References, ValueOf
        <4> QED
          BY <3>1, <4>1 DEF IsClosureOf, Datum
      <3>5. IsClosureOf(c, live, m.head)
        BY <3>1, <3>3, <3>4 DEF IsClosureOf
      <3> QED
        BY <3>5 DEF c
    <2>12. IsGood(n)
      BY <2>1, <2>5, <2>6, <2>7, <2>8, <2>9, <2>10, <2>11 DEF IsGood, IsWhole, Index
    <2> QED
      BY <1>3, <2>7, <2>12 DEF n
  <1> QED
    BY <1>1, <1>2, <1>3

------------------------------------------------------------------------------
(* A return keeps the value in the closure, and goes where it came from. *)
LEMMA LeavingIsGood == ASSUME NEW m, IsGood(m) PROVE Becomes(m, retFromClosure(m))
  <1> DEFINE left == Returned(m)
  <1> DEFINE pushed == Push(left, ClosureData(m.current))
  <1> DEFINE popped == [pushed EXCEPT !.frames = Front(@)]
  <1> DEFINE entered == Enter(popped, Last(m.frames))
  <1>1. CASE ~ CanReturn(m)
    <2>1. retFromClosure(m) = Fail(m)
      BY <1>1 DEF retFromClosure
    <2> QED
      BY <2>1, Setters
  <1>2. CASE CanReturn(m)
    <2>1. retFromClosure(m) = entered
      BY <1>2 DEF retFromClosure
    <2>2. m.frames \in Seq(FrameOf(Live(m), m.program)) /\ m.frames # <<>>
      BY <1>2 DEF CanReturn, IsGood, IsWhole
    <2>3. /\ Len(m.frames) \in Nat \ {0}
          /\ \A k \in 1 .. Len(m.frames) : m.frames[k] \in FrameOf(Live(m), m.program)
      <3> DEFINE F == FrameOf(Live(m), m.program)
      <3> HIDE DEF F
      <3>1. m.frames \in Seq(F) /\ m.frames # <<>>
        BY <2>2 DEF F
      <3>2. Len(m.frames) \in Nat \ {0} /\ \A k \in 1 .. Len(m.frames) : m.frames[k] \in F
        BY <3>1, LenProperties, ElementOfSeq, EmptySeq
      <3> QED
        BY <3>2 DEF F
    <2>4. Last(m.frames) \in FrameOf(Live(m), m.program)
      BY <2>3 DEF Last
    <2>5. Front(m.frames) \in Seq(FrameOf(Live(m), m.program))
      <3> DEFINE F == FrameOf(Live(m), m.program)
      <3> HIDE DEF F
      <3>1. m.frames \in Seq(F) /\ Len(m.frames) - 1 \in Nat
            /\ \A k \in 1 .. Len(m.frames) : m.frames[k] \in F
        BY <2>2, <2>3 DEF F
      <3>2. SubSeq(m.frames, 1, Len(m.frames) - 1) \in Seq(F)
        BY <3>1, SubSeqProperties
      <3> QED
        BY <3>2 DEF F, Front
    <2>6. m.current \in Live(m)
      <3>1. Last(m.frames).current \in Live(m)
        BY <2>4 DEF FrameOf
      <3>2. Live(m) \subseteq Index(m)
        BY DEF IsGood, IsWhole
      <3>3. m.head # 0
        BY <3>1, <3>2 DEF Index
      <3> QED
        BY <3>3 DEF IsGood, IsWhole
    <2>7. /\ Becomes(m, Pop(m, 1)) /\ Becomes(m, Pop(m, 2)) /\ IsGood(Pop(m, 2))
          /\ Live(Pop(m, 2)) = Live(m)
          /\ Pop(m, 2).frames = m.frames /\ Pop(m, 1).frames = m.frames
      BY Popped DEF Pop, IsGood, IsWhole, IsRecord, Fields
    <2>8. Becomes(m, left) /\ IsGood(left) /\ left.frames = m.frames
      <3>1. CASE left = Pop(m, 1) \/ left = Pop(m, 2)
        BY <2>7, <3>1 DEF Becomes
      <3>2. CASE left # Pop(m, 1) /\ left # Pop(m, 2)
        <4> DEFINE n == Pop(m, 2)
        <4> DEFINE d == Second(m).data
        <4> DEFINE c == [n.closures[m.current] EXCEPT !.cachedValue = d]
        <4> DEFINE changed == [n EXCEPT !.closures[m.current] = c]
        <4>1. Top(m).data.v = 1 /\ left = changed
          BY <3>2 DEF Returned
        <4>2. Depth(m) >= 2
          BY <1>2, <4>1 DEF CanReturn
        <4>3. d \in Datum(Live(m))
          BY <4>2, StackHas
        <4> HIDE DEF n, d
        <4>4. IsGood(n) /\ Becomes(m, n) /\ Live(n) = Live(m) /\ n.frames = m.frames
          BY <2>7 DEF n
        <4>5. m.current \in Live(n) /\ IsClosureOf(n.closures[m.current], Live(n), n.head)
          BY <2>6, <4>4 DEF IsGood, IsWhole
        <4>6. IsClosureOf(c, Live(n), n.head)
          BY <4>3, <4>4, <4>5, ChangedClosures
        <4> HIDE DEF c
        <4>7. Becomes(n, changed)
          BY <4>4, <4>5, <4>6, SetClosure
        <4>8. changed.frames = m.frames
          BY <4>4 DEF IsGood, IsWhole, IsRecord, Fields
        <4> HIDE DEF changed, left
        <4>9. Becomes(m, left)
          BY <4>1, <4>4, <4>7, BecomesAgain
        <4> QED
          BY <4>1, <4>8, <4>9 DEF Becomes
      <3> QED
        BY <3>1, <3>2
    <2> HIDE DEF left
    <2>9. Becomes(left, pushed) /\ IsGood(pushed) /\ pushed.frames = m.frames
      <3>1. ClosureData(m.current) \in Datum(Live(left))
        BY <2>6, <2>8, SmallData DEF Becomes
      <3>2. Becomes(left, pushed)
        BY <2>8, <3>1, Setters
      <3>3. pushed.frames = left.frames
        BY <2>8 DEF Push, PushVariable, IsGood, IsWhole, IsRecord, Fields
      <3> QED
        BY <2>8, <3>2, <3>3 DEF Becomes
    <2> HIDE DEF pushed
    <2>10. Becomes(m, pushed)
      BY <2>8, <2>9, BecomesAgain
    <2>11. Becomes(pushed, popped) /\ IsGood(popped)
      <3>1. popped = [pushed EXCEPT !.frames = Front(m.frames)]
        BY <2>9
      <3>2. Front(m.frames) \in Seq(FrameOf(Live(pushed), pushed.program))
        BY <2>5, <2>10, GrowsAlong, SeqMonotonic
      <3> HIDE DEF popped
      <3> QED
        BY <2>9, <3>1, <3>2, Setters DEF Becomes
    <2> HIDE DEF popped
    <2>12. Becomes(m, popped)
      BY <2>10, <2>11, BecomesAgain
    <2>13. Becomes(popped, entered)
      <3>1. Last(m.frames) \in FrameOf(Live(popped), popped.program)
        BY <2>4, <2>12, GrowsAlong
      <3> QED
        BY <2>11, <3>1, Setters
    <2> HIDE DEF entered
    <2> QED
      BY <2>1, <2>12, <2>13, BecomesAgain
  <1> QED
    BY <1>1, <1>2

(* A return and the collection after it. *)
LEMMA ReturnIsGood ==
    ASSUME NEW m, IsGood(m) PROVE IsGood(return(m)) /\ return(m).program = m.program
  <1> DEFINE n == retFromClosure(m)
  <1>1. return(m) = IF n.state = "error" THEN n ELSE collectGarbage(n)
    BY DEF return, Once
  <1>2. Becomes(m, n)
    BY LeavingIsGood
  <1> HIDE DEF n
  <1> QED
    BY <1>1, <1>2, CollectorIsGood DEF Becomes

------------------------------------------------------------------------------
(* The cells of a program are counted from 0. *)
LEMMA Cell ==
    ASSUME NEW p \in Program
    PROVE  /\ BytecodeSize[p] \in Nat \ {0}
           /\ DOMAIN bytecode[p] = 0 .. BytecodeSize[p] - 1
           /\ DOMAIN bytecode[p] \subseteq Positions(p)
  <1>1. BytecodeSize[p] \in Nat \ {0}
    BY BytecodeAssumption
  <1>2. BytecodeSize[p] = Len(Cells(Text[p])) /\ bytecode[p] = load(Text[p])
    BY DEF BytecodeSize, bytecode, Program
  <1>3. DOMAIN load(Text[p]) = 0 .. Len(Cells(Text[p])) - 1
    BY DEF load
  <1> QED
    BY <1>1, <1>2, <1>3 DEF Positions

(* The machine after an instruction, which may have freed closures. *)
Follows(m, n) == IsGood(n) /\ n.program = m.program

(* A change is one. *)
LEMMA FollowsOn ==
    ASSUME NEW l, NEW m, Follows(l, m), NEW n, Becomes(m, n) PROVE Follows(l, n)
  BY DEF Follows, Becomes

(* An instruction with an operand, which has been fetched. *)
LEMMA WithOperandIsGood ==
    ASSUME NEW m, IsGood(m), NEW op \in OperandInstruction, NEW x,
           op = "push i" => x \in Int,
           op \in Jump \ {"is_nil"} => x \in 0 .. BytecodeSize[m.program],
           op = "tag variable" => m.pc + 1 \in Positions(m.program)
    PROVE  Becomes(m, WithOperand(op, x, m))
  <1>1. CASE op \in {"load", "stig_size", "is_iter_at_end", "call_c_closure"}
    <2>1. WithOperand(op, x, m) \in {loadToStack(m, x), stigSize(m, x), isIterAtEnd(m, x), callCClosure(m, x)}
      BY <1>1 DEF WithOperand
    <2> QED
      BY <2>1, OperandsAreGood
  <1>2. CASE op \in {"store local", "store global", "store tagged"}
    <2>1. WithOperand(op, x, m) \in {storeLocal(m, x), storeGlobal(m, x), storeTagged(m, x)}
      BY <1>2 DEF WithOperand
    <2> QED
      BY <2>1, StoresAreGood
  <1>3. CASE op \in {"push_next_in_stig", "reset_iter"}
    <2>1. WithOperand(op, x, m) \in {pushNextElementOfStig(m, x), resetIterOf(m, x)}
      BY <1>3 DEF WithOperand
    <2> QED
      BY <2>1, IterationIsGood
  <1>4. CASE op \in {"tag robot", "debug_print"}
    <2>1. WithOperand(op, x, m) \in {Fail(m), m}
      BY <1>4 DEF WithOperand
    <2> QED
      BY <2>1, Setters
  <1>5. CASE op = "push i"
    <2>1. WithOperand(op, x, m) = Push(m, IntData(x))
      BY <1>5 DEF WithOperand
    <2>2. IntData(x) \in Datum(Live(m))
      BY <1>5, SmallData
    <2>3. \A d \in Datum(Live(m)) : Becomes(m, Push(m, d))
      BY Setters
    <2> QED
      BY <2>1, <2>2, <2>3
  <1>6. CASE op \in {"jmp", "jmp_if_zero", "jmp_if_not_zero"}
    <2>1. WithOperand(op, x, m) \in {JumpTo(m, x), JumpIf(m, x, TRUE), JumpIf(m, x, FALSE)}
      BY <1>6 DEF WithOperand
    <2>2. x \in 0 .. BytecodeSize[m.program]
      BY <1>6 DEF Jump
    <2> QED
      BY <2>1, <2>2, JumpsAreGood
  <1>7. CASE op = "tag variable"
    <2> DEFINE n == tagVariable(m, x)
    <2>1. WithOperand(op, x, m) = [n EXCEPT !.pc = n.pc + 1]
      BY <1>7 DEF WithOperand, Fetched
    <2>2. n = m \/ n = Fail(m)
      BY DEF tagVariable
    <2>3. n.pc = m.pc /\ n.program = m.program
      BY <2>2 DEF Fail, IsGood, IsWhole, IsRecord, Fields
    <2>4. Becomes(m, n) /\ IsGood(n)
      BY <2>2, Setters DEF Becomes
    <2> HIDE DEF n
    <2>5. n.pc + 1 \in Positions(n.program)
      BY <1>7, <2>3
    <2>6. Becomes(n, [n EXCEPT !.pc = n.pc + 1])
      BY <2>4, <2>5, Setters
    <2> QED
      BY <2>1, <2>4, <2>6, BecomesAgain
  <1> QED
    BY <1>1, <1>2, <1>3, <1>4, <1>5, <1>6, <1>7 DEF OperandInstruction

(* An instruction without an operand. *)
LEMMA WithoutOperandIsGood ==
    ASSUME NEW m, IsGood(m), m.pc \in Nat, NEW op PROVE Follows(m, WithoutOperand(op, m))
  <1>0. \A n : Becomes(m, n) => Follows(m, n)
    BY DEF Becomes, Follows
  <1> DEFINE Ordinary == {"push_nil", "pop", "dup", "swap", "uncache", "print", "is_nil", "call_closure", "end"}
  <1> DEFINE Other == {"ret_from_closure", "spin", "lnot"}
  <1>00. \A o \in Ordinary \cup Other : o \notin BinaryInstruction
    <2> SUFFICES ASSUME NEW o \in BinaryInstruction PROVE o \notin Ordinary \cup Other
      OBVIOUS
    <2>1. o \in {"add", "sub", "mul", "div", "mod", "eql", "neql", "gt", "gte", "lt", "lte", "land", "lor"}
      BY DEF BinaryInstruction, Arithmetic, Comparison, Equality, Logic
    <2> QED
      BY <2>1
  <1>1. CASE op = "ret_from_closure"
    <2>1. WithoutOperand(op, m) = return(m)
      BY <1>00, <1>1 DEF WithoutOperand
    <2> QED
      BY <2>1, ReturnIsGood DEF Follows
  <1>2. CASE op = "spin"
    <2>1. WithoutOperand(op, m) = [m EXCEPT !.pc = m.pc - 1]
      BY <1>00, <1>2 DEF WithoutOperand
    <2>2. BytecodeSize[m.program] \in Nat
      BY Cell DEF IsGood, IsWhole
    <2>3. m.pc - 1 \in Positions(m.program)
      BY <2>2 DEF IsGood, Positions
    <2> QED
      BY <1>0, <2>1, <2>3, Setters
  <1>3. CASE op \in Ordinary
    <2>1. WithoutOperand(op, m) \in {Push(m, Nil), pop(m), dup(m), swap(m), uncache(m), m, Fail(m),
                                     isNil(m), callClosure(m), [m EXCEPT !.state = "done"]}
      BY <1>00, <1>3 DEF WithoutOperand
    <2>2. Becomes(m, Push(m, Nil)) /\ Becomes(m, m) /\ Becomes(m, Fail(m))
          /\ Becomes(m, [m EXCEPT !.state = "done"])
      BY Setters, SmallData
    <2>3. /\ Becomes(m, swap(m)) /\ Becomes(m, dup(m)) /\ Becomes(m, pop(m))
          /\ Becomes(m, isNil(m)) /\ Becomes(m, uncache(m)) /\ Becomes(m, callClosure(m))
      BY OperandsAreGood, CallIsGood
    <2> QED
      BY <1>0, <2>1, <2>2, <2>3
  <1>4. CASE op = "lnot"
    <2>1. WithoutOperand(op, m) = IF Depth(m) = 0 \/ IsMistaken(Top(m)) THEN Fail(m)
                                  ELSE Push(Pop(m, 1), lnot(Top(m).data))
      BY <1>00, <1>4 DEF WithoutOperand
    <2>2. lnot(Top(m).data) \in Datum(Live(m))
      BY SmallData DEF lnot
    <2>3. Becomes(m, Push(Pop(m, 1), lnot(Top(m).data))) /\ Becomes(m, Fail(m))
      BY <2>2, Popped, Setters
    <2> QED
      BY <1>0, <2>1, <2>3
  <1>5. CASE op \in BinaryInstruction
    <2>1. WithoutOperand(op, m) = BinaryOnStack(m, op)
      BY <1>5 DEF WithoutOperand, BinaryInstruction
    <2> QED
      BY <1>0, <1>5, <2>1, BinaryIsGood
  <1>6. CASE op \notin Ordinary \cup Other \cup BinaryInstruction
    <2>1. WithoutOperand(op, m) = Fail(m)
      BY <1>6 DEF WithoutOperand
    <2> QED
      BY <1>0, <2>1, Setters
  <1> QED
    BY <1>1, <1>2, <1>3, <1>4, <1>5, <1>6

(* Every instruction leaves a whole machine. *)
LEMMA InstructionIsGood == ASSUME NEW m, IsGood(m) PROVE Follows(m, handleInstruction(m))
  <1>1. CASE ~ IsInstruction(m)
    <2>1. handleInstruction(m) = Fail(m)
      BY <1>1 DEF handleInstruction
    <2> QED
      BY <2>1, Setters DEF Becomes, Follows
  <1>2. CASE IsInstruction(m)
    <2>1. m.program \in Program /\ m.pc \in DOMAIN bytecode[m.program]
          /\ bytecode[m.program][m.pc].kind = "instruction"
      BY <1>2 DEF IsInstruction, IsGood, IsWhole
    <2>2. /\ DOMAIN bytecode[m.program] = 0 .. BytecodeSize[m.program] - 1
          /\ DOMAIN bytecode[m.program] \subseteq Positions(m.program)
          /\ BytecodeSize[m.program] \in Nat
      BY <2>1, Cell
    <2>3. /\ Opcode(m) \in OperandInstruction => m.pc + 1 \in DOMAIN bytecode[m.program]
          /\ Opcode(m) = "tag variable" => m.pc + 2 \in DOMAIN bytecode[m.program]
          /\ Opcode(m) = "push i" => Argument(m) \in Int
          /\ Opcode(m) \in Jump \ {"is_nil"} => Argument(m) \in 0 .. BytecodeSize[m.program]
      BY <2>1, BytecodeAssumption DEF Opcode, Argument
    <2>4. m.pc \in Nat
      BY <2>1, <2>2
    <2>5. CASE Opcode(m) \in OperandInstruction
      <3> DEFINE n == Fetched(m)
      <3>1. handleInstruction(m) = WithOperand(Opcode(m), Argument(m), n)
        BY <1>2, <2>5 DEF handleInstruction
      <3>2. m.pc + 1 \in Positions(m.program)
        BY <2>2, <2>3, <2>5
      <3>3. n = [m EXCEPT !.pc = m.pc + 1]
        BY DEF Fetched
      <3>4. n.pc = m.pc + 1 /\ n.program = m.program
        BY <3>3 DEF IsGood, IsWhole, IsRecord, Fields
      <3> HIDE DEF n
      <3>5. Becomes(m, n) /\ IsGood(n)
        BY <3>2, <3>3, Setters DEF Becomes
      <3>6. Opcode(m) = "tag variable" => n.pc + 1 \in Positions(n.program)
        <4>1. Opcode(m) = "tag variable" => m.pc + 2 \in Positions(m.program)
          BY <2>2, <2>3
        <4>2. n.pc + 1 = m.pc + 2
          BY <2>4, <3>4
        <4> QED
          BY <3>4, <4>1, <4>2
      <3>7. Becomes(n, WithOperand(Opcode(m), Argument(m), n))
        BY <2>3, <2>5, <3>4, <3>5, <3>6, WithOperandIsGood
      <3> QED
        BY <3>1, <3>5, <3>7, BecomesAgain DEF Becomes, Follows
    <2>6. CASE Opcode(m) \notin OperandInstruction
      <3>1. handleInstruction(m) = WithoutOperand(Opcode(m), m)
        BY <1>2, <2>6 DEF handleInstruction
      <3> QED
        BY <2>4, <3>1, WithoutOperandIsGood
    <2> QED
      BY <2>5, <2>6
  <1> QED
    BY <1>1, <1>2

(* The end of step(). *)
LEMMA EndIsWhole ==
    ASSUME NEW m, IsGood(m)
    PROVE  /\ IsWhole(stepEnd(m)) /\ stepEnd(m).program = m.program
           /\ stepEnd(m).state # "done" => stepEnd(m).pc \in Positions(m.program)
  <1> DEFINE n == [m EXCEPT !.pc = @ + 1,
                            !.state = IF m.pc + 1 >= BytecodeSize[m.program] THEN "done" ELSE @]
  <1>1. CASE m.state = "error"
    BY <1>1 DEF stepEnd, IsGood
  <1>2. CASE m.state # "error"
    <2>1. stepEnd(m) = n
      BY <1>2 DEF stepEnd
    <2>2. /\ IsRecord(n) /\ Live(n) = Live(m) /\ VariablesOf(n) = VariablesOf(m)
          /\ n.head = m.head /\ n.closures = m.closures
          /\ n.program = m.program /\ n.moved = m.moved
          /\ n.globals = m.globals /\ n.tagged = m.tagged /\ n.stack = m.stack
          /\ n.frames = m.frames /\ n.scope = m.scope /\ n.current = m.current
          /\ n.pc = m.pc + 1
          /\ n.state = IF m.pc + 1 >= BytecodeSize[m.program] THEN "done" ELSE m.state
      BY DEF IsGood, IsWhole, IsRecord, Fields, Live, VariablesOf
    <2> HIDE DEF n
    <2>3. BytecodeSize[m.program] \in Nat /\ m.pc \in Positions(m.program)
      BY Cell DEF IsGood, IsWhole
    <2>4. IsWhole(n)
      BY <2>2 DEF IsGood, IsWhole, Index
    <2>5. n.state # "done" => n.pc \in Positions(m.program)
      BY <2>2, <2>3 DEF Positions
    <2> QED
      BY <2>1, <2>2, <2>4, <2>5
  <1> QED
    BY <1>1, <1>2

(* A machine that has just loaded its program is whole. *)
LEMMA LoadedIsGood == ASSUME NEW p \in Program PROVE IsGood(Loaded(p))
  <1> DEFINE m == Loaded(p)
  <1> DEFINE D == DOMAIN Definition[p]
  <1> DEFINE N == Cardinality(D)
  <1>1. IsFiniteSet(D) /\ D = 0 .. N - 1 /\ N \in Nat
    <2>1. IsFiniteSet(D) /\ D = 0 .. N - 1
      BY DefinitionAssumption
    <2> QED
      BY <2>1, FS_CardinalityType
  <1>2. /\ IsRecord(m) /\ m.program = p /\ m.state = "ready" /\ m.pc = 0
        /\ m.stack = <<>> /\ m.frames = <<>> /\ m.scope = GlobalScope /\ m.current = 0
        /\ m.closures = [t \in D |-> Closure(t)] /\ m.head = N
        /\ m.globals = [name \in ClosureName(p) |-> Variable(ClosureData(TemplateOf(p, name)))]
        /\ m.tagged = [name \in RegisteredFunction |-> Variable(CFunction(name))]
        /\ m.moved = FALSE
    BY DEF Loaded, IsRecord, Fields
  <1> HIDE DEF m, D, N
  <1>3. Live(m) = D /\ VariablesOf(m) = VariableOf(D, N) /\ Index(m) = D
    BY <1>1, <1>2 DEF Live, VariablesOf, Index
  <1>4. IsMapTo(m.globals, VariablesOf(m))
    <2> SUFFICES ASSUME NEW name \in ClosureName(p)
                 PROVE  Variable(ClosureData(TemplateOf(p, name))) \in VariableOf(D, N)
      BY <1>2, <1>3 DEF IsMapTo
    <2> DEFINE named == {t \in D : Definition[p][t].name = name}
    <2>1. named # {} /\ named \subseteq D
      BY DEF ClosureName, D
    <2>2. TemplateOf(p, name) = Max(named)
      BY DEF TemplateOf, D
    <2> HIDE DEF named
    <2>3. N - 1 \in Nat
      <3>1. PICK t \in D : TRUE
        BY <2>1
      <3>2. t \in 0 .. N - 1
        BY <1>1, <3>1
      <3> QED
        BY <1>1, <3>2
    <2>4. Max(named) \in D
      BY <1>1, <2>1, <2>3, MaxIsThere
    <2>5. ClosureData(TemplateOf(p, name)) \in Datum(D)
      BY <2>2, <2>4, SmallData
    <2> QED
      BY <2>5, MadeVariables
  <1>5. IsMapTo(m.tagged, VariablesOf(m))
    BY <1>2, <1>3, SmallData, MadeVariables DEF IsMapTo
  <1>6. \A i \in Live(m) : IsClosureOf(m.closures[i], Live(m), m.head)
    <2>1. IsMapTo(NoVariables, VariableOf(D, N))
      BY DEF IsMapTo, NoVariables
    <2>2. <<>> \in Seq(0 .. N - 1) /\ Nil \in Datum(D)
      BY SmallData
    <2>3. \A t : IsClosureOf(Closure(t), D, N)
      BY <2>1, <2>2 DEF IsClosureOf, Closure, ClosureFields
    <2> QED
      BY <1>2, <1>3, <2>3
  <1>7. m.stack \in Seq(VariablesOf(m)) /\ m.frames \in Seq(FrameOf(Live(m), m.program))
    <2>1. <<>> \in Seq(VariablesOf(m)) /\ <<>> \in Seq(FrameOf(Live(m), m.program))
      OBVIOUS
    <2> QED
      BY <1>2, <2>1
  <1>8. m.closures \in [Live(m) -> Range(m.closures)]
    BY <1>2, <1>3 DEF Range
  <1>9. m.current \in Live(m) \/ (m.head = 0 /\ m.scope = GlobalScope)
    BY <1>1, <1>2, <1>3
  <1>10. m.pc \in Positions(m.program)
    BY <1>2, Cell DEF Positions
  <1>11. IsGood(m)
    BY <1>1, <1>2, <1>3, <1>4, <1>5, <1>6, <1>7, <1>8, <1>9, <1>10 DEF IsGood, IsWhole
  <1> QED
    BY <1>11 DEF m

------------------------------------------------------------------------------
(* The condition: no robot has stored a closure so far. *)
NoClosureIsStored == \A r \in Robot : \A n \in 1 .. stored[r] : written[r][n].type # "closure"

(* What has been stored may be sent. *)
StoresAreSendable == \A r \in Robot : \A n \in 1 .. stored[r] : written[r][n] \in Sendable

(* Every machine is whole, and stands at an instruction until it is done. *)
MachinesAreWhole ==
    \A r \in Robot :
        /\ IsWhole(vm[r])
        /\ (at[r] = "check" \/ vm[r].state # "done") => vm[r].pc \in Positions(vm[r].program)

(* The inductive invariant. *)
CInv == NoClosureIsStored => MachinesAreWhole /\ StoresAreSendable

(* At first. *)
LEMMA InitCInv == Init => CInv
  <1> SUFFICES ASSUME Init PROVE MachinesAreWhole /\ StoresAreSendable
    BY DEF CInv
  <1>1. PICK launch \in Launches : vm = [r \in Robot |-> Loaded(launch[r])]
    BY DEF Init
  <1>2. \A r \in Robot : launch[r] \in Program
    BY <1>1, LaunchAssumption
  <1>3. \A r \in Robot : IsGood(vm[r])
    BY <1>1, <1>2, LoadedIsGood
  <1>4. MachinesAreWhole
    BY <1>3 DEF MachinesAreWhole, IsGood
  <1>5. StoresAreSendable
    BY DEF Init, StoresAreSendable
  <1> QED
    BY <1>4, <1>5

(* One robot's machine moves, and the history stays. *)
LEMMA MachineMoves ==
    ASSUME IInv, MachinesAreWhole, StoresAreSendable, NEW r \in Robot, NEW m,
           IsWhole(m), vm' = [vm EXCEPT ![r] = m],
           NEW place, at' = [at EXCEPT ![r] = place],
           (place = "check" \/ m.state # "done") => m.pc \in Positions(m.program)
    PROVE  MachinesAreWhole'
  <1>1. \A q \in Robot : /\ vm'[q] = IF q = r THEN m ELSE vm[q]
                         /\ at'[q] = IF q = r THEN place ELSE at[q]
    BY DEF IInv, Machines, Places
  <1>2. ASSUME NEW q \in Robot
        PROVE  /\ IsWhole(vm'[q])
               /\ (at'[q] = "check" \/ vm'[q].state # "done") => vm'[q].pc \in Positions(vm'[q].program)
    <2>1. CASE q = r
      BY <1>1, <2>1
    <2>2. CASE q # r
      BY <1>1, <2>2 DEF MachinesAreWhole
    <2> QED
      BY <2>1, <2>2
  <1> QED
    BY <1>2 DEF MachinesAreWhole

(* An instruction. *)
LEMMA InstructionKeepsWhole ==
    ASSUME IInv, CInv, NEW r \in Robot, Instruction(r) PROVE CInv'
  <1>1. PICK m \in {IF IsStore(vm[r]) THEN Stored(r) ELSE handleInstruction(vm[r])} :
            /\ IsStore(vm[r]) => m.state = "error"
            /\ Run(r, m)
            /\ UNCHANGED <<netVars, history>>
    BY DEF Instruction
  <1>2. UNCHANGED <<stored, written>>
    BY <1>1 DEF history
  <1> SUFFICES ASSUME NoClosureIsStored' PROVE MachinesAreWhole' /\ StoresAreSendable'
    BY DEF CInv
  <1>3. MachinesAreWhole /\ StoresAreSendable
    BY <1>2 DEF CInv, NoClosureIsStored
  <1>4. StoresAreSendable'
    BY <1>2, <1>3 DEF StoresAreSendable
  <1>5. IsGood(vm[r])
    BY <1>3 DEF MachinesAreWhole, IsGood, Instruction, AtInstruction
  <1>6. CASE m.state = "error"
    <2>1. vm' = [vm EXCEPT ![r] = Fail(vm[r])] /\ at' = at
      BY <1>1, <1>6 DEF Run
    <2>2. at' = [at EXCEPT ![r] = at[r]]
      BY <2>1 DEF IInv, Places
    <2>3. IsGood(Fail(vm[r]))
      BY <1>5, Setters DEF Becomes
    <2> QED
      BY <1>3, <1>4, <2>1, <2>2, <2>3, MachineMoves DEF IsGood
  <1>7. CASE m.state # "error"
    <2>1. vm' = [vm EXCEPT ![r] = m] /\ at' = [at EXCEPT ![r] = "check"]
      BY <1>1, <1>7 DEF Run
    <2>2. m = handleInstruction(vm[r])
      BY <1>1, <1>7
    <2>3. IsGood(m)
      BY <1>5, <2>2, InstructionIsGood DEF Follows
    <2> QED
      BY <1>3, <1>4, <2>1, <2>3, MachineMoves DEF IsGood
  <1> QED
    BY <1>6, <1>7

(* A store adds to the history of the robot, and leaves that of the others. *)
LEMMA StoreAdds ==
    ASSUME IInv, NEW r \in Robot, Store(r)
    PROVE  /\ \A q \in Robot : stored[q] \in Nat
           /\ \A q \in Robot : stored'[q] = IF q = r THEN stored[q] + 1 ELSE stored[q]
           /\ \A q \in Robot : \A n \in 1 .. stored[q] : written'[q][n] = written[q][n]
           /\ written'[r][stored[r] + 1] = Top(vm[r]).data
  <1> DEFINE data == Top(vm[r]).data
  <1>1. /\ stored' = [stored EXCEPT ![r] = @ + 1]
        /\ written' = [written EXCEPT ![r] = Append(@, data)]
    BY DEF Store
  <1>2. /\ stored \in [Robot -> Nat] /\ DOMAIN written = Robot
        /\ \A q \in Robot : written[q] \in Seq(Range(written[q])) /\ Len(written[q]) = stored[q]
    BY DEF IInv, Places
  <1>3. /\ \A q \in Robot : stored'[q] = IF q = r THEN stored[q] + 1 ELSE stored[q]
        /\ \A q \in Robot : written'[q] = IF q = r THEN Append(written[q], data) ELSE written[q]
    BY <1>1, <1>2
  <1>4. /\ \A n \in 1 .. stored[r] : written'[r][n] = written[r][n]
        /\ written'[r][stored[r] + 1] = data
    <2>1. written[r] \in Seq(Range(written[r])) /\ Len(written[r]) = stored[r]
      BY <1>2
    <2>2. written'[r] = Append(written[r], data)
      BY <1>3
    <2> HIDE DEF data
    <2> QED
      BY <2>1, <2>2, AppendedRange
  <1> QED
    BY <1>2, <1>3, <1>4

(* A store is made by a whole machine, and of something that may be sent. *)
LEMMA StoreIsSendable ==
    ASSUME IInv, CInv, NEW r \in Robot, Store(r), NoClosureIsStored'
    PROVE  /\ NoClosureIsStored /\ MachinesAreWhole /\ StoresAreSendable
           /\ IsGood(vm[r]) /\ IsGood(Fetched(vm[r]))
           /\ Depth(Fetched(vm[r])) # 0
           /\ Top(Fetched(vm[r])) = Top(vm[r]) /\ Top(vm[r]).data \in Sendable
  <1> DEFINE data == Top(vm[r]).data
  <1> DEFINE f == Fetched(vm[r])
  <1>1. /\ vm' = [vm EXCEPT ![r] = Stored(r)] /\ at' = [at EXCEPT ![r] = "check"]
        /\ Stored(r).state # "error" /\ IsStore(vm[r])
    BY DEF Store, Run
  <1>2. /\ \A q \in Robot : stored[q] \in Nat
        /\ \A q \in Robot : stored'[q] = IF q = r THEN stored[q] + 1 ELSE stored[q]
        /\ \A q \in Robot : \A n \in 1 .. stored[q] : written'[q][n] = written[q][n]
        /\ written'[r][stored[r] + 1] = data
    BY StoreAdds
  <1>3. data.type # "closure"
    <2>1. stored[r] + 1 \in 1 .. stored'[r]
      BY <1>2
    <2> QED
      BY <1>2, <2>1 DEF NoClosureIsStored
  <1>4. NoClosureIsStored /\ MachinesAreWhole /\ StoresAreSendable
    <2>1. ASSUME NEW q \in Robot, NEW n \in 1 .. stored[q] PROVE written[q][n].type # "closure"
      <3>1. n \in 1 .. stored'[q]
        <4>1. stored[q] \in Nat /\ stored'[q] \in {stored[q], stored[q] + 1}
          BY <1>2
        <4> QED
          BY <4>1
      <3>2. written'[q][n] = written[q][n]
        BY <1>2
      <3> QED
        BY <3>1, <3>2 DEF NoClosureIsStored
    <2>2. NoClosureIsStored
      BY <2>1 DEF NoClosureIsStored
    <2> QED
      BY <2>2 DEF CInv
  <1>5. IsGood(vm[r])
    BY <1>4 DEF MachinesAreWhole, IsGood, Store, AtInstruction
  <1>6. Becomes(vm[r], f) /\ IsGood(f) /\ f.stack = vm[r].stack
    <2>1. vm[r].program \in Program /\ vm[r].pc \in DOMAIN bytecode[vm[r].program]
          /\ bytecode[vm[r].program][vm[r].pc].kind = "instruction"
          /\ bytecode[vm[r].program][vm[r].pc].value = "store stig"
      BY <1>1, <1>5 DEF IsGood, IsWhole, IsStore, IsInstruction, Opcode
    <2>2. vm[r].pc + 1 \in Positions(vm[r].program)
      <3>1. vm[r].pc + 1 \in DOMAIN bytecode[vm[r].program]
        BY <2>1, BytecodeAssumption
      <3> QED
        BY <2>1, <3>1, Cell
    <2>3. f = [vm[r] EXCEPT !.pc = vm[r].pc + 1]
      BY DEF Fetched
    <2>4. f.stack = vm[r].stack
      BY <1>5, <2>3 DEF IsGood, IsWhole, IsRecord, Fields
    <2> HIDE DEF f
    <2> QED
      BY <1>5, <2>2, <2>3, <2>4, Setters DEF Becomes
  <1>7. Stored(r) = storeStig(f, r, Argument(vm[r]))
    BY DEF Stored
  <1>8. Depth(f) # 0 => Top(f).data \in Sendable
    <2>1. Depth(f) = Depth(vm[r]) /\ Top(f) = Top(vm[r])
      BY <1>6 DEF Depth, Top
    <2>2. Depth(vm[r]) # 0 => data \in Datum(Live(vm[r]))
      BY <1>5, StackHas
    <2> QED
      BY <1>3, <2>1, <2>2 DEF Datum
  <1>9. data \in Sendable /\ Depth(f) # 0 /\ Top(f) = Top(vm[r])
    <2>1. Depth(f) # 0
      <3>1. CASE Depth(f) = 0
        <4>1. Stored(r) = Fail(f)
          BY <1>7, <3>1 DEF storeStig
        <4>2. Fail(f).state = "error"
          BY <1>6 DEF Fail, IsGood, IsWhole, IsRecord, Fields
        <4> QED
          BY <1>1, <4>1, <4>2
      <3> QED
        BY <3>1
    <2>2. Top(f) = Top(vm[r])
      BY <1>6 DEF Top
    <2> QED
      BY <1>8, <2>1, <2>2
  <1> QED
    BY <1>4, <1>5, <1>6, <1>9

(* A store. *)
LEMMA StoreKeepsWhole == ASSUME IInv, CInv, NEW r \in Robot, Store(r) PROVE CInv'
  <1> DEFINE data == Top(vm[r]).data
  <1> DEFINE f == Fetched(vm[r])
  <1>1. /\ vm' = [vm EXCEPT ![r] = Stored(r)] /\ at' = [at EXCEPT ![r] = "check"]
        /\ Stored(r).state # "error" /\ IsStore(vm[r])
    BY DEF Store, Run
  <1>2. /\ \A q \in Robot : stored[q] \in Nat
        /\ \A q \in Robot : stored'[q] = IF q = r THEN stored[q] + 1 ELSE stored[q]
        /\ \A q \in Robot : \A n \in 1 .. stored[q] : written'[q][n] = written[q][n]
        /\ written'[r][stored[r] + 1] = data
    BY StoreAdds
  <1> SUFFICES ASSUME NoClosureIsStored' PROVE MachinesAreWhole' /\ StoresAreSendable'
    BY DEF CInv
  <1>3. /\ MachinesAreWhole /\ StoresAreSendable
        /\ IsGood(f) /\ Top(f).data \in Sendable /\ data \in Sendable
    BY StoreIsSendable
  <1>4. Stored(r) = storeStig(f, r, Argument(vm[r]))
    BY DEF Stored
  <1> HIDE DEF f
  <1>5. IsGood(Stored(r))
    BY <1>3, <1>4, StigmergyIsGood DEF Becomes
  <1>6. MachinesAreWhole'
    BY <1>1, <1>3, <1>5, MachineMoves DEF IsGood
  <1>7. StoresAreSendable'
    <2> HIDE DEF data
    <2> SUFFICES ASSUME NEW q \in Robot, NEW n \in 1 .. stored'[q] PROVE written'[q][n] \in Sendable
      BY DEF StoresAreSendable
    <2>1. CASE q = r /\ n = stored[r] + 1
      BY <1>2, <1>3, <2>1
    <2>2. CASE ~ (q = r /\ n = stored[r] + 1)
      <3>1. n \in 1 .. stored[q]
        <4>1. stored[q] \in Nat
          BY <1>2
        <4> QED
          BY <1>2, <2>2, <4>1
      <3>2. written'[q][n] = written[q][n]
        BY <1>2, <3>1
      <3> QED
        BY <1>3, <3>1, <3>2 DEF StoresAreSendable
    <2> QED
      BY <2>1, <2>2
  <1> QED
    BY <1>6, <1>7

(* A look at the socket. *)
LEMMA CheckKeepsWhole == ASSUME IInv, CInv, NEW r \in Robot, CheckForMessage(r) PROVE CInv'
  <1>1. at[r] = "check" /\ at' = [at EXCEPT ![r] = "instruction"] /\ UNCHANGED <<stored, written>>
    BY DEF CheckForMessage, NoMessage, ReceiveUpdate, EndStep, history
  <1> SUFFICES ASSUME NoClosureIsStored' PROVE MachinesAreWhole' /\ StoresAreSendable'
    BY DEF CInv
  <1>2. MachinesAreWhole /\ StoresAreSendable
    BY <1>1 DEF CInv, NoClosureIsStored
  <1>3. StoresAreSendable'
    BY <1>1, <1>2 DEF StoresAreSendable
  <1>4. IsGood(vm[r])
    BY <1>1, <1>2 DEF MachinesAreWhole, IsGood
  <1>5. \E m : IsGood(m) /\ vm' = [vm EXCEPT ![r] = stepEnd(m)]
    <2>1. CASE NoMessage(r)
      BY <1>4, <2>1 DEF NoMessage, EndStep
    <2>2. CASE ReceiveUpdate(r)
      <3> DEFINE update == Head(inbox[r])
      <3> DEFINE m == receiveStig(vm[r], update.robotID, update.name, update.data)
      <3>1. vm' = [vm EXCEPT ![r] = stepEnd(m)]
        BY <2>2 DEF ReceiveUpdate, EndStep
      <3>2. update \in Sent
        BY <2>2, ReceiveWrites
      <3> HIDE DEF update
      <3>3. update.robotID \in Robot /\ update.data \in Sendable
        BY <1>2, <3>2, UpdateFields DEF StoresAreSendable
      <3>4. IsGood(m)
        BY <1>4, <3>3, StigmergyIsGood DEF Becomes
      <3> QED
        BY <3>1, <3>4
    <2> QED
      BY <2>1, <2>2 DEF CheckForMessage
  <1>6. PICK m : IsGood(m) /\ vm' = [vm EXCEPT ![r] = stepEnd(m)]
    BY <1>5
  <1>7. MachinesAreWhole'
    <2>1. /\ IsWhole(stepEnd(m))
          /\ stepEnd(m).state # "done" => stepEnd(m).pc \in Positions(stepEnd(m).program)
      BY <1>6, EndIsWhole
    <2> QED
      BY <1>1, <1>2, <1>6, <2>1, MachineMoves
  <1> QED
    BY <1>3, <1>7

(* Every step of the swarm. *)
LEMMA NextCInv == IInv /\ CInv /\ [Next]_vars => CInv'
  <1> SUFFICES ASSUME IInv, CInv, [Next]_vars PROVE CInv'
    OBVIOUS
  <1>1. CASE UNCHANGED <<vm, at, stored, written>>
    BY <1>1 DEF CInv, NoClosureIsStored, MachinesAreWhole, StoresAreSendable
  <1>2. CASE RouterForward \/ \E r \in Robot : Register(r)
    BY <1>1, <1>2 DEF RouterForward, Register, history
  <1>3. CASE \E r \in Robot : RobotStep(r)
    BY <1>3, InstructionKeepsWhole, StoreKeepsWhole, CheckKeepsWhole DEF RobotStep
  <1>4. CASE UNCHANGED vars
    BY <1>1, <1>4 DEF vars, history
  <1> QED
    BY <1>2, <1>3, <1>4 DEF Next

(* However calls, reactions to updates and returns are interleaved on the  *)
(* robots of the swarm, the machine of each of them refers to closures     *)
(* that are there, as long as no robot has stored a closure (gc.cpp's      *)
(* markRoots and sweep; the raw pointers of the return address stack).     *)
THEOREM MachinesStayWhole == Spec => [](NoClosureIsStored => MachinesAreWhole)
  <1>1. Spec => []CInv
    BY InitCInv, NextCInv, Invariance, PTL DEF Spec
  <1>2. CInv => (NoClosureIsStored => MachinesAreWhole)
    BY DEF CInv
  <1> QED
    BY <1>1, <1>2, PTL

------------------------------------------------------------------------------
(* Variables of a whole machine refer to closures that are there. *)
LEMMA ReferredAreLive ==
    ASSUME NEW D, NEW n, NEW V, V \subseteq VariableOf(D, n) PROVE ClosuresIn(V) \subseteq D
  <1> SUFFICES ASSUME NEW v \in V, v.data.type = "closure" PROVE v.data.v \in D
    BY DEF ClosuresIn
  <1>1. v.data \in Datum(D)
    BY VariableHas
  <1> QED
    BY <1>1, SmallData

(* A whole machine refers to closures that are there. *)
LEMMA WholeRefersToLive ==
    ASSUME NEW m, IsGood(m), m.head > 0 PROVE Referred(m) \subseteq Live(m)
  <1>1. /\ IsMapTo(m.globals, VariablesOf(m)) /\ IsMapTo(m.tagged, VariablesOf(m))
        /\ m.stack \in Seq(VariablesOf(m))
        /\ m.frames \in Seq(FrameOf(Live(m), m.program))
        /\ \A i \in Live(m) : IsClosureOf(m.closures[i], Live(m), m.head)
        /\ m.current \in Live(m)
    BY DEF IsGood, IsWhole
  <1>2. ClosuresIn(Range(m.globals) \cup Range(m.tagged) \cup Range(m.stack)) \subseteq Live(m)
    <2>1. Range(m.globals) \subseteq VariablesOf(m) /\ Range(m.tagged) \subseteq VariablesOf(m)
      BY <1>1, MapHas DEF Range
    <2>2. Range(m.stack) \subseteq VariablesOf(m)
      <3> DEFINE V == VariablesOf(m)
      <3> HIDE DEF V
      <3>1. m.stack \in Seq(V)
        BY <1>1 DEF V
      <3>2. DOMAIN m.stack = 1 .. Len(m.stack) /\ \A k \in 1 .. Len(m.stack) : m.stack[k] \in V
        BY <3>1, LenProperties, ElementOfSeq
      <3> QED
        BY <3>2 DEF Range, V
    <2> QED
      BY <2>1, <2>2, ReferredAreLive DEF VariablesOf
  <1>3. \A k \in DOMAIN m.frames : m.frames[k].current \in Live(m)
    <2> DEFINE F == FrameOf(Live(m), m.program)
    <2>1. \A f \in F : f.current \in Live(m)
      BY DEF FrameOf
    <2> HIDE DEF F
    <2>2. m.frames \in Seq(F)
      BY <1>1 DEF F
    <2>3. DOMAIN m.frames = 1 .. Len(m.frames) /\ \A k \in 1 .. Len(m.frames) : m.frames[k] \in F
      BY <2>2, LenProperties, ElementOfSeq
    <2> QED
      BY <2>1, <2>3
  <1>4. Roots(m) \subseteq Live(m)
    BY <1>1, <1>2, <1>3 DEF Roots
  <1>5. ASSUME NEW i \in Live(m) PROVE References(m, m.closures[i]) \subseteq Live(m)
    <2> DEFINE c == m.closures[i]
    <2>1. IsClosureOf(c, Live(m), m.head)
      BY <1>1
    <2> HIDE DEF c
    <2>2. ClosuresIn(Range(c.local)) \subseteq Live(m)
      <3>1. Range(c.local) \subseteq VariableOf(Live(m), m.head)
        BY <2>1, MapHas DEF IsClosureOf, Range
      <3> QED
        BY <3>1, ReferredAreLive
    <2>3. ValueOf(c) \subseteq Live(m)
      BY <2>1, SmallData DEF ValueOf, IsClosureOf
    <2>4. ClosuresIn({findVariable(m, name) :
                         name \in {x \in ToSet(Dependencies(m, c)) : IsDefined(m, x)}}) \subseteq Live(m)
      <3> DEFINE found == {findVariable(m, name) :
                              name \in {x \in ToSet(Dependencies(m, c)) : IsDefined(m, x)}}
      <3>1. found \subseteq VariableOf(Live(m), m.head)
        BY TablesHave DEF VariablesOf
      <3> HIDE DEF found
      <3>2. ClosuresIn(found) \subseteq Live(m)
        BY <3>1, ReferredAreLive
      <3> QED
        BY <3>2 DEF found
    <2>5. References(m, c) \subseteq Live(m)
      BY <2>2, <2>3, <2>4 DEF References
    <2> QED
      BY <2>5 DEF c
  <1> QED
    BY <1>4, <1>5 DEF Referred, Live

(* The collector frees nothing that the program can still reach: what is   *)
(* on the operand stack or on the return address stack, in a table, or in  *)
(* a closure that is reached, is there, as long as no robot has stored a   *)
(* closure.                                                                *)
THEOREM CollectorFreesNothingReachable == Spec => [](NoClosureIsStored => NothingReachableIsFreed)
  <1>1. MachinesAreWhole => NothingReachableIsFreed
    <2> SUFFICES ASSUME MachinesAreWhole, NEW r \in Robot, vm[r].state = "ready", vm[r].head > 0
                 PROVE  Referred(vm[r]) \subseteq Live(vm[r])
      BY DEF NothingReachableIsFreed, Live
    <2>1. IsGood(vm[r])
      BY DEF MachinesAreWhole, IsGood
    <2> QED
      BY <2>1, WholeRefersToLive
  <1> QED
    BY <1>1, MachinesStayWhole, PTL

------------------------------------------------------------------------------
(* A whole variable is a variable. *)
LEMMA VariablesAreVariables ==
    ASSUME NEW m, IsWhole(m), NEW v \in VariablesOf(m) PROVE IsVariable(v)
  <1>1. /\ v.data \in Datum(Live(m)) /\ v.isStigmergy \in BOOLEAN
        /\ DOMAIN v.entries \subseteq Nat
        /\ \A k \in DOMAIN v.entries : v.entries[k] \in Sendable
        /\ v.iter \in DOMAIN v.entries \cup {End}
        /\ v.dependants \in Seq(0 .. m.head - 1)
    BY VariableHas DEF VariablesOf
  <1>2. Live(m) \subseteq Int
    BY DEF IsWhole, Index
  <1>3. v.data \in Data
    BY <1>1, <1>2 DEF Datum, Sendable, Data, DataType
  <1>4. Range(v.entries) \subseteq Data
    BY <1>1 DEF Range, Sendable, Data, DataType
  <1>5. v.dependants \in Seq(Nat)
    <2>1. 0 .. m.head - 1 \subseteq Nat
      OBVIOUS
    <2> QED
      BY <1>1, <2>1, SeqMonotonic
  <1> QED
    BY <1>1, <1>3, <1>4, <1>5 DEF IsVariable

(* A whole machine is a machine. *)
LEMMA WholeIsMachine ==
    ASSUME NEW m, IsWhole(m), m.state # "done" => m.pc \in Positions(m.program) PROVE IsMachine(m)
  <1>1. \A t : IsMapTo(t, VariablesOf(m)) => IsTable(t)
    BY VariablesAreVariables, MapHas DEF IsTable
  <1>2. IsFrame(m, Here(m)) \/ m.state = "done"
    BY DEF IsWhole, IsFrame, Here, Positions, Live
  <1>3. \A k \in DOMAIN m.frames : IsFrame(m, m.frames[k])
    <2> DEFINE F == FrameOf(Live(m), m.program)
    <2>1. \A f \in F : IsFrame(m, f)
      BY DEF FrameOf, IsFrame, Positions, Live
    <2>2. m.frames \in Seq(F)
      BY DEF IsWhole
    <2> HIDE DEF F
    <2>3. DOMAIN m.frames = 1 .. Len(m.frames) /\ \A k \in 1 .. Len(m.frames) : m.frames[k] \in F
      BY <2>2, LenProperties, ElementOfSeq
    <2> QED
      BY <2>1, <2>3
  <1>4. \A i \in DOMAIN m.closures : IsTable(m.closures[i].local) /\ m.closures[i].cachedValue \in Data
    <2> SUFFICES ASSUME NEW i \in Live(m)
                 PROVE  IsTable(m.closures[i].local) /\ m.closures[i].cachedValue \in Data
      BY DEF Live
    <2>1. IsClosureOf(m.closures[i], Live(m), m.head)
      BY DEF IsWhole
    <2>2. Live(m) \subseteq Int
      BY DEF IsWhole, Index
    <2>3. m.closures[i].cachedValue \in Data
      BY <2>1, <2>2 DEF IsClosureOf, Datum, Sendable, Data, DataType
    <2> QED
      BY <1>1, <2>1, <2>3 DEF IsClosureOf, VariablesOf
  <1>5. \A k \in DOMAIN m.stack : IsVariable(m.stack[k])
    <2> DEFINE V == VariablesOf(m)
    <2>1. \A v \in V : IsVariable(v)
      BY VariablesAreVariables
    <2>2. m.stack \in Seq(V)
      BY DEF IsWhole
    <2> HIDE DEF V
    <2>3. DOMAIN m.stack = 1 .. Len(m.stack) /\ \A k \in 1 .. Len(m.stack) : m.stack[k] \in V
      BY <2>2, LenProperties, ElementOfSeq
    <2> QED
      BY <2>1, <2>3
  <1> QED
    BY <1>1, <1>2, <1>3, <1>4, <1>5 DEF IsWhole, IsMachine, Live

(* The router knows robots, and nobody else has been listening. *)
Listeners == clients \subseteq Robot /\ audience \in [Robot -> SUBSET Robot]

(* It is so. *)
LEMMA ListenersAreRobots == Spec => []Listeners
  <1>1. Init => Listeners
    BY DEF Init, NetInit, Listeners
  <1>2. Listeners /\ [Next]_vars => Listeners'
    <2> SUFFICES ASSUME Listeners, [Next]_vars PROVE Listeners'
      OBVIOUS
    <2>1. CASE UNCHANGED <<clients, audience>>
      BY <2>1 DEF Listeners
    <2>2. CASE RouterForward
      BY <2>1, <2>2 DEF RouterForward, Forward, history
    <2>3. ASSUME NEW r \in Robot, Register(r) PROVE Listeners'
      BY <2>3 DEF Listeners, Register, AddClient, history
    <2>4. ASSUME NEW r \in Robot, Instruction(r) \/ CheckForMessage(r) PROVE Listeners'
      BY <2>1, <2>4 DEF Instruction, CheckForMessage, NoMessage, ReceiveUpdate, netVars, history
    <2>5. ASSUME NEW r \in Robot, Store(r) PROVE Listeners'
      BY <2>5 DEF Listeners, Store
    <2>6. CASE UNCHANGED vars
      BY <2>1, <2>6 DEF vars, netVars, history
    <2> QED
      BY <2>2, <2>3, <2>4, <2>5, <2>6 DEF Next, RobotStep
  <1> QED
    BY <1>1, <1>2, PTL DEF Spec

(* Every state has its type: in particular the scopes and the closures on  *)
(* the return address stack, to which the code keeps raw pointers, have    *)
(* not been freed by the collector, as long as no robot has stored a       *)
(* closure.                                                                *)
THEOREM TypeCorrectness == Spec => [](NoClosureIsStored => TypeOK)
  <1>1. IInv /\ CInv /\ Listeners => (NoClosureIsStored => TypeOK)
    <2> SUFFICES ASSUME IInv, CInv, Listeners, NoClosureIsStored PROVE TypeOK
      OBVIOUS
    <2>1. MachinesAreWhole /\ StoresAreSendable
      BY DEF CInv
    <2>2. \A r \in Robot : IsMachine(vm[r])
      BY <2>1, WholeIsMachine DEF MachinesAreWhole
    <2>3. \A q \in Robot : \A n \in 1 .. stored[q] : written[q][n] \in Data
      BY <2>1 DEF StoresAreSendable, Sendable, Data, DataType
    <2>4. Sent \subseteq Message
      <3> SUFFICES ASSUME NEW q \in Robot, NEW n \in 1 .. stored[q] PROVE StoreOf(q, n) \in Message
        BY DEF Sent
      <3>1. n \in Nat
        BY DEF IInv, Places
      <3> QED
        BY <2>3, <3>1, SharedAssumption DEF StoreOf, Message
    <2>5. router \in Seq(Message) /\ inbox \in [Robot -> Seq(Message)]
      <3> DEFINE M == Message
      <3> HIDE DEF M
      <3>1. \A q \in Seq(Sent) : q \in Seq(M)
        BY <2>4, ShownAgain DEF M
      <3>2. router \in Seq(M) /\ inbox \in [Robot -> Seq(M)]
        BY <3>1 DEF IInv, Carried
      <3> QED
        BY <3>2 DEF M
    <2>6. \A r \in Robot : written[r] \in Seq(Data) /\ Len(written[r]) = stored[r]
      <3> SUFFICES ASSUME NEW r \in Robot PROVE written[r] \in Seq(Data) /\ Len(written[r]) = stored[r]
        OBVIOUS
      <3> DEFINE D == Data
      <3>1. written[r] \in Seq(Range(written[r])) /\ Len(written[r]) = stored[r] /\ stored[r] \in Nat
        BY DEF IInv, Places
      <3>2. \A n \in 1 .. stored[r] : written[r][n] \in D
        BY <2>3
      <3> HIDE DEF D
      <3>3. written[r] = [n \in 1 .. stored[r] |-> written[r][n]]
        BY <3>1
      <3>4. written[r] \in [1 .. stored[r] -> D]
        BY <3>2, <3>3
      <3>5. written[r] \in Seq(D)
        BY <3>1, <3>4
      <3> QED
        BY <3>1, <3>5 DEF D
    <2> QED
      BY <2>2, <2>5, <2>6 DEF TypeOK, Listeners, IInv, Places
  <1>2. Spec => []CInv
    BY InitCInv, NextCInv, Invariance, PTL DEF Spec
  <1> QED
    BY <1>1, <1>2, Invariance, ListenersAreRobots, PTL

==============================================================================
