----------------------------- MODULE ScopeProofs -----------------------------
(***************************************************************************)
(* A robot executes the body of a closure with the local variables of an   *)
(* instance of that closure, and returns to code in the scope it was       *)
(* written for, however calls, reactions to updates and returns are        *)
(* interleaved: of every program whose closure bodies are apart, as those  *)
(* that codegen.cpp lays out are.                                          *)
(***************************************************************************)
EXTENDS CollectorProofs

(* A machine all of whose closures have a template. *)
IsFramed(m) == IsRecord(m) /\ \A i \in Live(m) : "template" \in DOMAIN m.closures[i]

(* From m to n the closures that are there keep their code. *)
KeepsCode(m, n) ==
    /\ n.program = m.program
    /\ Live(m) \subseteq Live(n)
    /\ \A i \in Live(m) : n.closures[i].template = m.closures[i].template

(* From m to n the machine stays at its place, in its scope. *)
Stays(m, n) ==
    /\ IsFramed(n)
    /\ KeepsCode(m, n)
    /\ n.pc = m.pc /\ n.frames = m.frames
    /\ n.scope = m.scope /\ n.current = m.current

------------------------------------------------------------------------------
(* The closures of a good machine have templates. *)
LEMMA GoodIsFramed == ASSUME NEW m, IsGood(m) PROVE IsFramed(m)
  BY DEF IsGood, IsWhole, IsClosureOf, ClosureFields, IsFramed

(* To stay twice. *)
LEMMA StaysAgain ==
    ASSUME NEW l, NEW m, NEW n, Stays(l, m), Stays(m, n) PROVE Stays(l, n)
  BY DEF Stays, KeepsCode

(* A machine that stays has closures with templates. *)
LEMMA StaysFramed == ASSUME NEW m, NEW n, Stays(m, n) PROVE IsFramed(n)
  BY DEF Stays

(* A closure becomes one of the same template. *)
LEMMA ClosureStays ==
    ASSUME NEW m, IsFramed(m), NEW i, NEW c,
           i \in Live(m) => "template" \in DOMAIN c /\ c.template = m.closures[i].template
    PROVE  Stays(m, [m EXCEPT !.closures[i] = c])
  <1> DEFINE n == [m EXCEPT !.closures[i] = c]
  <1>1. /\ IsRecord(n) /\ n.program = m.program
        /\ n.pc = m.pc /\ n.frames = m.frames /\ n.scope = m.scope /\ n.current = m.current
        /\ n.closures = [m.closures EXCEPT ![i] = c]
    BY DEF IsFramed, IsRecord, Fields
  <1> HIDE DEF n
  <1>2. /\ Live(n) = Live(m)
        /\ \A j \in Live(m) : n.closures[j] = IF j = i THEN c ELSE m.closures[j]
    BY <1>1 DEF Live
  <1>3. \A j \in Live(n) : "template" \in DOMAIN n.closures[j]
    BY <1>2 DEF IsFramed
  <1>4. \A j \in Live(m) : n.closures[j].template = m.closures[j].template
    BY <1>2
  <1>5. Stays(m, n)
    BY <1>1, <1>2, <1>3, <1>4 DEF Stays, IsFramed, KeepsCode
  <1> QED
    BY <1>5 DEF n

(* Closures that are not there are made. *)
LEMMA TouchStays == ASSUME NEW m, IsFramed(m), NEW s PROVE Stays(m, Touch(m, s))
  <1> DEFINE n == Touch(m, s)
  <1>1. /\ IsRecord(n) /\ n.program = m.program
        /\ n.pc = m.pc /\ n.frames = m.frames /\ n.scope = m.scope /\ n.current = m.current
        /\ n.closures = Above(m.closures, [i \in s |-> Closure(NoTemplate)])
    BY DEF Touch, IsFramed, IsRecord, Fields
  <1> HIDE DEF n
  <1>2. /\ Live(n) = Live(m) \cup s
        /\ \A j \in Live(m) : n.closures[j] = m.closures[j]
        /\ \A j \in s \ Live(m) : n.closures[j] = Closure(NoTemplate)
    BY <1>1 DEF Live, Above
  <1>3. "template" \in DOMAIN Closure(NoTemplate)
    BY DEF Closure
  <1>4. Stays(m, n)
    BY <1>1, <1>2, <1>3 DEF Stays, IsFramed, KeepsCode
  <1> QED
    BY <1>4 DEF n

(* The ways in which the handlers change a machine where it is. *)
LEMMA Stayers ==
    ASSUME NEW m, IsFramed(m)
    PROVE  /\ Stays(m, m)
           /\ Stays(m, Fail(m))
           /\ \A v : Stays(m, PushVariable(m, v))
           /\ \A d : Stays(m, Push(m, d))
           /\ \A n : Stays(m, Pop(m, n))
           /\ \A name, v : Stays(m, SetLocal(m, name, v))
           /\ \A name, v : Stays(m, SetGlobal(m, name, v))
           /\ \A name, v : Stays(m, SetTagged(m, name, v))
           /\ \A name, v : Stays(m, SetFound(m, name, v))
           /\ \A b : Stays(m, [m EXCEPT !.moved = b])
  <1> USE DEF IsFramed, IsRecord, Fields, Stays, KeepsCode, Live
  <1>1. Stays(m, m) /\ Stays(m, Fail(m)) /\ \A b : Stays(m, [m EXCEPT !.moved = b])
    BY DEF Fail
  <1>2. \A v : Stays(m, PushVariable(m, v))
    BY DEF PushVariable
  <1>3. \A d : Stays(m, Push(m, d))
    BY <1>2 DEF Push
  <1>4. \A n : Stays(m, Pop(m, n))
    BY DEF Pop
  <1>5. \A name, v : Stays(m, SetGlobal(m, name, v))
    BY DEF SetGlobal
  <1>6. \A name, v : Stays(m, SetTagged(m, name, v))
    BY DEF SetTagged
  <1>7. ASSUME NEW name, NEW v PROVE Stays(m, SetLocal(m, name, v))
    <2>1. CASE m.scope = GlobalScope
      BY <1>5, <2>1 DEF SetLocal, SetGlobal
    <2>2. CASE m.scope # GlobalScope
      <3> DEFINE c == m.closures[m.scope]
      <3> DEFINE d == [c EXCEPT !.local = Put(@, name, v)]
      <3>1. m.scope \in Live(m) => "template" \in DOMAIN d /\ d.template = c.template
        OBVIOUS
      <3>2. SetLocal(m, name, v) = [m EXCEPT !.closures[m.scope] = d]
        BY <2>2 DEF SetLocal
      <3> HIDE DEF d
      <3> QED
        BY <3>1, <3>2, ClosureStays
    <2> QED
      BY <2>1, <2>2
  <1>8. ASSUME NEW name, NEW v PROVE Stays(m, SetFound(m, name, v))
    <2>1. SetFound(m, name, v) \in {SetLocal(m, name, v), SetGlobal(m, name, v), SetTagged(m, name, v)}
      BY DEF SetFound
    <2> HIDE DEF Stays
    <2> QED
      BY <1>5, <1>6, <1>7, <2>1
  <1> HIDE DEF Stays
  <1> QED
    BY <1>1, <1>2, <1>3, <1>4, <1>5, <1>6, <1>7, <1>8

(* The instructions that leave the machine where it is. *)
LEMMA OperandsStay ==
    ASSUME NEW m, IsFramed(m)
    PROVE  /\ \A op : Stays(m, BinaryOnStack(m, op))
           /\ Stays(m, swap(m)) /\ Stays(m, dup(m)) /\ Stays(m, pop(m))
           /\ Stays(m, isNil(m)) /\ Stays(m, uncache(m))
           /\ \A name : Stays(m, loadToStack(m, name))
           /\ \A name : Stays(m, tagVariable(m, name))
           /\ \A name : Stays(m, stigSize(m, name))
           /\ \A name : Stays(m, isIterAtEnd(m, name))
           /\ \A name : Stays(m, callCClosure(m, name))
           /\ \A name : Stays(m, pushNextElementOfStig(m, name))
           /\ \A name : Stays(m, resetIterOf(m, name))
           /\ \A n, d : Stays(m, Push(Pop(m, n), d))
  <1>1. \A n : Stays(m, Pop(m, n)) /\ IsFramed(Pop(m, n))
    BY Stayers DEF Stays
  <1>2. \A n, v : Stays(m, PushVariable(Pop(m, n), v))
    BY <1>1, Stayers, StaysAgain
  <1>3. \A n, d : Stays(m, Push(Pop(m, n), d))
    BY <1>1, Stayers, StaysAgain
  <1>4. \A op : Stays(m, BinaryOnStack(m, op))
    BY <1>3, Stayers DEF BinaryOnStack
  <1>5. Stays(m, swap(m))
    <2>1. IsFramed(PushVariable(Pop(m, 2), Top(m)))
      BY <1>2 DEF Stays
    <2> QED
      BY <2>1, <1>2, Stayers, StaysAgain DEF swap
  <1>6. Stays(m, dup(m)) /\ Stays(m, pop(m)) /\ Stays(m, isNil(m))
    BY Stayers DEF dup, pop, isNil
  <1>7. Stays(m, uncache(m))
    BY <1>3, Stayers DEF uncache
  <1>8. ASSUME NEW name PROVE Stays(m, loadToStack(m, name)) /\ Stays(m, tagVariable(m, name))
    BY Stayers DEF loadToStack, tagVariable
  <1>9. ASSUME NEW name PROVE Stays(m, stigSize(m, name)) /\ Stays(m, isIterAtEnd(m, name))
    BY Stayers DEF stigSize, isIterAtEnd
  <1>10. ASSUME NEW name PROVE Stays(m, callCClosure(m, name))
    <2> DEFINE n == Push(m, IntData(0))
    <2>1. Stays(m, n) /\ IsFramed(n)
      BY Stayers DEF Stays
    <2> HIDE DEF n
    <2>2. \A b : Stays(m, [n EXCEPT !.moved = b])
      BY <2>1, Stayers, StaysAgain
    <2> QED
      BY <2>2, Stayers DEF callCClosure, n
  <1>11. \A v, name, d : Stays(m, Push(SetTagged(m, name, v), d))
    <2>1. \A v, name : Stays(m, SetTagged(m, name, v)) /\ IsFramed(SetTagged(m, name, v))
      BY Stayers DEF Stays
    <2> QED
      BY <2>1, Stayers, StaysAgain
  <1>12. ASSUME NEW name PROVE Stays(m, pushNextElementOfStig(m, name)) /\ Stays(m, resetIterOf(m, name))
    BY <1>11, Stayers DEF pushNextElementOfStig, resetIterOf
  <1> QED
    BY <1>3, <1>4, <1>5, <1>6, <1>7, <1>8, <1>9, <1>10, <1>12

(* An instance becomes a dependant of a variable, and of its closure. *)
LEMMA DependStays ==
    ASSUME NEW m, IsFramed(m), NEW name, NEW i PROVE Stays(m, Depend(m, name, i))
  <1> DEFINE v == findVariable(m, name)
  <1> DEFINE n == SetFound(m, name, AddDependant(v, i))
  <1> DEFINE c == v.data.v
  <1> DEFINE touched == Touch(n, {c})
  <1> DEFINE d == AddDependant(touched.closures[c], i)
  <1> DEFINE added == [touched EXCEPT !.closures[c] = d]
  <1>1. Depend(m, name, i) \in {Fail(m), n, added}
    BY DEF Depend
  <1>2. Stays(m, n) /\ IsFramed(n)
    BY Stayers DEF Stays
  <1> HIDE DEF n, c
  <1>3. Stays(n, touched) /\ IsFramed(touched)
    BY <1>2, TouchStays DEF Stays
  <1> HIDE DEF touched
  <1>4. c \in Live(touched) => "template" \in DOMAIN d /\ d.template = touched.closures[c].template
    BY <1>3 DEF IsFramed, AddDependant
  <1> HIDE DEF d
  <1>5. Stays(touched, added)
    BY <1>3, <1>4, ClosureStays
  <1> HIDE DEF added
  <1>6. Stays(m, added)
    BY <1>2, <1>3, <1>5, StaysAgain
  <1> QED
    BY <1>1, <1>2, <1>6, Stayers

(* The same for one name after the other. *)
LEMMA DependOnAllStays ==
    ASSUME NEW m, IsFramed(m), NEW S, NEW on \in Seq(S), NEW i PROVE Stays(m, DependOnAll(m, on, i))
  <1>1. PICK after : Depends(m, on, i, after)
    BY DependsInTurn
  <1>2. Len(on) \in Nat
    OBVIOUS
  <1> DEFINE K == {k \in 0 .. Len(on) : Stays(m, after[k])}
  <1>3. 0 \in K
    <2>1. Stays(m, m)
      BY Stayers
    <2> QED
      BY <1>1, <1>2, <2>1 DEF Depends
  <1>4. ASSUME NEW k \in 1 .. Len(on), k - 1 \in K PROVE k \in K
    <2>1. after[k] = Depend(after[k - 1], on[k], i)
      BY <1>1 DEF Depends
    <2>2. Stays(m, after[k - 1]) /\ IsFramed(after[k - 1])
      BY <1>4 DEF Stays
    <2>3. Stays(m, after[k])
      BY <2>1, <2>2, DependStays, StaysAgain
    <2> QED
      BY <2>3
  <1>5. Len(on) \in K
    <2> HIDE DEF K
    <2>1. \A k \in 1 .. Len(on) : k - 1 \in K => k \in K
      BY <1>4
    <2>2. 0 .. Len(on) \subseteq K
      BY <1>2, <1>3, <2>1, UpTo
    <2> QED
      BY <1>2, <2>2
  <1> QED
    BY <1>1, <1>5 DEF Depends

------------------------------------------------------------------------------
(* A place to go on from at cell next has the scope its code was written   *)
(* for, unless it is in an empty closure, which has no code.               *)
Fits(m, f, next) ==
    \/ f.scope # GlobalScope /\ ~ HasTemplate(m, m.closures[f.scope])
    \/ ScopeFitsCode(m, f, next)

(* The places that do when the machine returns to them. *)
Fitting(m) == {f \in FrameOf(Live(m), m.program) : Fits(m, f, f.pc + 1)}

(* A machine that is about to go to its next instruction, *)
Settled(m) == Fits(m, Here(m), m.pc + 1) /\ m.frames \in Seq(Fitting(m))

(* and one that is there. *)
Standing(m) == Fits(m, Here(m), m.pc) /\ m.frames \in Seq(Fitting(m))

(* Whether a place fits depends on the code of the closures only. *)
LEMMA FitsAlong ==
    ASSUME NEW m, NEW n, KeepsCode(m, n), NEW f, f.scope \in Live(m) \cup {GlobalScope}, NEW next
    PROVE  Fits(n, f, next) <=> Fits(m, f, next)
  <1>1. n.program = m.program
    BY DEF KeepsCode
  <1>2. CASE f.scope = GlobalScope
    BY <1>1, <1>2 DEF Fits, ScopeFitsCode
  <1>3. CASE f.scope # GlobalScope
    <2>1. n.closures[f.scope].template = m.closures[f.scope].template
      BY <1>3 DEF KeepsCode
    <2> QED
      BY <1>1, <1>3, <2>1 DEF Fits, ScopeFitsCode, HasTemplate
  <1> QED
    BY <1>2, <1>3

(* More closures, more places. *)
LEMMA FittingAlong ==
    ASSUME NEW m, NEW n, KeepsCode(m, n) PROVE Fitting(m) \subseteq Fitting(n)
  <1> SUFFICES ASSUME NEW f \in Fitting(m) PROVE f \in Fitting(n)
    OBVIOUS
  <1>1. f \in FrameOf(Live(m), m.program) /\ Fits(m, f, f.pc + 1)
    BY DEF Fitting
  <1>2. f.scope \in Live(m) \cup {GlobalScope} /\ f \in FrameOf(Live(n), n.program)
    BY <1>1 DEF FrameOf, KeepsCode
  <1>3. Fits(n, f, f.pc + 1)
    BY <1>1, <1>2, FitsAlong
  <1> QED
    BY <1>2, <1>3 DEF Fitting

(* Where a good machine is. *)
LEMMA HereIsLive ==
    ASSUME NEW m, IsGood(m) PROVE Here(m).scope \in Live(m) \cup {GlobalScope}
  BY DEF Here, IsGood, IsWhole

(* A machine that stays is settled if it was. *)
LEMMA StaysSettled ==
    ASSUME NEW m, IsGood(m), NEW n, Stays(m, n), Settled(m) PROVE Settled(n)
  <1>1. Here(n) = Here(m) /\ n.pc = m.pc /\ n.frames = m.frames /\ KeepsCode(m, n)
    BY DEF Here, Stays
  <1>2. Fits(n, Here(n), n.pc + 1)
    BY <1>1, HereIsLive, FitsAlong DEF Settled
  <1>3. Fitting(m) \subseteq Fitting(n)
    BY <1>1, FittingAlong
  <1>4. n.frames \in Seq(Fitting(n))
    BY <1>1, <1>3, SeqMonotonic DEF Settled
  <1> QED
    BY <1>2, <1>4 DEF Settled

(* The place a settled machine is at, to return to. *)
LEMMA HereIsFitting ==
    ASSUME NEW m, IsGood(m), Settled(m), m.head # 0 PROVE Here(m) \in Fitting(m)
  BY HereIsAFrame DEF Here, Fitting, Settled

(* The code of a closure fits its instances. *)
LEMMA BodyFits ==
    ASSUME NEW m, BodiesAreApart(m.program), NEW f, NEW c,
           f.scope # GlobalScope, f.current = f.scope,
           m.closures[f.scope].template = c.template
    PROVE  Fits(m, f, CodePointer(m, c) + 1)
  <1>1. CASE ~ HasTemplate(m, c)
    BY <1>1 DEF Fits, HasTemplate
  <1>2. CASE HasTemplate(m, c)
    <2>1. BodyOf(m.program, CodePointer(m, c) + 1) = c.template
      BY <1>2 DEF HasTemplate, CodePointer, BodiesAreApart
    <2> QED
      BY <2>1 DEF Fits, ScopeFitsCode
  <1> QED
    BY <1>1, <1>2

(* The entry of a closure that is there. *)
LEMMA EntryFits ==
    ASSUME NEW m, IsGood(m), BodiesAreApart(m.program), NEW i \in Live(m)
    PROVE  EntryOf(m, i) \in Fitting(m)
  <1> DEFINE f == EntryOf(m, i)
  <1>1. f \in [scope : {i}, pc : {CodePointer(m, m.closures[i])}, current : {i}]
    BY DEF EntryOf
  <1>2. CodePointer(m, m.closures[i]) \in Positions(m.program)
    BY CodeIsThere
  <1>3. i \in Nat
    BY DEF IsGood, IsWhole, Index
  <1> HIDE DEF f
  <1>4. f \in FrameOf(Live(m), m.program)
    BY <1>1, <1>2 DEF FrameOf
  <1>5. f.scope = i /\ f.current = i /\ f.pc = CodePointer(m, m.closures[i]) /\ i # GlobalScope
    BY <1>1, <1>3 DEF GlobalScope
  <1>6. Fits(m, f, f.pc + 1)
    BY <1>5, BodyFits
  <1>7. f \in Fitting(m)
    BY <1>4, <1>6 DEF Fitting
  <1> QED
    BY <1>7 DEF f

(* A machine that goes to another place. *)
LEMMA Entered ==
    ASSUME NEW m, IsRecord(m), NEW f \in Fitting(m), m.frames \in Seq(Fitting(m))
    PROVE  Settled(Enter(m, f))
  <1> DEFINE n == Enter(m, f)
  <1>1. /\ n.scope = f.scope /\ n.pc = f.pc /\ n.current = f.current
        /\ n.frames = m.frames /\ n.closures = m.closures /\ n.program = m.program
    BY DEF Enter, IsRecord, Fields
  <1> HIDE DEF n
  <1>2. /\ Here(n).scope = f.scope /\ Here(n).current = f.current /\ Fits(m, f, f.pc + 1)
    BY <1>1 DEF Here, Fitting
  <1>3. Fits(n, Here(n), n.pc + 1)
    BY <1>1, <1>2 DEF Fits, ScopeFitsCode, HasTemplate
  <1>4. Fitting(n) = Fitting(m)
    BY <1>1 DEF Fitting, Fits, ScopeFitsCode, HasTemplate, Live
  <1>5. Settled(n)
    BY <1>1, <1>3, <1>4 DEF Settled
  <1> QED
    BY <1>5 DEF n

(* A reaction runs closures in their scopes, and returns to one. *)
LEMMA ReactionsSettle ==
    ASSUME NEW m, IsGood(m), BodiesAreApart(m.program), Settled(m), NEW list \in Seq(Index(m))
    PROVE  Settled(handleDependants(m, list))
  <1> DEFINE visited == WithDependants(m, list)
  <1> DEFINE touched == Touch(m, ToSet(visited))
  <1> DEFINE waiting == [k \in 1 .. Len(visited) - 1 |-> EntryOf(touched, visited[k + 1])]
  <1> DEFINE framed == [touched EXCEPT !.frames = Append(@, Here(m)) \o Reverse(waiting)]
  <1> DEFINE entered == Enter(framed, EntryOf(touched, Head(visited)))
  <1>1. CASE list = <<>> \/ IsCyclic(DependantsOf(m), ToSet(list))
    <2>1. handleDependants(m, list) \in {m, Fail(m)}
      BY <1>1 DEF handleDependants
    <2>2. Stays(m, m) /\ Stays(m, Fail(m))
      BY GoodIsFramed, Stayers
    <2> QED
      BY <2>1, <2>2, StaysSettled
  <1>2. CASE ~ (list = <<>> \/ IsCyclic(DependantsOf(m), ToSet(list)))
    <2>1. handleDependants(m, list) = entered
      BY <1>2 DEF handleDependants, Once
    <2>2. visited \in Seq(Index(m)) /\ visited # <<>>
      BY <1>2, Visited
    <2> HIDE DEF visited
    <2>3. /\ Len(visited) \in Nat \ {0} /\ DOMAIN visited = 1 .. Len(visited)
          /\ \A k \in 1 .. Len(visited) : visited[k] \in Index(m)
          /\ Head(visited) = visited[1]
      BY <2>2, LenProperties, ElementOfSeq, EmptySeq
    <2>4. /\ ToSet(visited) \subseteq Index(m)
          /\ \A k \in 1 .. Len(visited) : visited[k] \in ToSet(visited)
      BY <2>3 DEF ToSet
    <2>5. /\ Becomes(m, touched) /\ IsGood(touched)
          /\ Live(touched) = Live(m) \cup ToSet(visited)
          /\ touched.frames = m.frames /\ touched.program = m.program
      BY <2>4, Toucher DEF Becomes
    <2>6. KeepsCode(m, touched)
      BY GoodIsFramed, TouchStays DEF Stays
    <2> HIDE DEF touched
    <2>7. m.head # 0
      <3>1. m.head \in Nat
        BY DEF IsGood, IsWhole
      <3> QED
        BY <2>3, <3>1 DEF Index
    <2>8. \A k \in 1 .. Len(visited) : EntryOf(touched, visited[k]) \in Fitting(touched)
      BY <2>4, <2>5, EntryFits
    <2> DEFINE F == Fitting(touched)
    <2>9. Append(m.frames, Here(m)) \in Seq(F)
      <3>1. m.frames \in Seq(Fitting(m)) /\ Here(m) \in Fitting(m)
        BY <2>7, HereIsFitting DEF Settled
      <3>2. Append(m.frames, Here(m)) \in Seq(Fitting(m))
        BY <3>1, AppendProperties
      <3>3. Fitting(m) \subseteq F
        BY <2>6, FittingAlong
      <3> HIDE DEF F
      <3> QED
        BY <3>2, <3>3, SeqMonotonic
    <2>10. Reverse(waiting) \in Seq(F)
      <3> DEFINE l == Len(visited) - 1
      <3>1. l \in Nat /\ \A k \in 1 .. l : k + 1 \in 1 .. Len(visited)
        BY <2>3
      <3>2. waiting \in [1 .. l -> F]
        BY <2>8, <3>1
      <3> HIDE DEF waiting, F, l
      <3>3. waiting \in Seq(F) /\ Len(waiting) = l
        BY <3>1, <3>2
      <3>4. Reverse(waiting) = [i \in 1 .. l |-> waiting[l - i + 1]]
        BY <3>3 DEF Reverse
      <3>5. \A i \in 1 .. l : l - i + 1 \in 1 .. l
        BY <3>1
      <3>6. Reverse(waiting) \in [1 .. l -> F]
        BY <3>2, <3>4, <3>5
      <3> QED
        BY <3>1, <3>6
    <2> DEFINE q == Append(m.frames, Here(m)) \o Reverse(waiting)
    <2>11. q \in Seq(F)
      <3> HIDE DEF waiting, F
      <3> QED
        BY <2>9, <2>10, ConcatProperties
    <2>12. /\ IsRecord(framed) /\ framed.frames = q
           /\ framed.closures = touched.closures /\ framed.program = touched.program
      <3>1. IsRecord(touched)
        BY <2>5 DEF IsGood, IsWhole
      <3> HIDE DEF waiting
      <3> QED
        BY <2>5, <3>1 DEF IsRecord, Fields
    <2> HIDE DEF framed, q
    <2>13. Fitting(framed) = F
      BY <2>12 DEF Fitting, Fits, ScopeFitsCode, HasTemplate, Live
    <2>14. EntryOf(touched, Head(visited)) \in F
      BY <2>3, <2>8
    <2> HIDE DEF F
    <2> QED
      BY <2>1, <2>11, <2>12, <2>13, <2>14, Entered
  <1> QED
    BY <1>1, <1>2

------------------------------------------------------------------------------
(* A variable is set, something may be taken off the stack, and closures   *)
(* react.                                                                  *)
LEMMA SetAndSettle ==
    ASSUME NEW m, IsGood(m), BodiesAreApart(m.program), Settled(m),
           NEW n, Becomes(m, n), Stays(m, n), NEW list \in Seq(Index(m)), NEW k \in Nat
    PROVE  /\ Settled(n) /\ Settled(Pop(n, k))
           /\ Settled(handleDependants(n, list))
           /\ Settled(handleDependants(Pop(n, k), list))
  <1>1. IsGood(n) /\ n.program = m.program /\ Settled(n) /\ IsFramed(n)
    BY StaysSettled DEF Becomes, Stays
  <1>2. IsGood(Pop(n, k)) /\ Becomes(n, Pop(n, k)) /\ Pop(n, k).program = m.program
    BY <1>1, Popped DEF Becomes
  <1>3. Settled(Pop(n, k))
    BY <1>1, Stayers, StaysSettled
  <1>4. list \in Seq(Index(n)) /\ list \in Seq(Index(Pop(n, k)))
    <2>1. Becomes(m, Pop(n, k))
      BY <1>2, BecomesAgain
    <2> QED
      BY <2>1, GrowsAlong, SeqMonotonic
  <1> QED
    BY <1>1, <1>2, <1>3, <1>4, ReactionsSettle

(* A store of plain data. *)
LEMMA StoresSettle ==
    ASSUME NEW m, IsGood(m), BodiesAreApart(m.program), Settled(m), NEW name
    PROVE  /\ Settled(storeLocal(m, name))
           /\ Settled(storeGlobal(m, name))
           /\ Settled(storeTagged(m, name))
  <1>0. IsFramed(m)
    BY GoodIsFramed
  <1>1. Settled(Fail(m))
    BY <1>0, Stayers, StaysSettled
  <1>2. ASSUME Depth(m) # 0, NEW table, IsMapTo(table, VariablesOf(m)), IsMutable(table, name)
        PROVE  /\ Mutated(table[name], Top(m).data) \in VariablesOf(m)
               /\ table[name].dependants \in Seq(Index(m))
    <2>1. table[name] \in VariablesOf(m)
      BY <1>2, MapHas DEF IsMutable
    <2>2. Top(m).data \in Datum(Live(m))
      BY <1>2, StackHas
    <2> QED
      BY <2>1, <2>2, MadeVariables, DependantsAreThere DEF VariablesOf
  <1>3. IsMapTo(Locals(m), VariablesOf(m)) /\ IsMapTo(m.globals, VariablesOf(m))
        /\ IsMapTo(m.tagged, VariablesOf(m))
    BY TablesHave DEF IsGood, IsWhole
  <1>4. Depth(m) # 0 => Top(m) \in VariablesOf(m)
    BY StackHas
  <1>5. <<>> \in Seq(Index(m))
    OBVIOUS
  <1>6. ASSUME NEW v \in VariablesOf(m)
        PROVE  /\ Becomes(m, SetLocal(m, name, v)) /\ Stays(m, SetLocal(m, name, v))
               /\ Becomes(m, SetGlobal(m, name, v)) /\ Stays(m, SetGlobal(m, name, v))
               /\ Becomes(m, SetTagged(m, name, v)) /\ Stays(m, SetTagged(m, name, v))
    BY <1>0, LocalSetter, Setters, Stayers
  <1>7. ASSUME NEW v \in VariablesOf(m), NEW list \in Seq(Index(m))
        PROVE  /\ Settled(Pop(SetLocal(m, name, v), 1))
               /\ Settled(Pop(SetGlobal(m, name, v), 1))
               /\ Settled(Pop(SetTagged(m, name, v), 1))
               /\ Settled(handleDependants(Pop(SetLocal(m, name, v), 1), list))
               /\ Settled(handleDependants(Pop(SetGlobal(m, name, v), 1), list))
               /\ Settled(handleDependants(Pop(SetTagged(m, name, v), 1), list))
    BY <1>6, SetAndSettle
  <1>8. Settled(storeLocal(m, name))
    BY <1>1, <1>2, <1>3, <1>4, <1>5, <1>7 DEF storeLocal
  <1>9. Settled(storeGlobal(m, name))
    BY <1>1, <1>2, <1>3, <1>4, <1>5, <1>7 DEF storeGlobal
  <1>10. Settled(storeTagged(m, name))
    BY <1>1, <1>2, <1>3, <1>4, <1>5, <1>7 DEF storeTagged
  <1> QED
    BY <1>8, <1>9, <1>10

(* A store of something that may be sent, and an update. *)
LEMMA StigmergySettles ==
    ASSUME NEW m, IsGood(m), BodiesAreApart(m.program), Settled(m), NEW id \in Robot, NEW name
    PROVE  /\ (Depth(m) # 0 => Top(m).data \in Sendable) => Settled(storeStig(m, id, name))
           /\ \A data \in Sendable : Settled(receiveStig(m, id, name, data))
  <1>0. IsFramed(m)
    BY GoodIsFramed
  <1>1. Settled(Fail(m))
    BY <1>0, Stayers, StaysSettled
  <1>2. ASSUME NEW v \in VariablesOf(m), NEW list \in Seq(Index(m))
        PROVE  /\ Settled(SetTagged(m, name, v))
               /\ Settled(Pop(SetTagged(m, name, v), 1))
               /\ Settled(handleDependants(SetTagged(m, name, v), list))
               /\ Settled(handleDependants(Pop(SetTagged(m, name, v), 1), list))
    <2>1. Becomes(m, SetTagged(m, name, v)) /\ Stays(m, SetTagged(m, name, v))
      BY <1>0, Setters, Stayers
    <2> QED
      BY <2>1, SetAndSettle
  <1>3. ASSUME NEW data \in Sendable, NEW v \in VariablesOf(m)
        PROVE  /\ updateStigValue(v, id, data) \in VariablesOf(m)
               /\ resetIter(updateStigValue(v, id, data)) \in VariablesOf(m)
    BY MadeVariables, Iterators DEF VariablesOf
  <1>4. \A data \in Sendable : NewStig(id, data) \in VariablesOf(m)
    BY Iterators DEF VariablesOf
  <1>5. <<>> \in Seq(Index(m))
    OBVIOUS
  <1>6. ASSUME Depth(m) # 0 => Top(m).data \in Sendable PROVE Settled(storeStig(m, id, name))
    <2>1. CASE Depth(m) = 0 \/ (name \in DOMAIN m.tagged /\ ~ IsStig(m, name))
      BY <1>1, <2>1 DEF storeStig
    <2>2. CASE Depth(m) # 0 /\ IsStig(m, name)
      <3> DEFINE v == resetIter(updateStigValue(m.tagged[name], id, Top(m).data))
      <3>1. v \in VariablesOf(m)
        BY <1>3, <1>6, <2>2, StigIsThere
      <3>2. storeStig(m, id, name) = handleDependants(Pop(SetTagged(m, name, v), 1), v.dependants)
        BY <2>2 DEF storeStig
      <3> HIDE DEF v
      <3> QED
        BY <1>2, <3>1, <3>2, DependantsAreThere
    <2>3. CASE Depth(m) # 0 /\ name \notin DOMAIN m.tagged
      <3> DEFINE v == updateStigValue(NewStig(id, Top(m).data), id, Top(m).data)
      <3>1. v \in VariablesOf(m)
        BY <1>3, <1>4, <1>6, <2>3
      <3>2. storeStig(m, id, name) = Pop(SetTagged(m, name, v), 1)
        BY <2>3 DEF storeStig, IsStig
      <3> HIDE DEF v
      <3> QED
        BY <1>2, <1>5, <3>1, <3>2
    <2> QED
      BY <2>1, <2>2, <2>3 DEF IsStig
  <1>7. ASSUME NEW data \in Sendable PROVE Settled(receiveStig(m, id, name, data))
    <2>1. CASE IsStig(m, name)
      <3> DEFINE v == updateStigValue(m.tagged[name], id, data)
      <3>1. v \in VariablesOf(m)
        BY <1>3, <2>1, StigIsThere
      <3>2. receiveStig(m, id, name, data) = handleDependants(SetTagged(m, name, v), v.dependants)
        BY <2>1 DEF receiveStig
      <3> HIDE DEF v
      <3> QED
        BY <1>2, <3>1, <3>2, DependantsAreThere
    <2>2. CASE ~ IsStig(m, name)
      <3>1. receiveStig(m, id, name, data) = SetTagged(m, name, NewStig(id, data))
        BY <2>2 DEF receiveStig
      <3> QED
        BY <1>2, <1>4, <1>5, <3>1
    <2> QED
      BY <2>1, <2>2
  <1> QED
    BY <1>6, <1>7

(* A call goes to the body of the closure, in the scope of a new instance, *)
(* and will return behind the call.                                        *)
LEMMA CallSettles ==
    ASSUME NEW m, IsGood(m), BodiesAreApart(m.program), Settled(m) PROVE Settled(callClosure(m))
  <1> DEFINE template == m.closures[Top(m).data.v]
  <1> DEFINE names == ArgNames(m, template)
  <1> DEFINE Arg(i) == m.stack[Depth(m) - 1 - i]
  <1> DEFINE args == [x \in ToSet(names) |->
                        Arg(CHOOSE i \in DOMAIN names : names[i] = x)]
  <1> DEFINE instance == [template EXCEPT !.local = Above(args, @)]
  <1> DEFINE popped == Pop(m, 2 + Len(names))
  <1> DEFINE pushed == push_back(popped, instance)
  <1> DEFINE called == [pushed EXCEPT
                          !.frames = Append(@, Here(m)),
                          !.scope = m.head,
                          !.current = m.head]
  <1> DEFINE on == Dependencies(m, instance)
  <1> DEFINE registered == DependOnAll(called, on, m.head)
  <1> DEFINE entered == [registered EXCEPT !.pc = CodePointer(m, instance)]
  <1>0. IsFramed(m)
    BY GoodIsFramed
  <1>1. CASE ~ CanCall(m)
    <2>1. callClosure(m) = Fail(m)
      BY <1>1 DEF callClosure
    <2> QED
      BY <1>0, <2>1, Stayers, StaysSettled
  <1>2. CASE CanCall(m)
    <2>1. callClosure(m) = entered
      BY <1>2 DEF callClosure
    <2>2. /\ m.program \in Program /\ m.head \in Nat /\ Live(m) \subseteq Index(m)
      BY DEF IsGood, IsWhole
    <2>3. Depth(m) \in Nat /\ Depth(m) >= 2 /\ Top(m).data.type = "closure"
      BY <1>2, StackHas DEF CanCall, Holds
    <2>4. Top(m).data.v \in Live(m)
      <3>1. Top(m).data \in Datum(Live(m))
        BY <2>3, StackHas
      <3> QED
        BY <2>3, <3>1, SmallData
    <2>5. m.head # 0 /\ m.head \notin Live(m)
      BY <2>2, <2>4 DEF Index
    <2>6. "template" \in DOMAIN template
      BY <1>0, <2>4 DEF IsFramed
    <2> HIDE DEF template
    <2>7. "template" \in DOMAIN instance
      BY <2>6
    <2>8. on \in Seq(STRING)
      BY <2>2, NamesAreNames
    <2>9. Stays(m, popped) /\ popped.head = m.head
      <3>1. popped.head = m.head
        BY <1>0 DEF Pop, IsFramed, IsRecord, Fields
      <3> QED
        BY <1>0, <3>1, Stayers
    <2> HIDE DEF instance, popped
    <2>10. /\ IsRecord(called) /\ called.frames = Append(m.frames, Here(m))
           /\ called.scope = m.head /\ called.current = m.head
           /\ called.closures = Put(popped.closures, m.head, instance)
           /\ called.program = m.program
      BY <2>9 DEF push_back, Stays, KeepsCode, IsFramed, IsRecord, Fields
    <2> HIDE DEF called
    <2>11. /\ Live(called) = Live(popped) \cup {m.head}
           /\ called.closures[m.head] = instance
           /\ \A i \in Live(popped) \ {m.head} : called.closures[i] = popped.closures[i]
      BY <2>10 DEF Live, Put
    <2>12. IsFramed(called)
      <3>1. \A i \in Live(popped) : "template" \in DOMAIN popped.closures[i]
        BY <2>9 DEF Stays, IsFramed
      <3> QED
        BY <2>7, <2>10, <2>11, <3>1 DEF IsFramed
    <2>13. KeepsCode(m, called)
      BY <2>5, <2>9, <2>10, <2>11 DEF Stays, KeepsCode
    <2> HIDE DEF on
    <2>14. Stays(called, registered)
      BY <2>8, <2>12, DependOnAllStays
    <2> HIDE DEF registered
    <2>15. /\ IsRecord(registered) /\ registered.frames = Append(m.frames, Here(m))
           /\ registered.scope = m.head /\ registered.current = m.head
           /\ registered.closures[m.head].template = instance.template
           /\ registered.program = m.program /\ m.head \in Live(registered)
           /\ KeepsCode(m, registered)
      BY <2>10, <2>11, <2>13, <2>14 DEF Stays, KeepsCode, IsFramed
    <2>16. registered.frames \in Seq(Fitting(registered))
      <3>1. m.frames \in Seq(Fitting(m)) /\ Here(m) \in Fitting(m)
        BY <2>5, HereIsFitting DEF Settled
      <3>2. Append(m.frames, Here(m)) \in Seq(Fitting(m))
        BY <3>1, AppendProperties
      <3>3. Fitting(m) \subseteq Fitting(registered)
        BY <2>15, FittingAlong
      <3> QED
        BY <2>15, <3>2, <3>3, SeqMonotonic
    <2>17. /\ entered.frames = registered.frames /\ entered.closures = registered.closures
           /\ entered.program = m.program /\ entered.pc = CodePointer(m, instance)
           /\ entered.scope = m.head /\ entered.current = m.head
      BY <2>15 DEF IsRecord, Fields
    <2> HIDE DEF entered
    <2>18. Fitting(entered) = Fitting(registered)
      BY <2>15, <2>17 DEF Fitting, Fits, ScopeFitsCode, HasTemplate, Live
    <2>19. Fits(entered, Here(entered), entered.pc + 1)
      <3>1. CodePointer(entered, instance) = CodePointer(m, instance)
        BY <2>17 DEF CodePointer, HasTemplate
      <3>2. /\ Here(entered).scope = m.head /\ Here(entered).current = m.head
            /\ entered.closures[m.head].template = instance.template
            /\ m.head # GlobalScope
        BY <2>2, <2>15, <2>17 DEF Here, GlobalScope
      <3>3. Fits(entered, Here(entered), CodePointer(entered, instance) + 1)
        BY <2>17, <3>2, BodyFits
      <3> QED
        BY <2>17, <3>1, <3>3
    <2>20. Settled(entered)
      BY <2>16, <2>17, <2>18, <2>19 DEF Settled
    <2> QED
      BY <2>1, <2>20
  <1> QED
    BY <1>1, <1>2

(* A return goes to a place on the return address stack. *)
LEMMA LeavingSettles ==
    ASSUME NEW m, IsGood(m), m.frames \in Seq(Fitting(m)), retFromClosure(m).state # "error"
    PROVE  Settled(retFromClosure(m))
  <1> DEFINE left == Returned(m)
  <1> DEFINE pushed == Push(left, ClosureData(m.current))
  <1> DEFINE popped == [pushed EXCEPT !.frames = Front(@)]
  <1> DEFINE entered == Enter(popped, Last(m.frames))
  <1>0. IsFramed(m)
    BY GoodIsFramed
  <1>1. CanReturn(m)
    <2>1. Fail(m).state = "error"
      BY <1>0 DEF Fail, IsFramed, IsRecord, Fields
    <2> QED
      BY <2>1 DEF retFromClosure
  <1>2. retFromClosure(m) = entered
    BY <1>1 DEF retFromClosure
  <1>3. m.frames # <<>>
    BY <1>1 DEF CanReturn
  <1> DEFINE F == Fitting(m)
  <1> HIDE DEF F
  <1>4. /\ m.frames \in Seq(F)
        /\ Len(m.frames) \in Nat \ {0}
        /\ \A k \in 1 .. Len(m.frames) : m.frames[k] \in F
    BY <1>3, LenProperties, ElementOfSeq, EmptySeq DEF F
  <1>5. Last(m.frames) \in F
    BY <1>4 DEF Last
  <1>6. Front(m.frames) \in Seq(F)
    <2>1. Len(m.frames) - 1 \in Nat
      BY <1>4
    <2>2. SubSeq(m.frames, 1, Len(m.frames) - 1) \in Seq(F)
      BY <1>4, <2>1, SubSeqProperties
    <2> QED
      BY <2>2 DEF Front
  <1>7. Stays(m, left)
    <2> DEFINE n == Pop(m, 2)
    <2> DEFINE c == [n.closures[m.current] EXCEPT !.cachedValue = Second(m).data]
    <2> DEFINE changed == [n EXCEPT !.closures[m.current] = c]
    <2>1. left \in {Pop(m, 1), n, changed}
      BY DEF Returned
    <2>2. Stays(m, Pop(m, 1)) /\ Stays(m, n) /\ IsFramed(n)
      BY <1>0, Stayers DEF Stays
    <2> HIDE DEF n
    <2>3. m.current \in Live(n) => "template" \in DOMAIN c /\ c.template = n.closures[m.current].template
      BY <2>2 DEF IsFramed
    <2> HIDE DEF c
    <2>4. Stays(n, changed)
      BY <2>2, <2>3, ClosureStays
    <2> HIDE DEF changed, left
    <2> QED
      BY <2>1, <2>2, <2>4, StaysAgain
  <1> HIDE DEF left
  <1>8. Stays(m, pushed)
    BY <1>7, Stayers, StaysAgain DEF Stays
  <1> HIDE DEF pushed
  <1>9. /\ IsRecord(popped) /\ popped.frames = Front(m.frames)
        /\ popped.closures = pushed.closures /\ popped.program = pushed.program
    BY <1>8 DEF Stays, IsFramed, IsRecord, Fields
  <1> HIDE DEF popped
  <1>10. KeepsCode(m, popped)
    BY <1>8, <1>9 DEF Stays, KeepsCode, Live
  <1>11. F \subseteq Fitting(popped)
    BY <1>10, FittingAlong DEF F
  <1>12. Last(m.frames) \in Fitting(popped) /\ popped.frames \in Seq(Fitting(popped))
    BY <1>5, <1>6, <1>9, <1>11, SeqMonotonic
  <1> QED
    BY <1>2, <1>9, <1>12, Entered

(* The collector keeps the scopes the machine is in and will return to. *)
LEMMA CollectorSettles ==
    ASSUME NEW m, IsGood(m), Settled(m), collectGarbage(m).state # "error"
    PROVE  Settled(collectGarbage(m))
  <1> DEFINE live == Reached(ReferencesOf(m), Roots(m))
  <1> DEFINE n == [m EXCEPT !.closures = Restrict(@, live)]
  <1>0. IsRecord(m)
    BY DEF IsGood, IsWhole
  <1>1. collectGarbage(m) = n /\ live \subseteq Live(m)
    <2>1. Fail(m).state = "error"
      BY <1>0 DEF Fail, IsRecord, Fields
    <2> QED
      BY <2>1 DEF collectGarbage, Live
  <1>2. IsGood(n)
    BY <1>1, CollectorIsGood
  <1> HIDE DEF live
  <1>3. /\ n.program = m.program /\ n.frames = m.frames /\ n.scope = m.scope
        /\ n.current = m.current /\ n.pc = m.pc
        /\ Live(n) = live /\ \A i \in live : n.closures[i] = m.closures[i]
    BY <1>0, <1>1 DEF IsRecord, Fields, Live, Restrict
  <1> HIDE DEF n
  <1>4. KeepsCode(n, m)
    BY <1>1, <1>3 DEF KeepsCode
  <1>5. Fits(n, Here(n), n.pc + 1)
    <2>1. Here(n) = Here(m) /\ Fits(m, Here(n), n.pc + 1)
      BY <1>3 DEF Here, Settled
    <2> QED
      BY <1>2, <1>4, <2>1, HereIsLive, FitsAlong
  <1>6. n.frames \in Seq(Fitting(n))
    <2> DEFINE E == FrameOf(Live(n), n.program)
    <2> DEFINE F == Fitting(m)
    <2>1. \A f \in E : f \in F => f \in Fitting(n)
      <3> SUFFICES ASSUME NEW f \in E, f \in F PROVE f \in Fitting(n)
        OBVIOUS
      <3>1. f.scope \in Live(n) \cup {GlobalScope} /\ Fits(m, f, f.pc + 1)
        BY DEF FrameOf, Fitting
      <3> QED
        BY <1>4, <3>1, FitsAlong DEF Fitting
    <2>2. n.frames \in Seq(E) /\ n.frames \in Seq(F)
      BY <1>2, <1>3 DEF IsGood, IsWhole, Settled
    <2> HIDE DEF E, F
    <2>3. /\ Len(n.frames) \in Nat
          /\ \A k \in 1 .. Len(n.frames) : n.frames[k] \in E /\ n.frames[k] \in F
      BY <2>2, LenProperties, ElementOfSeq
    <2>4. n.frames = [k \in 1 .. Len(n.frames) |-> n.frames[k]]
      BY <2>2
    <2>5. n.frames \in [1 .. Len(n.frames) -> Fitting(n)]
      BY <2>1, <2>3, <2>4
    <2> QED
      BY <2>3, <2>5
  <1>7. Settled(n)
    BY <1>5, <1>6 DEF Settled
  <1> QED
    BY <1>1, <1>7

(* A return, and the collection after it. *)
LEMMA ReturnSettles ==
    ASSUME NEW m, IsGood(m), m.frames \in Seq(Fitting(m)), return(m).state # "error"
    PROVE  Settled(return(m))
  <1> DEFINE n == retFromClosure(m)
  <1>1. return(m) = IF n.state = "error" THEN n ELSE collectGarbage(n)
    BY DEF return, Once
  <1>2. n.state # "error"
    BY <1>1
  <1>3. IsGood(n)
    BY LeavingIsGood DEF Becomes
  <1>4. Settled(n)
    BY <1>2, LeavingSettles
  <1> HIDE DEF n
  <1> QED
    BY <1>1, <1>2, <1>3, <1>4, CollectorSettles

------------------------------------------------------------------------------
(* The program counter is moved within the body. *)
LEMMA MovedSettles ==
    ASSUME NEW m, IsRecord(m), m.frames \in Seq(Fitting(m)), NEW pc, Fits(m, Here(m), pc + 1)
    PROVE  Settled([m EXCEPT !.pc = pc])
  <1> DEFINE n == [m EXCEPT !.pc = pc]
  <1>1. /\ n.program = m.program /\ n.frames = m.frames /\ n.scope = m.scope
        /\ n.current = m.current /\ n.pc = pc /\ n.closures = m.closures
    BY DEF IsRecord, Fields
  <1> HIDE DEF n
  <1>2. Fitting(n) = Fitting(m)
    BY <1>1 DEF Fitting, Fits, ScopeFitsCode, HasTemplate, Live
  <1>3. Fits(n, Here(n), n.pc + 1)
    BY <1>1 DEF Fits, ScopeFitsCode, HasTemplate, Here
  <1>4. Settled(n)
    BY <1>1, <1>2, <1>3 DEF Settled
  <1> QED
    BY <1>4 DEF n

(* Two places in the same body fit the same scopes. *)
LEMMA SameBody ==
    ASSUME NEW m, NEW f, NEW pc, NEW next, Fits(m, f, pc),
           BodyOf(m.program, next) = BodyOf(m.program, pc)
    PROVE  Fits(m, f, next)
  BY DEF Fits, ScopeFitsCode

(* A settled machine may jump within the body it is in. *)
LEMMA JumpsSettle ==
    ASSUME NEW m, IsGood(m), Settled(m), NEW target \in Int, Fits(m, Here(m), target), NEW onZero
    PROVE  Settled(JumpIf(m, target, onZero))
  <1> DEFINE n == Pop(m, 1)
  <1> DEFINE jumped == JumpTo(n, target)
  <1>0. IsFramed(m) /\ Stays(m, n)
    BY GoodIsFramed, Stayers
  <1>1. JumpIf(m, target, onZero) \in {Fail(m), n, jumped}
    BY DEF JumpIf
  <1>2. Settled(Fail(m)) /\ Settled(n)
    BY <1>0, Stayers, StaysSettled
  <1> HIDE DEF n
  <1>3. IsRecord(n) /\ n.frames \in Seq(Fitting(n))
    BY <1>0, <1>2 DEF Stays, IsFramed, Settled
  <1>4. Fits(n, Here(n), target - 1 + 1)
    <2>1. Here(n).scope = Here(m).scope /\ Here(n) = Here(m) /\ KeepsCode(m, n)
      BY <1>0 DEF Here, Stays
    <2>2. Fits(n, Here(n), target)
      BY <2>1, HereIsLive, FitsAlong
    <2>3. target - 1 + 1 = target
      OBVIOUS
    <2> QED
      BY <2>2, <2>3
  <1>5. Settled(jumped)
    BY <1>3, <1>4, MovedSettles DEF JumpTo
  <1> QED
    BY <1>1, <1>2, <1>5

(* An instruction with an operand after which the machine may go on. *)
LEMMA WithOperandSettles ==
    ASSUME NEW m, IsGood(m), BodiesAreApart(m.program), Settled(m),
           NEW op \in OperandInstruction \ (Leaving \cup {"tag variable"}), NEW x,
           op \in Jump \ {"is_nil"} => x \in Int /\ Fits(m, Here(m), x)
    PROVE  Settled(WithOperand(op, x, m))
  <1>0. IsFramed(m)
    BY GoodIsFramed
  <1>1. CASE op \in {"load", "stig_size", "is_iter_at_end", "call_c_closure", "push_next_in_stig",
                     "reset_iter", "debug_print", "push i"}
    <2>1. WithOperand(op, x, m) \in {loadToStack(m, x), stigSize(m, x), isIterAtEnd(m, x),
             callCClosure(m, x), pushNextElementOfStig(m, x), resetIterOf(m, x), m, Push(m, IntData(x))}
      BY <1>1 DEF WithOperand
    <2>2. Stays(m, m) /\ Stays(m, Push(m, IntData(x)))
      BY <1>0, Stayers
    <2>3. /\ Stays(m, loadToStack(m, x)) /\ Stays(m, stigSize(m, x)) /\ Stays(m, isIterAtEnd(m, x))
          /\ Stays(m, callCClosure(m, x)) /\ Stays(m, pushNextElementOfStig(m, x))
          /\ Stays(m, resetIterOf(m, x))
      BY <1>0, OperandsStay
    <2>4. Stays(m, WithOperand(op, x, m))
      BY <2>1, <2>2, <2>3
    <2> QED
      BY <2>4, StaysSettled
  <1>2. CASE op \in {"store local", "store global", "store tagged"}
    <2>1. WithOperand(op, x, m) \in {storeLocal(m, x), storeGlobal(m, x), storeTagged(m, x)}
      BY <1>2 DEF WithOperand
    <2> QED
      BY <2>1, StoresSettle
  <1>3. CASE op \in {"jmp_if_zero", "jmp_if_not_zero"}
    <2>1. WithOperand(op, x, m) \in {JumpIf(m, x, TRUE), JumpIf(m, x, FALSE)}
      BY <1>3 DEF WithOperand
    <2>2. x \in Int /\ Fits(m, Here(m), x)
      BY <1>3 DEF Jump
    <2> QED
      BY <2>1, <2>2, JumpsSettle
  <1> QED
    BY <1>1, <1>2, <1>3 DEF OperandInstruction, Leaving

(* An instruction without an operand after which the machine may go on. *)
LEMMA WithoutOperandSettles ==
    ASSUME NEW m, IsGood(m), BodiesAreApart(m.program), Settled(m), NEW op, op \notin Leaving
    PROVE  Settled(WithoutOperand(op, m))
  <1>0. IsFramed(m)
    BY GoodIsFramed
  <1> DEFINE Ordinary == {"push_nil", "pop", "dup", "swap", "uncache", "print", "is_nil", "lnot"}
  <1>00. \A o \in Ordinary \cup {"call_closure"} : o \notin BinaryInstruction
    <2> SUFFICES ASSUME NEW o \in BinaryInstruction PROVE o \notin Ordinary \cup {"call_closure"}
      OBVIOUS
    <2>1. o \in {"add", "sub", "mul", "div", "mod", "eql", "neql", "gt", "gte", "lt", "lte", "land", "lor"}
      BY DEF BinaryInstruction, Arithmetic, Comparison, Equality, Logic
    <2> QED
      BY <2>1
  <1>1. Stays(m, Fail(m)) /\ Stays(m, m) /\ \A d : Stays(m, Push(m, d))
    BY <1>0, Stayers
  <1>2. CASE op \in Ordinary
    <2>1. \/ WithoutOperand(op, m) \in {Push(m, Nil), pop(m), dup(m), swap(m), uncache(m), m,
                                        Fail(m), isNil(m)}
          \/ WithoutOperand(op, m) = Push(Pop(m, 1), lnot(Top(m).data))
      BY <1>00, <1>2 DEF WithoutOperand
    <2>2. /\ Stays(m, swap(m)) /\ Stays(m, dup(m)) /\ Stays(m, pop(m))
          /\ Stays(m, isNil(m)) /\ Stays(m, uncache(m))
          /\ Stays(m, Push(Pop(m, 1), lnot(Top(m).data)))
      BY <1>0, OperandsStay
    <2>3. Stays(m, WithoutOperand(op, m))
      BY <1>1, <2>1, <2>2
    <2> QED
      BY <2>3, StaysSettled
  <1>3. CASE op = "call_closure"
    <2>1. WithoutOperand(op, m) = callClosure(m)
      BY <1>00, <1>3 DEF WithoutOperand
    <2> QED
      BY <2>1, CallSettles
  <1>4. CASE op \in BinaryInstruction
    <2>1. WithoutOperand(op, m) = BinaryOnStack(m, op)
      BY <1>4 DEF WithoutOperand, BinaryInstruction
    <2>2. Stays(m, BinaryOnStack(m, op))
      BY <1>0, OperandsStay
    <2> QED
      BY <2>1, <2>2, StaysSettled
  <1>5. CASE op \notin Ordinary \cup {"call_closure"} \cup BinaryInstruction
    <2>1. WithoutOperand(op, m) = Fail(m)
      BY <1>5 DEF WithoutOperand, Leaving
    <2> QED
      BY <1>1, <2>1, StaysSettled
  <1> QED
    BY <1>2, <1>3, <1>4, <1>5

(* The cells of the instructions. *)
LEMMA Widths ==
    /\ Width("tag variable") = 3
    /\ \A op \in OperandInstruction \ {"tag variable"} : Width(op) = 2
    /\ \A op : op \notin OperandInstruction \cup {"store stig"} => Width(op) = 1
    /\ Width("store stig") = 2
  <1>1. "tag variable" \in OperandInstruction /\ "tag variable" # "store stig"
    BY DEF OperandInstruction
  <1>2. Width("tag variable") = 1 + 1 + 1
    BY <1>1 DEF Width
  <1>3. ASSUME NEW op \in OperandInstruction \ {"tag variable"} PROVE Width(op) = 1 + 1 + 0
    BY <1>3 DEF Width
  <1>4. ASSUME NEW op, op \notin OperandInstruction \cup {"store stig"} PROVE Width(op) = 1 + 0 + 0
    BY <1>1, <1>4 DEF Width
  <1>5. Width("store stig") = 1 + 1 + 0
    BY DEF Width
  <1>6. 1 + 1 + 1 = 3 /\ 1 + 1 + 0 = 2 /\ 1 + 0 + 0 = 1
    OBVIOUS
  <1> QED
    BY <1>2, <1>3, <1>4, <1>5, <1>6

(* Every instruction goes on in the body it is in, enters one in the scope *)
(* of an instance, or returns.                                             *)
LEMMA InstructionSettles ==
    ASSUME NEW m, IsGood(m), BodiesAreApart(m.program), Standing(m),
           handleInstruction(m).state \notin {"error", "done"}
    PROVE  Settled(handleInstruction(m))
  <1> DEFINE op == Opcode(m)
  <1> DEFINE x == Argument(m)
  <1> DEFINE n == Fetched(m)
  <1>1. /\ m.program \in Program /\ IsRecord(m) /\ m.pc \in Int
        /\ m.frames \in Seq(Fitting(m)) /\ Fits(m, Here(m), m.pc)
    BY DEF IsGood, IsWhole, Positions, Standing
  <1>2. Fail(m).state = "error" /\ Fail(n).state = "error"
    BY <1>1 DEF Fail, Fetched, IsRecord, Fields
  <1>3. IsInstruction(m)
    BY <1>2 DEF handleInstruction
  <1>4. /\ m.pc \in DOMAIN bytecode[m.program]
        /\ bytecode[m.program][m.pc].kind = "instruction"
        /\ op = bytecode[m.program][m.pc].value /\ x = bytecode[m.program][m.pc + 1].value
    BY <1>3 DEF IsInstruction, Opcode, Argument
  <1>5. /\ op \in Jump \ {"is_nil"} => Fits(m, Here(m), x)
        /\ op \notin Leaving => Fits(m, Here(m), m.pc + Width(op))
    <2>1. /\ op \in Jump \ {"is_nil"} => BodyOf(m.program, x) = BodyOf(m.program, m.pc)
          /\ op \notin Leaving => BodyOf(m.program, m.pc + Width(op)) = BodyOf(m.program, m.pc)
      BY <1>4 DEF BodiesAreApart
    <2> QED
      BY <1>1, <2>1, SameBody
  <1>6. /\ op \in OperandInstruction => m.pc + 1 \in Positions(m.program)
        /\ op \in Jump \ {"is_nil"} => x \in Int
    <2>1. /\ op \in OperandInstruction => m.pc + 1 \in DOMAIN bytecode[m.program]
          /\ op \in Jump \ {"is_nil"} => x \in 0 .. BytecodeSize[m.program]
      BY <1>1, <1>4, BytecodeAssumption
    <2> QED
      BY <1>1, <2>1, Cell
  <1>7. n = [m EXCEPT !.pc = m.pc + 1]
    BY DEF Fetched
  <1> HIDE DEF op, x
  <1>8. CASE op \in OperandInstruction
    <2>1. handleInstruction(m) = WithOperand(op, x, n)
      BY <1>3, <1>8 DEF handleInstruction, op, x
    <2>2. CASE op = "tag robot"
      BY <1>2, <2>1, <2>2 DEF WithOperand
    <2>3. CASE op = "jmp"
      <3>1. handleInstruction(m) = JumpTo(n, x)
        BY <2>1, <2>3 DEF WithOperand
      <3>2. JumpTo(n, x) = [m EXCEPT !.pc = x - 1]
        BY <1>1 DEF JumpTo, Fetched, IsRecord, Fields
      <3>3. Fits(m, Here(m), x - 1 + 1)
        <4>1. x \in Int /\ Fits(m, Here(m), x)
          BY <1>5, <1>6, <2>3 DEF Jump
        <4>2. x - 1 + 1 = x
          BY <4>1
        <4> QED
          BY <4>1, <4>2
      <3> QED
        BY <1>1, <3>1, <3>2, <3>3, MovedSettles
    <2>4. CASE op = "tag variable"
      <3>1. handleInstruction(m) = Fetched(tagVariable(n, x))
        BY <2>1, <2>4 DEF WithOperand
      <3>2. tagVariable(n, x) = n
        <4>1. Fetched(Fail(n)).state = "error"
          BY <1>1 DEF Fail, Fetched, IsRecord, Fields
        <4> QED
          BY <3>1, <4>1 DEF tagVariable
      <3>3. Fetched(n) = [m EXCEPT !.pc = m.pc + 2]
        <4>1. Fetched(n) = [m EXCEPT !.pc = m.pc + 1 + 1]
          BY <1>1 DEF Fetched, IsRecord, Fields
        <4>2. m.pc + 1 + 1 = m.pc + 2
          BY <1>1
        <4> QED
          BY <4>1, <4>2
      <3>4. Fits(m, Here(m), m.pc + 2 + 1)
        <4>1. Width(op) = 3 /\ op \notin Leaving
          BY <2>4, Widths DEF Leaving
        <4>2. m.pc + Width(op) = m.pc + 2 + 1
          BY <1>1, <4>1
        <4> QED
          BY <1>5, <4>1, <4>2
      <3> QED
        BY <1>1, <3>1, <3>2, <3>3, <3>4, MovedSettles
    <2>5. CASE op \notin Leaving \cup {"tag variable"}
      <3>1. Width(op) = 2
        BY <1>8, <2>5, Widths
      <3>2. m.pc + Width(op) = m.pc + 1 + 1
        BY <1>1, <3>1
      <3>3. Fits(m, Here(m), m.pc + 1 + 1)
        BY <1>5, <2>5, <3>2
      <3>4. Settled(n)
        BY <1>1, <1>7, <3>3, MovedSettles
      <3>5. IsGood(n)
        BY <1>6, <1>7, <1>8, Setters DEF Becomes
      <3>6. n.program = m.program /\ Here(n).scope = Here(m).scope /\ Here(n).current = Here(m).current
            /\ n.closures = m.closures
        BY <1>1 DEF Fetched, IsRecord, Fields, Here
      <3> HIDE DEF n
      <3>7. op \in Jump \ {"is_nil"} => x \in Int /\ Fits(n, Here(n), x)
        <4>1. Fits(m, Here(m), x) => Fits(n, Here(n), x)
          BY <3>6 DEF Fits, ScopeFitsCode, HasTemplate
        <4> QED
          BY <1>5, <1>6, <4>1
      <3> QED
        BY <1>8, <2>1, <2>5, <3>4, <3>5, <3>6, <3>7, WithOperandSettles
    <2>6. op \notin {"spin", "end", "ret_from_closure"}
      BY <1>8 DEF OperandInstruction
    <2> QED
      BY <2>2, <2>3, <2>4, <2>5, <2>6 DEF Leaving
  <1>9. CASE op \notin OperandInstruction
    <2>1. handleInstruction(m) = WithoutOperand(op, m)
      BY <1>3, <1>9 DEF handleInstruction, op
    <2>2. {"spin", "end", "ret_from_closure", "store stig"} \cap BinaryInstruction = {}
      <3> SUFFICES ASSUME NEW o \in BinaryInstruction
                   PROVE  o \notin {"spin", "end", "ret_from_closure", "store stig"}
        OBVIOUS
      <3>1. o \in {"add", "sub", "mul", "div", "mod", "eql", "neql", "gt", "gte", "lt", "lte", "land", "lor"}
        BY DEF BinaryInstruction, Arithmetic, Comparison, Equality, Logic
      <3> QED
        BY <3>1
    <2>3. CASE op = "spin"
      <3>1. handleInstruction(m) = [m EXCEPT !.pc = m.pc - 1]
        BY <2>1, <2>2, <2>3 DEF WithoutOperand
      <3>2. m.pc - 1 + 1 = m.pc
        BY <1>1
      <3>3. Fits(m, Here(m), m.pc - 1 + 1)
        BY <1>1, <3>2
      <3> QED
        BY <1>1, <3>1, <3>3, MovedSettles
    <2>4. CASE op = "end"
      <3>1. handleInstruction(m) = [m EXCEPT !.state = "done"]
        BY <2>1, <2>2, <2>4 DEF WithoutOperand
      <3> QED
        BY <1>1, <3>1 DEF IsRecord, Fields
    <2>5. CASE op = "ret_from_closure"
      <3>1. handleInstruction(m) = return(m)
        BY <2>1, <2>2, <2>5 DEF WithoutOperand
      <3> QED
        BY <1>1, <3>1, ReturnSettles
    <2>6. CASE op = "store stig"
      <3>1. handleInstruction(m) = Fail(m)
        BY <2>1, <2>2, <2>6 DEF WithoutOperand
      <3> QED
        BY <1>2, <3>1
    <2>7. CASE op \notin Leaving \cup {"store stig"}
      <3>1. Width(op) = 1
        BY <1>9, <2>7, Widths
      <3>2. Settled(m)
        BY <1>1, <1>5, <2>7, <3>1 DEF Settled
      <3> QED
        BY <2>1, <2>7, <3>2, WithoutOperandSettles
    <2>8. op \notin {"jmp", "tag robot"}
      BY <1>9 DEF OperandInstruction
    <2> QED
      BY <2>3, <2>4, <2>5, <2>6, <2>7, <2>8 DEF Leaving
  <1> QED
    BY <1>8, <1>9

------------------------------------------------------------------------------
(* The end of step() puts a settled machine before its next instruction,   *)
(* and starts no machine that has stopped.                                 *)
LEMMA EndStands ==
    ASSUME NEW m, IsRecord(m), stepEnd(m).state = "ready"
    PROVE  /\ m.state = "ready"
           /\ Settled(m) => Standing(stepEnd(m))
  <1> DEFINE n == [m EXCEPT !.pc = @ + 1,
                            !.state = IF m.pc + 1 >= BytecodeSize[m.program] THEN "done" ELSE @]
  <1>1. stepEnd(m) = n
    BY DEF stepEnd
  <1>2. /\ n.program = m.program /\ n.frames = m.frames /\ n.scope = m.scope
        /\ n.current = m.current /\ n.pc = m.pc + 1 /\ n.closures = m.closures
        /\ n.state = IF m.pc + 1 >= BytecodeSize[m.program] THEN "done" ELSE m.state
    BY DEF IsRecord, Fields
  <1> HIDE DEF n
  <1>3. m.state = "ready"
    BY <1>1, <1>2
  <1>4. Fitting(n) = Fitting(m)
    BY <1>2 DEF Fitting, Fits, ScopeFitsCode, HasTemplate, Live
  <1>5. Fits(m, Here(m), m.pc + 1) => Fits(n, Here(n), n.pc)
    BY <1>2 DEF Fits, ScopeFitsCode, HasTemplate, Here
  <1>6. Settled(m) => Standing(n)
    BY <1>2, <1>4, <1>5 DEF Settled, Standing
  <1> QED
    BY <1>1, <1>3, <1>6

(* A reaction starts no machine that has stopped. *)
LEMMA ReactionsStartNothing ==
    ASSUME NEW m, IsRecord(m), NEW list
    PROVE  handleDependants(m, list).state \in {m.state, "error"}
  <1> DEFINE visited == WithDependants(m, list)
  <1> DEFINE touched == Touch(m, ToSet(visited))
  <1> DEFINE waiting == [k \in 1 .. Len(visited) - 1 |-> EntryOf(touched, visited[k + 1])]
  <1> DEFINE framed == [touched EXCEPT !.frames = Append(@, Here(m)) \o Reverse(waiting)]
  <1> DEFINE entered == Enter(framed, EntryOf(touched, Head(visited)))
  <1>1. handleDependants(m, list) \in {m, Fail(m), entered}
    BY DEF handleDependants, Once
  <1>2. Fail(m).state = "error"
    BY DEF Fail, IsRecord, Fields
  <1>3. entered.state = m.state
    <2>1. touched.state = m.state /\ IsRecord(touched)
      BY DEF Touch, IsRecord, Fields
    <2> HIDE DEF touched, waiting, visited
    <2>2. framed.state = touched.state /\ IsRecord(framed)
      BY <2>1 DEF IsRecord, Fields
    <2> HIDE DEF framed
    <2>3. entered.state = framed.state
      BY <2>2 DEF Enter, IsRecord, Fields
    <2> QED
      BY <2>1, <2>2, <2>3
  <1> QED
    BY <1>1, <1>2, <1>3

(* And so does an update. *)
LEMMA UpdateStartsNothing ==
    ASSUME NEW m, IsRecord(m), NEW id, NEW name, NEW data
    PROVE  receiveStig(m, id, name, data).state \in {m.state, "error"}
  <1>1. ASSUME NEW v PROVE IsRecord(SetTagged(m, name, v)) /\ SetTagged(m, name, v).state = m.state
    BY DEF SetTagged, IsRecord, Fields
  <1>2. CASE IsStig(m, name)
    <2> DEFINE v == updateStigValue(m.tagged[name], id, data)
    <2>1. receiveStig(m, id, name, data) = handleDependants(SetTagged(m, name, v), v.dependants)
      BY <1>2 DEF receiveStig
    <2> HIDE DEF v
    <2> QED
      BY <1>1, <2>1, ReactionsStartNothing
  <1>3. CASE ~ IsStig(m, name)
    <2>1. receiveStig(m, id, name, data) = SetTagged(m, name, NewStig(id, data))
      BY <1>3 DEF receiveStig
    <2> QED
      BY <1>1, <2>1
  <1> QED
    BY <1>2, <1>3

(* A machine that has just loaded its program. *)
LEMMA LoadedStands ==
    ASSUME NEW p \in Program, BodiesAreApart(p) PROVE Standing(Loaded(p))
  <1> DEFINE m == Loaded(p)
  <1>1. /\ m.program = p /\ m.pc = 0 /\ m.frames = <<>> /\ m.scope = GlobalScope /\ m.current = 0
    BY DEF Loaded
  <1> HIDE DEF m
  <1>2. Fits(m, Here(m), m.pc)
    BY <1>1 DEF Fits, ScopeFitsCode, Here, BodiesAreApart
  <1>3. m.frames \in Seq(Fitting(m))
    BY <1>1
  <1>4. Standing(m)
    BY <1>2, <1>3 DEF Standing
  <1> QED
    BY <1>4 DEF m

------------------------------------------------------------------------------
(* Every machine that runs is settled, or standing. *)
PlacesFit ==
    \A r \in Robot : vm[r].state = "ready" =>
        IF at[r] = "check" THEN Settled(vm[r]) ELSE Standing(vm[r])

(* The inductive invariant. *)
SInv == NoClosureIsStored => PlacesFit

(* What the programs are. *)
Layout == \A p \in Program : BodiesAreApart(p)

(* At first. *)
LEMMA InitSInv == ASSUME Layout, Init PROVE SInv
  <1>1. PICK launch \in Launches : vm = [r \in Robot |-> Loaded(launch[r])]
    BY DEF Init
  <1>2. \A r \in Robot : launch[r] \in Program
    BY <1>1, LaunchAssumption
  <1>3. \A r \in Robot : Standing(vm[r])
    BY <1>1, <1>2, LoadedStands DEF Layout
  <1>4. \A r \in Robot : at[r] = "instruction"
    BY DEF Init
  <1> QED
    BY <1>3, <1>4 DEF SInv, PlacesFit

(* One robot's machine moves. *)
LEMMA PlaceMoves ==
    ASSUME IInv, PlacesFit, NEW r \in Robot, NEW m, vm' = [vm EXCEPT ![r] = m],
           NEW place, at' = [at EXCEPT ![r] = place],
           m.state = "ready" => IF place = "check" THEN Settled(m) ELSE Standing(m)
    PROVE  PlacesFit'
  <1>1. \A q \in Robot : /\ vm'[q] = IF q = r THEN m ELSE vm[q]
                         /\ at'[q] = IF q = r THEN place ELSE at[q]
    BY DEF IInv, Machines, Places
  <1>2. ASSUME NEW q \in Robot, vm'[q].state = "ready"
        PROVE  IF at'[q] = "check" THEN Settled(vm'[q]) ELSE Standing(vm'[q])
    <2>1. CASE q = r
      BY <1>1, <1>2, <2>1
    <2>2. CASE q # r
      BY <1>1, <1>2, <2>2 DEF PlacesFit
    <2> QED
      BY <2>1, <2>2
  <1> QED
    BY <1>2 DEF PlacesFit

(* An instruction. *)
LEMMA InstructionKeepsPlaces ==
    ASSUME Layout, IInv, CInv, SInv, NEW r \in Robot, Instruction(r) PROVE SInv'
  <1>1. PICK m \in {IF IsStore(vm[r]) THEN Stored(r) ELSE handleInstruction(vm[r])} :
            /\ IsStore(vm[r]) => m.state = "error"
            /\ Run(r, m)
            /\ UNCHANGED <<netVars, history>>
    BY DEF Instruction
  <1> SUFFICES ASSUME NoClosureIsStored' PROVE PlacesFit'
    BY DEF SInv
  <1>2. MachinesAreWhole /\ PlacesFit
    BY <1>1 DEF CInv, SInv, NoClosureIsStored, history
  <1>3. IsGood(vm[r]) /\ vm[r].state = "ready" /\ at[r] = "instruction"
    BY <1>2 DEF MachinesAreWhole, IsGood, Instruction, AtInstruction
  <1>4. CASE m.state = "error"
    <2>1. vm' = [vm EXCEPT ![r] = Fail(vm[r])] /\ at' = at
      BY <1>1, <1>4 DEF Run
    <2>2. at' = [at EXCEPT ![r] = at[r]]
      BY <2>1 DEF IInv, Places
    <2>3. Fail(vm[r]).state = "error"
      BY <1>3 DEF Fail, IsGood, IsWhole, IsRecord, Fields
    <2> QED
      BY <1>2, <2>1, <2>2, <2>3, PlaceMoves
  <1>5. CASE m.state # "error"
    <2>1. vm' = [vm EXCEPT ![r] = m] /\ at' = [at EXCEPT ![r] = "check"]
      BY <1>1, <1>5 DEF Run
    <2>2. m = handleInstruction(vm[r])
      BY <1>1, <1>5
    <2>3. Standing(vm[r])
      BY <1>2, <1>3 DEF PlacesFit
    <2>4. BodiesAreApart(vm[r].program)
      BY <1>3 DEF Layout, IsGood, IsWhole
    <2>5. m.state = "ready" => Settled(m)
      BY <1>3, <2>2, <2>3, <2>4, InstructionSettles
    <2> QED
      BY <1>2, <2>1, <2>5, PlaceMoves
  <1> QED
    BY <1>4, <1>5

(* A store. *)
LEMMA StoreKeepsPlaces ==
    ASSUME Layout, IInv, CInv, SInv, NEW r \in Robot, Store(r) PROVE SInv'
  <1> DEFINE m == vm[r]
  <1> DEFINE f == Fetched(m)
  <1>1. /\ vm' = [vm EXCEPT ![r] = Stored(r)] /\ at' = [at EXCEPT ![r] = "check"]
        /\ IsStore(m) /\ m.state = "ready" /\ at[r] = "instruction"
    BY DEF Store, Run, AtInstruction
  <1> SUFFICES ASSUME NoClosureIsStored' PROVE PlacesFit'
    BY DEF SInv
  <1>2. NoClosureIsStored /\ IsGood(m) /\ IsGood(f) /\ Top(f).data \in Sendable
    BY StoreIsSendable
  <1>3. PlacesFit /\ Standing(m)
    BY <1>1, <1>2 DEF SInv, PlacesFit
  <1>4. m.program \in Program /\ IsRecord(m) /\ m.pc \in Int
    BY <1>2 DEF IsGood, IsWhole, Positions
  <1>5. f = [m EXCEPT !.pc = m.pc + 1] /\ f.program = m.program
    BY <1>4 DEF Fetched, IsRecord, Fields
  <1>6. Stored(r) = storeStig(f, r, Argument(m))
    BY DEF Stored
  <1> HIDE DEF m, f
  <1>7. BodiesAreApart(m.program)
    BY <1>4 DEF Layout
  <1>8. Fits(m, Here(m), m.pc + 1 + 1)
    <2>1. /\ m.pc \in DOMAIN bytecode[m.program]
          /\ bytecode[m.program][m.pc].kind = "instruction"
          /\ bytecode[m.program][m.pc].value = "store stig"
      BY <1>1 DEF IsStore, IsInstruction, Opcode
    <2>2. "store stig" \notin Leaving
      BY DEF Leaving
    <2>3. BodyOf(m.program, m.pc + Width("store stig")) = BodyOf(m.program, m.pc)
      BY <1>7, <2>1, <2>2 DEF BodiesAreApart
    <2>4. m.pc + Width("store stig") = m.pc + 1 + 1
      <3>1. Width("store stig") = 2
        BY Widths
      <3>2. m.pc + 2 = m.pc + 1 + 1
        BY <1>4
      <3> QED
        BY <3>1, <3>2
    <2>5. Fits(m, Here(m), m.pc)
      BY <1>3 DEF Standing
    <2> QED
      BY <2>3, <2>4, <2>5, SameBody
  <1>9. Settled(f)
    <2>1. m.frames \in Seq(Fitting(m))
      BY <1>3 DEF Standing
    <2> QED
      BY <1>4, <1>5, <1>8, <2>1, MovedSettles
  <1>10. Settled(Stored(r))
    BY <1>2, <1>5, <1>6, <1>7, <1>9, StigmergySettles
  <1> QED
    BY <1>1, <1>3, <1>10, PlaceMoves

(* A look at the socket. *)
LEMMA CheckKeepsPlaces ==
    ASSUME Layout, IInv, CInv, SInv, NEW r \in Robot, CheckForMessage(r) PROVE SInv'
  <1>1. at[r] = "check" /\ at' = [at EXCEPT ![r] = "instruction"] /\ UNCHANGED <<stored, written>>
    BY DEF CheckForMessage, NoMessage, ReceiveUpdate, EndStep, history
  <1> SUFFICES ASSUME NoClosureIsStored' PROVE PlacesFit'
    BY DEF SInv
  <1>2. MachinesAreWhole /\ StoresAreSendable /\ PlacesFit
    BY <1>1 DEF CInv, SInv, NoClosureIsStored
  <1>3. IsGood(vm[r]) /\ IsRecord(vm[r]) /\ BodiesAreApart(vm[r].program)
    BY <1>1, <1>2 DEF MachinesAreWhole, IsGood, IsWhole, Layout
  <1>4. vm[r].state = "ready" => Settled(vm[r])
    BY <1>1, <1>2 DEF PlacesFit
  <1>5. \E m : /\ vm' = [vm EXCEPT ![r] = stepEnd(m)]
               /\ IsRecord(m)
               /\ m.state = "ready" => Settled(m)
    <2>1. CASE NoMessage(r)
      BY <1>3, <1>4, <2>1 DEF NoMessage, EndStep
    <2>2. CASE ReceiveUpdate(r)
      <3> DEFINE update == Head(inbox[r])
      <3> DEFINE m == receiveStig(vm[r], update.robotID, update.name, update.data)
      <3>1. vm' = [vm EXCEPT ![r] = stepEnd(m)]
        BY <2>2 DEF ReceiveUpdate, EndStep
      <3>2. update \in Sent
        BY <2>2, ReceiveWrites
      <3> HIDE DEF update
      <3>3. update.robotID \in Robot /\ update.data \in Sendable
        BY <1>2, <3>2, UpdateFields DEF StoresAreSendable
      <3>4. IsRecord(m)
        BY <1>3, <3>3, StigmergyIsGood DEF Becomes, IsGood, IsWhole
      <3>5. m.state \in {vm[r].state, "error"}
        BY <1>3, UpdateStartsNothing
      <3>6. Settled(vm[r]) => Settled(m)
        BY <1>3, <3>3, StigmergySettles
      <3> QED
        BY <1>4, <3>1, <3>4, <3>5, <3>6
    <2> QED
      BY <2>1, <2>2 DEF CheckForMessage
  <1>6. PICK m : /\ vm' = [vm EXCEPT ![r] = stepEnd(m)]
                 /\ IsRecord(m)
                 /\ m.state = "ready" => Settled(m)
    BY <1>5
  <1>7. stepEnd(m).state = "ready" => Standing(stepEnd(m))
    BY <1>6, EndStands
  <1> QED
    BY <1>1, <1>2, <1>6, <1>7, PlaceMoves

(* Every step of the swarm. *)
LEMMA NextSInv == ASSUME Layout, IInv, CInv, SInv, [Next]_vars PROVE SInv'
  <1>1. CASE UNCHANGED <<vm, at, stored, written>>
    BY <1>1 DEF SInv, NoClosureIsStored, PlacesFit
  <1>2. CASE RouterForward \/ \E r \in Robot : Register(r)
    BY <1>1, <1>2 DEF RouterForward, Register, history
  <1>3. CASE \E r \in Robot : RobotStep(r)
    BY <1>3, InstructionKeepsPlaces, StoreKeepsPlaces, CheckKeepsPlaces DEF RobotStep
  <1>4. CASE UNCHANGED vars
    BY <1>1, <1>4 DEF vars, history
  <1> QED
    BY <1>2, <1>3, <1>4 DEF Next

(* Whatever runs when, a robot is at an instruction of the body whose      *)
(* scope it is in, or about to go to one, and so is every place on the     *)
(* return address stack: in programs whose closure bodies are apart, as    *)
(* long as no robot has stored a closure, and but for empty closures,      *)
(* which have no code.                                                     *)
THEOREM PlacesStayFit ==
    ASSUME Layout PROVE Spec => [](NoClosureIsStored => PlacesFit)
  <1>1. Init => SInv
    BY InitSInv
  <1>2. IInv /\ CInv /\ SInv /\ [Next]_vars => SInv'
    BY NextSInv
  <1>3. Spec => []CInv
    BY InitCInv, NextCInv, Invariance, PTL DEF Spec
  <1>4. SInv => (NoClosureIsStored => PlacesFit)
    BY DEF SInv
  <1> QED
    BY <1>1, <1>2, <1>3, <1>4, Invariance, PTL DEF Spec

(* A place of a good machine whose closures have code. *)
LEMMA FitsIsScope ==
    ASSUME NEW m, \A i \in Live(m) : HasTemplate(m, m.closures[i]),
           NEW f, f.scope \in Live(m) \cup {GlobalScope}, NEW next, Fits(m, f, next)
    PROVE  ScopeFitsCode(m, f, next)
  BY DEF Fits

(* However calls, reactions to updates and returns are interleaved on the  *)
(* robots of the swarm, a robot executes the body of a closure with the    *)
(* local variables of an instance of that closure, and will do so wherever *)
(* it returns to (control.cpp's retFromClosure, handleDependants): in      *)
(* programs whose closure bodies are apart, as long as no robot has stored *)
(* a closure and no dependant was freed before it reacted.                 *)
THEOREM CodeStaysInItsScope ==
    ASSUME Layout
    PROVE  Spec => [](NoClosureIsStored /\ EveryClosureHasCode => CodeRunsInItsScope)
  <1>1. ASSUME MachinesAreWhole, PlacesFit, EveryClosureHasCode PROVE CodeRunsInItsScope
    <2> SUFFICES ASSUME NEW r \in Robot, vm[r].state = "ready"
                 PROVE  /\ ScopeFitsCode(vm[r], Here(vm[r]),
                                         IF at[r] = "check" THEN vm[r].pc + 1 ELSE vm[r].pc)
                        /\ \A k \in DOMAIN vm[r].frames :
                              ScopeFitsCode(vm[r], vm[r].frames[k], vm[r].frames[k].pc + 1)
      BY DEF CodeRunsInItsScope
    <2> DEFINE m == vm[r]
    <2> DEFINE F == Fitting(m)
    <2>1. IsGood(m) /\ \A i \in Live(m) : HasTemplate(m, m.closures[i])
      BY <1>1 DEF MachinesAreWhole, IsGood, EveryClosureHasCode, Live
    <2>2. /\ Fits(m, Here(m), IF at[r] = "check" THEN m.pc + 1 ELSE m.pc)
          /\ m.frames \in Seq(F)
      BY <1>1 DEF PlacesFit, Settled, Standing
    <2>3. \A f \in F : ScopeFitsCode(m, f, f.pc + 1)
      <3> SUFFICES ASSUME NEW f \in F PROVE ScopeFitsCode(m, f, f.pc + 1)
        OBVIOUS
      <3>1. f \in FrameOf(Live(m), m.program) /\ Fits(m, f, f.pc + 1)
        BY DEF Fitting
      <3>2. f.scope \in Live(m) \cup {GlobalScope}
        BY <3>1 DEF FrameOf
      <3> QED
        BY <2>1, <3>1, <3>2, FitsIsScope
    <2>4. ScopeFitsCode(m, Here(m), IF at[r] = "check" THEN m.pc + 1 ELSE m.pc)
      BY <2>1, <2>2, HereIsLive, FitsIsScope
    <2> HIDE DEF m, F
    <2>5. DOMAIN m.frames = 1 .. Len(m.frames) /\ \A k \in 1 .. Len(m.frames) : m.frames[k] \in F
      BY <2>2, LenProperties, ElementOfSeq
    <2>6. \A k \in DOMAIN m.frames : ScopeFitsCode(m, m.frames[k], m.frames[k].pc + 1)
      BY <2>3, <2>5
    <2> QED
      BY <2>4, <2>6 DEF m
  <1>2. (NoClosureIsStored => MachinesAreWhole) /\ (NoClosureIsStored => PlacesFit)
            => (NoClosureIsStored /\ EveryClosureHasCode => CodeRunsInItsScope)
    BY <1>1
  <1> QED
    BY <1>2, MachinesStayWhole, PlacesStayFit, PTL
==============================================================================
