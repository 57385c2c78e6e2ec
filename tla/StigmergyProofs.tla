--------------------------- MODULE StigmergyProofs ---------------------------
(***************************************************************************)
(* Proofs about Stigmergy: its type invariant, the inductive invariant     *)
(* IInv, and from it that every client knows the last store of every other *)
(* or has it still to receive, and that no entry of another robot goes     *)
(* back, for any set of robots and any number of stores.                   *)
(*                                                                         *)
(* The argument looks at what robot r is still going to receive: its       *)
(* Stream, which is what waits in its socket followed by what waits in the *)
(* router's.  Forwarding leaves the stream of a client as it is, a read    *)
(* takes its head, and a store is appended to the streams of all.          *)
(***************************************************************************)
EXTENDS Stigmergy, SequenceTheorems, TLAPS

Stream(r) == inbox[r] \o router

(* A robot's entries pass in the order of its stores, of which there are   *)
(* n[q], and none passes that was not stored yet.                          *)
InOrder(s, n) ==
    /\ \A i \in 1 .. Len(s) : s[i].data <= n[s[i].robotID]
    /\ \A i, j \in 1 .. Len(s) :
          (i <= j /\ s[i].robotID = s[j].robotID) => s[i].data <= s[j].data

(* Where there is an entry of a robot there is its last one. *)
LastIsThere(s, n) ==
    \A i \in 1 .. Len(s) : Waits(MessageOf(s[i].robotID, n[s[i].robotID]), s)

(* Robot r, which has this map, receives nothing of others that is older. *)
NotOlder(r, map, s) ==
    \A i \in 1 .. Len(s) : s[i].robotID # r => map[s[i].robotID] <= s[i].data

(* Only clients take part. *)
Participation ==
    /\ \A q \in Robot : audience[q] \subseteq clients
    /\ \A r \in Robot \ clients :
          /\ stored[r] = 0 /\ inbox[r] = <<>> /\ at[r] = "instruction"
          /\ \A q \in Robot : stig[r][q] = 0

EntriesWereStored == \A r, q \in Robot : stig[r][q] <= stored[q]

Streams ==
    \A r \in Robot : /\ InOrder(Stream(r), stored)
                     /\ LastIsThere(Stream(r), stored)
                     /\ NotOlder(r, stig[r], Stream(r))

KnownOrInStream ==
    \A r \in clients : \A q \in Robot : Knows(r, q) \/ Waits(Latest(q), Stream(r))

IInv == TypeOK /\ Participation /\ EntriesWereStored /\ Streams /\ KnownOrInStream

------------------------------------------------------------------------------
(* Facts about queues. *)

(* A message that is appended is last. *)
LEMMA Sent ==
    ASSUME NEW S, NEW q \in Seq(S), NEW m \in S
    PROVE  /\ Append(q, m) \in Seq(S)
           /\ Len(q) \in Nat
           /\ Len(Append(q, m)) = Len(q) + 1
           /\ \A i \in 1 .. Len(q) : Append(q, m)[i] = q[i]
           /\ Append(q, m)[Len(q) + 1] = m
  OBVIOUS

(* Reading the head leaves the others, one place nearer. *)
LEMMA Taken ==
    ASSUME NEW S, NEW q \in Seq(S), q # <<>>
    PROVE  /\ Tail(q) \in Seq(S)
           /\ Len(q) \in Nat \ {0}
           /\ Len(Tail(q)) = Len(q) - 1
           /\ \A i \in 1 .. Len(q) - 1 : Tail(q)[i] = q[i + 1]
           /\ Head(q) = q[1]
           /\ Head(q) \in S
  BY HeadTailProperties, EmptySeq

(* A message sent is last in every stream. *)
LEMMA SentInStream ==
    ASSUME NEW S, NEW p \in Seq(S), NEW q \in Seq(S), NEW m \in S
    PROVE  p \o Append(q, m) = Append(p \o q, m)
  <1>1. p \o q \in Seq(S) /\ <<m>> \in Seq(S)
    BY ConcatProperties
  <1>2. Append(q, m) = q \o <<m>> /\ Append(p \o q, m) = (p \o q) \o <<m>>
    BY <1>1, AppendIsConcat
  <1> QED
    BY <1>1, <1>2, ConcatAssociative

(* A message read was the head of the stream. *)
LEMMA TakenFromStream ==
    ASSUME NEW S, NEW p \in Seq(S), NEW q \in Seq(S), p # <<>>
    PROVE  /\ p \o q # <<>>
           /\ Head(p \o q) = Head(p)
           /\ Tail(p \o q) = Tail(p) \o q
  <1>1. /\ p \o q \in Seq(S) /\ Len(p \o q) = Len(p) + Len(q)
        /\ \A i \in 1 .. Len(p) + Len(q) :
              (p \o q)[i] = IF i <= Len(p) THEN p[i] ELSE q[i - Len(p)]
    BY ConcatProperties
  <1>2. /\ Tail(p) \in Seq(S) /\ Len(p) \in Nat \ {0} /\ Len(Tail(p)) = Len(p) - 1
        /\ Head(p) = p[1] /\ \A i \in 1 .. Len(p) - 1 : Tail(p)[i] = p[i + 1]
    BY Taken
  <1>3. Len(q) \in Nat
    BY LenProperties
  <1>4. p \o q # <<>>
    BY <1>1, ConcatEqualIffEmpty
  <1>5. /\ Tail(p \o q) \in Seq(S) /\ Len(Tail(p \o q)) = Len(p) + Len(q) - 1
        /\ Head(p \o q) = (p \o q)[1]
        /\ \A i \in 1 .. Len(p) + Len(q) - 1 : Tail(p \o q)[i] = (p \o q)[i + 1]
    BY <1>1, <1>4, Taken
  <1>6. /\ Tail(p) \o q \in Seq(S) /\ Len(Tail(p) \o q) = Len(p) - 1 + Len(q)
        /\ \A i \in 1 .. Len(p) - 1 + Len(q) :
              (Tail(p) \o q)[i] = IF i <= Len(p) - 1 THEN Tail(p)[i] ELSE q[i - (Len(p) - 1)]
    BY <1>2, ConcatProperties
  <1>7. Head(p \o q) = Head(p)
    BY <1>1, <1>2, <1>3, <1>5
  <1>8. ASSUME NEW i \in 1 .. Len(p) + Len(q) - 1
        PROVE  Tail(p \o q)[i] = (Tail(p) \o q)[i]
    <2>1. i + 1 \in 1 .. Len(p) + Len(q) /\ i \in 1 .. Len(p) - 1 + Len(q)
      BY <1>2, <1>3
    <2>2. CASE i <= Len(p) - 1
      <3>1. i \in 1 .. Len(p) - 1 /\ i + 1 <= Len(p)
        BY <1>2, <2>2
      <3> QED
        BY <1>1, <1>2, <1>5, <1>6, <2>1, <3>1
    <2>3. CASE ~ (i <= Len(p) - 1)
      <3>1. ~ (i + 1 <= Len(p)) /\ (i + 1) - Len(p) = i - (Len(p) - 1)
        BY <1>2, <1>3, <2>3
      <3> QED
        BY <1>1, <1>5, <1>6, <2>1, <2>3, <3>1
    <2> QED
      BY <2>2, <2>3
  <1>9. Len(Tail(p \o q)) = Len(Tail(p) \o q)
    BY <1>2, <1>3, <1>5, <1>6
  <1>10. Tail(p \o q) = Tail(p) \o q
    BY <1>5, <1>6, <1>8, <1>9, SeqEqual
  <1> QED
    BY <1>4, <1>7, <1>10

(* Forwarding moves the place where a stream is cut. *)
LEMMA ForwardedInStream ==
    ASSUME NEW S, NEW p \in Seq(S), NEW q \in Seq(S), q # <<>>
    PROVE  Append(p, Head(q)) \o Tail(q) = p \o q
  <1>1. Head(q) \in S /\ Tail(q) \in Seq(S) /\ <<Head(q)>> \in Seq(S)
    BY Taken
  <1>2. Append(p, Head(q)) = p \o <<Head(q)>>
    BY <1>1, AppendIsConcat
  <1>3. q = <<Head(q)>> \o Tail(q)
    <2>1. Len(<<Head(q)>>) = 1 /\ <<Head(q)>>[1] = Head(q)
      OBVIOUS
    <2>2. /\ Len(q) \in Nat \ {0} /\ Len(Tail(q)) = Len(q) - 1 /\ Head(q) = q[1]
          /\ \A i \in 1 .. Len(q) - 1 : Tail(q)[i] = q[i + 1]
      BY Taken
    <2>3. /\ <<Head(q)>> \o Tail(q) \in Seq(S)
          /\ Len(<<Head(q)>> \o Tail(q)) = Len(q)
          /\ \A i \in 1 .. Len(q) :
                (<<Head(q)>> \o Tail(q))[i] = IF i <= 1 THEN <<Head(q)>>[i] ELSE Tail(q)[i - 1]
      BY <1>1, <2>1, <2>2, ConcatProperties
    <2>4. ASSUME NEW i \in 1 .. Len(q) PROVE (<<Head(q)>> \o Tail(q))[i] = q[i]
      <3>1. CASE i = 1
        BY <2>1, <2>2, <2>3, <3>1
      <3>2. CASE i # 1
        <4>1. i - 1 \in 1 .. Len(q) - 1 /\ ~ (i <= 1) /\ (i - 1) + 1 = i
          BY <2>2, <3>2
        <4> QED
          BY <2>2, <2>3, <4>1
      <3> QED
        BY <3>1, <3>2
    <2> QED
      BY <2>3, <2>4, SeqEqual
  <1> QED
    BY <1>1, <1>2, <1>3, ConcatAssociative

------------------------------------------------------------------------------
(* What a store and a read do to what is said of a stream. *)

(* A message is put together from its two fields. *)
LEMMA MessageFields ==
    ASSUME NEW m \in Message
    PROVE  /\ m.robotID \in Robot /\ m.data \in Nat
           /\ m = MessageOf(m.robotID, m.data)
  BY DEF Message, MessageOf

(* And the two fields are taken from it again. *)
LEMMA MessageOfFields ==
    ASSUME NEW q \in Robot, NEW k \in Nat
    PROVE  /\ MessageOf(q, k) \in Message
           /\ MessageOf(q, k).robotID = q /\ MessageOf(q, k).data = k
  BY DEF Message, MessageOf

(* A new store is behind all older ones of its robot. *)
LEMMA StoredInOrder ==
    ASSUME NEW s \in Seq(Message), NEW n \in [Robot -> Nat], NEW q \in Robot, InOrder(s, n)
    PROVE  InOrder(Append(s, MessageOf(q, n[q] + 1)), [n EXCEPT ![q] = n[q] + 1])
  <1> DEFINE m == MessageOf(q, n[q] + 1)
             t == Append(s, m)
             k == [n EXCEPT ![q] = n[q] + 1]
  <1>1. m \in Message /\ m.robotID = q /\ m.data = n[q] + 1
    BY MessageOfFields
  <1>2. /\ Len(s) \in Nat /\ Len(t) = Len(s) + 1 /\ t[Len(s) + 1] = m
        /\ \A i \in 1 .. Len(s) : t[i] = s[i]
    BY <1>1, Sent
  <1>3. \A i \in 1 .. Len(s) : s[i].robotID \in Robot /\ s[i].data \in Nat
    BY ElementOfSeq, MessageFields
  <1>4. k[q] = n[q] + 1 /\ \A p \in Robot \ {q} : k[p] = n[p]
    OBVIOUS
  <1> HIDE DEF m, t, k
  <1>5. \A i \in 1 .. Len(s) : s[i].data <= n[s[i].robotID]
    BY DEF InOrder
  <1>6. ASSUME NEW i \in 1 .. Len(t) PROVE t[i].data <= k[t[i].robotID]
    <2>1. CASE i = Len(s) + 1
      BY <1>1, <1>2, <1>4, <2>1
    <2>2. CASE i # Len(s) + 1
      <3>1. i \in 1 .. Len(s)
        BY <1>2, <2>2
      <3>2. t[i] = s[i] /\ s[i].robotID \in Robot /\ s[i].data \in Nat
            /\ s[i].data <= n[s[i].robotID]
        BY <1>2, <1>3, <1>5, <3>1
      <3>3. n[s[i].robotID] \in Nat /\ n[s[i].robotID] <= k[s[i].robotID]
        BY <1>4, <3>2
      <3>4. k[s[i].robotID] \in Nat
        BY <1>4, <3>2
      <3> QED
        BY <3>2, <3>3, <3>4
    <2> QED
      BY <2>1, <2>2
  <1>7. ASSUME NEW i \in 1 .. Len(t), NEW j \in 1 .. Len(t),
               i <= j, t[i].robotID = t[j].robotID
        PROVE  t[i].data <= t[j].data
    <2>1. CASE j = Len(s) + 1
      <3>1. CASE i = Len(s) + 1
        BY <1>1, <1>2, <2>1, <3>1
      <3>2. CASE i # Len(s) + 1
        <4>1. i \in 1 .. Len(s)
          BY <1>2, <3>2
        <4>2. t[i] = s[i] /\ s[i].robotID = q /\ s[i].data \in Nat /\ s[i].data <= n[q]
          BY <1>1, <1>2, <1>3, <1>5, <1>7, <2>1, <4>1
        <4> QED
          BY <1>1, <1>2, <2>1, <4>2
      <3> QED
        BY <3>1, <3>2
    <2>2. CASE j # Len(s) + 1
      <3>1. i \in 1 .. Len(s) /\ j \in 1 .. Len(s)
        BY <1>2, <1>7, <2>2
      <3> QED
        BY <1>2, <1>7, <3>1 DEF InOrder
    <2> QED
      BY <2>1, <2>2
  <1>8. InOrder(t, k)
    BY <1>6, <1>7 DEF InOrder
  <1> QED
    BY <1>8 DEF t, k, m

(* A new store is its robot's last one, and it is there. *)
LEMMA StoredLastIsThere ==
    ASSUME NEW s \in Seq(Message), NEW n \in [Robot -> Nat], NEW q \in Robot, LastIsThere(s, n)
    PROVE  LastIsThere(Append(s, MessageOf(q, n[q] + 1)), [n EXCEPT ![q] = n[q] + 1])
  <1> DEFINE m == MessageOf(q, n[q] + 1)
             t == Append(s, m)
             k == [n EXCEPT ![q] = n[q] + 1]
  <1>1. m \in Message /\ m.robotID = q /\ m.data = n[q] + 1
    BY MessageOfFields
  <1>2. /\ Len(s) \in Nat /\ Len(t) = Len(s) + 1 /\ t[Len(s) + 1] = m
        /\ \A i \in 1 .. Len(s) : t[i] = s[i]
    BY <1>1, Sent
  <1>3. \A i \in 1 .. Len(s) : s[i].robotID \in Robot
    BY ElementOfSeq, MessageFields
  <1>4. k[q] = n[q] + 1 /\ \A p \in Robot \ {q} : k[p] = n[p]
    OBVIOUS
  <1>5. m = MessageOf(q, k[q])
    BY <1>4
  <1> HIDE DEF m, t, k
  <1>6. Waits(m, t)
    BY <1>2 DEF Waits
  <1>7. ASSUME NEW i \in 1 .. Len(t) PROVE Waits(MessageOf(t[i].robotID, k[t[i].robotID]), t)
    <2>1. CASE t[i].robotID = q
      BY <1>5, <1>6, <2>1
    <2>2. CASE t[i].robotID # q
      <3>1. i \in 1 .. Len(s)
        BY <1>1, <1>2, <2>2
      <3>2. t[i] = s[i] /\ k[s[i].robotID] = n[s[i].robotID]
        BY <1>2, <1>3, <1>4, <2>2, <3>1
      <3>3. PICK j \in 1 .. Len(s) : s[j] = MessageOf(s[i].robotID, n[s[i].robotID])
        BY <3>1 DEF LastIsThere, Waits
      <3>4. j \in 1 .. Len(t) /\ t[j] = s[j]
        BY <1>2
      <3> QED
        BY <3>2, <3>3, <3>4 DEF Waits
    <2> QED
      BY <2>1, <2>2
  <1>8. LastIsThere(t, k)
    BY <1>7 DEF LastIsThere
  <1> QED
    BY <1>8 DEF t, k, m

(* A new store is not older than what anybody has. *)
LEMMA StoredNotOlder ==
    ASSUME NEW s \in Seq(Message), NEW n \in [Robot -> Nat], NEW q \in Robot, NEW r \in Robot,
           NEW map \in [Robot -> Nat], map[q] <= n[q], NotOlder(r, map, s)
    PROVE  NotOlder(r, map, Append(s, MessageOf(q, n[q] + 1)))
  <1> DEFINE m == MessageOf(q, n[q] + 1)
             t == Append(s, m)
  <1>1. m \in Message /\ m.robotID = q /\ m.data = n[q] + 1
    BY MessageOfFields
  <1>2. /\ Len(s) \in Nat /\ Len(t) = Len(s) + 1 /\ t[Len(s) + 1] = m
        /\ \A i \in 1 .. Len(s) : t[i] = s[i]
    BY <1>1, Sent
  <1> HIDE DEF m, t
  <1>3. ASSUME NEW i \in 1 .. Len(t), t[i].robotID # r PROVE map[t[i].robotID] <= t[i].data
    <2>1. CASE i = Len(s) + 1
      BY <1>1, <1>2, <2>1
    <2>2. CASE i # Len(s) + 1
      <3>1. i \in 1 .. Len(s) /\ t[i] = s[i]
        BY <1>2, <2>2
      <3> QED
        BY <1>3, <3>1 DEF NotOlder
    <2> QED
      BY <2>1, <2>2
  <1>4. NotOlder(r, map, t)
    BY <1>3 DEF NotOlder
  <1> QED
    BY <1>4 DEF t, m

(* Reading the head leaves the order of the others. *)
LEMMA ReadInOrder ==
    ASSUME NEW s \in Seq(Message), NEW n \in [Robot -> Nat], s # <<>>, InOrder(s, n)
    PROVE  InOrder(Tail(s), n)
  <1>1. /\ Len(s) \in Nat /\ Len(Tail(s)) = Len(s) - 1
        /\ \A i \in 1 .. Len(s) - 1 : Tail(s)[i] = s[i + 1] /\ i + 1 \in 1 .. Len(s)
    BY Taken
  <1>2. ASSUME NEW i \in 1 .. Len(Tail(s)) PROVE Tail(s)[i].data <= n[Tail(s)[i].robotID]
    BY <1>1 DEF InOrder
  <1>3. ASSUME NEW i \in 1 .. Len(Tail(s)), NEW j \in 1 .. Len(Tail(s)),
               i <= j, Tail(s)[i].robotID = Tail(s)[j].robotID
        PROVE  Tail(s)[i].data <= Tail(s)[j].data
    <2>1. Tail(s)[i] = s[i + 1] /\ Tail(s)[j] = s[j + 1] /\ i + 1 <= j + 1
          /\ i + 1 \in 1 .. Len(s) /\ j + 1 \in 1 .. Len(s)
      BY <1>1, <1>3
    <2> QED
      BY <1>3, <2>1 DEF InOrder
  <1> QED
    BY <1>2, <1>3 DEF InOrder

(* The head that is read may be the last entry of a robot: entries of that *)
(* robot behind it are then the same one.                                  *)
LEMMA ReadLastIsThere ==
    ASSUME NEW s \in Seq(Message), NEW n \in [Robot -> Nat], s # <<>>,
           InOrder(s, n), LastIsThere(s, n)
    PROVE  LastIsThere(Tail(s), n)
  <1>1. /\ Len(s) \in Nat \ {0} /\ Len(Tail(s)) = Len(s) - 1
        /\ \A i \in 1 .. Len(s) - 1 : Tail(s)[i] = s[i + 1]
    BY Taken
  <1>2. SUFFICES ASSUME NEW i \in 1 .. Len(Tail(s))
                 PROVE  Waits(MessageOf(Tail(s)[i].robotID, n[Tail(s)[i].robotID]), Tail(s))
    BY DEF LastIsThere
  <1>3. Tail(s)[i] = s[i + 1] /\ i + 1 \in 1 .. Len(s)
    BY <1>1
  <1>4. s[i + 1] \in Message
    BY <1>3, ElementOfSeq
  <1> DEFINE q == s[i + 1].robotID
  <1>5. q \in Robot /\ s[i + 1].data \in Nat /\ s[i + 1] = MessageOf(q, s[i + 1].data)
    BY <1>4, MessageFields
  <1>6. PICK j \in 1 .. Len(s) : s[j] = MessageOf(q, n[q])
    BY <1>3 DEF LastIsThere, Waits
  <1>7. CASE j = 1
    <2>1. s[1].robotID = q /\ s[1].data = n[q]
      BY <1>5, <1>6, <1>7, MessageOfFields
    <2>2. 1 <= i + 1 /\ 1 \in 1 .. Len(s)
      BY <1>1
    <2>3. n[q] <= s[i + 1].data
      BY <1>3, <2>1, <2>2 DEF InOrder
    <2>4. s[i + 1].data <= n[q]
      BY <1>3 DEF InOrder
    <2>5. s[i + 1].data = n[q]
      BY <1>5, <2>3, <2>4
    <2>6. Tail(s)[i] = MessageOf(q, n[q])
      BY <1>3, <1>5, <2>5
    <2> QED
      BY <1>3, <2>6 DEF Waits
  <1>8. CASE j # 1
    <2>1. j - 1 \in 1 .. Len(s) - 1 /\ (j - 1) + 1 = j
      BY <1>1, <1>8
    <2>2. Tail(s)[j - 1] = MessageOf(q, n[q]) /\ j - 1 \in 1 .. Len(Tail(s))
      BY <1>1, <1>6, <2>1
    <2> QED
      BY <1>3, <2>2 DEF Waits
  <1> QED
    BY <1>7, <1>8

(* What is left behind the head is not older than the head. *)
LEMMA ReadNotOlder ==
    ASSUME NEW s \in Seq(Message), NEW n \in [Robot -> Nat], NEW r \in Robot,
           NEW map \in [Robot -> Nat], s # <<>>, InOrder(s, n), NotOlder(r, map, s)
    PROVE  /\ NotOlder(r, map, Tail(s))
           /\ NotOlder(r, updateStigValue(map, Head(s).robotID, Head(s).data), Tail(s))
  <1>1. /\ Len(s) \in Nat \ {0} /\ Len(Tail(s)) = Len(s) - 1 /\ Head(s) = s[1]
        /\ \A i \in 1 .. Len(s) - 1 : Tail(s)[i] = s[i + 1]
    BY Taken
  <1>2. NotOlder(r, map, Tail(s))
    <2> SUFFICES ASSUME NEW i \in 1 .. Len(Tail(s)), Tail(s)[i].robotID # r
                 PROVE  map[Tail(s)[i].robotID] <= Tail(s)[i].data
      BY DEF NotOlder
    <2>1. Tail(s)[i] = s[i + 1] /\ i + 1 \in 1 .. Len(s)
      BY <1>1
    <2> QED
      BY <2>1 DEF NotOlder
  <1>3. ASSUME NEW i \in 1 .. Len(Tail(s)), Tail(s)[i].robotID # r
        PROVE  updateStigValue(map, Head(s).robotID, Head(s).data)[Tail(s)[i].robotID]
                    <= Tail(s)[i].data
    <2>1. Tail(s)[i] = s[i + 1] /\ i + 1 \in 1 .. Len(s) /\ 1 \in 1 .. Len(s) /\ 1 <= i + 1
      BY <1>1
    <2>2. s[i + 1].robotID \in Robot
      BY <2>1, ElementOfSeq, MessageFields
    <2>3. CASE s[i + 1].robotID = Head(s).robotID
      <3>1. s[1].data <= s[i + 1].data
        BY <1>1, <2>1, <2>3 DEF InOrder
      <3>2. updateStigValue(map, Head(s).robotID, Head(s).data)[s[i + 1].robotID] = s[1].data
        BY <1>1, <2>2, <2>3 DEF updateStigValue
      <3> QED
        BY <2>1, <3>1, <3>2
    <2>4. CASE s[i + 1].robotID # Head(s).robotID
      <3>1. updateStigValue(map, Head(s).robotID, Head(s).data)[s[i + 1].robotID]
                = map[s[i + 1].robotID]
        BY <2>2, <2>4 DEF updateStigValue
      <3> QED
        BY <1>2, <1>3, <2>1, <3>1 DEF NotOlder
    <2> QED
      BY <2>3, <2>4
  <1> QED
    BY <1>2, <1>3 DEF NotOlder

(* A robot's own entry does not count. *)
LEMMA OwnNotOlder ==
    ASSUME NEW s \in Seq(Message), NEW r \in Robot, NEW map \in [Robot -> Nat], NEW d \in Nat,
           NotOlder(r, map, s)
    PROVE  NotOlder(r, updateStigValue(map, r, d), s)
  <1> SUFFICES ASSUME NEW i \in 1 .. Len(s), s[i].robotID # r
               PROVE  updateStigValue(map, r, d)[s[i].robotID] <= s[i].data
    BY DEF NotOlder
  <1>1. s[i].robotID \in Robot
    BY ElementOfSeq, MessageFields
  <1>2. updateStigValue(map, r, d)[s[i].robotID] = map[s[i].robotID]
    BY <1>1 DEF updateStigValue
  <1> QED
    BY <1>2 DEF NotOlder

(* What waits, and is not read now, goes on waiting. *)
LEMMA WaitsBehind ==
    ASSUME NEW S, NEW s \in Seq(S), s # <<>>, NEW m, Waits(m, s), m # Head(s)
    PROVE  Waits(m, Tail(s))
  <1>1. /\ Len(s) \in Nat \ {0} /\ Len(Tail(s)) = Len(s) - 1 /\ Head(s) = s[1]
        /\ \A i \in 1 .. Len(s) - 1 : Tail(s)[i] = s[i + 1]
    BY Taken
  <1>2. PICK j \in 1 .. Len(s) : s[j] = m
    BY DEF Waits
  <1>3. j - 1 \in 1 .. Len(s) - 1 /\ (j - 1) + 1 = j
    BY <1>1, <1>2
  <1> QED
    BY <1>1, <1>2, <1>3 DEF Waits

(* What was appended waits, and what waited goes on waiting. *)
LEMMA WaitsSent ==
    ASSUME NEW S, NEW s \in Seq(S), NEW x \in S
    PROVE  /\ Waits(x, Append(s, x))
           /\ \A m : Waits(m, s) => Waits(m, Append(s, x))
  BY Sent DEF Waits

(* What waits in two queues one after the other waits in one of them. *)
LEMMA WaitsInStream ==
    ASSUME NEW S, NEW p \in Seq(S), NEW q \in Seq(S), NEW m, Waits(m, p \o q)
    PROVE  Waits(m, p) \/ Waits(m, q)
  <1>1. PICK i \in 1 .. Len(p \o q) : (p \o q)[i] = m
    BY DEF Waits
  <1>2. /\ Len(p) \in Nat /\ Len(q) \in Nat /\ Len(p \o q) = Len(p) + Len(q)
        /\ (p \o q)[i] = IF i <= Len(p) THEN p[i] ELSE q[i - Len(p)]
    BY <1>1, ConcatProperties, LenProperties
  <1>3. CASE i <= Len(p)
    BY <1>1, <1>2, <1>3 DEF Waits
  <1>4. CASE ~ (i <= Len(p))
    <2>1. i - Len(p) \in 1 .. Len(q)
      BY <1>2, <1>4
    <2> QED
      BY <1>1, <1>2, <1>4, <2>1 DEF Waits
  <1> QED
    BY <1>3, <1>4

------------------------------------------------------------------------------
(* The inductive invariant. *)

(* The invariant holds before anybody has stored. *)
LEMMA InitIInv == Init => IInv
  <1> SUFFICES ASSUME Init PROVE IInv
    OBVIOUS
  <1> USE DEF Init, NetInit
  <1>1. TypeOK
    BY EmptySeq DEF TypeOK
  <1>2. Participation /\ EntriesWereStored /\ KnownOrInStream
    BY DEF Participation, EntriesWereStored, KnownOrInStream
  <1>3. ASSUME NEW r \in Robot PROVE Stream(r) = <<>> /\ Len(Stream(r)) = 0
    <2>1. <<>> \in Seq(Message)
      BY EmptySeq
    <2> QED
      BY <2>1, ConcatEmptySeq, EmptySeq DEF Stream
  <1>4. Streams
    <2> SUFFICES ASSUME NEW r \in Robot
                 PROVE  /\ InOrder(Stream(r), stored) /\ LastIsThere(Stream(r), stored)
                        /\ NotOlder(r, stig[r], Stream(r))
      BY DEF Streams
    <2>1. 1 .. Len(Stream(r)) = {}
      BY <1>3
    <2> QED
      BY ONLY <2>1 DEF InOrder, LastIsThere, NotOlder
  <1> QED
    BY <1>1, <1>2, <1>4 DEF IInv

(* A stream is a sequence of messages. *)
LEMMA StreamType == TypeOK => \A r \in Robot : Stream(r) \in Seq(Message)
  BY ConcatProperties DEF TypeOK, Stream

(* A robot that joins has nothing and has nothing to receive. *)
LEMMA RegisterStep == ASSUME IInv, NEW r \in Robot, Register(r) PROVE IInv'
  <1> USE DEF Register, AddClient
  <1>1. TypeOK'
    BY DEF IInv, TypeOK
  <1>2. Participation' /\ EntriesWereStored'
    BY DEF IInv, TypeOK, Participation, EntriesWereStored
  <1>3. \A q \in Robot : Stream(q)' = Stream(q)
    BY DEF Stream
  <1>4. Streams'
    BY <1>3 DEF IInv, Streams
  <1>5. ASSUME NEW p \in clients', NEW q \in Robot
        PROVE  Knows(p, q)' \/ Waits(Latest(q), Stream(p))'
    <2>1. CASE p = r
      <3>1. stig'[r][q] = 0 /\ r \notin audience'[q]
        BY DEF IInv, Participation
      <3> QED
        BY <2>1, <3>1 DEF Knows
    <2>2. CASE p # r
      <3>1. p \in clients /\ p \in Robot
        BY <2>2 DEF IInv, TypeOK
      <3>2. Knows(p, q) \/ Waits(Latest(q), Stream(p))
        BY <3>1 DEF IInv, KnownOrInStream
      <3>3. Latest(q)' = Latest(q) /\ Knows(p, q)' = Knows(p, q) /\ Stream(p)' = Stream(p)
        BY <1>3, <3>1 DEF Latest, Knows
      <3> QED
        BY <3>2, <3>3 DEF Waits
    <2> QED
      BY <2>1, <2>2
  <1> QED
    BY <1>1, <1>2, <1>4, <1>5 DEF IInv, KnownOrInStream

(* An instruction that is no store, and a check that finds nothing, change *)
(* at only.                                                                *)
LEMMA AtStep ==
    ASSUME IInv, NEW r \in Robot, OtherInstruction(r) \/ NoMessage(r)
    PROVE  IInv'
  <1>1. UNCHANGED <<clients, router, inbox, stig, stored, audience>>
    BY DEF OtherInstruction, NoMessage, netVars
  <1>2. TypeOK'
    BY <1>1 DEF IInv, TypeOK, OtherInstruction, NoMessage
  <1>3. Participation'
    <2>1. \A q \in Robot \ clients : at'[q] = at[q]
      BY DEF IInv, Participation, TypeOK, OtherInstruction, NoMessage
    <2> QED
      BY <1>1, <2>1 DEF IInv, Participation
  <1>4. EntriesWereStored' /\ Streams' /\ KnownOrInStream'
    BY <1>1 DEF IInv, EntriesWereStored, Streams, KnownOrInStream, Stream, Latest, Knows
  <1> QED
    BY <1>2, <1>3, <1>4 DEF IInv

(* Stuttering, which needs no robot. *)
LEMMA IInvStutters == ASSUME IInv, UNCHANGED vars PROVE IInv'
  BY DEF IInv, TypeOK, Participation, EntriesWereStored, Streams, KnownOrInStream,
         Stream, Latest, Knows, vars, netVars

(* Forwarding leaves the streams of the clients as they are. *)
LEMMA ForwardStep == ASSUME IInv, RouterForward PROVE IInv'
  <1> USE DEF RouterForward, Forward
  <1>1. TypeOK /\ router \in Seq(Message) /\ router # <<>> /\ inbox \in [Robot -> Seq(Message)]
    BY DEF IInv, TypeOK
  <1>2. Head(router) \in Message /\ Tail(router) \in Seq(Message)
    BY <1>1, Taken
  <1>3. inbox' \in [Robot -> Seq(Message)]
    BY <1>1, <1>2, Sent
  <1>4. TypeOK'
    BY <1>1, <1>2, <1>3 DEF TypeOK
  <1>5. Participation' /\ EntriesWereStored'
    BY <1>1 DEF IInv, TypeOK, Participation, EntriesWereStored
  <1>6. ASSUME NEW r \in Robot, r \in clients PROVE Stream(r)' = Stream(r)
    <2>1. inbox'[r] = Append(inbox[r], Head(router))
      BY <1>6
    <2>2. Append(inbox[r], Head(router)) \o Tail(router) = inbox[r] \o router
      BY <1>1, ForwardedInStream
    <2> QED
      BY <2>1, <2>2 DEF Stream
  <1>7. ASSUME NEW r \in Robot, r \notin clients
        PROVE  Stream(r) # <<>> /\ Stream(r)' = Tail(Stream(r))
    <2>1. inbox[r] = <<>> /\ inbox'[r] = <<>>
      BY <1>7 DEF IInv, Participation
    <2>2. <<>> \o router = router /\ <<>> \o Tail(router) = Tail(router)
      BY <1>1, <1>2, ConcatEmptySeq
    <2> QED
      BY <1>1, <2>1, <2>2 DEF Stream
  <1>8. ASSUME NEW r \in Robot
        PROVE  /\ InOrder(Stream(r), stored)' /\ LastIsThere(Stream(r), stored)'
               /\ NotOlder(r, stig[r], Stream(r))'
    <2>1. /\ InOrder(Stream(r), stored) /\ LastIsThere(Stream(r), stored)
          /\ NotOlder(r, stig[r], Stream(r))
      BY DEF IInv, Streams
    <2>2. stored' = stored /\ stig' = stig /\ stored \in [Robot -> Nat] /\ stig[r] \in [Robot -> Nat]
      BY <1>1 DEF TypeOK
    <2>3. CASE r \in clients
      BY <1>6, <2>1, <2>2, <2>3
    <2>4. CASE r \notin clients
      <3>1. Stream(r) \in Seq(Message) /\ Stream(r) # <<>> /\ Stream(r)' = Tail(Stream(r))
        BY <1>1, <1>7, <2>4, StreamType
      <3>2. /\ InOrder(Tail(Stream(r)), stored) /\ LastIsThere(Tail(Stream(r)), stored)
            /\ NotOlder(r, stig[r], Tail(Stream(r)))
        BY <2>1, <2>2, <3>1, ReadInOrder, ReadLastIsThere, ReadNotOlder
      <3> QED
        BY <2>2, <3>1, <3>2
    <2> QED
      BY <2>3, <2>4
  <1>9. KnownOrInStream'
    <2> SUFFICES ASSUME NEW r \in clients, NEW q \in Robot
                 PROVE  Knows(r, q)' \/ Waits(Latest(q), Stream(r))'
      BY DEF KnownOrInStream
    <2>1. Stream(r)' = Stream(r) /\ Latest(q)' = Latest(q) /\ Knows(r, q)' = Knows(r, q)
      BY <1>1, <1>6 DEF TypeOK, Latest, Knows
    <2>2. Knows(r, q) \/ Waits(Latest(q), Stream(r))
      BY DEF IInv, KnownOrInStream
    <2> QED
      BY <2>1, <2>2 DEF Waits
  <1> QED
    BY <1>4, <1>5, <1>8, <1>9 DEF IInv, Streams

(* A store is appended to the stream of every client. *)
LEMMA StoreStep == ASSUME IInv, NEW q \in Robot, StoreStig(q) PROVE IInv'
  <1> DEFINE m == MessageOf(q, stored[q] + 1)
  <1>1. /\ TypeOK /\ router \in Seq(Message) /\ inbox \in [Robot -> Seq(Message)]
        /\ stored \in [Robot -> Nat] /\ stig \in [Robot -> [Robot -> Nat]] /\ q \in clients
    BY DEF IInv, TypeOK, StoreStig
  <1>2. /\ stored' = [stored EXCEPT ![q] = stored[q] + 1] /\ stored' \in [Robot -> Nat]
        /\ stored'[q] = stored[q] + 1 /\ \A p \in Robot \ {q} : stored'[p] = stored[p]
    BY <1>1 DEF StoreStig
  <1>3. /\ stig' = [stig EXCEPT ![q] = updateStigValue(stig[q], q, stored[q] + 1)]
        /\ \A p \in Robot \ {q} : stig'[p] = stig[p]
        /\ stig'[q] = updateStigValue(stig[q], q, stored[q] + 1)
    BY <1>1 DEF StoreStig
  <1>4. updateStigValue(stig[q], q, stored[q] + 1) \in [Robot -> Nat]
    BY <1>1 DEF updateStigValue
  <1>5. m \in Message
    BY <1>1, MessageOfFields
  <1>6. router' = Append(router, m) /\ inbox' = inbox /\ clients' = clients
    BY DEF StoreStig, Send
  <1>7. router' \in Seq(Message)
    BY <1>1, <1>5, <1>6, Sent
  <1>8. TypeOK'
    BY <1>1, <1>2, <1>3, <1>4, <1>6, <1>7 DEF TypeOK, StoreStig
  <1>9. Participation'
    <2>1. \A p \in Robot : audience'[p] \subseteq clients
      BY <1>1 DEF IInv, Participation, TypeOK, StoreStig
    <2>2. \A p \in Robot \ clients : p # q /\ at'[p] = at[p]
      BY <1>1 DEF TypeOK, StoreStig
    <2> QED
      BY <1>2, <1>3, <1>6, <2>1, <2>2 DEF IInv, Participation
  <1>10. EntriesWereStored'
    <2> SUFFICES ASSUME NEW r \in Robot, NEW p \in Robot PROVE stig'[r][p] <= stored'[p]
      BY DEF EntriesWereStored
    <2>1. stig[r][p] <= stored[p] /\ stig[r][p] \in Nat /\ stored[p] \in Nat
      BY <1>1 DEF IInv, EntriesWereStored
    <2>2. CASE r = q /\ p = q
      <3>1. stig'[q][q] = stored[q] + 1
        BY <1>1, <1>3 DEF updateStigValue
      <3> QED
        BY <1>1, <1>2, <2>2, <3>1
    <2>3. CASE ~ (r = q /\ p = q)
      <3>1. stig'[r][p] = stig[r][p]
        BY <1>1, <1>3, <2>3 DEF updateStigValue
      <3> QED
        BY <1>2, <2>1, <3>1
    <2> QED
      BY <2>2, <2>3
  <1>11. ASSUME NEW r \in Robot
         PROVE  Stream(r) \in Seq(Message) /\ Stream(r)' = Append(Stream(r), m)
    BY <1>1, <1>5, <1>6, SentInStream, StreamType DEF Stream
  <1> HIDE DEF m
  <1>12. ASSUME NEW r \in Robot
         PROVE  /\ InOrder(Stream(r), stored)' /\ LastIsThere(Stream(r), stored)'
                /\ NotOlder(r, stig[r], Stream(r))'
    <2>1. /\ InOrder(Stream(r), stored) /\ LastIsThere(Stream(r), stored)
          /\ NotOlder(r, stig[r], Stream(r)) /\ stig[r][q] <= stored[q]
      BY DEF IInv, Streams, EntriesWereStored
    <2>2. /\ InOrder(Append(Stream(r), m), stored')
          /\ LastIsThere(Append(Stream(r), m), stored')
      BY <1>1, <1>2, <1>11, <2>1, StoredInOrder, StoredLastIsThere DEF m
    <2>3. NotOlder(r, stig[r], Append(Stream(r), m))
      BY <1>1, <1>11, <2>1, StoredNotOlder DEF m
    <2>4. Append(Stream(r), m) \in Seq(Message)
      BY <1>5, <1>11, Sent
    <2>5. NotOlder(r, stig'[r], Append(Stream(r), m))
      <3>1. CASE r = q
        <4>1. stig[q] \in [Robot -> Nat] /\ stored[q] + 1 \in Nat
          BY <1>1
        <4>2. NotOlder(q, stig[q], Append(Stream(q), m)) /\ Append(Stream(q), m) \in Seq(Message)
          BY <2>3, <2>4, <3>1
        <4>3. NotOlder(q, updateStigValue(stig[q], q, stored[q] + 1), Append(Stream(q), m))
          BY ONLY <4>1, <4>2, OwnNotOlder
        <4> QED
          BY <1>3, <3>1, <4>3
      <3>2. CASE r # q
        BY <1>3, <2>3, <3>2
      <3> QED
        BY <3>1, <3>2
    <2> QED
      BY <1>11, <2>2, <2>5
  <1>13. ASSUME NEW r \in clients', NEW p \in Robot
         PROVE  Knows(r, p)' \/ Waits(Latest(p), Stream(r))'
    <2>1. r \in Robot /\ r \in clients
      BY <1>1, <1>6 DEF TypeOK
    <2>2. Stream(r) \in Seq(Message) /\ Stream(r)' = Append(Stream(r), m)
      BY <1>11, <2>1
    <2>3. CASE p = q
      <3>1. Latest(p)' = m
        BY <1>2, <2>3 DEF Latest, m
      <3>2. Waits(m, Append(Stream(r), m))
        BY <1>5, <2>2, WaitsSent
      <3> QED
        BY <2>2, <3>1, <3>2
    <2>4. CASE p # q
      <3>1. Knows(r, p) \/ Waits(Latest(p), Stream(r))
        BY <2>1 DEF IInv, KnownOrInStream
      <3>2. stored'[p] = stored[p] /\ stig'[r][p] = stig[r][p] /\ audience'[p] = audience[p]
        BY <1>1, <1>2, <1>3, <2>1, <2>4 DEF StoreStig, updateStigValue, TypeOK
      <3>3. Knows(r, p)' = Knows(r, p) /\ Latest(p)' = Latest(p)
        BY <3>2 DEF Knows, Latest
      <3>4. Waits(Latest(p), Stream(r)) => Waits(Latest(p), Append(Stream(r), m))
        BY <1>5, <2>2, WaitsSent
      <3> QED
        BY <2>2, <3>1, <3>3, <3>4
    <2> QED
      BY <2>3, <2>4
  <1> QED
    BY <1>8, <1>9, <1>10, <1>12, <1>13 DEF IInv, Streams, KnownOrInStream

(* A read: the entry that robot r has is replaced by one that is not older *)
(* if it is another robot's; its own may go back, but then its last one    *)
(* waits behind.                                                           *)
LEMMA ReadStep == ASSUME IInv, NEW r \in Robot, UpdateStigValue(r) PROVE IInv'
  <1> DEFINE s == Stream(r)
             h == Head(inbox[r])
  <1>1. /\ TypeOK /\ router \in Seq(Message) /\ inbox \in [Robot -> Seq(Message)]
        /\ stored \in [Robot -> Nat] /\ stig \in [Robot -> [Robot -> Nat]]
        /\ inbox[r] \in Seq(Message) /\ inbox[r] # <<>>
    BY DEF IInv, TypeOK, UpdateStigValue, Receive
  <1>2. /\ inbox' = [inbox EXCEPT ![r] = Tail(inbox[r])]
        /\ stig' = [stig EXCEPT ![r] = updateStigValue(stig[r], h.robotID, h.data)]
        /\ UNCHANGED <<clients, router, stored, audience>>
    BY DEF UpdateStigValue, Receive
  <1>3. h \in Message /\ Tail(inbox[r]) \in Seq(Message)
    BY <1>1, Taken
  <1>4. h.robotID \in Robot /\ h.data \in Nat /\ h = MessageOf(h.robotID, h.data)
    BY <1>3, MessageFields
  <1>5. s \in Seq(Message) /\ s # <<>> /\ h = Head(s)
    BY <1>1, StreamType, TakenFromStream DEF Stream
  <1>6. Stream(r)' = Tail(Stream(r)) /\ \A p \in Robot \ {r} : Stream(p)' = Stream(p)
    BY <1>1, <1>2, TakenFromStream DEF Stream
  <1>7. InOrder(s, stored) /\ LastIsThere(s, stored) /\ NotOlder(r, stig[r], s)
    BY DEF IInv, Streams
  <1>8. h = s[1] /\ 1 \in 1 .. Len(s)
    BY <1>5, Taken
  <1> HIDE DEF s, h
  <1>9. updateStigValue(stig[r], h.robotID, h.data) \in [Robot -> Nat]
    BY <1>1, <1>4 DEF updateStigValue
  <1>10. TypeOK'
    BY <1>1, <1>2, <1>3, <1>9 DEF TypeOK, UpdateStigValue
  <1>11. Participation'
    <2>1. r \in clients
      BY <1>1 DEF IInv, Participation
    <2>2. \A p \in Robot \ clients : inbox'[p] = inbox[p] /\ at'[p] = at[p] /\ stig'[p] = stig[p]
      BY <1>1, <1>2, <2>1 DEF TypeOK, UpdateStigValue
    <2> QED
      BY <1>2, <2>2 DEF IInv, Participation
  <1>12. EntriesWereStored'
    <2> SUFFICES ASSUME NEW p \in Robot, NEW q \in Robot PROVE stig'[p][q] <= stored[q]
      BY <1>2 DEF EntriesWereStored
    <2>1. CASE p = r /\ q = h.robotID
      <3>1. stig'[p][q] = h.data
        BY <1>1, <1>2, <2>1 DEF updateStigValue
      <3>2. h.data <= stored[h.robotID]
        BY <1>7, <1>8 DEF InOrder
      <3> QED
        BY <2>1, <3>1, <3>2
    <2>2. CASE ~ (p = r /\ q = h.robotID)
      <3>1. stig'[p][q] = stig[p][q]
        BY <1>1, <1>2, <2>2 DEF updateStigValue
      <3> QED
        BY <3>1 DEF IInv, EntriesWereStored
    <2> QED
      BY <2>1, <2>2
  <1>13. Streams'
    <2> SUFFICES ASSUME NEW p \in Robot
                 PROVE  /\ InOrder(Stream(p), stored)' /\ LastIsThere(Stream(p), stored)'
                        /\ NotOlder(p, stig[p], Stream(p))'
      BY DEF Streams
    <2>1. CASE p = r
      <3>1. stig'[r] = updateStigValue(stig[r], Head(s).robotID, Head(s).data)
        BY <1>1, <1>2, <1>5
      <3>2. /\ InOrder(Tail(s), stored) /\ LastIsThere(Tail(s), stored)
            /\ NotOlder(r, updateStigValue(stig[r], Head(s).robotID, Head(s).data), Tail(s))
        BY <1>1, <1>5, <1>7, ReadInOrder, ReadLastIsThere, ReadNotOlder
      <3> QED
        BY <1>2, <1>6, <2>1, <3>1, <3>2 DEF s
    <2>2. CASE p # r
      <3>1. Stream(p)' = Stream(p) /\ stig'[p] = stig[p] /\ stored' = stored
        BY <1>1, <1>2, <1>6, <2>2
      <3> QED
        BY <3>1 DEF IInv, Streams
    <2> QED
      BY <2>1, <2>2
  <1>14. ASSUME NEW p \in clients', NEW q \in Robot
         PROVE  Knows(p, q)' \/ Waits(Latest(q), Stream(p))'
    <2>1. p \in clients /\ p \in Robot
      BY <1>1, <1>2 DEF TypeOK
    <2>2. Knows(p, q) \/ Waits(Latest(q), Stream(p))
      BY <2>1 DEF IInv, KnownOrInStream
    <2>3. Latest(q)' = Latest(q) /\ Latest(q) = MessageOf(q, stored[q])
      BY <1>2 DEF Latest
    <2>4. CASE p # r
      <3>1. Knows(p, q)' = Knows(p, q) /\ Stream(p)' = Stream(p)
        BY <1>1, <1>2, <1>6, <2>1, <2>4 DEF Knows
      <3> QED
        BY <2>2, <2>3, <3>1
    <2>5. CASE p = r /\ h = Latest(q)
      <3>1. h.robotID = q /\ h.data = stored[q]
        BY <1>1, <2>3, <2>5, MessageOfFields
      <3>2. stig'[r][q] = stored'[q]
        BY <1>1, <1>2, <3>1 DEF updateStigValue
      <3> QED
        BY <2>5, <3>2 DEF Knows
    <2>6. CASE p = r /\ h # Latest(q) /\ Waits(Latest(q), s)
      <3>1. Waits(Latest(q), Tail(s))
        BY <1>5, <2>6, WaitsBehind
      <3> QED
        BY <1>6, <2>3, <2>6, <3>1 DEF s
    <2>7. CASE p = r /\ ~ Waits(Latest(q), s)
      <3>1. h.robotID # q
        BY <1>7, <1>8, <2>3, <2>7 DEF LastIsThere
      <3>2. stig'[r][q] = stig[r][q]
        BY <1>1, <1>2, <3>1 DEF updateStigValue
      <3>3. Knows(r, q)' = Knows(r, q)
        BY <1>2, <3>2 DEF Knows
      <3>4. Knows(r, q)
        BY <2>2, <2>7 DEF s
      <3> QED
        BY <2>7, <3>3, <3>4
    <2> QED
      BY <2>4, <2>5, <2>6, <2>7
  <1> QED
    BY <1>10, <1>11, <1>12, <1>13, <1>14 DEF IInv, KnownOrInStream

------------------------------------------------------------------------------
(* The theorems. *)

(* Every step keeps the invariant. *)
LEMMA NextIInv == IInv /\ [Next]_vars => IInv'
  <1> SUFFICES ASSUME IInv, [Next]_vars PROVE IInv'
    OBVIOUS
  <1>1. CASE RouterForward
    BY <1>1, ForwardStep
  <1>2. CASE \E r \in Robot : Register(r)
    BY <1>2, RegisterStep
  <1>3. CASE \E r \in Robot : StoreStig(r)
    BY <1>3, StoreStep
  <1>4. CASE \E r \in Robot : OtherInstruction(r) \/ NoMessage(r)
    BY <1>4, AtStep
  <1>5. CASE \E r \in Robot : UpdateStigValue(r)
    BY <1>5, ReadStep
  <1>6. CASE UNCHANGED vars
    BY <1>6, IInvStutters
  <1> QED
    BY <1>1, <1>2, <1>3, <1>4, <1>5, <1>6 DEF Next, CheckForMessage

(* IInv holds in every state of the swarm. *)
THEOREM Invariance == Spec => []IInv
  BY InitIInv, NextIInv, PTL DEF Spec

(* The maps, the sockets and the histories keep their types: what a robot  *)
(* reads and writes under an ID is an entry of a robot of the swarm.       *)
THEOREM TypeCorrectness == Spec => []TypeOK
  <1>1. IInv => TypeOK
    BY DEF IInv
  <1> QED
    BY <1>1, Invariance, PTL

(* Every client knows what every other stored last or has it still to      *)
(* receive, in its own socket or through the router's: the effect of       *)
(* storeStig's broadcast and checkForMessage's blind overwrite together.   *)
THEOREM EntriesKnownOrOnTheWay == Spec => []KnownOrOnTheWay
  <1>1. ASSUME IInv PROVE KnownOrOnTheWay
    <2> SUFFICES ASSUME NEW r \in clients, NEW q \in clients
                 PROVE  Knows(r, q) \/ Waits(Latest(q), inbox[r]) \/ Waits(Latest(q), router)
      BY DEF KnownOrOnTheWay
    <2>1. r \in Robot /\ q \in Robot /\ inbox[r] \in Seq(Message) /\ router \in Seq(Message)
      BY <1>1 DEF IInv, TypeOK
    <2>2. Knows(r, q) \/ Waits(Latest(q), inbox[r] \o router)
      BY <1>1, <2>1 DEF IInv, KnownOrInStream, Stream
    <2> QED
      BY <2>1, <2>2, WaitsInStream
  <1> QED
    BY <1>1, Invariance, PTL

(* A step leaves what is known of the others or replaces it by something   *)
(* that is no older: the entry read is the head of the stream.             *)
LEMMA OthersGoForward ==
    ASSUME IInv, [Next]_vars, NEW r \in Robot, NEW q \in Robot \ {r}
    PROVE  stig'[r][q] >= stig[r][q]
  <1>1. /\ stig \in [Robot -> [Robot -> Nat]] /\ stig[r][q] \in Nat
        /\ inbox \in [Robot -> Seq(Message)] /\ router \in Seq(Message)
    BY DEF IInv, TypeOK
  <1>2. CASE stig' = stig
    BY <1>1, <1>2
  <1>3. CASE \E p \in Robot : StoreStig(p)
    <2>1. stig'[r][q] = stig[r][q]
      BY <1>1, <1>3 DEF StoreStig, updateStigValue
    <2> QED
      BY <1>1, <2>1
  <1>4. ASSUME NEW p \in Robot, UpdateStigValue(p) PROVE stig'[r][q] >= stig[r][q]
    <2>1. /\ stig' = [stig EXCEPT ![p] = updateStigValue(stig[p], Head(inbox[p]).robotID,
                                                         Head(inbox[p]).data)]
          /\ inbox[p] \in Seq(Message) /\ inbox[p] # <<>>
      BY <1>1, <1>4 DEF UpdateStigValue, Receive
    <2>2. CASE p = r /\ Head(inbox[r]).robotID = q
      <3>1. Stream(r) \in Seq(Message) /\ Stream(r) # <<>> /\ Head(Stream(r)) = Head(inbox[r])
        BY <1>1, <2>1, <2>2, StreamType, TakenFromStream DEF IInv, Stream
      <3>2. Head(inbox[r]) = Stream(r)[1] /\ 1 \in 1 .. Len(Stream(r))
        BY <3>1, Taken
      <3>3. Head(inbox[r]) \in Message /\ Head(inbox[r]).data \in Nat
        BY <2>1, <2>2, Taken, MessageFields
      <3>4. stig[r][q] <= Head(inbox[r]).data
        BY <2>2, <3>2 DEF IInv, Streams, NotOlder
      <3>5. stig'[r][q] = Head(inbox[r]).data
        BY <1>1, <2>1, <2>2 DEF updateStigValue
      <3> QED
        BY <1>1, <3>3, <3>4, <3>5
    <2>3. CASE ~ (p = r /\ Head(inbox[r]).robotID = q)
      <3>1. stig'[r][q] = stig[r][q]
        BY <1>1, <2>1, <2>3 DEF updateStigValue
      <3> QED
        BY <1>1, <3>1
    <2> QED
      BY <2>2, <2>3
  <1> QED
    BY <1>2, <1>3, <1>4 DEF Next, RouterForward, Register, OtherInstruction,
                                  CheckForMessage, NoMessage, vars

(* No robot ever sees another robot's entry go back or disappear: nothing  *)
(* in the stream to it is older than its entry.                            *)
THEOREM OthersEntriesNeverGoBack == Spec => OthersNeverGoBack
  <1>1. IInv /\ [Next]_vars
            => [\A r \in Robot : \A q \in Robot \ {r} : stig'[r][q] >= stig[r][q]]_vars
    BY OthersGoForward
  <1> QED
    BY <1>1, Invariance, PTL DEF Spec, OthersNeverGoBack
==============================================================================
