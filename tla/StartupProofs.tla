---------------------------- MODULE StartupProofs ----------------------------
(***************************************************************************)
(* Proofs about Startup: for any number of robots, started in any order    *)
(* before or after the start signal, those that run have IDs of their own, *)
(* and the handshake and the updates never mix.  At the end the same with  *)
(* packets lost, ports used again and the router restarted: it holds until *)
(* the first such fault, and nobody starts early even after it.            *)
(***************************************************************************)
EXTENDS Startup, SequenceTheorems, TLAPS

------------------------------------------------------------------------------
(* Facts about queues.                                                     *)

(* Delivering one packet. *)
LEMMA OneMore ==
    ASSUME NEW S, NEW q \in Seq(S), NEW x \in S
    PROVE  /\ q \o <<x>> \in Seq(S)
           /\ Len(q) \in Nat
           /\ Len(q \o <<x>>) = Len(q) + 1
           /\ \A i \in 1 .. Len(q) : (q \o <<x>>)[i] = q[i]
           /\ (q \o <<x>>)[Len(q) + 1] = x
  <1>1. <<x>> \in Seq(S) /\ Len(<<x>>) = 1 /\ <<x>>[1] = x
    OBVIOUS
  <1> QED
    BY <1>1, ConcatProperties, LenProperties

(* Delivering nothing. *)
LEMMA NoMore == ASSUME NEW S, NEW q \in Seq(S) PROVE q \o <<>> = q /\ <<>> \o q = q
  BY ConcatEmptySeq

(* Sending a request. *)
LEMMA Sent ==
    ASSUME NEW S, NEW q \in Seq(S), NEW m \in S
    PROVE  /\ Append(q, m) \in Seq(S)
           /\ Len(q) \in Nat
           /\ Len(Append(q, m)) = Len(q) + 1
           /\ \A i \in 1 .. Len(q) : Append(q, m)[i] = q[i]
           /\ Append(q, m)[Len(q) + 1] = m
  OBVIOUS

(* Reading a packet. *)
LEMMA Taken ==
    ASSUME NEW S, NEW q \in Seq(S), q # <<>>
    PROVE  /\ Tail(q) \in Seq(S)
           /\ Len(q) \in Nat \ {0}
           /\ Len(Tail(q)) = Len(q) - 1
           /\ \A i \in 1 .. Len(q) - 1 : Tail(q)[i] = q[i + 1]
           /\ Head(q) = q[1]
           /\ Head(q) \in S
  BY HeadTailProperties, EmptySeq

(* Updates stay updates when the packet before them is read ... *)
LEMMA UpdatesMoveUp ==
    ASSUME NEW q \in Seq(Packet), q # <<>>, NEW n \in Nat \ {0}, AllUpdates(q, n + 1)
    PROVE  AllUpdates(Tail(q), n)
  <1> SUFFICES ASSUME NEW i \in n .. Len(Tail(q)) PROVE Tail(q)[i].kind = "update"
    BY DEF AllUpdates
  <1>1. Len(q) \in Nat /\ Len(Tail(q)) = Len(q) - 1
    BY Taken
  <1>2. i \in 1 .. Len(q) - 1 /\ i + 1 \in n + 1 .. Len(q)
    BY <1>1
  <1> QED
    BY <1>2, Taken DEF AllUpdates

(* ... and when one more is delivered. *)
LEMMA UpdatesGoOn ==
    ASSUME NEW q \in Seq(Packet), NEW p \in Packet, p.kind = "update",
           NEW n \in Nat \ {0}, AllUpdates(q, n)
    PROVE  AllUpdates(q \o <<p>>, n)
  <1> SUFFICES ASSUME NEW i \in n .. Len(q \o <<p>>) PROVE (q \o <<p>>)[i].kind = "update"
    BY DEF AllUpdates
  <1>1. Len(q) \in Nat /\ Len(q \o <<p>>) = Len(q) + 1
    BY OneMore
  <1>2. CASE i = Len(q) + 1
    BY <1>2, OneMore
  <1>3. CASE i # Len(q) + 1
    <2>1. i \in 1 .. Len(q) /\ i \in n .. Len(q)
      BY <1>1, <1>3
    <2> QED
      BY <2>1, OneMore DEF AllUpdates
  <1> QED
    BY <1>2, <1>3

(* Reading the ID leaves the start signal first in the queue ... *)
LEMMA SignalMovesUp ==
    ASSUME NEW q \in Seq(Packet), q # <<>>, SignalAt(q, 2)
    PROVE  SignalAt(Tail(q), 1)
  <1>1. Len(q) \in Nat /\ Len(Tail(q)) = Len(q) - 1
    BY Taken
  <1>2. CASE goSignalSent
    <2>1. Len(q) >= 2 /\ q[2].kind = "go" /\ AllUpdates(q, 2 + 1)
      BY <1>2 DEF SignalAt
    <2>2. AllUpdates(Tail(q), 1 + 1)
      <3>1. 1 + 1 \in Nat \ {0} /\ AllUpdates(q, (1 + 1) + 1)
        BY <2>1
      <3> QED
        BY <3>1, UpdatesMoveUp
    <2>3. Len(Tail(q)) >= 1 /\ 1 \in 1 .. Len(q) - 1
      BY <1>1, <2>1
    <2>4. Tail(q)[1].kind = "go"
      BY <2>1, <2>3, Taken
    <2> QED
      BY <1>2, <2>2, <2>3, <2>4 DEF SignalAt
  <1>3. CASE ~ goSignalSent
    <2>1. Len(Tail(q)) = 1 - 1
      BY <1>1, <1>3 DEF SignalAt
    <2> QED
      BY <1>3, <2>1 DEF SignalAt
  <1> QED
    BY <1>2, <1>3

(* ... an update queues up behind the signal ... *)
LEMMA SignalStays ==
    ASSUME goSignalSent, NEW q \in Seq(Packet), NEW p \in Packet, p.kind = "update",
           NEW n \in Nat \ {0}, SignalAt(q, n)
    PROVE  SignalAt(q \o <<p>>, n)
  <1>1. Len(q) >= n /\ q[n].kind = "go" /\ AllUpdates(q, n + 1)
    BY DEF SignalAt
  <1>2. Len(q) \in Nat /\ Len(q \o <<p>>) = Len(q) + 1
    BY OneMore
  <1>3. n \in 1 .. Len(q) /\ Len(q \o <<p>>) >= n /\ n + 1 \in Nat \ {0}
    BY <1>1, <1>2
  <1>4. (q \o <<p>>)[n].kind = "go"
    BY <1>1, <1>3, OneMore
  <1>5. AllUpdates(q \o <<p>>, n + 1)
    BY <1>1, <1>3, UpdatesGoOn
  <1> QED
    BY <1>3, <1>4, <1>5 DEF SignalAt

(* ... and the signal, when sent, comes where it was awaited. *)
LEMMA SignalComes ==
    ASSUME NEW q \in Seq(Packet), NEW p \in Packet, p.kind = "go",
           NEW n \in Nat \ {0}, Len(q) = n - 1
    PROVE  /\ Len(q \o <<p>>) >= n
           /\ (q \o <<p>>)[n].kind = "go"
           /\ AllUpdates(q \o <<p>>, n + 1)
  <1>1. Len(q \o <<p>>) = n /\ n = Len(q) + 1
    BY OneMore
  <1>2. (q \o <<p>>)[n] = p
    BY <1>1, OneMore
  <1>3. AllUpdates(q \o <<p>>, n + 1)
    BY <1>1 DEF AllUpdates
  <1> QED
    BY <1>1, <1>2, <1>3

------------------------------------------------------------------------------
(* The ID robot q has or will read stays where it is. *)
OwnIDAt(q) == phase[q] = "awaitID" => inbox'[q][1] = inbox[q][1]

(* What a step does to one robot's part of the handshake.                  *)

(* Nothing, if it concerns another robot. *)
LEMMA Undisturbed ==
    ASSUME NEW q \in Robot, Handshake(q), phase'[q] = phase[q], inbox'[q] = inbox[q],
           (q \in clients)' = (q \in clients), goSignalSent' = goSignalSent
    PROVE  Handshake(q)'
  BY DEF Handshake, SignalAt, AllUpdates

(* A forwarded update queues up behind everything the robot awaits. *)
LEMMA UpdateArrives ==
    ASSUME TypeOK, NEW q \in clients, Handshake(q), goSignalSent, goSignalSent',
           phase'[q] = phase[q], q \in clients',
           NEW p \in Packet, p.kind = "update", inbox'[q] = Deliver(q, <<p>>)
    PROVE  Handshake(q)' /\ OwnIDAt(q)
  <1>1. inbox[q] \in Seq(Packet) /\ q \in Robot
    BY DEF TypeOK
  <1>2. CASE phase[q] = "awaitID"
    <2>1. inbox'[q] = inbox[q] \o <<p>>
      BY <1>2 DEF Deliver, Listening
    <2>2. inbox[q] # <<>> /\ inbox[q][1].kind = "id" /\ SignalAt(inbox[q], 2)
      BY <1>1, <1>2 DEF Handshake
    <2>3. SignalAt(inbox[q] \o <<p>>, 2)
      <3>1. 2 \in Nat \ {0}
        OBVIOUS
      <3> QED
        BY <1>1, <2>2, <3>1, SignalStays
    <2>4. SignalAt(inbox[q], 2)'
      BY <2>1, <2>3 DEF SignalAt, AllUpdates
    <2>5. (inbox[q] \o <<p>>)[1] = inbox[q][1]
      <3>1. 1 \in 1 .. Len(inbox[q])
        BY <1>1, <2>2, Taken
      <3> QED
        BY <1>1, <3>1, OneMore
    <2>6. inbox'[q] # <<>>
      <3>1. Len(inbox'[q]) = Len(inbox[q]) + 1 /\ Len(inbox[q]) \in Nat
        BY <1>1, <2>1, OneMore
      <3>2. Len(inbox'[q]) # 0
        BY <3>1
      <3> QED
        BY <3>2, EmptySeq
    <2> QED
      BY <1>2, <2>1, <2>2, <2>4, <2>5, <2>6 DEF Handshake, OwnIDAt
  <1>3. CASE phase[q] = "awaitGo"
    <2>1. inbox'[q] = inbox[q] \o <<p>>
      BY <1>3 DEF Deliver, Listening
    <2>2. SignalAt(inbox[q] \o <<p>>, 1)
      <3>1. 1 \in Nat \ {0} /\ SignalAt(inbox[q], 1)
        BY <1>1, <1>3 DEF Handshake
      <3> QED
        BY <1>1, <3>1, SignalStays
    <2> QED
      BY <1>3, <2>1, <2>2 DEF Handshake, SignalAt, AllUpdates, OwnIDAt
  <1>4. CASE phase[q] = "running"
    <2>1. inbox'[q] = inbox[q] \o <<p>>
      BY <1>4 DEF Deliver, Listening
    <2>2. AllUpdates(inbox[q] \o <<p>>, 1)
      <3>1. 1 \in Nat \ {0} /\ AllUpdates(inbox[q], 1)
        BY <1>1, <1>4 DEF Handshake
      <3> QED
        BY <1>1, <3>1, UpdatesGoOn
    <2> QED
      BY <1>4, <2>1, <2>2 DEF Handshake, AllUpdates, OwnIDAt
  <1>5. CASE phase[q] = "gone"
    BY <1>1, <1>5 DEF Handshake, Deliver, Listening, OwnIDAt
  <1>6. phase[q] # "off" /\ phase[q] \in Phase
    BY <1>1 DEF Handshake, TypeOK
  <1> QED
    BY <1>2, <1>3, <1>4, <1>5, <1>6 DEF Phase

(* What the router sends keeps inboxes well-typed. *)
LEMMA DeliverType ==
    ASSUME TypeOK, NEW q \in Robot, NEW ps \in Seq(Packet)
    PROVE  Deliver(q, ps) \in Seq(Packet)
  BY ConcatProperties DEF Deliver, TypeOK

(* What goes through the sockets, and what it carries. *)
LEMMA PacketTypes ==
    /\ Go \in Packet /\ Go.kind = "go"
    /\ \A i \in Nat : ID(i) \in Packet /\ ID(i).kind = "id" /\ ID(i).id = i
    /\ \A r \in Robot : Ping(r) \in Request /\ Ping(r).from = r /\ Ping(r).kind = "ping"
    /\ \A r \in Robot, i \in Int : /\ Update(r, i) \in Request
                                  /\ Update(r, i).from = r
                                  /\ Update(r, i).kind = "update"
  BY DEF Go, ID, Ping, Update, Packet, Request

------------------------------------------------------------------------------
(* Initially.                                                              *)

(* The invariant holds before anybody is launched. *)
LEMMA InitIInv == Init => IInv
  <1> SUFFICES ASSUME Init PROVE IInv
    OBVIOUS
  <1>1. <<>> \in Seq(Packet) /\ <<>> \in Seq(Request) /\ Len(<<>>) = 0
    BY EmptySeq
  <1>2. TypeOK
    <2>1. phase \in [Robot -> Phase] /\ robotID \in [Robot -> Int]
      BY DEF Init, Phase
    <2>2. inbox \in [Robot -> Seq(Packet)] /\ router \in Seq(Request)
      BY <1>1 DEF Init
    <2>3. clients \subseteq Robot /\ misread \subseteq Robot /\ currentID \in Nat
      BY DEF Init
    <2>4. /\ goSignalSent \in BOOLEAN /\ childAlive \in BOOLEAN /\ started \in BOOLEAN
          /\ updates \in Nat /\ faults \in Nat
      BY DEF Init
    <2> QED
      BY <2>1, <2>2, <2>3, <2>4 DEF TypeOK
  <1>3. \A r \in Robot : Handshake(r)
    BY DEF Init, Handshake
  <1>4. Requests
    BY <1>1 DEF Init, Requests
  <1>5. SignalOnce /\ OwnIDsDistinct
    BY DEF Init, SignalOnce, OwnIDsDistinct
  <1>6. NothingMisread
    BY DEF Init, NothingMisread
  <1> QED
    BY <1>2, <1>3, <1>4, <1>5, <1>6 DEF IInv

------------------------------------------------------------------------------
(* The robot's steps.                                                      *)

(* Whoever sent a request is a robot. *)
LEMMA RequestType ==
    ASSUME TypeOK, NEW i \in 1 .. Len(router)
    PROVE  router[i] \in Request /\ router[i].from \in Robot
  <1>1. router \in Seq(Request)
    BY DEF TypeOK
  <1>2. router[i] \in Request
    BY <1>1, ElementOfSeq
  <1> QED
    BY <1>2 DEF Request

(* A request of a launched robot joins the router's queue. *)
LEMMA RequestSent ==
    ASSUME TypeOK, Requests, NEW m \in Request, router' = Append(router, m),
           clients' = clients, goSignalSent' = goSignalSent,
           \A q \in Robot : phase[q] # "off" => phase'[q] # "off",
           phase'[m.from] # "off",
           m.kind = "update" => goSignalSent /\ m.from \in clients
    PROVE  Requests' /\ router' \in Seq(Request)
  <1>1. router \in Seq(Request)
    BY DEF TypeOK
  <1>2. ASSUME NEW i \in 1 .. Len(router')
        PROVE  /\ phase'[router'[i].from] # "off"
               /\ router'[i].kind = "update" => goSignalSent' /\ router'[i].from \in clients'
    <2>1. CASE i = Len(router) + 1
      BY <1>1, <2>1, Sent
    <2>2. CASE i # Len(router) + 1
      <3>1. i \in 1 .. Len(router) /\ router'[i] = router[i]
        BY <1>1, <2>2, Sent
      <3>2. router[i].from \in Robot
        BY <3>1, RequestType
      <3> QED
        BY <3>1, <3>2 DEF Requests
    <2> QED
      BY <2>1, <2>2
  <1> QED
    BY <1>1, <1>2, Sent DEF Requests

(* A robot's step that leaves the router's queue alone. *)
LEMMA RequestsStay ==
    ASSUME TypeOK, Requests, router' = router, clients' = clients,
           goSignalSent' = goSignalSent,
           \A q \in Robot : phase[q] # "off" => phase'[q] # "off"
    PROVE  Requests'
  <1> SUFFICES ASSUME NEW i \in 1 .. Len(router)
               PROVE  /\ phase'[router[i].from] # "off"
                      /\ router[i].kind = "update" => goSignalSent /\ router[i].from \in clients
    BY DEF Requests
  <1>1. router[i].from \in Robot
    BY RequestType
  <1> QED
    BY <1>1 DEF Requests

(* A launch puts a ping on its way and nothing else. *)
LEMMA LaunchStep == ASSUME IInv, NEW r \in Robot, Launch(r) PROVE IInv'
  <1> USE DEF IInv
  <1>1. /\ phase[r] = "off" /\ phase' = [phase EXCEPT ![r] = "awaitID"]
        /\ robotID' = [robotID EXCEPT ![r] = -1]
        /\ router' = Append(router, Ping(r))
        /\ UNCHANGED <<inbox, clients, currentID, goSignalSent, childAlive, updates,
                       faults, started, misread>>
    BY DEF Launch, routerVars
  <1>2. r \notin clients /\ inbox[r] = <<>>
    BY <1>1 DEF Handshake
  <1>3. Requests' /\ router' \in Seq(Request)
    <2>1. /\ phase'[r] # "off"
          /\ \A q \in Robot : phase[q] # "off" => phase'[q] # "off"
      BY <1>1 DEF TypeOK
    <2> QED
      BY <1>1, <2>1, RequestSent, PacketTypes
  <1>4. TypeOK'
    BY <1>1, <1>3 DEF TypeOK, Phase
  <1>5. ASSUME NEW q \in Robot PROVE Handshake(q)'
    <2>1. CASE q = r
      BY <1>1, <1>2, <2>1 DEF Handshake, TypeOK
    <2>2. CASE q # r
      BY <1>1, <2>2, Undisturbed DEF TypeOK
    <2> QED
      BY <2>1, <2>2
  <1>6. SignalOnce' /\ NothingMisread'
    BY <1>1 DEF SignalOnce, NothingMisread
  <1>7. OwnIDsDistinct'
    <2>1. \A q \in clients : OwnID(q)' = OwnID(q)
      BY <1>1, <1>2 DEF OwnID, TypeOK
    <2> QED
      BY <1>1, <2>1 DEF OwnIDsDistinct
  <1> QED
    BY <1>3, <1>4, <1>5, <1>6, <1>7

(* The packet first in the inbox is the ID. *)
LEMMA ReceiveIDStep == ASSUME IInv, NEW r \in Robot, ReceiveID(r) PROVE IInv'
  <1> USE DEF IInv
  <1>1. inbox[r] \in Seq(Packet) /\ inbox[r] # <<>> /\ phase[r] = "awaitID"
    BY DEF TypeOK, ReceiveID, Await
  <1>2. r \in clients /\ inbox[r][1].kind = "id" /\ SignalAt(inbox[r], 2)
    BY <1>1 DEF Handshake
  <1>3. Head(inbox[r]) = inbox[r][1] /\ inbox[r][1] \in Packet /\ Tail(inbox[r]) \in Seq(Packet)
    BY <1>1, Taken
  <1>4. /\ robotID' = [robotID EXCEPT ![r] = inbox[r][1].id]
        /\ inbox' = [inbox EXCEPT ![r] = Tail(inbox[r])]
        /\ phase' = [phase EXCEPT ![r] = "awaitGo"]
        /\ UNCHANGED <<router, clients, currentID, goSignalSent, childAlive, updates,
                       faults, started, misread>>
    BY <1>2, <1>3 DEF ReceiveID, Await, ReadInto, TypeOK, routerVars
  <1>5. TypeOK'
    BY <1>3, <1>4 DEF TypeOK, Phase, Packet
  <1>6. ASSUME NEW q \in Robot PROVE Handshake(q)'
    <2>1. CASE q = r
      <3>1. phase'[r] = "awaitGo" /\ inbox'[r] = Tail(inbox[r])
        BY <1>4 DEF TypeOK
      <3>2. SignalAt(inbox[r], 1)'
        <4>1. SignalAt(Tail(inbox[r]), 1)
          BY <1>1, <1>2, SignalMovesUp
        <4> QED
          BY <1>4, <3>1, <4>1 DEF SignalAt, AllUpdates
      <3> QED
        BY <1>2, <1>4, <2>1, <3>1, <3>2 DEF Handshake
    <2>2. CASE q # r
      BY <1>4, <2>2, Undisturbed DEF TypeOK
    <2> QED
      BY <2>1, <2>2
  <1>7. Requests'
    <2>1. \A q \in Robot : phase[q] # "off" => phase'[q] # "off"
      BY <1>4 DEF TypeOK
    <2> QED
      BY <1>4, <2>1, RequestsStay
  <1>8. SignalOnce' /\ NothingMisread'
    BY <1>4 DEF SignalOnce, NothingMisread
  <1>9. OwnIDsDistinct'
    <2>1. \A q \in clients : OwnID(q)' = OwnID(q)
      BY <1>1, <1>4 DEF OwnID, TypeOK
    <2> QED
      BY <1>4, <2>1 DEF OwnIDsDistinct
  <1> QED
    BY <1>5, <1>6, <1>7, <1>8, <1>9

(* The packet first in the inbox is the start signal: there is no other. *)
LEMMA ReceiveGoStep == ASSUME IInv, NEW r \in Robot, ReceiveGo(r) PROVE IInv'
  <1> USE DEF IInv
  <1>1. inbox[r] \in Seq(Packet) /\ inbox[r] # <<>> /\ phase[r] = "awaitGo"
    BY DEF TypeOK, ReceiveGo, Await
  <1>2. r \in clients /\ SignalAt(inbox[r], 1)
    BY <1>1 DEF Handshake
  <1>3. Head(inbox[r]) = inbox[r][1] /\ Tail(inbox[r]) \in Seq(Packet)
    BY <1>1, Taken
  <1>4. goSignalSent /\ inbox[r][1].kind = "go" /\ AllUpdates(inbox[r], 1 + 1)
    <2>1. Len(inbox[r]) # 1 - 1
      BY <1>1, Taken
    <2> QED
      BY <1>2, <2>1 DEF SignalAt
  <1>5. /\ robotID' = [robotID EXCEPT ![r] = robotID[r]]
        /\ inbox' = [inbox EXCEPT ![r] = Tail(inbox[r])]
        /\ phase' = [phase EXCEPT ![r] = "running"]
        /\ UNCHANGED <<router, clients, currentID, goSignalSent, childAlive, updates,
                       faults, started, misread>>
    BY <1>3, <1>4 DEF ReceiveGo, Await, ReadInto, TypeOK, routerVars
  <1>6. TypeOK'
    BY <1>3, <1>5 DEF TypeOK, Phase
  <1>7. ASSUME NEW q \in Robot PROVE Handshake(q)'
    <2>1. CASE q = r
      <3>1. phase'[r] = "running" /\ inbox'[r] = Tail(inbox[r])
        BY <1>5 DEF TypeOK
      <3>2. AllUpdates(Tail(inbox[r]), 1)
        <4>1. 1 \in Nat \ {0}
          OBVIOUS
        <4> QED
          BY <1>1, <1>4, <4>1, UpdatesMoveUp
      <3>3. AllUpdates(inbox[r], 1)'
        BY <3>1, <3>2 DEF AllUpdates
      <3> QED
        BY <1>2, <1>4, <1>5, <2>1, <3>1, <3>3 DEF Handshake
    <2>2. CASE q # r
      BY <1>5, <2>2, Undisturbed DEF TypeOK
    <2> QED
      BY <2>1, <2>2
  <1>8. Requests'
    <2>1. \A q \in Robot : phase[q] # "off" => phase'[q] # "off"
      BY <1>5 DEF TypeOK
    <2> QED
      BY <1>5, <2>1, RequestsStay
  <1>9. SignalOnce' /\ NothingMisread'
    BY <1>5 DEF SignalOnce, NothingMisread
  <1>10. OwnIDsDistinct'
    <2>1. \A q \in clients : OwnID(q)' = OwnID(q)
      BY <1>1, <1>5 DEF OwnID, TypeOK
    <2> QED
      BY <1>5, <2>1 DEF OwnIDsDistinct
  <1> QED
    BY <1>6, <1>7, <1>8, <1>9, <1>10

(* Only a registered robot that runs sends an update. *)
LEMMA BroadcastStep == ASSUME IInv, NEW r \in Robot, Broadcast(r) PROVE IInv'
  <1> USE DEF IInv
  <1>1. /\ phase[r] = "running" /\ updates' = updates + 1
        /\ router' = Append(router, Update(r, robotID[r]))
        /\ UNCHANGED <<phase, robotID, inbox, clients, currentID, goSignalSent, childAlive,
                       faults, started, misread>>
    BY DEF Broadcast, routerVars
  <1>2. r \in clients /\ goSignalSent /\ robotID[r] \in Int
    BY <1>1 DEF Handshake, TypeOK
  <1>3. Requests' /\ router' \in Seq(Request)
    BY <1>1, <1>2, RequestSent, PacketTypes
  <1>4. TypeOK'
    BY <1>1, <1>3 DEF TypeOK
  <1>5. ASSUME NEW q \in Robot PROVE Handshake(q)'
    BY <1>1, Undisturbed
  <1>6. SignalOnce' /\ NothingMisread'
    BY <1>1 DEF SignalOnce, NothingMisread
  <1>7. OwnIDsDistinct'
    BY <1>1 DEF OwnIDsDistinct, OwnID
  <1> QED
    BY <1>3, <1>4, <1>5, <1>6, <1>7

(* A running robot has nothing but updates to read. *)
LEMMA CheckForMessageStep == ASSUME IInv, NEW r \in Robot, CheckForMessage(r) PROVE IInv'
  <1> USE DEF IInv
  <1>1. inbox[r] \in Seq(Packet) /\ inbox[r] # <<>> /\ phase[r] = "running"
    BY DEF TypeOK, CheckForMessage
  <1>2. r \in clients /\ goSignalSent /\ AllUpdates(inbox[r], 1)
    BY <1>1 DEF Handshake
  <1>3. Head(inbox[r]).kind = "update" /\ Tail(inbox[r]) \in Seq(Packet)
    <2>1. 1 \in 1 .. Len(inbox[r]) /\ Head(inbox[r]) = inbox[r][1] /\ Tail(inbox[r]) \in Seq(Packet)
      BY <1>1, Taken
    <2> QED
      BY <1>2, <2>1 DEF AllUpdates
  <1>4. /\ inbox' = [inbox EXCEPT ![r] = Tail(inbox[r])]
        /\ UNCHANGED <<phase, robotID, router, clients, currentID, goSignalSent, childAlive,
                       updates, faults, started, misread>>
    BY <1>3 DEF CheckForMessage, TypeOK, routerVars
  <1>5. TypeOK'
    BY <1>3, <1>4 DEF TypeOK
  <1>6. ASSUME NEW q \in Robot PROVE Handshake(q)'
    <2>1. CASE q = r
      <3>1. 1 \in Nat \ {0} /\ AllUpdates(inbox[r], 1 + 1)
        BY <1>2 DEF AllUpdates
      <3>2. AllUpdates(Tail(inbox[r]), 1)
        BY <1>1, <3>1, UpdatesMoveUp
      <3>3. inbox'[r] = Tail(inbox[r]) /\ phase'[r] = "running"
        BY <1>1, <1>4 DEF TypeOK
      <3>4. AllUpdates(inbox[r], 1)'
        BY <3>2, <3>3 DEF AllUpdates
      <3> QED
        BY <1>2, <1>4, <2>1, <3>3, <3>4 DEF Handshake
    <2>2. CASE q # r
      BY <1>4, <2>2, Undisturbed DEF TypeOK
    <2> QED
      BY <2>1, <2>2
  <1>7. Requests'
    BY <1>4, RequestsStay
  <1>8. SignalOnce' /\ NothingMisread'
    BY <1>4 DEF SignalOnce, NothingMisread
  <1>9. OwnIDsDistinct'
    <2>1. \A q \in clients : OwnID(q)' = OwnID(q)
      BY <1>1, <1>4 DEF OwnID, TypeOK
    <2> QED
      BY <1>4, <2>1 DEF OwnIDsDistinct
  <1> QED
    BY <1>5, <1>6, <1>7, <1>8, <1>9

(* A robot that ends leaves its socket empty. *)
LEMMA FinishStep == ASSUME IInv, NEW r \in Robot, Finish(r) PROVE IInv'
  <1> USE DEF IInv
  <1>1. /\ phase[r] = "running" /\ phase' = [phase EXCEPT ![r] = "gone"]
        /\ inbox' = [inbox EXCEPT ![r] = <<>>]
        /\ UNCHANGED <<robotID, router, clients, currentID, goSignalSent, childAlive,
                       updates, faults, started, misread>>
    BY DEF Finish, routerVars
  <1>2. r \in clients
    BY <1>1 DEF Handshake
  <1>3. TypeOK'
    <2>1. <<>> \in Seq(Packet)
      BY EmptySeq
    <2> QED
      BY <1>1, <2>1 DEF TypeOK, Phase
  <1>4. ASSUME NEW q \in Robot PROVE Handshake(q)'
    <2>1. CASE q = r
      BY <1>1, <1>2, <2>1 DEF Handshake, TypeOK
    <2>2. CASE q # r
      BY <1>1, <2>2, Undisturbed DEF TypeOK
    <2> QED
      BY <2>1, <2>2
  <1>5. Requests'
    <2>1. \A q \in Robot : phase[q] # "off" => phase'[q] # "off"
      BY <1>1 DEF TypeOK
    <2> QED
      BY <1>1, <2>1, RequestsStay
  <1>6. SignalOnce' /\ NothingMisread'
    BY <1>1 DEF SignalOnce, NothingMisread
  <1>7. OwnIDsDistinct'
    <2>1. \A q \in clients : OwnID(q)' = OwnID(q)
      BY <1>1 DEF OwnID, TypeOK
    <2> QED
      BY <1>1, <2>1 DEF OwnIDsDistinct
  <1> QED
    BY <1>3, <1>4, <1>5, <1>6, <1>7

------------------------------------------------------------------------------
(* The router's steps.                                                     *)

(* The router has read one packet. *)
LEMMA RequestRead ==
    ASSUME TypeOK, Requests, router # <<>>, router' = Tail(router), phase' = phase,
           clients \subseteq clients', goSignalSent' = goSignalSent
    PROVE  Requests' /\ router' \in Seq(Request)
  <1>1. router \in Seq(Request)
    BY DEF TypeOK
  <1>2. /\ Tail(router) \in Seq(Request) /\ Len(router) \in Nat
        /\ Len(Tail(router)) = Len(router) - 1
        /\ \A i \in 1 .. Len(router) - 1 : Tail(router)[i] = router[i + 1]
    BY <1>1, Taken
  <1>3. ASSUME NEW i \in 1 .. Len(router')
        PROVE  /\ phase'[router'[i].from] # "off"
               /\ router'[i].kind = "update" => goSignalSent' /\ router'[i].from \in clients'
    <2>1. i \in 1 .. Len(router) - 1 /\ i + 1 \in 1 .. Len(router)
      BY <1>2
    <2>2. router'[i] = router[i + 1]
      BY <1>2, <2>1
    <2> QED
      BY <2>1, <2>2 DEF Requests
  <1> QED
    BY <1>2, <1>3 DEF Requests

(* The packet the router reads next. *)
LEMMA NextRequest ==
    ASSUME TypeOK, Requests, router # <<>>
    PROVE  /\ Head(router) \in Request /\ Head(router).from \in Robot
           /\ phase[Head(router).from] # "off"
           /\ Head(router).kind = "update" => goSignalSent /\ Head(router).from \in clients
  <1>1. router \in Seq(Request)
    BY DEF TypeOK
  <1>2. Head(router) \in Request /\ Head(router) = router[1] /\ 1 \in 1 .. Len(router)
    BY <1>1, Taken
  <1> QED
    BY <1>2 DEF Requests, Request

(* The signal reaches every client that still awaits it. *)
LEMMA SendGoStep == ASSUME IInv, SendGo PROVE IInv'
  <1> USE DEF IInv
  <1>1. /\ ~ goSignalSent /\ goSignalSent' /\ childAlive' = FALSE /\ started' = TRUE
        /\ inbox' = [q \in Robot |-> IF q \in clients THEN Deliver(q, <<Go>>) ELSE inbox[q]]
        /\ UNCHANGED <<phase, robotID, router, clients, currentID, updates, faults, misread>>
    BY DEF SendGo, SignalOnce, TypeOK
  <1>2. goSignalSent' = TRUE
    BY DEF SendGo
  <1>3. Go \in Packet /\ Go.kind = "go" /\ <<Go>> \in Seq(Packet)
    BY PacketTypes
  <1>4. TypeOK'
    <2>1. \A q \in Robot : inbox'[q] \in Seq(Packet)
      BY <1>1, <1>3, DeliverType DEF TypeOK
    <2>2. inbox' \in [Robot -> Seq(Packet)]
      BY <1>1, <2>1
    <2> QED
      BY <1>1, <1>2, <2>2 DEF TypeOK
  <1>5. ASSUME NEW q \in Robot
        PROVE  Handshake(q)' /\ (q \in clients => OwnID(q)' = OwnID(q))
    <2>1. CASE q \notin clients
      BY <1>1, <2>1 DEF Handshake
    <2>2. CASE q \in clients
      <3>1. inbox'[q] = Deliver(q, <<Go>>) /\ inbox[q] \in Seq(Packet)
        BY <1>1, <2>2 DEF TypeOK
      <3>2. CASE phase[q] = "awaitID"
        <4>1. inbox'[q] = inbox[q] \o <<Go>>
          BY <3>1, <3>2 DEF Deliver, Listening
        <4>2. inbox[q] # <<>> /\ inbox[q][1].kind = "id" /\ SignalAt(inbox[q], 2)
          BY <2>2, <3>2 DEF Handshake
        <4>3. Len(inbox[q]) = 2 - 1 /\ 2 \in Nat \ {0}
          BY <1>1, <4>2 DEF SignalAt
        <4>4. /\ Len(inbox[q] \o <<Go>>) >= 2 /\ (inbox[q] \o <<Go>>)[2].kind = "go"
              /\ AllUpdates(inbox[q] \o <<Go>>, 2 + 1)
          BY <1>3, <3>1, <4>3, SignalComes
        <4>5. SignalAt(inbox[q], 2)'
          BY <1>1, <4>1, <4>4 DEF SignalAt, AllUpdates
        <4>6. inbox'[q][1] = inbox[q][1]
          <5>1. 1 \in 1 .. Len(inbox[q])
            BY <4>3
          <5> QED
            BY <1>3, <3>1, <4>1, <5>1, OneMore
        <4>7. inbox'[q] # <<>>
          <5>1. Len(inbox'[q]) # 0
            BY <1>3, <3>1, <4>1, <4>3, OneMore
          <5> QED
            BY <5>1, EmptySeq
        <4> QED
          BY <1>1, <2>2, <3>2, <4>2, <4>5, <4>6, <4>7 DEF Handshake, OwnID
      <3>3. CASE phase[q] = "awaitGo"
        <4>1. inbox'[q] = inbox[q] \o <<Go>>
          BY <3>1, <3>3 DEF Deliver, Listening
        <4>2. Len(inbox[q]) = 1 - 1 /\ 1 \in Nat \ {0}
          BY <1>1, <3>3 DEF Handshake, SignalAt
        <4>3. /\ Len(inbox[q] \o <<Go>>) >= 1 /\ (inbox[q] \o <<Go>>)[1].kind = "go"
              /\ AllUpdates(inbox[q] \o <<Go>>, 1 + 1)
          BY <1>3, <3>1, <4>2, SignalComes
        <4>4. SignalAt(inbox[q], 1)'
          BY <1>1, <4>1, <4>3 DEF SignalAt, AllUpdates
        <4> QED
          BY <1>1, <2>2, <3>3, <4>4 DEF Handshake, OwnID
      <3>4. CASE phase[q] = "gone"
        BY <1>1, <2>2, <3>1, <3>4 DEF Handshake, OwnID, Deliver, Listening
      <3>5. phase[q] \in Phase /\ phase[q] # "off" /\ phase[q] # "running"
        BY <1>1, <2>2 DEF Handshake, TypeOK
      <3> QED
        BY <3>2, <3>3, <3>4, <3>5 DEF Phase
    <2> QED
      BY <2>1, <2>2
  <1>6. Requests'
    BY <1>1 DEF Requests
  <1>7. SignalOnce' /\ NothingMisread'
    BY <1>1, <1>2 DEF SignalOnce, NothingMisread
  <1>8. OwnIDsDistinct'
    BY <1>1, <1>5 DEF OwnIDsDistinct, TypeOK
  <1> QED
    BY <1>4, <1>5, <1>6, <1>7, <1>8

(* An unknown address is that of a robot which awaits its ID. *)
LEMMA RegisterClientStep == ASSUME IInv, RegisterClient PROVE IInv'
  <1> USE DEF IInv
  <1> PICK r \in Robot : r = Head(router).from
    <2>1. router # <<>>
      BY DEF RegisterClient
    <2> QED
      BY <2>1, NextRequest
  <1>1. /\ Head(router) \in Request /\ r \in Robot /\ r \notin clients
        /\ phase[r] = "awaitID" /\ inbox[r] = <<>> /\ Head(router).kind # "update"
    <2>1. router # <<>> /\ r \notin clients
      BY DEF RegisterClient
    <2>2. Head(router) \in Request /\ r \in Robot /\ phase[r] # "off" /\ Head(router).kind # "update"
      BY <2>1, NextRequest
    <2>3. phase[r] = "awaitID"
      BY <2>1, <2>2 DEF Handshake, TypeOK, Phase
    <2> QED
      BY <2>1, <2>2, <2>3 DEF Handshake
  <1>2. /\ Welcome \in Seq(Packet) /\ Welcome # <<>> /\ Welcome[1] = ID(currentID)
        /\ SignalAt(Welcome, 2)
    <2>1. currentID \in Nat /\ ID(currentID) \in Packet /\ Go \in Packet /\ Go.kind = "go"
      BY PacketTypes DEF TypeOK
    <2>2. CASE goSignalSent
      <3>1. Welcome = <<ID(currentID), Go>>
        BY <2>2 DEF Welcome
      <3>2. /\ Welcome \in Seq(Packet) /\ Len(Welcome) = 2 /\ Welcome[1] = ID(currentID)
            /\ Welcome[2] = Go
        BY <2>1, <3>1
      <3>3. AllUpdates(Welcome, 2 + 1)
        BY <3>2 DEF AllUpdates
      <3>4. Welcome # <<>>
        BY <3>2, EmptySeq
      <3>5. Len(Welcome) >= 2 /\ Welcome[2].kind = "go"
        BY <2>1, <3>2
      <3>6. SignalAt(Welcome, 2)
        BY <2>2, <3>3, <3>5 DEF SignalAt
      <3> QED
        BY <3>2, <3>4, <3>6
    <2>3. CASE ~ goSignalSent
      <3>1. Welcome = <<ID(currentID)>>
        BY <2>3 DEF Welcome
      <3>2. Welcome \in Seq(Packet) /\ Len(Welcome) = 1 /\ Welcome[1] = ID(currentID)
        BY <2>1, <3>1
      <3>3. Welcome # <<>>
        BY <3>2, EmptySeq
      <3>4. Len(Welcome) = 2 - 1
        BY <3>2
      <3> QED
        BY <2>3, <3>2, <3>3, <3>4 DEF SignalAt
    <2> QED
      BY <2>2, <2>3
  <1>3. /\ clients' = clients \cup {r} /\ currentID' = currentID + 1
        /\ router # <<>> /\ router' = Tail(router)
        /\ UNCHANGED <<phase, robotID, goSignalSent, childAlive, updates, faults,
                       started, misread>>
    BY DEF RegisterClient, NextID
  <1>4. inbox' = [inbox EXCEPT ![r] = Welcome]
    <2>1. Repeated(Head(router)) = <<>>
      BY <1>1 DEF Repeated
    <2>2. Deliver(r, Welcome \o <<>>) = Welcome
      BY <1>1, <1>2, NoMore DEF Deliver, Listening
    <2>3. \A q \in Robot : Deliver(q, <<>>) = inbox[q]
      BY NoMore DEF Deliver, TypeOK
    <2>4. inbox' = [q \in Robot |-> IF q = r THEN Deliver(r, Welcome \o <<>>)
                                    ELSE IF q \in clients THEN Deliver(q, <<>>)
                                    ELSE inbox[q]]
      BY <2>1 DEF RegisterClient
    <2>5. inbox' = [q \in Robot |-> IF q = r THEN Welcome ELSE inbox[q]]
      BY <2>2, <2>3, <2>4
    <2> QED
      BY <1>1, <2>5 DEF TypeOK
  <1>5. Requests' /\ router' \in Seq(Request)
    BY <1>3, RequestRead
  <1>6. TypeOK'
    BY <1>1, <1>2, <1>3, <1>4, <1>5 DEF TypeOK
  <1>7. inbox'[r] = Welcome /\ \A q \in Robot : q # r => inbox'[q] = inbox[q]
    BY <1>1, <1>4 DEF TypeOK
  <1>8. ASSUME NEW q \in Robot PROVE Handshake(q)'
    <2>1. CASE q = r
      <3>1. SignalAt(inbox[r], 2)'
        BY <1>2, <1>3, <1>7 DEF SignalAt, AllUpdates
      <3>2. inbox'[r] # <<>> /\ inbox'[r][1].kind = "id"
        BY <1>2, <1>7, PacketTypes DEF TypeOK
      <3> QED
        BY <1>1, <1>3, <2>1, <3>1, <3>2 DEF Handshake
    <2>2. CASE q # r
      BY <1>3, <1>7, <2>2, Undisturbed
    <2> QED
      BY <2>1, <2>2
  <1>9. SignalOnce' /\ NothingMisread'
    BY <1>3 DEF SignalOnce, NothingMisread
  <1>10. OwnIDsDistinct'
    <2>1. OwnID(r)' = currentID
      BY <1>1, <1>2, <1>3, <1>7, PacketTypes DEF OwnID, TypeOK
    <2>2. \A q \in clients : q # r /\ OwnID(q)' = OwnID(q)
      BY <1>1, <1>3, <1>7 DEF OwnID, TypeOK
    <2>3. /\ \A q \in clients : OwnID(q) \in 0 .. currentID - 1
          /\ \A q, s \in clients : q # s => OwnID(q) # OwnID(s)
      BY DEF OwnIDsDistinct
    <2>4. currentID \in Nat
      BY DEF TypeOK
    <2>5. /\ currentID \in 0 .. (currentID + 1) - 1
          /\ \A q \in clients : /\ OwnID(q) \in 0 .. (currentID + 1) - 1
                                 /\ OwnID(q) # currentID
      BY <2>3, <2>4
    <2> QED
      BY <1>3, <2>1, <2>2, <2>3, <2>5 DEF OwnIDsDistinct
  <1> QED
    BY <1>5, <1>6, <1>8, <1>9, <1>10

(* What the router repeats reaches clients behind their ID. *)
LEMMA ForwardUpdateStep == ASSUME IInv, ForwardUpdate PROVE IInv'
  <1> USE DEF IInv
  <1> DEFINE p == Head(router)
  <1> DEFINE u == [kind |-> "update", id |-> p.id]
  <1>1. /\ router # <<>> /\ router' = Tail(router) /\ p.from \in clients
        /\ inbox' = [q \in Robot |-> IF q \in clients THEN Deliver(q, Repeated(p)) ELSE inbox[q]]
        /\ UNCHANGED <<phase, robotID, clients, currentID, goSignalSent, childAlive, updates,
                       faults, started, misread>>
    BY DEF ForwardUpdate, routerVars
  <1>2. Requests' /\ router' \in Seq(Request)
    BY <1>1, RequestRead
  <1>3. p \in Request /\ (p.kind = "update" => goSignalSent)
    BY <1>1, NextRequest
  <1>4. ASSUME NEW q \in Robot
        PROVE  /\ inbox'[q] \in Seq(Packet)
               /\ Handshake(q)'
               /\ q \in clients => OwnID(q)' = OwnID(q)
    <2>1. CASE q \notin clients \/ p.kind # "update"
      <3>1. inbox'[q] = inbox[q]
        BY <1>1, <2>1, NoMore DEF Repeated, Deliver, TypeOK
      <3>2. Handshake(q)'
        BY <1>1, <3>1, Undisturbed
      <3> QED
        BY <1>1, <3>1, <3>2 DEF OwnID, TypeOK
    <2>2. CASE q \in clients /\ p.kind = "update"
      <3>1. u \in Packet /\ u.kind = "update" /\ <<u>> \in Seq(Packet)
        BY <1>3 DEF Packet, Request
      <3>2. inbox'[q] = Deliver(q, <<u>>)
        BY <1>1, <2>2 DEF Repeated
      <3>3. Handshake(q)' /\ OwnIDAt(q)
        <4>1. goSignalSent /\ goSignalSent' /\ phase'[q] = phase[q] /\ q \in clients'
          BY <1>1, <1>3, <2>2
        <4> HIDE DEF u
        <4> QED
          BY <2>2, <3>1, <3>2, <4>1, UpdateArrives
      <3> QED
        BY <1>1, <3>1, <3>2, <3>3, DeliverType DEF OwnID, OwnIDAt
    <2> QED
      BY <2>1, <2>2
  <1>5. TypeOK'
    <2>1. inbox' \in [Robot -> Seq(Packet)]
      BY <1>1, <1>4
    <2> QED
      BY <1>1, <1>2, <2>1 DEF TypeOK
  <1>6. SignalOnce' /\ NothingMisread'
    BY <1>1 DEF SignalOnce, NothingMisread
  <1>7. OwnIDsDistinct'
    BY <1>1, <1>4 DEF OwnIDsDistinct, TypeOK
  <1> QED
    BY <1>2, <1>4, <1>5, <1>6, <1>7

------------------------------------------------------------------------------
(* The theorems.                                                           *)

(* Every step keeps the inductive invariant. *)
LEMMA NextIInv == IInv /\ [Next]_vars => IInv'
  <1> SUFFICES ASSUME IInv, [Next]_vars PROVE IInv'
    OBVIOUS
  <1>1. ASSUME SendGo PROVE IInv'
    BY <1>1, SendGoStep
  <1>2. ASSUME RegisterClient PROVE IInv'
    BY <1>2, RegisterClientStep
  <1>3. ASSUME ForwardUpdate PROVE IInv'
    BY <1>3, ForwardUpdateStep
  <1>4. ASSUME NEW r \in Robot, RobotStep(r) PROVE IInv'
    BY <1>4, LaunchStep, ReceiveIDStep, ReceiveGoStep, BroadcastStep, CheckForMessageStep,
       FinishStep DEF RobotStep
  <1>5. CASE UNCHANGED vars
    BY <1>5 DEF vars, routerVars, IInv, TypeOK, Handshake, SignalAt, AllUpdates, Requests,
         SignalOnce, OwnIDsDistinct, OwnID, NothingMisread
  <1> QED
    BY <1>1, <1>2, <1>3, <1>4, <1>5 DEF Next, RouterStep

(* IInv holds at every moment of a faultless start, for any set of robots. *)
THEOREM Invariance == Spec => []IInv
  BY InitIInv, NextIInv, PTL DEF Spec

(* Every variable keeps its kind. *)
THEOREM TypeCorrectness == Spec => []TypeOK
  <1>1. IInv => TypeOK
    BY DEF IInv
  <1> QED
    BY <1>1, Invariance, PTL

(* Robots that run have read the IDs they were sent. *)
LEMMA InvDistinct == IInv => DistinctIDs
  <1> SUFFICES ASSUME IInv, NEW r \in Running, NEW s \in Running
               PROVE  /\ robotID[r] \in 0 .. currentID - 1
                      /\ r # s => robotID[r] # robotID[s]
    BY DEF DistinctIDs
  <1>1. r \in clients /\ s \in clients /\ phase[r] = "running" /\ phase[s] = "running"
    BY DEF IInv, Handshake, Running
  <1>2. OwnID(r) = robotID[r] /\ OwnID(s) = robotID[s]
    BY <1>1 DEF OwnID
  <1> QED
    BY <1>1, <1>2 DEF IInv, OwnIDsDistinct

(* Robots that run have IDs of their own, all of them given out: what the  *)
(* two blind reads of initNetworking find is the ID and the start signal,  *)
(* however launches, the signal and the updates of others interleave.      *)
THEOREM RunningRobotsHaveDistinctIDs == Spec => []DistinctIDs
  BY InvDistinct, Invariance, PTL

(* checkForMessage is only ever handed updates, so that it may as well go  *)
(* on after its size check.                                                *)
THEOREM OnlyUpdatesReachRunningRobots == Spec => []NoMisreadPacket
  <1>1. IInv => NoMisreadPacket
    BY DEF IInv, NoMisreadPacket, NothingMisread
  <1> QED
    BY <1>1, Invariance, PTL

(* No robot runs before the operator has given the start signal. *)
THEOREM StartWaitsForTheSignal == Spec => []NobodyStartsEarly
  <1>1. IInv => NobodyStartsEarly
    BY DEF IInv, NobodyStartsEarly, Running, Handshake, SignalOnce
  <1> QED
    BY <1>1, Invariance, PTL

------------------------------------------------------------------------------
(* With faults.  Types hold through losses, reused ports and restarts; the *)
(* faultless invariant holds until the first of them; and a third          *)
(* invariant says what the handshake cannot get wrong even then.           *)

(* Until the operator has given the signal, a robot has been sent an ID at *)
(* most and nothing else, and nothing will make the router send a second   *)
(* one: a robot that is unknown to it and has its ID has no ping under way.*)
HasID(r) == phase[r] = "awaitGo" \/ inbox[r] # <<>>

BeforeTheSignal(r) ==
    /\ phase[r] \in {"off", "awaitID", "awaitGo"}
    /\ Len(inbox[r]) <= IF phase[r] = "awaitID" THEN 1 ELSE 0
    /\ HasID(r) /\ r \notin clients => \A i \in 1 .. Len(router) : router[i].from # r

SignalIsAwaited ==
    ~ started =>
        /\ ~ goSignalSent
        /\ \A i \in 1 .. Len(router) : router[i].kind = "ping"
        /\ \A r \in Robot : BeforeTheSignal(r)

FaultyIInv == TypeOK /\ SignalIsAwaited /\ (faults = 0 => IInv)

(* What the router repeats is one packet or none. *)
LEMMA RepeatedType ==
    ASSUME NEW p \in Request
    PROVE  Repeated(p) \in Seq(Packet) /\ (p.kind = "ping" => Repeated(p) = <<>>)
  <1>1. p.kind = "update" => [kind |-> "update", id |-> p.id] \in Packet
    BY DEF Request, Packet
  <1>2. \A x \in Packet : <<x>> \in Seq(Packet)
    OBVIOUS
  <1>3. <<>> \in Seq(Packet)
    OBVIOUS
  <1> QED
    BY <1>1, <1>2, <1>3 DEF Repeated

(* What the router sends a newcomer. *)
LEMMA WelcomeType ==
    ASSUME TypeOK
    PROVE  /\ Welcome \in Seq(Packet)
           /\ ~ goSignalSent => Welcome \in Seq(Packet) /\ Len(Welcome) = 1
  <1>1. ID(currentID) \in Packet /\ Go \in Packet
    BY PacketTypes DEF TypeOK
  <1>2. <<ID(currentID), Go>> \in Seq(Packet)
    BY <1>1
  <1>3. <<ID(currentID)>> \in Seq(Packet) /\ Len(<<ID(currentID)>>) = 1
    BY <1>1
  <1> QED
    BY <1>2, <1>3 DEF Welcome

(* Every step keeps the types, the faults included. *)
LEMMA NextType == ASSUME TypeOK, [FaultyNext]_vars PROVE TypeOK'
  <1> USE DEF TypeOK
  <1>1. ASSUME NEW r \in Robot, Launch(r) PROVE TypeOK'
    <2>1. router' \in Seq(Request)
      BY <1>1, PacketTypes, Sent DEF Launch
    <2> QED
      BY <1>1, <2>1 DEF Launch, Phase, routerVars
  <1>2. ASSUME NEW r \in Robot, NEW here, NEW next \in Phase, Await(r, here, next) PROVE TypeOK'
    <2>1. inbox[r] \in Seq(Packet) /\ inbox[r] # <<>>
      BY <1>2 DEF Await
    <2>2. Head(inbox[r]) \in Packet /\ Tail(inbox[r]) \in Seq(Packet)
      BY <2>1, Taken
    <2>3. ReadInto(robotID[r], Head(inbox[r])) \in Int
      BY <2>2, WordAssumption DEF ReadInto, Packet
    <2> QED
      BY <1>2, <2>2, <2>3 DEF Await, routerVars
  <1>3. ASSUME NEW r \in Robot, ReceiveID(r) \/ ReceiveGo(r) PROVE TypeOK'
    BY <1>2, <1>3 DEF ReceiveID, ReceiveGo, Phase
  <1>4. ASSUME NEW r \in Robot, Broadcast(r) PROVE TypeOK'
    <2>1. router' \in Seq(Request)
      BY <1>4, PacketTypes, Sent DEF Broadcast
    <2> QED
      BY <1>4, <2>1 DEF Broadcast, routerVars
  <1>5. ASSUME NEW r \in Robot, CheckForMessage(r) PROVE TypeOK'
    <2>1. inbox[r] \in Seq(Packet) /\ inbox[r] # <<>>
      BY <1>5 DEF CheckForMessage
    <2>2. Tail(inbox[r]) \in Seq(Packet)
      BY <2>1, Taken
    <2> QED
      BY <1>5, <2>2 DEF CheckForMessage, routerVars
  <1>6. ASSUME NEW r \in Robot, Finish(r) \/ ReusePort(r) PROVE TypeOK'
    <2>1. <<>> \in Seq(Packet)
      OBVIOUS
    <2>2. inbox' \in [Robot -> Seq(Packet)] /\ phase' \in [Robot -> Phase]
      BY <1>6, <2>1 DEF Finish, ReusePort, Phase
    <2> QED
      BY <1>6, <2>2 DEF Finish, ReusePort, Fault, routerVars
  <1>7. ASSUME SendGo PROVE TypeOK'
    <2>1. <<Go>> \in Seq(Packet)
      BY PacketTypes
    <2>2. \A q \in Robot : Deliver(q, <<Go>>) \in Seq(Packet)
      BY <2>1, DeliverType
    <2> QED
      BY <1>7, <2>2 DEF SendGo
  <1>8. ASSUME router # <<>>
        PROVE  /\ Tail(router) \in Seq(Request) /\ Head(router) \in Request
               /\ Head(router).from \in Robot /\ Repeated(Head(router)) \in Seq(Packet)
    <2>1. Tail(router) \in Seq(Request) /\ Head(router) \in Request
      BY <1>8, Taken
    <2> QED
      BY <2>1, RepeatedType DEF Request
  <1>9. ASSUME RegisterClient PROVE TypeOK'
    <2>1. router # <<>>
      BY <1>9 DEF RegisterClient
    <2>2. Welcome \o Repeated(Head(router)) \in Seq(Packet)
      BY <1>8, <2>1, WelcomeType, ConcatProperties
    <2>3. inbox' \in [Robot -> Seq(Packet)]
      BY <1>8, <1>9, <2>1, <2>2, DeliverType DEF RegisterClient
    <2> QED
      BY <1>8, <1>9, <2>1, <2>3 DEF RegisterClient, NextID
  <1>10. ASSUME ForwardUpdate PROVE TypeOK'
    <2>1. router # <<>>
      BY <1>10 DEF ForwardUpdate
    <2>2. inbox' \in [Robot -> Seq(Packet)]
      BY <1>8, <1>10, <2>1, DeliverType DEF ForwardUpdate
    <2> QED
      BY <1>8, <1>10, <2>1, <2>2 DEF ForwardUpdate, routerVars
  <1>11. ASSUME LosePacket PROVE TypeOK'
    <2>1. router' \in Seq(Request)
      BY <1>8, <1>11 DEF LosePacket
    <2>2. inbox' \in [Robot -> Seq(Packet)]
      <3>1. ASSUME NEW r \in Robot, inbox[r] # <<>> PROVE Tail(inbox[r]) \in Seq(Packet)
        BY <3>1, Taken
      <3> QED
        BY <1>11, <3>1 DEF LosePacket
    <2> QED
      BY <1>11, <2>1, <2>2 DEF LosePacket, Fault, routerVars
  <1>12. ASSUME RestartRouter PROVE TypeOK'
    <2>1. router' \in Seq(Request)
      BY <1>12 DEF RestartRouter
    <2>2. /\ clients' \subseteq Robot /\ currentID' \in Nat
          /\ goSignalSent' \in BOOLEAN /\ childAlive' \in BOOLEAN
      BY <1>12 DEF RestartRouter
    <2>3. faults' \in Nat /\ UNCHANGED <<phase, robotID, inbox, updates, started, misread>>
      BY <1>12 DEF RestartRouter, Fault
    <2> QED
      BY <2>1, <2>2, <2>3
  <1>13. CASE UNCHANGED vars
    BY <1>13 DEF vars, routerVars
  <1> QED
    BY <1>1, <1>3, <1>4, <1>5, <1>6, <1>7, <1>9, <1>10, <1>11, <1>12, <1>13
    DEF FaultyNext, Next, RouterStep, RobotStep

(* Before the signal the router sends nothing but IDs, and each robot one. *)
LEMMA NextAwaited ==
    ASSUME TypeOK, SignalIsAwaited, [FaultyNext]_vars, ~ started'
    PROVE  SignalIsAwaited'
  <1> USE DEF TypeOK
  <1>1. ~ started
    BY DEF FaultyNext, Next, RouterStep, RobotStep, Launch, ReceiveID, ReceiveGo, Await,
           Broadcast, CheckForMessage, Finish, SendGo, RegisterClient, ForwardUpdate,
           LosePacket, RestartRouter, ReusePort, vars
  <1>2. /\ ~ goSignalSent
        /\ \A i \in 1 .. Len(router) : router[i].kind = "ping"
        /\ \A r \in Robot : BeforeTheSignal(r)
    BY <1>1 DEF SignalIsAwaited
  <1>3. ASSUME ~ goSignalSent', \A i \in 1 .. Len(router') : router'[i].kind = "ping",
               \A r \in Robot : BeforeTheSignal(r)'
        PROVE  SignalIsAwaited'
    BY <1>3 DEF SignalIsAwaited
  <1>4. ASSUME router # <<>>
        PROVE  /\ Tail(router) \in Seq(Request) /\ Len(router) \in Nat \ {0}
               /\ Len(Tail(router)) = Len(router) - 1
               /\ \A i \in 1 .. Len(Tail(router)) :
                     Tail(router)[i] = router[i + 1] /\ i + 1 \in 1 .. Len(router)
               /\ Head(router) = router[1] /\ 1 \in 1 .. Len(router)
               /\ Repeated(Head(router)) = <<>>
    <2>1. /\ Tail(router) \in Seq(Request) /\ Len(router) \in Nat \ {0}
          /\ Len(Tail(router)) = Len(router) - 1
          /\ \A i \in 1 .. Len(router) - 1 : Tail(router)[i] = router[i + 1]
          /\ Head(router) = router[1] /\ Head(router) \in Request
      BY <1>4, Taken
    <2>2. Repeated(Head(router)) = <<>>
      BY <1>2, <2>1, RepeatedType
    <2> QED
      BY <2>1, <2>2
  <1>5. ASSUME NEW q \in Robot, inbox[q] # <<>>
        PROVE  /\ phase[q] = "awaitID" /\ Len(inbox[q]) = 1
               /\ Tail(inbox[q]) \in Seq(Packet) /\ Len(Tail(inbox[q])) = 0
               /\ Tail(inbox[q]) = <<>>
    <2>1. /\ Len(inbox[q]) \in Nat \ {0} /\ Len(Tail(inbox[q])) = Len(inbox[q]) - 1
          /\ Tail(inbox[q]) \in Seq(Packet)
      BY <1>5, Taken
    <2>2. phase[q] = "awaitID" /\ Len(inbox[q]) = 1
      BY <1>2, <2>1 DEF BeforeTheSignal
    <2>3. Len(Tail(inbox[q])) = 0
      BY <2>1, <2>2
    <2>4. Tail(inbox[q]) = <<>>
      BY ONLY <2>1, <2>3, EmptySeq
    <2> QED
      BY <2>1, <2>2, <2>3, <2>4
  <1>6. Len(<<>>) = 0 /\ Len(router) \in Nat
    OBVIOUS
  <1>7. ASSUME NEW r \in Robot, Launch(r) PROVE SignalIsAwaited'
    <2>1. /\ phase[r] = "off" /\ phase' = [phase EXCEPT ![r] = "awaitID"]
          /\ router' = Append(router, Ping(r))
          /\ UNCHANGED <<inbox, clients, goSignalSent>>
      BY <1>7 DEF Launch, routerVars
    <2>2. /\ Len(router') = Len(router) + 1
          /\ \A i \in 1 .. Len(router) : router'[i] = router[i]
          /\ router'[Len(router) + 1] = Ping(r)
          /\ Ping(r).from = r /\ Ping(r).kind = "ping"
      BY <2>1, PacketTypes, Sent
    <2>3. inbox[r] = <<>>
      BY <1>5, <2>1
    <2>4. \A i \in 1 .. Len(router') : i = Len(router) + 1 \/ i \in 1 .. Len(router)
      BY <1>6, <2>2
    <2>5. \A i \in 1 .. Len(router') : router'[i].kind = "ping"
      BY <1>2, <2>2, <2>4
    <2>6. ASSUME NEW q \in Robot PROVE BeforeTheSignal(q)'
      <3>1. CASE q = r
        BY <1>6, <2>1, <2>3, <3>1 DEF BeforeTheSignal, HasID
      <3>2. CASE q # r
        <4>1. phase'[q] = phase[q] /\ inbox'[q] = inbox[q]
          BY <2>1, <3>2
        <4>2. BeforeTheSignal(q)
          BY <1>2
        <4>3. HasID(q)' /\ q \notin clients' => \A i \in 1 .. Len(router') : router'[i].from # q
          BY <2>1, <2>2, <2>4, <3>2, <4>1, <4>2 DEF BeforeTheSignal, HasID
        <4> QED
          BY <4>1, <4>2, <4>3 DEF BeforeTheSignal
      <3> QED
        BY <3>1, <3>2
    <2> QED
      BY <1>2, <1>3, <2>1, <2>5, <2>6
  <1>8. ASSUME NEW r \in Robot, ReceiveID(r) PROVE SignalIsAwaited'
    <2>1. /\ phase[r] = "awaitID" /\ inbox[r] # <<>>
          /\ inbox' = [inbox EXCEPT ![r] = Tail(@)]
          /\ phase' = [phase EXCEPT ![r] = "awaitGo"]
          /\ UNCHANGED <<router, clients, goSignalSent>>
      BY <1>8 DEF ReceiveID, Await, routerVars
    <2>2. ASSUME NEW q \in Robot PROVE BeforeTheSignal(q)'
      BY <1>2, <1>5, <2>1 DEF BeforeTheSignal, HasID
    <2> QED
      BY <1>2, <1>3, <2>1, <2>2
  <1>9. ASSUME NEW r \in Robot,
               ReceiveGo(r) \/ Broadcast(r) \/ CheckForMessage(r) \/ Finish(r)
        PROVE  FALSE
    BY <1>2, <1>5, <1>9
    DEF ReceiveGo, Await, Broadcast, CheckForMessage, Finish, BeforeTheSignal
  <1>10. ASSUME SendGo PROVE FALSE
    BY <1>10 DEF SendGo
  <1>11. ASSUME RegisterClient PROVE SignalIsAwaited'
    <2> DEFINE r == Head(router).from
    <2>1. /\ router # <<>> /\ r \notin clients /\ router' = Tail(router)
          /\ clients' = clients \cup {r}
          /\ inbox' = [q \in Robot |->
                         IF q = r THEN Deliver(q, Welcome \o <<>>)
                         ELSE IF q \in clients THEN Deliver(q, <<>>) ELSE inbox[q]]
          /\ UNCHANGED <<phase, goSignalSent>>
      BY <1>4, <1>11 DEF RegisterClient
    <2>2. Welcome \in Seq(Packet) /\ Len(Welcome) = 1
      BY <1>2, WelcomeType
    <2>3. \A q \in Robot : Deliver(q, <<>>) = inbox[q]
      BY NoMore DEF Deliver
    <2>4. ASSUME NEW q \in Robot PROVE BeforeTheSignal(q)'
      <3>1. CASE q = r
        <4>1. ~ HasID(q)
          BY <1>2, <1>4, <2>1, <3>1 DEF BeforeTheSignal
        <4>2. inbox'[q] = Deliver(q, Welcome) /\ q \in clients'
          BY <2>1, <2>2, <3>1, NoMore
        <4>3. phase[q] = "off" \/ phase[q] = "awaitID"
          BY <1>2, <4>1 DEF BeforeTheSignal, HasID
        <4>4. inbox[q] = <<>>
          BY <4>1 DEF HasID
        <4>5. phase[q] = "off" => inbox'[q] = <<>>
          BY <4>2, <4>4 DEF Deliver, Listening
        <4>6. phase[q] = "awaitID" => inbox'[q] = Welcome
          BY <2>2, <4>2, <4>4, NoMore DEF Deliver, Listening
        <4>7. Len(inbox'[q]) <= IF phase'[q] = "awaitID" THEN 1 ELSE 0
          <5>1. phase'[q] = phase[q]
            BY <2>1
          <5>2. CASE phase[q] = "off"
            BY <1>6, <4>5, <5>1, <5>2
          <5>3. CASE phase[q] = "awaitID"
            <6>1. Len(inbox'[q]) = 1
              BY ONLY <2>2, <4>6, <5>3
            <6> QED
              BY ONLY <5>1, <5>3, <6>1
          <5> QED
            BY <4>3, <5>2, <5>3
        <4> QED
          BY <2>1, <4>2, <4>3, <4>7 DEF BeforeTheSignal
      <3>2. CASE q # r
        <4>1. inbox'[q] = inbox[q] /\ (q \in clients' <=> q \in clients)
          BY <2>1, <2>3, <3>2
        <4>2. BeforeTheSignal(q)
          BY <1>2
        <4> QED
          BY <1>4, <2>1, <4>1, <4>2 DEF BeforeTheSignal, HasID
      <3> QED
        BY <3>1, <3>2
    <2> QED
      BY <1>2, <1>3, <1>4, <2>1, <2>4
  <1>12. ASSUME ForwardUpdate PROVE SignalIsAwaited'
    <2>1. /\ router # <<>> /\ router' = Tail(router)
          /\ inbox' = [q \in Robot |-> IF q \in clients THEN Deliver(q, <<>>) ELSE inbox[q]]
          /\ UNCHANGED <<phase, clients, goSignalSent>>
      BY <1>4, <1>12 DEF ForwardUpdate, routerVars
    <2>2. inbox' = inbox
      BY <2>1, NoMore DEF Deliver
    <2>3. ASSUME NEW q \in Robot PROVE BeforeTheSignal(q)'
      BY <1>2, <1>4, <2>1, <2>2 DEF BeforeTheSignal, HasID
    <2> QED
      BY <1>2, <1>3, <1>4, <2>1, <2>3
  <1>13. ASSUME LosePacket PROVE SignalIsAwaited'
    <2>1. UNCHANGED <<phase, clients, goSignalSent>>
      BY <1>13 DEF LosePacket, routerVars
    <2>2. CASE router # <<>> /\ router' = Tail(router) /\ UNCHANGED inbox
      <3>1. ASSUME NEW q \in Robot PROVE BeforeTheSignal(q)'
        BY <1>2, <1>4, <2>1, <2>2 DEF BeforeTheSignal, HasID
      <3> QED
        BY <1>2, <1>3, <1>4, <2>1, <2>2, <3>1
    <2>3. ASSUME NEW r \in Robot, inbox[r] # <<>>, inbox' = [inbox EXCEPT ![r] = Tail(@)],
                 UNCHANGED router
          PROVE  SignalIsAwaited'
      <3>1. ASSUME NEW q \in Robot PROVE BeforeTheSignal(q)'
        <4>1. CASE q = r
          <5>1. inbox'[q] = Tail(inbox[q]) /\ phase'[q] = "awaitID"
            BY <1>5, <2>1, <2>3, <4>1
          <5>2. Len(inbox'[q]) = 0 /\ inbox'[q] = <<>>
            BY <1>5, <2>3, <4>1, <5>1
          <5> QED
            BY <5>1, <5>2 DEF BeforeTheSignal, HasID
        <4>2. CASE q # r
          <5>1. inbox'[q] = inbox[q]
            BY <2>3, <4>2
          <5> QED
            BY <1>2, <2>1, <2>3, <5>1 DEF BeforeTheSignal, HasID
        <4> QED
          BY <4>1, <4>2
      <3> QED
        BY <1>2, <1>3, <2>1, <2>3, <3>1
    <2> QED
      BY <1>13, <2>2, <2>3 DEF LosePacket
  <1>14. ASSUME RestartRouter PROVE SignalIsAwaited'
    <2>1. router' = <<>> /\ ~ goSignalSent' /\ UNCHANGED <<phase, inbox>>
      BY <1>14 DEF RestartRouter
    <2>2. ASSUME NEW q \in Robot PROVE BeforeTheSignal(q)'
      BY <1>2, <1>6, <2>1 DEF BeforeTheSignal, HasID
    <2> QED
      BY <1>3, <1>6, <2>1, <2>2
  <1>15. ASSUME NEW r \in Robot, ReusePort(r) PROVE SignalIsAwaited'
    <2>1. /\ phase' = [phase EXCEPT ![r] = "off"] /\ inbox' = [inbox EXCEPT ![r] = <<>>]
          /\ UNCHANGED <<router, clients, goSignalSent>>
      BY <1>15 DEF ReusePort, routerVars
    <2>2. ASSUME NEW q \in Robot PROVE BeforeTheSignal(q)'
      <3>1. CASE q = r
        <4>1. phase'[q] = "off" /\ inbox'[q] = <<>>
          BY <2>1, <3>1
        <4> QED
          BY <1>6, <4>1 DEF BeforeTheSignal, HasID
      <3>2. CASE q # r
        <4>1. phase'[q] = phase[q] /\ inbox'[q] = inbox[q]
          BY <2>1, <3>2
        <4> QED
          BY <1>2, <2>1, <4>1 DEF BeforeTheSignal, HasID
      <3> QED
        BY <3>1, <3>2
    <2> QED
      BY <1>2, <1>3, <2>1, <2>2
  <1>16. CASE UNCHANGED vars
    BY <1>2, <1>3, <1>16 DEF vars, routerVars, BeforeTheSignal, HasID
  <1> QED
    BY <1>7, <1>8, <1>9, <1>10, <1>11, <1>12, <1>13, <1>14, <1>15, <1>16
    DEF FaultyNext, Next, RouterStep, RobotStep

(* Until the first fault there are only the steps of Next. *)
LEMMA NextBeforeFaults ==
    ASSUME TypeOK, faults = 0 => IInv, [FaultyNext]_vars, faults' = 0
    PROVE  IInv'
  <1>1. CASE Next \/ UNCHANGED vars
    <2>1. faults' = faults
      BY <1>1 DEF Next, RouterStep, RobotStep, Launch, ReceiveID, ReceiveGo, Await, Broadcast,
                  CheckForMessage, Finish, SendGo, RegisterClient, ForwardUpdate, vars
    <2> QED
      BY <1>1, <2>1, NextIInv
  <1>2. CASE LosePacket \/ RestartRouter \/ \E r \in Robot : ReusePort(r)
    BY <1>2 DEF LosePacket, RestartRouter, ReusePort, Fault, TypeOK
  <1> QED
    BY <1>1, <1>2 DEF FaultyNext

(* FaultyIInv holds at every moment, whatever is lost or restarted. *)
THEOREM FaultyInvariance == FaultySpec => []FaultyIInv
  <1>1. Init => FaultyIInv
    <2> SUFFICES ASSUME Init PROVE FaultyIInv
      OBVIOUS
    <2>1. IInv
      BY InitIInv
    <2>2. Len(<<>>) = 0
      OBVIOUS
    <2>3. SignalIsAwaited
      BY <2>2 DEF Init, SignalIsAwaited, BeforeTheSignal, HasID
    <2> QED
      BY <2>1, <2>3 DEF FaultyIInv, IInv
  <1>2. FaultyIInv /\ [FaultyNext]_vars => FaultyIInv'
    <2> SUFFICES ASSUME FaultyIInv, [FaultyNext]_vars PROVE FaultyIInv'
      OBVIOUS
    <2>1. TypeOK'
      BY NextType DEF FaultyIInv
    <2>2. SignalIsAwaited'
      <3>1. CASE started'
        BY <3>1 DEF SignalIsAwaited
      <3>2. CASE ~ started'
        BY <3>2, NextAwaited DEF FaultyIInv
      <3> QED
        BY <3>1, <3>2
    <2>3. faults' = 0 => IInv'
      BY NextBeforeFaults DEF FaultyIInv
    <2> QED
      BY <2>1, <2>2, <2>3 DEF FaultyIInv
  <1> QED
    BY <1>1, <1>2, PTL DEF FaultySpec

(* Losses, reused ports and restarts of the router leave every variable of *)
(* its kind.                                                               *)
THEOREM TypeCorrectnessUnderFaults == FaultySpec => []TypeOK
  <1>1. FaultyIInv => TypeOK
    BY DEF FaultyIInv
  <1> QED
    BY <1>1, FaultyInvariance, PTL

(* Until something is lost or restarted, the two blind reads of            *)
(* initNetworking give every running robot an ID of its own.               *)
THEOREM DistinctIDsUntilAFault == FaultySpec => []DistinctIDs
  <1>1. FaultyIInv => DistinctIDs
    BY InvDistinct DEF FaultyIInv, DistinctIDs
  <1> QED
    BY <1>1, FaultyInvariance, PTL

(* Until something is lost or restarted, checkForMessage is only ever      *)
(* handed updates.                                                         *)
THEOREM OnlyUpdatesUntilAFault == FaultySpec => []NoMisreadPacket
  <1>1. FaultyIInv => NoMisreadPacket
    BY DEF FaultyIInv, IInv, NoMisreadPacket, NothingMisread
  <1> QED
    BY <1>1, FaultyInvariance, PTL

(* No robot runs before the operator has given the start signal, whatever  *)
(* is lost, reused or restarted: the packet it takes for the signal is     *)
(* never a second ID, although it does not look at it.                     *)
THEOREM FaultsStartNobody == FaultySpec => []NobodyStartsEarly
  <1>1. FaultyIInv => NobodyStartsEarly
    BY DEF FaultyIInv, SignalIsAwaited, BeforeTheSignal, NobodyStartsEarly, Running
  <1> QED
    BY <1>1, FaultyInvariance, PTL
==============================================================================
