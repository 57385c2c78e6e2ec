--------------------------- MODULE TaggedVarProofs ---------------------------
(***************************************************************************)
(* Proofs about TaggedVar, for any number of robots, stores, messages and  *)
(* clock readings: its type invariant, the inductive invariant IInv, and   *)
(* from it that the swarm agrees whenever it is at rest, whoever writes;   *)
(* and that a single writer's stores are never undone when no two clock    *)
(* readings coincide.                                                      *)
(***************************************************************************)
EXTENDS MCTaggedVar, SequenceTheorems, TLAPS

------------------------------------------------------------------------------
(* Facts about the two queue operations.                                   *)

(* Appending keeps what waits and puts the new message last. *)
LEMMA AppendFacts ==
    ASSUME NEW S, NEW q \in Seq(S), NEW m \in S
    PROVE  /\ Append(q, m) \in Seq(S)
           /\ Append(q, m) # <<>>
           /\ Len(Append(q, m)) = Len(q) + 1
           /\ \A i \in 1 .. Len(q) : Append(q, m)[i] = q[i]
           /\ Append(q, m)[Len(q) + 1] = m
  OBVIOUS

(* Reading the head leaves the others, one place nearer. *)
LEMMA TailFacts ==
    ASSUME NEW S, NEW q \in Seq(S), q # <<>>
    PROVE  /\ Tail(q) \in Seq(S)
           /\ Len(q) \in Nat \ {0}
           /\ Len(Tail(q)) = Len(q) - 1
           /\ \A i \in 1 .. Len(q) - 1 : Tail(q)[i] = q[i + 1]
           /\ Head(q) = q[1]
           /\ Head(q) \in S
  BY HeadTailProperties, EmptySeq

(* A queue of at least two messages is not empty after a read. *)
LEMMA TailOfLonger ==
    ASSUME NEW S, NEW q \in Seq(S), Len(q) > 1
    PROVE  Tail(q) # <<>>
  <1>1. Len(q) \in Nat
    BY LenProperties
  <1>2. \A n \in Nat : n > 1 => n - 1 # 0 /\ n # 0
    OBVIOUS
  <1>3. Len(q) - 1 # 0 /\ q # <<>>
    BY <1>1, <1>2, EmptySeq
  <1>4. Len(Tail(q)) = Len(q) - 1
    BY <1>3, HeadTailProperties
  <1> QED
    BY <1>3, <1>4, EmptySeq

(* What checkForMessage writes to the table is an entry. *)
LEMMA EntryOfMessage ==
    ASSUME NEW m \in Message
    PROVE  EntryOf(m) \in Entry /\ EntryOf(m) # None
  <1>1. EntryOf(m) \in Entry
    BY DEF EntryOf, Entry, Message
  <1> QED
    BY <1>1, NoneAssumption

------------------------------------------------------------------------------
(* Type correctness.                                                       *)

(* Every variable starts with its type. *)
LEMMA InitTypeOK == Init => TypeOK
  BY EmptySeq DEF Init, NetInit, TypeOK, Message, Place

(* Broadcasting robots have an entry to broadcast, so a stamped message    *)
(* carries a value: type correctness needs Participation.                  *)
LEMMA NextTypeOK == TypeOK /\ Participation /\ [Next]_vars => TypeOK'
  <1> SUFFICES ASSUME TypeOK, Participation, [Next]_vars PROVE TypeOK'
    OBVIOUS
  <1> USE DEF TypeOK
  <1>1. CASE Tick
    BY <1>1 DEF Tick, netVars, history
  <1>2. CASE RouterForward
    <2>1. Head(router) \in Message /\ Tail(router) \in Seq(Message)
      BY <1>2, TailFacts DEF RouterForward, Forward
    <2>2. inbox' \in [Robot -> Seq(Message)]
      BY <1>2, <2>1, AppendFacts DEF RouterForward, Forward
    <2> QED
      BY <1>2, <2>1, <2>2 DEF RouterForward, Forward, history
  <1>3. ASSUME NEW r \in Robot, Register(r) PROVE TypeOK'
    BY <1>3 DEF Register, AddClient, history
  <1>4. ASSUME NEW r \in Robot, StoreTagged(r) PROVE TypeOK'
    <2>1. tagged' \in [Robot -> Entry \cup {None}]
      BY <1>4 DEF StoreTagged, Entry
    <2> QED
      BY <1>4, <2>1 DEF StoreTagged, netVars, history, Place
  <1>5. ASSUME NEW r \in Robot, OtherInstruction(r) PROVE TypeOK'
    BY <1>5 DEF OtherInstruction, netVars, history, Place
  <1>6. ASSUME NEW r \in Robot, StampMessage(r) PROVE TypeOK'
    <2>1. tagged[r] \in Entry
      BY <1>6 DEF StampMessage, Participation
    <2>2. out'[r] \in Message /\ out' \in [Robot -> Message \cup {None}]
      BY <1>6, <2>1 DEF StampMessage, Entry, Message
    <2> QED
      BY <1>6, <2>2 DEF StampMessage, netVars
  <1>7. ASSUME NEW r \in Robot, SendMessage(r) PROVE TypeOK'
    <2>1. out[r] \in Message
      BY <1>7 DEF SendMessage
    <2>2. router' \in Seq(Message)
      BY <1>7, <2>1, AppendFacts DEF SendMessage, Send
    <2> QED
      BY <1>7, <2>2 DEF SendMessage, history, Place
  <1>8. ASSUME NEW r \in Robot, CheckForMessage(r) PROVE TypeOK'
    <2>1. CASE NoMessage(r)
      BY <2>1 DEF NoMessage, netVars, history, Place
    <2>2. inbox[r] # <<>> => Head(inbox[r]) \in Message /\ Tail(inbox[r]) \in Seq(Message)
      BY TailFacts
    <2>3. CASE ApplyUpdate(r)
      <3>1. EntryOf(Head(inbox[r])) \in Entry
        BY <2>2, <2>3, EntryOfMessage DEF ApplyUpdate, Receive
      <3> QED
        BY <2>2, <2>3, <3>1 DEF ApplyUpdate, Receive, history, Place
    <2>4. CASE AnswerUpdate(r)
      BY <2>2, <2>4 DEF AnswerUpdate, Receive, history, Place
    <2> QED
      BY <1>8, <2>1, <2>3, <2>4 DEF CheckForMessage
  <1>9. CASE UNCHANGED vars
    BY <1>9 DEF vars, netVars
  <1> QED
    BY <1>1, <1>2, <1>3, <1>4, <1>5, <1>6, <1>7, <1>8, <1>9 DEF Next, RobotStep

------------------------------------------------------------------------------
(* Participation.                                                          *)

(* At the start nobody takes part. *)
LEMMA InitParticipation == Init => Participation
  BY DEF Init, NetInit, Participation, Broadcasting

(* Every step keeps to clients. *)
LEMMA NextParticipation == TypeOK /\ Participation /\ [Next]_vars => Participation'
  <1> SUFFICES ASSUME TypeOK, Participation, [Next]_vars PROVE Participation'
    OBVIOUS
  <1> USE DEF Participation, Broadcasting
  <1>1. CASE Tick
    BY <1>1 DEF Tick, netVars, history
  <1>2. CASE RouterForward
    BY <1>2 DEF RouterForward, Forward, history, TypeOK
  <1>3. ASSUME NEW r \in Robot, Register(r) PROVE Participation'
    BY <1>3 DEF Register, AddClient, history, TypeOK
  <1>4. ASSUME NEW r \in Robot, StoreTagged(r) PROVE Participation'
    BY <1>4, NoneAssumption DEF StoreTagged, netVars, history, TypeOK, Entry
  <1>5. ASSUME NEW r \in Robot, OtherInstruction(r) PROVE Participation'
    BY <1>5 DEF OtherInstruction, netVars, history, TypeOK
  <1>6. ASSUME NEW r \in Robot, StampMessage(r) PROVE Participation'
    BY <1>6 DEF StampMessage, netVars, TypeOK
  <1>7. ASSUME NEW r \in Robot, SendMessage(r) PROVE Participation'
    BY <1>7 DEF SendMessage, history, TypeOK
  <1>8. ASSUME NEW r \in Robot, CheckForMessage(r) PROVE Participation'
    <2>1. CASE NoMessage(r)
      BY <1>8, <2>1 DEF NoMessage, netVars, history, TypeOK
    <2>2. CASE ApplyUpdate(r)
      <3>1. inbox[r] # <<>> => EntryOf(Head(inbox[r])) # None
        BY TailFacts, EntryOfMessage DEF TypeOK
      <3> QED
        BY <2>2, <3>1 DEF ApplyUpdate, Receive, history, TypeOK
    <2>3. CASE AnswerUpdate(r)
      BY <2>3 DEF AnswerUpdate, Receive, history, TypeOK
    <2> QED
      BY <1>8, <2>1, <2>2, <2>3 DEF CheckForMessage
  <1>9. CASE UNCHANGED vars
    BY <1>9 DEF vars, netVars
  <1> QED
    BY <1>1, <1>2, <1>3, <1>4, <1>5, <1>6, <1>7, <1>8, <1>9 DEF Next, RobotStep

------------------------------------------------------------------------------
(* No timestamp is newer than newest's.                                    *)

(* At the start there is no entry, so none is newer than the newest. *)
LEMMA InitNewestIsNewest == Init => NewestIsNewest
  BY DEF Init, NetInit, NewestIsNewest

(* Every step takes account of the newest timestamp. *)
LEMMA NextNewestIsNewest ==
    TypeOK /\ Participation /\ NewestIsNewest /\ [Next]_vars => NewestIsNewest'
  <1> SUFFICES ASSUME TypeOK, Participation, NewestIsNewest, [Next]_vars
               PROVE  NewestIsNewest'
    OBVIOUS
  <1> USE DEF NewestIsNewest, Broadcasting
  <1>1. CASE Tick
    BY <1>1 DEF Tick, netVars, history, TypeOK, Message, Entry
  <1>2. CASE RouterForward
    <2> DEFINE m == Head(router)
    <2>1. m = router[1] /\ m \in Message /\ Len(router) \in Nat \ {0}
      BY <1>2, TailFacts DEF RouterForward, Forward, TypeOK
    <2>2. \A i \in 1 .. Len(router') :
            router'[i].variableLastUpdated <= newest.variableLastUpdated
      BY <1>2, TailFacts DEF RouterForward, Forward, TypeOK
    <2>3. ASSUME NEW r \in Robot, NEW i \in 1 .. Len(inbox'[r])
          PROVE  inbox'[r][i].variableLastUpdated <= newest.variableLastUpdated
      <3>1. CASE r \in clients
        <4>1. inbox'[r] = Append(inbox[r], m) /\ inbox[r] \in Seq(Message)
          BY <1>2, <3>1 DEF RouterForward, Forward, TypeOK
        <4>2. m.variableLastUpdated <= newest.variableLastUpdated
          BY <2>1
        <4>3. CASE i = Len(inbox[r]) + 1
          BY <4>1, <4>2, <4>3, <2>1, AppendFacts
        <4>4. CASE i # Len(inbox[r]) + 1
          <5>1. i \in 1 .. Len(inbox[r])
            BY <4>1, <4>4, <2>1, AppendFacts
          <5> QED
            BY <5>1, <4>1, <2>1, AppendFacts
        <4> QED
          BY <4>3, <4>4
      <3>2. CASE r \notin clients
        BY <1>2, <3>2, <2>3 DEF RouterForward, Forward
      <3> QED
        BY <3>1, <3>2
    <2> QED
      BY <1>2, <2>2, <2>3 DEF RouterForward, Forward, history
  <1>3. ASSUME NEW r \in Robot, Register(r) PROVE NewestIsNewest'
    BY <1>3 DEF Register, AddClient, history
  <1>4. ASSUME NEW r \in Robot, StoreTagged(r) PROVE NewestIsNewest'
    <2>1. out[r] = None
      BY <1>4 DEF StoreTagged, Participation
    <2> QED
      BY <1>4, <2>1 DEF StoreTagged, netVars, history, TypeOK
  <1>5. ASSUME NEW r \in Robot, OtherInstruction(r) PROVE NewestIsNewest'
    BY <1>5 DEF OtherInstruction, netVars, history, TypeOK
  <1>6. ASSUME NEW r \in Robot, StampMessage(r) PROVE NewestIsNewest'
    <2>1. newest'.variableLastUpdated = clock /\ newest' = out'[r]
      BY <1>6 DEF StampMessage, TypeOK
    <2>2. clock \in Nat /\ newest.variableLastUpdated \in Nat /\ newest.variableLastUpdated <= clock
      BY DEF TypeOK, Message
    <2>3. \A i \in 1 .. Len(router) : router[i].variableLastUpdated \in Nat
      <3>1. \A i \in 1 .. Len(router) : router[i] \in Message
        BY ElementOfSeq DEF TypeOK
      <3> QED
        BY <3>1 DEF Message
    <2>4. \A q \in Robot : \A i \in 1 .. Len(inbox[q]) :
            inbox[q][i].variableLastUpdated \in Nat
      <3>1. \A q \in Robot : \A i \in 1 .. Len(inbox[q]) : inbox[q][i] \in Message
        BY ElementOfSeq DEF TypeOK
      <3> QED
        BY <3>1 DEF Message
    <2>5. \A q \in Robot : out[q] # None => out[q].variableLastUpdated \in Nat
      BY DEF TypeOK, Message
    <2>6. UNCHANGED <<router, inbox, tagged, clock>>
          /\ \A q \in Robot : q # r => out'[q] = out[q]
      BY <1>6 DEF StampMessage, netVars, TypeOK
    <2> QED
      BY <2>1, <2>2, <2>3, <2>4, <2>5, <2>6
  <1>7. ASSUME NEW r \in Robot, SendMessage(r) PROVE NewestIsNewest'
    <2>1. out[r] \in Message /\ router' = Append(router, out[r]) /\ router \in Seq(Message)
      BY <1>7 DEF SendMessage, Send, TypeOK
    <2>2. \A i \in 1 .. Len(router') :
            router'[i].variableLastUpdated <= newest.variableLastUpdated
      BY <1>7, <2>1, AppendFacts DEF SendMessage
    <2> QED
      BY <1>7, <2>2 DEF SendMessage, history, TypeOK
  <1>8. ASSUME NEW r \in Robot, CheckForMessage(r) PROVE NewestIsNewest'
    <2>1. CASE NoMessage(r)
      BY <2>1 DEF NoMessage, netVars, history, TypeOK
    <2> DEFINE m == Head(inbox[r])
    <2>2. ASSUME inbox[r] # <<>>
          PROVE  /\ m \in Message
                 /\ m.variableLastUpdated <= newest.variableLastUpdated
                 /\ \A i \in 1 .. Len(Tail(inbox[r])) :
                      Tail(inbox[r])[i].variableLastUpdated <= newest.variableLastUpdated
      BY <2>2, TailFacts DEF TypeOK
    <2>3. CASE ApplyUpdate(r)
      <3>1. tagged'[r].lastUpdated = m.variableLastUpdated
        BY <2>3 DEF ApplyUpdate, EntryOf, TypeOK
      <3>2. tagged'[r].lastUpdated <= newest.variableLastUpdated /\ tagged'[r].lastUpdated <= clock
        BY <2>2, <2>3, <3>1 DEF ApplyUpdate, Receive, TypeOK, Message
      <3> QED
        BY <2>2, <2>3, <3>2 DEF ApplyUpdate, Receive, history, TypeOK
    <2>4. CASE AnswerUpdate(r)
      BY <2>2, <2>4 DEF AnswerUpdate, Receive, history, TypeOK
    <2> QED
      BY <1>8, <2>1, <2>3, <2>4 DEF CheckForMessage
  <1>9. CASE UNCHANGED vars
    BY <1>9 DEF vars, netVars
  <1> QED
    BY <1>1, <1>2, <1>3, <1>4, <1>5, <1>6, <1>7, <1>8, <1>9 DEF Next, RobotStep

------------------------------------------------------------------------------
(* Agreeing, one lemma per action.                                         *)

(* At the start there are no clients that could disagree. *)
LEMMA InitAgreeing == Init => Agreeing
  BY DEF Init, NetInit, Agreeing

(* What a step that stamps nothing, adds no client and touches no queue or *)
(* entry leaves of Agreeing.                                               *)
LEMMA SameAgreeing ==
    ASSUME UNCHANGED <<netVars, tagged, out, newest, audience>>,
           \A s \in Robot : Broadcasting(s) => Broadcasting(s)',
           Agreeing
    PROVE  Agreeing'
  <1>1. CASE Unstamped
    BY <1>1 DEF Agreeing, Unstamped
  <1>2. CASE \E s \in clients : WillAnswer(s)
    BY <1>2 DEF Agreeing, WillAnswer, Holds, Unforwarded, netVars
  <1>3. CASE \A r \in clients : Settling(r)
    BY <1>3 DEF Agreeing, Settling, InFlight, Waits, Holds, Unforwarded, netVars
  <1> QED
    BY <1>1, <1>2, <1>3 DEF Agreeing

(* Stamping makes a new newest that is in flight to every client. *)
LEMMA StampAgreeing ==
    ASSUME TypeOK, Participation, NEW r \in Robot, StampMessage(r)
    PROVE  Agreeing'
  <1>1. out'[r] = newest' /\ r \in Robot
    BY DEF StampMessage
  <1>2. \A q \in clients' : InFlight(newest, q)'
    BY <1>1 DEF InFlight
  <1> QED
    BY <1>2 DEF Agreeing, Settling

(* A robot between recvfrom and its answer, or between a store and the     *)
(* clock reading of its broadcast, is Unstamped.                           *)
LEMMA BroadcastAgreeing ==
    ASSUME NEW r \in Robot, Broadcasting(r)', out'[r] = None
    PROVE  Agreeing'
  BY DEF Agreeing, Unstamped

(* Unstamped ends only by stamping. *)
LEMMA UnstampedLasts ==
    ASSUME NEW s \in Robot, Broadcasting(s), out[s] = None,
           at'[s] = at[s], out'[s] = out[s]
    PROVE  Agreeing'
  BY DEF Agreeing, Unstamped, Broadcasting

(* A client that registers while messages are still unforwarded receives   *)
(* them without having seen newest; but then somebody else has seen newest *)
(* or has it ahead of them, and will answer.                               *)
LEMMA RegisterAgreeing ==
    ASSUME TypeOK, Participation, Agreeing, NEW r \in Robot, Register(r)
    PROVE  Agreeing'
  <1> USE DEF Register, AddClient, history
  <1>1. CASE Unstamped
    BY <1>1, UnstampedLasts DEF Unstamped
  <1>2. CASE \E s \in clients : WillAnswer(s)
    BY <1>2 DEF Agreeing, WillAnswer, Holds, Unforwarded
  <1>3. CASE \A q \in clients : Settling(q)
    <2>1. \A q \in clients : Settling(q)'
      BY <1>3 DEF Settling, InFlight, Waits, Holds, Unforwarded
    <2>2. CASE ~ Unforwarded
      <3>1. Settling(r)'
        BY <2>2 DEF Settling, Unforwarded, Participation
      <3> QED
        BY <2>1, <3>1 DEF Agreeing
    <2>3. CASE Waits(newest, router) \/ \E s \in Robot : out[s] = newest
      <3>1. Settling(r)'
        BY <2>3 DEF Settling, InFlight, Waits
      <3> QED
        BY <2>1, <3>1 DEF Agreeing
    <2>4. CASE /\ Unforwarded
               /\ ~ Waits(newest, router)
               /\ ~ \E s \in Robot : out[s] = newest
      <3>1. PICK s \in clients : TRUE
        BY <2>4 DEF Unforwarded, Participation, Broadcasting
      <3>2. Holds(s, newest) \/ Waits(newest, inbox[s])
        BY <1>3, <2>4, <3>1 DEF Settling, InFlight
      <3>3. WillAnswer(s)
        BY <2>4, <3>2 DEF WillAnswer, Waits
      <3>4. WillAnswer(s)'
        BY <3>3 DEF WillAnswer, Holds, Unforwarded
      <3> QED
        BY <3>1, <3>4 DEF Agreeing
    <2> QED
      BY <2>2, <2>3, <2>4
  <1> QED
    BY <1>1, <1>2, <1>3 DEF Agreeing

(* Sending moves a message from its sender to the router's socket. *)
LEMMA SendAgreeing ==
    ASSUME TypeOK, Agreeing, NEW r \in Robot, SendMessage(r)
    PROVE  Agreeing'
  <1>1. /\ out[r] \in Message /\ out[r] # None
        /\ router \in Seq(Message) /\ router' = Append(router, out[r])
        /\ UNCHANGED <<clients, inbox, tagged, newest, audience>>
    BY DEF SendMessage, Send, history, TypeOK
  <1>1a. /\ router' # <<>>
        /\ Len(router) \in Nat
        /\ Len(router') = Len(router) + 1
        /\ \A i \in 1 .. Len(router) : router'[i] = router[i]
        /\ router'[Len(router) + 1] = out[r]
    BY <1>1, AppendFacts, LenProperties
  <1>2. Unforwarded'
    BY <1>1a DEF Unforwarded
  <1>3. \A s \in Robot : s # r => at'[s] = at[s] /\ out'[s] = out[s]
    BY DEF SendMessage, TypeOK
  <1>4. CASE Unstamped
    <2>1. PICK s \in Robot : Broadcasting(s) /\ out[s] = None
      BY <1>4 DEF Unstamped
    <2>2. s # r
      BY <1>1, <2>1
    <2> QED
      BY <1>3, <2>1, <2>2, UnstampedLasts
  <1>5. CASE \E s \in clients : WillAnswer(s)
    <2>1. PICK s \in clients : WillAnswer(s)
      BY <1>5
    <2>2. WillAnswer(s)'
      BY <1>1, <1>2, <2>1 DEF WillAnswer, Holds
    <2> QED
      BY <1>1, <2>1, <2>2 DEF Agreeing
  <1>6. CASE \A q \in clients : Settling(q)
    <2> SUFFICES ASSUME NEW q \in clients PROVE Settling(q)'
      BY <1>1 DEF Agreeing
    <2>1. CASE Waits(newest, inbox[q])
      BY <1>1, <2>1 DEF Settling, InFlight, Waits
    <2>2. CASE Waits(newest, router)
      <3>1. Waits(newest, router)'
        <4>1. PICK i \in 1 .. Len(router) : router[i] = newest
          BY <2>2 DEF Waits
        <4>2. i \in 1 .. Len(router') /\ router'[i] = newest'
          BY <1>1a, <1>1, <4>1
        <4> QED
          BY <4>2 DEF Waits
      <3> QED
        BY <3>1 DEF Settling, InFlight
    <2>3. CASE \E s \in Robot : out[s] = newest
      <3>1. PICK s \in Robot : out[s] = newest
        BY <2>3
      <3>2. CASE s = r
        <4>1. Len(router) + 1 \in 1 .. Len(router') /\ router'[Len(router) + 1] = newest'
          BY <1>1a, <1>1, <3>1, <3>2
        <4> QED
          BY <4>1 DEF Settling, InFlight, Waits
      <3>3. CASE s # r
        BY <1>1, <1>3, <3>1, <3>3 DEF Settling, InFlight
      <3> QED
        BY <3>2, <3>3
    <2>4. CASE Holds(q, newest)
      BY <1>1, <2>4 DEF Settling, Holds
    <2>5. Unforwarded
      BY <1>1 DEF Unforwarded
    <2> QED
      BY <1>6, <2>1, <2>2, <2>3, <2>4, <2>5 DEF Settling, InFlight
  <1> QED
    BY <1>4, <1>5, <1>6 DEF Agreeing

(* Forwarding moves a message to the end of every client's inbox. *)
LEMMA ForwardAgreeing ==
    ASSUME TypeOK, Agreeing, RouterForward
    PROVE  Agreeing'
  <1> USE DEF RouterForward, Forward, history, TypeOK
  <1> DEFINE m == Head(router)
  <1>1. m = router[1] /\ m \in Message /\ Len(router) \in Nat \ {0}
        /\ Len(Tail(router)) = Len(router) - 1
        /\ \A i \in 1 .. Len(router) - 1 : Tail(router)[i] = router[i + 1]
    BY TailFacts
  <1>2. \A q \in clients :
          /\ inbox'[q] = Append(inbox[q], m)
          /\ inbox'[q] # <<>>
          /\ Len(inbox[q]) \in Nat
          /\ Len(inbox'[q]) = Len(inbox[q]) + 1
          /\ \A i \in 1 .. Len(inbox[q]) : inbox'[q][i] = inbox[q][i]
          /\ inbox'[q][Len(inbox[q]) + 1] = m
    <2> SUFFICES ASSUME NEW q \in clients
                 PROVE  /\ inbox'[q] = Append(inbox[q], m)
                        /\ inbox'[q] # <<>>
                        /\ Len(inbox[q]) \in Nat
                        /\ Len(inbox'[q]) = Len(inbox[q]) + 1
                        /\ \A i \in 1 .. Len(inbox[q]) : inbox'[q][i] = inbox[q][i]
                        /\ inbox'[q][Len(inbox[q]) + 1] = m
      OBVIOUS
    <2>1. inbox'[q] = Append(inbox[q], m) /\ inbox[q] \in Seq(Message)
      OBVIOUS
    <2> QED
      BY <1>1, <2>1, AppendFacts, LenProperties
  <1>3. CASE Unstamped
    BY <1>3, UnstampedLasts DEF Unstamped
  <1>4. CASE \E s \in clients : WillAnswer(s)
    <2>1. PICK s \in clients : WillAnswer(s)
      BY <1>4
    <2>2. CASE Holds(s, newest)
      BY <1>2, <2>2 DEF Agreeing, WillAnswer, Holds
    <2>3. CASE \E i \in 1 .. Len(inbox[s]) : inbox[s][i] = newest
      <3>1. PICK i \in 1 .. Len(inbox[s]) : inbox[s][i] = newest
        BY <2>3
      <3>2. i \in 1 .. Len(inbox'[s]) /\ inbox'[s][i] = newest' /\ i < Len(inbox'[s])
        BY <1>2, <3>1
      <3>3. WillAnswer(s)'
        BY <3>2 DEF WillAnswer
      <3> QED
        BY <3>3 DEF Agreeing
    <2> QED
      BY <2>1, <2>2, <2>3 DEF WillAnswer
  <1>5. CASE \A q \in clients : Settling(q)
    <2> SUFFICES ASSUME NEW q \in clients PROVE Settling(q)'
      BY DEF Agreeing
    <2>1. CASE Waits(newest, inbox[q])
      <3>1. Waits(newest, inbox[q])'
        BY <1>2, <2>1 DEF Waits
      <3> QED
        BY <3>1 DEF Settling, InFlight
    <2>2. CASE Waits(newest, router)
      <3>1. PICK i \in 1 .. Len(router) : router[i] = newest
        BY <2>2 DEF Waits
      <3>2. CASE i = 1
        <4>1. Waits(newest, inbox[q])'
          <5>1. /\ Len(inbox[q]) + 1 \in 1 .. Len(inbox'[q])
                /\ inbox'[q][Len(inbox[q]) + 1] = newest'
            BY <1>1, <1>2, <3>1, <3>2
          <5> QED
            BY <5>1 DEF Waits
        <4> QED
          BY <4>1 DEF Settling, InFlight
      <3>3. CASE i # 1
        <4>1. i - 1 \in 1 .. Len(router') /\ router'[i - 1] = newest'
          BY <1>1, <3>1, <3>3
        <4> QED
          BY <4>1 DEF Settling, InFlight, Waits
      <3> QED
        BY <3>2, <3>3
    <2>3. CASE \E s \in Robot : out[s] = newest
      BY <2>3 DEF Settling, InFlight
    <2>4. CASE Holds(q, newest)
      BY <2>4 DEF Settling, Holds
    <2>5. Unforwarded
      BY DEF Unforwarded
    <2> QED
      BY <1>5, <2>1, <2>2, <2>3, <2>4, <2>5 DEF Settling, InFlight
  <1> QED
    BY <1>3, <1>4, <1>5 DEF Agreeing

(* A client that applies an update holds newest if that was the update; it *)
(* does not hold newest already, because no update is newer.               *)
LEMMA ApplyAgreeing ==
    ASSUME TypeOK, NewestIsNewest, Agreeing, NEW r \in Robot, ApplyUpdate(r)
    PROVE  Agreeing'
  <1> DEFINE q == inbox[r]
             m == Head(q)
  <1>1. /\ at[r] = "check"
        /\ q \in Seq(Message) /\ q # <<>>
        /\ inbox' = [inbox EXCEPT ![r] = Tail(q)]
        /\ tagged' = [tagged EXCEPT ![r] = EntryOf(m)]
        /\ tagged[r] # None => tagged[r].lastUpdated < m.variableLastUpdated
        /\ UNCHANGED <<clients, router, out, newest, audience>>
    BY DEF ApplyUpdate, Receive, IsNewer, history, TypeOK
  <1>2. /\ m = q[1]
        /\ m \in Message
        /\ Len(q) \in Nat \ {0}
        /\ Len(Tail(q)) = Len(q) - 1
        /\ \A i \in 1 .. Len(q) - 1 : Tail(q)[i] = q[i + 1]
        /\ Tail(q) \in Seq(Message)
    BY <1>1, TailFacts
  <1>3. inbox'[r] = Tail(q) /\ tagged'[r] = EntryOf(m)
    BY <1>1 DEF TypeOK
  <1>4. \A s \in Robot : s # r => /\ inbox'[s] = inbox[s]
                                  /\ tagged'[s] = tagged[s]
                                  /\ at'[s] = at[s]
    BY <1>1 DEF ApplyUpdate, TypeOK
  <1>5. ~ Holds(r, newest)
    <2> SUFFICES ASSUME Holds(r, newest) PROVE FALSE
      OBVIOUS
    <2>1. tagged[r] # None /\ tagged[r].lastUpdated = newest.variableLastUpdated
      BY EntryOfMessage DEF Holds, TypeOK, EntryOf
    <2>2. m.variableLastUpdated <= newest.variableLastUpdated
      BY <1>2 DEF NewestIsNewest
    <2>3. m.variableLastUpdated \in Nat /\ newest.variableLastUpdated \in Nat
      BY <1>2 DEF TypeOK, Message
    <2> QED
      BY <1>1, <2>1, <2>2, <2>3
  <1>6. CASE Unstamped
    <2>1. PICK s \in Robot : Broadcasting(s) /\ out[s] = None
      BY <1>6 DEF Unstamped
    <2>2. s # r
      BY <1>1, <2>1 DEF Broadcasting
    <2> QED
      BY <1>1, <1>4, <2>1, <2>2, UnstampedLasts
  <1>7. ASSUME NEW i \in 1 .. Len(q), q[i] = newest
        PROVE  (i = 1 /\ Holds(r, newest)')
               \/ (i > 1 /\ i - 1 \in 1 .. Len(inbox'[r]) /\ inbox'[r][i - 1] = newest')
    <2>1. CASE i = 1
      BY <1>1, <1>2, <1>3, <1>7, <2>1 DEF Holds, EntryOf
    <2>2. CASE i > 1
      <3>1. i - 1 \in 1 .. Len(q) - 1 /\ (i - 1) + 1 = i
        BY <1>2, <2>2
      <3>2. Tail(q)[i - 1] = newest
        BY <1>2, <1>7, <3>1
      <3> QED
        BY <1>1, <1>2, <1>3, <2>2, <3>1, <3>2
    <2>3. i \in Nat /\ i >= 1
      BY <1>2
    <2> QED
      BY <2>1, <2>2, <2>3
  <1>8. CASE \E s \in clients : WillAnswer(s)
    <2>1. PICK s \in clients : WillAnswer(s)
      BY <1>8
    <2>2. Unforwarded' <=> Unforwarded
      BY <1>1 DEF Unforwarded
    <2>3. CASE s # r
      <3>1. WillAnswer(s)'
        BY <1>1, <1>4, <2>1, <2>2, <2>3 DEF WillAnswer, Holds, TypeOK
      <3> QED
        BY <1>1, <2>1, <3>1 DEF Agreeing
    <2>4. CASE s = r
      <3>1. PICK i \in 1 .. Len(q) : q[i] = newest /\ (i < Len(q) \/ Unforwarded)
        BY <1>5, <2>1, <2>4 DEF WillAnswer
      <3>2. WillAnswer(r)'
        <4>1. CASE i = 1
          <5>1. Holds(r, newest)'
            BY <1>7, <3>1, <4>1
          <5>2. inbox'[r] # <<>> \/ Unforwarded'
            <6>1. CASE Len(q) > 1
              BY <1>1, <1>3, <6>1, TailOfLonger
            <6>2. CASE Unforwarded
              BY <2>2, <6>2
            <6> QED
              BY <3>1, <4>1, <6>1, <6>2
          <5> QED
            BY <5>1, <5>2 DEF WillAnswer
        <4>2. CASE i # 1
          <5>1. i - 1 \in 1 .. Len(inbox'[r]) /\ inbox'[r][i - 1] = newest'
            BY <1>7, <3>1, <4>2
          <5>2. i - 1 < Len(inbox'[r]) \/ Unforwarded'
            BY <1>2, <1>3, <2>2, <3>1
          <5> QED
            BY <5>1, <5>2 DEF WillAnswer
        <4> QED
          BY <4>1, <4>2
      <3> QED
        BY <1>1, <2>1, <2>4, <3>2 DEF Agreeing
    <2> QED
      BY <2>3, <2>4
  <1>9. CASE \A s \in clients : Settling(s)
    <2> SUFFICES ASSUME NEW s \in clients PROVE Settling(s)'
      BY <1>1 DEF Agreeing
    <2>1. CASE s # r
      BY <1>1, <1>4, <1>9, <2>1 DEF Settling, InFlight, Waits, Holds, Unforwarded, TypeOK
    <2>2. CASE s = r
      <3>1. InFlight(newest, r)
        BY <1>1, <1>5, <1>9, <2>2 DEF Settling
      <3>2. CASE Waits(newest, q)
        <4>1. PICK i \in 1 .. Len(q) : q[i] = newest
          BY <3>2 DEF Waits
        <4> QED
          BY <1>7, <2>2, <4>1 DEF Settling, InFlight, Waits
      <3>3. CASE Waits(newest, router) \/ \E p \in Robot : out[p] = newest
        BY <1>1, <2>2, <3>3 DEF Settling, InFlight, Waits
      <3> QED
        BY <3>1, <3>2, <3>3 DEF InFlight
    <2> QED
      BY <2>1, <2>2
  <1> QED
    BY <1>6, <1>8, <1>9 DEF Agreeing

(* Every step preserves Agreeing. *)
LEMMA NextAgreeing == IInv /\ [Next]_vars => Agreeing'
  <1> SUFFICES ASSUME IInv, [Next]_vars PROVE Agreeing'
    OBVIOUS
  <1> USE DEF IInv
  <1>1. CASE Tick
    BY <1>1, SameAgreeing DEF Tick, history, Broadcasting
  <1>2. CASE RouterForward
    BY <1>2, ForwardAgreeing
  <1>3. ASSUME NEW r \in Robot, Register(r) PROVE Agreeing'
    BY <1>3, RegisterAgreeing
  <1>4. ASSUME NEW r \in Robot, StoreTagged(r) PROVE Agreeing'
    <2>1. Broadcasting(r)' /\ out'[r] = None
      BY <1>4 DEF StoreTagged, Broadcasting, TypeOK, Participation
    <2> QED
      BY <2>1, BroadcastAgreeing
  <1>5. ASSUME NEW r \in Robot, OtherInstruction(r) PROVE Agreeing'
    BY <1>5, SameAgreeing DEF OtherInstruction, history, Broadcasting, TypeOK
  <1>6. ASSUME NEW r \in Robot, StampMessage(r) PROVE Agreeing'
    BY <1>6, StampAgreeing
  <1>7. ASSUME NEW r \in Robot, SendMessage(r) PROVE Agreeing'
    BY <1>7, SendAgreeing
  <1>8. ASSUME NEW r \in Robot, CheckForMessage(r) PROVE Agreeing'
    <2>1. CASE NoMessage(r)
      BY <2>1, SameAgreeing DEF NoMessage, history, Broadcasting, TypeOK
    <2>2. CASE ApplyUpdate(r)
      BY <2>2, ApplyAgreeing
    <2>3. CASE AnswerUpdate(r)
      <3>1. Broadcasting(r)' /\ out'[r] = None
        BY <2>3 DEF AnswerUpdate, Broadcasting, TypeOK, Participation
      <3> QED
        BY <3>1, BroadcastAgreeing
    <2> QED
      BY <1>8, <2>1, <2>2, <2>3 DEF CheckForMessage
  <1>9. CASE UNCHANGED vars
    BY <1>9, SameAgreeing DEF vars, Broadcasting
  <1> QED
    BY <1>1, <1>2, <1>3, <1>4, <1>5, <1>6, <1>7, <1>8, <1>9 DEF Next, RobotStep

------------------------------------------------------------------------------
(* The theorems.                                                           *)

(* The inductive invariant holds in every reachable state. *)
THEOREM Invariance == Spec => []IInv
  <1>1. Init => IInv
    BY InitTypeOK, InitParticipation, InitNewestIsNewest, InitAgreeing DEF IInv
  <1>2. IInv /\ [Next]_vars => IInv'
    BY NextTypeOK, NextParticipation, NextNewestIsNewest, NextAgreeing DEF IInv
  <1> QED
    BY <1>1, <1>2, PTL DEF Spec

(* Every variable of the swarm keeps its type: in particular a robot never *)
(* broadcasts a variable it has no entry for.                              *)
THEOREM TypeCorrectness == Spec => []TypeOK
  <1>1. IInv => TypeOK
    BY DEF IInv
  <1> QED
    BY <1>1, Invariance, PTL

(* Whenever no update waits in a socket and no robot is broadcasting, all  *)
(* clients that were registered when the last message was stamped hold its *)
(* value, and any other client holds it or has no entry: the router's echo *)
(* to all and checkForMessage's answers are enough for agreement.          *)
THEOREM SwarmConverges == Spec => []Convergence
  <1>1. IInv => Convergence
    <2> SUFFICES ASSUME IInv, Quiescent, NEW r \in clients PROVE UpToDate(r)
      BY DEF Convergence
    <2>1. r \in Robot /\ \A s \in Robot : inbox[s] = <<>> /\ ~ Broadcasting(s) /\ out[s] = None
      BY DEF IInv, TypeOK, Participation, Quiescent, NetworkEmpty
    <2>2. router = <<>> /\ newest \in Message
      BY DEF Quiescent, NetworkEmpty, IInv, TypeOK
    <2>3. ~ Unstamped /\ ~ Unforwarded
      BY <2>1, <2>2 DEF Unstamped, Unforwarded
    <2>4. ASSUME NEW s \in clients, WillAnswer(s) PROVE FALSE
      BY <2>1, <2>3, <2>4 DEF WillAnswer, IInv, TypeOK
    <2>5. Settling(r)
      BY <2>3, <2>4 DEF IInv, Agreeing
    <2>6. ~ InFlight(newest, r)
      BY <2>1, <2>2, NoneAssumption DEF InFlight, Waits
    <2> QED
      BY <2>5, <2>6 DEF Settling, UpToDate
  <1> QED
    BY <1>1, Invariance, PTL

(* No step moves an entry's lastUpdated back: a store reads the clock,     *)
(* which is never behind a recorded time, and an update is applied only    *)
(* when newer.                                                             *)
THEOREM EntriesNeverOlder == Spec => NeverOlder
  <1> DEFINE Forwards == \A r \in Robot : tagged[r] # None =>
               tagged'[r] # None /\ tagged'[r].lastUpdated >= tagged[r].lastUpdated
  <1>1. IInv /\ [Next]_vars => Forwards
    <2> SUFFICES ASSUME IInv, [Next]_vars, NEW q \in Robot, tagged[q] # None
                 PROVE  tagged'[q] # None /\ tagged'[q].lastUpdated >= tagged[q].lastUpdated
      OBVIOUS
    <2>1. tagged[q].lastUpdated \in Nat /\ tagged[q].lastUpdated <= clock /\ clock \in Nat
      BY DEF IInv, TypeOK, NewestIsNewest, Entry
    <2>2. CASE tagged' = tagged
      BY <2>1, <2>2
    <2>3. ASSUME NEW r \in Robot, StoreTagged(r)
          PROVE  tagged'[q] # None /\ tagged'[q].lastUpdated >= tagged[q].lastUpdated
      <3>1. CASE q = r
        <4>1. tagged'[q] = [value |-> stores + 1, lastUpdated |-> clock]
          BY <2>3, <3>1 DEF StoreTagged, IInv, TypeOK
        <4>2. tagged'[q] \in Entry
          BY <4>1 DEF IInv, TypeOK, Entry
        <4> QED
          BY <2>1, <4>1, <4>2, NoneAssumption
      <3>2. CASE q # r
        BY <2>1, <2>3, <3>2 DEF StoreTagged, IInv, TypeOK
      <3> QED
        BY <3>1, <3>2
    <2>4. ASSUME NEW r \in Robot, ApplyUpdate(r)
          PROVE  tagged'[q] # None /\ tagged'[q].lastUpdated >= tagged[q].lastUpdated
      <3>1. CASE q = r
        <4>1. inbox[q] # <<>> /\ Head(inbox[q]) \in Message
          BY <2>4, <3>1, TailFacts DEF ApplyUpdate, Receive, IInv, TypeOK
        <4>2. /\ tagged'[q] = EntryOf(Head(inbox[q]))
              /\ tagged[q].lastUpdated < Head(inbox[q]).variableLastUpdated
          BY <2>4, <3>1 DEF ApplyUpdate, IsNewer, IInv, TypeOK
        <4>3. Head(inbox[q]).variableLastUpdated \in Nat
          BY <4>1 DEF Message
        <4>4. tagged'[q].lastUpdated = Head(inbox[q]).variableLastUpdated
          BY <4>2 DEF EntryOf
        <4> QED
          BY <2>1, <4>1, <4>2, <4>3, <4>4, EntryOfMessage
      <3>2. CASE q # r
        BY <2>1, <2>4, <3>2 DEF ApplyUpdate, IInv, TypeOK
      <3> QED
        BY <3>1, <3>2
    <2>5. (\E r \in Robot : StoreTagged(r) \/ ApplyUpdate(r)) \/ tagged' = tagged
      BY DEF Next, RobotStep, Tick, RouterForward, Register, OtherInstruction,
             StampMessage, SendMessage, CheckForMessage, NoMessage, AnswerUpdate, vars
    <2> QED
      BY <2>2, <2>3, <2>4, <2>5
  <1>2. IInv /\ [Next]_vars => [Forwards]_vars
    BY <1>1
  <1> QED
    BY <1>2, Invariance, PTL DEF Spec, NeverOlder

------------------------------------------------------------------------------
(* One writer and clock readings that never coincide.                      *)

(* What waits in a queue after an append or a read, and in which order. *)
LEMMA QueuedMessages ==
    ASSUME NEW q \in Seq(Message)
    PROVE  ToSet(q) \subseteq Message /\ \A i \in 1 .. Len(q) : q[i] \in ToSet(q)
  BY LenProperties, ElementOfSeq DEF ToSet

(* Only an empty queue holds no message. *)
LEMMA NothingQueued ==
    /\ ToSet(<<>>) = {}
    /\ InOrder(<<>>)
    /\ \A q \in Seq(Message) : ToSet(q) = {} => q = <<>>
  <1>1. Len(<<>>) = 0 /\ DOMAIN <<>> = {}
    BY EmptySeq
  <1>2. ToSet(<<>>) = {} /\ InOrder(<<>>)
    BY <1>1 DEF ToSet, InOrder
  <1>3. ASSUME NEW q \in Seq(Message), ToSet(q) = {} PROVE q = <<>>
    <2>1. Len(q) \in Nat /\ ~ 1 \in 1 .. Len(q)
      BY <1>3, QueuedMessages, LenProperties
    <2>2. Len(q) = 0
      BY <2>1
    <2> QED
      BY <2>2, EmptySeq
  <1> QED
    BY <1>2, <1>3

(* A message that all the others precede goes to the end of a queue. *)
LEMMA AppendInOrder ==
    ASSUME NEW q \in Seq(Message), NEW m \in Message
    PROVE  /\ ToSet(Append(q, m)) = ToSet(q) \cup {m}
           /\ InOrder(q) /\ AllPrecede(q, m) => InOrder(Append(q, m))
  <1> DEFINE a == Append(q, m)
             n == Len(q)
  <1>1. /\ n \in Nat
        /\ a \in Seq(Message) /\ Len(a) = n + 1
        /\ \A i \in 1 .. n : a[i] = q[i]
        /\ a[n + 1] = m
    BY AppendFacts, LenProperties
  <1>2. DOMAIN a = 1 .. n + 1 /\ DOMAIN q = 1 .. n
    BY <1>1, LenProperties
  <1>3. ToSet(a) = ToSet(q) \cup {m}
    <2> HIDE DEF a, n
    <2>1. ToSet(a) = {a[i] : i \in 1 .. n + 1} /\ ToSet(q) = {q[i] : i \in 1 .. n}
      BY <1>2 DEF ToSet
    <2>2. 1 .. n + 1 = (1 .. n) \cup {n + 1}
      BY <1>1
    <2> QED
      BY <1>1, <2>1, <2>2
  <1>4. ASSUME InOrder(q), AllPrecede(q, m), NEW i \in 1 .. n + 1, NEW j \in 1 .. n + 1, i < j
        PROVE  Precedes(a[i], a[j])
    <2> HIDE DEF a
    <2>1. i \in 1 .. n /\ (j \in 1 .. n \/ j = n + 1)
      BY <1>1, <1>4
    <2>2. q[i] \in ToSet(q)
      BY <2>1, QueuedMessages
    <2> QED
      BY <1>1, <1>4, <2>1, <2>2 DEF InOrder, AllPrecede
  <1>5. InOrder(q) /\ AllPrecede(q, m) => InOrder(a)
    <2> HIDE DEF a, n
    <2> QED
      BY <1>1, <1>4 DEF InOrder
  <1> QED
    BY <1>3, <1>5

(* The head of an ordered queue precedes all that remain. *)
LEMMA TailInOrder ==
    ASSUME NEW q \in Seq(Message), q # <<>>
    PROVE  /\ Head(q) \in ToSet(q)
           /\ ToSet(Tail(q)) \subseteq ToSet(q)
           /\ ToSet(q) = {Head(q)} \cup ToSet(Tail(q))
           /\ InOrder(q) => /\ InOrder(Tail(q))
                            /\ \A m \in ToSet(Tail(q)) : Precedes(Head(q), m)
  <1> DEFINE t == Tail(q)
             n == Len(q) - 1
  <1>1. /\ n \in Nat /\ Len(q) = n + 1
        /\ t \in Seq(Message) /\ Len(t) = n
        /\ \A i \in 1 .. n : t[i] = q[i + 1]
        /\ Head(q) = q[1]
    BY TailFacts
  <1>2. DOMAIN t = 1 .. n /\ DOMAIN q = 1 .. n + 1
    BY <1>1, LenProperties
  <1> HIDE DEF t, n
  <1>3. ToSet(t) = {t[i] : i \in 1 .. n} /\ ToSet(q) = {q[i] : i \in 1 .. n + 1}
    BY <1>2 DEF ToSet
  <1>4. \A i \in 1 .. n : i + 1 \in 1 .. n + 1 /\ i + 1 > 1
    BY <1>1
  <1>5. \A i \in 1 .. n + 1 : i = 1 \/ (i - 1 \in 1 .. n /\ i = (i - 1) + 1)
    BY <1>1
  <1>6. ToSet(q) = {Head(q)} \cup ToSet(t)
    <2>1. ASSUME NEW m \in ToSet(q) PROVE m = Head(q) \/ m \in ToSet(t)
      <3>1. PICK i \in 1 .. n + 1 : m = q[i]
        BY <1>3
      <3> QED
        BY <1>1, <1>3, <1>5, <3>1
    <2>2. Head(q) \in ToSet(q)
      <3>1. 1 \in 1 .. n + 1
        BY <1>1
      <3> QED
        BY <1>1, <1>3, <3>1
    <2>3. ToSet(t) \subseteq ToSet(q)
      BY <1>1, <1>3, <1>4
    <2> QED
      BY <2>1, <2>2, <2>3
  <1>7. ASSUME InOrder(q) PROVE InOrder(t)
    <2> SUFFICES ASSUME NEW i \in 1 .. n, NEW j \in 1 .. n, i < j PROVE Precedes(t[i], t[j])
      BY <1>1 DEF InOrder
    <2>1. i + 1 \in 1 .. Len(q) /\ j + 1 \in 1 .. Len(q) /\ i + 1 < j + 1
      BY <1>1
    <2>2. Precedes(q[i + 1], q[j + 1])
      BY <1>7, <2>1 DEF InOrder
    <2> QED
      BY <1>1, <2>2
  <1>8. ASSUME InOrder(q), NEW m \in ToSet(t) PROVE Precedes(Head(q), m)
    <2>1. PICK i \in 1 .. n : m = t[i]
      BY <1>3, <1>8
    <2>2. 1 \in 1 .. Len(q) /\ i + 1 \in 1 .. Len(q) /\ 1 < i + 1
      BY <1>1
    <2>3. Precedes(q[1], q[i + 1])
      BY <1>8, <2>2 DEF InOrder
    <2> QED
      BY <1>1, <2>1, <2>3
  <1> QED
    BY <1>6, <1>7, <1>8 DEF t

(* All that is under way is messages. *)
LEMMA UnderWay ==
    ASSUME TypeOK, NEW w \in Robot
    PROVE  /\ Upstream(w) \subseteq Message
           /\ \A r \in Robot : inbox[r] \in Seq(Message) /\ ToSet(inbox[r]) \subseteq Message
           /\ \A m \in Message : m.value \in Nat /\ m.variableLastUpdated \in Nat
           /\ \A e \in Entry : e.value \in Nat /\ e.lastUpdated \in Nat
  <1>1. router \in Seq(Message) /\ inbox \in [Robot -> Seq(Message)]
        /\ out \in [Robot -> Message \cup {None}]
    BY DEF TypeOK
  <1>2. ToSet(router) \subseteq Message
    BY <1>1, QueuedMessages
  <1>3. \A r \in Robot : inbox[r] \in Seq(Message) /\ ToSet(inbox[r]) \subseteq Message
    BY <1>1, QueuedMessages
  <1> QED
    BY <1>1, <1>2, <1>3 DEF Upstream, Message, Entry

(* No message under way is stamped later than newest. *)
LEMMA NoneNewer ==
    ASSUME TypeOK, NewestIsNewest, NEW w \in Robot
    PROVE  /\ \A m \in Upstream(w) : m.variableLastUpdated <= newest.variableLastUpdated
           /\ \A r \in Robot : \A m \in ToSet(inbox[r]) :
                 m.variableLastUpdated <= newest.variableLastUpdated
  <1>1. router \in Seq(Message) /\ inbox \in [Robot -> Seq(Message)]
    BY DEF TypeOK
  <1>2. \A q \in Seq(Message) : ToSet(q) = {q[i] : i \in 1 .. Len(q)}
    BY LenProperties DEF ToSet
  <1>3. \A m \in ToSet(router) : m.variableLastUpdated <= newest.variableLastUpdated
    BY <1>1, <1>2 DEF NewestIsNewest
  <1>4. ASSUME NEW r \in Robot, NEW m \in ToSet(inbox[r])
        PROVE  m.variableLastUpdated <= newest.variableLastUpdated
    <2>1. PICK i \in 1 .. Len(inbox[r]) : m = inbox[r][i]
      BY <1>1, <1>2, <1>4
    <2> QED
      BY <2>1 DEF NewestIsNewest
  <1>5. out[w] # None => out[w].variableLastUpdated <= newest.variableLastUpdated
    BY DEF NewestIsNewest
  <1> QED
    BY <1>3, <1>4, <1>5 DEF Upstream

(* A step that moves no message and changes no entry, and in which nobody  *)
(* but the writer begins to broadcast.                                     *)
LEMMA SameSingle ==
    ASSUME NEW w \in Robot, SingleWriterInv(w),
           UNCHANGED <<router, inbox, out, tagged, stores, broadcasts>>,
           \A r \in Robot \ {w} : ~ Broadcasting(r)'
    PROVE  SingleWriterInv(w)'
  <1>1. Upstream(w)' = Upstream(w)
    BY DEF Upstream
  <1>2. SentInOrder(w)'
    BY <1>1 DEF SingleWriterInv, SentInOrder
  <1>3. OthersListen(w)'
    BY <1>1 DEF SingleWriterInv, OthersListen
  <1>4. WriterIsAhead(w)'
    BY <1>1 DEF SingleWriterInv, WriterIsAhead, Echoes
  <1> QED
    BY <1>2, <1>3, <1>4 DEF SingleWriterInv

(* A store is newer than all that is under way. *)
LEMMA StoreSingle ==
    ASSUME IInv, NEW w \in Robot, Writer = {w}, SingleWriterInv(w),
           NEW r \in Robot, StoreTagged(r)
    PROVE  SingleWriterInv(w)'
  <1>1. /\ r = w
        /\ tagged' = [tagged EXCEPT ![w] = [value |-> stores + 1, lastUpdated |-> clock]]
        /\ at' = [at EXCEPT ![w] = "storeBroadcast"]
        /\ stores' = stores + 1
        /\ UNCHANGED <<clients, router, inbox, clock, out, broadcasts, newest>>
    BY DEF StoreTagged, netVars, history
  <1>2. TypeOK /\ NewestIsNewest
    BY DEF IInv
  <1>3. /\ tagged'[w] = [value |-> stores + 1, lastUpdated |-> clock]
        /\ \A q \in Robot \ {w} : tagged'[q] = tagged[q] /\ at'[q] = at[q]
        /\ stores \in Nat /\ clock \in Nat
    BY <1>1, <1>2 DEF TypeOK
  <1>4. tagged'[w] # None /\ tagged'[w].value = stores + 1 /\ tagged'[w].lastUpdated = clock
    BY <1>3, NoneAssumption DEF Entry
  <1>5. Upstream(w)' = Upstream(w)
    BY <1>1 DEF Upstream
  <1>6. SentInOrder(w)'
    BY <1>1, <1>5 DEF SingleWriterInv, SentInOrder
  <1>7. OthersListen(w)'
    BY <1>1, <1>3, <1>5 DEF SingleWriterInv, OthersListen, Broadcasting
  <1>8. ASSUME NEW m \in Message, m.variableLastUpdated <= newest.variableLastUpdated, Echoes(w, m)
        PROVE  Echoes(w, m)'
    <2>1. m.value <= stores /\ m.value \in Nat
      <3>1. m.value <= tagged[w].value /\ tagged[w].value <= stores /\ tagged[w] \in Entry
        BY <1>2, <1>8 DEF Echoes, SingleWriterInv, WriterIsAhead, TypeOK
      <3> QED
        BY <1>2, <1>3, <3>1, UnderWay
    <2>2. ~ clock < m.variableLastUpdated
      <3>1. newest.variableLastUpdated <= clock /\ newest \in Message
        BY <1>2 DEF NewestIsNewest, TypeOK
      <3> QED
        BY <1>2, <1>3, <1>8, <3>1, UnderWay
    <2> QED
      BY <1>3, <1>4, <2>1, <2>2 DEF Echoes, IsNewer
  <1>9. WriterIsAhead(w)'
    <2>1. ASSUME NEW q \in Robot, tagged'[q] # None PROVE tagged'[q].value <= stores + 1
      <3>1. CASE q = w
        BY <1>3, <1>4, <3>1
      <3>2. CASE q # w
        <4>1. tagged[w] # None /\ tagged[q].value <= tagged[w].value /\ tagged[w].value <= stores
          BY <1>3, <2>1, <3>2 DEF SingleWriterInv, WriterIsAhead
        <4>2. tagged[w] \in Entry /\ tagged[q] \in Entry
          BY <1>2, <1>3, <2>1, <3>2, <4>1 DEF TypeOK
        <4> QED
          BY <1>2, <1>3, <3>2, <4>1, <4>2, UnderWay
      <3> QED
        BY <3>1, <3>2
    <2>2. \A m \in Upstream(w) : Echoes(w, m)'
      BY <1>2, <1>8, UnderWay, NoneNewer DEF SingleWriterInv, WriterIsAhead
    <2>3. \A q \in Robot : \A m \in ToSet(inbox[q]) : Echoes(w, m)'
      BY <1>2, <1>8, UnderWay, NoneNewer DEF SingleWriterInv, WriterIsAhead
    <2> QED
      BY <1>1, <1>3, <1>4, <1>5, <2>1, <2>2, <2>3 DEF WriterIsAhead
  <1> QED
    BY <1>6, <1>7, <1>9 DEF SingleWriterInv

(* A message is stamped later than all that is under way, because the      *)
(* clock was read before.                                                  *)
LEMMA StampSingle ==
    ASSUME IInv, NEW w \in Robot, SingleWriterInv(w), ClockFresh,
           NEW r \in Robot, StampMessage(r)
    PROVE  SingleWriterInv(w)'
  <1> DEFINE n == [value |-> tagged[w].value, variableLastUpdated |-> clock]
  <1>1. r = w
    BY DEF StampMessage, SingleWriterInv, OthersListen
  <1>2. TypeOK /\ NewestIsNewest /\ Participation
    BY DEF IInv
  <1>3. tagged[w] \in Entry /\ tagged[w] # None /\ clock \in Nat /\ broadcasts \in Nat
    BY <1>1, <1>2 DEF StampMessage, Participation, TypeOK
  <1>4. /\ out[w] = None /\ out'[w] = n /\ broadcasts' = broadcasts + 1
        /\ UNCHANGED <<router, inbox, clock, tagged, at, stores>>
    BY <1>1, <1>2 DEF StampMessage, netVars, TypeOK
  <1>5. n \in Message /\ n.value = tagged[w].value /\ n.variableLastUpdated = clock /\ n # None
    BY <1>3, NoneAssumption, UnderWay, <1>2 DEF Message
  <1> HIDE DEF n
  <1>6. Upstream(w) = ToSet(router) /\ Upstream(w)' = Upstream(w) \cup {n}
    BY <1>4, <1>5 DEF Upstream
  <1>7. ASSUME NEW m \in Message, m.variableLastUpdated <= newest.variableLastUpdated, Echoes(w, m),
               broadcasts # 0
        PROVE  Precedes(m, n)
    <2>1. newest.variableLastUpdated < clock /\ newest \in Message
      BY <1>2, <1>3, <1>7 DEF ClockFresh, TypeOK
    <2>2. m.variableLastUpdated < clock
      BY <1>2, <1>3, <1>7, <2>1, UnderWay
    <2> QED
      BY <1>5, <1>7, <2>2 DEF Precedes, Before, Echoes
  <1>8. AllPrecede(router, n)
    <2>1. \A m \in Upstream(w) : Precedes(m, n)
      BY <1>2, <1>7, UnderWay, NoneNewer DEF SingleWriterInv, WriterIsAhead, SentInOrder
    <2> QED
      BY <1>6, <2>1 DEF AllPrecede
  <1>9. \A q \in Robot : AllPrecede(inbox[q], n)
    <2>1. \A q \in Robot : broadcasts = 0 => ToSet(inbox[q]) = {}
      BY NothingQueued DEF SingleWriterInv, SentInOrder
    <2>2. \A q \in Robot : \A m \in ToSet(inbox[q]) : Precedes(m, n)
      BY <1>2, <1>7, <2>1, UnderWay, NoneNewer DEF SingleWriterInv, WriterIsAhead
    <2> QED
      BY <2>2 DEF AllPrecede
  <1>10. SentInOrder(w)'
    BY <1>3, <1>4, <1>5, <1>6, <1>8, <1>9 DEF SingleWriterInv, SentInOrder
  <1>11. OthersListen(w)'
    <2>1. ASSUME NEW q \in Robot \ {w}, tagged[q] # None
          PROVE  Before(tagged[q].value, tagged[q].lastUpdated, n)
      BY <1>5, <2>1 DEF SingleWriterInv, WriterIsAhead, ClockFresh, Before
    <2> QED
      BY <1>4, <1>6, <2>1 DEF SingleWriterInv, OthersListen, Broadcasting
  <1>12. WriterIsAhead(w)'
    <2>1. Echoes(w, n)
      BY <1>2, <1>3, <1>5, UnderWay DEF Echoes
    <2> QED
      BY <1>4, <1>6, <2>1 DEF SingleWriterInv, WriterIsAhead, Echoes
  <1> QED
    BY <1>10, <1>11, <1>12 DEF SingleWriterInv

(* Sending moves the stamped message to the end of the router's queue. *)
LEMMA SendSingle ==
    ASSUME IInv, NEW w \in Robot, SingleWriterInv(w), NEW r \in Robot, SendMessage(r)
    PROVE  SingleWriterInv(w)'
  <1>1. r = w
    BY DEF SendMessage, SingleWriterInv, OthersListen
  <1>2. TypeOK
    BY DEF IInv
  <1>3. /\ out[w] # None /\ out[w] \in Message /\ out'[w] = None
        /\ router \in Seq(Message) /\ router' = Append(router, out[w])
        /\ UNCHANGED <<inbox, tagged, stores, broadcasts>>
        /\ \A q \in Robot \ {w} : at'[q] = at[q]
    BY <1>1, <1>2 DEF SendMessage, Send, history, TypeOK
  <1>4. /\ ToSet(router') = ToSet(router) \cup {out[w]}
        /\ InOrder(router) /\ AllPrecede(router, out[w]) => InOrder(router')
    BY <1>3, AppendInOrder
  <1>5. Upstream(w)' = Upstream(w) /\ out[w] \in Upstream(w)
    BY <1>3, <1>4 DEF Upstream
  <1>6. SentInOrder(w)'
    BY <1>3, <1>4, <1>5 DEF SingleWriterInv, SentInOrder
  <1>7. OthersListen(w)'
    BY <1>3, <1>5 DEF SingleWriterInv, OthersListen, Broadcasting
  <1>8. WriterIsAhead(w)'
    BY <1>3, <1>5 DEF SingleWriterInv, WriterIsAhead, Echoes
  <1> QED
    BY <1>6, <1>7, <1>8 DEF SingleWriterInv

(* The router passes on the oldest message that no robot has yet. *)
LEMMA ForwardSingle ==
    ASSUME IInv, NEW w \in Robot, SingleWriterInv(w), RouterForward
    PROVE  SingleWriterInv(w)'
  <1> DEFINE m == Head(router)
  <1>1. TypeOK
    BY DEF IInv
  <1>2. /\ router # <<>> /\ router \in Seq(Message) /\ router' = Tail(router)
        /\ \A q \in Robot : inbox'[q] = inbox[q] \/ inbox'[q] = Append(inbox[q], m)
        /\ UNCHANGED <<out, tagged, stores, broadcasts, at>>
    BY <1>1 DEF RouterForward, Forward, history, TypeOK
  <1>3. /\ m \in ToSet(router) /\ m \in Message
        /\ ToSet(router) = {m} \cup ToSet(router')
        /\ InOrder(router) => InOrder(router') /\ \A n \in ToSet(router') : Precedes(m, n)
    BY <1>2, TailInOrder, QueuedMessages
  <1>4. /\ InOrder(router)
        /\ out[w] # None => AllPrecede(router, out[w])
        /\ \A q \in Robot : InOrder(inbox[q]) /\ \A n \in Upstream(w) : AllPrecede(inbox[q], n)
    BY DEF SingleWriterInv, SentInOrder
  <1> HIDE DEF m
  <1>5. /\ m \in Upstream(w) /\ Upstream(w)' \subseteq Upstream(w)
        /\ \A n \in Upstream(w)' : Precedes(m, n)
    BY <1>2, <1>3, <1>4 DEF Upstream, AllPrecede
  <1>6. ASSUME NEW q \in Robot
        PROVE  /\ ToSet(inbox'[q]) \subseteq ToSet(inbox[q]) \cup {m}
               /\ InOrder(inbox'[q])
    <2>1. inbox[q] \in Seq(Message) /\ AllPrecede(inbox[q], m) /\ InOrder(inbox[q])
      BY <1>1, <1>4, <1>5, UnderWay
    <2>2. CASE inbox'[q] = inbox[q]
      BY <2>1, <2>2
    <2>3. CASE inbox'[q] = Append(inbox[q], m)
      BY <1>3, <2>1, <2>3, AppendInOrder
    <2> QED
      BY <1>2, <2>2, <2>3
  <1>7. \A q \in Robot : \A n \in Upstream(w)' : AllPrecede(inbox'[q], n)
    BY <1>4, <1>5, <1>6 DEF AllPrecede
  <1>8. out[w] # None => AllPrecede(router', out[w])
    BY <1>3, <1>4 DEF AllPrecede
  <1>9. broadcasts # 0
    BY <1>5 DEF SingleWriterInv, SentInOrder
  <1>10. SentInOrder(w)'
    BY <1>2, <1>3, <1>4, <1>6, <1>7, <1>8, <1>9 DEF SentInOrder
  <1>11. OthersListen(w)'
    BY <1>2, <1>5, <1>6 DEF SingleWriterInv, OthersListen, Broadcasting
  <1>12. WriterIsAhead(w)'
    BY <1>2, <1>5, <1>6 DEF SingleWriterInv, WriterIsAhead, Echoes
  <1> QED
    BY <1>10, <1>11, <1>12 DEF SingleWriterInv

(* What is left in a socket when its oldest message is read. *)
LEMMA ReadSingle ==
    ASSUME IInv, NEW w \in Robot, SingleWriterInv(w), NEW r \in Robot, Receive(r),
           UNCHANGED <<router, out, broadcasts>>
    PROVE  /\ SentInOrder(w)'
           /\ Upstream(w)' = Upstream(w)
           /\ Head(inbox[r]) \in Message /\ Head(inbox[r]) \in ToSet(inbox[r])
           /\ \A q \in Robot : ToSet(inbox'[q]) \subseteq ToSet(inbox[q])
           /\ \A m \in ToSet(inbox'[r]) \cup Upstream(w) : Precedes(Head(inbox[r]), m)
  <1>1. TypeOK
    BY DEF IInv
  <1>2. /\ inbox[r] \in Seq(Message) /\ inbox[r] # <<>> /\ inbox'[r] = Tail(inbox[r])
        /\ \A q \in Robot \ {r} : inbox'[q] = inbox[q]
    BY <1>1 DEF Receive, TypeOK
  <1>3. Upstream(w)' = Upstream(w)
    BY DEF Upstream
  <1>4. /\ Head(inbox[r]) \in ToSet(inbox[r]) /\ Head(inbox[r]) \in Message
        /\ ToSet(inbox'[r]) \subseteq ToSet(inbox[r])
        /\ InOrder(inbox[r]) => /\ InOrder(inbox'[r])
                                /\ \A m \in ToSet(inbox'[r]) : Precedes(Head(inbox[r]), m)
    BY <1>2, TailInOrder, QueuedMessages
  <1>5. /\ InOrder(router)
        /\ out[w] # None => AllPrecede(router, out[w])
        /\ \A q \in Robot : InOrder(inbox[q]) /\ \A m \in Upstream(w) : AllPrecede(inbox[q], m)
        /\ broadcasts = 0 => Upstream(w) = {} /\ \A q \in Robot : inbox[q] = <<>>
    BY DEF SingleWriterInv, SentInOrder
  <1>6. \A q \in Robot : ToSet(inbox'[q]) \subseteq ToSet(inbox[q]) /\ InOrder(inbox'[q])
    BY <1>2, <1>4, <1>5
  <1>7. \A q \in Robot : \A m \in Upstream(w) : AllPrecede(inbox'[q], m)
    BY <1>5, <1>6 DEF AllPrecede
  <1>8. broadcasts # 0
    BY <1>2, <1>5
  <1>9. SentInOrder(w)'
    BY <1>3, <1>5, <1>6, <1>7, <1>8 DEF SentInOrder
  <1> QED
    BY <1>3, <1>4, <1>5, <1>6, <1>9 DEF AllPrecede

(* A robot that listens takes the value of a later stamp; the writer takes *)
(* only its own value back, under a later time.                            *)
LEMMA ApplySingle ==
    ASSUME IInv, NEW w \in Robot, SingleWriterInv(w), NEW r \in Robot, ApplyUpdate(r)
    PROVE  /\ SingleWriterInv(w)'
           /\ \A q \in Robot : tagged[q] # None => tagged'[q].value >= tagged[q].value
  <1> DEFINE m == Head(inbox[r])
  <1>1. TypeOK
    BY DEF IInv
  <1>2. /\ Receive(r)
        /\ tagged[r] # None => IsNewer(m, tagged[r])
        /\ tagged' = [tagged EXCEPT ![r] = EntryOf(m)]
        /\ at' = [at EXCEPT ![r] = "instruction"]
        /\ UNCHANGED <<clients, router, clock, out, stores, newest, audience, broadcasts>>
    BY DEF ApplyUpdate, history
  <1>3. /\ SentInOrder(w)'
        /\ Upstream(w)' = Upstream(w)
        /\ m \in Message /\ m \in ToSet(inbox[r])
        /\ \A q \in Robot : ToSet(inbox'[q]) \subseteq ToSet(inbox[q])
        /\ \A n \in ToSet(inbox'[r]) \cup Upstream(w) : Precedes(m, n)
    BY <1>2, ReadSingle
  <1> HIDE DEF m
  <1>4. /\ tagged'[r] # None
        /\ tagged'[r].value = m.value /\ tagged'[r].lastUpdated = m.variableLastUpdated
        /\ \A q \in Robot \ {r} : tagged'[q] = tagged[q] /\ at'[q] = at[q]
        /\ ~ Broadcasting(r)'
    BY <1>1, <1>2, <1>3, EntryOfMessage DEF TypeOK, EntryOf, Broadcasting
  <1>5. m.value \in Nat /\ m.variableLastUpdated \in Nat
        /\ \A q \in Robot : tagged[q] # None => tagged[q].value \in Nat /\ tagged[q].lastUpdated \in Nat
    <2>1. \A q \in Robot : tagged[q] # None => tagged[q] \in Entry
      BY <1>1 DEF TypeOK
    <2> QED
      BY <1>1, <1>3, <2>1, UnderWay
  <1>6. Echoes(w, m)
    BY <1>3 DEF SingleWriterInv, WriterIsAhead
  <1>7. OthersListen(w)'
    <2>1. ASSUME NEW q \in Robot \ {w}, q # r
          PROVE  /\ ~ Broadcasting(q)'
                 /\ tagged'[q] # None =>
                       \A n \in ToSet(inbox'[q]) \cup Upstream(w)' :
                           Before(tagged'[q].value, tagged'[q].lastUpdated, n)
      BY <1>3, <1>4, <2>1 DEF SingleWriterInv, OthersListen, Broadcasting
    <2>2. \A n \in ToSet(inbox'[r]) \cup Upstream(w)' :
             Before(tagged'[r].value, tagged'[r].lastUpdated, n)
      BY <1>3, <1>4 DEF Precedes
    <2> QED
      BY <1>4, <2>1, <2>2 DEF OthersListen
  <1>8. ASSUME r = w
        PROVE  tagged[w] # None /\ tagged'[w].value = tagged[w].value
               /\ tagged[w].lastUpdated <= tagged'[w].lastUpdated
    <2>1. tagged[w] # None /\ IsNewer(m, tagged[w]) /\ m.value = tagged[w].value
      BY <1>2, <1>6, <1>8 DEF Echoes
    <2> QED
      BY <1>4, <1>5, <1>8, <2>1 DEF IsNewer
  <1>9. ASSUME r # w
        PROVE  tagged'[w] = tagged[w] /\ tagged[w] # None /\ tagged'[r].value <= tagged[w].value
               /\ (tagged[r] # None => tagged[r].value <= tagged'[r].value)
    <2>1. tagged[w] # None /\ m.value <= tagged[w].value
      BY <1>6 DEF Echoes
    <2>2. tagged[r] # None => tagged[r].value <= m.value
      BY <1>3, <1>9 DEF SingleWriterInv, OthersListen, Before
    <2> QED
      BY <1>4, <1>9, <2>1, <2>2
  <1>10. /\ tagged[w] # None /\ tagged'[w] # None
         /\ tagged'[w].value = tagged[w].value
         /\ tagged[w].lastUpdated <= tagged'[w].lastUpdated
         /\ tagged'[w].lastUpdated \in Nat
    <2>1. CASE r = w
      BY <1>4, <1>5, <1>8, <2>1
    <2>2. CASE r # w
      BY <1>5, <1>9, <2>2
    <2> QED
      BY <2>1, <2>2
  <1>11. ASSUME NEW n \in Message, Echoes(w, n) PROVE Echoes(w, n)'
    <2>1. n.variableLastUpdated \in Nat
      BY <1>1, UnderWay
    <2>2. IsNewer(n, tagged'[w]) => IsNewer(n, tagged[w])
      BY <1>5, <1>10, <2>1 DEF IsNewer
    <2> QED
      BY <1>10, <1>11, <2>2 DEF Echoes
  <1>12. WriterIsAhead(w)'
    <2>1. \A n \in Upstream(w)' : Echoes(w, n)'
      BY <1>1, <1>3, <1>11, UnderWay DEF SingleWriterInv, WriterIsAhead
    <2>2. \A q \in Robot : \A n \in ToSet(inbox'[q]) : Echoes(w, n)'
      BY <1>1, <1>3, <1>11, UnderWay DEF SingleWriterInv, WriterIsAhead
    <2>3. tagged'[w].value <= stores'
      BY <1>2, <1>10 DEF SingleWriterInv, WriterIsAhead
    <2>4. ASSUME NEW q \in Robot, tagged'[q] # None PROVE tagged'[q].value <= tagged'[w].value
      <3>1. CASE q = r /\ r # w
        BY <1>9, <3>1
      <3>2. CASE q = w
        BY <1>5, <1>10, <3>2
      <3>3. CASE q # r /\ q # w
        BY <1>4, <1>10, <2>4, <3>3 DEF SingleWriterInv, WriterIsAhead
      <3> QED
        BY <3>1, <3>2, <3>3
    <2> QED
      BY <1>10, <2>1, <2>2, <2>3, <2>4 DEF WriterIsAhead
  <1>13. ASSUME NEW q \in Robot, tagged[q] # None PROVE tagged'[q].value >= tagged[q].value
    <2>1. CASE q # r
      BY <1>4, <1>5, <1>13, <2>1
    <2>2. CASE q = r /\ r = w
      BY <1>5, <1>8, <1>13, <2>2
    <2>3. CASE q = r /\ r # w
      BY <1>4, <1>5, <1>9, <1>13, <2>3
    <2> QED
      BY <2>1, <2>2, <2>3
  <1> QED
    BY <1>3, <1>7, <1>12, <1>13 DEF SingleWriterInv

(* Only the writer answers. *)
LEMMA AnswerSingle ==
    ASSUME IInv, NEW w \in Robot, SingleWriterInv(w), NEW r \in Robot, AnswerUpdate(r)
    PROVE  SingleWriterInv(w)'
  <1> DEFINE m == Head(inbox[r])
  <1>1. TypeOK
    BY DEF IInv
  <1>2. /\ Receive(r)
        /\ tagged[r] # None
        /\ ~ IsNewer(m, tagged[r])
        /\ at' = [at EXCEPT ![r] = "rebroadcast"]
        /\ UNCHANGED <<router, out, tagged, stores, broadcasts>>
    BY DEF AnswerUpdate, history
  <1>3. /\ SentInOrder(w)'
        /\ Upstream(w)' = Upstream(w)
        /\ m \in Message /\ m \in ToSet(inbox[r])
        /\ \A q \in Robot : ToSet(inbox'[q]) \subseteq ToSet(inbox[q])
    BY <1>2, ReadSingle
  <1> HIDE DEF m
  <1>4. r = w
    BY <1>2, <1>3 DEF SingleWriterInv, OthersListen, Before, IsNewer
  <1>5. \A q \in Robot \ {w} : at'[q] = at[q]
    BY <1>1, <1>2, <1>4 DEF TypeOK
  <1>6. OthersListen(w)'
    BY <1>2, <1>3, <1>5 DEF SingleWriterInv, OthersListen, Broadcasting
  <1>7. WriterIsAhead(w)'
    BY <1>2, <1>3 DEF SingleWriterInv, WriterIsAhead, Echoes
  <1> QED
    BY <1>3, <1>6, <1>7 DEF SingleWriterInv

(* No step of the swarm breaks the invariant or takes a value back. *)
LEMMA NextSingle ==
    ASSUME IInv, NEW w \in Robot, Writer = {w}, SingleWriterInv(w), [DistinctNext]_vars
    PROVE  /\ SingleWriterInv(w)'
           /\ \A q \in Robot : tagged[q] # None => tagged'[q].value >= tagged[q].value
  <1>1. TypeOK /\ \A q \in Robot \ {w} : ~ Broadcasting(q)
    BY DEF IInv, SingleWriterInv, OthersListen
  <1>2. tagged' = tagged => \A q \in Robot : tagged[q] # None => tagged'[q].value >= tagged[q].value
    BY <1>1, UnderWay DEF TypeOK
  <1> DEFINE Fine == /\ SingleWriterInv(w)'
                     /\ \A q \in Robot : tagged[q] # None => tagged'[q].value >= tagged[q].value
             Quiet == /\ UNCHANGED <<router, inbox, out, tagged, stores, broadcasts>>
                      /\ \A q \in Robot \ {w} : ~ Broadcasting(q)'
  <1>3. Quiet => Fine
    BY <1>2, SameSingle
  <1>4. CASE Tick
    <2>1. Quiet
      BY <1>1, <1>4 DEF Tick, netVars, history, Broadcasting
    <2> QED
      BY <1>3, <2>1
  <1>5. CASE RouterForward
    BY <1>2, <1>5, ForwardSingle DEF RouterForward
  <1>6. ASSUME NEW r \in Robot, Register(r) PROVE Fine
    <2>1. Quiet
      BY <1>1, <1>6 DEF Register, AddClient, history, Broadcasting
    <2> QED
      BY <1>3, <2>1
  <1>7. ASSUME NEW r \in Robot, StoreTagged(r) PROVE Fine
    <2>1. SingleWriterInv(w)'
      BY <1>7, StoreSingle
    <2>2. ASSUME NEW q \in Robot, tagged[q] # None PROVE tagged'[q].value >= tagged[q].value
      <3>1. tagged[q] \in Entry /\ tagged[w] # None => tagged[w] \in Entry
        BY <1>1, <2>2 DEF TypeOK
      <3>2. r = w /\ stores \in Nat
        BY <1>1, <1>7 DEF StoreTagged, TypeOK
      <3>3. CASE q = w
        <4>1. tagged'[q].value = stores + 1
          BY <1>1, <1>7, <3>2, <3>3 DEF StoreTagged, TypeOK
        <4>2. tagged[q].value <= stores /\ tagged[q].value \in Nat
          BY <1>1, <2>2, <3>3, UnderWay DEF SingleWriterInv, WriterIsAhead, TypeOK
        <4> QED
          BY <3>2, <4>1, <4>2
      <3>4. CASE q # w
        <4>1. tagged'[q] = tagged[q] /\ tagged[q].value \in Nat
          BY <1>1, <1>7, <2>2, <3>2, <3>4, UnderWay DEF StoreTagged, TypeOK
        <4> QED
          BY <4>1
      <3> QED
        BY <3>3, <3>4
    <2> QED
      BY <2>1, <2>2
  <1>8. ASSUME NEW r \in Robot, OtherInstruction(r) PROVE Fine
    <2>1. Quiet
      BY <1>1, <1>8 DEF OtherInstruction, netVars, history, Broadcasting, TypeOK
    <2> QED
      BY <1>3, <2>1
  <1>9. ASSUME NEW r \in Robot, StampMessage(r), DistinctNext PROVE Fine
    <2>1. broadcasts' # broadcasts
      BY <1>1, <1>9 DEF StampMessage, TypeOK
    <2>2. ClockFresh
      BY <1>9, <2>1 DEF DistinctNext, DistinctTimes
    <2> QED
      BY <1>2, <1>9, <2>2, StampSingle DEF StampMessage
  <1>10. ASSUME NEW r \in Robot, SendMessage(r) PROVE Fine
    BY <1>2, <1>10, SendSingle DEF SendMessage
  <1>11. ASSUME NEW r \in Robot, CheckForMessage(r) PROVE Fine
    <2>1. CASE NoMessage(r)
      <3>1. Quiet
        BY <1>1, <2>1 DEF NoMessage, netVars, history, Broadcasting, TypeOK
      <3> QED
        BY <1>3, <3>1
    <2>2. CASE ApplyUpdate(r)
      BY <2>2, ApplySingle
    <2>3. CASE AnswerUpdate(r)
      BY <1>2, <2>3, AnswerSingle DEF AnswerUpdate
    <2> QED
      BY <1>11, <2>1, <2>2, <2>3 DEF CheckForMessage
  <1>12. CASE UNCHANGED vars
    <2>1. Quiet
      BY <1>1, <1>12 DEF vars, netVars, history, Broadcasting
    <2> QED
      BY <1>3, <2>1
  <1> QED
    <2>1. CASE DistinctNext
      <3>1. CASE \E r \in Robot : RobotStep(r)
        <4>1. PICK r \in Robot : RobotStep(r)
          BY <3>1
        <4> QED
          BY <1>7, <1>8, <1>9, <1>10, <1>11, <2>1, <4>1 DEF RobotStep
      <3> QED
        BY <1>4, <1>5, <1>6, <2>1, <3>1 DEF DistinctNext, Next
    <2> QED
      BY <1>12, <2>1

(* At the start nothing is known and nothing is under way. *)
LEMMA InitSingle ==
    ASSUME NEW w \in Robot, Init
    PROVE  SingleWriterInv(w)
  <1>1. /\ router = <<>> /\ out[w] = None
        /\ \A r \in Robot : inbox[r] = <<>> /\ tagged[r] = None /\ ~ Broadcasting(r)
    BY DEF Init, NetInit, Broadcasting
  <1>2. Upstream(w) = {} /\ \A r \in Robot : ToSet(inbox[r]) = {} /\ InOrder(inbox[r])
    BY <1>1, NothingQueued DEF Upstream
  <1>3. InOrder(router)
    BY <1>1, NothingQueued
  <1> QED
    BY <1>1, <1>2, <1>3 DEF SingleWriterInv, SentInOrder, OthersListen, WriterIsAhead

(* When one robot writes and no two clock readings coincide, no robot,     *)
(* the writer included, sees the variable go back to a value stored        *)
(* earlier, however many robots listen and however late they join: the     *)
(* echoes of the writer's updates and the answers they cause undo nothing. *)
THEOREM OneWriterNeverGoesBack ==
    ASSUME NEW w \in Robot, Writer = {w}
    PROVE  DistinctSpec => SingleWriterNeverGoesBack
  <1> DEFINE Forwards == \A r \in Robot : tagged[r] # None => tagged'[r].value >= tagged[r].value
             Inv == IInv /\ SingleWriterInv(w)
  <1>1. Init => Inv
    BY InitTypeOK, InitParticipation, InitNewestIsNewest, InitAgreeing, InitSingle DEF IInv
  <1>2. Inv /\ [DistinctNext]_vars => Inv' /\ Forwards
    <2> SUFFICES ASSUME Inv, [DistinctNext]_vars PROVE Inv' /\ Forwards
      OBVIOUS
    <2>1. [Next]_vars
      BY DEF DistinctNext
    <2>2. IInv'
      BY <2>1, NextTypeOK, NextParticipation, NextNewestIsNewest, NextAgreeing DEF IInv
    <2> QED
      BY <2>2, NextSingle
  <1>3. Inv /\ [DistinctNext]_vars => Inv' /\ [Forwards]_vars
    BY <1>2
  <1> QED
    BY <1>1, <1>3, PTL DEF DistinctSpec, SingleWriterNeverGoesBack
==============================================================================
