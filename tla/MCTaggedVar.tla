----------------------------- MODULE MCTaggedVar -----------------------------
(***************************************************************************)
(* Instances of TaggedVar for TLC, and its behaviours under an assumption  *)
(* on the clock that the code does not check: no two readings of           *)
(* gettimeofday() in the swarm fall into the same microsecond.             *)
(***************************************************************************)
EXTENDS TaggedVar, SequencesExt

(* Nobody has read the current time yet: every timestamp is older.         *)
ClockFresh ==
    /\ broadcasts > 0 => newest.variableLastUpdated < clock
    /\ \A r \in Robot : tagged[r] # None => tagged[r].lastUpdated < clock

(* The clock is read only when fresh, and advances only when it was read:  *)
(* only the order of timestamps matters, so no behaviour is lost, and the  *)
(* clock's bound is never what stops a robot.                              *)
DistinctTimes ==
    /\ stores' # stores \/ broadcasts' # broadcasts => ClockFresh
    /\ clock' # clock => ~ ClockFresh

DistinctNext == Next /\ DistinctTimes

DistinctSpec == Init /\ [][DistinctNext]_vars

FairDistinctSpec ==
    /\ DistinctSpec
    /\ WF_vars(RouterForward)
    /\ WF_vars(Tick /\ DistinctTimes)
    /\ \A r \in Robot : WF_vars(/\ \/ OtherInstruction(r)
                                   \/ StampMessage(r)
                                   \/ SendMessage(r)
                                   \/ CheckForMessage(r)
                                /\ DistinctTimes)

(* With one writer and distinct times no robot, the writer included, ever  *)
(* sees the variable go back to a value stored earlier: the echoes of the  *)
(* writer's own updates and the answers they cause do not undo a store.    *)
SingleWriterNeverGoesBack ==
    [][\A r \in Robot : tagged[r] # None => tagged'[r].value >= tagged[r].value]_vars

(* With one writer and distinct times the exchange of updates and answers  *)
(* dies out: the swarm comes to rest, with the last store everywhere.      *)
SingleWriterSettles == <>[](Quiescent /\ \A r \in clients : UpToDate(r))

------------------------------------------------------------------------------
(* The inductive invariant behind SingleWriterNeverGoesBack, of a writer w. *)

(* Stamped earlier than message m, and with no later value. *)
Before(value, time, m) == time < m.variableLastUpdated /\ value <= m.value

Precedes(l, m) == Before(l.value, l.variableLastUpdated, m)

(* A queue in which no message is older than one before it. *)
InOrder(queue) ==
    \A i, j \in 1 .. Len(queue) : i < j => Precedes(queue[i], queue[j])

AllPrecede(queue, m) == \A l \in ToSet(queue) : Precedes(l, m)

(* The messages that no robot's socket has yet. *)
Upstream(w) == ToSet(router) \cup (IF out[w] = None THEN {} ELSE {out[w]})

(* What goes through the sockets is in the order in which it was stamped:  *)
(* first what waits for a robot, then what waits for the router, then what *)
(* the writer is about to send.  Before the first stamp there is nothing.  *)
SentInOrder(w) ==
    /\ InOrder(router)
    /\ out[w] # None => AllPrecede(router, out[w])
    /\ \A r \in Robot : InOrder(inbox[r]) /\ \A m \in Upstream(w) : AllPrecede(inbox[r], m)
    /\ broadcasts = 0 => Upstream(w) = {} /\ \A r \in Robot : inbox[r] = <<>>

(* Nobody but the writer has anything to say: whatever a robot has still   *)
(* to receive is newer than what it has.                                   *)
OthersListen(w) ==
    \A r \in Robot \ {w} :
        /\ ~ Broadcasting(r)
        /\ tagged[r] # None =>
              \A m \in ToSet(inbox[r]) \cup Upstream(w) :
                  Before(tagged[r].value, tagged[r].lastUpdated, m)

(* The writer has its last store, and nothing that it would take for newer *)
(* is an earlier one.                                                      *)
Echoes(w, m) ==
    /\ tagged[w] # None
    /\ m.value <= tagged[w].value
    /\ IsNewer(m, tagged[w]) => m.value = tagged[w].value

WriterIsAhead(w) ==
    /\ tagged[w] # None => tagged[w].value <= stores
    /\ \A r \in Robot : tagged[r] # None => tagged[w] # None /\ tagged[r].value <= tagged[w].value
    /\ \A m \in Upstream(w) : Echoes(w, m)
    /\ \A r \in Robot : \A m \in ToSet(inbox[r]) : Echoes(w, m)

SingleWriterInv(w) == SentInOrder(w) /\ OthersListen(w) /\ WriterIsAhead(w)
==============================================================================
