--------------------------- MODULE AdmissionRoom ---------------------------
(***************************************************************************)
(* What the global queue promises, with neither counters nor channels: a   *)
(* room that a visitor enters only while fewer than its "max" are inside,  *)
(* and a queue it joins only while the room is full for it and fewer than  *)
(* its "size" are queueing.  A visitor is turned away only when both are   *)
(* full.  The terms are those in force when it came to the door; under     *)
(* max = 0 it takes no seat.                                               *)
(***************************************************************************)
EXTENDS Naturals, FiniteSets

CONSTANTS Visitors, Terms

VARIABLES place, terms

Seated == {v \in Visitors : place[v] = "room" /\ terms[v].max > 0}
Queueing == {v \in Visitors : place[v] = "queue"}

FullFor(v) == terms[v].max > 0 /\ Cardinality(Seated) >= terms[v].max
QueueFullFor(v) == Cardinality(Queueing) >= terms[v].size

Move(v, from, to) == place[v] = from /\ place' = [place EXCEPT ![v] = to]

Init ==
    /\ place = [v \in Visitors |-> "out"]
    /\ terms \in [Visitors -> Terms]

Come(v) ==
    /\ Move(v, "out", "door")
    /\ \E t \in Terms : terms' = [terms EXCEPT ![v] = t]

Enter(v) == ~FullFor(v) /\ Move(v, "door", "room") /\ UNCHANGED terms
Queue(v) == FullFor(v) /\ ~QueueFullFor(v) /\ Move(v, "door", "queue") /\ UNCHANGED terms
TurnedAway(v) == FullFor(v) /\ QueueFullFor(v) /\ Move(v, "door", "out") /\ UNCHANGED terms
Called(v) == ~FullFor(v) /\ Move(v, "queue", "room") /\ UNCHANGED terms
GoHome(v) == Move(v, "queue", "out") /\ UNCHANGED terms
Leave(v) == Move(v, "room", "out") /\ UNCHANGED terms

Next == \E v \in Visitors :
            \/ Come(v) \/ Enter(v) \/ Queue(v) \/ TurnedAway(v)
            \/ Called(v) \/ GoHome(v) \/ Leave(v)

Spec == Init /\ [][Next]_<<place, terms>>
=============================================================================
