---------------------------- MODULE DurableStore ----------------------------
(***************************************************************************)
(* What the store promises of its metadata, whatever its writer does: the  *)
(* stored contents follow the current ones, at their own pace but never    *)
(* backwards; a caller is told "saved" only when all that was current at   *)
(* its call is stored; a crash goes back to what is stored.                *)
(***************************************************************************)
EXTENDS Naturals

CONSTANTS Records, Callers

VARIABLES current,   \* the contents readers see: [rev, live]
          stored,    \* the contents a restart finds
          calling,   \* the callers waiting for an answer
          promised,  \* the revisions that were current when each call began
          acked      \* the newest revision of each record reported as saved

vars == <<current, stored, calling, promised, acked>>

None == [r \in Records |-> 0]

Init ==
    /\ current \in [Records -> [rev : {0}, live : BOOLEAN]]
    /\ stored = current
    /\ calling = {}
    /\ promised = [c \in Callers |-> None]
    /\ acked = None

(* Some records get a newer content, the others keep theirs.               *)
Modify ==
    /\ DOMAIN current' = Records
    /\ \A r \in Records : current'[r] = current[r] \/ current'[r].rev > current[r].rev
    /\ UNCHANGED stored

Call(c) ==
    /\ c \notin calling
    /\ calling' = calling \cup {c}
    /\ promised' = [promised EXCEPT ![c] = [r \in Records |-> current'[r].rev]]
    /\ UNCHANGED acked

ManualChange(c) == Modify /\ Call(c)
AutomaticChange == Modify /\ UNCHANGED <<calling, promised, acked>>

(* A record is stored as it is now, or as it was at some moment since it   *)
(* was stored last.                                                        *)
Store ==
    /\ DOMAIN stored' = Records
    /\ \A r \in Records :
          \/ stored'[r] = stored[r]
          \/ stored'[r] = current[r]
          \/ stored[r].rev < stored'[r].rev /\ stored'[r].rev < current[r].rev
    /\ UNCHANGED <<current, calling, promised, acked>>

Return(c) ==
    /\ c \in calling
    /\ calling' = calling \ {c}
    /\ promised' = [promised EXCEPT ![c] = None]
    /\ UNCHANGED <<current, stored>>

Saved(c) ==
    /\ \A r \in Records : promised[c][r] <= stored[r].rev
    /\ Return(c)
    /\ acked' = [r \in Records |-> IF promised[c][r] > acked[r] THEN promised[c][r] ELSE acked[r]]

Failed(c) == Return(c) /\ UNCHANGED acked

Crash ==
    /\ current' = stored
    /\ calling' = {}
    /\ promised' = [c \in Callers |-> None]
    /\ UNCHANGED <<stored, acked>>

Next ==
    \/ \E c \in Callers : ManualChange(c) \/ Saved(c) \/ Failed(c)
    \/ AutomaticChange
    \/ Store
    \/ Crash

Spec == Init /\ [][Next]_vars
=============================================================================
