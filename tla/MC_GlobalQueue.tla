--------------------------- MODULE MC_GlobalQueue ---------------------------
(* Limits that can be raised, lowered and switched off while requests hold *)
(* slots or wait; one configuration has no waiting room.                   *)
EXTENDS GlobalQueue, TLC

CONSTANTS r1, r2, r3

MCRequests == {r1, r2, r3}

One == [max |-> 1, size |-> 1]
OneNoQueue == [max |-> 1, size |-> 0]
Two == [max |-> 2, size |-> 2]
Off == [max |-> 0, size |-> 1]

MCConfigs == {One, Two, Off, OneNoQueue}
MCLimits == {One, Two}
=============================================================================
