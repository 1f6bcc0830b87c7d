--------------------------- MODULE MC_KeyRotation ---------------------------
(* Small instances of KeyRotation.                                         *)
EXTENDS KeyRotation, TLC

CONSTANTS r1, r2

TwoRequests == {r1, r2}
SmallLimits == {1, 2}
OneOrTwo == {1, 2}
Renaming == Permutations(Requests)
=============================================================================
