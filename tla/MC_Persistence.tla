--------------------------- MODULE MC_Persistence ---------------------------
(* Small instances of Persistence.                                         *)
EXTENDS Persistence, TLC

CONSTANTS k1, n1, m1, c1, c2

NoRecords == {}
OneKey == {k1}
OneNode == {n1}
OneMinute == {m1}
TwoClients == {c1, c2}
Renaming == Permutations(TwoClients)
=============================================================================
