-------------------------- MODULE MC_CaptureStore --------------------------
(* Small instances of CaptureStore: a record of 3 is too large, and two    *)
(* records fill the queue, by number or by bytes.                          *)
EXTENDS CaptureStore, TLC

CONSTANTS k1, k2, r1, r2

OneKey == {k1}
TwoKeys == {k1, k2}
OneRequest == {r1}
TwoRequests == {r1, r2}
AllSizes == {1, 2, 3}
Small == {1}

Renaming == Permutations(Keys)
=============================================================================
