--------------------------- MODULE MC_Generation ---------------------------
(* Small instances of Generation.                                          *)
EXTENDS Generation, TLC

CONSTANTS k1, r1, r2

Setting(threshold, cooldown, autoPause, pauseThreshold) ==
    [key429Threshold |-> threshold, cooldown |-> cooldown,
     autoPause |-> autoPause, pauseThreshold |-> pauseThreshold]

OneKey == {k1}
TwoRequests == {r1, r2}
OneSetting == {Setting(1, 1, TRUE, 1)}
TwoSettings == OneSetting \cup {Setting(2, 1, FALSE, 1)}
Renaming == Permutations(Requests)
=============================================================================
