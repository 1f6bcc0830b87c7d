---------------------------- MODULE MC_KeyHealth ----------------------------
(* Small instances of KeyHealth.                                           *)
EXTENDS KeyHealth, TLC

CONSTANTS k1, k2

Setting(threshold, cooldown, autoPause, pauseThreshold) ==
    [key429Threshold |-> threshold, cooldown |-> cooldown,
     autoPause |-> autoPause, pauseThreshold |-> pauseThreshold]

TwoKeys == {k1, k2}
TwoSettings == {Setting(1, 2, TRUE, 2), Setting(2, 1, FALSE, 1)}
Renaming == Permutations(Keys)
=============================================================================
