---------------------------- MODULE MC_StoreParts ----------------------------
(***************************************************************************)
(* The instances of StoreParts that TLC checks:                            *)
(*                                                                         *)
(*   captures  as MC_CaptureStore says                                     *)
(*   import    two imports with repeated, blank and empty lines            *)
(*   metrics   a window of two minutes, half minute by half minute         *)
(***************************************************************************)
EXTENDS StoreParts, MC_CaptureStore

CONSTANTS i1, i2, a1, a2

BothImports == {i1, i2}
BothApiKeys == {a1, a2}
SomeTexts == {<<a1, Blank, a1, a2>>, <<NoKey, a2, a1>>}
=============================================================================
