------------------------------ MODULE MC_Parts ------------------------------
(***************************************************************************)
(* The instances of Parts that TLC checks:                                 *)
(*                                                                         *)
(*   queue     as MC_GlobalQueue says                                      *)
(*   manual    lists that differ in one proxy, repeat one, are empty or    *)
(*             malformed; two requests                                     *)
(*   pacer     three requests and intervals of up to two ticks             *)
(*   shutdown  two requests to each server                                 *)
(*   clients   three requests through two proxies                          *)
(*   test      a channel for two events, a test with three before its last *)
(***************************************************************************)
EXTENDS Parts, MC_GlobalQueue

CONSTANTS p1, p2, p3, r4

AllProxies == {p1, p2, p3}
SomeLists == {<<p1, p2, p3>>, <<p1, Blank, p2, p1>>, <<Blank>>, <<p1, Malformed>>}
TwoProxies == {p1, p2}
TwoRequests == {r1, r2}
OtherRequests == {r3, r4}
=============================================================================
