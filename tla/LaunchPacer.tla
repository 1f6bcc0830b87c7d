---------------------------- MODULE LaunchPacer ----------------------------
(***************************************************************************)
(* The spacing of upstream launches (waitForLaunchSlot of                  *)
(* internal/gateway/gateway.go).  A request reads the interval before it   *)
(* waits for admission, so the pacer meets intervals of several            *)
(* configurations.  It books the next free instant of one timeline and     *)
(* sleeps until then; a client that leaves meanwhile leaves its booking    *)
(* behind.                                                                 *)
(*                                                                         *)
(* Instants are counted from the present.  So "ahead" is nextLaunch - now, *)
(* and -1 is any instant before now.  A timer may go off late.             *)
(***************************************************************************)
EXTENDS Integers

CONSTANTS Requests,    \* requests, each of which comes once
          MaxInterval  \* bound: the longest LaunchIntervalMS, in ticks

Intervals == 0..MaxInterval
Past == -1
Forgotten == -(MaxInterval + 1)   \* so long ago that no interval reaches from there

VARIABLES interval,  \* LaunchIntervalMS of the configuration in force
          stage,     \* where each request is
          pace,      \* the interval it has read
          slot,      \* the instant it has booked
          ahead      \* nextLaunch

vars == <<interval, stage, pace, slot, ahead>>

Stages == {"idle", "admitted", "unpaced", "waiting", "launched", "gone"}
Booked(r) == stage[r] \in {"waiting", "launched", "gone"}

TypeOK ==
    /\ interval \in Intervals
    /\ stage \in [Requests -> Stages]
    /\ pace \in [Requests -> Intervals]
    /\ slot \in [Requests -> Int]
    /\ \A r \in Requests : Forgotten <= slot[r] /\ (Booked(r) => pace[r] > 0)
    /\ ahead \in Int
    /\ ahead >= Past

Init ==
    /\ interval \in Intervals
    /\ stage = [r \in Requests |-> "idle"]
    /\ pace = [r \in Requests |-> 0]
    /\ slot = [r \in Requests |-> Forgotten]
    /\ ahead = Past

-----------------------------------------------------------------------------
SaveGlobalConfig(i) ==
    /\ interval' = i
    /\ UNCHANGED <<stage, pace, slot, ahead>>

(* ServeHTTP reads the configuration, then waits for its global slot.      *)
Arrive(r) ==
    /\ stage[r] = "idle"
    /\ stage' = [stage EXCEPT ![r] = "admitted"]
    /\ pace' = [pace EXCEPT ![r] = interval]
    /\ UNCHANGED <<interval, slot, ahead>>

PassUnpaced(r) ==
    /\ stage[r] = "admitted"
    /\ pace[r] = 0
    /\ stage' = [stage EXCEPT ![r] = "unpaced"]
    /\ UNCHANGED <<interval, pace, slot, ahead>>

LaunchNow(r) ==
    /\ stage[r] = "admitted"
    /\ pace[r] > 0
    /\ ahead = Past
    /\ stage' = [stage EXCEPT ![r] = "launched"]
    /\ slot' = [slot EXCEPT ![r] = 0]
    /\ ahead' = pace[r]
    /\ UNCHANGED <<interval, pace>>

(* Mutant: the next one is booked from now on, as after an idle time.      *)
Book_FromNow(r) ==
    /\ stage[r] = "admitted"
    /\ pace[r] > 0
    /\ ahead # Past
    /\ stage' = [stage EXCEPT ![r] = IF ahead = 0 THEN "launched" ELSE "waiting"]
    /\ slot' = [slot EXCEPT ![r] = ahead]
    /\ ahead' = pace[r]
    /\ UNCHANGED <<interval, pace>>

Book(r) ==
    /\ stage[r] = "admitted"
    /\ pace[r] > 0
    /\ ahead # Past
    /\ stage' = [stage EXCEPT ![r] = IF ahead = 0 THEN "launched" ELSE "waiting"]
    /\ slot' = [slot EXCEPT ![r] = ahead]
    /\ ahead' = ahead + pace[r]
    /\ UNCHANGED <<interval, pace>>

(* Mutant: a request whose instant is missed is not started any more.      *)
Launch_Punctual(r) ==
    /\ stage[r] = "waiting"
    /\ slot[r] = 0
    /\ stage' = [stage EXCEPT ![r] = "launched"]
    /\ UNCHANGED <<interval, pace, slot, ahead>>

Launch(r) ==
    /\ stage[r] = "waiting"
    /\ slot[r] <= 0
    /\ stage' = [stage EXCEPT ![r] = "launched"]
    /\ UNCHANGED <<interval, pace, slot, ahead>>

Cancel(r) ==
    /\ stage[r] = "waiting"
    /\ stage' = [stage EXCEPT ![r] = "gone"]
    /\ UNCHANGED <<interval, pace, slot, ahead>>

Tick ==
    /\ ahead' = IF ahead > Past THEN ahead - 1 ELSE Past
    /\ slot' = [r \in Requests |-> IF slot[r] > Forgotten THEN slot[r] - 1 ELSE Forgotten]
    /\ UNCHANGED <<interval, stage, pace>>

Next ==
    \/ \E i \in Intervals : SaveGlobalConfig(i)
    \/ \E r \in Requests :
        \/ Arrive(r) \/ PassUnpaced(r) \/ LaunchNow(r) \/ Book(r)
        \/ Launch(r) \/ Cancel(r)
    \/ Tick

Spec == Init /\ [][Next]_vars

(* Time passes, and a goroutine whose timer has gone off goes on.          *)
FairSpec == Spec /\ WF_vars(Tick) /\ \A r \in Requests : WF_vars(Launch(r))

-----------------------------------------------------------------------------
(* gateway.go:391 "enforces a minimum spacing between successive upstream  *)
(* launches": between the instants of any two requests lies the interval   *)
(* of the earlier one, whatever the intervals that others read, whoever    *)
(* leaves, and however late timers are.                                    *)
Before(r, q) == slot[r] + pace[r] <= slot[q]
LaunchesPaced ==
    \A r, q \in Requests :
        r # q /\ Booked(r) /\ Booked(q) /\ slot[r] # Forgotten /\ slot[q] # Forgotten
            => Before(r, q) \/ Before(q, r)

(* Nobody waits for more than the bookings before: a request that still    *)
(* has to wait follows another at exactly that one's interval.             *)
NoNeedlessWait ==
    \A r \in Requests :
        stage[r] = "waiting" /\ slot[r] > 0 =>
            \E q \in Requests : Booked(q) /\ slot[q] + pace[q] = slot[r]

(* Both together: the spacing is neither too small nor too large.          *)
PaceKept == LaunchesPaced /\ NoNeedlessWait

(* Every wait ends, however many requests come and change the interval.    *)
WaitEnds == \A r \in Requests : stage[r] = "waiting" ~> stage[r] # "waiting"
=============================================================================
