---------------------------- MODULE MC_QueuePeak ----------------------------
(* What a metric sample reports of the queue, against the depth the queue  *)
(* really had since the sample before.                                     *)
EXTENDS MC_GlobalQueue

VARIABLE highest    \* history: the highest depth since the last sample

Sampled == \E r \in Requests : stage[r] = "running" /\ stage'[r] = "sampled"

PeakInit == Init /\ highest = 0
PeakNext ==
    /\ Next
    /\ highest' = IF Sampled \/ globalQueued' > highest THEN globalQueued' ELSE highest
PeakSpec == PeakInit /\ [][PeakNext]_<<vars, highest>>

(* gateway.go:385: "consumeQueuePeak returns the highest queue depth seen  *)
(* since the previous call".                                               *)
SampleIsHighest == [][Sampled => queuePeak = highest]_<<vars, highest>>
=============================================================================
