------------------------------ MODULE Metrics ------------------------------
(***************************************************************************)
(* Minute metrics and their chart (RecordMetric, ListMetrics and the       *)
(* pruning of internal/store, metrics of internal/admin).  A sample counts *)
(* in the minute in which its request began, and the request may have      *)
(* taken long.  Memory and disk drop what is too old, at their own times;  *)
(* the writer saves a copy while samples keep coming; a restart loads what *)
(* the disk has.                                                           *)
(*                                                                         *)
(* Time is in half minutes, and the clock is never set back.  Of a sample  *)
(* the queue depth is kept; concurrency, errors and times of first bytes   *)
(* are aggregated in the same way.                                         *)
(***************************************************************************)
EXTENDS Places, Integers, Sequences, FiniteSetsExt

CONSTANTS MaxAge,      \* metricsMaxAge, seven days
          MaxDepth,    \* bound: the deepest queue
          MaxSamples,  \* bound: samples in the life of the database
          MaxNow       \* bound: the end of time

Times == 0..MaxNow
Minute(t) == t \div 2
Minutes == 0..Minute(MaxNow)
Units == {1, 2}            \* minutes of a point: "minute", and "hour" or "day"
Buckets == [Minutes -> [requests : 0..MaxSamples, depth : 0..MaxDepth]]
Empty == [requests |-> 0, depth |-> 0]
NoBuckets == [m \in Minutes |-> Empty]
Total(S, buckets) == MapThenSumSet(LAMBDA m : buckets[m].requests, S)

VARIABLES now,
          metrics,        \* buckets in memory; those without requests do not exist
          dirtyMetrics,   \* minutes to be saved
          lastMetricPrune,
          snap,           \* what the writer is saving
          disk,
          lastDiskPrune,  \* 0: not yet in this process
          taken           \* history: what was counted; in memory, of the
                          \* writer's copy and on disk, none of it dropped

vars == <<now, metrics, dirtyMetrics, lastMetricPrune, snap, disk, lastDiskPrune, taken>>

NotSaving == [dirty |-> {}, metrics |-> NoBuckets, prune |-> FALSE, at |-> 0, active |-> FALSE]

TypeOK ==
    /\ now \in Times
    /\ metrics \in Buckets
    /\ dirtyMetrics \subseteq Minutes
    /\ lastMetricPrune \in Times
    /\ snap \in [dirty : SUBSET Minutes, metrics : Buckets, prune : BOOLEAN,
                 at : Times, active : BOOLEAN]
    /\ disk \in Buckets
    /\ lastDiskPrune \in Times
    /\ taken \in [memory : Buckets, copy : Buckets, disk : Buckets]

Init ==
    /\ now = MaxAge
    /\ metrics = NoBuckets
    /\ dirtyMetrics = {}
    /\ lastMetricPrune = now
    /\ snap = NotSaving
    /\ disk = NoBuckets
    /\ lastDiskPrune = 0
    /\ taken = [memory |-> NoBuckets, copy |-> NoBuckets, disk |-> NoBuckets]

-----------------------------------------------------------------------------
(* Mutant: the minute in which the window begins is dropped with the rest. *)
Expired_Boundary == {m \in Minutes : m <= Minute(now - MaxAge)}

Expired == {m \in Minutes : m < Minute(now - MaxAge)}
Without(buckets, S) == [m \in Minutes |-> IF m \in S THEN Empty ELSE buckets[m]]

(* What pruneMetricsLocked drops.                                          *)
Pruned == IF now - lastMetricPrune < 2 THEN {} ELSE Expired
PruneTime == IF now - lastMetricPrune < 2 THEN lastMetricPrune ELSE now

Counted(bucket, depth) ==
    [requests |-> bucket.requests + 1, depth |-> IF depth > bucket.depth THEN depth ELSE bucket.depth]

(* An older sample is ignored; the pruning that comes first may as well    *)
(* come with the next one.                                                 *)
RecordMetric(at, depth) ==
    LET m == Minute(at)
        kept == Without(metrics, Pruned)
    IN  /\ at \in (now - MaxAge)..now
        /\ Total(Minutes, taken.memory) < MaxSamples
        /\ metrics' = [kept EXCEPT ![m] = Counted(@, depth)]
        /\ dirtyMetrics' = (dirtyMetrics \ Pruned) \cup {m}
        /\ lastMetricPrune' = PruneTime
        /\ taken' = [taken EXCEPT !.memory[m] = Counted(@, depth)]
        /\ UNCHANGED <<now, snap, disk, lastDiskPrune>>

(* persistMetadata up to the transaction                                   *)
BeginSave ==
    /\ ~snap.active
    /\ metrics' = Without(metrics, Pruned)
    /\ dirtyMetrics' = dirtyMetrics \ Pruned
    /\ lastMetricPrune' = PruneTime
    /\ snap' = [dirty |-> dirtyMetrics', metrics |-> metrics', at |-> now, active |-> TRUE,
                prune |-> lastDiskPrune = 0 \/ now - lastDiskPrune >= 2]
    /\ taken' = [taken EXCEPT !.copy = taken.memory]
    /\ UNCHANGED <<now, disk, lastDiskPrune>>

(* The transaction, deleteOldMetrics in it, and the marks it clears: those *)
(* of buckets that have not changed since.                                 *)
EndSave ==
    /\ snap.active
    /\ LET written == [m \in Minutes |-> IF m \in snap.dirty THEN snap.metrics[m] ELSE disk[m]]
           old == {m \in Minutes : snap.prune /\ m < Minute(snap.at - MaxAge)}
       IN  disk' = Without(written, old)
    /\ dirtyMetrics' = {m \in dirtyMetrics : m \notin snap.dirty \/ metrics[m] # snap.metrics[m]}
    /\ lastDiskPrune' = IF snap.prune THEN snap.at ELSE lastDiskPrune
    /\ taken' = [taken EXCEPT !.disk = taken.copy, !.copy = NoBuckets]
    /\ snap' = NotSaving
    /\ UNCHANGED <<now, metrics, lastMetricPrune>>

SaveFails ==
    /\ snap.active
    /\ snap' = NotSaving
    /\ taken' = [taken EXCEPT !.copy = NoBuckets]
    /\ UNCHANGED <<now, metrics, dirtyMetrics, lastMetricPrune, disk, lastDiskPrune>>

(* loadRuntime takes up the buckets of the window.  What was not saved is  *)
(* lost: "a crash can lose recent statistics".                             *)
Restart ==
    /\ metrics' = Without(disk, Expired)
    /\ dirtyMetrics' = {}
    /\ lastMetricPrune' = now
    /\ lastDiskPrune' = 0
    /\ snap' = NotSaving
    /\ taken' = [taken EXCEPT !.memory = taken.disk, !.copy = NoBuckets]
    /\ UNCHANGED <<now, disk>>

Tick ==
    /\ now < MaxNow
    /\ now' = now + 1
    /\ UNCHANGED <<metrics, dirtyMetrics, lastMetricPrune, snap, disk, lastDiskPrune, taken>>

Next ==
    \/ \E at \in Times, depth \in 0..MaxDepth : RecordMetric(at, depth)
    \/ BeginSave
    \/ EndSave
    \/ SaveFails
    \/ Restart
    \/ Tick

Spec == Init /\ [][Next]_vars

-----------------------------------------------------------------------------
(* The chart                                                               *)

Start(m, unit) == unit * (m \div unit)
InRange(from, to) == {m \in Minutes : from <= 2 * m /\ 2 * m <= to}
Depth(S, buckets) == Max({buckets[m].depth : m \in S})

ListMetrics(unit, from, to) ==
    LET floor == Max({from, to - MaxAge})
        shown == {m \in InRange(floor, to) : metrics[m].requests > 0}
        Of(t) == {m \in shown : Start(m, unit) = t}
        Point(t) == [time |-> t, requests |-> Total(Of(t), metrics), depth |-> Depth(Of(t), metrics)]
        times == {Start(m, unit) : m \in shown}
    IN  [i \in 1..Cardinality(times) |-> Point(Nth(times, i - 1))]

(* The two live points of the present, concurrency and queue, are alike.   *)
appendLivePoint(points, unit, queued) ==
    LET t == Start(Minute(now), unit)
        At(p) == p.time = t
    IN  IF queued = 0 THEN points
        ELSE IF \E i \in DOMAIN points : At(points[i])
          THEN [i \in DOMAIN points |->
                   IF At(points[i]) /\ queued > points[i].depth
                     THEN [points[i] EXCEPT !.depth = queued] ELSE points[i]]
          ELSE Append(points, [time |-> t, requests |-> 0, depth |-> queued])

Chart(unit, from, to, queued) ==
    LET points == ListMetrics(unit, from, to)
    IN  IF to >= now - 2 * unit THEN appendLivePoint(points, unit, queued) ELSE points

(* What a chart of a time must show: every request counted, once, at its   *)
(* minute, and the deepest queue, in order.                                *)
ShowsAll(chart, unit, from, to) ==
    LET During(t) == {m \in InRange(from, to) : Start(m, unit) = t}
    IN  /\ \A i, j \in DOMAIN chart : i < j => chart[i].time < chart[j].time
        /\ \A i \in DOMAIN chart :
              chart[i].requests = Total(During(chart[i].time), taken.memory)
        /\ \A m \in InRange(from, to) : taken.memory[m].requests > 0 =>
              \E i \in DOMAIN chart :
                  chart[i].time = Start(m, unit) /\ chart[i].depth >= taken.memory[m].depth

(* README "Minute metrics retain seven days": a chart of any part of the   *)
(* last seven days shows every request counted, once, at its time and in   *)
(* order, the deepest queue with it; whatever was pruned or saved when, and*)
(* after a restart all that had been saved.                                *)
ChartComplete ==
    \A unit \in Units, from, to \in (now - MaxAge)..now, queued \in {0, MaxDepth} :
        from <= to => ShowsAll(Chart(unit, from, to, queued), unit, from, to)
=============================================================================
