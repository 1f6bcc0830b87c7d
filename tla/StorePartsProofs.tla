-------------------------- MODULE StorePartsProofs --------------------------
(***************************************************************************)
(* Proofs about the parts of StoreParts, for any texts and any number of   *)
(* imports, API keys and minutes.                                          *)
(*                                                                         *)
(* metrics   Memory, disk and the writer's copy drop old minutes at their  *)
(*           own times.  Of the minutes of the window each has all that    *)
(*           was counted when it was made (Whole), and a chart looks at no *)
(*           others.  A chart sums over minutes and lists the sums in      *)
(*           order: the sum is the one CaptureStoreProofs has of sizes,    *)
(*           and the order is that of places, each of which is taken by    *)
(*           one time.                                                     *)
(* import    What an import takes for existing, and what it has passed, is *)
(*           there or was removed since (Passed).  A line that it waits    *)
(*           for is none that it takes for existing (Begun), so it counts  *)
(*           in one of the three ways of Once.                             *)
(*                                                                         *)
(* The captures are those of CaptureStore.                                 *)
(***************************************************************************)
EXTENDS StoreParts, Places, CaptureStoreProofs, SequenceTheorems

-----------------------------------------------------------------------------
(* Sums over minutes                                                       *)

(* The buckets as a queue of sizes.                                        *)
Queue(buckets) == [m \in Chart!Minutes |-> [size |-> buckets[m].requests]]

LEMMA MinutesFinite == IsFiniteSet(Chart!Minutes) /\ Chart!Minutes \subseteq Nat
  <1>1. MaxNow \in Nat
    BY MetricsAssumption
  <1>2. MaxNow \div 2 \in Int
    BY <1>1
  <1>3. IsFiniteSet(0..(MaxNow \div 2))
    BY <1>2, FS_Interval
  <1> QED
    BY <1>2, <1>3 DEF Chart!Minutes, Chart!Minute

LEMMA TotalIsFold ==
    ASSUME NEW b, NEW S
    PROVE  Chart!Total(S, b) = (CHOOSE f :
              f = [s \in SUBSET S |-> IF s = {} THEN 0 ELSE b[Pick(s)].requests + f[s \ {Pick(s)}]])[S]
  BY DEF Chart!Total, Chart!MapThenSumSet, Chart!MapThenFoldSet, Pick

LEMMA TotalIsBytes ==
    ASSUME NEW b \in [Chart!Minutes -> [requests : Nat, depth : Nat]], NEW S \in SUBSET Chart!Minutes
    PROVE  Sized(Queue(b), Chart!Minutes) /\ Chart!Total(S, b) = Bytes(Queue(b), S)
  <1> DEFINE Folds(f) == f = [s \in SUBSET S |-> IF s = {} THEN 0 ELSE b[Pick(s)].requests + f[s \ {Pick(s)}]]
             q == Queue(b)
  <1>0. q = Queue(b)
    OBVIOUS
  <1>1. Sized(q, Chart!Minutes)
    BY DEF Sized, Queue
  <1>2. ASSUME NEW f PROVE Folds(f) <=> IsFold(q, f, S)
    <2>1. ASSUME NEW s \in SUBSET S
          PROVE  (IF s = {} THEN 0 ELSE b[Pick(s)].requests + f[s \ {Pick(s)}]) = FoldStep(q, f, s)
      <3>1. CASE s = {}
        BY <3>1 DEF FoldStep
      <3>2. CASE s # {}
        <4>1. Pick(s) \in Chart!Minutes
          BY <3>2, PickIsThere
        <4>2. q[Pick(s)].size = b[Pick(s)].requests
          BY <4>1 DEF Queue
        <4> QED
          BY <3>2, <4>2 DEF FoldStep
      <3> QED
        BY <3>1, <3>2
    <2>2. [s \in SUBSET S |-> IF s = {} THEN 0 ELSE b[Pick(s)].requests + f[s \ {Pick(s)}]]
             = [s \in SUBSET S |-> FoldStep(q, f, s)]
      BY <2>1
    <2> QED
      BY <2>2 DEF IsFold
  <1> HIDE DEF Folds, q
  <1>3. Folds(CHOOSE f : Folds(f)) /\ IsFold(q, CHOOSE f : IsFold(q, f, S), S)
    <2>1. \E f : IsFold(q, f, S)
      BY <1>1, MinutesFinite, FoldExists
    <2> QED
      BY <1>2, <2>1
  <1>4. (CHOOSE f : Folds(f))[S] = (CHOOSE f : IsFold(q, f, S))[S]
    <2>1. IsFold(q, CHOOSE f : Folds(f), S)
      BY <1>2, <1>3
    <2> DEFINE F == CHOOSE f : Folds(f)
               G == CHOOSE f : IsFold(q, f, S)
    <2>2. IsFold(q, F, S) /\ IsFold(q, G, S) /\ S \in SUBSET (S \cap S)
      BY <1>3, <2>1
    <2> HIDE DEF F, G
    <2>3. F[S] = G[S]
      <3> DEFINE M == Chart!Minutes
      <3>1. IsFiniteSet(M) /\ S \in SUBSET M
        BY MinutesFinite
      <3> HIDE DEF M
      <3> QED
        BY ONLY <2>2, <3>1, FoldUnique
    <2> QED
      BY <2>3 DEF F, G
  <1>5. Chart!Total(S, b) = (CHOOSE f : Folds(f))[S]
    BY TotalIsFold DEF Folds
  <1>6. Bytes(q, S) = (CHOOSE f : IsFold(q, f, S))[S]
    BY BytesIsFold
  <1> QED
    BY <1>0, <1>1, <1>4, <1>5, <1>6

(* What a total is: no bucket has more than all, and buckets without       *)
(* requests do not matter.                                                 *)
Charted == [Chart!Minutes -> [requests : Nat, depth : Nat]]

LEMMA TotalNat ==
    ASSUME NEW b \in Charted, NEW S \in SUBSET Chart!Minutes
    PROVE  Chart!Total(S, b) \in Nat
  <1>1. Sized(Queue(b), Chart!Minutes) /\ Chart!Total(S, b) = Bytes(Queue(b), S)
    BY TotalIsBytes DEF Charted
  <1> QED
    BY <1>1, MinutesFinite, BytesNat

LEMMA TotalHasAll ==
    ASSUME NEW b \in Charted, NEW m \in Chart!Minutes
    PROVE  b[m].requests <= Chart!Total(Chart!Minutes, b)
  <1> DEFINE M == Chart!Minutes
  <1>1. M \in SUBSET M /\ M \ {m} \in SUBSET M
    OBVIOUS
  <1>2. Sized(Queue(b), M) /\ Chart!Total(M, b) = Bytes(Queue(b), M)
    BY TotalIsBytes DEF Charted
  <1>3. Bytes(Queue(b), M) = Queue(b)[m].size + Bytes(Queue(b), M \ {m})
    BY <1>1, <1>2, MinutesFinite, BytesWithout
  <1>4. Bytes(Queue(b), M \ {m}) \in Nat
    BY <1>1, <1>2, MinutesFinite, BytesNat
  <1>5. Queue(b)[m].size = b[m].requests /\ b[m].requests \in Nat
    BY DEF Queue, Charted
  <1> QED
    BY <1>2, <1>3, <1>4, <1>5

LEMMA TotalOfMore ==
    ASSUME NEW b \in Charted, NEW c \in Charted,
           NEW T \in SUBSET Chart!Minutes, NEW S \in SUBSET T,
           \A m \in S : b[m].requests = c[m].requests,
           \A m \in T \ S : c[m].requests = 0
    PROVE  Chart!Total(S, b) = Chart!Total(T, c)
  <1>1. S \in SUBSET Chart!Minutes
    OBVIOUS
  <1>2. /\ Sized(Queue(b), Chart!Minutes) /\ Chart!Total(S, b) = Bytes(Queue(b), S)
        /\ Sized(Queue(c), Chart!Minutes) /\ Chart!Total(T, c) = Bytes(Queue(c), T)
    BY <1>1, TotalIsBytes DEF Charted
  <1>3. \A m \in S : Queue(b)[m].size = Queue(c)[m].size
    BY DEF Queue
  <1>4. \A m \in T \ S : Queue(c)[m].size = 0
    BY DEF Queue
  <1> DEFINE M == Chart!Minutes
             p == Queue(b)
             q == Queue(c)
  <1>5. /\ IsFiniteSet(M) /\ Sized(p, M) /\ Sized(q, M)
        /\ S \in SUBSET M /\ T \in SUBSET M /\ S \in SUBSET T
        /\ \A k \in S : p[k].size = q[k].size
        /\ \A k \in T \ S : q[k].size = 0
    BY <1>1, <1>2, <1>3, <1>4, MinutesFinite
  <1> HIDE DEF M, p, q
  <1>6. Bytes(p, S) = Bytes(q, S)
    BY ONLY <1>5, BytesSame
  <1>7. Bytes(q, T) = Bytes(q, S)
    BY ONLY <1>5, BytesOfQueued
  <1> QED
    BY <1>2, <1>6, <1>7 DEF p, q

-----------------------------------------------------------------------------
(* Places                                                                  *)
Rank(S, n) == Cardinality({k \in S : k < n})

(* Each place in a finite set of numbers is taken by one of them.          *)
LEMMA Ranks ==
    ASSUME NEW S \in SUBSET Nat, IsFiniteSet(S)
    PROVE  /\ Cardinality(S) \in Nat
           /\ \A n \in S : Rank(S, n) \in 0..(Cardinality(S) - 1)
           /\ \A m, n \in S : m < n => Rank(S, m) < Rank(S, n)
           /\ \A i \in 0..(Cardinality(S) - 1) : \E n \in S : Rank(S, n) = i
  <1> DEFINE Less(n) == {k \in S : k < n}
             size == Cardinality(S)
             f == [n \in S |-> Rank(S, n)]
  <1>1. size \in Nat
    BY FS_CardinalityType
  <1>2. \A n \in S : /\ IsFiniteSet(Less(n)) /\ Cardinality(Less(n)) \in 0..(size - 1)
                     /\ Rank(S, n) = Cardinality(Less(n))
    <2> SUFFICES ASSUME NEW n \in S
                 PROVE  IsFiniteSet(Less(n)) /\ Cardinality(Less(n)) \in 0..(size - 1)
      BY DEF Rank
    <2>1. Less(n) \subseteq S \ {n}
      OBVIOUS
    <2>2. IsFiniteSet(S \ {n}) /\ Cardinality(S \ {n}) = size - 1
      BY FS_RemoveElement
    <2>3. IsFiniteSet(Less(n)) /\ Cardinality(Less(n)) <= size - 1
      BY <2>1, <2>2, FS_Subset
    <2>4. Cardinality(Less(n)) \in Nat
      BY <2>3, FS_CardinalityType
    <2> QED
      BY <2>3, <2>4, <1>1
  <1>3. ASSUME NEW m \in S, NEW n \in S, m < n PROVE Rank(S, m) < Rank(S, n)
    <2>1. Less(m) \cup {m} \subseteq Less(n) /\ m \notin Less(m)
      <3>1. \A k \in S : k < m => k < n
        BY <1>3
      <3>2. ~(m < m)
        OBVIOUS
      <3> QED
        BY <3>1, <3>2, <1>3
    <2>2. Cardinality(Less(m) \cup {m}) = Cardinality(Less(m)) + 1
      BY <2>1, <1>2, FS_AddElement
    <2>3. Cardinality(Less(m) \cup {m}) <= Cardinality(Less(n))
      BY <2>1, <1>2, FS_Subset
    <2>4. Cardinality(Less(m)) \in Int /\ Cardinality(Less(n)) \in Int
      BY <1>2
    <2>5. Rank(S, m) = Cardinality(Less(m)) /\ Rank(S, n) = Cardinality(Less(n))
      BY DEF Rank
    <2> HIDE DEF Less
    <2> QED
      BY <2>2, <2>3, <2>4, <2>5
  <1>4. f \in Injection(S, 0..(size - 1))
    <2>1. f \in [S -> 0..(size - 1)]
      BY <1>2
    <2>2. \A m, n \in S : m # n => f[m] # f[n]
      <3> SUFFICES ASSUME NEW m \in S, NEW n \in S, m # n PROVE f[m] # f[n]
        OBVIOUS
      <3>1. m < n \/ n < m
        OBVIOUS
      <3>2. f[m] = Rank(S, m) /\ f[n] = Rank(S, n) /\ f[m] \in Int /\ f[n] \in Int
        BY <2>1
      <3> QED
        BY <3>1, <3>2, <1>3
    <2> QED
      BY <2>1, <2>2 DEF Injection, IsInjective
  <1>5. f \in Surjection(S, 0..(size - 1))
    <2>1. IsFiniteSet(0..(size - 1)) /\ Cardinality(0..(size - 1)) = size
      <3> DEFINE last == size - 1
      <3>1. 0 \in Int /\ last \in Int /\ last - 0 + 1 = size /\ (0 > last => size = 0)
        BY <1>1
      <3> HIDE DEF last, size
      <3>2. IsFiniteSet(0..last) /\ Cardinality(0..last) = size
        BY <3>1, FS_Interval
      <3> QED
        BY <3>2 DEF last
    <2> HIDE DEF f
    <2> QED
      BY <1>4, <2>1, FS_Injection
  <1>6. ASSUME NEW i \in 0..(size - 1) PROVE \E n \in S : Rank(S, n) = i
    <2>1. \E n \in S : f[n] = i
      BY <1>5 DEF Surjection
    <2> QED
      BY <2>1
  <1>7. \A n \in S : Rank(S, n) \in 0..(size - 1)
    BY <1>2
  <1> QED
    BY <1>1, <1>3, <1>6, <1>7

(* So Nth lists such a set in order of size.                               *)
LEMMA PlacesInOrder ==
    ASSUME NEW S \in SUBSET Nat, IsFiniteSet(S)
    PROVE  /\ \A i \in 1..Cardinality(S) : Nth(S, i - 1) \in S
           /\ \A i, j \in 1..Cardinality(S) : i < j => Nth(S, i - 1) < Nth(S, j - 1)
           /\ \A n \in S : \E i \in 1..Cardinality(S) : Nth(S, i - 1) = n
  <1>1. Cardinality(S) \in Nat
    BY Ranks
  <1>2. \A i \in 1..Cardinality(S) : i - 1 \in 0..(Cardinality(S) - 1)
    BY <1>1
  <1>3. \A i \in 0..(Cardinality(S) - 1) : Nth(S, i) \in S /\ Rank(S, Nth(S, i)) = i
    <2> SUFFICES ASSUME NEW i \in 0..(Cardinality(S) - 1)
                 PROVE  Nth(S, i) \in S /\ Rank(S, Nth(S, i)) = i
      OBVIOUS
    <2>1. \E n \in S : Rank(S, n) = i
      BY Ranks
    <2> QED
      BY <2>1 DEF Nth, Rank
  <1>4. \A m, n \in S : Rank(S, m) = Rank(S, n) => m = n
    <2> SUFFICES ASSUME NEW m \in S, NEW n \in S, m # n
                 PROVE  Rank(S, m) # Rank(S, n)
      OBVIOUS
    <2>1. m < n \/ n < m
      OBVIOUS
    <2>2. Rank(S, m) \in Int /\ Rank(S, n) \in Int
      BY <1>1, Ranks
    <2> QED
      BY <2>1, <2>2, Ranks
  <1>5. ASSUME NEW i \in 1..Cardinality(S), NEW j \in 1..Cardinality(S), i < j
        PROVE  Nth(S, i - 1) < Nth(S, j - 1)
    <2>1. /\ Nth(S, i - 1) \in S /\ Rank(S, Nth(S, i - 1)) = i - 1
          /\ Nth(S, j - 1) \in S /\ Rank(S, Nth(S, j - 1)) = j - 1
      BY <1>2, <1>3
    <2> DEFINE x == Nth(S, i - 1)
               y == Nth(S, j - 1)
    <2>2. x \in S /\ y \in S /\ Rank(S, x) < Rank(S, y)
      BY <1>1, <1>5, <2>1
    <2> HIDE DEF x, y
    <2>3. x # y /\ ~(y < x)
      <3>1. Rank(S, x) \in Int /\ Rank(S, y) \in Int
        BY <1>1, <2>2, Ranks
      <3> QED
        BY <2>2, <3>1, Ranks
    <2>4. x < y
      BY <2>2, <2>3
    <2> QED
      BY <2>4 DEF x, y
  <1>6. ASSUME NEW n \in S PROVE \E i \in 1..Cardinality(S) : Nth(S, i - 1) = n
    <2>1. Rank(S, n) \in 0..(Cardinality(S) - 1)
      BY Ranks
    <2>2. Rank(S, n) + 1 \in 1..Cardinality(S) /\ (Rank(S, n) + 1) - 1 = Rank(S, n)
      BY <1>1, <2>1
    <2>3. Nth(S, Rank(S, n)) = n
      BY <1>3, <1>4, <2>1
    <2> QED
      BY <2>2, <2>3
  <1> QED
    BY <1>2, <1>3, <1>5, <1>6

-----------------------------------------------------------------------------
(* Metrics.  Of the minutes of the window, memory and disk have all that   *)
(* was counted; what the disk lacks is marked; and what the writer copied  *)
(* is what its marks and the disk say together.                            *)
Whole(m) ==
    /\ metrics[m] = taken.memory[m]
    /\ disk[m] = taken.disk[m]
    /\ m \notin dirtyMetrics => disk[m] = metrics[m]
    /\ copy.active /\ m \in copy.dirty => copy.metrics[m] = taken.copy[m] /\ m \in dirtyMetrics
    /\ copy.active /\ m \notin copy.dirty => disk[m] = taken.copy[m]

MetricsInv ==
    /\ Chart!TypeOK
    /\ now >= MaxAge
    /\ copy.at <= now
    /\ \A m \in Chart!Minutes : m \notin Chart!Expired => Whole(m)

LEMMA MetricsConstants ==
    /\ MaxAge \in Nat /\ MaxDepth \in Nat /\ MaxSamples \in Nat /\ MaxNow \in Nat
    /\ MaxAge <= MaxNow
    /\ Chart!Empty \in [requests : 0..MaxSamples, depth : 0..MaxDepth]
    /\ Chart!Empty = [requests |-> 0, depth |-> 0]
    /\ Chart!NoBuckets \in Chart!Buckets
    /\ \A m \in Chart!Minutes : Chart!NoBuckets[m] = Chart!Empty
    /\ Chart!Buckets \subseteq Charted
  <1>1. /\ MaxAge \in Nat /\ MaxDepth \in Nat /\ MaxSamples \in Nat /\ MaxNow \in Nat
        /\ MaxAge <= MaxNow
    BY MetricsAssumption
  <1> QED
    BY <1>1 DEF Chart!Empty, Chart!NoBuckets, Chart!Buckets, Charted

LEMMA DepthsFinite == IsFiniteSet(0..MaxDepth) /\ 0..MaxDepth \subseteq Nat
  <1>1. MaxDepth \in Int
    BY MetricsConstants
  <1>2. IsFiniteSet(0..MaxDepth)
    BY <1>1, FS_Interval
  <1> QED
    BY <1>2

LEMMA Dropping ==
    ASSUME NEW b \in Chart!Buckets, NEW S
    PROVE  /\ Chart!Without(b, S) \in Chart!Buckets
           /\ \A m \in Chart!Minutes : Chart!Without(b, S)[m] = IF m \in S THEN Chart!Empty ELSE b[m]
  BY MetricsConstants DEF Chart!Without, Chart!Buckets

LEMMA MinuteOrder ==
    ASSUME NEW s \in Int, NEW t \in Int, s <= t
    PROVE  Chart!Minute(s) <= Chart!Minute(t) /\ Chart!Minute(s) \in Int /\ Chart!Minute(t) \in Int
  BY DEF Chart!Minute

LEMMA MinuteOfTime ==
    ASSUME NEW t \in Chart!Times
    PROVE  Chart!Minute(t) \in Chart!Minutes /\ t \in Nat
  <1>1. t \in Nat /\ t <= MaxNow /\ MaxNow \in Nat
    BY MetricsConstants DEF Chart!Times
  <1>2. t \div 2 \in Nat /\ t \div 2 <= MaxNow \div 2 /\ MaxNow \div 2 \in Nat
    BY <1>1
  <1> QED
    BY <1>1, <1>2 DEF Chart!Minute, Chart!Minutes

LEMMA InitMetrics == Chart!Init => MetricsInv
  <1> SUFFICES ASSUME Chart!Init PROVE MetricsInv
    OBVIOUS
  <1> USE MetricsConstants
  <1>1. Chart!TypeOK
    BY DEF Chart!Init, Chart!TypeOK, Chart!Times, Chart!NotSaving
  <1>2. now >= MaxAge /\ copy.at <= now /\ ~copy.active
    BY DEF Chart!Init, Chart!NotSaving
  <1>3. \A m \in Chart!Minutes : Whole(m)
    BY <1>2 DEF Chart!Init, Whole
  <1> QED
    BY <1>1, <1>2, <1>3 DEF MetricsInv

LEMMA RecordKeeps ==
    ASSUME MetricsInv, NEW at \in Chart!Times, NEW depth \in 0..MaxDepth,
           Chart!RecordMetric(at, depth)
    PROVE  MetricsInv'
  <1> DEFINE m == Chart!Minute(at)
             kept == Chart!Without(metrics, Chart!Pruned)
             Count(b) == Chart!Counted(b, depth)
  <1>0. Chart!TypeOK /\ now \in Nat /\ now >= MaxAge /\ now <= MaxNow
    BY MetricsConstants DEF MetricsInv, Chart!TypeOK, Chart!Times
  <1>1. m \in Chart!Minutes /\ m \notin Chart!Expired /\ Chart!Pruned \subseteq Chart!Expired
    <2>1. at \in Int /\ now - MaxAge \in Int /\ now - MaxAge <= at
      BY <1>0, MetricsConstants DEF Chart!RecordMetric
    <2>2. Chart!Minute(now - MaxAge) <= m /\ Chart!Minute(now - MaxAge) \in Int /\ m \in Int
      BY <2>1, MinuteOrder
    <2>3. m \in Chart!Minutes
      BY MinuteOfTime
    <2> HIDE DEF m
    <2> QED
      BY <2>2, <2>3 DEF Chart!Expired, Chart!Pruned
  <1>2. kept \in Chart!Buckets /\ \A k \in Chart!Minutes : k \notin Chart!Expired => kept[k] = metrics[k]
    BY <1>0, <1>1, Dropping DEF Chart!TypeOK
  <1>3. taken.memory \in Chart!Buckets /\ metrics[m] = taken.memory[m]
    BY <1>0, <1>1 DEF Chart!TypeOK, MetricsInv, Whole
  <1>4. Count(taken.memory[m]) \in [requests : 0..MaxSamples, depth : 0..MaxDepth]
    <2>1. taken.memory[m].requests <= Chart!Total(Chart!Minutes, taken.memory)
      BY <1>1, <1>3, MetricsConstants, TotalHasAll
    <2>2. Chart!Total(Chart!Minutes, taken.memory) < MaxSamples
      BY DEF Chart!RecordMetric
    <2>3. Chart!Total(Chart!Minutes, taken.memory) \in Nat
      BY <1>3, MetricsConstants, TotalNat
    <2>4. taken.memory[m] \in [requests : 0..MaxSamples, depth : 0..MaxDepth]
      BY <1>1, <1>3 DEF Chart!Buckets
    <2>5. taken.memory[m].requests + 1 \in 0..MaxSamples
      BY <2>1, <2>2, <2>3, <2>4, MetricsConstants
    <2> QED
      BY <2>4, <2>5 DEF Chart!Counted
  <1> HIDE DEF m, kept, Count
  <1>5. /\ metrics' = [kept EXCEPT ![m] = Count(kept[m])]
        /\ dirtyMetrics' = (dirtyMetrics \ Chart!Pruned) \cup {m}
        /\ taken' = [taken EXCEPT !.memory = [taken.memory EXCEPT ![m] = Count(taken.memory[m])]]
        /\ lastMetricPrune' \in Chart!Times
        /\ UNCHANGED <<now, copy, disk, lastDiskPrune>>
    BY <1>0 DEF Chart!RecordMetric, Chart!PruneTime, Chart!TypeOK, m, kept, Count
  <1>6. kept[m] = taken.memory[m]
    BY <1>1, <1>2, <1>3
  <1>7. Chart!TypeOK'
    <2>1. metrics' \in Chart!Buckets
      BY <1>1, <1>2, <1>4, <1>5, <1>6 DEF Chart!Buckets
    <2>2. taken'.memory \in Chart!Buckets /\ taken'.copy = taken.copy /\ taken'.disk = taken.disk
          /\ taken' \in [memory : Chart!Buckets, copy : Chart!Buckets, disk : Chart!Buckets]
      <3>1. [taken.memory EXCEPT ![m] = Count(taken.memory[m])] \in Chart!Buckets
        BY <1>3, <1>4 DEF Chart!Buckets
      <3> QED
        BY <1>0, <1>5, <3>1 DEF Chart!TypeOK
    <2>3. dirtyMetrics' \subseteq Chart!Minutes
      BY <1>0, <1>1, <1>5 DEF Chart!TypeOK
    <2> QED
      BY <1>0, <1>5, <2>1, <2>2, <2>3 DEF Chart!TypeOK
  <1>8. Chart!Expired' = Chart!Expired /\ Chart!Minutes' = Chart!Minutes
    BY <1>5 DEF Chart!Expired, Chart!Minutes, Chart!Minute
  <1>9. ASSUME NEW k \in Chart!Minutes, k \notin Chart!Expired PROVE Whole(k)'
    <2>1. Whole(k)
      BY <1>9 DEF MetricsInv
    <2>2. taken'.copy = taken.copy /\ taken'.disk = taken.disk
          /\ taken'.memory = [taken.memory EXCEPT ![m] = Count(taken.memory[m])]
      BY <1>0, <1>5 DEF Chart!TypeOK
    <2>3. metrics'[k] = IF k = m THEN Count(kept[m]) ELSE kept[k]
      BY <1>2, <1>5, <1>9 DEF Chart!Buckets
    <2>4. taken'.memory[k] = IF k = m THEN Count(taken.memory[m]) ELSE taken.memory[k]
      BY <1>3, <2>2, <1>9 DEF Chart!Buckets
    <2>5. metrics'[k] = taken'.memory[k] /\ (k # m => metrics'[k] = metrics[k])
      BY <1>2, <1>6, <1>9, <2>1, <2>3, <2>4 DEF Whole
    <2>6. k \in dirtyMetrics' <=> k \in dirtyMetrics \/ k = m
      BY <1>1, <1>5, <1>9
    <2> QED
      BY <1>5, <2>1, <2>2, <2>5, <2>6 DEF Whole
  <1>10. now' >= MaxAge /\ copy'.at <= now'
    BY <1>5 DEF MetricsInv
  <1> QED
    BY <1>7, <1>8, <1>9, <1>10 DEF MetricsInv

LEMMA BeginSaveKeeps ==
    ASSUME MetricsInv, Chart!BeginSave
    PROVE  MetricsInv'
  <1>0. Chart!TypeOK /\ now \in Nat /\ now >= MaxAge /\ now <= MaxNow
    BY MetricsConstants DEF MetricsInv, Chart!TypeOK, Chart!Times
  <1>1. Chart!Pruned \subseteq Chart!Expired
    BY DEF Chart!Pruned
  <1>2. metrics' \in Chart!Buckets /\ \A k \in Chart!Minutes : k \notin Chart!Expired => metrics'[k] = metrics[k]
    BY <1>0, <1>1, Dropping DEF Chart!TypeOK, Chart!BeginSave
  <1>3. /\ dirtyMetrics' = dirtyMetrics \ Chart!Pruned
        /\ lastMetricPrune' \in Chart!Times
        /\ copy' = [dirty |-> dirtyMetrics', metrics |-> metrics', at |-> now, active |-> TRUE,
                    prune |-> lastDiskPrune = 0 \/ now - lastDiskPrune >= 2]
        /\ taken' = [taken EXCEPT !.copy = taken.memory]
        /\ UNCHANGED <<now, disk, lastDiskPrune>>
    BY <1>0 DEF Chart!BeginSave, Chart!PruneTime, Chart!TypeOK
  <1>4. /\ taken'.memory = taken.memory /\ taken'.copy = taken.memory /\ taken'.disk = taken.disk
        /\ taken' \in [memory : Chart!Buckets, copy : Chart!Buckets, disk : Chart!Buckets]
    BY <1>0, <1>3 DEF Chart!TypeOK
  <1>5. copy'.dirty = dirtyMetrics' /\ copy'.metrics = metrics' /\ copy'.at = now' /\ copy'.active
    BY <1>3
  <1>6. Chart!TypeOK'
    <2>1. dirtyMetrics' \subseteq Chart!Minutes
      BY <1>0, <1>3 DEF Chart!TypeOK
    <2>2. copy' \in [dirty : SUBSET Chart!Minutes, metrics : Chart!Buckets, prune : BOOLEAN,
                     at : Chart!Times, active : BOOLEAN]
      BY <1>0, <1>2, <1>3, <2>1 DEF Chart!TypeOK
    <2> QED
      BY <1>0, <1>2, <1>3, <1>4, <2>1, <2>2 DEF Chart!TypeOK
  <1>7. Chart!Expired' = Chart!Expired
    BY <1>3 DEF Chart!Expired
  <1>8. ASSUME NEW k \in Chart!Minutes, k \notin Chart!Expired PROVE Whole(k)'
    <2>1. Whole(k) /\ metrics'[k] = metrics[k]
      BY <1>2, <1>8 DEF MetricsInv
    <2>2. k \in dirtyMetrics' <=> k \in dirtyMetrics
      BY <1>1, <1>3, <1>8
    <2> QED
      BY <1>3, <1>4, <1>5, <2>1, <2>2 DEF Whole
  <1>9. now' >= MaxAge /\ copy'.at <= now'
    BY <1>0, <1>3, <1>5
  <1> QED
    BY <1>6, <1>7, <1>8, <1>9 DEF MetricsInv

LEMMA EndSaveKeeps ==
    ASSUME MetricsInv, Chart!EndSave
    PROVE  MetricsInv'
  <1> DEFINE written == [m \in Chart!Minutes |-> IF m \in copy.dirty THEN copy.metrics[m] ELSE disk[m]]
             old == {m \in Chart!Minutes : copy.prune /\ m < Chart!Minute(copy.at - MaxAge)}
  <1>0. /\ Chart!TypeOK /\ now \in Nat /\ now >= MaxAge /\ now <= MaxNow
        /\ copy.at \in Nat /\ copy.at <= now
    BY MetricsConstants DEF MetricsInv, Chart!TypeOK, Chart!Times
  <1>1. old \subseteq Chart!Expired
    <2>1. copy.at - MaxAge \in Int /\ now - MaxAge \in Int /\ copy.at - MaxAge <= now - MaxAge
      BY <1>0, MetricsConstants
    <2>2. /\ Chart!Minute(copy.at - MaxAge) <= Chart!Minute(now - MaxAge)
          /\ Chart!Minute(copy.at - MaxAge) \in Int /\ Chart!Minute(now - MaxAge) \in Int
      BY <2>1, MinuteOrder
    <2>3. \A k \in Chart!Minutes : k < Chart!Minute(copy.at - MaxAge) => k < Chart!Minute(now - MaxAge)
      BY <2>2, MinutesFinite
    <2> QED
      BY <2>3 DEF Chart!Expired
  <1>2. written \in Chart!Buckets
    BY <1>0 DEF Chart!TypeOK, Chart!Buckets
  <1> HIDE DEF old
  <1>3. /\ disk' = Chart!Without(written, old)
        /\ dirtyMetrics' = {m \in dirtyMetrics : m \notin copy.dirty \/ metrics[m] # copy.metrics[m]}
        /\ lastDiskPrune' \in Chart!Times
        /\ taken' = [taken EXCEPT !.disk = taken.copy, !.copy = Chart!NoBuckets]
        /\ copy' = Chart!NotSaving
        /\ copy.active
        /\ UNCHANGED <<now, metrics, lastMetricPrune>>
    BY <1>0 DEF Chart!EndSave, Chart!TypeOK, old
  <1>4. disk' \in Chart!Buckets /\ \A k \in Chart!Minutes : k \notin Chart!Expired => disk'[k] = written[k]
    BY <1>1, <1>2, <1>3, Dropping
  <1>5. /\ taken'.memory = taken.memory /\ taken'.disk = taken.copy
        /\ taken' \in [memory : Chart!Buckets, copy : Chart!Buckets, disk : Chart!Buckets]
    BY <1>0, <1>3, MetricsConstants DEF Chart!TypeOK
  <1>6. /\ ~copy'.active /\ copy'.at = 0
        /\ copy' \in [dirty : SUBSET Chart!Minutes, metrics : Chart!Buckets, prune : BOOLEAN,
                      at : Chart!Times, active : BOOLEAN]
    BY <1>3, MetricsConstants DEF Chart!NotSaving, Chart!Times
  <1>7. Chart!TypeOK'
    <2>1. dirtyMetrics' \subseteq Chart!Minutes
      BY <1>0, <1>3 DEF Chart!TypeOK
    <2> QED
      BY <1>0, <1>3, <1>4, <1>5, <1>6, <2>1 DEF Chart!TypeOK
  <1>8. Chart!Expired' = Chart!Expired
    BY <1>3 DEF Chart!Expired
  <1>9. ASSUME NEW k \in Chart!Minutes, k \notin Chart!Expired PROVE Whole(k)'
    <2>0. Whole(k)
      BY <1>9 DEF MetricsInv
    <2>1. disk'[k] = IF k \in copy.dirty THEN copy.metrics[k] ELSE disk[k]
      <3>1. disk'[k] = written[k]
        BY <1>4, <1>9
      <3>2. written[k] = IF k \in copy.dirty THEN copy.metrics[k] ELSE disk[k]
        BY <1>9
      <3> HIDE DEF written
      <3> QED
        BY <3>1, <3>2
    <2>2. disk'[k] = taken'.disk[k]
      BY <1>3, <1>5, <2>0, <2>1 DEF Whole
    <2>3. k \notin dirtyMetrics' => disk'[k] = metrics'[k]
      BY <1>3, <2>0, <2>1 DEF Whole
    <2> QED
      BY <1>3, <1>5, <1>6, <2>0, <2>2, <2>3 DEF Whole
  <1>10. now' >= MaxAge /\ copy'.at <= now'
    BY <1>0, <1>3, <1>6
  <1> QED
    BY <1>7, <1>8, <1>9, <1>10 DEF MetricsInv

LEMMA SaveFailsKeeps ==
    ASSUME MetricsInv, Chart!SaveFails
    PROVE  MetricsInv'
  <1>0. Chart!TypeOK /\ now \in Nat /\ now >= MaxAge
    BY MetricsConstants DEF MetricsInv, Chart!TypeOK, Chart!Times
  <1>1. /\ copy' = Chart!NotSaving
        /\ taken' = [taken EXCEPT !.copy = Chart!NoBuckets]
        /\ UNCHANGED <<now, metrics, dirtyMetrics, lastMetricPrune, disk, lastDiskPrune>>
    BY DEF Chart!SaveFails
  <1>2. /\ taken'.memory = taken.memory /\ taken'.disk = taken.disk
        /\ taken' \in [memory : Chart!Buckets, copy : Chart!Buckets, disk : Chart!Buckets]
    BY <1>0, <1>1, MetricsConstants DEF Chart!TypeOK
  <1>3. /\ ~copy'.active /\ copy'.at = 0
        /\ copy' \in [dirty : SUBSET Chart!Minutes, metrics : Chart!Buckets, prune : BOOLEAN,
                      at : Chart!Times, active : BOOLEAN]
    BY <1>1, MetricsConstants DEF Chart!NotSaving, Chart!Times
  <1>4. Chart!TypeOK'
    BY <1>0, <1>1, <1>2, <1>3 DEF Chart!TypeOK
  <1>5. Chart!Expired' = Chart!Expired
    BY <1>1 DEF Chart!Expired
  <1>6. \A k \in Chart!Minutes : k \notin Chart!Expired => Whole(k)'
    BY <1>1, <1>2, <1>3 DEF MetricsInv, Whole
  <1>7. now' >= MaxAge /\ copy'.at <= now'
    BY <1>0, <1>1, <1>3
  <1> QED
    BY <1>4, <1>5, <1>6, <1>7 DEF MetricsInv

LEMMA RestartKeepsMetrics ==
    ASSUME MetricsInv, Chart!Restart
    PROVE  MetricsInv'
  <1>0. Chart!TypeOK /\ now \in Nat /\ now >= MaxAge
    BY MetricsConstants DEF MetricsInv, Chart!TypeOK, Chart!Times
  <1>1. /\ metrics' = Chart!Without(disk, Chart!Expired)
        /\ dirtyMetrics' = {} /\ lastMetricPrune' = now /\ lastDiskPrune' = 0
        /\ copy' = Chart!NotSaving
        /\ taken' = [taken EXCEPT !.memory = taken.disk, !.copy = Chart!NoBuckets]
        /\ UNCHANGED <<now, disk>>
    BY DEF Chart!Restart
  <1>2. /\ taken'.memory = taken.disk /\ taken'.disk = taken.disk
        /\ taken' \in [memory : Chart!Buckets, copy : Chart!Buckets, disk : Chart!Buckets]
    BY <1>0, <1>1, MetricsConstants DEF Chart!TypeOK
  <1>3. /\ ~copy'.active /\ copy'.at = 0
        /\ copy' \in [dirty : SUBSET Chart!Minutes, metrics : Chart!Buckets, prune : BOOLEAN,
                      at : Chart!Times, active : BOOLEAN]
    BY <1>1, MetricsConstants DEF Chart!NotSaving, Chart!Times
  <1>4. metrics' \in Chart!Buckets /\ \A k \in Chart!Minutes : k \notin Chart!Expired => metrics'[k] = disk[k]
    BY <1>0, <1>1, Dropping DEF Chart!TypeOK
  <1>5. Chart!TypeOK'
    <2>1. 0 \in Chart!Times
      BY MetricsConstants DEF Chart!Times
    <2> QED
      BY <1>0, <1>1, <1>2, <1>3, <1>4, <2>1 DEF Chart!TypeOK
  <1>6. Chart!Expired' = Chart!Expired
    BY <1>1 DEF Chart!Expired
  <1>7. \A k \in Chart!Minutes : k \notin Chart!Expired => Whole(k)'
    BY <1>1, <1>2, <1>3, <1>4 DEF MetricsInv, Whole
  <1>8. now' >= MaxAge /\ copy'.at <= now'
    BY <1>0, <1>1, <1>3
  <1> QED
    BY <1>5, <1>6, <1>7, <1>8 DEF MetricsInv

LEMMA TickKeeps ==
    ASSUME MetricsInv, Chart!Tick
    PROVE  MetricsInv'
  <1>0. Chart!TypeOK /\ now \in Nat /\ now >= MaxAge /\ copy.at \in Nat /\ copy.at <= now
    BY MetricsConstants DEF MetricsInv, Chart!TypeOK, Chart!Times
  <1>1. /\ now < MaxNow /\ now' = now + 1
        /\ UNCHANGED <<metrics, dirtyMetrics, lastMetricPrune, copy, disk, lastDiskPrune, taken>>
    BY DEF Chart!Tick
  <1>2. now' \in Chart!Times
    BY <1>0, <1>1, MetricsConstants DEF Chart!Times
  <1>3. Chart!TypeOK'
    BY <1>0, <1>1, <1>2 DEF Chart!TypeOK
  <1>4. Chart!Expired \subseteq Chart!Expired'
    <2>1. now - MaxAge \in Int /\ now' - MaxAge \in Int /\ now - MaxAge <= now' - MaxAge
      BY <1>0, <1>1, MetricsConstants
    <2>2. /\ Chart!Minute(now - MaxAge) <= Chart!Minute(now' - MaxAge)
          /\ Chart!Minute(now - MaxAge) \in Int /\ Chart!Minute(now' - MaxAge) \in Int
      BY <2>1, MinuteOrder
    <2>3. \A k \in Chart!Minutes : k < Chart!Minute(now - MaxAge) => k < Chart!Minute(now' - MaxAge)
      BY <2>2, MinutesFinite
    <2> QED
      BY <2>3 DEF Chart!Expired
  <1>5. \A k \in Chart!Minutes : k \notin Chart!Expired' => Whole(k)'
    BY <1>1, <1>4 DEF MetricsInv, Whole
  <1>6. now' >= MaxAge /\ copy'.at <= now'
    BY <1>0, <1>1, MetricsConstants
  <1> QED
    BY <1>3, <1>5, <1>6 DEF MetricsInv

LEMMA NextMetrics ==
    ASSUME MetricsInv, [Chart!Next]_metricsVars
    PROVE  MetricsInv'
  <1>1. CASE Chart!Next
    BY <1>1, RecordKeeps, BeginSaveKeeps, EndSaveKeeps, SaveFailsKeeps, RestartKeepsMetrics, TickKeeps
    DEF Chart!Next
  <1>2. CASE UNCHANGED metricsVars
    BY <1>2 DEF metricsVars, MetricsInv, Whole, Chart!TypeOK, Chart!Expired
  <1> QED
    BY <1>1, <1>2

-----------------------------------------------------------------------------
(* The chart                                                               *)
LEMMA ChartPlaces ==
    /\ \A S : Chart!Cardinality(S) = Cardinality(S)
    /\ \A S, i : Chart!Nth(S, i) = Nth(S, i)
  <1>1. \A S : Chart!IsFiniteSet(S) = IsFiniteSet(S)
    BY DEF Chart!IsFiniteSet, IsFiniteSet
  <1>2. \A S : Chart!Cardinality(S) = Cardinality(S)
    BY <1>1 DEF Chart!Cardinality, Cardinality
  <1> QED
    BY <1>2 DEF Chart!Nth, Nth

LEMMA GreatestIs ==
    ASSUME NEW S \in SUBSET Nat, IsFiniteSet(S), NEW n \in S
    PROVE  Chart!Max(S) \in S /\ Chart!Max(S) >= n
  <1> DEFINE size == Cardinality(S)
             top == Nth(S, size - 1)
  <1>1. size \in Nat /\ \A k \in S : Rank(S, k) \in 0..(size - 1)
    BY Ranks
  <1>2. size \in 1..size
    BY <1>1
  <1>3. top \in S
    BY <1>2, PlacesInOrder
  <1>4. ASSUME NEW k \in S PROVE top >= k
    <2>1. PICK i \in 1..size : Nth(S, i - 1) = k
      BY PlacesInOrder
    <2>2. CASE i = size
      BY <1>3, <2>1, <2>2
    <2>3. CASE i < size
      <3>1. k < top
        BY <1>2, <2>1, <2>3, PlacesInOrder
      <3> HIDE DEF top
      <3> QED
        BY <1>3, <3>1
    <2>4. i = size \/ i < size
      BY <1>1
    <2> QED
      BY <2>2, <2>3, <2>4
  <1> HIDE DEF top
  <1> QED
    BY <1>3, <1>4 DEF Chart!Max

LEMMA Starts ==
    ASSUME NEW unit \in Chart!Units, NEW m \in Nat, NEW n \in Nat, m <= n
    PROVE  /\ Chart!Start(m, unit) \in Nat /\ Chart!Start(n, unit) \in Nat
           /\ Chart!Start(m, unit) <= m
           /\ Chart!Start(m, unit) <= Chart!Start(n, unit)
  <1>1. CASE unit = 1
    <2>1. m \div 1 = m /\ n \div 1 = n
      OBVIOUS
    <2> QED
      BY <1>1, <2>1 DEF Chart!Start
  <1>2. CASE unit = 2
    <2>1. m \div 2 \in Nat /\ n \div 2 \in Nat /\ 2 * (m \div 2) <= m /\ m \div 2 <= n \div 2
      OBVIOUS
    <2> QED
      BY <1>2, <2>1 DEF Chart!Start
  <1> QED
    BY <1>1, <1>2 DEF Chart!Units

(* What ChartComplete says of a list of points, and what it is made of.    *)
During(unit, from, to, t) == {m \in Chart!InRange(from, to) : Chart!Start(m, unit) = t}
Points(chart, unit, from, to) ==
    /\ chart \in Seq([time : Nat, requests : Nat, depth : Nat])
    /\ \A i, j \in DOMAIN chart : i < j => chart[i].time < chart[j].time
    /\ \A i \in DOMAIN chart :
          chart[i].requests = Chart!Total(During(unit, from, to, chart[i].time), taken.memory)
    /\ \A m \in Chart!InRange(from, to) : taken.memory[m].requests > 0 =>
          \E i \in DOMAIN chart :
              chart[i].time = Chart!Start(m, unit) /\ chart[i].depth >= taken.memory[m].depth

(* What the query reads is what was counted.                               *)
LEMMA WindowIsWhole ==
    ASSUME MetricsInv, NEW from \in (now - MaxAge)..now, NEW to \in (now - MaxAge)..now
    PROVE  /\ now \in Nat /\ from \in Int /\ to \in Int /\ to <= now /\ to - MaxAge <= from
           /\ \A m \in Chart!InRange(from, to) :
                  m \in Chart!Minutes /\ m \in Nat /\ metrics[m] = taken.memory[m]
  <1>1. now \in Nat /\ MaxAge \in Nat
    BY MetricsConstants DEF MetricsInv, Chart!TypeOK, Chart!Times
  <1>2. from \in Int /\ to \in Int /\ to <= now /\ now - MaxAge <= from /\ to - MaxAge <= from
    BY <1>1
  <1>3. ASSUME NEW m \in Chart!InRange(from, to)
        PROVE  m \in Chart!Minutes /\ m \in Nat /\ metrics[m] = taken.memory[m]
    <2>1. m \in Chart!Minutes /\ m \in Nat /\ from <= 2 * m
      BY MinutesFinite DEF Chart!InRange
    <2>2. now - MaxAge \in Int /\ 2 * m \in Int /\ now - MaxAge <= 2 * m
      BY <1>1, <1>2, <2>1
    <2>3. (2 * m) \div 2 = m
      BY <2>1
    <2>4. Chart!Minute(now - MaxAge) <= m /\ Chart!Minute(now - MaxAge) \in Int
      <3>1. Chart!Minute(2 * m) = m
        BY <2>3 DEF Chart!Minute
      <3> QED
        BY <2>2, <3>1, MinuteOrder
    <2>5. m \notin Chart!Expired
      BY <2>1, <2>4 DEF Chart!Expired
    <2> QED
      BY <2>1, <2>5 DEF MetricsInv, Whole
  <1> QED
    BY <1>1, <1>2, <1>3

LEMMA TotalOfNothing ==
    ASSUME NEW b \in Charted, NEW T \in SUBSET Chart!Minutes, \A m \in T : b[m].requests = 0
    PROVE  Chart!Total(T, b) = 0
  <1>1. Sized(Queue(b), Chart!Minutes) /\ Chart!Total(T, b) = Bytes(Queue(b), T)
    BY TotalIsBytes DEF Charted
  <1>2. \A m \in T : Queue(b)[m].size = 0
    BY DEF Queue
  <1> DEFINE M == Chart!Minutes
             q == Queue(b)
  <1>3. IsFiniteSet(M) /\ Sized(q, M) /\ T \in SUBSET M /\ \A m \in T : q[m].size = 0
    BY <1>1, <1>2, MinutesFinite
  <1> HIDE DEF M, q
  <1>4. Bytes(q, T) = 0
    BY <1>3, BytesOfEmpties
  <1> QED
    BY <1>1, <1>4 DEF q

LEMMA ListIsWhole ==
    ASSUME MetricsInv, NEW unit \in Chart!Units,
           NEW from \in (now - MaxAge)..now, NEW to \in (now - MaxAge)..now
    PROVE  /\ Points(Chart!ListMetrics(unit, from, to), unit, from, to)
           /\ \A i \in DOMAIN Chart!ListMetrics(unit, from, to) :
                 \E m \in Chart!InRange(from, to) :
                     Chart!Start(m, unit) = Chart!ListMetrics(unit, from, to)[i].time
  <1> DEFINE range == Chart!InRange(from, to)
             shown == {m \in range : metrics[m].requests > 0}
             Of(t) == {m \in shown : Chart!Start(m, unit) = t}
             Point(t) == [time |-> t, requests |-> Chart!Total(Of(t), metrics),
                          depth |-> Chart!Depth(Of(t), metrics)]
             times == {Chart!Start(m, unit) : m \in shown}
             points == Chart!ListMetrics(unit, from, to)
             size == Cardinality(times)
  <1>1. Chart!Max({from, to - MaxAge}) = from
    <2>1. from \in Int /\ to - MaxAge \in Int /\ to - MaxAge <= from
      BY WindowIsWhole, MetricsConstants
    <2> QED
      BY <2>1 DEF Chart!Max
  <1>2. points = [i \in 1..size |-> Point(Nth(times, i - 1))]
    BY <1>1, ChartPlaces DEF Chart!ListMetrics
  <1>3. /\ metrics \in Chart!Buckets /\ taken.memory \in Chart!Buckets
        /\ metrics \in Charted /\ taken.memory \in Charted
        /\ range \subseteq Chart!Minutes
        /\ \A m \in range : m \in Nat /\ metrics[m] = taken.memory[m]
    BY WindowIsWhole, MetricsConstants DEF MetricsInv, Chart!TypeOK
  <1> HIDE DEF range, points
  <1>4. times \subseteq Nat /\ IsFiniteSet(times) /\ size \in Nat
    <2>1. \A m \in shown : Chart!Start(m, unit) \in Nat /\ Chart!Start(m, unit) <= m /\ m \in Chart!Minutes
      BY <1>3, Starts
    <2>2. times \subseteq Chart!Minutes
      <3> SUFFICES ASSUME NEW m \in shown PROVE Chart!Start(m, unit) \in Chart!Minutes
        OBVIOUS
      <3>1. Chart!Start(m, unit) \in Nat /\ Chart!Start(m, unit) <= m /\ m \in Chart!Minutes
        BY <2>1
      <3>2. MaxNow \div 2 \in Int
        BY MetricsConstants
      <3> QED
        BY <3>1, <3>2 DEF Chart!Minutes, Chart!Minute
    <2>3. IsFiniteSet(times)
      BY <2>2, MinutesFinite, FS_Subset
    <2>4. times \subseteq Nat
      BY <2>1
    <2> HIDE DEF times
    <2> QED
      BY <2>3, <2>4, FS_CardinalityType
  <1>5. ASSUME NEW t \in Nat
        PROVE  Chart!Total(Of(t), metrics) = Chart!Total(During(unit, from, to, t), taken.memory)
    <2> DEFINE S == Of(t)
               T == During(unit, from, to, t)
    <2>1. T \in SUBSET Chart!Minutes /\ S \in SUBSET T
      BY <1>3 DEF During, range
    <2>2. \A m \in S : metrics[m].requests = taken.memory[m].requests
      BY <1>3
    <2>3. \A m \in T \ S : taken.memory[m].requests = 0
      <3> SUFFICES ASSUME NEW m \in T, m \notin S PROVE taken.memory[m].requests = 0
        OBVIOUS
      <3>1. m \in range /\ Chart!Start(m, unit) = t
        BY DEF During, range
      <3>2. ~(metrics[m].requests > 0) /\ m \in Chart!Minutes /\ metrics[m] = taken.memory[m]
        BY <1>3, <3>1
      <3>3. metrics[m].requests \in Nat
        BY <1>3, <3>2 DEF Charted
      <3> QED
        BY <3>2, <3>3
    <2> HIDE DEF S, T
    <2>4. Chart!Total(S, metrics) = Chart!Total(T, taken.memory)
      BY <1>3, <2>1, <2>2, <2>3, TotalOfMore
    <2> QED
      BY <2>4 DEF S, T
  <1>6. ASSUME NEW m \in shown
        PROVE  /\ Chart!Depth(Of(Chart!Start(m, unit)), metrics) \in Nat
               /\ Chart!Depth(Of(Chart!Start(m, unit)), metrics) >= taken.memory[m].depth
    <2> DEFINE D == {metrics[k].depth : k \in Of(Chart!Start(m, unit))}
    <2>1. D \subseteq 0..MaxDepth /\ metrics[m].depth \in D
      BY <1>3 DEF Chart!Buckets
    <2>2. IsFiniteSet(0..MaxDepth) /\ 0..MaxDepth \subseteq Nat
      BY DepthsFinite
    <2>3. metrics[m] = taken.memory[m]
      BY <1>3
    <2>4. Chart!Depth(Of(Chart!Start(m, unit)), metrics) = Chart!Max(D)
      BY DEF Chart!Depth
    <2> HIDE DEF D
    <2>5. IsFiniteSet(D) /\ D \in SUBSET Nat
      BY <2>1, <2>2, FS_Subset
    <2>6. Chart!Max(D) \in D /\ Chart!Max(D) >= metrics[m].depth
      BY <2>1, <2>5, GreatestIs
    <2> QED
      BY <2>3, <2>4, <2>5, <2>6
  <1>7. ASSUME NEW t \in times
        PROVE  Point(t) \in [time : Nat, requests : Nat, depth : Nat]
    <2>1. t \in Nat
      BY <1>4
    <2>2. Of(t) \in SUBSET Chart!Minutes
      BY <1>3
    <2>3. Chart!Total(Of(t), metrics) \in Nat
      BY <1>3, <2>2, TotalNat
    <2>4. PICK m \in shown : Chart!Start(m, unit) = t
      OBVIOUS
    <2>5. Chart!Depth(Of(t), metrics) \in Nat
      BY <1>6, <2>4
    <2> QED
      BY <2>1, <2>3, <2>5
  <1> HIDE DEF shown, Of, times, size
  <1>8. /\ \A i \in 1..size : Nth(times, i - 1) \in times
        /\ \A i, j \in 1..size : i < j => Nth(times, i - 1) < Nth(times, j - 1)
        /\ \A t \in times : \E i \in 1..size : Nth(times, i - 1) = t
    BY <1>4, PlacesInOrder DEF size
  <1>9. DOMAIN points = 1..size /\ \A i \in 1..size : points[i] = Point(Nth(times, i - 1))
    BY <1>2
  <1>10. points \in Seq([time : Nat, requests : Nat, depth : Nat])
    <2>1. \A i \in 1..size : points[i] \in [time : Nat, requests : Nat, depth : Nat]
      BY <1>7, <1>8, <1>9
    <2>2. points \in [1..size -> [time : Nat, requests : Nat, depth : Nat]]
      BY <1>2, <2>1
    <2> QED
      BY <1>4, <2>2, SeqDef
  <1>11. \A i \in 1..size : points[i].time = Nth(times, i - 1)
    BY <1>9
  <1>12. \A i, j \in DOMAIN points : i < j => points[i].time < points[j].time
    BY <1>8, <1>9, <1>11
  <1>13. ASSUME NEW i \in DOMAIN points
         PROVE  points[i].requests = Chart!Total(During(unit, from, to, points[i].time), taken.memory)
    <2>1. points[i].requests = Chart!Total(Of(points[i].time), metrics) /\ points[i].time \in Nat
      BY <1>4, <1>8, <1>9, <1>13
    <2> QED
      BY <1>5, <2>1
  <1>14. ASSUME NEW m \in range, taken.memory[m].requests > 0
         PROVE  \E i \in DOMAIN points :
                    points[i].time = Chart!Start(m, unit) /\ points[i].depth >= taken.memory[m].depth
    <2>1. m \in shown /\ Chart!Start(m, unit) \in times
      BY <1>3, <1>14 DEF shown, times
    <2>2. PICK i \in 1..size : Nth(times, i - 1) = Chart!Start(m, unit)
      BY <1>8, <2>1
    <2>3. points[i].time = Chart!Start(m, unit)
          /\ points[i].depth = Chart!Depth(Of(Chart!Start(m, unit)), metrics)
      BY <1>9, <2>2
    <2> QED
      BY <1>6, <1>9, <2>1, <2>3
  <1>15. \A i \in DOMAIN points : \E m \in range : Chart!Start(m, unit) = points[i].time
    <2>1. \A t \in times : \E m \in range : Chart!Start(m, unit) = t
      BY DEF times, shown
    <2> QED
      BY <1>8, <1>9, <1>11, <2>1
  <1> QED
    BY <1>10, <1>12, <1>13, <1>14, <1>15 DEF Points, points, range

(* The live point comes last, or onto the last.                            *)
LEMMA LivePointFits ==
    ASSUME MetricsInv, NEW unit \in Chart!Units,
           NEW from \in (now - MaxAge)..now, NEW to \in (now - MaxAge)..now,
           NEW queued \in {0, MaxDepth}, NEW points, Points(points, unit, from, to),
           \A i \in DOMAIN points : \E m \in Chart!InRange(from, to) :
               Chart!Start(m, unit) = points[i].time
    PROVE  Points(Chart!appendLivePoint(points, unit, queued), unit, from, to)
  <1> DEFINE t == Chart!Start(Chart!Minute(now), unit)
             here == \E i \in DOMAIN points : points[i].time = t
             raised == [i \in DOMAIN points |->
                           IF points[i].time = t /\ queued > points[i].depth
                             THEN [points[i] EXCEPT !.depth = queued] ELSE points[i]]
             live == [time |-> t, requests |-> 0, depth |-> queued]
             longer == Append(points, live)
             range == Chart!InRange(from, to)
             P == [time : Nat, requests : Nat, depth : Nat]
  <1>1. Chart!appendLivePoint(points, unit, queued)
          = IF queued = 0 THEN points ELSE IF here THEN raised ELSE longer
    BY DEF Chart!appendLivePoint
  <1>2. queued \in Nat /\ taken.memory \in Chart!Buckets /\ taken.memory \in Charted
    BY MetricsConstants DEF MetricsInv, Chart!TypeOK
  <1>3. /\ points \in Seq(P) /\ Len(points) \in Nat /\ DOMAIN points = 1..Len(points)
        /\ \A i \in DOMAIN points : points[i] \in P
    BY LenProperties, ElementOfSeq DEF Points
  <1>4. /\ range \subseteq Chart!Minutes
        /\ \A m \in range : m \in Nat /\ Chart!Start(m, unit) \in Nat /\ Chart!Start(m, unit) <= t /\ t \in Nat
    <2> SUFFICES ASSUME NEW m \in range
                 PROVE  /\ m \in Chart!Minutes /\ m \in Nat
                        /\ Chart!Start(m, unit) \in Nat /\ Chart!Start(m, unit) <= t /\ t \in Nat
      OBVIOUS
    <2>1. m \in Chart!Minutes /\ m \in Nat /\ 2 * m <= to
      BY WindowIsWhole DEF Chart!InRange
    <2>2. now \in Nat /\ to <= now /\ to \in Int
      BY WindowIsWhole
    <2>3. m <= Chart!Minute(now) /\ Chart!Minute(now) \in Nat
      BY <2>1, <2>2 DEF Chart!Minute
    <2> QED
      BY <2>1, <2>3, Starts
  <1>5. t \in Nat
    <2>1. now \in Nat
      BY WindowIsWhole
    <2>2. Chart!Minute(now) \in Nat
      BY <2>1 DEF Chart!Minute
    <2> QED
      BY <2>2, Starts
  <1> HIDE DEF t, range
  <1>6. ASSUME here PROVE Points(raised, unit, from, to)
    <2>1. /\ DOMAIN raised = DOMAIN points
          /\ \A i \in DOMAIN points : /\ raised[i] \in P
                                      /\ raised[i].time = points[i].time
                                      /\ raised[i].requests = points[i].requests
                                      /\ raised[i].depth >= points[i].depth
      <3> SUFFICES ASSUME NEW i \in DOMAIN points
                   PROVE  /\ raised[i] \in P
                          /\ raised[i].time = points[i].time
                          /\ raised[i].requests = points[i].requests
                          /\ raised[i].depth >= points[i].depth
        OBVIOUS
      <3>1. points[i] \in P
        BY <1>3
      <3> QED
        BY <1>2, <3>1
    <2>2. raised \in Seq(P)
      <3>1. raised \in [1..Len(points) -> P]
        BY <1>3, <2>1
      <3> HIDE DEF raised, P
      <3> QED
        BY <1>3, <3>1, SeqDef
    <2>3. ASSUME NEW m \in range, taken.memory[m].requests > 0
          PROVE  \E i \in DOMAIN raised :
                    raised[i].time = Chart!Start(m, unit) /\ raised[i].depth >= taken.memory[m].depth
      <3>1. PICK i \in DOMAIN points :
                points[i].time = Chart!Start(m, unit) /\ points[i].depth >= taken.memory[m].depth
        BY <2>3 DEF Points, range
      <3>2. points[i].depth \in Nat /\ raised[i].depth \in Nat /\ taken.memory[m].depth \in Nat
        <4>1. points[i] \in P /\ raised[i] \in P /\ m \in Chart!Minutes
          BY <1>3, <1>4, <2>1
        <4> QED
          BY <1>2, <4>1 DEF Charted
      <3>3. raised[i].depth >= points[i].depth /\ raised[i].time = points[i].time
        BY <2>1
      <3>4. raised[i].depth >= taken.memory[m].depth
        BY <3>1, <3>2, <3>3
      <3> HIDE DEF raised
      <3> QED
        BY <2>1, <3>1, <3>3, <3>4
    <2> HIDE DEF raised
    <2> QED
      BY <2>1, <2>2, <2>3 DEF Points, range
  <1>7. ASSUME ~here PROVE Points(longer, unit, from, to)
    <2> DEFINE last == Len(points) + 1
    <2>1. /\ longer \in Seq(P) /\ DOMAIN longer = 1..last /\ last \in Nat
          /\ longer[last] = live
          /\ \A i \in 1..Len(points) : longer[i] = points[i]
      <3>1. live \in P
        BY <1>2, <1>5
      <3> HIDE DEF live, P
      <3> QED
        BY <1>3, <3>1, AppendProperties, LenProperties
    <2>2. \A i \in 1..last : i = last \/ (i \in DOMAIN points /\ longer[i] = points[i] /\ i < last)
      BY <1>3, <2>1
    <2>3. \A i \in DOMAIN points : points[i].time \in Nat /\ points[i].time < t
      <3> SUFFICES ASSUME NEW i \in DOMAIN points
                   PROVE  points[i].time \in Nat /\ points[i].time < t
        OBVIOUS
      <3>1. PICK m \in range : Chart!Start(m, unit) = points[i].time
        BY DEF range
      <3>2. points[i].time <= t /\ points[i].time \in Nat
        BY <1>4, <3>1
      <3>3. points[i].time # t
        BY <1>7
      <3> QED
        BY <1>5, <3>2, <3>3
    <2>4. Chart!Total(During(unit, from, to, t), taken.memory) = 0
      <3> DEFINE T == During(unit, from, to, t)
      <3>1. T \in SUBSET Chart!Minutes
        BY <1>4 DEF During, range
      <3>2. \A m \in T : taken.memory[m].requests = 0
        <4> SUFFICES ASSUME NEW m \in T, taken.memory[m].requests # 0
                     PROVE  FALSE
          OBVIOUS
        <4>1. m \in range /\ Chart!Start(m, unit) = t /\ m \in Chart!Minutes
          BY <3>1 DEF During, range
        <4>2. taken.memory[m].requests > 0
          BY <1>2, <4>1 DEF Charted
        <4>3. \E i \in DOMAIN points : points[i].time = Chart!Start(m, unit)
          BY <4>1, <4>2 DEF Points, range
        <4> QED
          BY <1>7, <4>1, <4>3
      <3> HIDE DEF T
      <3>3. Chart!Total(T, taken.memory) = 0
        BY <1>2, <3>1, <3>2, TotalOfNothing
      <3> QED
        BY <3>3 DEF T
    <2>5. live.time = t /\ live.requests = 0
      OBVIOUS
    <2> HIDE DEF live, longer, last
    <2>6. ASSUME NEW i \in 1..last, NEW j \in 1..last, i < j
          PROVE  longer[i].time < longer[j].time
      <3>1. i \in DOMAIN points /\ longer[i] = points[i]
        BY <2>1, <2>2, <2>6
      <3>2. CASE j = last
        BY <2>1, <2>3, <2>5, <3>1, <3>2
      <3>3. CASE j # last
        <4>1. j \in DOMAIN points /\ longer[j] = points[j]
          BY <2>2, <3>3
        <4> QED
          BY <2>6, <3>1, <4>1 DEF Points
      <3> QED
        BY <3>2, <3>3
    <2>7. ASSUME NEW i \in 1..last
          PROVE  longer[i].requests = Chart!Total(During(unit, from, to, longer[i].time), taken.memory)
      <3>1. CASE i = last
        BY <2>1, <2>4, <2>5, <3>1
      <3>2. CASE i # last
        BY <2>2, <3>2 DEF Points
      <3> QED
        BY <3>1, <3>2
    <2>8. ASSUME NEW m \in range, taken.memory[m].requests > 0
          PROVE  \E i \in 1..last :
                    longer[i].time = Chart!Start(m, unit) /\ longer[i].depth >= taken.memory[m].depth
      <3>1. PICK i \in DOMAIN points :
                points[i].time = Chart!Start(m, unit) /\ points[i].depth >= taken.memory[m].depth
        BY <2>8 DEF Points, range
      <3>2. i \in 1..last /\ longer[i] = points[i]
        BY <1>3, <2>1 DEF last
      <3> QED
        BY <3>1, <3>2
    <2> QED
      BY <2>1, <2>6, <2>7, <2>8 DEF Points, range
  <1> QED
    BY <1>1, <1>6, <1>7

LEMMA ChartIsComplete == MetricsInv => Chart!ChartComplete
  <1> SUFFICES ASSUME MetricsInv, NEW unit \in Chart!Units,
                      NEW from \in (now - MaxAge)..now, NEW to \in (now - MaxAge)..now,
                      NEW queued \in {0, MaxDepth}
               PROVE  Chart!ShowsAll(Chart!Chart(unit, from, to, queued), unit, from, to)
    BY DEF Chart!ChartComplete
  <1>1. Points(Chart!ListMetrics(unit, from, to), unit, from, to)
    BY ListIsWhole
  <1>2. Points(Chart!appendLivePoint(Chart!ListMetrics(unit, from, to), unit, queued), unit, from, to)
    BY <1>1, ListIsWhole, LivePointFits
  <1>3. Points(Chart!Chart(unit, from, to, queued), unit, from, to)
    BY <1>1, <1>2 DEF Chart!Chart
  <1> QED
    BY <1>3 DEF Points, During, Chart!ShowsAll

-----------------------------------------------------------------------------
(* The import.  What an import takes for existing is there, or was deleted *)
(* since; and so is every line that it has passed.                         *)
Accounted(i, k) == records[k] > 0 \/ k \in removed[i]

Begun(i) ==
    /\ stage[i] = "none" => lines[i] = <<>> /\ next[i] = 1 /\ imported[i] = {}
    /\ stage[i] = "done" => ~Import!More(i)
    /\ stage[i] = "flushing" => Import!More(i) /\ Import!Line(i) \in ApiKeys \ seen[i]
    /\ imported[i] \subseteq seen[i]

Passed(i) ==
    /\ stage[i] # "none" => \A k \in seen[i] : Accounted(i, k)
    /\ stage[i] = "flushing" => Accounted(i, Import!Line(i))
    /\ \A n \in DOMAIN lines[i] : n < next[i] => lines[i][n] = NoKey \/ Accounted(i, lines[i][n])

Once(i) == \A k \in ApiKeys :
    made[i][k] = unsaved[i][k] + Import!Count(k \in imported[i])
                 + Import!Count(stage[i] = "flushing" /\ k = Import!Line(i))

ImportInv == Import!TypeOK /\ \A i \in Imports : Begun(i) /\ Passed(i) /\ Once(i)

LEMMA ImportPlaces ==
    /\ \A S : Import!Cardinality(S) = Cardinality(S)
    /\ \A S, i : Import!Nth(S, i) = Nth(S, i)
  <1>1. \A S : Import!IsFiniteSet(S) = IsFiniteSet(S)
    BY DEF Import!IsFiniteSet, IsFiniteSet
  <1>2. \A S : Import!Cardinality(S) = Cardinality(S)
    BY <1>1 DEF Import!Cardinality, Cardinality
  <1> QED
    BY <1>2 DEF Import!Nth, Nth

LEMMA LinesAreKeys ==
    ASSUME NEW text \in Texts
    PROVE  Import!Lines(text) \in Seq(ApiKeys \cup {NoKey})
  <1> DEFINE kept == Import!Kept(text)
             size == Cardinality(kept)
             F == [n \in 1..size |-> text[Nth(kept, n - 1)]]
  <1>1. text \in Seq(ApiKeys \cup {Blank, NoKey})
    BY TextsAssumption
  <1>2. Len(text) \in Nat /\ DOMAIN text = 1..Len(text)
    BY <1>1, LenProperties
  <1>3. kept \in SUBSET Nat /\ kept \subseteq DOMAIN text /\ IsFiniteSet(kept)
    <2>1. kept \subseteq 1..Len(text) /\ kept \subseteq DOMAIN text
      BY <1>2 DEF Import!Kept
    <2>2. IsFiniteSet(1..Len(text))
      BY <1>2, FS_Interval
    <2> HIDE DEF kept
    <2> QED
      BY <2>1, <2>2, FS_Subset
  <1>4. \A n \in kept : text[n] \in ApiKeys \cup {NoKey}
    <2> SUFFICES ASSUME NEW n \in kept PROVE text[n] \in ApiKeys \cup {NoKey}
      OBVIOUS
    <2>1. n \in DOMAIN text /\ text[n] # Blank
      BY DEF Import!Kept, Import!NotBlank
    <2>2. text[n] \in ApiKeys \cup {Blank, NoKey}
      BY <1>1, <1>2, <2>1, ElementOfSeq
    <2> QED
      BY <2>1, <2>2
  <1>5. size \in Nat /\ \A n \in 1..size : Nth(kept, n - 1) \in kept
    <2> HIDE DEF kept
    <2> QED
      BY <1>3, PlacesInOrder, FS_CardinalityType
  <1>6. F \in Seq(ApiKeys \cup {NoKey})
    <2>1. F \in [1..size -> ApiKeys \cup {NoKey}]
      BY <1>4, <1>5
    <2> HIDE DEF F, size
    <2> QED
      BY <1>5, <2>1, SeqDef
  <1> QED
    BY <1>6, ImportPlaces DEF Import!Lines

LEMMA LineIs ==
    ASSUME Import!TypeOK, NEW i \in Imports
    PROVE  /\ next[i] \in Nat \ {0} /\ Len(lines[i]) \in Nat /\ DOMAIN lines[i] = 1..Len(lines[i])
           /\ \A n \in DOMAIN lines[i] : lines[i][n] \in ApiKeys \cup {NoKey}
           /\ Import!More(i) => next[i] \in DOMAIN lines[i] /\ Import!Line(i) \in ApiKeys \cup {NoKey}
           /\ \A n \in DOMAIN lines[i] : n < next[i] + 1 => n < next[i] \/ lines[i][n] = Import!Line(i)
           /\ ~Import!More(i) => \A n \in DOMAIN lines[i] : n < next[i]
  <1>1. next[i] \in Nat \ {0} /\ lines[i] \in Seq(ApiKeys \cup {NoKey})
    BY DEF Import!TypeOK
  <1>2. Len(lines[i]) \in Nat /\ DOMAIN lines[i] = 1..Len(lines[i])
    BY <1>1, LenProperties
  <1>3. \A n \in DOMAIN lines[i] : lines[i][n] \in ApiKeys \cup {NoKey}
    BY <1>1, <1>2, ElementOfSeq
  <1> QED
    BY <1>1, <1>2, <1>3 DEF Import!More, Import!Line

(* The imports that do not move notice the step only in what is accounted  *)
(* for.                                                                    *)
Still(j) ==
    /\ stage'[j] = stage[j] /\ lines'[j] = lines[j] /\ next'[j] = next[j]
    /\ seen'[j] = seen[j] /\ imported'[j] = imported[j]
    /\ made'[j] = made[j] /\ unsaved'[j] = unsaved[j]
    /\ stage[j] # "none" => \A k \in ApiKeys : Accounted(j, k) => Accounted(j, k)'

LEMMA StillFine ==
    ASSUME ImportInv, NEW j \in Imports, Still(j)
    PROVE  Begun(j)' /\ Passed(j)' /\ Once(j)'
  <1>1. Import!TypeOK /\ Begun(j) /\ Passed(j) /\ Once(j)
    BY DEF ImportInv
  <1>2. Begun(j)' /\ Once(j)'
    BY <1>1 DEF Still, Begun, Once, Import!More, Import!Line
  <1>3. Passed(j)'
    <2>1. stage[j] = "none" => DOMAIN lines[j] = {}
      BY <1>1 DEF Begun
    <2>2. seen[j] \subseteq ApiKeys
      BY <1>1 DEF Import!TypeOK
    <2>3. \A n \in DOMAIN lines[j] : lines[j][n] \in ApiKeys \cup {NoKey}
      BY <1>1, LineIs
    <2>4. Import!Line(j)' = Import!Line(j)
      BY DEF Still, Import!Line
    <2> QED
      BY <1>1, <2>1, <2>2, <2>3, <2>4 DEF Still, Passed, Begun
  <1> QED
    BY <1>2, <1>3

(* One import moves and leaves alone what is not its own.                  *)
LEMMA OneMoves ==
    ASSUME ImportInv, NEW i \in Imports, Import!TypeOK',
           \A j \in Imports : j # i =>
               /\ stage'[j] = stage[j] /\ lines'[j] = lines[j] /\ next'[j] = next[j]
               /\ seen'[j] = seen[j] /\ imported'[j] = imported[j]
               /\ made'[j] = made[j] /\ unsaved'[j] = unsaved[j] /\ removed'[j] = removed[j],
           \A k \in ApiKeys : records[k] > 0 => records'[k] > 0,
           Begun(i)', Passed(i)', Once(i)'
    PROVE  ImportInv'
  <1>1. \A j \in Imports : j # i => Still(j)
    BY DEF Still, Accounted
  <1> QED
    BY <1>1, StillFine DEF ImportInv

LEMMA InitImport == Import!Init => ImportInv
  <1> SUFFICES ASSUME Import!Init PROVE ImportInv
    OBVIOUS
  <1>1. Import!TypeOK
    <2>1. Import!None \in [ApiKeys -> Nat] /\ [ApiKeys -> {0, 1}] \subseteq [ApiKeys -> Nat]
      BY DEF Import!None
    <2>2. <<>> \in Seq(ApiKeys \cup {NoKey})
      BY EmptySeq
    <2>3. records \in [ApiKeys -> Nat] /\ storeClosed \in BOOLEAN
      BY <2>1 DEF Import!Init
    <2>4. lines \in [Imports -> Seq(ApiKeys \cup {NoKey})]
      BY <2>2 DEF Import!Init
    <2>5. made \in [Imports -> [ApiKeys -> Nat]] /\ unsaved \in [Imports -> [ApiKeys -> Nat]]
      BY <2>1 DEF Import!Init
    <2>6. /\ stage \in [Imports -> {"none", "reading", "flushing", "done"}]
          /\ next \in [Imports -> Nat \ {0}] /\ skipped \in [Imports -> Nat]
      BY DEF Import!Init
    <2>7. {seen, imported, removed} \subseteq [Imports -> SUBSET ApiKeys]
      BY DEF Import!Init
    <2> QED
      BY <2>3, <2>4, <2>5, <2>6, <2>7 DEF Import!TypeOK
  <1>2. ASSUME NEW i \in Imports
        PROVE  /\ stage[i] = "none" /\ lines[i] = <<>> /\ next[i] = 1
               /\ seen[i] = {} /\ imported[i] = {}
               /\ made[i] = Import!None /\ unsaved[i] = Import!None
    BY DEF Import!Init
  <1>3. \A i \in Imports : Begun(i) /\ Passed(i)
    BY <1>2 DEF Begun, Passed
  <1>4. \A i \in Imports : Once(i)
    BY <1>2 DEF Once, Import!None, Import!Count
  <1> QED
    BY <1>1, <1>3, <1>4 DEF ImportInv

LEMMA BeginKeeps ==
    ASSUME ImportInv, NEW i \in Imports, NEW text \in Texts, Import!Begin(i, text)
    PROVE  ImportInv'
  <1>1. Import!TypeOK /\ Begun(i) /\ Passed(i) /\ Once(i)
    BY DEF ImportInv
  <1>2. Import!Lines(text) \in Seq(ApiKeys \cup {NoKey})
    BY LinesAreKeys
  <1>3. Import!TypeOK'
    BY <1>1, <1>2 DEF Import!Begin, Import!TypeOK, Import!result, Import!history
  <1>4. /\ stage[i] = "none" /\ stage'[i] = "reading"
        /\ seen'[i] = {k \in ApiKeys : records[k] > 0}
        /\ UNCHANGED <<records, next, imported, made, unsaved, removed>>
    BY <1>1 DEF Import!Begin, Import!TypeOK, Import!result, Import!history
  <1>5. Begun(i)' /\ Passed(i)'
    <2>1. next'[i] = 1 /\ imported'[i] = {}
      BY <1>1, <1>4 DEF Begun
    <2>2. DOMAIN lines'[i] \subseteq Nat \ {0}
      <3>1. lines'[i] \in Seq(ApiKeys \cup {NoKey})
        BY <1>3 DEF Import!TypeOK
      <3> QED
        BY <3>1, LenProperties
    <2> QED
      BY <1>4, <2>1, <2>2 DEF Begun, Passed, Accounted
  <1>6. Once(i)'
    BY <1>1, <1>4 DEF Once, Import!Count
  <1>7. \A j \in Imports : j # i =>
               /\ stage'[j] = stage[j] /\ lines'[j] = lines[j] /\ next'[j] = next[j]
               /\ seen'[j] = seen[j] /\ imported'[j] = imported[j]
               /\ made'[j] = made[j] /\ unsaved'[j] = unsaved[j] /\ removed'[j] = removed[j]
    BY <1>1 DEF Import!Begin, Import!TypeOK, Import!result, Import!history
  <1> QED
    BY <1>3, <1>4, <1>5, <1>6, <1>7, OneMoves

LEMMA SkipKeeps ==
    ASSUME ImportInv, NEW i \in Imports, Import!Skip(i)
    PROVE  ImportInv'
  <1>1. Import!TypeOK /\ Begun(i) /\ Passed(i) /\ Once(i)
    BY DEF ImportInv
  <1>2. Import!TypeOK'
    BY <1>1 DEF Import!Skip, Import!TypeOK, Import!history
  <1>3. /\ stage[i] = "reading" /\ Import!More(i)
        /\ Import!Line(i) = NoKey \/ Import!Line(i) \in seen[i]
        /\ next'[i] = next[i] + 1
        /\ UNCHANGED <<records, stage, lines, seen, imported, made, unsaved, removed>>
    BY <1>1 DEF Import!Skip, Import!ToSkip, Import!TypeOK, Import!history
  <1>4. Begun(i)'
    BY <1>1, <1>3 DEF Begun
  <1>5. Passed(i)'
    BY <1>1, <1>3, LineIs DEF Passed, Accounted
  <1>6. Once(i)'
    BY <1>1, <1>3 DEF Once, Import!Count
  <1>7. \A j \in Imports : j # i => next'[j] = next[j]
    BY <1>1 DEF Import!Skip, Import!TypeOK
  <1> QED
    BY <1>2, <1>3, <1>4, <1>5, <1>6, <1>7, OneMoves

LEMMA CreateKeeps ==
    ASSUME ImportInv, NEW i \in Imports, Import!CreateKey(i)
    PROVE  ImportInv'
  <1> DEFINE l == Import!Line(i)
  <1>1. Import!TypeOK /\ Begun(i) /\ Passed(i) /\ Once(i)
    BY DEF ImportInv
  <1>2. l \in ApiKeys \ seen[i] /\ Import!More(i) /\ stage[i] = "reading"
    BY <1>1, LineIs DEF Import!CreateKey, Import!ToSkip
  <1> HIDE DEF l
  <1>3. /\ records' = [records EXCEPT ![l] = @ + 1]
        /\ made' = [made EXCEPT ![i] = [made[i] EXCEPT ![l] = @ + 1]]
        /\ stage' = [stage EXCEPT ![i] = "flushing"]
        /\ UNCHANGED <<storeClosed, lines, next, seen, imported, skipped, unsaved, removed>>
    BY <1>1 DEF Import!CreateKey, Import!TypeOK, Import!result, l
  <1>4. Import!TypeOK'
    <2>1. records' \in [ApiKeys -> Nat]
      BY <1>1, <1>2, <1>3 DEF Import!TypeOK
    <2>2. made' \in [Imports -> [ApiKeys -> Nat]]
      <3>1. made[i] \in [ApiKeys -> Nat]
        BY <1>1 DEF Import!TypeOK
      <3>2. [made[i] EXCEPT ![l] = @ + 1] \in [ApiKeys -> Nat]
        BY <1>2, <3>1
      <3> QED
        BY <1>1, <1>3, <3>2 DEF Import!TypeOK
    <2> QED
      BY <1>1, <1>3, <2>1, <2>2 DEF Import!TypeOK
  <1>5. /\ Import!Line(i)' = l /\ l = Import!Line(i) /\ Import!More(i)'
        /\ stage'[i] = "flushing"
        /\ \A k \in ApiKeys : records[k] > 0 => records'[k] > 0
        /\ records'[l] > 0
        /\ \A k \in ApiKeys : made'[i][k] = IF k = l THEN made[i][k] + 1 ELSE made[i][k]
    <2>1. stage'[i] = "flushing"
      BY <1>1, <1>3 DEF Import!TypeOK
    <2>2. Import!Line(i)' = l /\ l = Import!Line(i) /\ Import!More(i)'
      BY <1>2, <1>3 DEF l, Import!Line, Import!More
    <2>3. \A k \in ApiKeys : records[k] \in Nat /\ records'[k] = IF k = l THEN records[k] + 1 ELSE records[k]
      BY <1>1, <1>3 DEF Import!TypeOK
    <2>4. \A k \in ApiKeys : made'[i][k] = IF k = l THEN made[i][k] + 1 ELSE made[i][k]
      <3>1. made[i] \in [ApiKeys -> Nat] /\ made'[i] = [made[i] EXCEPT ![l] = @ + 1]
        BY <1>1, <1>3 DEF Import!TypeOK
      <3> QED
        BY <3>1
    <2> QED
      BY <1>2, <2>1, <2>2, <2>3, <2>4
  <1>6. Begun(i)'
    BY <1>1, <1>2, <1>3, <1>5 DEF Begun
  <1>7. Passed(i)'
    <2>1. \A k \in ApiKeys : Accounted(i, k) => records'[k] > 0 \/ k \in removed[i]
      BY <1>3, <1>5 DEF Accounted
    <2>3. seen[i] \subseteq ApiKeys /\ stage[i] # "none"
      BY <1>1, <1>2 DEF Import!TypeOK
    <2>4. \A n \in DOMAIN lines[i] : lines[i][n] \in ApiKeys \cup {NoKey}
      BY <1>1, LineIs
    <2>5. /\ \A k \in seen[i] : records'[k] > 0 \/ k \in removed[i]
          /\ \A n \in DOMAIN lines[i] : n < next[i] =>
                \/ lines[i][n] = NoKey
                \/ records'[lines[i][n]] > 0 \/ lines[i][n] \in removed[i]
      BY <1>1, <2>1, <2>3, <2>4 DEF Passed
    <2> QED
      BY <1>3, <1>5, <2>5 DEF Passed, Accounted
  <1>8. Once(i)'
    <2> SUFFICES ASSUME NEW k \in ApiKeys
                 PROVE  made'[i][k] = unsaved[i][k] + Import!Count(k \in imported[i])
                                      + Import!Count(k = l)
      BY <1>3, <1>5 DEF Once, Import!Count
    <2>1. made[i][k] = unsaved[i][k] + Import!Count(k \in imported[i])
      <3>1. made[i][k] = unsaved[i][k] + Import!Count(k \in imported[i]) + 0
        BY <1>1, <1>2 DEF Once, Import!Count
      <3>2. unsaved[i][k] \in Nat /\ Import!Count(k \in imported[i]) \in Nat
        BY <1>1 DEF Import!TypeOK, Import!Count
      <3> QED
        BY <3>1, <3>2
    <2>2. made[i][k] \in Nat
      BY <1>1 DEF Import!TypeOK
    <2> QED
      BY <1>5, <2>1, <2>2 DEF Import!Count
  <1>9. \A j \in Imports : j # i => stage'[j] = stage[j] /\ made'[j] = made[j]
    BY <1>1, <1>3 DEF Import!TypeOK
  <1> QED
    BY <1>3, <1>4, <1>5, <1>6, <1>7, <1>8, <1>9, OneMoves

LEMMA RefusedKeeps ==
    ASSUME ImportInv, NEW i \in Imports, Import!CreateRefused(i)
    PROVE  ImportInv'
  <1> DEFINE l == Import!Line(i)
  <1>1. Import!TypeOK /\ Begun(i) /\ Passed(i) /\ Once(i)
    BY DEF ImportInv
  <1>2. l \in ApiKeys \ seen[i] /\ Import!More(i) /\ stage[i] = "reading"
    BY <1>1, LineIs DEF Import!CreateRefused, Import!ToSkip
  <1>3. /\ next'[i] = next[i] + 1
        /\ removed'[i] = removed[i] \cup {l}
        /\ UNCHANGED <<records, stage, lines, seen, imported, made, unsaved>>
    BY <1>1 DEF Import!CreateRefused, Import!TypeOK
  <1>4. Import!TypeOK'
    BY <1>1, <1>2 DEF Import!CreateRefused, Import!TypeOK
  <1>5. Begun(i)'
    BY <1>1, <1>2, <1>3 DEF Begun
  <1>6. Passed(i)'
    <2>1. \A n \in DOMAIN lines[i] : n < next[i] + 1 => n < next[i] \/ lines[i][n] = l
      BY <1>1, LineIs
    <2> HIDE DEF l
    <2> QED
      BY <1>1, <1>2, <1>3, <2>1 DEF Passed, Accounted
  <1>7. Once(i)'
    BY <1>1, <1>2, <1>3 DEF Once, Import!Count
  <1>8. \A j \in Imports : j # i => next'[j] = next[j] /\ removed'[j] = removed[j]
    BY <1>1 DEF Import!CreateRefused, Import!TypeOK
  <1> QED
    BY <1>3, <1>4, <1>5, <1>6, <1>7, <1>8, OneMoves

LEMMA FlushSucceedsKeeps ==
    ASSUME ImportInv, NEW i \in Imports, Import!FlushSucceeds(i)
    PROVE  ImportInv'
  <1> DEFINE l == Import!Line(i)
  <1>1. Import!TypeOK /\ Begun(i) /\ Passed(i) /\ Once(i)
    BY DEF ImportInv
  <1>2. stage[i] = "flushing" /\ l \in ApiKeys \ seen[i] /\ Import!More(i) /\ l \notin imported[i]
    BY <1>1 DEF Import!FlushSucceeds, Begun
  <1>3. /\ next'[i] = next[i] + 1 /\ stage'[i] = "reading"
        /\ seen'[i] = seen[i] \cup {l} /\ imported'[i] = imported[i] \cup {l}
        /\ UNCHANGED <<records, lines, made, unsaved, removed>>
    BY <1>1 DEF Import!FlushSucceeds, Import!TypeOK, Import!history
  <1>4. Import!TypeOK'
    BY <1>1, <1>2 DEF Import!FlushSucceeds, Import!TypeOK, Import!history
  <1>5. Begun(i)'
    BY <1>1, <1>2, <1>3 DEF Begun
  <1>6. Passed(i)'
    <2>1. \A n \in DOMAIN lines[i] : n < next[i] + 1 => n < next[i] \/ lines[i][n] = l
      BY <1>1, LineIs
    <2>2. Accounted(i, l)
      BY <1>1, <1>2 DEF Passed
    <2> HIDE DEF l
    <2> QED
      BY <1>1, <1>2, <1>3, <2>1, <2>2 DEF Passed, Accounted
  <1>7. Once(i)'
    <2> SUFFICES ASSUME NEW k \in ApiKeys
                 PROVE  made[i][k] = unsaved[i][k] + Import!Count(k \in imported[i] \cup {l}) + 0
      BY <1>3 DEF Once, Import!Count
    <2>1. made[i][k] = unsaved[i][k] + Import!Count(k \in imported[i]) + Import!Count(k = l)
      BY <1>1, <1>2 DEF Once, Import!Count
    <2>2. unsaved[i][k] \in Nat
      BY <1>1 DEF Import!TypeOK
    <2> HIDE DEF l
    <2> QED
      BY <1>2, <2>1, <2>2 DEF Import!Count
  <1>8. \A j \in Imports : j # i =>
            next'[j] = next[j] /\ stage'[j] = stage[j] /\ seen'[j] = seen[j] /\ imported'[j] = imported[j]
    BY <1>1 DEF Import!FlushSucceeds, Import!TypeOK
  <1> QED
    BY <1>3, <1>4, <1>5, <1>6, <1>7, <1>8, OneMoves

LEMMA FlushFailsKeeps ==
    ASSUME ImportInv, NEW i \in Imports, Import!FlushFails(i)
    PROVE  ImportInv'
  <1> DEFINE l == Import!Line(i)
  <1>1. Import!TypeOK /\ Begun(i) /\ Passed(i) /\ Once(i)
    BY DEF ImportInv
  <1>2. stage[i] = "flushing" /\ l \in ApiKeys \ seen[i] /\ Import!More(i)
    BY <1>1 DEF Import!FlushFails, Begun
  <1> HIDE DEF l
  <1>3. /\ next'[i] = next[i] + 1 /\ stage'[i] = "reading"
        /\ unsaved' = [unsaved EXCEPT ![i] = [unsaved[i] EXCEPT ![l] = @ + 1]]
        /\ UNCHANGED <<records, lines, seen, imported, made, removed>>
    BY <1>1 DEF Import!FlushFails, Import!TypeOK, l
  <1>4. \A k \in ApiKeys : unsaved'[i][k] = IF k = l THEN unsaved[i][k] + 1 ELSE unsaved[i][k]
    <2>1. unsaved[i] \in [ApiKeys -> Nat] /\ unsaved'[i] = [unsaved[i] EXCEPT ![l] = @ + 1]
      BY <1>1, <1>3 DEF Import!TypeOK
    <2> QED
      BY <2>1
  <1>5. Import!TypeOK'
    <2>1. unsaved' \in [Imports -> [ApiKeys -> Nat]]
      <3>1. unsaved[i] \in [ApiKeys -> Nat]
        BY <1>1 DEF Import!TypeOK
      <3>2. [unsaved[i] EXCEPT ![l] = @ + 1] \in [ApiKeys -> Nat]
        BY <1>2, <3>1
      <3> QED
        BY <1>1, <1>3, <3>2 DEF Import!TypeOK
    <2> QED
      BY <1>1, <2>1 DEF Import!FlushFails, Import!TypeOK
  <1>6. Begun(i)'
    BY <1>1, <1>2, <1>3 DEF Begun
  <1>7. Passed(i)'
    <2>1. \A n \in DOMAIN lines[i] : n < next[i] + 1 => n < next[i] \/ lines[i][n] = l
      BY <1>1, LineIs DEF l
    <2>2. Accounted(i, l)
      BY <1>1, <1>2 DEF Passed, l
    <2> QED
      BY <1>1, <1>2, <1>3, <2>1, <2>2 DEF Passed, Accounted
  <1>8. Once(i)'
    <2> SUFFICES ASSUME NEW k \in ApiKeys
                 PROVE  made[i][k] = unsaved'[i][k] + Import!Count(k \in imported[i]) + 0
      BY <1>3 DEF Once, Import!Count
    <2>1. made[i][k] = unsaved[i][k] + Import!Count(k \in imported[i]) + Import!Count(k = l)
      BY <1>1, <1>2 DEF Once, Import!Count, l
    <2>2. unsaved[i][k] \in Nat
      BY <1>1 DEF Import!TypeOK
    <2> QED
      BY <1>4, <2>1, <2>2 DEF Import!Count
  <1>9. \A j \in Imports : j # i =>
            next'[j] = next[j] /\ stage'[j] = stage[j] /\ unsaved'[j] = unsaved[j]
    BY <1>1, <1>3 DEF Import!FlushFails, Import!TypeOK
  <1> QED
    BY <1>3, <1>5, <1>6, <1>7, <1>8, <1>9, OneMoves

LEMMA EndKeeps ==
    ASSUME ImportInv, NEW i \in Imports, Import!End(i)
    PROVE  ImportInv'
  <1>1. Import!TypeOK /\ Begun(i) /\ Passed(i) /\ Once(i)
    BY DEF ImportInv
  <1>2. Import!TypeOK'
    BY <1>1 DEF Import!End, Import!TypeOK, Import!result, Import!history
  <1>3. /\ stage[i] = "reading" /\ stage'[i] = "done" /\ ~Import!More(i)
        /\ UNCHANGED <<records, lines, next, seen, imported, made, unsaved, removed>>
    BY <1>1 DEF Import!End, Import!TypeOK, Import!result, Import!history
  <1>4. Begun(i)'
    BY <1>1, <1>3 DEF Begun, Import!More
  <1>5. Passed(i)'
    BY <1>1, <1>3 DEF Passed, Accounted
  <1>6. Once(i)'
    BY <1>1, <1>3 DEF Once, Import!Count
  <1>7. \A j \in Imports : j # i => stage'[j] = stage[j]
    BY <1>1 DEF Import!End, Import!TypeOK
  <1> QED
    BY <1>2, <1>3, <1>4, <1>5, <1>6, <1>7, OneMoves

LEMMA DeleteKeepsImport ==
    ASSUME ImportInv, NEW k \in ApiKeys, Import!DeleteKeys(k)
    PROVE  ImportInv'
  <1>1. Import!TypeOK
    BY DEF ImportInv
  <1>2. /\ records' = [records EXCEPT ![k] = 0]
        /\ removed' = [i \in Imports |-> IF stage[i] = "none" THEN removed[i] ELSE removed[i] \cup {k}]
        /\ UNCHANGED <<storeClosed, stage, lines, next, seen, imported, skipped, made, unsaved>>
    BY DEF Import!DeleteKeys, Import!result
  <1>3. Import!TypeOK'
    BY <1>1, <1>2 DEF Import!TypeOK
  <1>4. ASSUME NEW j \in Imports PROVE Still(j)
    <2> SUFFICES ASSUME stage[j] # "none", NEW h \in ApiKeys, Accounted(j, h)
                 PROVE  Accounted(j, h)'
      BY <1>2 DEF Still
    <2>1. h # k => records'[h] = records[h]
      BY <1>1, <1>2 DEF Import!TypeOK
    <2>2. removed'[j] = removed[j] \cup {k}
      BY <1>2
    <2> QED
      BY <2>1, <2>2 DEF Accounted
  <1> QED
    BY <1>3, <1>4, StillFine DEF ImportInv

LEMMA NextImport ==
    ASSUME ImportInv, [Import!Next]_importVars
    PROVE  ImportInv'
  <1>1. ASSUME UNCHANGED <<records, stage, lines, next, seen, imported, skipped, made, unsaved, removed>>,
               storeClosed' \in BOOLEAN
        PROVE  ImportInv'
    <2>1. Import!TypeOK'
      BY <1>1 DEF ImportInv, Import!TypeOK
    <2>2. \A j \in Imports : Still(j)
      BY <1>1 DEF Still, Accounted
    <2> QED
      BY <2>1, <2>2, StillFine DEF ImportInv
  <1>2. CASE Import!Close
    BY <1>1, <1>2 DEF Import!Close, Import!result, Import!history
  <1>3. CASE Import!Gone \/ UNCHANGED importVars
    <2>1. storeClosed \in BOOLEAN
      BY DEF ImportInv, Import!TypeOK
    <2> QED
      BY <1>1, <1>3, <2>1 DEF Import!Gone, Import!vars, Import!result, Import!history, importVars
  <1> QED
    BY <1>2, <1>3, BeginKeeps, SkipKeeps, CreateKeeps, RefusedKeeps, FlushSucceedsKeeps,
       FlushFailsKeeps, EndKeeps, DeleteKeepsImport DEF Import!Next

LEMMA ImportIsFaithful == ImportInv => Import!ImportFaithful
  <1> SUFFICES ASSUME ImportInv PROVE Import!ImportFaithful
    OBVIOUS
  <1>1. Import!ImportedOnce
    BY DEF ImportInv, Once, Import!ImportedOnce
  <1>2. ASSUME NEW i \in Imports, stage[i] = "done", NEW n \in DOMAIN lines[i]
        PROVE  lines[i][n] = NoKey \/ lines[i][n] \in removed[i] \/ records[lines[i][n]] > 0
    <2>1. Import!TypeOK /\ Begun(i) /\ Passed(i)
      BY DEF ImportInv
    <2>2. n < next[i]
      BY <1>2, <2>1, LineIs DEF Begun
    <2> QED
      BY <1>2, <2>1, <2>2 DEF Passed, Accounted
  <1> QED
    BY <1>1, <1>2 DEF Import!ImportFaithful, Import!ImportComplete

-----------------------------------------------------------------------------
(* The parts in one specification                                          *)
LEMMA ImportAlways == PartsSpec => []ImportInv
  <1>1. PartsInit => ImportInv
    BY InitImport DEF PartsInit
  <1>2. ImportInv /\ [PartsNext]_allVars => ImportInv'
    BY NextImport DEF PartsNext, CaptureStep, ImportStep, MetricsStep, allVars
  <1> QED
    BY <1>1, <1>2, PTL DEF PartsSpec

LEMMA MetricsAlways == PartsSpec => []MetricsInv
  <1>1. PartsInit => MetricsInv
    BY InitMetrics DEF PartsInit
  <1>2. MetricsInv /\ [PartsNext]_allVars => MetricsInv'
    BY NextMetrics DEF PartsNext, CaptureStep, ImportStep, MetricsStep, allVars
  <1> QED
    BY <1>1, <1>2, PTL DEF PartsSpec

(* A behaviour of the parts together is one of each part.                  *)
THEOREM StorePartsAreParts == PartsSpec => Spec /\ Import!Spec /\ Chart!Spec
  <1>1. PartsInit => Init /\ Import!Init /\ Chart!Init
    BY DEF PartsInit
  <1>2. [PartsNext]_allVars => [Next]_vars
    BY DEF PartsNext, CaptureStep, ImportStep, MetricsStep, allVars
  <1>3. [PartsNext]_allVars => [Import!Next]_(Import!vars)
    BY DEF PartsNext, CaptureStep, ImportStep, MetricsStep, allVars, importVars,
           Import!vars, Import!result, Import!history
  <1>4. [PartsNext]_allVars => [Chart!Next]_(Chart!vars)
    BY DEF PartsNext, CaptureStep, ImportStep, MetricsStep, allVars, metricsVars, Chart!vars
  <1> QED
    BY <1>1, <1>2, <1>3, <1>4, PTL DEF PartsSpec, Spec, Import!Spec, Chart!Spec

(* An import makes one record of each key that it reports imported, and    *)
(* one more for each line it reports as not saved; when it ends, every API *)
(* key of its text is there, was deleted meanwhile or was refused: however *)
(* many imports, deletions and failing flushes come in between.            *)
THEOREM ImportsAreFaithful == PartsSpec => []ImportFaithful
  <1>1. ImportInv => ImportFaithful
    BY ImportIsFaithful DEF ImportFaithful
  <1> QED
    BY <1>1, ImportAlways, PTL

(* A chart of any part of the last seven days shows every request counted, *)
(* once, at its minute and in order, and the deepest queue; whatever was   *)
(* pruned or saved when, and after a restart all that had been saved.      *)
THEOREM ChartsAreComplete == PartsSpec => []ChartComplete
  <1>1. MetricsInv => ChartComplete
    BY ChartIsComplete DEF ChartComplete
  <1> QED
    BY <1>1, MetricsAlways, PTL

(* Every part has its types, however many keys, imports and minutes.       *)
THEOREM StorePartsTyped == PartsSpec => []StorePartsTypeOK
  <1>1. ImportInv /\ MetricsInv /\ TypeOK => StorePartsTypeOK
    BY DEF ImportInv, MetricsInv, StorePartsTypeOK
  <1> QED
    BY <1>1, ImportAlways, MetricsAlways, StorePartsAreParts, CaptureTypes, PTL

(* The captures of StoreParts are those of CaptureStore: what is proved of *)
(* their queue and of counted losses holds in it.                          *)
THEOREM PartsKeepCaptures == PartsSpec => [](QueueSafe /\ CapturesSafe) /\ LossesCounted
  BY StorePartsAreParts, QueueIsSafe, CapturesAreSafe, LossesAreCounted, PTL
=============================================================================
