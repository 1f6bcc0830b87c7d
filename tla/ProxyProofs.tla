---------------------------- MODULE ProxyProofs ----------------------------
(***************************************************************************)
(* Proofs about ProxyPool and ProxyNodes, for any number of nodes and      *)
(* requests and any capacities.                                            *)
(*                                                                         *)
(* The pool: a request is counted on the node it runs through, and counted *)
(* there once; so the guard of the choice, which compares the count with   *)
(* the room in the request's own list, bounds those with as little room or *)
(* less.                                                                   *)
(*                                                                         *)
(* The rotation: the candidates in the order of their ids have places from *)
(* 0 on (Rank), and Nth finds the candidate of a place.  As long as the    *)
(* candidates stay, the places chosen so far are an interval, round the    *)
(* corner, that ends at the counter.                                       *)
(*                                                                         *)
(* The registry: what is promised is in memory and on disk, and what is    *)
(* being saved is in memory until the flush has answered.                  *)
(***************************************************************************)
EXTENDS ProxyNodes, FiniteSetTheorems, TLAPS

LEMMA RequestSets ==
    ASSUME NEW S \in SUBSET Requests
    PROVE  IsFiniteSet(S) /\ Cardinality(S) \in Nat
BY RequestsAssumption, FS_Subset, FS_CardinalityType

(* The place of a node in a set of nodes that is sorted by id.             *)
Rank(S, n) == Cardinality({k \in S : k < n})

(* Each place is taken by one node.                                        *)
LEMMA Ranks ==
    ASSUME NEW S \in SUBSET Nodes, S # {}
    PROVE  /\ IsFiniteSet(S) /\ Cardinality(S) \in Nat \ {0} /\ Cardinality(S) \in Nodes
           /\ \A n \in S : Rank(S, n) \in 0..(Cardinality(S) - 1)
           /\ \A m, n \in S : Rank(S, m) = Rank(S, n) => m = n
           /\ \A i \in 0..(Cardinality(S) - 1) : Nth(S, i) \in S /\ Rank(S, Nth(S, i)) = i
<1> DEFINE Less(n) == {k \in S : k < n}
           size == Cardinality(S)
           f == [n \in S |-> Rank(S, n)]
<1>1. IsFiniteSet(S) /\ size \in Nat \ {0} /\ S \subseteq Int /\ size \in Nodes
  <2>1. IsFiniteSet(Nodes) /\ Nodes \subseteq Int /\ Cardinality(Nodes) = NumNodes
      BY NodesAssumption, FS_Interval DEF Nodes
  <2>2. IsFiniteSet(S) /\ size <= NumNodes
      BY <2>1, FS_Subset
  <2>3. size \in Nat
      BY <2>2, FS_CardinalityType
  <2>4. size # 0
      BY <2>2, FS_EmptySet
  <2> QED
      BY <2>1, <2>2, <2>3, <2>4, NodesAssumption DEF Nodes
<1>2. \A n \in S : /\ IsFiniteSet(Less(n)) /\ Cardinality(Less(n)) \in 0..(size - 1)
                   /\ Rank(S, n) = Cardinality(Less(n))
  <2> SUFFICES ASSUME NEW n \in S
               PROVE  IsFiniteSet(Less(n)) /\ Cardinality(Less(n)) \in 0..(size - 1)
      BY DEF Rank
  <2>1. Less(n) \subseteq S \ {n}
      BY <1>1
  <2>2. IsFiniteSet(S \ {n}) /\ Cardinality(S \ {n}) = size - 1
      BY <1>1, FS_RemoveElement
  <2>3. IsFiniteSet(Less(n)) /\ Cardinality(Less(n)) <= size - 1
      BY <2>1, <2>2, FS_Subset
  <2>4. Cardinality(Less(n)) \in Nat
      BY <2>3, FS_CardinalityType
  <2> QED
      BY <2>3, <2>4, <1>1
<1>3. ASSUME NEW m \in S, NEW n \in S, m < n PROVE Rank(S, m) < Rank(S, n)
  <2>1. Less(m) \cup {m} \subseteq Less(n) /\ m \notin Less(m)
    <3>1. \A k \in S : k < m => k < n
        BY <1>1, <1>3
    <3>2. ~(m < m)
        BY <1>1
    <3> QED
        BY <3>1, <3>2, <1>3
  <2>2. Cardinality(Less(m) \cup {m}) = Cardinality(Less(m)) + 1
      BY <2>1, <1>2, FS_AddElement
  <2>3. Cardinality(Less(m) \cup {m}) <= Cardinality(Less(n))
      BY <2>1, <1>2, FS_Subset
  <2>4. Cardinality(Less(m)) \in Int /\ Cardinality(Less(n)) \in Int
      BY <1>2
  <2> QED
    <3>1. Rank(S, m) = Cardinality(Less(m)) /\ Rank(S, n) = Cardinality(Less(n))
        BY DEF Rank
    <3> HIDE DEF Less
    <3> QED
        BY <2>2, <2>3, <2>4, <3>1
<1>4. f \in Injection(S, 0..(size - 1))
  <2>1. f \in [S -> 0..(size - 1)]
      BY <1>2
  <2>2. \A m, n \in S : m # n => f[m] # f[n]
    <3> SUFFICES ASSUME NEW m \in S, NEW n \in S, m # n PROVE f[m] # f[n]
        OBVIOUS
    <3>1. m < n \/ n < m
        BY <1>1
    <3>2. f[m] = Rank(S, m) /\ f[n] = Rank(S, n) /\ f[m] \in Int /\ f[n] \in Int
        BY <2>1
    <3> QED
        BY <3>1, <3>2, <1>3
  <2> QED
      BY <2>1, <2>2 DEF Injection, IsInjective
<1>5. f \in Surjection(S, 0..(size - 1))
  <2>1. IsFiniteSet(0..(size - 1)) /\ Cardinality(0..(size - 1)) = size
      BY <1>1, FS_Interval
  <2> HIDE DEF f
  <2> QED
      BY <1>4, <2>1, FS_Injection
<1>6. \A m, n \in S : Rank(S, m) = Rank(S, n) => m = n
    BY <1>4 DEF Injection, IsInjective
<1>7. ASSUME NEW i \in 0..(size - 1) PROVE Nth(S, i) \in S /\ Rank(S, Nth(S, i)) = i
  <2>1. \E n \in S : f[n] = i
      BY <1>5 DEF Surjection
  <2>2. \E n \in S : Rank(S, n) = i
      BY <2>1
  <2> QED
      BY <2>2 DEF Nth, Rank
<1> QED
    BY <1>1, <1>2, <1>6, <1>7

LEMMA NthIsThere ==
    ASSUME NEW S \in SUBSET Nodes, S # {}, NEW c \in Nat
    PROVE  /\ Cardinality(S) \in Nat \ {0}
           /\ Nth(S, c % Cardinality(S)) \in S
           /\ Rank(S, Nth(S, c % Cardinality(S))) = c % Cardinality(S)
<1>1. Cardinality(S) \in Nat \ {0}
    BY Ranks
<1>2. c % Cardinality(S) \in 0..(Cardinality(S) - 1)
    BY <1>1
<1> QED
    BY <1>1, <1>2, Ranks

-----------------------------------------------------------------------------
PoolInv ==
    /\ PoolTypeOK
    /\ NodeInflightExact
    /\ NodeRoomRespected

LEMMA InitPool == PoolInit => PoolInv
<1> SUFFICES ASSUME PoolInit PROVE PoolInv
    OBVIOUS
<1>1. 0 \notin Nodes /\ 0 \in 0..MaxRoom /\ 0 \in 0..(Cycle - 1)
    BY NodesAssumption, CycleAssumption DEF Nodes
<1>2. PoolTypeOK
    BY <1>1 DEF PoolInit, PoolTypeOK, Stages, NodeLists, Modes, Nothing
<1>3. \A n \in Nodes : Running(n) = {}
    BY DEF PoolInit, Running
<1>4. NodeInflightExact
    BY <1>3, FS_EmptySet DEF PoolInit, NodeInflightExact, Nothing
<1>5. NodeRoomRespected
  <2> SUFFICES ASSUME NEW n \in Nodes, NEW m \in 0..MaxRoom
               PROVE  Cardinality({r \in Running(n) : room[r][n] <= m}) <= m
      BY DEF NodeRoomRespected
  <2>1. {r \in Running(n) : room[r][n] <= m} = {}
      BY <1>3
  <2>2. Cardinality({}) = 0
      BY FS_EmptySet
  <2> QED
      BY <2>1, <2>2
<1> QED
    BY <1>2, <1>4, <1>5 DEF PoolInv

(* A step that changes neither who runs through which node, nor their      *)
(* rooms, nor the counts.                                                  *)
Undisturbed ==
    /\ proxyInflight' = proxyInflight
    /\ \A n \in Nodes : Running(n)' = Running(n)
    /\ \A n \in Nodes : \A r \in Running(n) : room'[r] = room[r]

LEMMA UndisturbedKeeps ==
    ASSUME PoolInv, Undisturbed
    PROVE  NodeInflightExact' /\ NodeRoomRespected'
<1>1. NodeInflightExact'
    BY DEF PoolInv, Undisturbed, NodeInflightExact
<1>2. NodeRoomRespected'
  <2> SUFFICES ASSUME NEW n \in Nodes, NEW m \in 0..MaxRoom
               PROVE  Cardinality({r \in Running(n)' : room'[r][n] <= m}) <= m
      BY DEF NodeRoomRespected
  <2>1. {r \in Running(n)' : room'[r][n] <= m} = {r \in Running(n) : room[r][n] <= m}
      BY DEF Undisturbed
  <2> QED
      BY <2>1 DEF PoolInv, NodeRoomRespected
<1> QED
    BY <1>1, <1>2

(* A request that starts.                                                  *)
LEMMA BeginKeeps ==
    ASSUME PoolInv, NEW r \in Requests, NEW n \in Nodes,
           stage[r] = "listed", n \in Candidates(r), Begin(r, n)
    PROVE  NodeInflightExact' /\ NodeRoomRespected'
<1>1. /\ r \notin Running(n) /\ Running(n)' = Running(n) \cup {r}
      /\ \A k \in Nodes \ {n} : Running(k)' = Running(k) /\ r \notin Running(k)
      /\ \A q \in Requests \ {r} : room'[q] = room[q]
    BY DEF Begin, Running, PoolInv, PoolTypeOK
<1>2. proxyInflight' = [proxyInflight EXCEPT ![n] = @ + 1] /\ proxyInflight \in [Nodes -> Nat]
    BY DEF Begin, PoolInv, PoolTypeOK
<1>3. /\ room[r][n] \in 0..MaxRoom /\ proxyInflight[n] < room[r][n]
      /\ room'[r][n] = room[r][n]
    BY DEF Candidates, Begin, PoolInv, PoolTypeOK, NodeLists
<1>4. \A k \in Nodes : /\ Running(k) \in SUBSET Requests
                       /\ IsFiniteSet(Running(k)) /\ Cardinality(Running(k)) \in Nat
                       /\ proxyInflight[k] = Cardinality(Running(k))
    BY RequestSets DEF Running, PoolInv, NodeInflightExact
<1>5. Cardinality(Running(n)') = Cardinality(Running(n)) + 1
    BY <1>1, <1>4, FS_AddElement
<1>6. NodeInflightExact'
  <2> SUFFICES ASSUME NEW k \in Nodes PROVE proxyInflight'[k] = Cardinality(Running(k)')
      BY DEF NodeInflightExact
  <2> QED
      BY <1>1, <1>2, <1>4, <1>5
<1>7. NodeRoomRespected'
  <2> SUFFICES ASSUME NEW k \in Nodes, NEW m \in 0..MaxRoom
               PROVE  Cardinality({q \in Running(k)' : room'[q][k] <= m}) <= m
      BY DEF NodeRoomRespected
  <2> DEFINE Old == {q \in Running(k) : room[q][k] <= m}
             New == {q \in Running(k)' : room'[q][k] <= m}
  <2>1. Cardinality(Old) <= m
      BY DEF PoolInv, NodeRoomRespected
  <2>2. CASE k # n \/ room[r][n] > m
    <3>1. New = Old
        BY <2>2, <1>1, <1>3, <1>4
    <3> QED
        BY <3>1, <2>1
  <2>3. CASE k = n /\ room[r][n] <= m
    <3>1. New \subseteq Running(n)' /\ IsFiniteSet(Running(n)')
        BY <2>3, <1>1, <1>4, FS_AddElement
    <3>2. Cardinality(New) <= Cardinality(Running(n)') /\ IsFiniteSet(New)
        BY <3>1, FS_Subset
    <3>3. Cardinality(New) \in Nat
        BY <3>2, FS_CardinalityType
    <3>4. Cardinality(Running(n)) + 1 <= room[r][n]
        BY <1>3, <1>4
    <3> QED
        BY <2>3, <3>2, <3>3, <3>4, <1>3, <1>4, <1>5
  <2> QED
      BY <2>2, <2>3, <1>3
<1> QED
    BY <1>6, <1>7

(* A request that ends.                                                    *)
LEMMA ReleaseKeeps ==
    ASSUME PoolInv, NEW r \in Requests, releaseSelected(r)
    PROVE  NodeInflightExact' /\ NodeRoomRespected'
<1>1. PICK n \in Nodes : n = via[r] /\ r \in Running(n)
    BY DEF releaseSelected, Running, PoolInv, PoolTypeOK
<1>2. /\ Running(n)' = Running(n) \ {r}
      /\ \A k \in Nodes \ {n} : Running(k)' = Running(k) /\ r \notin Running(k)
      /\ \A q \in Requests \ {r} : room'[q] = room[q]
  <2>1. /\ stage \in [Requests -> Stages] /\ stage' = [stage EXCEPT ![r] = "idle"]
        /\ via \in [Requests -> Nodes \cup {0}] /\ via' = [via EXCEPT ![r] = 0]
        /\ room \in [Requests -> NodeLists] /\ room' = [room EXCEPT ![r] = Nothing]
      BY DEF releaseSelected, Withdraw, PoolInv, PoolTypeOK
  <2>2. Running(n)' = Running(n) \ {r}
      BY <2>1, <1>1 DEF Running
  <2>3. \A k \in Nodes \ {n} : Running(k)' = Running(k) /\ r \notin Running(k)
      BY <2>1, <1>1 DEF Running
  <2>4. \A q \in Requests \ {r} : room'[q] = room[q]
      BY <2>1
  <2> QED
      BY <2>2, <2>3, <2>4
<1>3. \A k \in Nodes : /\ Running(k) \in SUBSET Requests
                       /\ IsFiniteSet(Running(k)) /\ Cardinality(Running(k)) \in Nat
                       /\ proxyInflight[k] = Cardinality(Running(k))
    BY RequestSets DEF Running, PoolInv, NodeInflightExact
<1>4. Cardinality(Running(n)') = Cardinality(Running(n)) - 1 /\ Cardinality(Running(n)) > 0
  <2>1. Cardinality(Running(n)') = Cardinality(Running(n)) - 1
    <3>1. IsFiniteSet(Running(n)) /\ r \in Running(n) /\ Running(n)' = Running(n) \ {r}
        BY <1>1, <1>2, <1>3
    <3> QED
        BY <3>1, FS_RemoveElement
  <2>2. Cardinality(Running(n)) # 0
      BY <1>1, <1>3, FS_EmptySet
  <2> QED
      BY <2>1, <2>2, <1>1, <1>3
<1>5. /\ proxyInflight \in [Nodes -> Nat]
      /\ proxyInflight' = [proxyInflight EXCEPT ![n] = IF @ > 0 THEN @ - 1 ELSE @]
    BY <1>1 DEF releaseSelected, PoolInv, PoolTypeOK
<1>6. NodeInflightExact'
  <2> SUFFICES ASSUME NEW k \in Nodes PROVE proxyInflight'[k] = Cardinality(Running(k)')
      BY DEF NodeInflightExact
  <2>1. CASE k = n
      BY <2>1, <1>1, <1>3, <1>4, <1>5
  <2>2. CASE k # n
      BY <2>2, <1>1, <1>2, <1>3, <1>5
  <2> QED
      BY <2>1, <2>2
<1>7. NodeRoomRespected'
  <2> SUFFICES ASSUME NEW k \in Nodes, NEW m \in 0..MaxRoom
               PROVE  Cardinality({q \in Running(k)' : room'[q][k] <= m}) <= m
      BY DEF NodeRoomRespected
  <2> DEFINE Old == {q \in Running(k) : room[q][k] <= m}
             New == {q \in Running(k)' : room'[q][k] <= m}
  <2>1. Cardinality(Old) <= m
      BY DEF PoolInv, NodeRoomRespected
  <2>2. New \subseteq Old /\ Old \in SUBSET Requests
    <3>1. Running(k)' \subseteq Running(k) \ {r}
        BY <1>2
    <3>2. \A q \in Running(k)' : q \in Requests /\ q # r /\ room'[q][k] = room[q][k]
        BY <3>1, <1>2, <1>3
    <3> QED
        BY <3>1, <3>2, <1>3
  <2>3. Cardinality(New) <= Cardinality(Old) /\ Cardinality(New) \in Nat /\ Cardinality(Old) \in Nat
      BY <2>2, RequestSets, FS_Subset
  <2> QED
      BY <2>1, <2>3
<1> QED
    BY <1>6, <1>7

LEMMA WithTurnTyped ==
    ASSUME NEW C \in SUBSET Nodes, NEW n \in Nodes, turns \in [Nodes -> Nat]
    PROVE  WithTurn(C, n) \in [Nodes -> Nat]
<1> DEFINE t == [k \in Nodes |-> (IF C = rotation THEN turns[k] ELSE 0) + (IF k = n THEN 1 ELSE 0)]
<1>1. t \in [Nodes -> Nat]
    OBVIOUS
<1> HIDE DEF t
<1>2. CASE \A k \in C : t[k] > 0
  <2>1. [k \in Nodes |-> IF k \in C THEN t[k] - 1 ELSE 0] \in [Nodes -> Nat]
      BY <1>1, <1>2
  <2> QED
      BY <2>1, <1>2 DEF WithTurn, t
<1>3. CASE ~(\A k \in C : t[k] > 0)
    BY <1>1, <1>3 DEF WithTurn, t
<1> QED
    BY <1>2, <1>3

LEMMA SelectNextChooses ==
    ASSUME PoolTypeOK, NEW r \in Requests, SelectNext(r)
    PROVE  \E n \in Candidates(r) :
               /\ Begin(r, n)
               /\ turns' = WithTurn(Candidates(r), n)
               /\ rotation' = Candidates(r)
<1>1. Candidates(r) \subseteq Nodes /\ Candidates(r) # {} /\ proxyRoundRobin \in Nat
    BY CycleAssumption DEF Candidates, SelectNext, PoolTypeOK
<1>2. Nth(Candidates(r), proxyRoundRobin % Cardinality(Candidates(r))) \in Candidates(r)
    BY <1>1, NthIsThere
<1> QED
    BY <1>2 DEF SelectNext

LEMMA BeginTyped ==
    ASSUME PoolTypeOK, NEW r \in Requests, NEW n \in Nodes, Begin(r, n)
    PROVE  /\ stage' \in [Requests -> Stages]
           /\ room' \in [Requests -> NodeLists]
           /\ mode' \in [Requests -> Modes]
           /\ via' \in [Requests -> Nodes \cup {0}]
           /\ \A q \in Requests : (stage'[q] = "running") = (via'[q] \in Nodes)
           /\ proxyInflight' \in [Nodes -> Nat]
<1>1. [k \in Nodes |-> IF k = n THEN room[r][k] ELSE 0] \in NodeLists
    BY NodesAssumption DEF PoolTypeOK, NodeLists
<1>2. room' \in [Requests -> NodeLists]
    BY <1>1 DEF Begin, PoolTypeOK
<1>3. stage' \in [Requests -> Stages] /\ mode' \in [Requests -> Modes]
    BY DEF Begin, PoolTypeOK, Stages, Modes
<1>4. /\ via' \in [Requests -> Nodes \cup {0}]
      /\ \A q \in Requests : (stage'[q] = "running") = (via'[q] \in Nodes)
    BY DEF Begin, PoolTypeOK
<1>5. proxyInflight' \in [Nodes -> Nat]
    BY DEF Begin, PoolTypeOK
<1> QED
    BY <1>2, <1>3, <1>4, <1>5

LEMMA WithdrawTyped ==
    ASSUME PoolTypeOK, NEW r \in Requests, Withdraw(r)
    PROVE  /\ stage' \in [Requests -> Stages]
           /\ room' \in [Requests -> NodeLists]
           /\ mode' \in [Requests -> Modes]
<1>1. Nothing \in NodeLists
    BY NodesAssumption DEF Nothing, NodeLists
<1> QED
    BY <1>1 DEF Withdraw, PoolTypeOK, Stages, Modes

LEMMA PoolTypeKept ==
    ASSUME PoolTypeOK, [PoolNext]_poolVars
    PROVE  PoolTypeOK'
<1>0. 0 \notin Nodes
    BY DEF Nodes
<1>1. ASSUME NEW r \in Requests, NEW list \in NodeLists, NEW m \in Modes, ListProxyNodes(r, list, m)
      PROVE  PoolTypeOK'
    BY <1>1 DEF ListProxyNodes, PoolTypeOK, Stages
<1>2. ASSUME NEW r \in Requests, SelectNext(r) PROVE PoolTypeOK'
  <2>1. PICK n \in Candidates(r) : /\ Begin(r, n)
                                   /\ turns' = WithTurn(Candidates(r), n)
                                   /\ rotation' = Candidates(r)
      BY <1>2, SelectNextChooses
  <2>2. Candidates(r) \subseteq Nodes /\ n \in Nodes
      BY DEF Candidates
  <2>3. turns' \in [Nodes -> Nat]
      BY <2>1, <2>2, WithTurnTyped DEF PoolTypeOK
  <2>4. proxyRoundRobin' \in 0..(Cycle - 1)
    <3>1. proxyRoundRobin' = (proxyRoundRobin + 1) % Cycle
        BY <1>2 DEF SelectNext
    <3> QED
        BY <3>1, CycleAssumption DEF PoolTypeOK
  <2> QED
      BY <2>1, <2>2, <2>3, <2>4, BeginTyped DEF PoolTypeOK
<1>3. ASSUME NEW r \in Requests, NEW n \in Nodes, SelectBound(r, n) PROVE PoolTypeOK'
    BY <1>3, BeginTyped DEF SelectBound, PoolTypeOK
<1>4. ASSUME NEW r \in Requests, NoAvailableProxy(r) \/ SelectOther(r) PROVE PoolTypeOK'
  <2>1. Withdraw(r) /\ stage[r] = "listed"
        /\ UNCHANGED <<via, proxyInflight, proxyRoundRobin, rotation, turns>>
      BY <1>4 DEF NoAvailableProxy, SelectOther
  <2>2. \A q \in Requests : (stage'[q] = "running") = (via'[q] \in Nodes)
      BY <2>1 DEF Withdraw, PoolTypeOK
  <2> QED
      BY <2>1, <2>2, WithdrawTyped DEF PoolTypeOK
<1>5. ASSUME NEW r \in Requests, releaseSelected(r) PROVE PoolTypeOK'
  <2>1. Withdraw(r) /\ stage[r] = "running" /\ via' = [via EXCEPT ![r] = 0]
        /\ UNCHANGED <<proxyRoundRobin, rotation, turns>>
      BY <1>5 DEF releaseSelected
  <2>2. /\ via' \in [Requests -> Nodes \cup {0}]
        /\ \A q \in Requests : (stage'[q] = "running") = (via'[q] \in Nodes)
      BY <2>1, <1>0 DEF Withdraw, PoolTypeOK
  <2>3. proxyInflight' \in [Nodes -> Nat]
      BY <1>5 DEF releaseSelected, PoolTypeOK
  <2> QED
      BY <2>1, <2>2, <2>3, WithdrawTyped DEF PoolTypeOK
<1>6. CASE RestartPool
    BY <1>6, <1>0, NodesAssumption, CycleAssumption
       DEF RestartPool, PoolTypeOK, Stages, NodeLists, Modes, Nothing
<1>7. CASE UNCHANGED poolVars
    BY <1>7 DEF poolVars, PoolTypeOK
<1> QED
    BY <1>1, <1>2, <1>3, <1>4, <1>5, <1>6, <1>7 DEF PoolNext, acquireProxy

LEMMA PoolKept ==
    ASSUME PoolInv, [PoolNext]_poolVars
    PROVE  PoolInv'
<1>0. PoolTypeOK' /\ PoolTypeOK
    BY PoolTypeKept DEF PoolInv
<1> SUFFICES NodeInflightExact' /\ NodeRoomRespected'
    BY <1>0 DEF PoolInv
<1>1. ASSUME NEW r \in Requests, NEW list \in NodeLists, NEW m \in Modes, ListProxyNodes(r, list, m)
      PROVE  Undisturbed
    BY <1>0, <1>1 DEF ListProxyNodes, Undisturbed, Running, PoolTypeOK
<1>2. ASSUME NEW r \in Requests, SelectNext(r)
      PROVE  NodeInflightExact' /\ NodeRoomRespected'
  <2>1. PICK n \in Candidates(r) : Begin(r, n)
      BY <1>0, <1>2, SelectNextChooses
  <2>2. n \in Nodes /\ stage[r] = "listed"
      BY <1>2 DEF Candidates, SelectNext
  <2> QED
      BY <2>1, <2>2, BeginKeeps
<1>3. ASSUME NEW r \in Requests, NEW n \in Nodes, SelectBound(r, n)
      PROVE  NodeInflightExact' /\ NodeRoomRespected'
    BY <1>3, BeginKeeps DEF SelectBound
<1>4. ASSUME NEW r \in Requests, NoAvailableProxy(r) \/ SelectOther(r)
      PROVE  Undisturbed
    BY <1>0, <1>4 DEF NoAvailableProxy, SelectOther, Withdraw, Undisturbed, Running, PoolTypeOK
<1>5. ASSUME NEW r \in Requests, releaseSelected(r)
      PROVE  NodeInflightExact' /\ NodeRoomRespected'
    BY <1>5, ReleaseKeeps
<1>6. CASE RestartPool
  <2>1. \A n \in Nodes : Running(n)' = {} /\ proxyInflight'[n] = 0
      BY <1>6 DEF RestartPool, Running, Nothing
  <2>2. Cardinality({}) = 0
      BY FS_EmptySet
  <2>3. NodeInflightExact'
      BY <2>1, <2>2 DEF NodeInflightExact
  <2>4. ASSUME NEW n \in Nodes, NEW m \in 0..MaxRoom
        PROVE  Cardinality({r \in Running(n)' : room'[r][n] <= m}) <= m
    <3>1. {r \in Running(n)' : room'[r][n] <= m} = {}
        BY <2>1
    <3> QED
        BY <3>1, <2>2
  <2> QED
      BY <2>3, <2>4 DEF NodeRoomRespected
<1>7. CASE UNCHANGED poolVars
  <2>1. Undisturbed
      BY <1>7 DEF poolVars, Undisturbed, Running
  <2> QED
      BY <2>1, UndisturbedKeeps
<1> QED
    BY <1>1, <1>2, <1>3, <1>4, <1>5, <1>6, <1>7, UndisturbedKeeps DEF PoolNext, acquireProxy

LEMMA PoolAlways == PoolSpec => []PoolInv
<1>1. PoolInv /\ [PoolNext]_poolVars => PoolInv'
    BY PoolKept
<1> QED
    BY InitPool, <1>1, PTL DEF PoolSpec

(* The type invariant of the pool.                                         *)
THEOREM PoolTyped == PoolSpec => []PoolTypeOK
BY PoolAlways, PTL DEF PoolInv

(* Each node's count is the number of requests that run through it,        *)
(* whatever the nodes and their lists do meanwhile.                        *)
THEOREM CountExact == PoolSpec => []NodeInflightExact
BY PoolAlways, PTL DEF PoolInv

(* A node never carries more requests than the room in the lists by which  *)
(* they came, however old these lists are.                                 *)
THEOREM RoomKept == PoolSpec => []NodeRoomRespected
BY PoolAlways, PTL DEF PoolInv

-----------------------------------------------------------------------------
(* The rotation                                                            *)

(* Quotient and remainder are unique.                                      *)
LEMMA Remainder ==
    ASSUME NEW m \in Nat \ {0}, NEW c \in Nat
    PROVE  /\ c % m \in 0..(m - 1)
           /\ c \div m \in Nat
           /\ c = (m * (c \div m)) + (c % m)
BY Z3T(30)

LEMMA RemainderUnique ==
    ASSUME NEW m \in Nat \ {0}, NEW a \in Int, NEW b \in Int,
           NEW u \in 0..(m - 1), NEW v \in 0..(m - 1), (m * a) + u = (m * b) + v
    PROVE  u = v
<1>1. ASSUME NEW x \in Int, NEW y \in Int, NEW s \in 0..(m - 1), NEW t \in 0..(m - 1),
             (m * x) + s = (m * y) + t, x + 1 <= y
      PROVE  FALSE
  <2>1. PICK d \in Nat : y = x + 1 + d
      BY <1>1
  <2>2. m * y = (m * x) + m + (m * d)
      BY <2>1
  <2>3. m * d >= 0 /\ m * d \in Int /\ m * x \in Int /\ m * y \in Int
      OBVIOUS
  <2> QED
      BY <1>1, <2>2, <2>3
<1>2. a = b \/ a + 1 <= b \/ b + 1 <= a
    OBVIOUS
<1>3. ASSUME a = b PROVE u = v
  <2>1. m * a = m * b /\ m * a \in Int
    BY <1>3
  <2> QED
    BY <2>1
<1> QED
    BY <1>1, <1>2, <1>3

LEMMA NextRemainder ==
    ASSUME NEW m \in Nat \ {0}, NEW c \in Nat
    PROVE  (c + 1) % m = IF (c % m) + 1 = m THEN 0 ELSE (c % m) + 1
<1> DEFINE q == c \div m
           u == c % m
           p == (c + 1) \div m
           v == (c + 1) % m
<1>1. u \in 0..(m - 1) /\ q \in Nat /\ c = (m * q) + u
    BY Remainder
<1>2. v \in 0..(m - 1) /\ p \in Nat /\ c + 1 = (m * p) + v
  <2>1. c + 1 \in Nat
      OBVIOUS
  <2> QED
      BY <2>1, Remainder
<1>3. m * q \in Int /\ m * p \in Int
    BY <1>1, <1>2
<1> HIDE DEF q, u, p, v
<1>4. CASE u + 1 = m
  <2>1. m * (q + 1) = (m * q) + m
      BY <1>1
  <2>2. (m * (q + 1)) + 0 = (m * p) + v
      BY <2>1, <1>1, <1>2, <1>3, <1>4
  <2>3. v = 0
      BY <2>2, <1>1, <1>2, RemainderUnique
  <2> QED
      BY <2>3, <1>4 DEF u, v
<1>5. CASE u + 1 # m
  <2>1. u + 1 \in 0..(m - 1) /\ (m * q) + (u + 1) = (m * p) + v
      BY <1>1, <1>2, <1>3, <1>5
  <2>2. v = u + 1
      BY <2>1, <1>1, <1>2, RemainderUnique
  <2> QED
      BY <2>2, <1>5 DEF u, v
<1> QED
    BY <1>4, <1>5

(* A counter that starts again at a multiple of m steps through the        *)
(* remainders by m in their order.                                         *)
LEMMA NextPosition ==
    ASSUME NEW m \in Nat \ {0}, NEW n \in Nat \ {0}, n % m = 0, NEW c \in 0..(n - 1)
    PROVE  ((c + 1) % n) % m = IF (c % m) + 1 = m THEN 0 ELSE (c % m) + 1
<1>0. c \in Nat
    OBVIOUS
<1>1. (c + 1) % m = IF (c % m) + 1 = m THEN 0 ELSE (c % m) + 1
    BY <1>0, NextRemainder
<1>2. c % m \in 0..(m - 1)
    BY <1>0, Remainder
<1>3. CASE c + 1 < n
  <2>1. (c + 1) % n = c + 1
      BY <1>3
  <2> QED
      BY <2>1, <1>1
<1>4. CASE c + 1 = n
  <2>1. (c + 1) % n = 0 /\ 0 % m = 0
      BY <1>4
  <2>2. (c % m) + 1 = m
      BY <1>1, <1>2, <1>4
  <2> QED
      BY <2>1, <2>2
<1> QED
    BY <1>3, <1>4

(* The place whose turn it is next, and the places that had their turn     *)
(* since place s was the next.                                             *)
Pos(C) == proxyRoundRobin % Cardinality(C)
Taken(s, p, i) == IF s <= p THEN s <= i /\ i < p ELSE i < p \/ s <= i

(* Whoever had a turn in this rotation had one, and these are the ones     *)
(* before the next.                                                        *)
RotationFrom(s) ==
    \A n \in Nodes :
        turns[n] = IF n \in rotation /\ Taken(s, Pos(rotation), Rank(rotation, n)) THEN 1 ELSE 0

RotationInv ==
    IF rotation = {} THEN turns = Nothing
    ELSE \E s \in 0..(Cardinality(rotation) - 1) : RotationFrom(s)

LEMMA SelectNextRotates ==
    ASSUME PoolTypeOK, RotationInv, NEW r \in Requests, SelectNext(r)
    PROVE  RotationInv'
<1> DEFINE C == Candidates(r)
           size == Cardinality(C)
           p == proxyRoundRobin % size
           n == Nth(C, p)
           next == IF p + 1 = size THEN 0 ELSE p + 1
           had(k) == IF C = rotation THEN turns[k] ELSE 0
           t == [k \in Nodes |-> had(k) + (IF k = n THEN 1 ELSE 0)]
<1>1. C \in SUBSET Nodes /\ C # {} /\ proxyRoundRobin \in 0..(Cycle - 1) /\ proxyRoundRobin \in Nat
    BY CycleAssumption DEF Candidates, SelectNext, PoolTypeOK
<1>2. /\ size \in Nat \ {0} /\ size \in Nodes /\ p \in 0..(size - 1)
      /\ n \in C /\ n \in Nodes /\ Rank(C, n) = p
      /\ \A k \in C : Rank(C, k) \in 0..(size - 1) /\ (k # n => Rank(C, k) # p)
  <2>1. size \in Nat \ {0} /\ size \in Nodes
      BY <1>1, Ranks
  <2>2. p \in 0..(size - 1)
      BY <1>1, <2>1
  <2> QED
      BY <1>1, <2>1, <2>2, Ranks
<1>3. /\ rotation' = C /\ turns' = WithTurn(C, n)
      /\ proxyRoundRobin' = (proxyRoundRobin + 1) % Cycle
    BY DEF SelectNext
<1>4. proxyRoundRobin' % size = next
    BY <1>1, <1>2, <1>3, CycleAssumption, NextPosition
<1>5. turns' = IF \A k \in C : t[k] > 0
               THEN [k \in Nodes |-> IF k \in C THEN t[k] - 1 ELSE 0] ELSE t
    BY <1>3 DEF WithTurn
<1>6. \E s \in 0..(size - 1) : \A k \in Nodes : had(k) = IF k \in C /\ Taken(s, p, Rank(C, k)) THEN 1 ELSE 0
  <2>1. CASE C = rotation
      BY <2>1, <1>1 DEF RotationInv, RotationFrom, Pos
  <2>2. CASE C # rotation
    <3>1. \A i \in 0..(size - 1) : ~Taken(p, p, i)
        BY <1>2 DEF Taken
    <3> QED
        BY <2>2, <3>1, <1>2
  <2> QED
      BY <2>1, <2>2
<1>7. PICK s \in 0..(size - 1) :
          \A k \in Nodes : had(k) = IF k \in C /\ Taken(s, p, Rank(C, k)) THEN 1 ELSE 0
    BY <1>6
<1> HIDE DEF C, size, p, n, had
(* The next place has not had its turn; the one behind it begins the count *)
(* anew, or has not had its turn either.                                   *)
<1>8. /\ ~Taken(s, p, p)
      /\ \A i \in 0..(size - 1) : ~Taken(next, next, i)
      /\ next = s => \A i \in 0..(size - 1) : Taken(s, p, i) \/ i = p
      /\ next # s => \A i \in 0..(size - 1) : Taken(s, next, i) <=> Taken(s, p, i) \/ i = p
      /\ next \in 0..(size - 1)
  <2>1. next = IF p + 1 = size THEN 0 ELSE p + 1
      OBVIOUS
  <2> HIDE DEF next
  <2>2. next \in 0..(size - 1)
      BY <2>1, <1>2
  <2>3. size \in Nat \ {0} /\ p \in 0..(size - 1)
      BY <1>2
  <2>4. CASE p + 1 = size
      BY <2>1, <2>2, <2>3, <2>4 DEF Taken
  <2>5. CASE p + 1 # size
      BY <2>1, <2>2, <2>3, <2>5 DEF Taken
  <2> QED
      BY <2>4, <2>5
<1> HIDE DEF next
<1>9. \A k \in Nodes :
          t[k] = IF k \in C /\ (Taken(s, p, Rank(C, k)) \/ Rank(C, k) = p) THEN 1 ELSE 0
  <2> SUFFICES ASSUME NEW k \in Nodes
               PROVE  had(k) + (IF k = n THEN 1 ELSE 0)
                      = IF k \in C /\ (Taken(s, p, Rank(C, k)) \/ Rank(C, k) = p) THEN 1 ELSE 0
      OBVIOUS
  <2>1. CASE k = n
      BY <2>1, <1>2, <1>7, <1>8
  <2>2. CASE k # n
      BY <2>2, <1>2, <1>7
  <2> QED
      BY <2>1, <2>2
<1> HIDE DEF t
<1>10. \E u \in 0..(size - 1) : \A k \in Nodes :
          turns'[k] = IF k \in C /\ Taken(u, next, Rank(C, k)) THEN 1 ELSE 0
  <2>1. CASE \A k \in C : t[k] > 0
    <3>1. \A k \in C : t[k] = 1
        BY <2>1, <1>1, <1>9
    <3>2. \A k \in Nodes : turns'[k] = 0
        BY <3>1, <2>1, <1>1, <1>5
    <3>3. \A k \in C : ~Taken(next, next, Rank(C, k))
        BY <1>2, <1>8
    <3> QED
        BY <3>2, <3>3, <1>8
  <2>2. CASE ~(\A k \in C : t[k] > 0)
    <3>1. next # s
        BY <2>2, <1>1, <1>2, <1>8, <1>9
    <3>2. \A k \in C : Taken(s, next, Rank(C, k)) <=> Taken(s, p, Rank(C, k)) \/ Rank(C, k) = p
        BY <3>1, <1>2, <1>8
    <3>3. \A k \in Nodes : turns'[k] = IF k \in C /\ Taken(s, next, Rank(C, k)) THEN 1 ELSE 0
        BY <3>2, <2>2, <1>5, <1>9
    <3> QED
        BY <3>3
  <2> QED
      BY <2>1, <2>2
<1> QED
    BY <1>1, <1>3, <1>4, <1>10 DEF RotationInv, RotationFrom, Pos, size

LEMMA RotationKept ==
    ASSUME PoolTypeOK, RotationInv, [PoolNext]_poolVars
    PROVE  RotationInv'
<1>1. CASE UNCHANGED <<proxyRoundRobin, rotation, turns>>
    BY <1>1 DEF RotationInv, RotationFrom, Pos
<1>2. ASSUME NEW r \in Requests, SelectNext(r) PROVE RotationInv'
    BY <1>2, SelectNextRotates
<1>3. CASE RestartPool
    BY <1>3 DEF RestartPool, RotationInv, Nothing
<1> QED
    BY <1>1, <1>2, <1>3
    DEF PoolNext, poolVars, acquireProxy, ListProxyNodes, SelectBound, NoAvailableProxy,
        SelectOther, releaseSelected

LEMMA RotationAlways == PoolSpec => []RotationInv
<1>1. PoolInit => RotationInv
    BY DEF PoolInit, RotationInv
<1>2. PoolInv /\ RotationInv /\ [PoolNext]_poolVars => RotationInv'
    BY RotationKept DEF PoolInv
<1> QED
    BY <1>1, <1>2, PoolAlways, PTL DEF PoolSpec

(* While the candidates stay the same, no node is chosen again before all  *)
(* others were, however many choices by key, failures and releases lie in  *)
(* between.                                                                *)
THEOREM RotationIsEven == PoolSpec => []PoolRotates
<1>1. RotationInv => PoolRotates
  <2> SUFFICES ASSUME RotationInv, NEW n \in Nodes PROVE turns[n] <= 1
      BY DEF PoolRotates
  <2> QED
      BY DEF RotationInv, RotationFrom, Nothing
<1> QED
    BY <1>1, RotationAlways, PTL

(* ProxyPool.PoolSafe: exact counts, room kept, and even rotation.         *)
THEOREM PoolIsSafe == PoolSpec => []PoolSafe
<1>1. NodeInflightExact /\ NodeRoomRespected /\ PoolRotates => PoolSafe
    BY DEF PoolSafe
<1> QED
    BY <1>1, CountExact, RoomKept, RotationIsEven, PTL

-----------------------------------------------------------------------------
(* The registry                                                            *)

Keeps(p, settings) == p # Absent /\ SettingsOf(p) = settings

Promises ==
    /\ \A n \in Nodes : promised[n] # Absent =>
          Keeps(proxies[n], promised[n]) /\ Keeps(stored[n], promised[n])
    /\ saving # Nobody =>
          /\ promised[saving.node] = Absent
          /\ saving.settings # Absent => Keeps(proxies[saving.node], saving.settings)

RegistryInv == TypeOK /\ Promises

(* Shape of records                                                        *)
LEMMA RecordsTyped ==
    ASSUME NEW p \in Records
    PROVE  /\ p # Absent
           /\ p.enabled \in BOOLEAN /\ p.max \in 1..MaxRoom /\ p.addressed \in BOOLEAN
           /\ p.conns \in 0..MaxConnections /\ p.age \in 0..Stale
BY AbsentAssumption DEF Records

LEMMA Constants ==
    /\ MaxRoom \in Nat /\ MaxConnections \in Nat /\ Stale \in Nat /\ OnlineAfter \in Nat
    /\ Stale = OnlineAfter + 1
    /\ \A m \in 0..MaxRoom : Positive(m) \in 1..MaxRoom
    /\ \A n \in Nodes : Capacity[n] \in 0..MaxRoom
<1>1. \A m \in 0..MaxRoom : Positive(m) \in 1..MaxRoom
    BY NodesAssumption, CapacityAssumption DEF Positive
<1> QED
    BY <1>1, NodesAssumption, BoundsAssumption, CapacityAssumption DEF Stale

(* What a report makes of a record.                                        *)
LEMMA ReportedTyped ==
    ASSUME NEW c \in 0..MaxConnections, NEW a \in BOOLEAN, NEW p \in Records
    PROVE  /\ [p EXCEPT !.addressed = a, !.conns = c, !.age = 0] \in Records
           /\ SettingsOf([p EXCEPT !.addressed = a, !.conns = c, !.age = 0]) = SettingsOf(p)
<1>1. 0 \in 0..Stale
    BY Constants
<1> QED
    BY <1>1 DEF Records, SettingsOf

LEMMA RegisteredTyped ==
    ASSUME NEW c \in 0..MaxConnections, NEW a \in BOOLEAN, NEW n \in Nodes
    PROVE  [enabled |-> TRUE, max |-> Positive(Capacity[n]), addressed |-> a,
            conns |-> c, age |-> 0] \in Records
<1>1. 0 \in 0..Stale /\ Positive(Capacity[n]) \in 1..MaxRoom
    BY Constants
<1> QED
    BY <1>1 DEF Records

LEMMA LoadedTyped ==
    ASSUME NEW p \in Records
    PROVE  Loaded(p) \in Records /\ SettingsOf(Loaded(p)) = SettingsOf(p)
<1>1. Stale \in 0..Stale /\ 0 \in 0..MaxConnections
    BY Constants
<1>2. p # Absent
    BY RecordsTyped
<1> QED
    BY <1>1, <1>2 DEF Records, SettingsOf, Loaded

LEMMA EditedTyped ==
    ASSUME NEW p \in Records, NEW e \in BOOLEAN, NEW m \in 1..MaxRoom, NEW a \in BOOLEAN
    PROVE  LET q == [p EXCEPT !.enabled = e, !.max = m, !.addressed = a]
           IN  q \in Records /\ SettingsOf(q) = [enabled |-> e, max |-> m]
BY DEF Records, SettingsOf

LEMMA AgedTyped ==
    ASSUME NEW p \in Records, p.age <= OnlineAfter
    PROVE  /\ [p EXCEPT !.age = @ + 1] \in Records
           /\ SettingsOf([p EXCEPT !.age = @ + 1]) = SettingsOf(p)
<1>1. p.age + 1 \in 0..Stale
    BY Constants, RecordsTyped
<1> QED
    BY <1>1 DEF Records, SettingsOf

LEMMA RoomTyped == ASSUME TypeOK PROVE [n \in Nodes |-> RoomOf(n)] \in NodeLists
<1> SUFFICES ASSUME NEW n \in Nodes PROVE RoomOf(n) \in 0..MaxRoom
    BY DEF NodeLists
<1>1. CASE proxies[n] = Absent
    BY <1>1, Constants DEF RoomOf, Online
<1>2. CASE proxies[n] # Absent
  <2>1. proxies[n] \in Records
      BY <1>2 DEF TypeOK
  <2>2. proxies[n].max \in 1..MaxRoom /\ proxies[n].conns \in 0..MaxConnections
      BY <2>1, RecordsTyped
  <2>3. proxies[n].conns < proxies[n].max => proxies[n].max - proxies[n].conns \in 0..MaxRoom
      BY <2>2, Constants
  <2> QED
      BY <2>3, Constants DEF RoomOf
<1> QED
    BY <1>1, <1>2

-----------------------------------------------------------------------------
(* Every step of the whole is a step of the pool, or leaves it alone.      *)
LEMMA PoolStep ==
    ASSUME TypeOK, [Next]_vars
    PROVE  [PoolNext]_poolVars
<1>1. ASSUME NEW r \in Requests, NEW m \in Modes, List(r, m) PROVE PoolNext
    BY <1>1, RoomTyped DEF List, PoolNext
<1>2. ASSUME NEW r \in Requests, Choose(r) \/ Release(r) PROVE PoolNext
    BY <1>2 DEF Choose, Release, PoolNext
<1>3. ASSUME NEW n \in Nodes,
             \/ StartNode(n) \/ StopNode(n) \/ OpenConnection(n) \/ CloseConnection(n)
             \/ sendReport(n) \/ Report(n)
             \/ \E c \in 0..MaxConnections : LoseReport(n, c)
             \/ \E e, a \in BOOLEAN, m \in 0..MaxRoom : UpdateProxyNode(n, e, m, a)
             \/ DeleteProxyNode(n)
      PROVE  UNCHANGED poolVars
    BY <1>3 DEF StartNode, StopNode, OpenConnection, CloseConnection, sendReport, Report,
                UpsertProxyNodeReport, LoseReport, UpdateProxyNode, DeleteProxyNode
<1>4. CASE FlushSucceeds \/ FlushFails \/ persistMetadata \/ Tick
    BY <1>4 DEF FlushSucceeds, FlushFails, persistMetadata, Tick
<1>5. CASE Restart
    BY <1>5 DEF Restart, PoolNext
<1>6. CASE UNCHANGED vars
    BY <1>6 DEF vars
<1> QED
    BY <1>1, <1>2, <1>3, <1>4, <1>5, <1>6 DEF Next

RegistryTyped ==
    /\ proxies \in [Nodes -> Records \cup {Absent}]
    /\ stored \in [Nodes -> Records \cup {Absent}]
    /\ saving \in Operations \cup {Nobody}
    /\ promised \in [Nodes -> Settings \cup {Absent}]
MachinesTyped ==
    /\ up \in [Nodes -> BOOLEAN]
    /\ conns \in [Nodes -> 0..MaxConnections]
    /\ sent \in [Nodes -> SUBSET (0..MaxConnections)]

LEMMA InvParts ==
    /\ RegistryInv <=> PoolTypeOK /\ RegistryTyped /\ MachinesTyped /\ Promises
    /\ RegistryInv' <=> PoolTypeOK' /\ RegistryTyped' /\ MachinesTyped' /\ Promises'
BY DEF RegistryInv, TypeOK, RegistryTyped, MachinesTyped

LEMMA SavedTyped ==
    ASSUME RegistryTyped
    PROVE  /\ Saved \in [Nodes -> Records \cup {Absent}]
           /\ \A n \in Nodes, s \in Settings : Keeps(proxies[n], s) => Keeps(Saved[n], s)
<1>1. ASSUME NEW n \in Nodes
      PROVE  /\ Loaded(proxies[n]) \in Records \cup {Absent}
             /\ \A s \in Settings : Keeps(proxies[n], s) => Keeps(Loaded(proxies[n]), s)
  <2>1. CASE proxies[n] = Absent
      BY <2>1 DEF Loaded, Keeps
  <2>2. CASE proxies[n] \in Records
      BY <2>2, LoadedTyped, RecordsTyped DEF Keeps
  <2> QED
      BY <2>1, <2>2 DEF RegistryTyped
<1> QED
    BY <1>1 DEF Saved

(* A step that changes records, but no settings and nothing else of the    *)
(* registry.                                                               *)
LEMMA SettingsStay ==
    ASSUME RegistryTyped, Promises,
           proxies' \in [Nodes -> Records \cup {Absent}],
           \A n \in Nodes : proxies[n] # Absent =>
               proxies'[n] # Absent /\ SettingsOf(proxies'[n]) = SettingsOf(proxies[n]),
           UNCHANGED <<stored, saving, promised>>
    PROVE  RegistryTyped' /\ Promises'
<1>1. RegistryTyped'
    BY DEF RegistryTyped
<1>2. \A s : \A n \in Nodes : Keeps(proxies[n], s) => Keeps(proxies'[n], s)
    BY DEF Keeps
<1>3. saving # Nobody => saving.node \in Nodes
    BY DEF RegistryTyped, Operations
<1> QED
    BY <1>1, <1>2, <1>3 DEF Promises

LEMMA ReportKeeps ==
    ASSUME RegistryTyped, Promises, MachinesTyped, NEW n \in Nodes, NEW c \in 0..MaxConnections,
           NEW a \in BOOLEAN, UpsertProxyNodeReport(n, c, a)
    PROVE  RegistryTyped' /\ Promises' /\ MachinesTyped'
<1> DEFINE first == [enabled |-> TRUE, max |-> Positive(Capacity[n]), addressed |-> a,
                     conns |-> c, age |-> 0]
           again == [proxies[n] EXCEPT !.addressed = a, !.conns = c, !.age = 0]
<1>1. first \in Records
    BY RegisteredTyped
<1>2. proxies[n] # Absent => again \in Records /\ SettingsOf(again) = SettingsOf(proxies[n])
    BY ReportedTyped DEF RegistryTyped
<1>3. proxies' = [proxies EXCEPT ![n] = IF proxies[n] = Absent THEN first ELSE again]
    BY DEF UpsertProxyNodeReport
<1>4. UNCHANGED <<stored, saving, promised, up, conns>>
      /\ sent' = [sent EXCEPT ![n] = @ \ {c}]
    BY DEF UpsertProxyNodeReport
<1>5. MachinesTyped'
    BY <1>4 DEF MachinesTyped
<1> HIDE DEF first, again
<1>6. proxies' \in [Nodes -> Records \cup {Absent}]
    BY <1>1, <1>2, <1>3 DEF RegistryTyped
<1>7. \A k \in Nodes : proxies[k] # Absent =>
          proxies'[k] # Absent /\ SettingsOf(proxies'[k]) = SettingsOf(proxies[k])
    BY <1>2, <1>3, AbsentAssumption DEF RegistryTyped
<1> QED
    BY <1>4, <1>5, <1>6, <1>7, SettingsStay

LEMMA TickKeeps ==
    ASSUME RegistryTyped, Promises, Tick
    PROVE  RegistryTyped' /\ Promises'
<1>1. ASSUME NEW n \in Nodes
      PROVE  /\ proxies'[n] \in Records \cup {Absent}
             /\ proxies[n] # Absent =>
                   proxies'[n] # Absent /\ SettingsOf(proxies'[n]) = SettingsOf(proxies[n])
  <2>1. CASE Online(n)
    <3>1. proxies[n] \in Records /\ proxies[n].age <= OnlineAfter
        BY <2>1 DEF RegistryTyped, Online
    <3>2. proxies'[n] = [proxies[n] EXCEPT !.age = @ + 1]
        BY <2>1 DEF Tick
    <3> QED
        BY <3>1, <3>2, AgedTyped, AbsentAssumption
  <2>2. CASE ~Online(n)
      BY <2>2 DEF Tick, RegistryTyped
  <2> QED
      BY <2>1, <2>2
<1>2. proxies' \in [Nodes -> Records \cup {Absent}]
    BY <1>1 DEF Tick
<1>3. UNCHANGED <<stored, saving, promised>>
    BY DEF Tick
<1> QED
    BY <1>1, <1>2, <1>3, SettingsStay

LEMMA UpdateKeeps ==
    ASSUME RegistryTyped, Promises, NEW n \in Nodes, NEW e \in BOOLEAN, NEW a \in BOOLEAN,
           NEW m \in 0..MaxRoom, UpdateProxyNode(n, e, m, a)
    PROVE  RegistryTyped' /\ Promises'
<1> DEFINE settings == [enabled |-> e, max |-> Positive(m)]
           edited == [proxies[n] EXCEPT !.enabled = e, !.max = Positive(m), !.addressed = a]
<1>1. proxies[n] \in Records /\ Positive(m) \in 1..MaxRoom
    BY Constants DEF RegistryTyped, UpdateProxyNode
<1>2. edited \in Records /\ SettingsOf(edited) = settings
    BY <1>1, EditedTyped
<1>3. settings \in Settings /\ settings # Absent
    BY <1>1, AbsentAssumption DEF Settings
<1>4. proxies' = [proxies EXCEPT ![n] = edited]
    BY <1>1 DEF UpdateProxyNode, RegistryTyped
<1>5. /\ saving = Nobody /\ saving' = [node |-> n, settings |-> settings]
      /\ promised' = [promised EXCEPT ![n] = Absent]
      /\ stored' = stored
    BY DEF UpdateProxyNode
<1> HIDE DEF settings, edited
<1>6. saving' \in Operations /\ saving'.node = n /\ saving'.settings = settings
    BY <1>3, <1>5 DEF Operations
<1>7. RegistryTyped'
  <2>1. proxies' \in [Nodes -> Records \cup {Absent}]
      BY <1>2, <1>4 DEF RegistryTyped
  <2>2. promised' \in [Nodes -> Settings \cup {Absent}]
      BY <1>5 DEF RegistryTyped
  <2> QED
      BY <2>1, <2>2, <1>5, <1>6 DEF RegistryTyped
<1>8. \A k \in Nodes : promised'[k] # Absent =>
          k # n /\ promised'[k] = promised[k] /\ proxies'[k] = proxies[k]
    BY <1>4, <1>5 DEF RegistryTyped
<1>9. promised'[n] = Absent /\ Keeps(proxies'[n], settings)
    BY <1>2, <1>4, <1>5, RecordsTyped DEF RegistryTyped, Keeps
<1> QED
    BY <1>5, <1>6, <1>7, <1>8, <1>9 DEF Promises

LEMMA DeleteKeeps ==
    ASSUME RegistryTyped, Promises, NEW n \in Nodes, DeleteProxyNode(n)
    PROVE  RegistryTyped' /\ Promises'
<1>1. /\ proxies' = [proxies EXCEPT ![n] = Absent]
      /\ saving' = [node |-> n, settings |-> Absent]
      /\ promised' = [promised EXCEPT ![n] = Absent]
      /\ stored' = stored
    BY DEF DeleteProxyNode
<1>2. saving' \in Operations /\ saving'.node = n /\ saving'.settings = Absent
    BY <1>1 DEF Operations
<1>3. RegistryTyped'
    BY <1>1, <1>2 DEF RegistryTyped
<1>4. \A k \in Nodes : promised'[k] # Absent =>
          k # n /\ promised'[k] = promised[k] /\ proxies'[k] = proxies[k]
    BY <1>1 DEF RegistryTyped
<1>5. promised'[n] = Absent
    BY <1>1 DEF RegistryTyped
<1> QED
    BY <1>1, <1>2, <1>3, <1>4, <1>5 DEF Promises

(* A transaction writes what is in memory, and so keeps every promise.     *)
LEMMA SaveKeeps ==
    ASSUME RegistryTyped, Promises, stored' = Saved, UNCHANGED <<proxies, saving, promised>>
    PROVE  RegistryTyped' /\ Promises'
<1>1. RegistryTyped'
    BY SavedTyped DEF RegistryTyped
<1>2. \A n \in Nodes : promised[n] # Absent => promised[n] \in Settings
    BY DEF RegistryTyped
<1>3. \A n \in Nodes : promised[n] # Absent => Keeps(Saved[n], promised[n])
    BY <1>2, SavedTyped DEF Promises
<1> QED
    BY <1>1, <1>3 DEF Promises

LEMMA FlushKeeps ==
    ASSUME RegistryTyped, Promises, FlushSucceeds
    PROVE  RegistryTyped' /\ Promises'
<1>1. /\ saving # Nobody /\ saving' = Nobody /\ proxies' = proxies /\ stored' = Saved
      /\ promised' = [promised EXCEPT ![saving.node] = saving.settings]
    BY DEF FlushSucceeds
<1>2. saving.node \in Nodes /\ saving.settings \in Settings \cup {Absent}
    BY <1>1 DEF RegistryTyped, Operations
<1>3. RegistryTyped'
    BY <1>1, <1>2, SavedTyped DEF RegistryTyped
<1>4. ASSUME NEW n \in Nodes, promised'[n] # Absent
      PROVE  promised'[n] \in Settings /\ Keeps(proxies[n], promised'[n])
  <2>1. CASE n = saving.node
    <3>1. promised'[n] = saving.settings
        BY <2>1, <1>1, <1>2 DEF RegistryTyped
    <3> QED
        BY <3>1, <2>1, <1>1, <1>2, <1>4 DEF Promises
  <2>2. CASE n # saving.node
    <3>1. promised'[n] = promised[n] /\ promised[n] \in Settings
        BY <2>2, <1>1, <1>2, <1>4 DEF RegistryTyped
    <3> QED
        BY <3>1, <1>4 DEF Promises
  <2> QED
      BY <2>1, <2>2
<1>5. \A n \in Nodes : promised'[n] # Absent => Keeps(Saved[n], promised'[n])
    BY <1>4, SavedTyped
<1> QED
    BY <1>1, <1>3, <1>4, <1>5 DEF Promises

(* A crash loses no promise, for what is promised is on disk; an operation *)
(* that had not been answered promises nothing.                            *)
LEMMA RestartKeeps ==
    ASSUME RegistryTyped, Promises, Restart
    PROVE  RegistryTyped' /\ Promises'
<1>1. proxies' = stored /\ stored' = stored /\ promised' = promised /\ saving' = Nobody
    BY DEF Restart
<1> QED
    BY <1>1 DEF RegistryTyped, Promises

LEMMA RegistryKept ==
    ASSUME RegistryInv, [Next]_vars
    PROVE  RegistryInv'
<1>1. PoolTypeOK /\ RegistryTyped /\ MachinesTyped /\ Promises
    BY InvParts
<1>2. PoolTypeOK'
    BY <1>1, PoolStep, PoolTypeKept DEF RegistryInv
<1> SUFFICES RegistryTyped' /\ MachinesTyped' /\ Promises'
    BY <1>2, InvParts
<1>3. UNCHANGED registry => RegistryTyped' /\ Promises'
    BY <1>1 DEF registry, RegistryTyped, Promises
<1>4. UNCHANGED machines => MachinesTyped'
    BY <1>1 DEF machines, MachinesTyped
<1>5. ASSUME NEW r \in Requests, \/ \E m \in Modes : List(r, m)
                                \/ Choose(r) \/ Release(r)
      PROVE  UNCHANGED <<registry, machines>>
    BY <1>5 DEF List, Choose, Release
<1>6. ASSUME NEW n \in Nodes,
             \/ StartNode(n) \/ StopNode(n) \/ OpenConnection(n) \/ CloseConnection(n)
             \/ sendReport(n) \/ \E c \in 0..MaxConnections : LoseReport(n, c)
      PROVE  UNCHANGED registry /\ MachinesTyped'
  <2>1. UNCHANGED registry
      BY <1>6 DEF StartNode, StopNode, OpenConnection, CloseConnection, sendReport, LoseReport
  <2>2. CASE StartNode(n)
      BY <2>2, <1>1 DEF StartNode, MachinesTyped
  <2>3. CASE StopNode(n)
      BY <2>3, <1>1, Constants DEF StopNode, MachinesTyped
  <2>4. CASE OpenConnection(n)
      BY <2>4, <1>1, Constants DEF OpenConnection, MachinesTyped
  <2>5. CASE CloseConnection(n)
      BY <2>5, <1>1, Constants DEF CloseConnection, MachinesTyped
  <2>6. CASE sendReport(n)
      BY <2>6, <1>1 DEF sendReport, MachinesTyped
  <2>7. CASE \E c \in 0..MaxConnections : LoseReport(n, c)
      BY <2>7, <1>1 DEF LoseReport, MachinesTyped
  <2> QED
      BY <1>6, <2>1, <2>2, <2>3, <2>4, <2>5, <2>6, <2>7
<1>7. ASSUME NEW n \in Nodes, Report(n)
      PROVE  RegistryTyped' /\ Promises' /\ MachinesTyped'
    BY <1>1, <1>7, ReportKeeps DEF Report
<1>8. ASSUME NEW n \in Nodes, NEW e \in BOOLEAN, NEW a \in BOOLEAN, NEW m \in 0..MaxRoom,
             UpdateProxyNode(n, e, m, a)
      PROVE  RegistryTyped' /\ Promises' /\ UNCHANGED machines
  <2>1. UNCHANGED machines
      BY <1>8 DEF UpdateProxyNode
  <2> QED
      BY <2>1, <1>1, <1>8, UpdateKeeps
<1>9. ASSUME NEW n \in Nodes, DeleteProxyNode(n)
      PROVE  RegistryTyped' /\ Promises' /\ UNCHANGED machines
  <2>1. UNCHANGED machines
      BY <1>9 DEF DeleteProxyNode
  <2> QED
      BY <2>1, <1>1, <1>9, DeleteKeeps
<1>10. CASE FlushSucceeds
  <2>1. UNCHANGED machines
      BY <1>10 DEF FlushSucceeds
  <2> QED
      BY <2>1, <1>1, <1>4, <1>10, FlushKeeps
<1>11. CASE FlushFails
    BY <1>1, <1>4, <1>11 DEF FlushFails, RegistryTyped, Promises, machines
<1>12. CASE persistMetadata
    BY <1>1, <1>4, <1>12, SaveKeeps DEF persistMetadata, machines
<1>13. CASE Restart
  <2>1. UNCHANGED machines
      BY <1>13 DEF Restart
  <2> QED
      BY <2>1, <1>1, <1>4, <1>13, RestartKeeps
<1>14. CASE Tick
  <2>1. UNCHANGED machines
      BY <1>14 DEF Tick
  <2> QED
      BY <2>1, <1>1, <1>4, <1>14, TickKeeps
<1>15. CASE UNCHANGED vars
    BY <1>3, <1>4, <1>15 DEF vars
<1> QED
    BY <1>3, <1>4, <1>5, <1>6, <1>7, <1>8, <1>9, <1>10, <1>11, <1>12, <1>13, <1>14, <1>15
       DEF Next

LEMMA InitRegistry == Init => RegistryInv
<1> SUFFICES ASSUME Init PROVE RegistryInv
    OBVIOUS
<1>1. PoolTypeOK
    BY InitPool DEF Init, PoolInv
<1>2. MachinesTyped
    BY Constants DEF Init, MachinesTyped, Nothing
<1>3. RegistryTyped /\ Promises
    BY DEF Init, RegistryTyped, Promises
<1> QED
    BY <1>1, <1>2, <1>3, InvParts

LEMMA RegistryAlways == Spec => []RegistryInv
<1>1. RegistryInv /\ [Next]_vars => RegistryInv'
    BY RegistryKept
<1> QED
    BY InitRegistry, <1>1, PTL DEF Spec

(* The type invariant of the whole.                                        *)
THEOREM NodesTyped == Spec => []TypeOK
BY RegistryAlways, PTL DEF RegistryInv

(* What the administrator was told is saved stays in force, in memory and  *)
(* on disk, whatever nodes report, whatever fails and whoever crashes.     *)
THEOREM SettingsStayInForce == Spec => []SettingsKept
<1>1. RegistryInv => SettingsKept
    BY DEF RegistryInv, Promises, Keeps, SettingsKept
<1> QED
    BY <1>1, RegistryAlways, PTL

(* The registry of nodes as the run checks it: types and settings.         *)
THEOREM RegistryIsSafe == Spec => []RegistrySafe
<1>1. TypeOK /\ SettingsKept => RegistrySafe
    BY DEF RegistrySafe
<1> QED
    BY <1>1, NodesTyped, SettingsStayInForce, PTL

(* With the lists the store returns, requests use the pool as ProxyPool    *)
(* says, and so its theorems hold of them.                                 *)
THEOREM RoutingUsesPool == Spec => PoolSpec
<1>1. Init => PoolInit
    BY DEF Init
<1>2. RegistryInv /\ [Next]_vars => [PoolNext]_poolVars
    BY PoolStep DEF RegistryInv
<1> QED
    BY <1>1, <1>2, RegistryAlways, PTL DEF Spec, PoolSpec
=============================================================================
