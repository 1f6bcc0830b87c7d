----------------------------- MODULE ProxyPool -----------------------------
(***************************************************************************)
(* The choice of a VPS proxy node for a request (acquireKey,               *)
(* selectProxyNodeLocked and releaseSelected of internal/gateway).         *)
(*                                                                         *)
(* A request copies the list of nodes from the store and later, in any     *)
(* order, takes the gateway's mutex and chooses one.  Its list may be old  *)
(* by then; the counters of running requests are not.                      *)
(*                                                                         *)
(* Of a node in the list the choice reads one thing, its room: the         *)
(* capacity less the connections the node has reported, and 0 if the node  *)
(* is disabled, offline or without an address.  A list is any function     *)
(* from nodes to rooms here; ProxyNodes says which one the store returns.  *)
(* Nodes are numbered in the order of their ids.                           *)
(***************************************************************************)
EXTENDS Places

CONSTANTS Requests,   \* goroutines that go through a proxy node
          NumNodes,   \* node ids there may be
          MaxRoom,    \* the largest capacity of a node
          Cycle       \* stands for the range of int: of the counter, only the
                      \* remainders by the number of candidates matter

Nodes == 1..NumNodes
Modes == {"round_robin", "key_binding"}

ASSUME RequestsAssumption == IsFiniteSet(Requests)
ASSUME NodesAssumption == NumNodes \in Nat /\ MaxRoom \in Nat
ASSUME CycleAssumption == Cycle \in Nat \ {0} /\ \A n \in Nodes : Cycle % n = 0

VARIABLES stage,            \* where each request is
          room,             \* the list it holds; once it runs, of its node only
          mode,             \* the proxy mode of the configuration it holds
          via,              \* the node it runs through
          proxyInflight,    \* requests counted on each node
          proxyRoundRobin,  \* the rotating counter
          rotation,         \* history: candidates of the last choice by rotation
          turns             \* history: choices of each since these are the
                            \* candidates, less the full rounds

poolVars == <<stage, room, mode, via, proxyInflight, proxyRoundRobin, rotation, turns>>

Stages == {"idle", "listed", "running"}
NodeLists == [Nodes -> 0..MaxRoom]
Nothing == [n \in Nodes |-> 0]

Running(n) == {r \in Requests : stage[r] = "running" /\ via[r] = n}

PoolTypeOK ==
    /\ stage \in [Requests -> Stages]
    /\ room \in [Requests -> NodeLists]
    /\ mode \in [Requests -> Modes]
    /\ via \in [Requests -> Nodes \cup {0}]
    /\ \A r \in Requests : (stage[r] = "running") = (via[r] \in Nodes)
    /\ proxyInflight \in [Nodes -> Nat]
    /\ proxyRoundRobin \in 0..(Cycle - 1)
    /\ rotation \in SUBSET Nodes
    /\ turns \in [Nodes -> Nat]

PoolInit ==
    /\ stage = [r \in Requests |-> "idle"]
    /\ room = [r \in Requests |-> Nothing]
    /\ mode = [r \in Requests |-> "round_robin"]
    /\ via = [r \in Requests |-> 0]
    /\ proxyInflight = Nothing
    /\ proxyRoundRobin = 0
    /\ rotation = {}
    /\ turns = Nothing

-----------------------------------------------------------------------------
(* acquireKey reads the configuration and the nodes before the mutex.      *)
ListProxyNodes(r, list, m) ==
    /\ stage[r] = "idle"
    /\ stage' = [stage EXCEPT ![r] = "listed"]
    /\ room' = [room EXCEPT ![r] = list]
    /\ mode' = [mode EXCEPT ![r] = m]
    /\ UNCHANGED <<via, proxyInflight, proxyRoundRobin, rotation, turns>>

Candidates(r) == {n \in Nodes : proxyInflight[n] < room[r][n]}

(* History: another set of candidates begins a new rotation.               *)
WithTurn(C, n) ==
    LET t == [k \in Nodes |-> (IF C = rotation THEN turns[k] ELSE 0) + (IF k = n THEN 1 ELSE 0)]
    IN  IF \A k \in C : t[k] > 0 THEN [k \in Nodes |-> IF k \in C THEN t[k] - 1 ELSE 0] ELSE t

Begin(r, n) ==
    /\ stage' = [stage EXCEPT ![r] = "running"]
    /\ via' = [via EXCEPT ![r] = n]
    /\ room' = [room EXCEPT ![r] = [k \in Nodes |-> IF k = n THEN room[r][k] ELSE 0]]
    /\ mode' = [mode EXCEPT ![r] = "round_robin"]
    /\ proxyInflight' = [proxyInflight EXCEPT ![n] = @ + 1]

(* Mutant: a choice by key moves the rotation on as well.                  *)
SelectBound_Rotates(r, n) ==
    /\ stage[r] = "listed"
    /\ mode[r] = "key_binding"
    /\ n \in Candidates(r)
    /\ Begin(r, n)
    /\ proxyRoundRobin' = (proxyRoundRobin + 1) % Cycle
    /\ UNCHANGED <<rotation, turns>>

(* The hash of a key id may be any number, so the key's node any of them.  *)
SelectBound(r, n) ==
    /\ stage[r] = "listed"
    /\ mode[r] = "key_binding"
    /\ n \in Candidates(r)
    /\ Begin(r, n)
    /\ UNCHANGED <<proxyRoundRobin, rotation, turns>>

SelectNext(r) ==
    /\ stage[r] = "listed"
    /\ mode[r] = "round_robin"
    /\ Candidates(r) # {}
    /\ LET C == Candidates(r)
           n == Nth(C, proxyRoundRobin % Cardinality(C))
       IN  /\ Begin(r, n)
           /\ turns' = WithTurn(C, n)
           /\ rotation' = C
    /\ proxyRoundRobin' = (proxyRoundRobin + 1) % Cycle

Withdraw(r) ==
    /\ stage' = [stage EXCEPT ![r] = "idle"]
    /\ room' = [room EXCEPT ![r] = Nothing]
    /\ mode' = [mode EXCEPT ![r] = "round_robin"]

NoAvailableProxy(r) ==
    /\ stage[r] = "listed"
    /\ Candidates(r) = {}
    /\ Withdraw(r)
    /\ UNCHANGED <<via, proxyInflight, proxyRoundRobin, rotation, turns>>

(* No key is available, or the configuration has the pool switched off.    *)
SelectOther(r) ==
    /\ stage[r] = "listed"
    /\ Withdraw(r)
    /\ UNCHANGED <<via, proxyInflight, proxyRoundRobin, rotation, turns>>

(* The guard against a negative counter is kept: it must never be needed.  *)
releaseSelected(r) ==
    /\ stage[r] = "running"
    /\ Withdraw(r)
    /\ via' = [via EXCEPT ![r] = 0]
    /\ proxyInflight' = [proxyInflight EXCEPT ![via[r]] = IF @ > 0 THEN @ - 1 ELSE @]
    /\ UNCHANGED <<proxyRoundRobin, rotation, turns>>

(* The process ends with its requests, and a new one starts.               *)
RestartPool ==
    /\ stage' = [r \in Requests |-> "idle"]
    /\ room' = [r \in Requests |-> Nothing]
    /\ mode' = [r \in Requests |-> "round_robin"]
    /\ via' = [r \in Requests |-> 0]
    /\ proxyInflight' = Nothing
    /\ proxyRoundRobin' = 0
    /\ rotation' = {}
    /\ turns' = Nothing

acquireProxy(r) ==
    \/ SelectNext(r)
    \/ \E n \in Nodes : SelectBound(r, n)
    \/ NoAvailableProxy(r)
    \/ SelectOther(r)

PoolNext ==
    \/ \E r \in Requests, list \in NodeLists, m \in Modes : ListProxyNodes(r, list, m)
    \/ \E r \in Requests : acquireProxy(r) \/ releaseSelected(r)
    \/ RestartPool

PoolSpec == PoolInit /\ [][PoolNext]_poolVars

-----------------------------------------------------------------------------
(* The gateway's count of each node is exact, whatever the nodes, their    *)
(* reports and the lists do meanwhile: the guard against a negative count  *)
(* in releaseSelected hides no error, no node fills up by leaked places.   *)
NodeInflightExact ==
    \A n \in Nodes : proxyInflight[n] = Cardinality(Running(n))

(* README "positive concurrency capacity reported to the main service for  *)
(* scheduling": requests that were sent to a node by lists that leave room *)
(* for m or less are never more than m there, whatever newer or older      *)
(* lists other requests hold.                                              *)
NodeRoomRespected ==
    \A n \in Nodes : \A m \in 0..MaxRoom :
        Cardinality({r \in Running(n) : room[r][n] <= m}) <= m

(* README "round_robin rotates proxies": while the candidates stay the     *)
(* same from one choice to the next, none is chosen again before all       *)
(* others were, also if requests choose by key or find no node in between. *)
PoolRotates == \A n \in Nodes : turns[n] <= 1

(* The three together.                                                     *)
PoolSafe == NodeInflightExact /\ NodeRoomRespected /\ PoolRotates
=============================================================================
