---------------------------- MODULE ClientCache ----------------------------
(***************************************************************************)
(* The cache of HTTP clients (clientForProxy of internal/gateway).  There  *)
(* is one client for each proxy, as a client keeps the idle connections.   *)
(* It is built without the gateway's mutex, so several requests may build  *)
(* one for the same proxy; the first to come back keeps his.  Clients are  *)
(* numbered in the order in which they are built.                          *)
(***************************************************************************)
EXTENDS Naturals, FiniteSets

CONSTANTS Requests,   \* goroutines that need a client
          Proxies,    \* proxy URLs, the empty one for direct connections among them
          MaxClients  \* bound: clients built

VARIABLES stage,    \* where each request is
          proxy,    \* the proxy it has been given
          clients,  \* the cache; 0: no client
          built,    \* the client each request has built
          count,    \* clients built so far
          given     \* history: the clients that requests got for each proxy

vars == <<stage, proxy, clients, built, count, given>>

TypeOK ==
    /\ stage \in [Requests -> {"idle", "building", "built"}]
    /\ proxy \in [Requests -> Proxies]
    /\ clients \in [Proxies -> 0..count]
    /\ built \in [Requests -> 0..count]
    /\ count \in 0..MaxClients
    /\ given \in [Proxies -> SUBSET (1..count)]

Init ==
    /\ stage = [r \in Requests |-> "idle"]
    /\ \E p \in Proxies : proxy = [r \in Requests |-> p]
    /\ clients = [p \in Proxies |-> 0]
    /\ built = [r \in Requests |-> 0]
    /\ count = 0
    /\ given = [p \in Proxies |-> {}]

-----------------------------------------------------------------------------
Give(p, c) == given' = [given EXCEPT ![p] = @ \cup {c}]

Find(r, p) ==
    /\ stage[r] = "idle"
    /\ clients[p] # 0
    /\ Give(p, clients[p])
    /\ UNCHANGED <<stage, proxy, clients, built, count>>

Miss(r, p) ==
    /\ stage[r] = "idle"
    /\ clients[p] = 0
    /\ stage' = [stage EXCEPT ![r] = "building"]
    /\ proxy' = [proxy EXCEPT ![r] = p]
    /\ UNCHANGED <<clients, built, count, given>>

newClient(r) ==
    /\ stage[r] = "building"
    /\ count < MaxClients
    /\ count' = count + 1
    /\ built' = [built EXCEPT ![r] = count + 1]
    /\ stage' = [stage EXCEPT ![r] = "built"]
    /\ UNCHANGED <<proxy, clients, given>>

(* The proxy's URL is malformed.                                           *)
newClientFails(r) ==
    /\ stage[r] = "building"
    /\ stage' = [stage EXCEPT ![r] = "idle"]
    /\ UNCHANGED <<proxy, clients, built, count, given>>

(* Mutant: the client is stored whatever has been stored meanwhile.        *)
Store_Overwrites(r) ==
    /\ stage[r] = "built"
    /\ stage' = [stage EXCEPT ![r] = "idle"]
    /\ clients' = [clients EXCEPT ![proxy[r]] = built[r]]
    /\ built' = [built EXCEPT ![r] = 0]
    /\ Give(proxy[r], built[r])
    /\ UNCHANGED <<proxy, count>>

Store(r) ==
    LET existing == clients[proxy[r]]
        client == IF existing # 0 THEN existing ELSE built[r]
    IN  /\ stage[r] = "built"
        /\ stage' = [stage EXCEPT ![r] = "idle"]
        /\ clients' = [clients EXCEPT ![proxy[r]] = client]
        /\ built' = [built EXCEPT ![r] = 0]
        /\ Give(proxy[r], client)
        /\ UNCHANGED <<proxy, count>>

Next ==
    \E r \in Requests :
        \/ \E p \in Proxies : Find(r, p) \/ Miss(r, p)
        \/ newClient(r) \/ newClientFails(r) \/ Store(r)

Spec == Init /\ [][Next]_vars

-----------------------------------------------------------------------------
(* gateway_test.go:1273 "first", "second": all requests through a proxy    *)
(* share one client, and with it its connections, also those that looked   *)
(* for it at the same time; a client that lost the race is never used.     *)
OneClient == \A p \in Proxies : Cardinality(given[p]) <= 1
=============================================================================
