----------------------------- MODULE ProxyNodes -----------------------------
(***************************************************************************)
(* The registry of VPS proxy nodes (internal/store), the nodes themselves  *)
(* (cmd/proxy-client) and the administrator, around the choice of a node   *)
(* in ProxyPool.                                                           *)
(*                                                                         *)
(* A node reports the number of its open connections every ten seconds.    *)
(* A report may be lost, or be processed long after the node has given it  *)
(* up, out of order.  The first one registers the node.  The store dates   *)
(* reports by its own clock: "age" is the time since the last one, in      *)
(* units of which OnlineAfter make thirty seconds, and Stale from there    *)
(* on, as well as after a restart.                                         *)
(*                                                                         *)
(* Of the address all that matters is whether there is one; the name is    *)
(* left out.  Both are the node's to say: a report replaces what the       *)
(* administrator has set.  One administrator works at a time.              *)
(***************************************************************************)
EXTENDS ProxyPool

CONSTANTS OnlineAfter,     \* ProxyNodeOnlineAfter
          MaxConnections,  \* bound: connections of a node
          Capacity,        \* MAX_CONCURRENCY of each node
          Default,         \* the capacity of a node that has none set: 100
          Absent, Nobody   \* no record, no manual operation

ASSUME BoundsAssumption == OnlineAfter \in Nat /\ MaxConnections \in Nat
ASSUME CapacityAssumption == Capacity \in [Nodes -> 0..MaxRoom] /\ Default \in 1..MaxRoom

VARIABLES proxies,   \* the registry in memory
          stored,    \* its records on disk
          saving,    \* the manual operation that waits for its Flush
          promised,  \* history: the settings an operation has reported saved
          up,        \* nodes whose process runs
          conns,     \* connections of each node
          sent       \* reports on their way, by the count they carry

registry == <<proxies, stored, saving, promised>>
machines == <<up, conns, sent>>
vars == <<poolVars, registry, machines>>

Stale == OnlineAfter + 1
Settings == [enabled : BOOLEAN, max : 1..MaxRoom]
Records == [enabled : BOOLEAN, max : 1..MaxRoom, addressed : BOOLEAN,
            conns : 0..MaxConnections, age : 0..Stale]
Positive(m) == IF m > 0 THEN m ELSE Default
SettingsOf(p) == [enabled |-> p.enabled, max |-> p.max]
Operations == [node : Nodes, settings : Settings \cup {Absent}]

ASSUME AbsentAssumption == Absent \notin Records \cup Settings /\ Nobody \notin Operations

TypeOK ==
    /\ PoolTypeOK
    /\ proxies \in [Nodes -> Records \cup {Absent}]
    /\ stored \in [Nodes -> Records \cup {Absent}]
    /\ saving \in Operations \cup {Nobody}
    /\ promised \in [Nodes -> Settings \cup {Absent}]
    /\ up \in [Nodes -> BOOLEAN]
    /\ conns \in [Nodes -> 0..MaxConnections]
    /\ sent \in [Nodes -> SUBSET (0..MaxConnections)]

(* loadRuntime: what a report says of the present is not taken from disk.  *)
Loaded(p) == IF p = Absent THEN Absent ELSE [p EXCEPT !.age = Stale, !.conns = 0]
Saved == [n \in Nodes |-> Loaded(proxies[n])]

Init ==
    /\ PoolInit
    /\ proxies = [n \in Nodes |-> Absent]
    /\ stored = [n \in Nodes |-> Absent]
    /\ saving = Nobody
    /\ promised = [n \in Nodes |-> Absent]
    /\ up = [n \in Nodes |-> FALSE]
    /\ conns = Nothing
    /\ sent = [n \in Nodes |-> {}]

-----------------------------------------------------------------------------
(* proxyNodeView and the conditions of selectProxyNodeLocked on it         *)
Online(n) == proxies[n] # Absent /\ proxies[n].age <= OnlineAfter

(* Mutant: a node whose reports have stopped is listed like any other.     *)
RoomOf_Offline(n) ==
    IF /\ proxies[n] # Absent
       /\ proxies[n].enabled
       /\ proxies[n].addressed
       /\ proxies[n].conns < proxies[n].max
      THEN proxies[n].max - proxies[n].conns
      ELSE 0

RoomOf(n) ==
    IF /\ Online(n)
       /\ proxies[n].enabled
       /\ proxies[n].addressed
       /\ proxies[n].conns < proxies[n].max
      THEN proxies[n].max - proxies[n].conns
      ELSE 0

List(r, m) ==
    /\ ListProxyNodes(r, [n \in Nodes |-> RoomOf(n)], m)
    /\ UNCHANGED <<registry, machines>>

Choose(r) ==
    /\ acquireProxy(r)
    /\ UNCHANGED <<registry, machines>>

Release(r) ==
    /\ releaseSelected(r)
    /\ UNCHANGED <<registry, machines>>

-----------------------------------------------------------------------------
StartNode(n) ==
    /\ ~up[n]
    /\ up' = [up EXCEPT ![n] = TRUE]
    /\ UNCHANGED <<poolVars, registry, conns, sent>>

StopNode(n) ==
    /\ up[n]
    /\ up' = [up EXCEPT ![n] = FALSE]
    /\ conns' = [conns EXCEPT ![n] = 0]
    /\ UNCHANGED <<poolVars, registry, sent>>

(* A tunnel outlives the request that opened it, as the gateway keeps idle *)
(* connections; other programs may use the node as well.                   *)
OpenConnection(n) ==
    /\ up[n]
    /\ conns[n] < MaxConnections
    /\ conns' = [conns EXCEPT ![n] = @ + 1]
    /\ UNCHANGED <<poolVars, registry, up, sent>>

CloseConnection(n) ==
    /\ conns[n] > 0
    /\ conns' = [conns EXCEPT ![n] = @ - 1]
    /\ UNCHANGED <<poolVars, registry, up, sent>>

sendReport(n) ==
    /\ up[n]
    /\ sent' = [sent EXCEPT ![n] = @ \cup {conns[n]}]
    /\ UNCHANGED <<poolVars, registry, up, conns>>

(* The network loses a report, or ValidateProxyNode refuses it.            *)
LoseReport(n, c) ==
    /\ c \in sent[n]
    /\ sent' = [sent EXCEPT ![n] = @ \ {c}]
    /\ UNCHANGED <<poolVars, registry, up, conns>>

(* Mutant: a report brings the settings of the node along.                 *)
UpsertProxyNodeReport_Settings(n, c, a) ==
    /\ c \in sent[n]
    /\ sent' = [sent EXCEPT ![n] = @ \ {c}]
    /\ proxies' = [proxies EXCEPT ![n] =
           [enabled |-> TRUE, max |-> Positive(Capacity[n]), addressed |-> a, conns |-> c, age |-> 0]]
    /\ UNCHANGED <<poolVars, stored, saving, promised, up, conns>>

(* Mutant: only nodes that are known are updated.                          *)
UpsertProxyNodeReport_Known(n, c, a) ==
    /\ c \in sent[n]
    /\ sent' = [sent EXCEPT ![n] = @ \ {c}]
    /\ proxies' = [proxies EXCEPT ![n] =
           IF @ = Absent THEN Absent
           ELSE [@ EXCEPT !.addressed = a, !.conns = c, !.age = 0]]
    /\ UNCHANGED <<poolVars, stored, saving, promised, up, conns>>

(* The node sends its address, or the store derives one of where it        *)
(* listens, or, if it says that in another form, none ("a").  The record   *)
(* gets its place on disk with the next transaction.                       *)
UpsertProxyNodeReport(n, c, a) ==
    /\ c \in sent[n]
    /\ sent' = [sent EXCEPT ![n] = @ \ {c}]
    /\ proxies' = [proxies EXCEPT ![n] =
           IF @ = Absent
             THEN [enabled |-> TRUE, max |-> Positive(Capacity[n]), addressed |-> a, conns |-> c, age |-> 0]
             ELSE [@ EXCEPT !.addressed = a, !.conns = c, !.age = 0]]
    /\ UNCHANGED <<poolVars, stored, saving, promised, up, conns>>

-----------------------------------------------------------------------------
(* The administrator sends all fields of the form; the address may be      *)
(* empty.  The promise of an earlier operation ends with a new one.        *)
UpdateProxyNode(n, enabled, max, addressed) ==
    /\ saving = Nobody
    /\ proxies[n] # Absent
    /\ LET s == [enabled |-> enabled, max |-> Positive(max)]
       IN  /\ proxies' = [proxies EXCEPT ![n].enabled = s.enabled, ![n].max = s.max,
                                         ![n].addressed = addressed]
           /\ saving' = [node |-> n, settings |-> s]
    /\ promised' = [promised EXCEPT ![n] = Absent]
    /\ UNCHANGED <<poolVars, stored, machines>>

DeleteProxyNode(n) ==
    /\ saving = Nobody
    /\ proxies' = [proxies EXCEPT ![n] = Absent]
    /\ saving' = [node |-> n, settings |-> Absent]
    /\ promised' = [promised EXCEPT ![n] = Absent]
    /\ UNCHANGED <<poolVars, stored, machines>>

FlushSucceeds ==
    /\ saving # Nobody
    /\ stored' = Saved
    /\ promised' = [promised EXCEPT ![saving.node] = saving.settings]
    /\ saving' = Nobody
    /\ UNCHANGED <<poolVars, proxies, machines>>

(* The change stays in memory and is saved later, if at all.               *)
FlushFails ==
    /\ saving # Nobody
    /\ saving' = Nobody
    /\ UNCHANGED <<poolVars, proxies, stored, promised, machines>>

persistMetadata ==
    /\ stored' = Saved
    /\ UNCHANGED <<poolVars, proxies, saving, promised, machines>>

Restart ==
    /\ RestartPool
    /\ proxies' = stored
    /\ saving' = Nobody
    /\ UNCHANGED <<stored, promised, machines>>

Tick ==
    /\ proxies' = [n \in Nodes |->
           IF Online(n) THEN [proxies[n] EXCEPT !.age = @ + 1] ELSE proxies[n]]
    /\ UNCHANGED <<poolVars, stored, saving, promised, machines>>

Report(n) ==
    \E c \in 0..MaxConnections, a \in BOOLEAN : UpsertProxyNodeReport(n, c, a)

Next ==
    \/ \E r \in Requests : \E m \in Modes : List(r, m)
    \/ \E r \in Requests : Choose(r) \/ Release(r)
    \/ \E n \in Nodes :
        \/ StartNode(n) \/ StopNode(n) \/ OpenConnection(n) \/ CloseConnection(n)
        \/ sendReport(n) \/ Report(n)
        \/ \E c \in 0..MaxConnections : LoseReport(n, c)
        \/ \E e, a \in BOOLEAN, m \in 0..MaxRoom : UpdateProxyNode(n, e, m, a)
        \/ DeleteProxyNode(n)
    \/ FlushSucceeds
    \/ FlushFails
    \/ persistMetadata
    \/ Restart
    \/ Tick

Spec == Init /\ [][Next]_vars

(* Time passes, a goroutine that has its list gets the mutex, and the loop *)
(* of a running node goes on reporting.  Of the network: if reports are    *)
(* sent for ever, some get through; of the node: the store accepts what it *)
(* reports.  Nothing is assumed of how long a request, a node, the server  *)
(* or the administrator takes.                                             *)
Fairness ==
    /\ WF_vars(Tick)
    /\ \A r \in Requests : WF_vars(Choose(r))
    /\ \A n \in Nodes : WF_vars(sendReport(n)) /\ SF_vars(Report(n))

FairSpec == Spec /\ Fairness

-----------------------------------------------------------------------------
(* store_test.go "report should not re-enable or overwrite admin           *)
(* concurrency": whether a node is enabled and its capacity, as an         *)
(* operation of the administrator has reported them saved, stay in force   *)
(* until his next one, through reports that are late or out of order,      *)
(* failed and successful transactions, and crashes.  Name and address are  *)
(* not promised: the next report replaces them.                            *)
SettingsKept ==
    \A n \in Nodes : promised[n] # Absent =>
        /\ proxies[n] # Absent
        /\ SettingsOf(proxies[n]) = promised[n]
        /\ stored[n] # Absent
        /\ SettingsOf(stored[n]) = promised[n]

(* With the types, which bound the counts of connections and capacities    *)
(* and keep the records on disk well-formed.                               *)
RegistrySafe == TypeOK /\ SettingsKept

(* README "After a restart, proxy nodes require a fresh heartbeat before   *)
(* becoming eligible": a node that runs comes back, after a restart of     *)
(* either side, a deletion or lost reports, as soon as reports get through.*)
NodesComeBack == \A n \in Nodes : <>[]up[n] => []<>Online(n)

(* A node that is gone for good, or stays disabled, gets no more requests  *)
(* in the end, however old the lists are that requests hold.               *)
Disabled(n) == proxies[n] # Absent /\ ~proxies[n].enabled
Chosen(n) == \E r \in Requests : via[r] = 0 /\ via'[r] = n
GoneUnused ==
    \A n \in Nodes : (<>[](~up[n]) \/ <>[]Disabled(n)) => <>[][~Chosen(n)]_vars
=============================================================================
