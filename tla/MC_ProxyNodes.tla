---------------------------- MODULE MC_ProxyNodes ----------------------------
(***************************************************************************)
(* Two instances of the proxy nodes; the initial state chooses the         *)
(* subject, and only the subject moves after that.                         *)
(*                                                                         *)
(*   routing   one node, that reports no capacity of its own, and one      *)
(*             request, which chooses by its key                           *)
(*   pool      two nodes and three requests, and whatever lists of nodes   *)
(*             the registry returns                                        *)
(***************************************************************************)
EXTENDS ProxyNodes

CONSTANTS r1, r2, r3

VARIABLE subject

ThreeRequests == {r1, r2, r3}
NoCapacity == [n \in Nodes |-> 0]

MCInit == Init /\ subject \in {"routing", "pool"}

(* The other requests and the other node are not there.                    *)
OneOfEach ==
    /\ \A r \in Requests \ {r1} : stage'[r] = "idle"
    /\ stage'[r1] = "listed" => mode'[r1] = "key_binding"
    /\ \A n \in Nodes \ {1} : ~up'[n]
    /\ saving' # Nobody => saving'.node = 1

RoutingStep(A) == subject = "routing" /\ A /\ OneOfEach /\ UNCHANGED subject
PoolStep(A) == subject = "pool" /\ A /\ UNCHANGED <<registry, machines, subject>>

MCNext == RoutingStep(Next) \/ PoolStep(PoolNext)

MCFairness ==
    /\ WF_<<vars, subject>>(RoutingStep(Tick))
    /\ WF_<<vars, subject>>(RoutingStep(Choose(r1)))
    /\ WF_<<vars, subject>>(RoutingStep(sendReport(1)))
    /\ SF_<<vars, subject>>(RoutingStep(Report(1)))

MCSpec == MCInit /\ [][MCNext]_<<vars, subject>> /\ MCFairness

(* README "After a restart, proxy nodes require a fresh heartbeat before   *)
(* becoming eligible": GoneUnused of ProxyNodes, for the lists that the    *)
(* registry returns.  Arbitrary lists may name a node for ever.            *)
GoneStayUnused == subject = "routing" => GoneUnused
=============================================================================
