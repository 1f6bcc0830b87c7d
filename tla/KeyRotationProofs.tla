------------------------- MODULE KeyRotationProofs -------------------------
(***************************************************************************)
(* Proofs about KeyRotation for any number of keys and requests, any       *)
(* limits and capacities.                                                  *)
(*                                                                         *)
(* Rotation: who has been passed over by i since it was chosen lies, going *)
(* round, before i, and i lies before or at the key chosen last.  So i can *)
(* be chosen again only after the rotation has come past the other.        *)
(*                                                                         *)
(* Accounting: a request holds a key exactly while it is forwarded, and    *)
(* each key counts the requests that hold it.                              *)
(*                                                                         *)
(* Sliding window: seen from the newest one backwards, the hits a key      *)
(* remembers are its admissions, and what pruning and sweeping have cut    *)
(* off is older than the window (Tracks).  So whoever counts the hits that *)
(* are left counts every recent admission.                                 *)
(***************************************************************************)
EXTENDS KeyRotation, FiniteSetTheorems, SequenceTheorems, TLAPS

StoreInv ==
    /\ available \subseteq Keys
    /\ present \subseteq Keys
    /\ capacity \in [Keys -> Nat]

LEMMA StoreTypes == Spec => []StoreInv
  <1>1. \A n \in Capacities : n \in Nat
    BY RotationAssumption
  <1>2. Init => StoreInv
    BY <1>1 DEF Init, StoreInv
  <1>3. StoreInv /\ [Next]_vars => StoreInv'
    <2> SUFFICES ASSUME StoreInv, [Next]_vars PROVE StoreInv'
      OBVIOUS
    <2>1. CASE UNCHANGED storeVars
      BY <2>1 DEF storeVars, StoreInv
    <2>2. Environment => StoreInv'
      BY <1>1 DEF Environment, Tick, SaveConfig, SwitchKey, UpdateKey, DeleteKey, CreateKey,
                  storeVars, StoreInv
    <2>3. \A r \in Requests : ReadConfig(r) \/ NoKey(r) \/ NoRoute(r) \/ Admit(r) \/ releaseSelected(r)
             => UNCHANGED storeVars
      BY DEF ReadConfig, NoKey, NoRoute, Admit, releaseSelected
    <2>4. UNCHANGED vars => UNCHANGED storeVars
      BY DEF vars
    <2> QED
      BY <2>1, <2>2, <2>3, <2>4 DEF Next
  <1> QED
    BY <1>2, <1>3, PTL DEF Spec

(* The way round from j to i, the whole round if they are the same.        *)
Way(j, i) == IF i > j THEN i - j ELSE i - j + MaxKey

RotationInv ==
    /\ lastKeyID \in 0..MaxKey
    /\ passed \in [Keys -> [Keys -> 0..1]]
    /\ \A j, i \in Keys : passed[j][i] = 1 =>
          /\ lastKeyID # 0 /\ lastKeyID # j
          /\ Way(j, i) <= Way(j, lastKeyID)

rotationVars == <<lastKeyID, passed>>

(* Going on from the key chosen last, k comes before j and has not passed  *)
(* it over yet; what has passed it over comes before k.                    *)
LEMMA WayRound ==
    ASSUME RotationInv, NEW k \in Keys, NEW j \in Keys, j # k, Distance(k) <= Distance(j)
    PROVE  /\ passed[j][k] = 0
           /\ \A i \in Keys : passed[j][i] = 1 => Way(j, i) <= Way(j, k)
  <1>1. MaxKey \in Nat \ {0}
    BY RotationAssumption
  <1>2. \A i \in Keys : passed[j][i] = 1 => i # k /\ Way(j, i) <= Way(j, k)
    <2> SUFFICES ASSUME NEW i \in Keys, passed[j][i] = 1
                 PROVE  i # k /\ Way(j, i) <= Way(j, k)
      OBVIOUS
    <2>1. /\ lastKeyID \in Keys /\ lastKeyID # j
          /\ Way(j, i) <= Way(j, lastKeyID)
      BY <1>1 DEF RotationInv, Keys
    <2> QED
      BY <1>1, <2>1 DEF Way, Distance, Keys
  <1>3. passed[j][k] \in 0..1
    BY DEF RotationInv
  <1> QED
    BY <1>2, <1>3

(* Choosing a key keeps the invariant.                                     *)
LEMMA ChoiceKeepsRotation ==
    ASSUME RotationInv, NEW r \in Requests, NEW k \in Chosen(r),
           Eligible(r) \subseteq Keys, lastKeyID' = k, PassBy(r, k)
    PROVE  RotationInv'
  <1>1. k \in Keys /\ k \in Eligible(r) /\ \A j \in Eligible(r) : Distance(k) <= Distance(j)
    BY DEF Chosen
  <1>2. \A j \in Keys : \/ passed'[j] = [i \in Keys |-> 0]
                        \/ /\ j \in Eligible(r) /\ j # k
                           /\ passed'[j] = [passed[j] EXCEPT ![k] = IF @ < 2 THEN @ + 1 ELSE @]
    BY DEF PassBy
  <1>3. \A j \in Keys : j \in Eligible(r) /\ j # k =>
           /\ passed[j][k] = 0
           /\ \A i \in Keys : passed[j][i] = 1 => Way(j, i) <= Way(j, k)
    BY <1>1, WayRound
  <1>4. \A j, i \in Keys : \/ passed'[j][i] = 0
                           \/ /\ j # k /\ i = k /\ passed'[j][i] = 1
                           \/ /\ j # k /\ i # k /\ passed'[j][i] = passed[j][i]
                              /\ passed[j][i] = 1 => Way(j, i) <= Way(j, k)
    <2> SUFFICES ASSUME NEW j \in Keys, NEW i \in Keys, passed'[j][i] # 0
                 PROVE  /\ j # k
                        /\ \/ i = k /\ passed'[j][i] = 1
                           \/ /\ i # k /\ passed'[j][i] = passed[j][i]
                              /\ passed[j][i] = 1 => Way(j, i) <= Way(j, k)
      OBVIOUS
    <2>1. /\ j \in Eligible(r) /\ j # k
          /\ passed'[j] = [passed[j] EXCEPT ![k] = IF @ < 2 THEN @ + 1 ELSE @]
      BY <1>2
    <2>2. passed[j] \in [Keys -> 0..1]
      BY DEF RotationInv
    <2>3. passed[j][k] = 0 /\ (passed[j][i] = 1 => Way(j, i) <= Way(j, k))
      BY <1>3, <2>1
    <2>4. CASE i = k
      BY <1>1, <2>1, <2>2, <2>3, <2>4
    <2>5. CASE i # k
      BY <1>1, <2>1, <2>2, <2>3, <2>5
    <2> QED
      BY <2>1, <2>4, <2>5
  <1>5. passed' \in [Keys -> [Keys -> 0..1]]
    <2>1. \A j \in Keys : passed'[j] \in [Keys -> 0..1]
      <3> SUFFICES ASSUME NEW j \in Keys PROVE passed'[j] \in [Keys -> 0..1]
        OBVIOUS
      <3>1. CASE passed'[j] = [i \in Keys |-> 0]
        BY <3>1
      <3>2. CASE /\ j \in Eligible(r) /\ j # k
                 /\ passed'[j] = [passed[j] EXCEPT ![k] = IF @ < 2 THEN @ + 1 ELSE @]
        BY <1>1, <1>3, <3>2 DEF RotationInv
      <3> QED
        BY <1>2, <3>1, <3>2
    <2>2. passed' = [j \in Keys |-> passed'[j]]
      BY DEF PassBy
    <2> QED
      BY <2>1, <2>2
  <1>6. lastKeyID' \in Keys /\ lastKeyID' # 0
    BY <1>1 DEF Keys
  <1>7. \A j, i \in Keys : passed'[j][i] = 1 => lastKeyID' # j /\ Way(j, i) <= Way(j, lastKeyID')
    <2> SUFFICES ASSUME NEW j \in Keys, NEW i \in Keys, passed'[j][i] = 1
                 PROVE  k # j /\ Way(j, i) <= Way(j, k)
      OBVIOUS
    <2>1. Way(j, k) <= Way(j, k)
      BY <1>1, RotationAssumption DEF Way, Keys
    <2> QED
      BY <1>4, <2>1
  <1> QED
    BY <1>5, <1>6, <1>7 DEF RotationInv, Keys, Way

LEMMA RotationInit == Init => RotationInv
  BY RotationAssumption DEF Init, RotationInv

LEMMA RotationStep ==
    ASSUME RotationInv, StoreInv, [Next]_vars
    PROVE  RotationInv'
  <1>1. CASE UNCHANGED rotationVars
    BY <1>1 DEF RotationInv, rotationVars, Way
  <1>2. ASSUME NEW r \in Requests, NEW k \in Chosen(r), lastKeyID' = k, PassBy(r, k)
        PROVE  RotationInv'
    BY <1>2, ChoiceKeepsRotation DEF Eligible, StoreInv
  <1>3. \A r \in Requests : NoRoute(r) \/ Admit(r) =>
           \E k \in Chosen(r) : lastKeyID' = k /\ PassBy(r, k)
    BY DEF NoRoute, Admit
  <1>4. \A r \in Requests : ReadConfig(r) \/ NoKey(r) \/ releaseSelected(r) => UNCHANGED rotationVars
    BY DEF ReadConfig, NoKey, releaseSelected, gatewayVars, historyVars, rotationVars
  <1>5. Environment => UNCHANGED rotationVars
    BY DEF Environment, Tick, SaveConfig, SwitchKey, UpdateKey, DeleteKey, CreateKey,
           gatewayVars, historyVars, rotationVars
  <1>6. UNCHANGED vars => UNCHANGED rotationVars
    BY DEF vars, gatewayVars, historyVars, rotationVars
  <1> QED
    BY <1>1, <1>2, <1>3, <1>4, <1>5, <1>6 DEF Next

(* Strict rotation (gateway.go:542): no key is chosen twice while another  *)
(* that could have been chosen each time is not, for any number of keys    *)
(* that come, go, fill up and fail to be routed.                           *)
THEOREM RotationIsStrict == Spec => []StrictRotation
  <1>1. RotationInv => StrictRotation
    BY DEF RotationInv, StrictRotation
  <1>2. RotationInv /\ StoreInv /\ [Next]_vars => RotationInv'
    BY RotationStep
  <1> QED
    BY <1>1, <1>2, RotationInit, StoreTypes, PTL DEF Spec

-----------------------------------------------------------------------------
Held == {r \in Requests : stage[r] = "held"}

AccountingInv ==
    /\ inflight \in [Keys -> Nat]
    /\ activeRequests \in Nat
    /\ stage \in [Requests -> {"idle", "config", "held"}]
    /\ key \in [Requests -> 0..MaxKey]
    /\ \A r \in Requests : key[r] # 0 <=> stage[r] = "held"
    /\ InflightExact

accountingVars == <<inflight, activeRequests, stage, key>>

LEMMA RequestSets ==
    ASSUME NEW S \in SUBSET Requests
    PROVE  IsFiniteSet(S) /\ Cardinality(S) \in Nat
  <1>1. IsFiniteSet(S)
    BY RotationAssumption, FS_Subset
  <1> QED
    BY <1>1, FS_CardinalityType

LEMMA JoiningCounts ==
    ASSUME NEW S \in SUBSET Requests, NEW r \in Requests \ S
    PROVE  Cardinality(S \cup {r}) = Cardinality(S) + 1
  BY RequestSets, FS_AddElement

LEMMA LeavingCounts ==
    ASSUME NEW S \in SUBSET Requests, NEW r \in S
    PROVE  Cardinality(S) > 0 /\ Cardinality(S \ {r}) = Cardinality(S) - 1
  <1>1. IsFiniteSet(S) /\ Cardinality(S) \in Nat /\ Cardinality(S \ {r}) \in Nat
    BY RequestSets
  <1>2. Cardinality(S \ {r}) = Cardinality(S) - 1
    BY <1>1, FS_RemoveElement
  <1> QED
    BY <1>1, <1>2

LEMMA AdmitCounts ==
    ASSUME AccountingInv, StoreInv, NEW r \in Requests, Admit(r)
    PROVE  /\ AccountingInv'
           /\ \A k \in Keys : key'[r] = k => Cardinality(Holding(k)') = inflight[k] + 1
                                            /\ k \in Eligible(r)
  <1>1. PICK k \in Chosen(r) : /\ inflight' = [inflight EXCEPT ![k] = @ + 1]
                               /\ key' = [key EXCEPT ![r] = k]
    BY DEF Admit
  <1>2. k \in Keys /\ k \in Eligible(r) /\ k # 0 /\ k \in 0..MaxKey
    <2>1. k \in Keys /\ k \in Eligible(r)
      BY DEF Chosen, Eligible, StoreInv
    <2> QED
      BY <2>1, RotationAssumption DEF Keys
  <1>3. /\ stage[r] = "config" /\ stage' = [stage EXCEPT ![r] = "held"]
        /\ activeRequests' = activeRequests + 1
    BY DEF Admit, GoTo
  <1>4. key[r] = 0 /\ r \notin Held
    BY <1>3 DEF AccountingInv, Held
  <1>5. \A i \in Keys : Holding(i)' = IF i = k THEN Holding(i) \cup {r} ELSE Holding(i)
    <2>1. \A x \in Requests : key'[x] = IF x = r THEN k ELSE key[x]
      BY <1>1 DEF AccountingInv
    <2>2. \A i \in Keys : i # 0
      BY DEF Keys
    <2> QED
      BY <1>4, <2>1, <2>2 DEF Holding
  <1>6. Held' = Held \cup {r}
    BY <1>3 DEF Held, AccountingInv
  <1>7. Cardinality(Holding(k) \cup {r}) = Cardinality(Holding(k)) + 1
    <2>1. Holding(k) \in SUBSET Requests /\ r \in Requests \ Holding(k)
      BY <1>2, <1>4 DEF Holding
    <2> QED
      BY <2>1, JoiningCounts
  <1>8. Cardinality(Held \cup {r}) = Cardinality(Held) + 1
    <2>1. Held \in SUBSET Requests
      BY DEF Held
    <2> QED
      BY <1>4, <2>1, JoiningCounts
  <1>9. (\A i \in Keys : inflight'[i] = Cardinality(Holding(i)'))
    <2>1. \A i \in Keys : inflight[i] = Cardinality(Holding(i))
      BY DEF AccountingInv, InflightExact
    <2>2. \A i \in Keys : inflight'[i] = IF i = k THEN inflight[i] + 1 ELSE inflight[i]
      BY <1>1, <1>2 DEF AccountingInv
    <2> QED
      BY <1>2, <1>5, <1>7, <2>1, <2>2
  <1>10. activeRequests' = Cardinality(Held')
    BY <1>3, <1>6, <1>8 DEF AccountingInv, InflightExact, Held
  <1>11. InflightExact'
    BY <1>9, <1>10 DEF InflightExact, Held
  <1>12. inflight' \in [Keys -> Nat] /\ activeRequests' \in Nat
    <2>1. inflight[k] \in Nat /\ activeRequests \in Nat
      BY <1>2 DEF AccountingInv
    <2>2. inflight[k] + 1 \in Nat /\ activeRequests + 1 \in Nat
      BY <2>1
    <2> QED
      BY <1>1, <1>2, <1>3, <2>2 DEF AccountingInv
  <1>13. /\ stage' \in [Requests -> {"idle", "config", "held"}]
         /\ key' \in [Requests -> 0..MaxKey]
    BY <1>1, <1>2, <1>3 DEF AccountingInv
  <1>14. \A x \in Requests : key'[x] # 0 <=> stage'[x] = "held"
    <2> SUFFICES ASSUME NEW x \in Requests PROVE key'[x] # 0 <=> stage'[x] = "held"
      OBVIOUS
    <2>1. CASE x = r
      BY <1>1, <1>2, <1>3, <2>1 DEF AccountingInv
    <2>2. CASE x # r
      BY <1>1, <1>3, <2>2 DEF AccountingInv
    <2> QED
      BY <2>1, <2>2
  <1>15. \A i \in Keys : key'[r] = i => Cardinality(Holding(i)') = inflight[i] + 1 /\ i \in Eligible(r)
    <2>1. key'[r] = k
      BY <1>1 DEF AccountingInv
    <2>2. inflight[k] = Cardinality(Holding(k))
      BY <1>2 DEF AccountingInv, InflightExact
    <2> QED
      BY <1>2, <1>5, <1>7, <2>1, <2>2
  <1> QED
    BY <1>11, <1>12, <1>13, <1>14, <1>15 DEF AccountingInv

LEMMA ReleaseCounts ==
    ASSUME AccountingInv, NEW r \in Requests, releaseSelected(r)
    PROVE  AccountingInv'
  <1> DEFINE k == key[r]
  <1>1. /\ stage[r] = "held" /\ stage' = [stage EXCEPT ![r] = "idle"]
        /\ key' = [key EXCEPT ![r] = 0]
    BY DEF releaseSelected
  <1>2. k \in Keys /\ r \in Held
    <2>1. key[r] \in 0..MaxKey /\ key[r] # 0
      BY <1>1 DEF AccountingInv
    <2> QED
      BY <1>1, <2>1, RotationAssumption DEF Keys, Held
  <1>3. Cardinality(Holding(k)) > 0 /\ Cardinality(Holding(k) \ {r}) = Cardinality(Holding(k)) - 1
    <2>1. Holding(k) \in SUBSET Requests /\ r \in Holding(k)
      BY DEF Holding
    <2> QED
      BY <2>1, LeavingCounts
  <1>4. Cardinality(Held) > 0 /\ Cardinality(Held \ {r}) = Cardinality(Held) - 1
    <2>1. Held \in SUBSET Requests
      BY DEF Held
    <2> QED
      BY <1>2, <2>1, LeavingCounts
  <1>5. inflight[k] = Cardinality(Holding(k)) /\ activeRequests = Cardinality(Held)
    BY <1>2 DEF AccountingInv, InflightExact, Held
  <1>6. /\ inflight' = [inflight EXCEPT ![k] = @ - 1]
        /\ activeRequests' = activeRequests - 1
    BY <1>3, <1>5 DEF releaseSelected
  <1>7. \A i \in Keys : Holding(i)' = IF i = k THEN Holding(i) \ {r} ELSE Holding(i)
    <2>1. \A i \in Keys : i # 0
      BY DEF Keys
    <2> QED
      BY <1>1, <2>1 DEF Holding, AccountingInv
  <1>8. Held' = Held \ {r}
    BY <1>1 DEF Held, AccountingInv
  <1>9. \A i \in Keys : inflight'[i] = Cardinality(Holding(i)')
    <2>1. \A i \in Keys : inflight[i] = Cardinality(Holding(i))
      BY DEF AccountingInv, InflightExact
    <2>2. \A i \in Keys : inflight'[i] = IF i = k THEN inflight[i] - 1 ELSE inflight[i]
      BY <1>2, <1>6 DEF AccountingInv
    <2> QED
      BY <1>2, <1>3, <1>7, <2>1, <2>2
  <1>10. activeRequests' = Cardinality(Held')
    BY <1>4, <1>5, <1>6, <1>8
  <1>11. InflightExact'
    BY <1>9, <1>10 DEF InflightExact, Held
  <1>12. inflight' \in [Keys -> Nat] /\ activeRequests' \in Nat
    <2>1. inflight[k] \in Nat /\ inflight[k] > 0 /\ activeRequests \in Nat /\ activeRequests > 0
      BY <1>2, <1>3, <1>4, <1>5 DEF AccountingInv
    <2>2. inflight[k] - 1 \in Nat /\ activeRequests - 1 \in Nat
      BY <2>1
    <2> QED
      BY <1>2, <1>6, <2>2 DEF AccountingInv
  <1>13. /\ stage' \in [Requests -> {"idle", "config", "held"}]
         /\ key' \in [Requests -> 0..MaxKey]
    <2>1. 0 \in 0..MaxKey
      BY RotationAssumption
    <2> QED
      BY <1>1, <2>1 DEF AccountingInv
  <1>14. \A x \in Requests : key'[x] # 0 <=> stage'[x] = "held"
    BY <1>1 DEF AccountingInv
  <1> QED
    BY <1>11, <1>12, <1>13, <1>14 DEF AccountingInv

LEMMA AccountingStep ==
    ASSUME AccountingInv, StoreInv, [Next]_vars
    PROVE  AccountingInv'
  <1>1. CASE UNCHANGED accountingVars
    BY <1>1 DEF AccountingInv, accountingVars, InflightExact, Holding
  <1>2. ASSUME NEW r \in Requests, NEW next \in {"idle", "config"}, stage[r] # "held",
               stage' = [stage EXCEPT ![r] = next], UNCHANGED <<inflight, activeRequests, key>>
        PROVE  AccountingInv'
    <2>1. /\ stage' \in [Requests -> {"idle", "config", "held"}]
          /\ \A x \in Requests : stage'[x] = "held" <=> stage[x] = "held"
      BY <1>2 DEF AccountingInv
    <2>2. {x \in Requests : stage'[x] = "held"} = {x \in Requests : stage[x] = "held"}
      BY <2>1
    <2>3. InflightExact'
      BY <1>2, <2>2 DEF AccountingInv, InflightExact, Holding
    <2> QED
      BY <1>2, <2>1, <2>3 DEF AccountingInv
  <1>3. ASSUME NEW r \in Requests, ReadConfig(r) \/ NoKey(r) \/ NoRoute(r)
        PROVE  AccountingInv'
    <2>1. stage[r] # "held" /\ UNCHANGED <<inflight, activeRequests, key>>
      BY <1>3 DEF ReadConfig, NoKey, NoRoute, gatewayVars
    <2>2. \E next \in {"idle", "config"} : stage' = [stage EXCEPT ![r] = next]
      BY <1>3 DEF ReadConfig, NoKey, NoRoute, GoTo
    <2> QED
      BY <1>2, <2>1, <2>2
  <1>4. Environment => UNCHANGED accountingVars
    BY DEF Environment, Tick, SaveConfig, SwitchKey, UpdateKey, DeleteKey, CreateKey,
           gatewayVars, requestVars, accountingVars
  <1>5. UNCHANGED vars => UNCHANGED accountingVars
    BY DEF vars, gatewayVars, requestVars, accountingVars
  <1> QED
    BY <1>1, <1>3, <1>4, <1>5, AdmitCounts, ReleaseCounts DEF Next

LEMMA AccountingInit == Init => AccountingInv
  <1> SUFFICES ASSUME Init PROVE AccountingInv
    OBVIOUS
  <1>1. /\ inflight = [k \in Keys |-> 0] /\ activeRequests = 0
        /\ stage = [r \in Requests |-> "idle"]
        /\ key = [r \in Requests |-> 0]
    BY DEF Init
  <1>2. \A k \in Keys : Holding(k) = {}
    BY <1>1 DEF Holding, Keys
  <1>3. {r \in Requests : stage[r] = "held"} = {}
    BY <1>1
  <1>4. InflightExact
    BY <1>1, <1>2, <1>3, FS_EmptySet DEF InflightExact
  <1>5. 0 \in 0..MaxKey
    BY RotationAssumption
  <1> QED
    BY <1>1, <1>4, <1>5 DEF AccountingInv

LEMMA Accounted == Spec => []AccountingInv
  <1>1. AccountingInv /\ StoreInv /\ [Next]_vars => AccountingInv'
    BY AccountingStep
  <1> QED
    BY <1>1, AccountingInit, StoreTypes, PTL DEF Spec

(* The counters of running requests are exact (gateway.go:555-606), what-  *)
(* ever keys are deleted under them and however acquisitions fail.         *)
THEOREM CountersExact == Spec => []InflightExact
  <1>1. AccountingInv => InflightExact
    BY DEF AccountingInv
  <1> QED
    BY <1>1, Accounted, PTL

(* A key never serves more requests than its capacity when one is added    *)
(* (gateway.go:546), for any number of requests and any edits.         *)
THEOREM CapacityIsRespected == Spec => CapacityRespected
  <1>1. /\ AccountingInv
        /\ StoreInv
        /\ [Next]_vars
        => [\A r \in Requests, k \in Keys :
               key[r] # k /\ key'[r] = k /\ Admit(r)
               => Cardinality(Holding(k)') <= capacity[k]]_vars
    <2> SUFFICES ASSUME AccountingInv, StoreInv,
                        NEW r \in Requests, NEW k \in Keys, key[r] # k, key'[r] = k, Admit(r)
                 PROVE  Cardinality(Holding(k)') <= capacity[k]
      OBVIOUS
    <2>1. Cardinality(Holding(k)') = inflight[k] + 1 /\ k \in Eligible(r)
      BY AdmitCounts
    <2>2. inflight[k] \in Nat /\ capacity[k] \in Nat
      BY DEF AccountingInv, StoreInv
    <2>3. inflight[k] < capacity[k]
      BY <2>1 DEF Eligible
    <2> QED
      BY <2>1, <2>2, <2>3
  <1> QED
    BY <1>1, Accounted, StoreTypes, PTL DEF Spec, CapacityRespected

-----------------------------------------------------------------------------
(* The sliding window.  A log is what is remembered of the admissions of a *)
(* key.                                                                    *)
Logs == Seq(0..Window)

LEMMA LogShape ==
    ASSUME NEW s \in Logs
    PROVE  /\ Len(s) \in Nat
           /\ DOMAIN s = 1..Len(s)
           /\ \A i \in 1..Len(s) : s[i] \in 0..Window
  BY LenProperties, ElementOfSeq DEF Logs

LEMMA LogOfShape ==
    ASSUME NEW n \in Nat, NEW s \in [1..n -> 0..Window]
    PROVE  s \in Logs /\ Len(s) = n
  <1>1. s \in Logs
    BY SeqDef DEF Logs
  <1> QED
    BY <1>1, LogShape

(* prune drops a prefix in which all have expired.                         *)
LEMMA PruneDropsExpired ==
    ASSUME NEW s \in Logs
    PROVE  /\ prune(s) \in Logs
           /\ \E e \in 0..Len(s) :
                 /\ Len(prune(s)) = Len(s) - e
                 /\ \A i \in 1..e : s[i] = Window
                 /\ \A i \in 1..Len(prune(s)) : prune(s)[i] = s[i + e]
  <1> DEFINE e == Cardinality(Expired(s))
  <1>1. Len(s) \in Nat /\ DOMAIN s = 1..Len(s)
    BY LogShape
  <1>2. Expired(s) \in SUBSET (1..Len(s))
    BY <1>1 DEF Expired
  <1>3. IsFiniteSet(1..Len(s)) /\ Cardinality(1..Len(s)) = Len(s)
    <2>1. 1 \in Int /\ Len(s) \in Int
      BY <1>1
    <2>2. /\ IsFiniteSet(1..Len(s))
          /\ Cardinality(1..Len(s)) = IF 1 > Len(s) THEN 0 ELSE Len(s) - 1 + 1
      BY <2>1, FS_Interval
    <2> QED
      BY <1>1, <2>2
  <1>4. IsFiniteSet(Expired(s)) /\ e \in 0..Len(s)
    BY <1>1, <1>2, <1>3, FS_Subset, FS_CardinalityType
  <1>5. Expired(s) \in SUBSET (1..e)
    <2> SUFFICES ASSUME NEW x \in Expired(s) PROVE x \in 1..e
      BY <1>4
    <2>1. x \in 1..Len(s) /\ x \in Int
      BY <1>2
    <2>2. 1..x \in SUBSET Expired(s)
      BY <1>1, <2>1 DEF Expired
    <2>3. Cardinality(1..x) <= e
      BY <1>4, <2>2, FS_Subset
    <2>4. Cardinality(1..x) = x
      BY <2>1, FS_Interval
    <2> QED
      BY <1>4, <2>1, <2>3, <2>4
  <1>6. IsFiniteSet(1..e) /\ Cardinality(1..e) = e
    BY <1>4, FS_Interval
  <1>7. Expired(s) = 1..e
    BY <1>5, <1>6, FS_Subset
  <1>8. \A i \in 1..e : s[i] = Window
    BY <1>1, <1>4, <1>7 DEF Expired
  <1>9. \A i \in e + 1..Len(s) : s[i] \in 0..Window
    BY <1>1, <1>4, LogShape
  <1>10. e + 1 \in Int /\ Len(s) \in Int
    BY <1>1, <1>4
  <1>11. /\ prune(s) \in Seq(0..Window)
         /\ Len(prune(s)) = IF e + 1 <= Len(s) THEN Len(s) - (e + 1) + 1 ELSE 0
         /\ \A i \in 1..Len(s) - (e + 1) + 1 : prune(s)[i] = s[e + 1 + i - 1]
    BY <1>9, <1>10, SubSeqProperties DEF prune
  <1>12. Len(prune(s)) = Len(s) - e
    BY <1>1, <1>4, <1>11
  <1>13. \A i \in 1..Len(prune(s)) : prune(s)[i] = s[i + e]
    BY <1>1, <1>4, <1>11, <1>12
  <1> QED
    BY <1>4, <1>8, <1>11, <1>12, <1>13 DEF Logs

LEMMA AppendToLog ==
    ASSUME NEW s \in Logs
    PROVE  /\ Append(s, 0) \in Logs
           /\ Len(Append(s, 0)) = Len(s) + 1
           /\ \A i \in 1..Len(s) + 1 : Append(s, 0)[i] = IF i <= Len(s) THEN s[i] ELSE 0
  <1>1. 0 \in 0..Window
    BY RotationAssumption
  <1> QED
    BY <1>1, LogShape DEF Logs

LEMMA OlderAge ==
    ASSUME NEW age \in 0..Window
    PROVE  Older(age) \in 0..Window /\ (age = Window => Older(age) = Window)
  BY RotationAssumption DEF Older

(* Seen from the last one backwards, the hits remember the admissions a    *)
(* key has had, but for expired ones.                                      *)
Tracks(h, a) ==
    \A i \in 1..Len(a) :
        a[i] = IF i + Len(h) - Len(a) > 0 THEN h[i + Len(h) - Len(a)] ELSE Window

LEMMA TracksOwn ==
    ASSUME NEW h \in Logs PROVE Tracks(h, <<>>)
  BY DEF Tracks

LEMMA TracksPruned ==
    ASSUME NEW h \in Logs, NEW a \in Logs, Tracks(h, a)
    PROVE  Tracks(prune(h), a) /\ Tracks(h, prune(a))
  <1>1. Len(h) \in Nat /\ Len(a) \in Nat
    BY LogShape
  <1>2. Tracks(prune(h), a)
    <2>1. PICK e \in 0..Len(h) : /\ Len(prune(h)) = Len(h) - e
                                 /\ \A i \in 1..e : h[i] = Window
                                 /\ \A i \in 1..Len(prune(h)) : prune(h)[i] = h[i + e]
      BY PruneDropsExpired
    <2> SUFFICES ASSUME NEW i \in 1..Len(a)
                 PROVE  a[i] = IF i + Len(prune(h)) - Len(a) > 0
                               THEN prune(h)[i + Len(prune(h)) - Len(a)] ELSE Window
      BY DEF Tracks
    <2> DEFINE j == i + Len(h) - Len(a)
    <2>2. j \in Int /\ j <= Len(h) /\ i + Len(prune(h)) - Len(a) = j - e
      BY <1>1, <2>1
    <2>3. a[i] = IF j > 0 THEN h[j] ELSE Window
      BY DEF Tracks
    <2>4. CASE j - e > 0
      <3>1. j - e \in 1..Len(prune(h)) /\ (j - e) + e = j /\ j > 0
        BY <1>1, <2>1, <2>2, <2>4
      <3> QED
        BY <2>1, <2>2, <2>3, <2>4, <3>1
    <2>5. CASE ~(j - e > 0)
      <3>1. j > 0 => j \in 1..e
        BY <1>1, <2>1, <2>2, <2>5
      <3> QED
        BY <2>1, <2>2, <2>3, <2>5, <3>1
    <2> QED
      BY <2>4, <2>5
  <1>3. Tracks(h, prune(a))
    <2>1. PICK e \in 0..Len(a) : /\ Len(prune(a)) = Len(a) - e
                                 /\ \A i \in 1..Len(prune(a)) : prune(a)[i] = a[i + e]
      BY PruneDropsExpired
    <2> SUFFICES ASSUME NEW i \in 1..Len(prune(a))
                 PROVE  prune(a)[i] = IF i + Len(h) - Len(prune(a)) > 0
                                      THEN h[i + Len(h) - Len(prune(a))] ELSE Window
      BY DEF Tracks
    <2>2. i + e \in 1..Len(a) /\ (i + e) + Len(h) - Len(a) = i + Len(h) - Len(prune(a))
      BY <1>1, <2>1
    <2>3. a[i + e] = IF (i + e) + Len(h) - Len(a) > 0 THEN h[(i + e) + Len(h) - Len(a)] ELSE Window
      BY <2>2 DEF Tracks
    <2> QED
      BY <2>1, <2>2, <2>3
  <1> QED
    BY <1>2, <1>3

LEMMA TracksNext ==
    ASSUME NEW h \in Logs, NEW a \in Logs, Tracks(h, a)
    PROVE  Tracks(Append(h, 0), Append(a, 0))
  <1> DEFINE H == Append(h, 0)
             A == Append(a, 0)
  <1>1. Len(h) \in Nat /\ Len(a) \in Nat /\ Len(H) = Len(h) + 1 /\ Len(A) = Len(a) + 1
    BY LogShape, AppendToLog
  <1>2. /\ \A i \in 1..Len(h) + 1 : H[i] = IF i <= Len(h) THEN h[i] ELSE 0
        /\ \A i \in 1..Len(a) + 1 : A[i] = IF i <= Len(a) THEN a[i] ELSE 0
    BY AppendToLog
  <1> HIDE DEF H, A
  <1> SUFFICES ASSUME NEW i \in 1..Len(a) + 1
               PROVE  A[i] = IF i + Len(h) - Len(a) > 0 THEN H[i + Len(h) - Len(a)] ELSE Window
    <2>1. \A i \in 1..Len(A) : i \in 1..Len(a) + 1 /\ i + Len(H) - Len(A) = i + Len(h) - Len(a)
      BY <1>1
    <2>2. Tracks(H, A)
      BY <2>1 DEF Tracks
    <2> QED
      BY <2>2 DEF H, A
  <1>3. CASE i <= Len(a)
    <2>1. a[i] = IF i + Len(h) - Len(a) > 0 THEN h[i + Len(h) - Len(a)] ELSE Window
      BY <1>1, <1>3 DEF Tracks
    <2>2. i + Len(h) - Len(a) > 0 => /\ i + Len(h) - Len(a) \in 1..Len(h) + 1
                                     /\ i + Len(h) - Len(a) <= Len(h)
      BY <1>1, <1>3
    <2> QED
      BY <1>2, <1>3, <2>1, <2>2
  <1>4. CASE i = Len(a) + 1
    <2>1. i + Len(h) - Len(a) = Len(h) + 1 /\ Len(h) + 1 \in 1..Len(h) + 1 /\ Len(h) + 1 > 0
      BY <1>1, <1>4
    <2> QED
      BY <1>1, <1>2, <1>4, <2>1
  <1> QED
    BY <1>1, <1>3, <1>4

LEMMA TracksOlder ==
    ASSUME NEW h \in Logs, NEW a \in Logs, NEW h2 \in Logs, NEW a2 \in Logs, Tracks(h, a),
           Len(h2) = Len(h), \A i \in 1..Len(h) : h2[i] = Older(h[i]),
           Len(a2) = Len(a), \A i \in 1..Len(a) : a2[i] = Older(a[i])
    PROVE  Tracks(h2, a2)
  <1> SUFFICES ASSUME NEW i \in 1..Len(a)
               PROVE  a2[i] = IF i + Len(h) - Len(a) > 0 THEN h2[i + Len(h) - Len(a)] ELSE Window
    BY DEF Tracks
  <1>1. Len(h) \in Nat /\ Len(a) \in Nat
    BY LogShape
  <1>2. a[i] = IF i + Len(h) - Len(a) > 0 THEN h[i + Len(h) - Len(a)] ELSE Window
    BY DEF Tracks
  <1>3. i + Len(h) - Len(a) > 0 => i + Len(h) - Len(a) \in 1..Len(h)
    BY <1>1
  <1>4. Older(Window) = Window
    BY OlderAge, RotationAssumption
  <1> QED
    BY <1>2, <1>3, <1>4

(* So the hits that count are no fewer than the admissions of the last     *)
(* minute.                                                                 *)
LEMMA TracksCounts ==
    ASSUME NEW h \in Logs, NEW a \in Logs, Tracks(h, a)
    PROVE  /\ IsFiniteSet(Recent(a))
           /\ Cardinality(Recent(a)) \in Nat
           /\ Cardinality(Recent(a)) <= Len(prune(h))
  <1>1. Len(h) \in Nat /\ Len(a) \in Nat /\ DOMAIN a = 1..Len(a) /\ Window \in Nat
    BY LogShape, RotationAssumption
  <1>2. PICK e \in 0..Len(h) : /\ Len(prune(h)) = Len(h) - e
                               /\ \A i \in 1..e : h[i] = Window
    BY PruneDropsExpired
  <1> DEFINE first == Len(a) - Len(h) + e + 1
  <1>3. Recent(a) \in SUBSET (first..Len(a))
    <2> SUFFICES ASSUME NEW i \in Recent(a) PROVE i \in first..Len(a)
      OBVIOUS
    <2>1. i \in 1..Len(a) /\ a[i] < Window
      BY <1>1 DEF Recent
    <2>2. a[i] = IF i + Len(h) - Len(a) > 0 THEN h[i + Len(h) - Len(a)] ELSE Window
      BY <2>1 DEF Tracks
    <2>3. i + Len(h) - Len(a) > 0 /\ i + Len(h) - Len(a) \notin 1..e
      BY <1>1, <1>2, <2>1, <2>2
    <2> QED
      BY <1>1, <1>2, <2>1, <2>3
  <1>4. first \in Int /\ Len(a) \in Int
    BY <1>1, <1>2
  <1>5. /\ IsFiniteSet(first..Len(a))
        /\ Cardinality(first..Len(a)) = IF first > Len(a) THEN 0 ELSE Len(a) - first + 1
    BY <1>4, FS_Interval
  <1>6. Cardinality(first..Len(a)) = Len(prune(h))
    BY <1>1, <1>2, <1>5
  <1>7. /\ IsFiniteSet(Recent(a))
        /\ Cardinality(Recent(a)) <= Cardinality(first..Len(a))
    BY <1>3, <1>5, FS_Subset
  <1> QED
    BY <1>6, <1>7, FS_CardinalityType

-----------------------------------------------------------------------------
SettingsInv ==
    /\ present \subseteq Keys
    /\ available \subseteq present
    /\ capacity \in [Keys -> Capacities \cup {0}]
    /\ limit \in Limits
    /\ sinceSweep \in 0..Window
    /\ snapshot \in [Requests -> Limits \cup {0}]

LEMMA SettingsTyped == Spec => []SettingsInv
  <1>1. Init => SettingsInv
    BY RotationAssumption DEF Init, SettingsInv
  <1>2. SettingsInv /\ [Next]_vars => SettingsInv'
    <2> SUFFICES ASSUME SettingsInv, [Next]_vars PROVE SettingsInv'
      OBVIOUS
    <2>1. CASE Tick
      BY <2>1, OlderAge DEF Tick, SettingsInv, storeVars, requestVars
    <2>2. CASE \E n \in Limits : SaveConfig(n)
      BY <2>2 DEF SaveConfig, SettingsInv, gatewayVars, requestVars
    <2>3. ASSUME NEW k \in Keys, SwitchKey(k) \/ DeleteKey(k)
          PROVE  SettingsInv'
      BY <2>3 DEF SwitchKey, DeleteKey, SettingsInv, gatewayVars, requestVars
    <2>4. ASSUME NEW k \in Keys, NEW n \in Capacities, UpdateKey(k, n) \/ CreateKey(k, n)
          PROVE  SettingsInv'
      BY <2>4 DEF UpdateKey, CreateKey, SettingsInv, gatewayVars, requestVars
    <2>5. ASSUME NEW r \in Requests,
                 ReadConfig(r) \/ NoKey(r) \/ NoRoute(r) \/ Admit(r) \/ releaseSelected(r)
          PROVE  SettingsInv'
      <3>1. UNCHANGED storeVars
        BY <2>5 DEF ReadConfig, NoKey, NoRoute, Admit, releaseSelected
      <3>2. sinceSweep' \in 0..Window
        BY <2>5, RotationAssumption
           DEF ReadConfig, NoKey, NoRoute, Admit, releaseSelected, Sweep, gatewayVars, SettingsInv
      <3>3. snapshot' \in [Requests -> Limits \cup {0}]
        BY <2>5 DEF ReadConfig, NoKey, NoRoute, Admit, releaseSelected, GoTo, SettingsInv
      <3> QED
        BY <3>1, <3>2, <3>3 DEF SettingsInv, storeVars
    <2>6. CASE UNCHANGED vars
      BY <2>6 DEF vars, storeVars, gatewayVars, requestVars, SettingsInv
    <2> QED
      BY <2>1, <2>2, <2>3, <2>4, <2>5, <2>6 DEF Next, Environment
  <1> QED
    BY <1>1, <1>2, PTL DEF Spec

(* What is remembered of a key, also of one that does not exist.           *)
HistoryInv ==
    /\ hits \in [Keys -> Logs]
    /\ admitted \in [Keys -> Logs]
    /\ \A k \in Keys : IF k \in present THEN Tracks(hits[k], admitted[k])
                       ELSE admitted[k] = <<>>

LEMMA HistoryInit == Init => HistoryInv
  <1>1. <<>> \in Logs
    BY EmptySeq DEF Logs
  <1>2. Tracks(<<>>, <<>>)
    BY <1>1, TracksOwn
  <1> QED
    BY <1>1, <1>2 DEF Init, HistoryInv

LEMMA TickKeepsHistory ==
    ASSUME HistoryInv, Tick
    PROVE  HistoryInv'
  <1>1. hits' = AllOlder(hits) /\ admitted' = AllOlder(admitted) /\ present' = present
    BY DEF Tick, storeVars
  <1>2. ASSUME NEW log \in [Keys -> Logs], NEW k \in Keys
        PROVE  /\ AllOlder(log)[k] \in Logs
               /\ Len(AllOlder(log)[k]) = Len(log[k])
               /\ \A i \in 1..Len(log[k]) : AllOlder(log)[k][i] = Older(log[k][i])
    <2> DEFINE older == [i \in 1..Len(log[k]) |-> Older(log[k][i])]
    <2>1. Len(log[k]) \in Nat /\ DOMAIN log[k] = 1..Len(log[k])
      BY LogShape
    <2>2. AllOlder(log)[k] = older
      BY <2>1 DEF AllOlder
    <2>3. older \in [1..Len(log[k]) -> 0..Window]
      BY LogShape, OlderAge
    <2>4. older \in Logs /\ Len(older) = Len(log[k])
      BY <2>1, <2>3, LogOfShape
    <2> QED
      BY <2>2, <2>4
  <1>3. /\ \A k \in Keys : hits'[k] \in Logs /\ Len(hits'[k]) = Len(hits[k])
                           /\ \A i \in 1..Len(hits[k]) : hits'[k][i] = Older(hits[k][i])
        /\ \A k \in Keys : admitted'[k] \in Logs /\ Len(admitted'[k]) = Len(admitted[k])
                           /\ \A i \in 1..Len(admitted[k]) : admitted'[k][i] = Older(admitted[k][i])
    BY <1>1, <1>2 DEF HistoryInv
  <1>4. /\ hits' = [k \in Keys |-> hits'[k]]
        /\ admitted' = [k \in Keys |-> admitted'[k]]
    BY <1>1 DEF AllOlder
  <1>5. hits' \in [Keys -> Logs] /\ admitted' \in [Keys -> Logs]
    BY <1>3, <1>4
  <1>6. ASSUME NEW k \in Keys, k \in present PROVE Tracks(hits'[k], admitted'[k])
    <2>1. hits[k] \in Logs /\ admitted[k] \in Logs /\ Tracks(hits[k], admitted[k])
      BY <1>6 DEF HistoryInv
    <2> QED
      BY <1>3, <2>1, TracksOlder
  <1>7. ASSUME NEW k \in Keys, k \notin present PROVE admitted'[k] = <<>>
    <2>1. admitted[k] = <<>>
      BY <1>7 DEF HistoryInv
    <2>2. Len(admitted'[k]) = 0 /\ admitted'[k] \in Logs
      BY <1>3, <2>1
    <2> QED
      BY <2>2, EmptySeq DEF Logs
  <1> QED
    BY <1>1, <1>5, <1>6, <1>7 DEF HistoryInv

LEMMA SweptTracks ==
    ASSUME HistoryInv, NEW k \in Keys
    PROVE  Swept(k) \in Logs /\ (k \in present => Tracks(Swept(k), admitted[k]))
  <1>1. <<>> \in Logs
    BY EmptySeq DEF Logs
  <1>2. hits[k] \in Logs /\ admitted[k] \in Logs
    BY DEF HistoryInv
  <1>3. prune(hits[k]) \in Logs /\ (k \in present => Tracks(prune(hits[k]), admitted[k]))
    BY <1>2, PruneDropsExpired, TracksPruned DEF HistoryInv
  <1> QED
    BY <1>1, <1>3 DEF Swept

LEMMA AdmitKeepsHistory ==
    ASSUME HistoryInv, SettingsInv, NEW r \in Requests, Admit(r)
    PROVE  HistoryInv'
  <1>1. PICK k \in Chosen(r) :
           /\ hits' = [i \in Keys |-> IF i = k THEN Append(Swept(i), 0) ELSE Swept(i)]
           /\ admitted' = [i \in Keys |-> IF i = k THEN Append(prune(admitted[i]), 0)
                                          ELSE prune(admitted[i])]
    BY DEF Admit
  <1>2. k \in present
    BY DEF Chosen, Eligible, SettingsInv
  <1>3. present' = present
    BY DEF Admit, storeVars
  <1>4. ASSUME NEW i \in Keys
        PROVE  /\ hits'[i] \in Logs
               /\ admitted'[i] \in Logs
               /\ IF i \in present THEN Tracks(hits'[i], admitted'[i]) ELSE admitted'[i] = <<>>
    <2>1. Swept(i) \in Logs /\ (i \in present => Tracks(Swept(i), admitted[i]))
      BY SweptTracks
    <2>2. prune(admitted[i]) \in Logs
      BY PruneDropsExpired DEF HistoryInv
    <2>3. i \in present => Tracks(Swept(i), prune(admitted[i]))
      BY <2>1, TracksPruned DEF HistoryInv
    <2>4. CASE i = k
      <3>1. hits'[i] = Append(Swept(i), 0) /\ admitted'[i] = Append(prune(admitted[i]), 0)
        BY <1>1, <2>4
      <3> QED
        BY <1>2, <2>1, <2>2, <2>3, <2>4, <3>1, AppendToLog, TracksNext
    <2>5. CASE i # k
      <3>1. hits'[i] = Swept(i) /\ admitted'[i] = prune(admitted[i])
        BY <1>1, <2>5
      <3>2. ASSUME i \notin present PROVE prune(admitted[i]) = <<>>
        <4>1. admitted[i] = <<>> /\ admitted[i] \in Logs /\ Len(admitted[i]) = 0
          BY <3>2 DEF HistoryInv
        <4>2. Len(prune(admitted[i])) = 0
          <5>1. PICK e \in 0..Len(admitted[i]) : Len(prune(admitted[i])) = Len(admitted[i]) - e
            BY <4>1, PruneDropsExpired
          <5> QED
            BY <4>1, <5>1
        <4> QED
          BY <2>2, <4>2, EmptySeq DEF Logs
      <3> QED
        BY <2>1, <2>2, <2>3, <3>1, <3>2
    <2> QED
      BY <2>4, <2>5
  <1>5. hits' \in [Keys -> Logs] /\ admitted' \in [Keys -> Logs]
    BY <1>1, <1>4
  <1> QED
    BY <1>3, <1>4, <1>5 DEF HistoryInv

LEMMA HistoryStep ==
    ASSUME HistoryInv, SettingsInv, [Next]_vars
    PROVE  HistoryInv'
  <1>1. CASE UNCHANGED <<present, hits, admitted>>
    BY <1>1 DEF HistoryInv
  <1>2. ASSUME NEW k \in Keys, DeleteKey(k)
        PROVE  HistoryInv'
    <2>1. <<>> \in Logs
      BY EmptySeq DEF Logs
    <2> QED
      BY <1>2, <2>1 DEF DeleteKey, HistoryInv, gatewayVars
  <1>3. ASSUME NEW k \in Keys, NEW n \in Capacities, CreateKey(k, n)
        PROVE  HistoryInv'
    <2>1. /\ k \notin present /\ present' = present \cup {k}
          /\ hits' = hits /\ admitted' = admitted
      BY <1>3 DEF CreateKey, gatewayVars, historyVars
    <2>2. Tracks(hits[k], admitted[k])
      BY <2>1, TracksOwn DEF HistoryInv
    <2> QED
      BY <2>1, <2>2 DEF HistoryInv
  <1>4. ASSUME NEW r \in Requests, NoKey(r) \/ NoRoute(r)
        PROVE  HistoryInv'
    <2>1. /\ hits' = [k \in Keys |-> Swept(k)]
          /\ present' = present /\ admitted' = admitted
      BY <1>4 DEF NoKey, NoRoute, storeVars, historyVars
    <2> QED
      BY <2>1, SweptTracks DEF HistoryInv
  <1>5. \A r \in Requests : ReadConfig(r) \/ releaseSelected(r) => UNCHANGED <<present, hits, admitted>>
    BY DEF ReadConfig, releaseSelected, storeVars, gatewayVars, historyVars
  <1>6. ASSUME NEW k \in Keys, NEW n, SaveConfig(n) \/ SwitchKey(k) \/ UpdateKey(k, n)
        PROVE  UNCHANGED <<present, hits, admitted>>
    BY <1>6 DEF SaveConfig, SwitchKey, UpdateKey, gatewayVars, historyVars
  <1>7. \A n \in Limits : SaveConfig(n) => UNCHANGED <<present, hits, admitted>>
    BY DEF SaveConfig, gatewayVars, historyVars
  <1>8. UNCHANGED vars => UNCHANGED <<present, hits, admitted>>
    BY DEF vars, storeVars, gatewayVars, historyVars
  <1> QED
    BY <1>1, <1>2, <1>3, <1>4, <1>5, <1>6, <1>7, <1>8, TickKeepsHistory, AdmitKeepsHistory
       DEF Next, Environment

LEMMA Remembered == Spec => []HistoryInv
  <1>1. HistoryInv /\ SettingsInv /\ [Next]_vars => HistoryInv'
    BY HistoryStep
  <1> QED
    BY <1>1, HistoryInit, SettingsTyped, PTL DEF Spec

LEMMA UsageFromHistory == HistoryInv /\ SettingsInv => UsageCounted
  <1> SUFFICES ASSUME HistoryInv, SettingsInv, NEW k \in present
               PROVE  Cardinality(Recent(admitted[k])) <= Len(prune(hits[k]))
    BY DEF UsageCounted
  <1>1. k \in Keys /\ hits[k] \in Logs /\ admitted[k] \in Logs /\ Tracks(hits[k], admitted[k])
    BY DEF HistoryInv, SettingsInv
  <1> QED
    BY <1>1, TracksCounts

(* What the gateway counts of a key and of the whole (gateway.go:549-606)  *)
(* is typed and true; in particular KeyMinuteUsage shows no less than the  *)
(* admissions of the last minute, for any number of keys that come and go  *)
(* and any window.                                                         *)
THEOREM CountersAreTrue == Spec => []CountersTrue
  <1>1. RotationInv /\ AccountingInv /\ SettingsInv /\ HistoryInv => TypeOK
    BY DEF RotationInv, AccountingInv, SettingsInv, HistoryInv, Logs, TypeOK
  <1>2. AccountingInv => InflightExact
    BY DEF AccountingInv
  <1>3. RotationInv /\ StoreInv /\ [Next]_vars => RotationInv'
    BY RotationStep
  <1>4. Spec => []RotationInv
    BY <1>3, RotationInit, StoreTypes, PTL DEF Spec
  <1>5. RotationInv /\ AccountingInv /\ SettingsInv /\ HistoryInv => CountersTrue
    BY <1>1, <1>2, UsageFromHistory DEF CountersTrue
  <1> QED
    BY <1>4, <1>5, Accounted, SettingsTyped, Remembered, PTL

(* The sliding window holds (gateway.go:71): the admission of a key makes  *)
(* no more than the configured number in the last minute, for any limits   *)
(* that are saved meanwhile.                                               *)
THEOREM RateIsRespected == Spec => RateRespected
  <1> DEFINE Within == \A r \in Requests, k \in Keys :
                          key[r] # k /\ key'[r] = k /\ snapshot[r] > 0 /\ Admit(r)
                          => Cardinality(Recent(admitted[k])') <= snapshot[r]
  <1>1. AccountingInv /\ SettingsInv /\ HistoryInv /\ [Next]_vars => [Within]_vars
    <2> SUFFICES ASSUME AccountingInv, SettingsInv, HistoryInv, HistoryInv',
                        NEW r \in Requests, NEW k \in Keys,
                        key'[r] = k, snapshot[r] > 0, Admit(r)
                 PROVE  Cardinality(Recent(admitted[k])') <= snapshot[r]
      BY HistoryStep
    <2>1. PICK c \in Chosen(r) :
             /\ key' = [key EXCEPT ![r] = c]
             /\ admitted' = [i \in Keys |-> IF i = c THEN Append(prune(admitted[i]), 0)
                                            ELSE prune(admitted[i])]
      BY DEF Admit
    <2>2. c = k
      BY <2>1 DEF AccountingInv
    <2>0. snapshot[r] \in Nat
      <3>1. snapshot[r] \in Limits \cup {0}
        BY DEF SettingsInv
      <3>2. \A n \in Limits : n \in Nat
        BY RotationAssumption
      <3> QED
        BY <3>1, <3>2
    <2>3. /\ k \in present
          /\ Len(prune(hits[k])) < snapshot[r]
      <3>1. k \in Eligible(r)
        BY <2>2 DEF Chosen
      <3> QED
        BY <2>0, <3>1 DEF Eligible, SettingsInv
    <2> DEFINE a == prune(admitted[k])
               h == prune(hits[k])
    <2>4. hits[k] \in Logs /\ admitted[k] \in Logs /\ Tracks(hits[k], admitted[k])
      BY <2>3 DEF HistoryInv
    <2>5. h \in Logs /\ a \in Logs /\ Tracks(hits[k], a)
      BY <2>4, PruneDropsExpired, TracksPruned
    <2>6. /\ IsFiniteSet(Recent(a)) /\ Cardinality(Recent(a)) \in Nat
          /\ Cardinality(Recent(a)) <= Len(h)
      BY <2>4, <2>5, TracksCounts
    <2>7. admitted'[k] = Append(a, 0)
      BY <2>1, <2>2
    <2> HIDE DEF a, h
    <2>8. Recent(Append(a, 0)) \in SUBSET (Recent(a) \cup {Len(a) + 1})
      <3>1. /\ Append(a, 0) \in Logs /\ Len(Append(a, 0)) = Len(a) + 1 /\ Len(a) \in Nat
            /\ \A i \in 1..Len(a) + 1 : Append(a, 0)[i] = IF i <= Len(a) THEN a[i] ELSE 0
        BY <2>5, AppendToLog, LogShape
      <3>2. DOMAIN Append(a, 0) = 1..Len(a) + 1 /\ DOMAIN a = 1..Len(a)
        BY <2>5, <3>1, LogShape
      <3> QED
        BY <3>1, <3>2 DEF Recent
    <2>9. /\ IsFiniteSet(Recent(a) \cup {Len(a) + 1})
          /\ Cardinality(Recent(a) \cup {Len(a) + 1}) <= Cardinality(Recent(a)) + 1
      <3>1. /\ IsFiniteSet(Recent(a) \cup {Len(a) + 1})
            /\ Cardinality(Recent(a) \cup {Len(a) + 1}) =
                  IF Len(a) + 1 \in Recent(a) THEN Cardinality(Recent(a)) ELSE Cardinality(Recent(a)) + 1
        BY <2>6, FS_AddElement
      <3> QED
        BY <2>6, <3>1
    <2>10. /\ IsFiniteSet(Recent(Append(a, 0)))
           /\ Cardinality(Recent(Append(a, 0))) <= Cardinality(Recent(a) \cup {Len(a) + 1})
      BY <2>8, <2>9, FS_Subset
    <2>11. /\ Cardinality(Recent(Append(a, 0))) \in Nat
           /\ Cardinality(Recent(a) \cup {Len(a) + 1}) \in Nat
      BY <2>9, <2>10, FS_CardinalityType
    <2>12. Recent(admitted[k])' = Recent(Append(a, 0))
      BY <2>7 DEF Recent
    <2>13. Len(h) \in Nat /\ Len(h) < snapshot[r] /\ snapshot[r] \in Nat
      <3>1. Len(h) \in Nat
        BY <2>5, LogShape
      <3>2. Len(h) < snapshot[r]
        BY <2>3 DEF h
      <3> QED
        BY <2>0, <3>1, <3>2
    <2> QED
      BY <2>6, <2>9, <2>10, <2>11, <2>12, <2>13
  <1> QED
    BY <1>1, Accounted, SettingsTyped, Remembered, PTL DEF Spec, RateRespected
=============================================================================
