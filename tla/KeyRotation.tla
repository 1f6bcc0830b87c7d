---------------------------- MODULE KeyRotation ----------------------------
(***************************************************************************)
(* The choice of the key that serves a request (acquireKey and releaseSe-  *)
(* lected of internal/gateway): strict rotation in the order of the ids,   *)
(* over the keys that are available, below their own concurrency and below *)
(* the configured requests per minute, counted in a sliding window.        *)
(*                                                                         *)
(* A key id is its rank in the order.  Why a key is unavailable (disabled, *)
(* paused, out of balance, cooling down) and why an acquisition fails      *)
(* after the key is chosen (no upstream URL, no proxy) is left open.       *)
(* A time stamp is abstracted to its age, up to Window, when it has        *)
(* expired; so the clock needs no bound.  Expired hits are dropped for all *)
(* keys at each acquisition, where the code drops those of the keys it     *)
(* looks at: they are never counted again.  The sweep and the selection    *)
(* take the store's mutex one after the other; here they are one step.     *)
(***************************************************************************)
EXTENDS Integers, Sequences, FiniteSets

CONSTANTS MaxKey,      \* key ids are 1..MaxKey
          Requests,    \* goroutines that acquire a key
          Limits,      \* values of KeyMaxRequestsPerMinute, 0: unlimited
          Capacities,  \* values of a key's MaxConcurrency
          Window,      \* minuteWindow, in ticks
          MaxHits      \* bound: admissions of a key remembered at a time

Keys == 1..MaxKey

ASSUME RotationAssumption ==
    /\ {MaxKey, Window, MaxHits} \subseteq Nat \ {0}
    /\ IsFiniteSet(Requests)
    /\ Limits \subseteq Nat
    /\ Capacities \subseteq Nat \ {0}

VARIABLES present,    \* the keys in the store
          available,  \* those not paused, disabled, depleted or cooling down
          capacity,   \* MaxConcurrency of each key
          limit,      \* KeyMaxRequestsPerMinute
          lastKeyID,  \* the key chosen last, 0: none
          inflight,   \* requests per key
          activeRequests,
          hits,       \* keyMinute: the ages of each key's admissions, oldest first
          sinceSweep, \* the age of lastMinuteSweep
          stage,      \* where each request is
          snapshot,   \* the limit in the configuration it has read
          key,        \* the key it holds, 0: none
          passed,     \* history: how often i was chosen while j was eligible, since j was
          admitted    \* history: the admissions of each key since it was created

storeVars == <<present, available, capacity, limit>>
gatewayVars == <<lastKeyID, inflight, activeRequests, hits, sinceSweep>>
requestVars == <<stage, snapshot, key>>
historyVars == <<passed, admitted>>
vars == <<storeVars, gatewayVars, requestVars, historyVars>>

TypeOK ==
    /\ present \subseteq Keys
    /\ available \subseteq present
    /\ capacity \in [Keys -> Capacities \cup {0}]
    /\ limit \in Limits
    /\ lastKeyID \in 0..MaxKey
    /\ inflight \in [Keys -> Nat]
    /\ activeRequests \in Nat
    /\ hits \in [Keys -> Seq(0..Window)]
    /\ sinceSweep \in 0..Window
    /\ stage \in [Requests -> {"idle", "config", "held"}]
    /\ snapshot \in [Requests -> Limits \cup {0}]
    /\ key \in [Requests -> 0..MaxKey]

(* lastMinuteSweep is zero at first, so the first acquisition sweeps.      *)
Init ==
    /\ present = Keys
    /\ available = Keys
    /\ capacity \in [Keys -> Capacities]
    /\ limit \in Limits
    /\ lastKeyID = 0
    /\ inflight = [k \in Keys |-> 0]
    /\ activeRequests = 0
    /\ hits = [k \in Keys |-> <<>>]
    /\ sinceSweep = Window
    /\ stage = [r \in Requests |-> "idle"]
    /\ snapshot = [r \in Requests |-> 0]
    /\ key = [r \in Requests |-> 0]
    /\ passed = [j \in Keys |-> [i \in Keys |-> 0]]
    /\ admitted = [k \in Keys |-> <<>>]

-----------------------------------------------------------------------------
(* What changes around the gateway, at any time.                           *)

Older(age) == IF age < Window THEN age + 1 ELSE Window
AllOlder(log) == [k \in Keys |-> [i \in DOMAIN log[k] |-> Older(log[k][i])]]

Tick ==
    /\ hits' = AllOlder(hits)
    /\ admitted' = AllOlder(admitted)
    /\ sinceSweep' = Older(sinceSweep)
    /\ UNCHANGED <<storeVars, lastKeyID, inflight, activeRequests, requestVars, passed>>

SaveConfig(n) ==
    /\ limit' = n
    /\ UNCHANGED <<present, available, capacity, gatewayVars, requestVars, historyVars>>

(* Pauses, restores and the outcomes of other requests.                    *)
SwitchKey(k) ==
    /\ k \in present
    /\ available' = IF k \in available THEN available \ {k} ELSE available \cup {k}
    /\ UNCHANGED <<present, capacity, limit, gatewayVars, requestVars, historyVars>>

UpdateKey(k, n) ==
    /\ k \in present
    /\ capacity' = [capacity EXCEPT ![k] = n]
    /\ UNCHANGED <<present, available, limit, gatewayVars, requestVars, historyVars>>

DeleteKey(k) ==
    /\ k \in present
    /\ present' = present \ {k}
    /\ available' = available \ {k}
    /\ capacity' = [capacity EXCEPT ![k] = 0]
    /\ admitted' = [admitted EXCEPT ![k] = <<>>]
    /\ UNCHANGED <<limit, gatewayVars, requestVars, passed>>

(* A new key may have the id of a deleted one; the gateway still counts    *)
(* what runs, and has run, under the id.                                   *)
CreateKey(k, n) ==
    /\ k \notin present
    /\ present' = present \cup {k}
    /\ available' = available \cup {k}
    /\ capacity' = [capacity EXCEPT ![k] = n]
    /\ UNCHANGED <<limit, gatewayVars, requestVars, historyVars>>

-----------------------------------------------------------------------------
(* The gateway.                                                            *)

(* prune: the expired hits are a prefix, for they are in order of time.    *)
Expired(s) == {i \in DOMAIN s : \A j \in 1..i : s[j] = Window}
prune(s) == SubSeq(s, Cardinality(Expired(s)) + 1, Len(s))

SweepDue == sinceSweep = Window
(* Mutant: the sweep forgets the keys that exist.                          *)
Swept_Present(k) == IF SweepDue /\ k \in present THEN <<>> ELSE prune(hits[k])

Swept(k) == IF SweepDue /\ k \notin present THEN <<>> ELSE prune(hits[k])

(* Mutant: a key that serves all it may takes one more request.            *)
Eligible_Full(r) ==
    {k \in available :
        /\ inflight[k] <= capacity[k]
        /\ snapshot[r] = 0 \/ Len(prune(hits[k])) < snapshot[r]}

(* Mutant: one more request per minute than configured.                    *)
Eligible_OneMore(r) ==
    {k \in available :
        /\ inflight[k] < capacity[k]
        /\ snapshot[r] = 0 \/ Len(prune(hits[k])) <= snapshot[r]}

Eligible(r) ==
    {k \in available :
        /\ inflight[k] < capacity[k]
        /\ snapshot[r] = 0 \/ Len(prune(hits[k])) < snapshot[r]}

(* SelectKeyAfter: the first eligible one, going round from lastKeyID, if  *)
(* there is one.                                                           *)
Distance(k) == IF k > lastKeyID THEN k - lastKeyID ELSE k - lastKeyID + MaxKey
Chosen(r) == LET E == Eligible(r)
             IN  {k \in E : \A other \in E : Distance(k) <= Distance(other)}

ReadConfig(r) ==
    /\ stage[r] = "idle"
    /\ stage' = [stage EXCEPT ![r] = "config"]
    /\ snapshot' = [snapshot EXCEPT ![r] = limit]
    /\ UNCHANGED <<storeVars, gatewayVars, key, historyVars>>

Sweep == sinceSweep' = IF SweepDue THEN 0 ELSE sinceSweep

(* The copy of the configuration is local to acquireKey.                   *)
GoTo(r, next) ==
    /\ stage' = [stage EXCEPT ![r] = next]
    /\ snapshot' = [snapshot EXCEPT ![r] = 0]

(* errNoAvailableKey *)
NoKey(r) ==
    /\ stage[r] = "config"
    /\ Eligible(r) = {}
    /\ Sweep
    /\ hits' = [k \in Keys |-> Swept(k)]
    /\ GoTo(r, "idle")
    /\ UNCHANGED <<storeVars, lastKeyID, inflight, activeRequests, key, historyVars>>

(* History: everyone eligible has been passed over once more by the chosen *)
(* key k; 2 stands for more.                                               *)
PassBy(r, k) ==
    LET E == Eligible(r)
    IN  passed' = [j \in Keys |->
                      IF j \notin E \/ j = k THEN [i \in Keys |-> 0]
                      ELSE [passed[j] EXCEPT ![k] = IF @ < 2 THEN @ + 1 ELSE @]]

(* Mutant: a failed acquisition does not advance the rotation.             *)
NoRoute_Stays(r) ==
    /\ stage[r] = "config"
    /\ \E k \in Chosen(r) : PassBy(r, k)
    /\ Sweep
    /\ hits' = [i \in Keys |-> Swept(i)]
    /\ GoTo(r, "idle")
    /\ UNCHANGED <<storeVars, lastKeyID, inflight, activeRequests, key, admitted>>

(* The key is chosen, but there is no upstream or no proxy for it.         *)
NoRoute(r) ==
    /\ stage[r] = "config"
    /\ \E k \in Chosen(r) : lastKeyID' = k /\ PassBy(r, k)
    /\ Sweep
    /\ hits' = [i \in Keys |-> Swept(i)]
    /\ GoTo(r, "idle")
    /\ UNCHANGED <<storeVars, inflight, activeRequests, key, admitted>>

Admit(r) ==
    /\ stage[r] = "config"
    /\ \E k \in Chosen(r) :
          /\ Len(Swept(k)) < MaxHits
          /\ hits' = [i \in Keys |-> IF i = k THEN Append(Swept(i), 0) ELSE Swept(i)]
          /\ lastKeyID' = k
          /\ inflight' = [inflight EXCEPT ![k] = @ + 1]
          /\ key' = [key EXCEPT ![r] = k]
          /\ PassBy(r, k)
          /\ admitted' = [i \in Keys |-> IF i = k THEN Append(prune(admitted[i]), 0)
                                         ELSE prune(admitted[i])]
    /\ Sweep
    /\ activeRequests' = activeRequests + 1
    /\ GoTo(r, "held")
    /\ UNCHANGED storeVars

releaseSelected(r) ==
    /\ stage[r] = "held"
    /\ stage' = [stage EXCEPT ![r] = "idle"]
    /\ key' = [key EXCEPT ![r] = 0]
    /\ IF inflight[key[r]] > 0
       THEN /\ inflight' = [inflight EXCEPT ![key[r]] = @ - 1]
            /\ activeRequests' = activeRequests - 1
       ELSE UNCHANGED <<inflight, activeRequests>>
    /\ UNCHANGED <<storeVars, lastKeyID, hits, sinceSweep, snapshot, historyVars>>

Environment ==
    \/ Tick
    \/ \E n \in Limits : SaveConfig(n)
    \/ \E k \in Keys : \/ SwitchKey(k)
                       \/ \E n \in Capacities : UpdateKey(k, n) \/ CreateKey(k, n)
                       \/ DeleteKey(k)

Next ==
    \/ Environment
    \/ \E r \in Requests : ReadConfig(r) \/ NoKey(r) \/ NoRoute(r) \/ Admit(r) \/ releaseSelected(r)

Spec == Init /\ [][Next]_vars

-----------------------------------------------------------------------------
(* The counters say who is there: failed acquisitions leave no trace, and  *)
(* each release takes back one admission, also of a deleted key.           *)
Holding(k) == {r \in Requests : key[r] = k}
InflightExact ==
    /\ \A k \in Keys : inflight[k] = Cardinality(Holding(k))
    /\ activeRequests = Cardinality({r \in Requests : stage[r] = "held"})

(* README "Strict round-robin key selection in stable key-ID order,        *)
(* skipping unavailable keys": no key is chosen twice while another that   *)
(* could have been chosen each time is not.                                *)
StrictRotation == \A i, j \in Keys : passed[j][i] <= 1

(* A key never serves more requests than it may when one is added.         *)
CapacityRespected ==
    [][\A r \in Requests, k \in Keys : key[r] # k /\ key'[r] = k /\ Admit(r)
           => Cardinality(Holding(k)') <= capacity[k]]_vars

(* gateway.go:71: the window slides.  In the minute before an admission a  *)
(* key is admitted no more often than the configuration its request has    *)
(* read allows, sweeps and lazy pruning notwithstanding.                   *)
Recent(s) == {i \in DOMAIN s : s[i] < Window}
RateRespected ==
    [][\A r \in Requests, k \in Keys :
           key[r] # k /\ key'[r] = k /\ snapshot[r] > 0 /\ Admit(r)
           => Cardinality(Recent(admitted[k])') <= snapshot[r]]_vars

(* KeyMinuteUsage shows no less than the truth for a key that exists.      *)
UsageCounted ==
    \A k \in present : Cardinality(Recent(admitted[k])) <= Len(prune(hits[k]))

(* All counters of the gateway together, with their types.                 *)
CountersTrue == TypeOK /\ InflightExact /\ UsageCounted
=============================================================================
