-------------------------- MODULE GenerationProofs --------------------------
(***************************************************************************)
(* Proofs about Generation for any number of keys and requests, any config-*)
(* urations and any number of attempts.                                    *)
(*                                                                         *)
(* A request holds its key from Begin to Release, and each key counts its  *)
(* holders; the requests whose outcome is not recorded yet are holders.    *)
(*                                                                         *)
(* The types rest on the attempts that a waiting request has left, and on  *)
(* those of KeyHealth, whose actions the outcomes are; with them, what the *)
(* requests do to the keys is shown to be a behaviour of KeyHealth.        *)
(***************************************************************************)
EXTENDS Generation, FiniteSetTheorems, TLAPS

Holders(k) == {r \in Requests : kind[r] \in Routed /\ key[r] = k}

HoldingInv ==
    /\ inflight \in [Keys -> Nat]
    /\ stage \in [Requests -> Stages]
    /\ DOMAIN kind = Requests /\ DOMAIN key = Requests
    /\ \A r \in Requests : stage[r] = "idle" => kind[r] \notin Routed
    /\ \A k \in Keys : inflight[k] = Cardinality(Holders(k)) /\ inflight[k] <= Capacity

LEMMA HolderSets ==
    ASSUME NEW k
    PROVE  Holders(k) \in SUBSET Requests /\ IsFiniteSet(Holders(k)) /\ Cardinality(Holders(k)) \in Nat
  <1>1. Holders(k) \in SUBSET Requests
    BY DEF Holders
  <1>2. IsFiniteSet(Holders(k))
    BY <1>1, GenerationAssumption, FS_Subset
  <1> QED
    BY <1>1, <1>2, FS_CardinalityType

LEMMA CapacityType == Capacity \in Nat /\ Capacity > 0
  BY GenerationAssumption

(* A step within forwarding, judging or publishing.                        *)
LEMMA StaysHolder ==
    ASSUME HoldingInv, NEW r \in Requests, NEW next \in Stages \ {"idle"}, stage[r] # "idle",
           stage' = [stage EXCEPT ![r] = next], UNCHANGED <<inflight, kind, key>>
    PROVE  HoldingInv'
  <1>1. stage' \in [Requests -> Stages]
    BY DEF HoldingInv
  <1>2. \A x \in Requests : stage'[x] = "idle" => kind'[x] \notin Routed
    BY DEF HoldingInv
  <1>3. \A k \in Keys : Holders(k)' = Holders(k)
    BY DEF Holders
  <1> QED
    BY <1>1, <1>2, <1>3 DEF HoldingInv

LEMMA BeginHolds ==
    ASSUME HoldingInv, NEW r \in Requests, NEW what \in Kinds, NEW k \in Keys, Begin(r, what, k)
    PROVE  HoldingInv'
  <1>1. /\ stage[r] = "idle" /\ stage' = [stage EXCEPT ![r] = "send"]
        /\ kind' = [kind EXCEPT ![r] = what]
        /\ key' = [key EXCEPT ![r] = k]
    BY DEF Begin
  <1>2. /\ stage' \in [Requests -> Stages]
        /\ DOMAIN kind' = Requests /\ DOMAIN key' = Requests
        /\ \A x \in Requests : stage'[x] = "idle" => kind'[x] \notin Routed
    BY <1>1 DEF HoldingInv, Stages, Unpublished
  <1>3. \A x \in Requests : /\ kind'[x] = IF x = r THEN what ELSE kind[x]
                            /\ key'[x] = IF x = r THEN k ELSE key[x]
    BY <1>1 DEF HoldingInv
  <1>4. kind[r] \notin Routed
    BY <1>1 DEF HoldingInv
  <1>5. CASE what \in Routed
    <2>1. inflight[k] < Capacity /\ inflight' = [inflight EXCEPT ![k] = @ + 1]
      BY <1>5 DEF Begin
    <2>2. \A j \in Keys : Holders(j)' = IF j = k THEN Holders(j) \cup {r} ELSE Holders(j)
      BY <1>3, <1>4, <1>5 DEF Holders
    <2>3. Cardinality(Holders(k) \cup {r}) = Cardinality(Holders(k)) + 1
      <3>1. r \notin Holders(k)
        BY <1>4 DEF Holders
      <3> QED
        BY <3>1, HolderSets, FS_AddElement
    <2>4. \A j \in Keys : /\ inflight'[j] \in Nat
                          /\ inflight'[j] = Cardinality(Holders(j)')
                          /\ inflight'[j] <= Capacity
      <3>1. \A j \in Keys : inflight'[j] = IF j = k THEN inflight[j] + 1 ELSE inflight[j]
        BY <2>1 DEF HoldingInv
      <3>2. \A j \in Keys : /\ inflight[j] \in Nat /\ inflight[j] <= Capacity
                            /\ inflight[j] = Cardinality(Holders(j))
        BY DEF HoldingInv
      <3> QED
        <4> SUFFICES ASSUME NEW j \in Keys
                     PROVE  /\ inflight'[j] \in Nat
                            /\ inflight'[j] = Cardinality(Holders(j)')
                            /\ inflight'[j] <= Capacity
          OBVIOUS
        <4>1. CASE j = k
          <5>1. Holders(j)' = Holders(k) \cup {r} /\ inflight'[j] = inflight[k] + 1
            BY <2>2, <3>1, <4>1
          <5>2. inflight[k] \in Nat /\ inflight[k] < Capacity /\ inflight[k] = Cardinality(Holders(k))
            BY <2>1, <3>2
          <5> QED
            BY <2>3, <5>1, <5>2, CapacityType
        <4>2. CASE j # k
          BY <2>2, <3>1, <3>2, <4>2
        <4> QED
          BY <4>1, <4>2
    <2>5. inflight' \in [Keys -> Nat]
      BY <2>1, <2>4 DEF HoldingInv
    <2> QED
      BY <1>2, <2>4, <2>5 DEF HoldingInv
  <1>6. CASE what \notin Routed
    <2>1. UNCHANGED inflight
      BY <1>6 DEF Begin
    <2>2. \A j \in Keys : Holders(j)' = Holders(j)
      BY <1>3, <1>4, <1>6 DEF Holders
    <2> QED
      BY <1>2, <2>1, <2>2 DEF HoldingInv
  <1> QED
    BY <1>5, <1>6

LEMMA ReleaseGivesBack ==
    ASSUME HoldingInv, NEW r \in Requests, Release(r)
    PROVE  HoldingInv'
  <1> DEFINE k == key[r]
  <1>1. /\ stage' = [stage EXCEPT ![r] = "idle"]
        /\ kind' = [kind EXCEPT ![r] = "fetch"]
        /\ key' = key
    BY DEF Release
  <1>2. "fetch" \notin Routed
    BY DEF Routed
  <1>3. /\ stage' \in [Requests -> Stages]
        /\ DOMAIN kind' = Requests /\ DOMAIN key' = Requests
        /\ \A x \in Requests : stage'[x] = "idle" => kind'[x] \notin Routed
    BY <1>1, <1>2 DEF HoldingInv, Stages
  <1>4. \A x \in Requests : kind'[x] = IF x = r THEN "fetch" ELSE kind[x]
    BY <1>1 DEF HoldingInv
  <1>5. CASE kind[r] \in Routed /\ k \in Keys
    <2>1. r \in Holders(k)
      BY <1>5 DEF Holders
    <2>2. Cardinality(Holders(k) \ {r}) = Cardinality(Holders(k)) - 1
      BY <2>1, HolderSets, FS_RemoveElement
    <2>3. Cardinality(Holders(k) \ {r}) \in Nat
      <3>1. IsFiniteSet(Holders(k) \ {r})
        BY HolderSets, FS_Subset
      <3> QED
        BY <3>1, FS_CardinalityType
    <2>4. inflight[k] = Cardinality(Holders(k)) /\ inflight[k] \in Nat /\ inflight[k] <= Capacity
      BY <1>5 DEF HoldingInv
    <2>5. inflight[k] > 0
      BY <2>2, <2>3, <2>4
    <2>6. inflight' = [inflight EXCEPT ![k] = @ - 1]
      BY <1>5, <2>5 DEF Release
    <2>7. \A j \in Keys : Holders(j)' = IF j = k THEN Holders(j) \ {r} ELSE Holders(j)
      BY <1>1, <1>2, <1>4 DEF Holders
    <2>8. \A j \in Keys : /\ inflight'[j] \in Nat
                          /\ inflight'[j] = Cardinality(Holders(j)')
                          /\ inflight'[j] <= Capacity
      <3>1. \A j \in Keys : inflight'[j] = IF j = k THEN inflight[j] - 1 ELSE inflight[j]
        BY <2>6 DEF HoldingInv
      <3>2. \A j \in Keys : /\ inflight[j] \in Nat /\ inflight[j] <= Capacity
                            /\ inflight[j] = Cardinality(Holders(j))
        BY DEF HoldingInv
      <3> QED
        BY <2>2, <2>3, <2>7, <3>1, <3>2, CapacityType
    <2>9. inflight' \in [Keys -> Nat]
      BY <2>6, <2>8 DEF HoldingInv
    <2> QED
      BY <1>3, <2>8, <2>9 DEF HoldingInv
  <1>6. CASE ~(kind[r] \in Routed /\ k \in Keys)
    <2>1. inflight' = inflight
      BY <1>6 DEF Release, HoldingInv
    <2>2. \A j \in Keys : Holders(j)' = Holders(j)
      BY <1>1, <1>2, <1>4, <1>6 DEF Holders
    <2> QED
      BY <1>3, <2>1, <2>2 DEF HoldingInv
  <1> QED
    BY <1>5, <1>6

LEMMA ForwardKeeps ==
    ASSUME HoldingInv, NEW r \in Requests, forward(r)
    PROVE  HoldingInv'
  <1>1. stage[r] # "idle" /\ UNCHANGED <<inflight, kind, key>>
    BY DEF forward, Unsendable, Retry, LastError, RetryDelay, Respond, ReadBody, Canceled, WriteFails,
           Finish, GoTo
  <1>2. \E next \in {"send", "delay", "body", "done"} : stage' = [stage EXCEPT ![r] = next]
    BY DEF forward, Unsendable, Retry, LastError, RetryDelay, Respond, ReadBody, Canceled, WriteFails,
           Finish, GoTo
  <1> QED
    BY <1>1, <1>2, StaysHolder DEF Stages, Unpublished

LEMMA PublishKeeps ==
    ASSUME HoldingInv, NEW r \in Requests, ReadSettings(r) \/ recordUpstreamResult(r)
    PROVE  HoldingInv'
  <1>1. stage[r] # "idle" /\ UNCHANGED <<inflight, kind, key>>
    BY DEF ReadSettings, recordUpstreamResult, PublishLimit, PublishNothing, PublishNon429,
           PublishFailure, PublishSuccess, Publishes
  <1>2. \E next \in {"judged", "published"} : stage' = [stage EXCEPT ![r] = next]
    BY DEF ReadSettings, recordUpstreamResult, PublishLimit, PublishNothing, PublishNon429,
           PublishFailure, PublishSuccess, Publishes
  <1> QED
    BY <1>1, <1>2, StaysHolder DEF Stages, Unpublished

LEMMA HoldingInit == Init => HoldingInv
  <1> SUFFICES ASSUME Init PROVE HoldingInv
    OBVIOUS
  <1>1. /\ inflight = [k \in Keys |-> 0]
        /\ stage = [r \in Requests |-> "idle"]
        /\ kind = [r \in Requests |-> "fetch"]
        /\ DOMAIN key = Requests
    BY DEF Init
  <1>2. \A k \in Keys : Holders(k) = {}
    BY <1>1 DEF Holders, Routed
  <1>3. \A k \in Keys : inflight[k] = Cardinality(Holders(k)) /\ inflight[k] <= Capacity
    BY <1>1, <1>2, FS_EmptySet, CapacityType
  <1> QED
    BY <1>1, <1>3 DEF HoldingInv, Stages, Routed

LEMMA HoldingStep == HoldingInv /\ [Next]_vars => HoldingInv'
  <1> SUFFICES ASSUME HoldingInv, [Next]_vars PROVE HoldingInv'
    OBVIOUS
  <1>1. CASE UNCHANGED <<inflight, stage, kind, key>>
    BY <1>1 DEF HoldingInv, Holders
  <1>2. Environment => UNCHANGED <<inflight, stage, kind, key>>
    BY DEF Environment, requestVars
  <1>3. \A r \in Requests : ClientLeaves(r) => UNCHANGED <<inflight, stage, kind, key>>
    BY DEF ClientLeaves
  <1>4. UNCHANGED vars => UNCHANGED <<inflight, stage, kind, key>>
    BY DEF vars, requestVars
  <1> QED
    BY <1>1, <1>2, <1>3, <1>4, BeginHolds, ForwardKeeps, PublishKeeps, ReleaseGivesBack DEF Next

(* Automatic state is published before the slot of the key is freed        *)
(* (gateway.go:233): never do more routed requests of a key have an out-   *)
(* come that is not recorded yet than the key may serve at a time, for any *)
(* number of requests, keys and attempts.                                  *)
THEOREM OutcomesPublishedInTime == Spec => []OutcomesWithinCapacity
  <1>1. HoldingInv => OutcomesWithinCapacity
    <2> SUFFICES ASSUME HoldingInv, NEW k \in Keys
                 PROVE  Cardinality({r \in Requests : /\ kind[r] \in Routed /\ key[r] = k
                                                      /\ stage[r] \in Unpublished}) <= Capacity
      BY DEF OutcomesWithinCapacity
    <2> DEFINE U == {r \in Requests : kind[r] \in Routed /\ key[r] = k /\ stage[r] \in Unpublished}
    <2>1. U \subseteq Holders(k)
      BY DEF Holders
    <2>2. IsFiniteSet(U) /\ Cardinality(U) \in Nat /\ Cardinality(U) <= Cardinality(Holders(k))
      BY <2>1, HolderSets, FS_Subset, FS_CardinalityType
    <2>3. Cardinality(Holders(k)) \in Nat /\ Cardinality(Holders(k)) <= Capacity
      BY HolderSets DEF HoldingInv
    <2>4. Cardinality(U) <= Capacity
      BY <2>2, <2>3, CapacityType
    <2> QED
      BY <2>4
  <1> QED
    BY <1>1, HoldingInit, HoldingStep, PTL DEF Spec

-----------------------------------------------------------------------------
(* The types of the health of keys, under what a generation does to it.    *)

LEMMA Settled ==
    ASSUME NEW s \in Settings
    PROVE  /\ s.key429Threshold \in Nat \ {0} /\ s.cooldown \in Nat \ {0}
           /\ s.autoPause \in BOOLEAN /\ s.pauseThreshold \in 1..MaxErrors
  BY HealthAssumption DEF Health!SettingsAssumption

LEMMA HealthConstants ==
    /\ MaxErrors \in Nat /\ Settings # {} /\ 0 \in 0..MaxErrors
    /\ Health!New \in Health!Health
  <1>1. MaxErrors \in Nat /\ Settings # {} /\ 0 \in 0..MaxErrors
    BY HealthAssumption DEF Health!SettingsAssumption
  <1>2. TRUE \in BOOLEAN /\ FALSE \in BOOLEAN /\ 0 \in Nat
    OBVIOUS
  <1> QED
    BY <1>1, <1>2 DEF Health!New, Health!Health, Health!Never

LEMMA ResetTyped ==
    ASSUME NEW h \in Health!Health
    PROVE  Health!reset429Sequence(h) \in Health!Health
  BY DEF Health!reset429Sequence, Health!Health, Health!IsRateLimited, Health!Never

LEMMA NextTyped ==
    ASSUME NEW h \in Health!Health, NEW s \in Settings
    PROVE  Health!NextIn429Sequence(h, s) \in Health!Health
  <1> DEFINE fresh == IF h.until = Health!Never THEN h ELSE Health!reset429Sequence(h)
             n == fresh.consecutive429 + 1
             until == IF n >= s.key429Threshold THEN s.cooldown ELSE fresh.until
  <1>1. fresh \in Health!Health
    BY ResetTyped
  <1>2. Health!NextIn429Sequence(h, s) = [fresh EXCEPT !.consecutive429 = n, !.until = until]
    BY DEF Health!NextIn429Sequence
  <1> HIDE DEF fresh
  <1>3. n \in Nat /\ until \in Nat \cup {Health!Never}
    BY <1>1, Settled DEF Health!Health
  <1> HIDE DEF n, until
  <1> QED
    BY <1>1, <1>2, <1>3 DEF Health!Health

LEMMA MutatedTyped ==
    ASSUME Health!TypeOK, NEW k \in Keys, NEW h \in Health!Health, NEW n \in Nat,
           Health!mutateKey(k, h, n)
    PROVE  Health!TypeOK'
  BY DEF Health!TypeOK, Health!mutateKey

LEMMA RateLimitTyped ==
    ASSUME Health!TypeOK, NEW k \in Keys, NEW s \in Settings, Health!RecordRateLimit(k, s)
    PROVE  Health!TypeOK'
  <1> DEFINE h == [health[k] EXCEPT !.consecutiveErrors = 0]
  <1>1. health[k] \in Health!Health /\ row[k] \in Nat /\ row[k] + 1 \in Nat
    BY DEF Health!TypeOK
  <1>2. h \in Health!Health
    BY <1>1, HealthConstants DEF Health!Health
  <1>3. CASE Health!IsRateLimited(h)
    BY <1>2, <1>3, MutatedTyped DEF Health!RecordRateLimit
  <1>4. CASE ~Health!IsRateLimited(h)
    <2>1. Health!mutateKey(k, Health!NextIn429Sequence(h, s), row[k] + 1)
      BY <1>4 DEF Health!RecordRateLimit
    <2>2. Health!NextIn429Sequence(h, s) \in Health!Health
      BY <1>2, NextTyped
    <2> QED
      BY <1>1, <2>1, <2>2, MutatedTyped
  <1> QED
    BY <1>3, <1>4

LEMMA FailureTyped ==
    ASSUME Health!TypeOK, NEW k \in Keys, NEW s \in Settings, NEW d \in BOOLEAN,
           Health!RecordFailure(k, s, d)
    PROVE  Health!TypeOK'
  <1> DEFINE fresh == Health!reset429Sequence(health[k])
             n == IF fresh.consecutiveErrors < MaxErrors THEN fresh.consecutiveErrors + 1 ELSE MaxErrors
             pauses == d \/ (s.autoPause /\ n >= s.pauseThreshold)
             new == [fresh EXCEPT !.consecutiveErrors = n, !.balanceDepleted = @ \/ d,
                                  !.paused = @ \/ pauses]
  <1>1. fresh \in Health!Health
    BY ResetTyped DEF Health!TypeOK
  <1>2. Health!mutateKey(k, new, 0)
    BY DEF Health!RecordFailure
  <1> HIDE DEF fresh
  <1>3. n \in 0..MaxErrors
    BY <1>1, HealthConstants DEF Health!Health
  <1>4. pauses \in BOOLEAN
    OBVIOUS
  <1> HIDE DEF n, pauses
  <1>5. new \in Health!Health
    BY <1>1, <1>3, <1>4 DEF Health!Health
  <1> HIDE DEF new
  <1> QED
    BY <1>2, <1>5, MutatedTyped

LEMMA OutcomeTyped ==
    ASSUME Health!TypeOK, NEW k \in Keys, Health!RecordSuccess(k) \/ Health!RecordNon429(k)
    PROVE  Health!TypeOK'
  <1> DEFINE fresh == Health!reset429Sequence(health[k])
  <1>1. fresh \in Health!Health
    BY ResetTyped DEF Health!TypeOK
  <1>2. [fresh EXCEPT !.consecutiveErrors = 0] \in Health!Health
    <2> HIDE DEF fresh
    <2> QED
      BY <1>1, HealthConstants DEF Health!Health
  <1> QED
    BY <1>1, <1>2, MutatedTyped DEF Health!RecordSuccess, Health!RecordNon429

LEMMA TickTyped ==
    ASSUME Health!TypeOK, Health!Tick
    PROVE  Health!TypeOK'
  <1>1. \A k \in Keys : health[k] \in Health!Health /\ row[k] \in Nat
    BY DEF Health!TypeOK
  <1>2. /\ health' = [k \in Keys |-> IF Health!IsRateLimited(health[k])
                                     THEN [health[k] EXCEPT !.until = @ - 1] ELSE health[k]]
        /\ row' = [k \in Keys |-> IF health[k].until = 1 THEN 0 ELSE row[k]]
        /\ UNCHANGED <<settings, keys>>
    BY DEF Health!Tick, Health!Change
  <1>3. ASSUME NEW k \in Keys, Health!IsRateLimited(health[k])
        PROVE  [health[k] EXCEPT !.until = @ - 1] \in Health!Health
    <2>1. health[k].until - 1 \in Nat \cup {Health!Never}
      BY <1>1, <1>3 DEF Health!Health, Health!IsRateLimited, Health!Never
    <2> QED
      BY <1>1, <2>1 DEF Health!Health
  <1> QED
    BY <1>1, <1>2, <1>3 DEF Health!TypeOK

LEMMA EnvironmentTyped ==
    ASSUME Health!TypeOK, Environment
    PROVE  Health!TypeOK'
  <1>1. \A k \in Keys : health[k] \in Health!Health /\ row[k] \in Nat
    BY DEF Health!TypeOK
  <1>2. ASSUME NEW k \in Keys, Health!Restore({k})
        PROVE  Health!TypeOK'
    <2>1. /\ health' = [j \in Keys |-> IF j \in {k} THEN [Health!New EXCEPT !.enabled = health[j].enabled]
                                       ELSE health[j]]
          /\ row' = [j \in Keys |-> IF j \in {k} THEN 0 ELSE row[j]]
          /\ UNCHANGED <<settings, keys>>
      BY <1>2 DEF Health!Restore, Health!Change
    <2>2. [Health!New EXCEPT !.enabled = health[k].enabled] \in Health!Health
      <3>1. health[k].enabled \in BOOLEAN
        BY <1>1 DEF Health!Health
      <3> QED
        BY <3>1, HealthConstants DEF Health!Health
    <2> QED
      BY <1>1, <2>1, <2>2 DEF Health!TypeOK
  <1>3. ASSUME NEW k \in Keys, Health!DeleteKeys({k})
        PROVE  Health!TypeOK'
    BY <1>1, <1>3, HealthConstants DEF Health!DeleteKeys, Health!TypeOK
  <1>4. ASSUME NEW k \in Keys, Health!CreateKey(k)
        PROVE  Health!TypeOK'
    BY <1>4 DEF Health!CreateKey, Health!TypeOK
  <1>5. ASSUME NEW s \in Settings, Health!SaveGlobalConfig(s)
        PROVE  Health!TypeOK'
    BY <1>5 DEF Health!SaveGlobalConfig, Health!TypeOK
  <1> QED
    BY <1>2, <1>3, <1>4, <1>5, TickTyped DEF Environment

-----------------------------------------------------------------------------
(* The types of the requests.  An attempt is counted no further because a  *)
(* request that waits for a retry has one left.                            *)
RequestInv ==
    /\ TypeOK
    /\ \A r \in Requests : stage[r] = "delay" => attempt[r] < upstreamMaxAttempts

(* One request goes on with its answer; its attempts are counted there, or *)
(* not at all.                                                             *)
LEMMA RequestMoves ==
    ASSUME RequestInv, Health!TypeOK', NEW r \in Requests, NEW next \in Stages,
           NEW a \in 0..upstreamMaxAttempts, next = "delay" => a < upstreamMaxAttempts,
           NEW ans \in Answers, NEW c \in Settings,
           stage' = [stage EXCEPT ![r] = next],
           attempt' = [attempt EXCEPT ![r] = a],
           answer' = [answer EXCEPT ![r] = ans],
           cfg' = [cfg EXCEPT ![r] = c],
           gone' \subseteq gone,
           UNCHANGED <<inflight, kind, key>>
    PROVE  RequestInv'
  <1>1. /\ stage' \in [Requests -> Stages]
        /\ attempt' \in [Requests -> 0..upstreamMaxAttempts]
        /\ answer' \in [Requests -> Answers]
        /\ cfg' \in [Requests -> Settings]
        /\ gone' \subseteq Requests
    BY DEF RequestInv, TypeOK
  <1>2. \A x \in Requests : stage'[x] = "delay" => attempt'[x] < upstreamMaxAttempts
    BY DEF RequestInv, TypeOK
  <1> QED
    BY <1>1, <1>2 DEF RequestInv, TypeOK

LEMMA Same ==
    ASSUME RequestInv, NEW r \in Requests
    PROVE  /\ stage[r] \in Stages /\ attempt[r] \in 0..upstreamMaxAttempts
           /\ answer[r] \in Answers /\ cfg[r] \in Settings /\ key[r] \in Keys
           /\ stage = [stage EXCEPT ![r] = stage[r]] /\ attempt = [attempt EXCEPT ![r] = attempt[r]]
           /\ answer = [answer EXCEPT ![r] = answer[r]] /\ cfg = [cfg EXCEPT ![r] = cfg[r]]
           /\ answer[r].status \in Statuses \cup {"none"}
           /\ NoAnswer \in Answers /\ SomeSettings \in Settings
  <1>1. SomeSettings \in Settings
    BY HealthConstants DEF SomeSettings
  <1> QED
    BY <1>1 DEF RequestInv, TypeOK, Answers, NoAnswer

LEMMA ForwardTyped ==
    ASSUME RequestInv, NEW r \in Requests, forward(r)
    PROVE  RequestInv'
  <1>1. UNCHANGED <<healthVars, inflight, kind, key, cfg, gone>>
    BY DEF forward, Unsendable, Retry, LastError, RetryDelay, Respond, ReadBody, Canceled, WriteFails,
           Finish, GoTo
  <1>2. Health!TypeOK'
    BY <1>1 DEF RequestInv, TypeOK, Health!TypeOK, healthVars
  <1>3. ASSUME NEW next \in Stages, NEW a \in 0..upstreamMaxAttempts, NEW ans \in Answers,
               next = "delay" => a < upstreamMaxAttempts,
               stage' = [stage EXCEPT ![r] = next],
               attempt' = [attempt EXCEPT ![r] = a],
               answer' = [answer EXCEPT ![r] = ans]
        PROVE  RequestInv'
    BY <1>1, <1>2, <1>3, RequestMoves, Same
  <1>4. 0 \in 0..upstreamMaxAttempts /\ upstreamMaxAttempts \in Nat
    BY GenerationAssumption
  <1>5. {"send", "delay", "body", "done"} \subseteq Stages
    BY DEF Stages, Unpublished
  <1>6. ASSUME NEW status \in Statuses \cup {"none"}, NEW err \in {"none", "canceled", "upstream", "client"},
               Finish(r, status, err)
        PROVE  RequestInv'
    <2>1. [status |-> status, err |-> err] \in Answers
      BY DEF Answers
    <2> QED
      BY <1>3, <1>4, <1>5, <1>6, <2>1 DEF Finish, GoTo
  <1>7. CASE Retry(r)
    BY <1>3, <1>5, <1>7, Same DEF Retry, GoTo, shouldRetryRequest
  <1>8. CASE RetryDelay(r)
    <2>1. attempt[r] + 1 \in 0..upstreamMaxAttempts
      BY <1>4, <1>8, Same DEF RetryDelay, RequestInv
    <2>2. /\ stage' = [stage EXCEPT ![r] = "send"]
          /\ attempt' = [attempt EXCEPT ![r] = attempt[r] + 1]
          /\ answer' = [answer EXCEPT ![r] = answer[r]]
      BY <1>8, Same DEF RetryDelay, GoTo
    <2>3. "send" \in Stages /\ answer[r] \in Answers
      BY <1>5, Same
    <2> HIDE DEF RequestInv
    <2> QED
      BY <1>3, <2>1, <2>2, <2>3
  <1>9. ASSUME NEW status \in Statuses, Respond(r, status)
        PROVE  RequestInv'
    <2>1. [status |-> status, err |-> "none"] \in Answers
      BY DEF Answers
    <2> QED
      BY <1>3, <1>4, <1>5, <1>9, <2>1 DEF Respond, GoTo
  <1>10. CASE Unsendable(r) \/ LastError(r)
    BY <1>6, <1>10 DEF Unsendable, LastError
  <1>11. CASE (\E err \in {"none", "upstream"} : ReadBody(r, err)) \/ Canceled(r) \/ WriteFails(r)
    BY <1>6, <1>11, Same DEF ReadBody, Canceled, WriteFails
  <1> QED
    BY <1>7, <1>8, <1>9, <1>10, <1>11 DEF forward

(* What an outcome does to the health of its key.                          *)
LEMMA PublishedTyped ==
    ASSUME RequestInv, NEW r \in Requests, recordUpstreamResult(r)
    PROVE  Health!TypeOK'
  <1>1. Health!TypeOK /\ key[r] \in Keys /\ cfg[r] \in Settings
    BY Same DEF RequestInv, TypeOK
  <1>2. CASE PublishLimit(r)
    BY <1>1, <1>2, RateLimitTyped DEF PublishLimit
  <1>3. CASE PublishNothing(r)
    BY <1>1, <1>3 DEF PublishNothing, healthVars, Health!TypeOK
  <1>4. CASE PublishNon429(r) \/ PublishSuccess(r)
    BY <1>1, <1>4, OutcomeTyped DEF PublishNon429, PublishSuccess
  <1>5. CASE PublishFailure(r)
    <2> DEFINE d == answer[r] = [status |-> "depleted", err |-> "none"]
    <2>1. Health!RecordFailure(key[r], cfg[r], d) /\ d \in BOOLEAN
      BY <1>5 DEF PublishFailure
    <2> HIDE DEF d
    <2> QED
      BY <1>1, <2>1, FailureTyped
  <1> QED
    BY <1>2, <1>3, <1>4, <1>5 DEF recordUpstreamResult

LEMMA PublishTyped ==
    ASSUME RequestInv, NEW r \in Requests, recordUpstreamResult(r)
    PROVE  RequestInv'
  <1>1. Publishes(r)
    BY DEF recordUpstreamResult, PublishLimit, PublishNothing, PublishNon429, PublishFailure, PublishSuccess
  <1>2. /\ stage' = [stage EXCEPT ![r] = "published"]
        /\ attempt' = [attempt EXCEPT ![r] = attempt[r]]
        /\ answer' = [answer EXCEPT ![r] = NoAnswer]
        /\ cfg' = [cfg EXCEPT ![r] = SomeSettings]
        /\ gone' \subseteq gone
        /\ UNCHANGED <<inflight, kind, key>>
    BY <1>1, Same DEF Publishes
  <1>3. "published" \in Stages
    BY DEF Stages
  <1> QED
    BY <1>2, <1>3, Same, PublishedTyped, RequestMoves

LEMMA ReadTyped ==
    ASSUME RequestInv, NEW r \in Requests, ReadSettings(r)
    PROVE  RequestInv'
  <1>1. /\ stage' = [stage EXCEPT ![r] = "judged"]
        /\ attempt' = [attempt EXCEPT ![r] = attempt[r]]
        /\ answer' = [answer EXCEPT ![r] = answer[r]]
        /\ cfg' = [cfg EXCEPT ![r] = settings]
        /\ gone' \subseteq gone
        /\ UNCHANGED <<inflight, kind, key>>
    BY Same DEF ReadSettings
  <1>2. settings \in Settings /\ Health!TypeOK'
    BY DEF ReadSettings, RequestInv, TypeOK, Health!TypeOK, healthVars
  <1>3. "judged" \in Stages
    BY DEF Stages, Unpublished
  <1> QED
    BY <1>1, <1>2, <1>3, Same, RequestMoves

LEMMA BeginTyped ==
    ASSUME RequestInv, NEW r \in Requests, NEW what \in Kinds, NEW k \in Keys, Begin(r, what, k)
    PROVE  RequestInv'
  <1>1. /\ stage' = [stage EXCEPT ![r] = "send"]
        /\ kind' = [kind EXCEPT ![r] = what]
        /\ key' = [key EXCEPT ![r] = k]
        /\ attempt' = [attempt EXCEPT ![r] = 1]
        /\ UNCHANGED <<healthVars, answer, cfg, gone>>
    BY DEF Begin
  <1>2. "send" \in Stages /\ 1 \in 0..upstreamMaxAttempts
    BY GenerationAssumption DEF Stages, Unpublished
  <1>3. inflight' \in [Keys -> Nat]
    BY DEF Begin, RequestInv, TypeOK
  <1>4. \A x \in Requests : stage'[x] = "delay" => stage[x] = "delay" /\ attempt'[x] = attempt[x]
    BY <1>1 DEF RequestInv, TypeOK
  <1>5. Health!TypeOK'
    BY <1>1 DEF RequestInv, TypeOK, Health!TypeOK, healthVars
  <1>6. /\ stage' \in [Requests -> Stages] /\ attempt' \in [Requests -> 0..upstreamMaxAttempts]
        /\ kind' \in [Requests -> Kinds \cup {"fetch"}] /\ key' \in [Requests -> Keys]
    BY <1>1, <1>2 DEF RequestInv, TypeOK
  <1> QED
    BY <1>1, <1>3, <1>4, <1>5, <1>6 DEF RequestInv, TypeOK

LEMMA ReleaseTyped ==
    ASSUME RequestInv, NEW r \in Requests, Release(r)
    PROVE  RequestInv'
  <1>1. /\ stage' = [stage EXCEPT ![r] = "idle"]
        /\ kind' = [kind EXCEPT ![r] = "fetch"]
        /\ UNCHANGED <<healthVars, key, attempt, answer, cfg, gone>>
    BY DEF Release
  <1>2. inflight' \in [Keys -> Nat]
    BY Same DEF Release, RequestInv, TypeOK
  <1>3. \A x \in Requests : stage'[x] = "delay" => stage[x] = "delay"
    BY <1>1 DEF RequestInv, TypeOK
  <1>4. Health!TypeOK'
    BY <1>1 DEF RequestInv, TypeOK, Health!TypeOK, healthVars
  <1>5. stage' \in [Requests -> Stages] /\ kind' \in [Requests -> Kinds \cup {"fetch"}]
    BY <1>1 DEF RequestInv, TypeOK, Stages
  <1> QED
    BY <1>1, <1>2, <1>3, <1>4, <1>5 DEF RequestInv, TypeOK

LEMMA RequestInit == Init => RequestInv
  <1> SUFFICES ASSUME Init PROVE RequestInv
    OBVIOUS
  <1>1. Health!TypeOK
    BY HealthConstants DEF Init, Health!Init, Health!TypeOK
  <1>2. (CHOOSE k \in Keys : TRUE) \in Keys
    BY GenerationAssumption
  <1>3. SomeSettings \in Settings
    BY HealthConstants DEF SomeSettings
  <1>4. 0 \in 0..upstreamMaxAttempts
    BY GenerationAssumption
  <1>5. NoAnswer \in Answers
    BY DEF NoAnswer, Answers
  <1> QED
    BY <1>1, <1>2, <1>3, <1>4, <1>5 DEF Init, RequestInv, TypeOK, Stages

LEMMA RequestStep == RequestInv /\ [Next]_vars => RequestInv'
  <1> SUFFICES ASSUME RequestInv, [Next]_vars PROVE RequestInv'
    OBVIOUS
  <1>1. CASE UNCHANGED vars
    BY <1>1 DEF vars, healthVars, requestVars, RequestInv, TypeOK, Health!TypeOK
  <1>2. CASE Environment
    <2>1. Health!TypeOK'
      BY <1>2, EnvironmentTyped DEF RequestInv, TypeOK
    <2> QED
      BY <1>2, <2>1 DEF Environment, requestVars, RequestInv, TypeOK
  <1>3. ASSUME NEW r \in Requests, ClientLeaves(r)
        PROVE  RequestInv'
    BY <1>3 DEF ClientLeaves, healthVars, RequestInv, TypeOK, Health!TypeOK
  <1> QED
    BY <1>1, <1>2, <1>3, BeginTyped, ForwardTyped, ReadTyped, PublishTyped, ReleaseTyped DEF Next

LEMMA RequestsTyped == Spec => []RequestInv
  BY RequestInit, RequestStep, PTL DEF Spec

(* The types are invariant for any number of requests, keys and attempts:  *)
(* in particular no request is sent more often than upstreamMaxAttempts    *)
(* (gateway.go:30), whatever fails and whoever leaves.                     *)
THEOREM TypeCorrect == Spec => []TypeOK
  <1>1. RequestInv => TypeOK
    BY DEF RequestInv
  <1> QED
    BY <1>1, RequestsTyped, PTL

(* What requests do to the health of keys is a behaviour of KeyHealth, so  *)
(* the results about cooldowns and pauses there hold of it: a request re-  *)
(* ports one outcome, judged by a configuration that was saved.            *)
THEOREM HealthIsKept == Spec => Health!Spec
  <1>1. Init => Health!Init
    BY DEF Init
  <1>2. RequestInv /\ [Next]_vars => [Health!Next]_(Health!vars)
    <2> SUFFICES ASSUME RequestInv, [Next]_vars, ~UNCHANGED healthVars
                 PROVE  Health!Next
      BY DEF healthVars, Health!vars
    <2>1. CASE Environment
      <3>1. \A k \in Keys : {k} \in (SUBSET Keys) \ {{}}
        OBVIOUS
      <3> QED
        BY <2>1, <3>1 DEF Environment, Health!Next, Health!Administration
    <2>2. ASSUME NEW r \in Requests, recordUpstreamResult(r)
          PROVE  Health!Next
      <3>1. key[r] \in Keys /\ cfg[r] \in Settings
        BY Same
      <3>2. CASE PublishFailure(r)
        <4> DEFINE d == answer[r] = [status |-> "depleted", err |-> "none"]
        <4>1. Health!RecordFailure(key[r], cfg[r], d) /\ d \in BOOLEAN
          BY <3>2 DEF PublishFailure
        <4> HIDE DEF d
        <4> QED
          BY <3>1, <4>1 DEF Health!Next, Health!Outcome
      <3>3. CASE PublishLimit(r) \/ PublishNon429(r) \/ PublishSuccess(r)
        BY <3>1, <3>3 DEF PublishLimit, PublishNon429, PublishSuccess, Health!Next, Health!Outcome
      <3>4. ~PublishNothing(r)
        BY DEF PublishNothing
      <3> QED
        BY <2>2, <3>2, <3>3, <3>4 DEF recordUpstreamResult
    <2>3. \A r \in Requests :
             /\ \A what \in Kinds, k \in Keys : ~Begin(r, what, k)
             /\ ~ClientLeaves(r) /\ ~ReadSettings(r) /\ ~Release(r)
      BY DEF Begin, ClientLeaves, ReadSettings, Release
    <2>4. \A r \in Requests : ~forward(r)
      BY DEF forward, Unsendable, Retry, LastError, RetryDelay, Respond, ReadBody, Canceled, WriteFails,
             Finish, GoTo
    <2>5. ~UNCHANGED vars
      BY DEF vars
    <2> QED
      BY <2>1, <2>2, <2>3, <2>4, <2>5 DEF Next
  <1> QED
    BY <1>1, <1>2, RequestsTyped, PTL DEF Spec, Health!Spec
=============================================================================
