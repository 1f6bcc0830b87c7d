-------------------------- MODULE KeyHealthProofs --------------------------
(***************************************************************************)
(* Proofs about KeyHealth for any keys and any configurations that can be  *)
(* saved.  The exactness of the cooldown rests on what Consecutive429      *)
(* counts: the outcomes 429 in a row while no cooldown has been entered.   *)
(* After an expired one the count of the key is stale, and only the        *)
(* deadline that has passed says so.                                       *)
(***************************************************************************)
EXTENDS KeyHealth, TLAPS

CountsRow(h, n) ==
    /\ h.until = Never => n = h.consecutive429
    /\ h.until = 0 => n = 0

Counted == \A k \in Keys : CountsRow(health[k], row[k])

IInv == TypeOK /\ Counted

(* What an outcome leaves of a key's health.                               *)
Kept(h, new) ==
    /\ new.enabled = h.enabled /\ new.manualPaused = h.manualPaused
    /\ h.paused => new.paused
    /\ h.balanceDepleted => new.balanceDepleted
    /\ new.paused /\ ~h.paused => new.consecutiveErrors > 0

(* What it may make of it.                                                 *)
Follows(h, new, n) ==
    /\ new \in Health /\ n \in Nat
    /\ CountsRow(new, n)
    /\ Kept(h, new)
    /\ h.until > 0 => new.until = h.until

LEMMA NewHealth == New \in Health /\ New.until = Never /\ New.consecutive429 = 0
  <1>1. Never \in Nat \cup {Never} /\ 0 \in Nat /\ 0 \in 0..MaxErrors
    BY SettingsAssumption
  <1>2. TRUE \in BOOLEAN /\ FALSE \in BOOLEAN
    OBVIOUS
  <1> QED
    BY <1>1, <1>2 DEF New, Health

LEMMA Reset ==
    ASSUME NEW h \in Health
    PROVE  /\ reset429Sequence(h) \in Health
           /\ reset429Sequence(h).consecutive429 = 0
           /\ reset429Sequence(h).until = IF h.until > 0 THEN h.until ELSE Never
           /\ reset429Sequence(h).consecutiveErrors = h.consecutiveErrors
           /\ reset429Sequence(h).enabled = h.enabled
           /\ reset429Sequence(h).manualPaused = h.manualPaused
           /\ reset429Sequence(h).paused = h.paused
           /\ reset429Sequence(h).balanceDepleted = h.balanceDepleted
  BY DEF reset429Sequence, Health, IsRateLimited

LEMMA Settled ==
    ASSUME NEW s \in Settings
    PROVE  /\ s.key429Threshold \in Nat \ {0} /\ s.cooldown \in Nat \ {0}
           /\ s.autoPause \in BOOLEAN /\ s.pauseThreshold \in 1..MaxErrors
  BY SettingsAssumption

LEMMA NextIn ==
    ASSUME NEW h \in Health, NEW s \in Settings, ~IsRateLimited(h)
    PROVE  LET new == NextIn429Sequence(h, s)
               n == IF h.until = Never THEN h.consecutive429 + 1 ELSE 1
           IN  /\ new \in Health
               /\ new.consecutive429 = n
               /\ new.until = IF n >= s.key429Threshold THEN s.cooldown ELSE Never
               /\ new.consecutiveErrors = h.consecutiveErrors
               /\ new.enabled = h.enabled
               /\ new.manualPaused = h.manualPaused
               /\ new.paused = h.paused
               /\ new.balanceDepleted = h.balanceDepleted
  <1> DEFINE fresh == IF h.until = Never THEN h ELSE reset429Sequence(h)
             n == fresh.consecutive429 + 1
  <1>1. /\ fresh \in Health
        /\ fresh.consecutiveErrors = h.consecutiveErrors
        /\ fresh.enabled = h.enabled
        /\ fresh.manualPaused = h.manualPaused
        /\ fresh.paused = h.paused
        /\ fresh.balanceDepleted = h.balanceDepleted
    BY Reset
  <1>2. /\ fresh.until = Never
        /\ n = IF h.until = Never THEN h.consecutive429 + 1 ELSE 1
    BY Reset DEF IsRateLimited
  <1>3. n \in Nat
    BY <1>1 DEF Health
  <1>4. (IF n >= s.key429Threshold THEN s.cooldown ELSE fresh.until) \in Nat \cup {Never}
    BY <1>2, Settled
  <1>5. NextIn429Sequence(h, s) =
          [fresh EXCEPT !.consecutive429 = n,
                        !.until = IF n >= s.key429Threshold THEN s.cooldown ELSE fresh.until]
    BY DEF NextIn429Sequence
  <1> HIDE DEF fresh
  <1>6. /\ NextIn429Sequence(h, s) \in Health
        /\ NextIn429Sequence(h, s).consecutive429 = n
        /\ NextIn429Sequence(h, s).until = IF n >= s.key429Threshold THEN s.cooldown ELSE fresh.until
        /\ NextIn429Sequence(h, s).consecutiveErrors = fresh.consecutiveErrors
        /\ NextIn429Sequence(h, s).enabled = fresh.enabled
        /\ NextIn429Sequence(h, s).manualPaused = fresh.manualPaused
        /\ NextIn429Sequence(h, s).paused = fresh.paused
        /\ NextIn429Sequence(h, s).balanceDepleted = fresh.balanceDepleted
    BY <1>1, <1>3, <1>4, <1>5 DEF Health
  <1> QED
    BY <1>1, <1>2, <1>6

LEMMA Success ==
    ASSUME NEW h \in Health
    PROVE  Follows(h, [reset429Sequence(h) EXCEPT !.consecutiveErrors = 0], 0)
  <1> DEFINE fresh == reset429Sequence(h)
             new == [fresh EXCEPT !.consecutiveErrors = 0]
  <1>1. fresh \in Health
    BY Reset
  <1>2. 0 \in 0..MaxErrors
    BY SettingsAssumption
  <1> HIDE DEF fresh
  <1>3. /\ new \in Health
        /\ new.until = fresh.until /\ new.consecutive429 = fresh.consecutive429
        /\ new.enabled = fresh.enabled
        /\ new.manualPaused = fresh.manualPaused
        /\ new.paused = fresh.paused
        /\ new.balanceDepleted = fresh.balanceDepleted
    BY <1>1, <1>2 DEF Health
  <1> QED
    BY <1>3, Reset DEF fresh, Follows, Kept, CountsRow, Never

LEMMA Non429 ==
    ASSUME NEW h \in Health
    PROVE  Follows(h, reset429Sequence(h), 0)
  BY Reset DEF Follows, Kept, CountsRow, Never

LEMMA Failure ==
    ASSUME NEW h \in Health, NEW s \in Settings, NEW depleted \in BOOLEAN,
           NEW n, n = IF h.consecutiveErrors < MaxErrors THEN h.consecutiveErrors + 1 ELSE MaxErrors
    PROVE  Follows(h, [reset429Sequence(h) EXCEPT
                          !.consecutiveErrors = n,
                          !.balanceDepleted = @ \/ depleted,
                          !.paused = @ \/ depleted \/ (s.autoPause /\ n >= s.pauseThreshold)], 0)
  <1> DEFINE fresh == reset429Sequence(h)
             new == [fresh EXCEPT
                        !.consecutiveErrors = n,
                        !.balanceDepleted = @ \/ depleted,
                        !.paused = @ \/ depleted \/ (s.autoPause /\ n >= s.pauseThreshold)]
  <1>1. fresh \in Health
    BY Reset
  <1>2. 1 <= MaxErrors
    BY Settled, SettingsAssumption
  <1>3. n \in 0..MaxErrors /\ n > 0
    BY <1>2, SettingsAssumption DEF Health
  <1> DEFINE pauses == depleted \/ (s.autoPause /\ n >= s.pauseThreshold)
  <1>4. pauses \in BOOLEAN
    OBVIOUS
  <1>5. new = [fresh EXCEPT !.consecutiveErrors = n, !.balanceDepleted = @ \/ depleted, !.paused = @ \/ pauses]
    OBVIOUS
  <1> HIDE DEF fresh, new, pauses
  <1>6. /\ new.until = fresh.until /\ new.consecutive429 = fresh.consecutive429
        /\ new.consecutiveErrors = n
        /\ new.enabled = fresh.enabled
        /\ new.manualPaused = fresh.manualPaused
        /\ new.paused = (fresh.paused \/ pauses)
        /\ new.balanceDepleted = (fresh.balanceDepleted \/ depleted)
    BY <1>1, <1>5 DEF Health
  <1>7. new \in Health
    BY <1>1, <1>3, <1>4, <1>5 DEF Health
  <1> QED
    BY <1>3, <1>6, <1>7, Reset DEF fresh, new, Follows, Kept, CountsRow, Never

LEMMA WithoutErrors ==
    ASSUME NEW h \in Health
    PROVE  LET new == [h EXCEPT !.consecutiveErrors = 0]
           IN  /\ new \in Health
               /\ new.until = h.until /\ new.consecutive429 = h.consecutive429
               /\ new.enabled = h.enabled
               /\ new.manualPaused = h.manualPaused
               /\ new.paused = h.paused
               /\ new.balanceDepleted = h.balanceDepleted
  <1>1. 0 \in 0..MaxErrors
    BY SettingsAssumption
  <1> QED
    BY <1>1 DEF Health

LEMMA LimitWhileCooling ==
    ASSUME NEW h \in Health, IsRateLimited(h)
    PROVE  Follows(h, [h EXCEPT !.consecutiveErrors = 0], 0)
  BY WithoutErrors DEF IsRateLimited, Follows, Kept, CountsRow, Never

(* One more answer 429 begins the cooldown exactly if the row is as long   *)
(* as the threshold.                                                       *)
LEMMA LimitCounts ==
    ASSUME NEW h \in Health, NEW n \in Nat, CountsRow(h, n), NEW s \in Settings, ~IsRateLimited(h)
    PROVE  LET new == NextIn429Sequence([h EXCEPT !.consecutiveErrors = 0], s)
           IN  Follows(h, new, n + 1) /\ (new.until > 0 <=> n + 1 >= s.key429Threshold)
  <1> DEFINE old == [h EXCEPT !.consecutiveErrors = 0]
             new == NextIn429Sequence(old, s)
             m == IF old.until = Never THEN old.consecutive429 + 1 ELSE 1
  <1>1. /\ old \in Health
        /\ old.until = h.until /\ old.consecutive429 = h.consecutive429
        /\ old.enabled = h.enabled
        /\ old.manualPaused = h.manualPaused
        /\ old.paused = h.paused
        /\ old.balanceDepleted = h.balanceDepleted
    BY WithoutErrors
  <1>2. ~IsRateLimited(old)
    BY <1>1 DEF IsRateLimited
  <1> HIDE DEF old
  <1>3. /\ new \in Health
        /\ new.consecutive429 = m
        /\ new.until = IF m >= s.key429Threshold THEN s.cooldown ELSE Never
        /\ new.enabled = old.enabled
        /\ new.manualPaused = old.manualPaused
        /\ new.paused = old.paused
        /\ new.balanceDepleted = old.balanceDepleted
    BY <1>1, <1>2, NextIn
  <1>4. h.until \in Nat \cup {Never} /\ h.consecutive429 \in Nat
    BY DEF Health
  <1>5. m = n + 1
    BY <1>1, <1>2, <1>4 DEF CountsRow, IsRateLimited, Never
  <1>6. s.key429Threshold \in Nat \ {0} /\ s.cooldown \in Nat \ {0}
    BY Settled
  <1>7. new.until > 0 <=> n + 1 >= s.key429Threshold
    BY <1>3, <1>5, <1>6 DEF Never
  <1>8. CountsRow(new, n + 1)
    BY <1>3, <1>5, <1>6 DEF CountsRow, Never
  <1>9. ~(h.until > 0)
    BY DEF IsRateLimited
  <1>10. Kept(h, new)
    BY <1>1, <1>3 DEF Kept
  <1> QED
    BY <1>3, <1>7, <1>8, <1>9, <1>10 DEF old, Follows

-----------------------------------------------------------------------------
(* What mutateKey makes of an outcome: nothing for a key that has been     *)
(* deleted.                                                                *)
Recorded(k) ==
    /\ \A j \in Keys \ {k} : health'[j] = health[j] /\ row'[j] = row[j]
    /\ k \notin keys => health'[k] = health[k] /\ row'[k] = row[k]
    /\ k \in keys => Follows(health[k], health'[k], row'[k])

LEMMA Mutated ==
    ASSUME IInv, NEW k \in Keys, NEW h, NEW n, Follows(health[k], h, n), mutateKey(k, h, n)
    PROVE  IInv' /\ Recorded(k)
  <1>1. h \in Health /\ n \in Nat /\ CountsRow(h, n)
    BY DEF Follows
  <1>2. settings' = settings /\ keys' = keys
    BY DEF mutateKey
  <1>3. CASE k \in keys
    <2>1. /\ health' = [health EXCEPT ![k] = h]
          /\ row' = [row EXCEPT ![k] = n]
      BY <1>3 DEF mutateKey
    <2>2. health \in [Keys -> Health] /\ row \in [Keys -> Nat]
      BY DEF IInv, TypeOK
    <2>3. health' \in [Keys -> Health] /\ row' \in [Keys -> Nat]
      BY <1>1, <2>1, <2>2
    <2>4. \A j \in Keys : /\ health'[j] = IF j = k THEN h ELSE health[j]
                          /\ row'[j] = IF j = k THEN n ELSE row[j]
      BY <2>1, <2>2
    <2>5. Counted'
      BY <1>1, <2>4 DEF IInv, Counted, CountsRow
    <2>6. TypeOK'
      BY <1>2, <2>3 DEF IInv, TypeOK
    <2> QED
      BY <1>3, <2>4, <2>5, <2>6 DEF IInv, Recorded
  <1>4. CASE k \notin keys
    <2>1. UNCHANGED <<health, row>>
      BY <1>4 DEF mutateKey
    <2> QED
      BY <1>2, <1>4, <2>1 DEF IInv, TypeOK, Counted, CountsRow, Recorded
  <1> QED
    BY <1>3, <1>4

LEMMA RateLimitRecorded ==
    ASSUME IInv, NEW k \in Keys, NEW s \in Settings, RecordRateLimit(k, s)
    PROVE  /\ IInv' /\ Recorded(k)
           /\ k \in keys /\ ~Cooling(k) => (health'[k].until > 0 <=> row'[k] >= s.key429Threshold)
  <1> DEFINE h == [health[k] EXCEPT !.consecutiveErrors = 0]
  <1>1. health[k] \in Health /\ row[k] \in Nat /\ CountsRow(health[k], row[k])
    BY DEF IInv, TypeOK, Counted
  <1>2. h.until = health[k].until
    BY <1>1, WithoutErrors
  <1>3. CASE IsRateLimited(health[k])
    <2>1. mutateKey(k, h, 0)
      BY <1>2, <1>3 DEF RecordRateLimit, IsRateLimited
    <2>2. Follows(health[k], h, 0)
      BY <1>1, <1>3, LimitWhileCooling
    <2> QED
      BY <1>3, <2>1, <2>2, Mutated DEF Cooling
  <1>4. CASE ~IsRateLimited(health[k])
    <2> DEFINE new == NextIn429Sequence(h, s)
    <2>1. mutateKey(k, new, row[k] + 1)
      BY <1>2, <1>4 DEF RecordRateLimit, IsRateLimited
    <2>2. Follows(health[k], new, row[k] + 1) /\ (new.until > 0 <=> row[k] + 1 >= s.key429Threshold)
      BY <1>1, <1>4, LimitCounts
    <2> HIDE DEF new
    <2>3. IInv' /\ Recorded(k)
      BY <2>1, <2>2, Mutated
    <2>4. k \in keys => health'[k] = new /\ row'[k] = row[k] + 1
      BY <2>1 DEF mutateKey, IInv, TypeOK
    <2> QED
      BY <2>2, <2>3, <2>4
  <1> QED
    BY <1>3, <1>4

LEMMA OutcomeRecorded ==
    ASSUME IInv, NEW k \in Keys,
           \/ RecordSuccess(k)
           \/ RecordNon429(k)
           \/ \E s \in Settings : \/ RecordRateLimit(k, s)
                                  \/ \E d \in BOOLEAN : RecordFailure(k, s, d)
    PROVE  IInv' /\ Recorded(k)
  <1>1. health[k] \in Health
    BY DEF IInv, TypeOK
  <1>2. CASE RecordSuccess(k)
    BY <1>1, <1>2, Success, Mutated DEF RecordSuccess
  <1>3. CASE RecordNon429(k)
    BY <1>1, <1>3, Non429, Mutated DEF RecordNon429
  <1>4. ASSUME NEW s \in Settings, NEW d \in BOOLEAN, RecordFailure(k, s, d)
        PROVE  IInv' /\ Recorded(k)
    <2>1. reset429Sequence(health[k]).consecutiveErrors = health[k].consecutiveErrors
      BY <1>1, Reset
    <2> DEFINE n == IF health[k].consecutiveErrors < MaxErrors
                    THEN health[k].consecutiveErrors + 1 ELSE MaxErrors
               new == [reset429Sequence(health[k]) EXCEPT
                          !.consecutiveErrors = n,
                          !.balanceDepleted = @ \/ d,
                          !.paused = @ \/ d \/ (s.autoPause /\ n >= s.pauseThreshold)]
    <2>2. mutateKey(k, new, 0)
      BY <1>4, <2>1 DEF RecordFailure
    <2>3. Follows(health[k], new, 0)
      BY <1>1, Failure
    <2> QED
      BY <2>2, <2>3, Mutated
  <1> QED
    BY <1>2, <1>3, <1>4, RateLimitRecorded

-----------------------------------------------------------------------------
LEMMA InitInv == Init => IInv
  <1> SUFFICES ASSUME Init PROVE IInv
    OBVIOUS
  <1>1. \A k \in Keys : health[k] = New /\ row[k] = 0
    BY DEF Init
  <1>2. Counted
    BY <1>1, NewHealth DEF Counted, CountsRow
  <1>3. TypeOK
    BY NewHealth DEF Init, TypeOK
  <1> QED
    BY <1>2, <1>3 DEF IInv

(* Edits and pauses leave what the cooldown depends on.                    *)
LEMMA EditKeeps ==
    ASSUME IInv, NEW k \in Keys, NEW e \in BOOLEAN, NEW p \in BOOLEAN, NEW d \in BOOLEAN,
           UpdateKey(k, e, p, d)
    PROVE  IInv' /\ \A j \in Keys : health'[j].until = health[j].until
  <1>1. /\ health' = [j \in Keys |-> IF j \in {k} THEN [health[j] EXCEPT !.enabled = e, !.paused = p,
                                                                      !.balanceDepleted = d]
                                     ELSE health[j]]
        /\ UNCHANGED <<settings, keys, row>>
    BY DEF UpdateKey, Change
  <1>2. \A j \in Keys : health[j] \in Health
    BY DEF IInv, TypeOK
  <1>3. \A j \in Keys : /\ health'[j] \in Health
                        /\ health'[j].until = health[j].until
                        /\ health'[j].consecutive429 = health[j].consecutive429
    BY <1>1, <1>2 DEF Health
  <1>4. TypeOK'
    BY <1>1, <1>3 DEF IInv, TypeOK
  <1>5. Counted'
    BY <1>1, <1>3 DEF IInv, Counted, CountsRow
  <1> QED
    BY <1>3, <1>4, <1>5 DEF IInv

LEMMA PauseKeeps ==
    ASSUME IInv, NEW S \in SUBSET Keys, PauseKeys(S)
    PROVE  IInv' /\ \A j \in Keys : health'[j].until = health[j].until
  <1>1. /\ health' = [j \in Keys |-> IF j \in S THEN [health[j] EXCEPT !.manualPaused = TRUE]
                                     ELSE health[j]]
        /\ UNCHANGED <<settings, keys, row>>
    BY DEF PauseKeys, Change
  <1>2. \A j \in Keys : health[j] \in Health
    BY DEF IInv, TypeOK
  <1>3. \A j \in Keys : /\ health'[j] \in Health
                        /\ health'[j].until = health[j].until
                        /\ health'[j].consecutive429 = health[j].consecutive429
    BY <1>1, <1>2 DEF Health
  <1>4. TypeOK'
    BY <1>1, <1>3 DEF IInv, TypeOK
  <1>5. Counted'
    BY <1>1, <1>3 DEF IInv, Counted, CountsRow
  <1> QED
    BY <1>3, <1>4, <1>5 DEF IInv

LEMMA RestoreInv ==
    ASSUME IInv, NEW S \in SUBSET Keys, Restore(S)
    PROVE  IInv'
  <1>1. /\ health' = [j \in Keys |-> IF j \in S THEN [New EXCEPT !.enabled = health[j].enabled]
                                     ELSE health[j]]
        /\ row' = [j \in Keys |-> IF j \in S THEN 0 ELSE row[j]]
        /\ UNCHANGED <<settings, keys>>
    BY DEF Restore, Change
  <1>2. \A j \in Keys : health[j] \in Health /\ row[j] \in Nat
    BY DEF IInv, TypeOK
  <1>3. \A j \in S : /\ health'[j] \in Health
                     /\ health'[j].until = Never
                     /\ health'[j].consecutive429 = 0
    <2> SUFFICES ASSUME NEW j \in S
                 PROVE  LET h == [New EXCEPT !.enabled = health[j].enabled]
                        IN  h \in Health /\ h.until = Never /\ h.consecutive429 = 0
      BY <1>1
    <2>1. health[j].enabled \in BOOLEAN
      BY <1>2 DEF Health
    <2> QED
      BY <2>1, NewHealth DEF Health
  <1>4. TypeOK'
    BY <1>1, <1>2, <1>3 DEF IInv, TypeOK
  <1>5. Counted'
    BY <1>1, <1>3 DEF IInv, Counted, CountsRow, Never
  <1> QED
    BY <1>4, <1>5 DEF IInv

LEMMA DeleteInv ==
    ASSUME IInv, NEW S \in SUBSET Keys, DeleteKeys(S)
    PROVE  IInv'
  <1>1. /\ health' = [j \in Keys |-> IF j \in S THEN New ELSE health[j]]
        /\ row' = [j \in Keys |-> IF j \in S THEN 0 ELSE row[j]]
        /\ keys' = keys \ S /\ settings' = settings
    BY DEF DeleteKeys
  <1>2. \A j \in Keys : health[j] \in Health /\ row[j] \in Nat
    BY DEF IInv, TypeOK
  <1>3. TypeOK'
    BY <1>1, <1>2, NewHealth DEF IInv, TypeOK
  <1>4. Counted'
    BY <1>1, NewHealth DEF IInv, Counted, CountsRow, Never
  <1> QED
    BY <1>3, <1>4 DEF IInv

LEMMA TickInv ==
    ASSUME IInv, Tick
    PROVE  IInv'
  <1>1. /\ health' = [j \in Keys |-> IF j \in Keys
                                     THEN IF IsRateLimited(health[j])
                                          THEN [health[j] EXCEPT !.until = @ - 1] ELSE health[j]
                                     ELSE health[j]]
        /\ row' = [j \in Keys |-> IF health[j].until = 1 THEN 0 ELSE row[j]]
        /\ UNCHANGED <<settings, keys>>
    BY DEF Tick, Change
  <1>2. \A j \in Keys : health[j] \in Health /\ row[j] \in Nat
    BY DEF IInv, TypeOK
  <1>3. \A j \in Keys : /\ health'[j] \in Health
                        /\ health'[j].until = IF health[j].until > 0 THEN health[j].until - 1
                                              ELSE health[j].until
                        /\ health'[j].consecutive429 = health[j].consecutive429
    <2> SUFFICES ASSUME NEW j \in Keys
                 PROVE  /\ health'[j] \in Health
                        /\ health'[j].until = IF health[j].until > 0 THEN health[j].until - 1
                                              ELSE health[j].until
                        /\ health'[j].consecutive429 = health[j].consecutive429
      OBVIOUS
    <2>1. CASE IsRateLimited(health[j])
      <3>1. health[j].until - 1 \in Nat \cup {Never}
        BY <1>2, <2>1 DEF Health, IsRateLimited, Never
      <3>2. health'[j] = [health[j] EXCEPT !.until = health[j].until - 1]
        BY <1>1, <2>1
      <3> QED
        BY <1>2, <2>1, <3>1, <3>2 DEF Health, IsRateLimited
    <2>2. CASE ~IsRateLimited(health[j])
      BY <1>1, <1>2, <2>2 DEF IsRateLimited
    <2> QED
      BY <2>1, <2>2
  <1>4. TypeOK'
    BY <1>1, <1>2, <1>3 DEF IInv, TypeOK
  <1>5. Counted'
    <2> SUFFICES ASSUME NEW j \in Keys PROVE CountsRow(health'[j], row'[j])
      BY DEF Counted
    <2>1. health[j].until \in Nat \cup {Never} /\ CountsRow(health[j], row[j])
      BY <1>2 DEF Health, IInv, Counted
    <2>2. row'[j] = IF health[j].until = 1 THEN 0 ELSE row[j]
      BY <1>1
    <2> QED
      BY <1>3, <2>1, <2>2 DEF CountsRow, Never
  <1> QED
    BY <1>4, <1>5 DEF IInv

LEMMA SaveAndCreateInv ==
    ASSUME IInv, (\E s \in Settings : SaveGlobalConfig(s)) \/ (\E k \in Keys : CreateKey(k))
    PROVE  IInv' /\ UNCHANGED health
  <1>1. UNCHANGED <<health, row>>
    BY DEF SaveGlobalConfig, CreateKey
  <1>2. settings' \in Settings /\ keys' \subseteq Keys
    BY DEF SaveGlobalConfig, CreateKey, IInv, TypeOK
  <1> QED
    BY <1>1, <1>2 DEF IInv, TypeOK, Counted, CountsRow

LEMMA InvStep == IInv /\ [Next]_vars => IInv'
  <1> SUFFICES ASSUME IInv, [Next]_vars PROVE IInv'
    OBVIOUS
  <1>1. CASE UNCHANGED vars
    BY <1>1 DEF vars, IInv, TypeOK, Counted, CountsRow
  <1>2. CASE Outcome
    BY <1>2, OutcomeRecorded DEF Outcome
  <1>3. CASE Administration
    BY <1>3, SaveAndCreateInv, EditKeeps, PauseKeeps, RestoreInv, DeleteInv, TickInv DEF Administration
  <1> QED
    BY <1>1, <1>2, <1>3 DEF Next

LEMMA Invariance == Spec => []IInv
  BY InitInv, InvStep, PTL DEF Spec

(* The types are invariant for any keys and configurations.                *)
THEOREM TypeCorrect == Spec => []TypeOK
  <1>1. IInv => TypeOK
    BY DEF IInv
  <1> QED
    BY <1>1, Invariance, PTL

(* A cooldown ends by the clock, by Restore or with its key, and nothing   *)
(* else extends or shortens it (store.go:636-675).                         *)
THEOREM CooldownIsKept == Spec => CooldownKept
  <1>1. IInv /\ [Next]_vars =>
           [\A k \in keys : Cooling(k) /\ health'[k].until # health[k].until
               => Tick \/ \E S \in SUBSET keys : k \in S /\ (Restore(S) \/ DeleteKeys(S))]_vars
    <2> SUFFICES ASSUME IInv, Next, NEW k \in keys, Cooling(k), health'[k].until # health[k].until, ~Tick
                 PROVE  \E S \in SUBSET keys : k \in S /\ (Restore(S) \/ DeleteKeys(S))
      OBVIOUS
    <2>1. k \in Keys
      BY DEF IInv, TypeOK
    <2>2. ~Outcome
      <3> SUFFICES ASSUME Outcome PROVE FALSE
        OBVIOUS
      <3>1. \E j \in Keys : Recorded(j)
        BY OutcomeRecorded DEF Outcome
      <3> QED
        BY <2>1, <3>1 DEF Recorded, Follows, Cooling, IsRateLimited
    <2>3. \E S \in SUBSET Keys : Restore(S) \/ DeleteKeys(S)
      BY <2>1, <2>2, SaveAndCreateInv, EditKeeps, PauseKeeps DEF Next, Administration
    <2>4. PICK S \in SUBSET Keys : Restore(S) \/ DeleteKeys(S)
      BY <2>3
    <2>5. S \in SUBSET keys
      BY <2>4 DEF Restore, DeleteKeys
    <2>6. k \in S
      BY <2>1, <2>4 DEF Restore, Change, DeleteKeys
    <2> QED
      BY <2>4, <2>5, <2>6
  <1> QED
    BY <1>1, Invariance, PTL DEF Spec, CooldownKept

(* A cooldown begins exactly when the row of answers 429 reaches the       *)
(* threshold it is judged by (store.go:658-675).                           *)
THEOREM CooldownIsExact == Spec => CooldownExact
  <1>1. IInv /\ [Next]_vars =>
           [\A k \in keys, s \in Settings : RecordRateLimit(k, s) /\ ~Cooling(k)
               => (Cooling(k)' <=> row'[k] >= s.key429Threshold)]_vars
    <2> SUFFICES ASSUME IInv, NEW k \in keys, NEW s \in Settings, RecordRateLimit(k, s), ~Cooling(k)
                 PROVE  Cooling(k)' <=> row'[k] >= s.key429Threshold
      OBVIOUS
    <2>1. k \in Keys
      BY DEF IInv, TypeOK
    <2> QED
      BY <2>1, RateLimitRecorded DEF Cooling, IsRateLimited
  <1> QED
    BY <1>1, Invariance, PTL DEF Spec, CooldownExact

(* No outcome ends a pause, or touches what an administrator has switched  *)
(* (store.go:598-675).                                                     *)
THEOREM OutcomesOnlyEverPause == Spec => OutcomesOnlyPause
  <1>1. IInv /\ [Next]_vars =>
           [\A k \in keys : Outcome =>
               LET h == health[k]
                   new == health'[k]
               IN  /\ new.enabled = h.enabled /\ new.manualPaused = h.manualPaused
                   /\ h.paused => new.paused
                   /\ h.balanceDepleted => new.balanceDepleted
                   /\ new.paused /\ ~h.paused => new.consecutiveErrors > 0]_vars
    <2> SUFFICES ASSUME IInv, Outcome, NEW k \in keys PROVE Kept(health[k], health'[k])
      BY DEF Kept
    <2>1. k \in Keys
      BY DEF IInv, TypeOK
    <2>2. PICK j \in Keys : Recorded(j)
      BY OutcomeRecorded DEF Outcome
    <2>3. CASE j = k
      BY <2>2, <2>3 DEF Recorded, Follows
    <2>4. CASE j # k
      <3>1. health'[k] = health[k]
        BY <2>1, <2>2, <2>4 DEF Recorded
      <3> QED
        BY <3>1 DEF Kept
    <2> QED
      BY <2>3, <2>4
  <1> QED
    BY <1>1, Invariance, PTL DEF Spec, OutcomesOnlyPause
=============================================================================
