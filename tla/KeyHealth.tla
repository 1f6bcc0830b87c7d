----------------------------- MODULE KeyHealth -----------------------------
(***************************************************************************)
(* The health of the API keys in internal/store: the temporary limit after *)
(* HTTP 429, the pause after consecutive failures or an empty balance, the *)
(* pause by hand, and their end.  Outcomes of requests arrive in any order *)
(* and at any time, also for keys deleted meanwhile, and are judged by the *)
(* configuration that was read before the key's critical section; here any *)
(* configuration, however old.                                             *)
(*                                                                         *)
(* RateLimitedUntil is abstracted to the time that is left: Never is the   *)
(* zero time, 0 a deadline that has passed.  The clock read just before a  *)
(* critical section is read in it.                                         *)
(***************************************************************************)
EXTENDS Integers

CONSTANTS Keys,      \* key ids
          Settings,  \* the configurations an administrator may save
          MaxErrors  \* ConsecutiveErrors is counted up to here

Never == -1

(* SaveGlobalConfig replaces zeros by defaults and refuses negative values. *)
ASSUME SettingsAssumption ==
    /\ Settings \subseteq [key429Threshold : Nat \ {0}, cooldown : Nat \ {0},
                           autoPause : BOOLEAN, pauseThreshold : 1..MaxErrors]
    /\ Settings # {}
    /\ MaxErrors \in Nat

VARIABLES settings,  \* the saved configuration
          keys,      \* the keys in the store
          health,    \* the health of each
          row        \* history: the outcomes 429 in a row, not counting those of a cooldown

vars == <<settings, keys, health, row>>

Health == [enabled : BOOLEAN, manualPaused : BOOLEAN, paused : BOOLEAN, balanceDepleted : BOOLEAN,
           consecutive429 : Nat, until : Nat \cup {Never}, consecutiveErrors : 0..MaxErrors]

New == [enabled |-> TRUE, manualPaused |-> FALSE, paused |-> FALSE, balanceDepleted |-> FALSE,
        consecutive429 |-> 0, until |-> Never, consecutiveErrors |-> 0]

TypeOK ==
    /\ settings \in Settings
    /\ keys \subseteq Keys
    /\ health \in [Keys -> Health]
    /\ row \in [Keys -> Nat]

Init ==
    /\ settings \in Settings
    /\ keys = Keys
    /\ health = [k \in Keys |-> New]
    /\ row = [k \in Keys |-> 0]

IsRateLimited(h) == h.until > 0

-----------------------------------------------------------------------------
(* The outcomes of requests.                                               *)

(* The outcome for a deleted key is dropped (ErrNotFound).                 *)
mutateKey(k, h, n) ==
    /\ IF k \in keys THEN /\ health' = [health EXCEPT ![k] = h]
                          /\ row' = [row EXCEPT ![k] = n]
       ELSE UNCHANGED <<health, row>>
    /\ UNCHANGED <<settings, keys>>

(* Mutant: any other outcome ends the cooldown.                            *)
reset429Sequence_Clears(h) == [h EXCEPT !.consecutive429 = 0, !.until = Never]

(* A cooldown that runs stays.                                             *)
reset429Sequence(h) ==
    [h EXCEPT !.consecutive429 = 0, !.until = IF IsRateLimited(h) THEN @ ELSE Never]

RecordSuccess(k) ==
    mutateKey(k, [reset429Sequence(health[k]) EXCEPT !.consecutiveErrors = 0], 0)

RecordNon429(k) == mutateKey(k, reset429Sequence(health[k]), 0)

(* Mutant: the pause is set to what this failure says.                     *)
RecordFailure_Unpauses(k, cfg, depleted) ==
    LET h == reset429Sequence(health[k])
        n == IF h.consecutiveErrors < MaxErrors THEN h.consecutiveErrors + 1 ELSE MaxErrors
    IN  mutateKey(k, [h EXCEPT !.consecutiveErrors = n,
                               !.balanceDepleted = @ \/ depleted,
                               !.paused = depleted \/ (cfg.autoPause /\ n >= cfg.pauseThreshold)], 0)

RecordFailure(k, cfg, depleted) ==
    LET h == reset429Sequence(health[k])
        n == IF h.consecutiveErrors < MaxErrors THEN h.consecutiveErrors + 1 ELSE MaxErrors
    IN  mutateKey(k, [h EXCEPT !.consecutiveErrors = n,
                               !.balanceDepleted = @ \/ depleted,
                               !.paused = @ \/ depleted
                                            \/ (cfg.autoPause /\ n >= cfg.pauseThreshold)], 0)

(* Mutant: the sequence goes on after the cooldown.                        *)
NextIn429Sequence_GoesOn(h, cfg) ==
    LET n == h.consecutive429 + 1
    IN  [h EXCEPT !.consecutive429 = n,
                  !.until = IF n >= cfg.key429Threshold THEN cfg.cooldown ELSE @]

(* One more 429 of the sequence; those of an expired cooldown do not count.*)
NextIn429Sequence(h, cfg) ==
    LET fresh == IF h.until = Never THEN h ELSE reset429Sequence(h)
        n == fresh.consecutive429 + 1
    IN  [fresh EXCEPT !.consecutive429 = n,
                      !.until = IF n >= cfg.key429Threshold THEN cfg.cooldown ELSE @]

RecordRateLimit(k, cfg) ==
    LET h == [health[k] EXCEPT !.consecutiveErrors = 0]
    IN  IF IsRateLimited(h) THEN mutateKey(k, h, 0)
        ELSE mutateKey(k, NextIn429Sequence(h, cfg), row[k] + 1)

-----------------------------------------------------------------------------
(* The administrator, and the clock.                                       *)

(* Mutant: a zero is not replaced by its default.                          *)
SaveGlobalConfig_Zero(s) ==
    settings' = [s EXCEPT !.key429Threshold = 0] /\ UNCHANGED <<keys, health, row>>

SaveGlobalConfig(s) == settings' = s /\ UNCHANGED <<keys, health, row>>

Change(S, new) ==
    /\ health' = [k \in Keys |-> IF k \in S THEN new[k] ELSE health[k]]
    /\ UNCHANGED <<settings, keys>>

(* The form sends these three fields as they were when it was opened, or   *)
(* as the administrator has changed them.                                  *)
UpdateKey(k, enabled, paused, depleted) ==
    /\ k \in keys
    /\ Change({k}, [j \in {k} |-> [health[j] EXCEPT !.enabled = enabled, !.paused = paused,
                                                   !.balanceDepleted = depleted]])
    /\ UNCHANGED row

PauseKeys(S) ==
    /\ S \subseteq keys
    /\ Change(S, [k \in S |-> [health[k] EXCEPT !.manualPaused = TRUE]])
    /\ UNCHANGED row

(* RestoreKey for one key, RestoreAllKeys for all.                         *)
Restore(S) ==
    /\ S \subseteq keys
    /\ Change(S, [k \in S |-> [New EXCEPT !.enabled = health[k].enabled]])
    /\ row' = [k \in Keys |-> IF k \in S THEN 0 ELSE row[k]]

DeleteKeys(S) ==
    /\ S \subseteq keys
    /\ keys' = keys \ S
    /\ health' = [k \in Keys |-> IF k \in S THEN New ELSE health[k]]
    /\ row' = [k \in Keys |-> IF k \in S THEN 0 ELSE row[k]]
    /\ UNCHANGED settings

CreateKey(k) ==
    /\ k \notin keys
    /\ keys' = keys \cup {k}
    /\ UNCHANGED <<settings, health, row>>

Tick ==
    /\ Change(Keys, [k \in Keys |-> IF IsRateLimited(health[k]) THEN [health[k] EXCEPT !.until = @ - 1]
                                 ELSE health[k]])
    /\ row' = [k \in Keys |-> IF health[k].until = 1 THEN 0 ELSE row[k]]

Administration ==
    \/ \E s \in Settings : SaveGlobalConfig(s)
    \/ \E k \in Keys : \/ \E e, p, d \in BOOLEAN : UpdateKey(k, e, p, d)
                       \/ CreateKey(k)
    \/ \E S \in (SUBSET Keys) \ {{}} : PauseKeys(S) \/ Restore(S) \/ DeleteKeys(S)
    \/ Tick

Outcome ==
    \E k \in Keys : \/ RecordSuccess(k)
                    \/ RecordNon429(k)
                    \/ \E s \in Settings : \/ RecordRateLimit(k, s)
                                           \/ \E d \in BOOLEAN : RecordFailure(k, s, d)

Next == Administration \/ Outcome

Spec == Init /\ [][Next]_vars

-----------------------------------------------------------------------------
Cooling(k) == IsRateLimited(health[k])

(* README "HTTP 429 Cooldown": "Successful tests do not end cooldown early, *)
(* and additional 429 responses do not extend it.  Use Restore to clear    *)
(* cooldown immediately.  Configuration changes affect future cooldowns    *)
(* only."                                                                  *)
CooldownKept ==
    [][\A k \in keys : Cooling(k) /\ health'[k].until # health[k].until
           => Tick \/ \E S \in SUBSET keys : k \in S /\ (Restore(S) \/ DeleteKeys(S))]_vars

(* "Keys enter [the limit] after the configured number of consecutive up-  *)
(* stream HTTP 429 responses", neither sooner nor later, whatever else is  *)
(* recorded, restored or configured between them, and after an expired     *)
(* cooldown from the start.                                                *)
CooldownExact ==
    [][\A k \in keys, s \in Settings : RecordRateLimit(k, s) /\ ~Cooling(k)
           => (Cooling(k)' <=> row'[k] >= s.key429Threshold)]_vars

(* "Existing disabled, manual-pause, automatic-pause, and balance-depleted *)
(* states remain independent": no outcome of a request, however late, ends *)
(* a pause or enters or ends one made by hand, and a 429 makes none.       *)
OutcomesOnlyPause ==
    [][\A k \in keys : Outcome =>
           LET h == health[k]
               new == health'[k]
           IN  /\ new.enabled = h.enabled /\ new.manualPaused = h.manualPaused
               /\ h.paused => new.paused
               /\ h.balanceDepleted => new.balanceDepleted
               /\ new.paused /\ ~h.paused => new.consecutiveErrors > 0]_vars
=============================================================================
