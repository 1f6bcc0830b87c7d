---------------------------- MODULE ManualProxy ----------------------------
(***************************************************************************)
(* The rotation of the global manual proxy list (internal/gateway/manual_  *)
(* proxy.go).  A request copies the configuration from the store, and      *)
(* later, in any order, takes the gateway's mutex and selects its proxy.   *)
(* So the selection sees configurations out of order; it follows the       *)
(* newest revision it has seen, and its cursor moves on through saves that *)
(* change neither list nor mode.                                           *)
(*                                                                         *)
(* A configuration is known by its revision, its index in configs.  The    *)
(* state lives as long as the process does, so a restart is a new          *)
(* behaviour.  A configuration without a revision exists in tests only.    *)
(***************************************************************************)
EXTENDS ProxyLists

CONSTANTS Requests,    \* goroutines that select a proxy
          MaxRevision  \* bound: configurations saved

VARIABLES configs,  \* the configurations saved so far; the store keeps the last one
          holds,    \* the revision of the configuration each request holds, 0: none
          active,   \* manualProxyState
          turns     \* history: how often each proxy of the active list has been
                    \* used since it is active, less the full rounds

vars == <<configs, holds, active, turns>>

Modes == {"round_robin", "key_binding"}

NoTurns(urls) == [i \in 1..Len(urls) |-> 0]

TypeOK ==
    /\ DOMAIN configs = 1..Len(configs)
    /\ \A n \in DOMAIN configs : configs[n].mode \in Modes
    /\ holds \in [Requests -> 0..Len(configs)]
    /\ active.revision \in 0..Len(configs)
    /\ active.err \in BOOLEAN
    /\ active.next \in Nat
    /\ active.urls # <<>> => active.next < Len(active.urls)
    /\ DOMAIN turns = 1..Len(active.urls)

(* What the database holds was entered under some version, so it may be    *)
(* malformed.                                                              *)
Init ==
    /\ \E l \in Lists, m \in Modes : configs = <<[list |-> l, mode |-> m]>>
    /\ holds = [r \in Requests |-> 0]
    /\ active = [revision |-> 0, source |-> <<>>, mode |-> "", urls |-> <<>>,
                 err |-> FALSE, next |-> 0]
    /\ turns = <<>>

-----------------------------------------------------------------------------
(* Other settings may change with the list and the mode kept: the new list *)
(* is then the old one, in its canonical form.                             *)
SaveGlobalConfig(list, mode) ==
    /\ Len(configs) < MaxRevision
    /\ ~Invalid(list)
    /\ configs' = Append(configs, [list |-> Parse(list), mode |-> mode])
    /\ UNCHANGED <<holds, active, turns>>

GlobalConfig(r) ==
    /\ holds[r] = 0
    /\ holds' = [holds EXCEPT ![r] = Len(configs)]
    /\ UNCHANGED <<configs, active, turns>>

(* The request has a VPS node or a proxy of its key, or gives up.          *)
SelectOther(r) ==
    /\ holds[r] # 0
    /\ holds' = [holds EXCEPT ![r] = 0]
    /\ UNCHANGED <<configs, active, turns>>

(* Mutant: an older configuration is activated, too.                       *)
Activated_AnyAge(n) ==
    LET c == configs[n]
        same == active.source = c.list
    IN  IF n = active.revision THEN active
        ELSE [revision |-> n,
              source   |-> c.list,
              mode     |-> c.mode,
              urls     |-> IF same THEN active.urls ELSE IF Invalid(c.list) THEN <<>> ELSE Parse(c.list),
              err      |-> IF same THEN active.err ELSE Invalid(c.list),
              next     |-> IF same /\ active.mode = c.mode THEN active.next ELSE 0]

(* Mutant: every newer configuration restarts the rotation.                *)
Activated_Restarts(n) ==
    LET c == configs[n]
        same == active.source = c.list
    IN  IF n <= active.revision THEN active
        ELSE [revision |-> n,
              source   |-> c.list,
              mode     |-> c.mode,
              urls     |-> IF same THEN active.urls ELSE IF Invalid(c.list) THEN <<>> ELSE Parse(c.list),
              err      |-> IF same THEN active.err ELSE Invalid(c.list),
              next     |-> 0]

(* The state after a request with configuration n has had its say.         *)
Activated(n) ==
    LET c == configs[n]
        same == active.source = c.list
    IN  IF n <= active.revision THEN active
        ELSE [revision |-> n,
              source   |-> c.list,
              mode     |-> c.mode,
              urls     |-> IF same THEN active.urls ELSE IF Invalid(c.list) THEN <<>> ELSE Parse(c.list),
              err      |-> IF same THEN active.err ELSE Invalid(c.list),
              next     |-> IF same /\ active.mode = c.mode THEN active.next ELSE 0]

(* History: the same rotation goes on unless list or mode have changed.    *)
Continued(n) ==
    n <= active.revision \/ (active.source = configs[n].list /\ active.mode = configs[n].mode)
TurnsOf(n) == IF Continued(n) THEN turns ELSE NoTurns(Activated(n).urls)
WithTurn(t, i) ==
    LET u == [t EXCEPT ![i] = @ + 1]
    IN  IF \A j \in DOMAIN u : u[j] > 0 THEN [j \in DOMAIN u |-> u[j] - 1] ELSE u

(* The list is malformed or empty, or the proxy depends on the key alone.  *)
SelectFixed(n) ==
    /\ Activated(n).err \/ Activated(n).urls = <<>> \/ Activated(n).mode = "key_binding"
    /\ active' = Activated(n)
    /\ turns' = TurnsOf(n)

(* Mutant: the cursor does not wrap around.                                *)
SelectNext_Overrun(n) ==
    LET a == Activated(n) IN
    /\ ~a.err
    /\ a.urls # <<>>
    /\ a.mode = "round_robin"
    /\ active' = [a EXCEPT !.next = a.next + 1]
    /\ turns' = WithTurn(TurnsOf(n), a.next + 1)

SelectNext(n) ==
    LET a == Activated(n) IN
    /\ ~a.err
    /\ a.urls # <<>>
    /\ a.mode = "round_robin"
    /\ active' = [a EXCEPT !.next = (a.next + 1) % Len(a.urls)]
    /\ turns' = WithTurn(TurnsOf(n), a.next + 1)

manualProxyForKeyLocked(r) ==
    /\ holds[r] # 0
    /\ SelectFixed(holds[r]) \/ SelectNext(holds[r])
    /\ holds' = [holds EXCEPT ![r] = 0]
    /\ UNCHANGED configs

Next ==
    \/ \E l \in Lists, m \in Modes : SaveGlobalConfig(l, m)
    \/ \E r \in Requests : GlobalConfig(r) \/ SelectOther(r) \/ manualProxyForKeyLocked(r)

Spec == Init /\ [][Next]_vars

-----------------------------------------------------------------------------
(* manual_proxy.go:29 "must not roll back the active list/mode": what is   *)
(* active is the list and the mode of one saved configuration, also after  *)
(* several partial updates.                                                *)
ActiveIsSaved ==
    active.revision # 0 =>
        LET c == configs[active.revision] IN
        /\ active.source = c.list
        /\ active.mode = c.mode
        /\ active.err = Invalid(c.list)
        /\ active.urls = IF active.err THEN <<>> ELSE Parse(c.list)

(* README "Manual round-robin advances once per new request ... in input   *)
(* order": while list and mode stay, no proxy is used again before all     *)
(* others have had their turn, whatever else is saved and however old the  *)
(* configurations are that requests come with.                             *)
EvenRotation ==
    active.mode = "round_robin" =>
        \A i \in 1..Len(active.urls) : turns[i] = IF i <= active.next THEN 1 ELSE 0

(* Both together.                                                          *)
RotationSafe == ActiveIsSaved /\ EvenRotation

(* README "late requests holding older config snapshots cannot roll back   *)
(* an activated list or mode": no selection goes back to an older          *)
(* configuration, neither than one selected under before nor than the one  *)
(* the request holds.                                                      *)
NoRollback ==
    [][/\ active.revision <= active'.revision
       /\ \A r \in Requests : manualProxyForKeyLocked(r) => holds[r] <= active'.revision]_vars
=============================================================================
