----------------------------- MODULE Generation -----------------------------
(***************************************************************************)
(* The life of an upstream request in internal/gateway, from the key it    *)
(* has got to the release of the key: attempts, retries, reading and rela- *)
(* ying the response, a client that leaves, and the outcome that is recor- *)
(* ded in the health of the key (KeyHealth).  A key is chosen as in module *)
(* KeyRotation; its order and its requests per minute are left open.       *)
(*                                                                         *)
(* A response is abstracted to what its status says of the key.  Nothing   *)
(* makes the upstream answer: the code sets it no deadline.                *)
(***************************************************************************)
EXTENDS Integers, FiniteSets

CONSTANTS Keys, Settings, MaxErrors,  \* see KeyHealth
          Requests,             \* goroutines that serve a request each
          Kinds,                \* what the requests are
          Capacity,             \* MaxConcurrency of a key
          upstreamMaxAttempts

(* Streamed and buffered generations and lists of models for clients, and  *)
(* the tests and lists of models of the administrator.                     *)
Routed == {"stream", "buffered", "models"}
Generating == {"stream", "buffered", "test"}

ASSUME GenerationAssumption ==
    /\ Kinds \subseteq Routed \cup Generating \cup {"fetch"}
    /\ IsFiniteSet(Requests)
    /\ {Capacity, upstreamMaxAttempts} \subseteq Nat \ {0}
    /\ Keys # {}

VARIABLES settings, keys, health, row,  \* see KeyHealth
          inflight,  \* routed requests of each key
          stage,     \* where each request is
          kind,      \* what it is
          key,       \* the key it uses
          attempt,   \* the attempt that is being made
          answer,    \* what forward or doBuffered returns
          cfg,       \* the configuration its outcome is judged by
          gone       \* the requests whose client has left: their context is cancelled

healthVars == <<settings, keys, health, row>>
requestVars == <<stage, kind, key, attempt, answer, cfg, gone>>
vars == <<healthVars, inflight, requestVars>>

Health == INSTANCE KeyHealth

ASSUME HealthAssumption == Health!SettingsAssumption

Statuses == {"ok", "limited", "failed", "depleted"}
Answers == [status : Statuses \cup {"none"}, err : {"none", "canceled", "upstream", "client"}]
NoAnswer == [status |-> "none", err |-> "none"]
SomeSettings == CHOOSE s \in Settings : TRUE

Unpublished == {"send", "delay", "body", "done", "judged"}
Stages == Unpublished \cup {"idle", "published"}

TypeOK ==
    /\ Health!TypeOK
    /\ inflight \in [Keys -> Nat]
    /\ stage \in [Requests -> Stages]
    /\ kind \in [Requests -> Kinds \cup {"fetch"}]
    /\ key \in [Requests -> Keys]
    /\ attempt \in [Requests -> 0..upstreamMaxAttempts]
    /\ answer \in [Requests -> Answers]
    /\ cfg \in [Requests -> Settings]
    /\ gone \subseteq Requests

Init ==
    /\ Health!Init
    /\ inflight = [k \in Keys |-> 0]
    /\ stage = [r \in Requests |-> "idle"]
    /\ kind = [r \in Requests |-> "fetch"]
    /\ key = [r \in Requests |-> CHOOSE k \in Keys : TRUE]
    /\ attempt = [r \in Requests |-> 0]
    /\ answer = [r \in Requests |-> NoAnswer]
    /\ cfg = [r \in Requests |-> SomeSettings]
    /\ gone = {}

-----------------------------------------------------------------------------
Available(k) ==
    /\ health[k].enabled
    /\ ~health[k].manualPaused /\ ~health[k].paused /\ ~health[k].balanceDepleted
    /\ ~Health!IsRateLimited(health[k])

(* The administrator tests keys whatever their health.                     *)
Begin(r, what, k) ==
    /\ stage[r] = "idle"
    /\ k \in keys
    /\ IF what \in Routed
       THEN /\ Available(k) /\ inflight[k] < Capacity
            /\ inflight' = [inflight EXCEPT ![k] = @ + 1]
       ELSE UNCHANGED inflight
    /\ stage' = [stage EXCEPT ![r] = "send"]
    /\ kind' = [kind EXCEPT ![r] = what]
    /\ key' = [key EXCEPT ![r] = k]
    /\ attempt' = [attempt EXCEPT ![r] = 1]
    /\ UNCHANGED <<healthVars, answer, cfg, gone>>

(* After forwarding it makes no difference.                                *)
ClientLeaves(r) ==
    /\ stage[r] \in {"send", "delay", "body"}
    /\ gone' = gone \cup {r}
    /\ UNCHANGED <<healthVars, inflight, stage, kind, key, attempt, answer, cfg>>

-----------------------------------------------------------------------------
(* forward, and doBuffered: the attempts.                                  *)

GoTo(r, next) ==
    /\ stage' = [stage EXCEPT ![r] = next]
    /\ UNCHANGED <<healthVars, kind, key, cfg, gone>>

(* Mutant: the slot of the key is free before the outcome is recorded.     *)
Finish_Releases(r, status, err) ==
    /\ GoTo(r, "done")
    /\ attempt' = [attempt EXCEPT ![r] = 0]
    /\ answer' = [answer EXCEPT ![r] = [status |-> status, err |-> err]]
    /\ inflight' = [inflight EXCEPT ![key[r]] = IF @ > 0 THEN @ - 1 ELSE @]

Finish(r, status, err) ==
    /\ GoTo(r, "done")
    /\ attempt' = [attempt EXCEPT ![r] = 0]
    /\ answer' = [answer EXCEPT ![r] = [status |-> status, err |-> err]]
    /\ UNCHANGED inflight

(* The proxy or the URL cannot be used; the first attempt finds out.       *)
Unsendable(r) ==
    /\ stage[r] = "send" /\ attempt[r] = 1
    /\ Finish(r, "none", "upstream")

(* Mutant: the attempts are not counted.                                   *)
shouldRetryRequest_Uncounted(r) == r \notin gone

shouldRetryRequest(r) == attempt[r] < upstreamMaxAttempts /\ r \notin gone

Retry(r) ==
    /\ stage[r] = "send"
    /\ shouldRetryRequest(r)
    /\ GoTo(r, "delay")
    /\ UNCHANGED <<inflight, attempt, answer>>

LastError(r) ==
    /\ stage[r] = "send"
    /\ ~shouldRetryRequest(r)
    /\ Finish(r, "none", "upstream")

RetryDelay(r) ==
    /\ stage[r] = "delay"
    /\ GoTo(r, "send")
    /\ attempt' = [attempt EXCEPT ![r] = @ + 1]
    /\ UNCHANGED <<inflight, answer>>

(* No status is retried.                                                   *)
Respond(r, status) ==
    /\ stage[r] = "send"
    /\ GoTo(r, "body")
    /\ attempt' = [attempt EXCEPT ![r] = 0]
    /\ answer' = [answer EXCEPT ![r] = [status |-> status, err |-> "none"]]
    /\ UNCHANGED inflight

(* The response has been read, or it breaks off.                           *)
ReadBody(r, err) ==
    /\ stage[r] = "body"
    /\ Finish(r, answer[r].status, err)

(* Mutant: the request to the upstream is made without the client's context*)
Canceled_Waiting(r) ==
    /\ stage[r] = "delay"
    /\ r \in gone
    /\ Finish(r, answer[r].status, "canceled")

(* The request, the delay and the read watch the client's context.         *)
Canceled(r) ==
    /\ stage[r] \in {"send", "delay", "body"}
    /\ r \in gone
    /\ Finish(r, answer[r].status, "canceled")

(* The write of a chunk to the client fails before the read is cancelled.  *)
(* A buffered response is relayed when forward has its result.             *)
WriteFails(r) ==
    /\ stage[r] = "body" /\ kind[r] = "stream"
    /\ r \in gone
    /\ Finish(r, answer[r].status, "client")

forward(r) ==
    \/ Unsendable(r) \/ Retry(r) \/ LastError(r) \/ RetryDelay(r)
    \/ \E status \in Statuses : Respond(r, status)
    \/ \E err \in {"none", "upstream"} : ReadBody(r, err)
    \/ Canceled(r) \/ WriteFails(r)

-----------------------------------------------------------------------------
(* recordUpstreamResult, and the release.                                  *)

Limited(a) == a.status = "limited"
Ignored(a) == ~Limited(a) /\ a.err = "canceled"
Failed(a) == a.err # "none" \/ a.status # "ok"

(* RecordRateLimit and RecordFailure read the configuration first.         *)
ReadSettings(r) ==
    /\ stage[r] = "done"
    /\ Limited(answer[r]) \/ (~Ignored(answer[r]) /\ kind[r] \in Generating /\ Failed(answer[r]))
    /\ stage' = [stage EXCEPT ![r] = "judged"]
    /\ cfg' = [cfg EXCEPT ![r] = settings]
    /\ UNCHANGED <<healthVars, inflight, kind, key, attempt, answer, gone>>

Publishes(r) ==
    /\ stage' = [stage EXCEPT ![r] = "published"]
    /\ answer' = [answer EXCEPT ![r] = NoAnswer]
    /\ cfg' = [cfg EXCEPT ![r] = SomeSettings]
    /\ gone' = gone \ {r}
    /\ UNCHANGED <<inflight, kind, key, attempt>>

PublishLimit(r) ==
    /\ stage[r] = "judged" /\ Limited(answer[r])
    /\ Health!RecordRateLimit(key[r], cfg[r])
    /\ Publishes(r)

PublishNothing(r) ==
    /\ stage[r] = "done" /\ Ignored(answer[r])
    /\ UNCHANGED healthVars
    /\ Publishes(r)

PublishNon429(r) ==
    /\ stage[r] = "done" /\ kind[r] \notin Generating
    /\ ~Limited(answer[r]) /\ ~Ignored(answer[r])
    /\ Health!RecordNon429(key[r])
    /\ Publishes(r)

(* The body is looked at for an empty balance if it has been read.         *)
PublishFailure(r) ==
    /\ stage[r] = "judged" /\ ~Limited(answer[r])
    /\ Health!RecordFailure(key[r], cfg[r], answer[r] = [status |-> "depleted", err |-> "none"])
    /\ Publishes(r)

PublishSuccess(r) ==
    /\ stage[r] = "done" /\ kind[r] \in Generating
    /\ ~Failed(answer[r])
    /\ Health!RecordSuccess(key[r])
    /\ Publishes(r)

recordUpstreamResult(r) ==
    \/ PublishLimit(r) \/ PublishNothing(r) \/ PublishNon429(r)
    \/ PublishFailure(r) \/ PublishSuccess(r)

Release(r) ==
    /\ stage[r] = "published"
    /\ inflight' = IF kind[r] \in Routed /\ inflight[key[r]] > 0
                   THEN [inflight EXCEPT ![key[r]] = @ - 1] ELSE inflight
    /\ stage' = [stage EXCEPT ![r] = "idle"]
    /\ kind' = [kind EXCEPT ![r] = "fetch"]
    /\ UNCHANGED <<healthVars, key, attempt, answer, cfg, gone>>

(* Pauses by hand and edits of keys are left to KeyHealth's own run: a key *)
(* is unavailable after its outcomes anyhow.                               *)
Environment ==
    /\ \/ \E s \in Settings : Health!SaveGlobalConfig(s)
       \/ \E k \in Keys : Health!Restore({k}) \/ Health!DeleteKeys({k}) \/ Health!CreateKey(k)
       \/ Health!Tick
    /\ UNCHANGED <<inflight, requestVars>>

Next ==
    \/ Environment
    \/ \E r \in Requests :
          \/ \E what \in Kinds, k \in Keys : Begin(r, what, k)
          \/ ClientLeaves(r)
          \/ forward(r)
          \/ ReadSettings(r) \/ recordUpstreamResult(r) \/ Release(r)

(* Goroutines run, timers fire and contexts are watched; the upstream and  *)
(* the client do what they like.                                           *)
Fairness ==
    \A r \in Requests :
        /\ WF_vars(Canceled(r)) /\ WF_vars(RetryDelay(r))
        /\ WF_vars(ReadSettings(r)) /\ WF_vars(recordUpstreamResult(r)) /\ WF_vars(Release(r))

Spec == Init /\ [][Next]_vars /\ Fairness

-----------------------------------------------------------------------------
(* gateway.go:233 "Publish automatic state before freeing admission    *)
(* slots": never do more routed requests of a key have an outcome that is  *)
(* not recorded yet than the key may serve at a time; so a key that has    *)
(* begun to fail takes at most as many requests before its pause.          *)
OutcomesWithinCapacity ==
    \A k \in Keys :
        Cardinality({r \in Requests : /\ kind[r] \in Routed /\ key[r] = k
                                      /\ stage[r] \in Unpublished}) <= Capacity

(* A request whose client has left gives its key back, even if the up-     *)
(* stream hangs, whatever it is waiting for.                               *)
AbandonedEnds == \A r \in Requests : r \in gone ~> stage[r] = "idle"

(* README "HTTP 429 Cooldown": "cancellation without an HTTP 429 does not  *)
(* change" the sequence, and TestCancellationPreservesRealError:           *)
(* "cancellation changed error state".  A request that ends because its    *)
(* client has left, and not by a 429, leaves the health of its key alone.  *)
CancellationHarmless ==
    [][\A r \in Requests :
           recordUpstreamResult(r) /\ answer[r].err \in {"canceled", "client"} /\ ~Limited(answer[r])
           => health' = health]_vars
=============================================================================
