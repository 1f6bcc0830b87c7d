---------------------------- MODULE GlobalQueue ----------------------------
(***************************************************************************)
(* Global admission control of internal/gateway: at most                   *)
(* GlobalMaxConcurrency managed generation requests run at once, at most   *)
(* MaxQueueSize more wait for a slot.                                      *)
(*                                                                         *)
(* Every request works on the snapshot of the configuration it read when   *)
(* it arrived, so requests admitted and queued under different limits      *)
(* compete for the same two counters.  A release does not hand its slot    *)
(* over: it closes the notify channel, which wakes every waiter, and they  *)
(* race each other and the newcomers for queueMu.                          *)
(*                                                                         *)
(* An action is one critical section of queueMu.  A waiter that has picked *)
(* a case of its select keeps that choice until it gets the mutex; since a *)
(* closed channel, a fired timer and a cancelled context stay so, taking   *)
(* the choice and the mutex in one step loses no behaviour.                *)
(***************************************************************************)
EXTENDS Integers, FiniteSets

CONSTANTS Requests,       \* the request goroutines
          Configs,        \* the configurations an administrator may save
          InitialConfig   \* the one in force at start-up

(* "max" is GlobalMaxConcurrency (0: unlimited), "size" is MaxQueueSize.   *)
ConfigType == [max : Nat, size : Nat]

ASSUME RequestsAssumption == IsFiniteSet(Requests)
ASSUME ConfigsAssumption == Configs \subseteq ConfigType /\ InitialConfig \in Configs

VARIABLES config,         \* the store's current configuration
          stage,          \* where each request is in ServeHTTP
          limits,         \* the configuration snapshot each request works on
          globalRunning,  \* slots taken
          globalQueued,   \* requests waiting
          notified,       \* waiters whose notify channel has been closed
          queuePeak       \* highest globalQueued observed since the last sample

vars == <<config, stage, limits, globalRunning, globalQueued, notified, queuePeak>>

Stages == {"idle",        \* not in the handler
           "arrived",     \* snapshot read, acquireGlobalSlot not yet entered
           "waiting",     \* in the select of acquireGlobalSlot
           "running",     \* admitted, the upstream call not yet finished
           "sampled"}     \* the upstream call finished, the queue peak taken

Waiting == {r \in Requests : stage[r] = "waiting"}
Admitted == {r \in Requests : stage[r] \in {"running", "sampled"}}
Holders == {r \in Admitted : limits[r].max > 0}

TypeOK ==
    /\ config \in Configs
    /\ stage \in [Requests -> Stages]
    /\ limits \in [Requests -> Configs]
    /\ globalRunning \in Nat
    /\ globalQueued \in Nat
    /\ notified \in SUBSET Requests
    /\ queuePeak \in Nat

Init ==
    /\ config = InitialConfig
    /\ stage = [r \in Requests |-> "idle"]
    /\ limits = [r \in Requests |-> InitialConfig]
    /\ globalRunning = 0
    /\ globalQueued = 0
    /\ notified = {}
    /\ queuePeak = 0

Goto(r, s) == stage' = [stage EXCEPT ![r] = s]

(* Closing the channel reaches everyone in the select: those that hold it  *)
(* and those that hold one closed before.  "left" has already gone.        *)
signalGlobalQueue(left) == notified' = Waiting \ {left}

(* The retry loop around the compare-and-swap makes this one atomic step.  *)
observeQueuePeak(depth) == queuePeak' = IF depth > queuePeak THEN depth ELSE queuePeak

-----------------------------------------------------------------------------
SaveConfig(c) ==
    /\ config' = c
    /\ UNCHANGED <<stage, limits, globalRunning, globalQueued, notified, queuePeak>>

Arrive(r) ==
    /\ stage[r] = "idle"
    /\ Goto(r, "arrived")
    /\ limits' = [limits EXCEPT ![r] = config]
    /\ UNCHANGED <<config, globalRunning, globalQueued, notified, queuePeak>>

(* A limit of 0 switches the control off: nothing is counted.              *)
PassUnlimited(r) ==
    /\ stage[r] = "arrived"
    /\ limits[r].max = 0
    /\ Goto(r, "running")
    /\ UNCHANGED <<config, limits, globalRunning, globalQueued, notified, queuePeak>>

TakeSlot(r) ==
    /\ stage[r] = "arrived"
    /\ limits[r].max > 0
    /\ globalRunning < limits[r].max
    /\ globalRunning' = globalRunning + 1
    /\ Goto(r, "running")
    /\ UNCHANGED <<config, limits, globalQueued, notified, queuePeak>>

JoinQueue(r) ==
    /\ stage[r] = "arrived"
    /\ limits[r].max > 0
    /\ globalRunning >= limits[r].max
    /\ globalQueued < limits[r].size
    /\ globalQueued' = globalQueued + 1
    /\ observeQueuePeak(globalQueued + 1)
    /\ Goto(r, "waiting")
    /\ UNCHANGED <<config, limits, globalRunning, notified>>

RefuseFull(r) ==
    /\ stage[r] = "arrived"
    /\ limits[r].max > 0
    /\ globalRunning >= limits[r].max
    /\ globalQueued >= limits[r].size
    /\ Goto(r, "idle")
    /\ UNCHANGED <<config, limits, globalRunning, globalQueued, notified, queuePeak>>

(* Mutant: a notification is taken for a slot.                             *)
WakeAdmitted_Unchecked(r) ==
    /\ stage[r] = "waiting"
    /\ r \in notified
    /\ globalQueued' = globalQueued - 1
    /\ globalRunning' = globalRunning + 1
    /\ notified' = notified \ {r}
    /\ Goto(r, "running")
    /\ UNCHANGED <<config, limits, queuePeak>>

WakeAdmitted(r) ==
    /\ stage[r] = "waiting"
    /\ r \in notified
    /\ globalRunning < limits[r].max
    /\ globalQueued' = globalQueued - 1
    /\ globalRunning' = globalRunning + 1
    /\ notified' = notified \ {r}
    /\ Goto(r, "running")
    /\ UNCHANGED <<config, limits, queuePeak>>

(* Someone else was faster: wait again, on the channel current by now.     *)
WakeAgain(r) ==
    /\ stage[r] = "waiting"
    /\ r \in notified
    /\ globalRunning >= limits[r].max
    /\ notified' = notified \ {r}
    /\ UNCHANGED <<config, stage, limits, globalRunning, globalQueued, queuePeak>>

(* Mutant: a waiter that leaves is still counted.                          *)
GiveUp_Counted(r) ==
    /\ stage[r] = "waiting"
    /\ signalGlobalQueue(r)
    /\ Goto(r, "idle")
    /\ UNCHANGED <<config, limits, globalRunning, globalQueued, queuePeak>>

(* The queue timer fired or the client went away, perhaps while a          *)
(* notification was waiting as well: select may take either.               *)
GiveUp(r) ==
    /\ stage[r] = "waiting"
    /\ globalQueued' = globalQueued - 1
    /\ signalGlobalQueue(r)
    /\ Goto(r, "idle")
    /\ UNCHANGED <<config, limits, globalRunning, queuePeak>>

(* The upstream call is over: ServeHTTP reads and resets the peak for its  *)
(* metric sample before it gives the slot back.                            *)
consumeQueuePeak(r) ==
    /\ stage[r] = "running"
    /\ queuePeak' = 0
    /\ Goto(r, "sampled")
    /\ UNCHANGED <<config, limits, globalRunning, globalQueued, notified>>

(* Mutant: nobody is told that a slot is free.                             *)
Release_Silent(r) ==
    /\ r \in Admitted
    /\ Goto(r, "idle")
    /\ globalRunning' = IF limits[r].max = 0 THEN globalRunning ELSE globalRunning - 1
    /\ UNCHANGED <<config, limits, globalQueued, notified, queuePeak>>

(* After the sample, or by the deferred call of an early return (launch    *)
(* wait cancelled, no key available).                                      *)
Release(r) ==
    /\ r \in Admitted
    /\ Goto(r, "idle")
    /\ IF limits[r].max = 0
         THEN UNCHANGED <<globalRunning, notified>>
         ELSE /\ globalRunning' = IF globalRunning > 0 THEN globalRunning - 1 ELSE globalRunning
              /\ signalGlobalQueue(r)
    /\ UNCHANGED <<config, limits, globalQueued, queuePeak>>

acquireGlobalSlot(r) ==
    \/ PassUnlimited(r)
    \/ TakeSlot(r)
    \/ JoinQueue(r)
    \/ RefuseFull(r)
    \/ WakeAdmitted(r)
    \/ WakeAgain(r)
    \/ GiveUp(r)

Next ==
    \/ \E c \in Configs : SaveConfig(c)
    \/ \E r \in Requests : Arrive(r) \/ acquireGlobalSlot(r) \/ consumeQueuePeak(r) \/ Release(r)

Spec == Init /\ [][Next]_vars

(* A goroutine whose channel has been closed is scheduled and gets the     *)
(* mutex eventually.  Nothing is assumed of clients, of timers, of the     *)
(* upstream, or of how soon a slot is given back.                          *)
WakeFairness == \A r \in Requests : WF_vars(WakeAdmitted(r) \/ WakeAgain(r))

FairSpec == Spec /\ WakeFairness

-----------------------------------------------------------------------------
(* The two counters of the Gateway agree with where the requests are, also *)
(* when the control is switched off and on while requests hold slots: no   *)
(* slot is leaked, returned twice, or lost on a timeout (the guard against *)
(* a negative globalRunning in releaseGlobalSlot never hides one).         *)
SlotAccounting ==
    /\ globalRunning = Cardinality(Holders)
    /\ globalQueued = Cardinality(Waiting)

(* However the limit is edited meanwhile, requests that were admitted      *)
(* under a limit of m or less never hold more than m slots together.       *)
LimitRespected ==
    \A m \in 1..Cardinality(Requests) : Cardinality({r \in Holders : limits[r].max <= m}) <= m

(* The same for the waiting room and MaxQueueSize.                         *)
QueueLimitRespected ==
    \A m \in 0..Cardinality(Requests) : Cardinality({r \in Waiting : limits[r].size <= m}) <= m

(* A waiter sleeps on a channel nobody has closed only while its own limit *)
(* is reached: a slot set free between its look at the counter and its     *)
(* select, or one it was woken for and left to another, is not missed.     *)
NoLostWakeup == \A r \in Waiting \ notified : globalRunning >= limits[r].max

(* The four together.                                                      *)
AdmissionSafe ==
    /\ SlotAccounting
    /\ LimitRespected
    /\ QueueLimitRespected
    /\ NoLostWakeup

(* A free slot is not left idle while a waiter could use it: the waiter    *)
(* gets in, somebody else takes the slot, or the waiter leaves.            *)
MayEnter(r) == stage[r] = "waiting" /\ globalRunning < limits[r].max
IdleSlotTaken == \A r \in Requests : MayEnter(r) ~> ~MayEnter(r)

(* The counters and channels implement a room with so many seats.          *)
PlaceOf == [idle |-> "out", arrived |-> "door", waiting |-> "queue",
            running |-> "room", sampled |-> "room"]
Place == [r \in Requests |-> PlaceOf[stage[r]]]

Room == INSTANCE AdmissionRoom WITH place <- Place, terms <- limits,
                                    Terms <- Configs, Visitors <- Requests
RoomSpec == Room!Spec
=============================================================================
