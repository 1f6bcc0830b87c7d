---------------------------- MODULE PartsProofs ----------------------------
(***************************************************************************)
(* Proofs about the parts of Parts, each for every value of its constants. *)
(*                                                                         *)
(* queue     The counters are natural numbers only because they count      *)
(*           requests, and the limits hold only because the counters that  *)
(*           the guards read are right (IInv).                             *)
(* pacer     A request that books must be as far behind all others as      *)
(*           behind the last one: nextLaunch lies behind every booking by  *)
(*           that one's interval (AllBehind), and was set by somebody      *)
(*           (SomebodyAhead).                                              *)
(* manual    The state of the rotation is always that of one saved         *)
(*           configuration (ActiveState), because an older one changes     *)
(*           nothing and a newer one replaces list, mode and revision      *)
(*           together; the cursor counts the turns taken (CursorState).    *)
(* clients   The cache never forgets a client, and gives nobody another.   *)
(* shutdown  The store is closed behind both servers (ClosedLast), and a   *)
(*           server that has stopped runs no request (StoppedIsIdle).      *)
(* test      What was written and what is in the channel, one behind the   *)
(*           other, are the events of the test in order (InOrder).         *)
(*                                                                         *)
(* In the end: a behaviour of Parts is one of each part.                   *)
(***************************************************************************)
EXTENDS Parts, FiniteSetTheorems, SequenceTheorems, TLAPS

-----------------------------------------------------------------------------
(* The admission queue (GlobalQueue)                                       *)

HoldersUpTo(m) == {r \in Holders : limits[r].max <= m}
WaitingUpTo(m) == {r \in Waiting : limits[r].size <= m}

(* The two limits for every number, as the induction needs them.           *)
LimitInv == \A m \in Nat : Cardinality(HoldersUpTo(m)) <= m
QueueLimitInv == \A m \in Nat : Cardinality(WaitingUpTo(m)) <= m

IInv == TypeOK /\ SlotAccounting /\ LimitInv /\ QueueLimitInv /\ NoLostWakeup

(* A set of requests is finite and its size a natural number.              *)
LEMMA RequestSets ==
    ASSUME NEW S \in SUBSET Requests
    PROVE  IsFiniteSet(S) /\ Cardinality(S) \in Nat
  <1>1. IsFiniteSet(S)
    BY RequestsAssumption, FS_Subset
  <1> QED
    BY <1>1, FS_CardinalityType

(* A set of requests whose members with a limit up to m number at most m   *)
(* for every m keeps that when its size afterwards respects the limit of   *)
(* the request that joins it.                                              *)
LEMMA JoiningKeepsLimit ==
    ASSUME NEW S \in SUBSET Requests, NEW r \in Requests \ S,
           NEW lim \in [Requests -> Nat],
           \A m \in Nat : Cardinality({x \in S : lim[x] <= m}) <= m,
           Cardinality(S) < lim[r]
    PROVE  \A m \in Nat : Cardinality({x \in S \cup {r} : lim[x] <= m}) <= m
  <1> SUFFICES ASSUME NEW m \in Nat
               PROVE  Cardinality({x \in S \cup {r} : lim[x] <= m}) <= m
    OBVIOUS
  <1> DEFINE T == {x \in S \cup {r} : lim[x] <= m}
  <1>0. lim[r] \in Nat
    OBVIOUS
  <1>1. CASE lim[r] <= m
    <2>1. Cardinality(S \cup {r}) = Cardinality(S) + 1
      BY RequestSets, FS_AddElement
    <2>2. Cardinality(T) <= Cardinality(S \cup {r})
      <3>1. IsFiniteSet(S \cup {r}) /\ T \in SUBSET (S \cup {r})
        BY RequestSets
      <3> QED
        BY <3>1, FS_Subset
    <2>3. Cardinality(S) \in Nat /\ Cardinality(T) \in Nat
      BY RequestSets
    <2> QED
      BY <1>0, <1>1, <2>1, <2>2, <2>3
  <1>2. CASE ~(lim[r] <= m)
    <2>1. T = {x \in S : lim[x] <= m}
      BY <1>2
    <2> QED
      BY <2>1
  <1> QED
    BY <1>1, <1>2

(* A subset of a set of at most m requests has at most m elements.         *)
LEMMA LeavingKeepsLimit ==
    ASSUME NEW A \in SUBSET Requests, NEW B \in SUBSET A, NEW m \in Nat, Cardinality(A) <= m
    PROVE  Cardinality(B) <= m
  <1>1. Cardinality(B) <= Cardinality(A)
    BY RequestSets, FS_Subset
  <1>2. Cardinality(A) \in Nat /\ Cardinality(B) \in Nat
    BY RequestSets
  <1> QED
    BY <1>1, <1>2

(* The limits of a type-correct state are numbers.                         *)
LEMMA LimitTypes ==
    ASSUME TypeOK
    PROVE  /\ \A r \in Requests : limits[r].max \in Nat /\ limits[r].size \in Nat
           /\ [r \in Requests |-> limits[r].max] \in [Requests -> Nat]
           /\ [r \in Requests |-> limits[r].size] \in [Requests -> Nat]
  BY ConfigsAssumption DEF TypeOK, ConfigType

-----------------------------------------------------------------------------
(* How each step changes the set of holders and the set of waiters, and    *)
(* that it changes the limits of neither.                                  *)
SameHolders == Holders' = Holders
SameWaiting == Waiting' = Waiting
SameLimits == limits' = limits

LEMMA Movement ==
    ASSUME TypeOK, NEW r \in Requests
    PROVE  /\ Arrive(r) => /\ SameHolders /\ SameWaiting
                           /\ r \notin Holders \cup Waiting
                           /\ \A x \in Requests \ {r} : limits'[x] = limits[x]
           /\ PassUnlimited(r) => SameHolders /\ SameWaiting
           /\ TakeSlot(r) => Holders' = Holders \cup {r} /\ r \notin Holders /\ SameWaiting
           /\ JoinQueue(r) => Waiting' = Waiting \cup {r} /\ r \notin Waiting /\ SameHolders
           /\ RefuseFull(r) => SameHolders /\ SameWaiting
           /\ WakeAdmitted(r) => /\ Holders' = Holders \cup {r} /\ r \notin Holders
                                 /\ Waiting' = Waiting \ {r} /\ r \in Waiting
           /\ WakeAgain(r) => SameHolders /\ SameWaiting
           /\ GiveUp(r) => Waiting' = Waiting \ {r} /\ r \in Waiting /\ SameHolders
           /\ consumeQueuePeak(r) => SameHolders /\ SameWaiting
           /\ Release(r) /\ limits[r].max = 0 => SameHolders /\ SameWaiting
           /\ Release(r) /\ limits[r].max # 0 =>
                  Holders' = Holders \ {r} /\ r \in Holders /\ SameWaiting
  <1> USE LimitTypes DEF TypeOK, Goto, Holders, Admitted, Waiting, SameHolders, SameWaiting
  <1>1. Arrive(r) => /\ SameHolders /\ SameWaiting
                     /\ r \notin Holders \cup Waiting
                     /\ \A x \in Requests \ {r} : limits'[x] = limits[x]
    BY DEF Arrive
  <1>2. PassUnlimited(r) => SameHolders /\ SameWaiting
    BY DEF PassUnlimited
  <1>3. TakeSlot(r) => Holders' = Holders \cup {r} /\ r \notin Holders /\ SameWaiting
    BY DEF TakeSlot
  <1>4. JoinQueue(r) => Waiting' = Waiting \cup {r} /\ r \notin Waiting /\ SameHolders
    BY DEF JoinQueue
  <1>5. RefuseFull(r) => SameHolders /\ SameWaiting
    BY DEF RefuseFull
  <1>6. WakeAdmitted(r) => /\ Holders' = Holders \cup {r} /\ r \notin Holders
                           /\ Waiting' = Waiting \ {r} /\ r \in Waiting
    BY DEF WakeAdmitted
  <1>7. WakeAgain(r) => SameHolders /\ SameWaiting
    BY DEF WakeAgain
  <1>8. GiveUp(r) => Waiting' = Waiting \ {r} /\ r \in Waiting /\ SameHolders
    BY DEF GiveUp
  <1>9. consumeQueuePeak(r) => SameHolders /\ SameWaiting
    BY DEF consumeQueuePeak
  <1>10. Release(r) /\ limits[r].max = 0 => SameHolders /\ SameWaiting
    BY DEF Release
  <1>11. Release(r) /\ limits[r].max # 0 =>
             Holders' = Holders \ {r} /\ r \in Holders /\ SameWaiting
    BY DEF Release
  <1> QED
    BY <1>1, <1>2, <1>3, <1>4, <1>5, <1>6, <1>7, <1>8, <1>9, <1>10, <1>11

-----------------------------------------------------------------------------
LEMMA InitIInv == Init => IInv
  <1> SUFFICES ASSUME Init PROVE IInv
    OBVIOUS
  <1>1. TypeOK
    BY ConfigsAssumption DEF Init, TypeOK, Stages
  <1>2. Holders = {} /\ Waiting = {}
    BY DEF Init, Holders, Admitted, Waiting
  <1>3. SlotAccounting
    BY <1>2, FS_EmptySet DEF Init, SlotAccounting
  <1>4. \A m \in Nat : HoldersUpTo(m) = {} /\ WaitingUpTo(m) = {}
    BY <1>2 DEF HoldersUpTo, WaitingUpTo
  <1>5. LimitInv /\ QueueLimitInv
    BY <1>4, FS_EmptySet DEF LimitInv, QueueLimitInv
  <1>6. NoLostWakeup
    BY <1>2 DEF NoLostWakeup
  <1> QED
    BY <1>1, <1>3, <1>5, <1>6 DEF IInv

(* The counters stay right.                                                *)
LEMMA AccountingStep ==
    ASSUME TypeOK, SlotAccounting, [Next]_vars
    PROVE  SlotAccounting'
  <1>0. /\ Holders \in SUBSET Requests /\ Waiting \in SUBSET Requests
        /\ IsFiniteSet(Holders) /\ IsFiniteSet(Waiting)
        /\ Cardinality(Holders) \in Nat /\ Cardinality(Waiting) \in Nat
    BY RequestSets DEF Holders, Admitted, Waiting
  <1> USE <1>0 DEF SlotAccounting, SameHolders, SameWaiting
  <1>1. ASSUME NEW c \in Configs, SaveConfig(c) PROVE SlotAccounting'
    <2>1. SameHolders /\ SameWaiting
      BY <1>1 DEF SaveConfig, Holders, Admitted, Waiting
    <2> QED
      BY <1>1, <2>1 DEF SaveConfig
  <1>2. ASSUME NEW r \in Requests, Arrive(r) PROVE SlotAccounting'
    BY <1>2, Movement DEF Arrive
  <1>3. ASSUME NEW r \in Requests, PassUnlimited(r) PROVE SlotAccounting'
    BY <1>3, Movement DEF PassUnlimited
  <1>4. ASSUME NEW r \in Requests, TakeSlot(r) PROVE SlotAccounting'
    BY <1>4, Movement, FS_AddElement DEF TakeSlot
  <1>5. ASSUME NEW r \in Requests, JoinQueue(r) PROVE SlotAccounting'
    BY <1>5, Movement, FS_AddElement DEF JoinQueue
  <1>6. ASSUME NEW r \in Requests, RefuseFull(r) PROVE SlotAccounting'
    BY <1>6, Movement DEF RefuseFull
  <1>7. ASSUME NEW r \in Requests, WakeAdmitted(r) PROVE SlotAccounting'
    BY <1>7, Movement, FS_AddElement, FS_RemoveElement DEF WakeAdmitted
  <1>8. ASSUME NEW r \in Requests, WakeAgain(r) PROVE SlotAccounting'
    BY <1>8, Movement DEF WakeAgain
  <1>9. ASSUME NEW r \in Requests, GiveUp(r) PROVE SlotAccounting'
    BY <1>9, Movement, FS_RemoveElement DEF GiveUp
  <1>10. ASSUME NEW r \in Requests, consumeQueuePeak(r) PROVE SlotAccounting'
    BY <1>10, Movement DEF consumeQueuePeak
  <1>11. ASSUME NEW r \in Requests, Release(r) PROVE SlotAccounting'
    <2>1. CASE limits[r].max = 0
      BY <1>11, <2>1, Movement DEF Release
    <2>2. CASE limits[r].max # 0
      <3>1. Holders' = Holders \ {r} /\ r \in Holders /\ SameWaiting
        BY <1>11, <2>2, Movement
      <3>2. Cardinality(Holders') = Cardinality(Holders) - 1
        BY <3>1, FS_RemoveElement
      <3>3. Cardinality(Holders) # 0
        BY <3>1, FS_EmptySet
      <3> QED
        BY <1>11, <2>2, <3>1, <3>2, <3>3 DEF Release
    <2> QED
      BY <2>1, <2>2
  <1>12. CASE UNCHANGED vars
    BY <1>12 DEF vars, Holders, Admitted, Waiting
  <1> QED
    BY <1>1, <1>2, <1>3, <1>4, <1>5, <1>6, <1>7, <1>8, <1>9, <1>10, <1>11, <1>12
       DEF Next, acquireGlobalSlot

(* With the counters right before and after, they are natural numbers.     *)
LEMMA TypeStep ==
    ASSUME TypeOK, SlotAccounting, [Next]_vars
    PROVE  TypeOK'
  <1>1. globalRunning' \in Nat /\ globalQueued' \in Nat
    <2>1. SlotAccounting'
      BY AccountingStep
    <2>2. Holders' \in SUBSET Requests /\ Waiting' \in SUBSET Requests
      BY DEF Holders, Admitted, Waiting
    <2> QED
      BY <2>1, <2>2, RequestSets DEF SlotAccounting
  <1>2. config' \in Configs /\ limits' \in [Requests -> Configs]
    BY DEF TypeOK, Next, vars, acquireGlobalSlot, SaveConfig, Arrive, PassUnlimited, TakeSlot,
           JoinQueue, RefuseFull, WakeAdmitted, WakeAgain, GiveUp, consumeQueuePeak, Release
  <1>3. stage' \in [Requests -> Stages]
    BY DEF TypeOK, Next, vars, acquireGlobalSlot, SaveConfig, Arrive, PassUnlimited, TakeSlot,
           JoinQueue, RefuseFull, WakeAdmitted, WakeAgain, GiveUp, consumeQueuePeak, Release,
           Goto, Stages
  <1>4. notified' \in SUBSET Requests
    BY DEF TypeOK, Next, vars, acquireGlobalSlot, SaveConfig, Arrive, PassUnlimited, TakeSlot,
           JoinQueue, RefuseFull, WakeAdmitted, WakeAgain, GiveUp, consumeQueuePeak, Release,
           signalGlobalQueue, Waiting
  <1>5. queuePeak' \in Nat
    <2>1. ASSUME NEW r \in Requests, JoinQueue(r) PROVE queuePeak' \in Nat
      BY <2>1 DEF TypeOK, JoinQueue, observeQueuePeak
    <2> QED
      BY <2>1
       DEF TypeOK, Next, vars, acquireGlobalSlot, SaveConfig, Arrive, PassUnlimited, TakeSlot,
           RefuseFull, WakeAdmitted, WakeAgain, GiveUp, consumeQueuePeak, Release
  <1> QED
    BY <1>1, <1>2, <1>3, <1>4, <1>5 DEF TypeOK

(* No step lets a waiter sleep while its limit is not reached: only a      *)
(* step that closes the channel lowers globalRunning.                      *)
LEMMA WakeupStep ==
    ASSUME TypeOK, NoLostWakeup, [Next]_vars
    PROVE  NoLostWakeup'
  <1> USE LimitTypes DEF NoLostWakeup, TypeOK
  <1>1. ASSUME NEW c \in Configs, SaveConfig(c) PROVE NoLostWakeup'
    BY <1>1 DEF SaveConfig, Waiting
  <1>2. ASSUME NEW r \in Requests, Arrive(r) PROVE NoLostWakeup'
    BY <1>2 DEF Arrive, Waiting, Goto
  <1>3. ASSUME NEW r \in Requests, PassUnlimited(r) \/ RefuseFull(r) \/ consumeQueuePeak(r)
        PROVE  NoLostWakeup'
    BY <1>3 DEF PassUnlimited, RefuseFull, consumeQueuePeak, Waiting, Goto
  <1>4. ASSUME NEW r \in Requests, TakeSlot(r) PROVE NoLostWakeup'
    BY <1>4 DEF TakeSlot, Waiting, Goto
  <1>5. ASSUME NEW r \in Requests, JoinQueue(r) PROVE NoLostWakeup'
    BY <1>5 DEF JoinQueue, Waiting, Goto
  <1>6. ASSUME NEW r \in Requests, WakeAdmitted(r) PROVE NoLostWakeup'
    BY <1>6 DEF WakeAdmitted, Waiting, Goto
  <1>7. ASSUME NEW r \in Requests, WakeAgain(r) PROVE NoLostWakeup'
    BY <1>7 DEF WakeAgain, Waiting
  <1>8. ASSUME NEW r \in Requests, GiveUp(r) PROVE NoLostWakeup'
    BY <1>8 DEF GiveUp, signalGlobalQueue, Waiting, Goto
  <1>9. ASSUME NEW r \in Requests, Release(r) PROVE NoLostWakeup'
    BY <1>9 DEF Release, signalGlobalQueue, Waiting, Goto
  <1>10. CASE UNCHANGED vars
    BY <1>10 DEF vars, Waiting
  <1> QED
    BY <1>1, <1>2, <1>3, <1>4, <1>5, <1>6, <1>7, <1>8, <1>9, <1>10 DEF Next, acquireGlobalSlot

(* A step that moves nobody in or out keeps the limits: it does not change *)
(* the limits of anyone inside.                                            *)
LEMMA StayingKeepsLimits ==
    ASSUME TypeOK, LimitInv, QueueLimitInv, SameHolders, SameWaiting,
           \A x \in Holders \cup Waiting : limits'[x] = limits[x]
    PROVE  LimitInv' /\ QueueLimitInv'
  <1>1. \A m \in Nat : HoldersUpTo(m)' = HoldersUpTo(m) /\ WaitingUpTo(m)' = WaitingUpTo(m)
    BY DEF HoldersUpTo, WaitingUpTo, SameHolders, SameWaiting
  <1> QED
    BY <1>1 DEF LimitInv, QueueLimitInv

(* Only a request that sees globalRunning below its limit joins the        *)
(* holders, only one that sees globalQueued below its size the waiters.    *)
LEMMA LimitStep ==
    ASSUME TypeOK, SlotAccounting, LimitInv, QueueLimitInv, [Next]_vars
    PROVE  LimitInv' /\ QueueLimitInv'
  <1> DEFINE max == [r \in Requests |-> limits[r].max]
             size == [r \in Requests |-> limits[r].size]
  <1>0. /\ Holders \in SUBSET Requests /\ Waiting \in SUBSET Requests
        /\ max \in [Requests -> Nat] /\ size \in [Requests -> Nat]
        /\ \A m \in Nat : /\ HoldersUpTo(m) = {x \in Holders : max[x] <= m}
                          /\ WaitingUpTo(m) = {x \in Waiting : size[x] <= m}
    BY LimitTypes DEF Holders, Admitted, Waiting, HoldersUpTo, WaitingUpTo
  <1>a. ASSUME SameLimits
        PROVE  \A m \in Nat : /\ HoldersUpTo(m)' = {x \in Holders' : max[x] <= m}
                             /\ WaitingUpTo(m)' = {x \in Waiting' : size[x] <= m}
    BY <1>a DEF SameLimits, HoldersUpTo, WaitingUpTo, Holders, Admitted, Waiting
  <1>b. ASSUME SameLimits, NEW r \in Requests,
               Holders' = Holders \cup {r}, r \notin Holders, globalRunning < limits[r].max
        PROVE  LimitInv'
    <2>1. Cardinality(Holders) < max[r]
      BY <1>b DEF SlotAccounting
    <2>2. \A m \in Nat : Cardinality({x \in Holders : max[x] <= m}) <= m
      BY <1>0 DEF LimitInv
    <2>3. \A m \in Nat : Cardinality({x \in Holders \cup {r} : max[x] <= m}) <= m
      BY <1>0, <1>b, <2>1, <2>2, JoiningKeepsLimit
    <2> QED
      BY <1>a, <1>b, <2>3 DEF LimitInv
  <1>c. ASSUME SameLimits, NEW r \in Requests,
               Waiting' = Waiting \cup {r}, r \notin Waiting, globalQueued < limits[r].size
        PROVE  QueueLimitInv'
    <2>1. Cardinality(Waiting) < size[r]
      BY <1>c DEF SlotAccounting
    <2>2. \A m \in Nat : Cardinality({x \in Waiting : size[x] <= m}) <= m
      BY <1>0 DEF QueueLimitInv
    <2>3. \A m \in Nat : Cardinality({x \in Waiting \cup {r} : size[x] <= m}) <= m
      BY <1>0, <1>c, <2>1, <2>2, JoiningKeepsLimit
    <2> QED
      BY <1>a, <1>c, <2>3 DEF QueueLimitInv
  <1>d. ASSUME SameLimits, Holders' \in SUBSET Holders
        PROVE  LimitInv'
    <2>1. ASSUME NEW m \in Nat PROVE Cardinality(HoldersUpTo(m)') <= m
      <3>1. HoldersUpTo(m) \in SUBSET Requests /\ HoldersUpTo(m)' \in SUBSET HoldersUpTo(m)
        BY <1>0, <1>a, <1>d
      <3>2. Cardinality(HoldersUpTo(m)) <= m
        BY DEF LimitInv
      <3> QED
        BY <3>1, <3>2, LeavingKeepsLimit
    <2> QED
      BY <2>1 DEF LimitInv
  <1>e. ASSUME SameLimits, Waiting' \in SUBSET Waiting
        PROVE  QueueLimitInv'
    <2>1. ASSUME NEW m \in Nat PROVE Cardinality(WaitingUpTo(m)') <= m
      <3>1. WaitingUpTo(m) \in SUBSET Requests /\ WaitingUpTo(m)' \in SUBSET WaitingUpTo(m)
        BY <1>0, <1>a, <1>e
      <3>2. Cardinality(WaitingUpTo(m)) <= m
        BY DEF QueueLimitInv
      <3> QED
        BY <3>1, <3>2, LeavingKeepsLimit
    <2> QED
      BY <2>1 DEF QueueLimitInv
  <1> USE DEF SameHolders, SameWaiting, SameLimits
  <1>1. ASSUME NEW c \in Configs, SaveConfig(c) PROVE LimitInv' /\ QueueLimitInv'
    BY <1>1, StayingKeepsLimits DEF SaveConfig, Holders, Admitted, Waiting
  <1>2. ASSUME NEW r \in Requests, Arrive(r) PROVE LimitInv' /\ QueueLimitInv'
    BY <1>0, <1>2, Movement, StayingKeepsLimits
  <1>3. ASSUME NEW r \in Requests,
               \/ PassUnlimited(r) \/ RefuseFull(r) \/ WakeAgain(r) \/ consumeQueuePeak(r)
        PROVE  LimitInv' /\ QueueLimitInv'
    <2>1. SameHolders /\ SameWaiting
      BY <1>3, Movement
    <2>2. SameLimits
      BY <1>3 DEF PassUnlimited, RefuseFull, WakeAgain, consumeQueuePeak
    <2> QED
      BY <2>1, <2>2, StayingKeepsLimits
  <1>4. ASSUME NEW r \in Requests, TakeSlot(r) PROVE LimitInv' /\ QueueLimitInv'
    <2>1. Holders' = Holders \cup {r} /\ r \notin Holders /\ SameWaiting
      BY <1>4, Movement
    <2>2. SameLimits /\ globalRunning < limits[r].max
      BY <1>4 DEF TakeSlot
    <2> QED
      BY <1>b, <1>e, <2>1, <2>2
  <1>5. ASSUME NEW r \in Requests, JoinQueue(r) PROVE LimitInv' /\ QueueLimitInv'
    <2>1. Waiting' = Waiting \cup {r} /\ r \notin Waiting /\ SameHolders
      BY <1>5, Movement
    <2>2. SameLimits /\ globalQueued < limits[r].size
      BY <1>5 DEF JoinQueue
    <2> QED
      BY <1>c, <1>d, <2>1, <2>2
  <1>6. ASSUME NEW r \in Requests, WakeAdmitted(r) PROVE LimitInv' /\ QueueLimitInv'
    <2>1. Holders' = Holders \cup {r} /\ r \notin Holders /\ Waiting' \in SUBSET Waiting
      BY <1>6, Movement
    <2>2. SameLimits /\ globalRunning < limits[r].max
      BY <1>6 DEF WakeAdmitted
    <2> QED
      BY <1>b, <1>e, <2>1, <2>2
  <1>7. ASSUME NEW r \in Requests, GiveUp(r) \/ Release(r) PROVE LimitInv' /\ QueueLimitInv'
    <2>1. Holders' \in SUBSET Holders /\ Waiting' \in SUBSET Waiting
      BY <1>7, Movement
    <2>2. SameLimits
      BY <1>7 DEF GiveUp, Release
    <2> QED
      BY <1>d, <1>e, <2>1, <2>2
  <1>8. CASE UNCHANGED vars
    BY <1>8, StayingKeepsLimits DEF vars, Holders, Admitted, Waiting
  <1> QED
    BY <1>1, <1>2, <1>3, <1>4, <1>5, <1>6, <1>7, <1>8 DEF Next, acquireGlobalSlot

-----------------------------------------------------------------------------
(* The invariant holds in every reachable state.                           *)
THEOREM Invariance == Spec => []IInv
  <1>1. IInv /\ [Next]_vars => IInv'
    BY AccountingStep, TypeStep, WakeupStep, LimitStep DEF IInv
  <1> QED
    BY InitIInv, <1>1, PTL DEF Spec

(* The state of the admission control is well formed; in particular the    *)
(* counters never become negative.                                         *)
THEOREM TypeCorrect == Spec => []TypeOK
  BY Invariance, PTL DEF IInv

(* globalRunning and globalQueued count the requests that hold a slot and  *)
(* those that wait, whatever limits the requests arrived under.            *)
THEOREM SlotsAccounted == Spec => []SlotAccounting
  BY Invariance, PTL DEF IInv

(* No set of requests admitted under a limit of m or less exceeds m.       *)
THEOREM LimitsRespected == Spec => []LimitRespected
  <1>1. IInv => LimitRespected
    <2>1. Cardinality(Requests) \in Nat
      BY RequestSets
    <2> QED
      BY <2>1 DEF IInv, LimitInv, HoldersUpTo, LimitRespected
  <1> QED
    BY Invariance, <1>1, PTL

(* Nor do the waiters exceed the queue size they were admitted under.      *)
THEOREM QueueLimitsRespected == Spec => []QueueLimitRespected
  <1>1. IInv => QueueLimitRespected
    <2>1. Cardinality(Requests) \in Nat
      BY RequestSets
    <2> QED
      BY <2>1 DEF IInv, QueueLimitInv, WaitingUpTo, QueueLimitRespected
  <1> QED
    BY Invariance, <1>1, PTL

(* A waiter on an open channel has seen its limit reached, and it still is. *)
THEOREM NoWakeupLost == Spec => []NoLostWakeup
  BY Invariance, PTL DEF IInv

(* The admission control does all of this together: no place leaked or     *)
(* given twice, no limit exceeded, no waiter forgotten.                    *)
THEOREM AdmissionIsSafe == Spec => []AdmissionSafe
  <1>1. SlotAccounting /\ LimitRespected /\ QueueLimitRespected /\ NoLostWakeup
            => AdmissionSafe
    BY DEF AdmissionSafe
  <1> QED
    BY <1>1, SlotsAccounted, LimitsRespected, QueueLimitsRespected, NoWakeupLost, PTL

-----------------------------------------------------------------------------
(* The room counts the way the program does.                               *)
LEMMA RoomCardinality == \A S : Room!Cardinality(S) = Cardinality(S)
  BY DEF Room!Cardinality, Cardinality

(* Where a request is in the room, and what a move of it changes there.    *)
LEMMA PlaceMap ==
    ASSUME TypeOK
    PROVE  /\ Room!Seated = Holders
           /\ Room!Queueing = Waiting
  <1>1. ASSUME NEW r \in Requests
        PROVE  /\ Place[r] = "room" <=> stage[r] \in {"running", "sampled"}
               /\ Place[r] = "queue" <=> stage[r] = "waiting"
    <2>1. Place[r] = PlaceOf[stage[r]] /\ stage[r] \in Stages
      BY DEF TypeOK, Place
    <2> QED
      BY <2>1 DEF Stages, PlaceOf
  <1>2. Room!Seated = {r \in Requests : stage[r] \in {"running", "sampled"} /\ limits[r].max > 0}
    BY <1>1 DEF Room!Seated
  <1>3. Room!Queueing = {r \in Requests : stage[r] = "waiting"}
    BY <1>1 DEF Room!Queueing
  <1> QED
    BY <1>2, <1>3 DEF Holders, Admitted, Waiting

LEMMA PlaceMove ==
    ASSUME TypeOK, NEW r \in Requests, NEW s \in Stages, Goto(r, s)
    PROVE  /\ Place[r] = PlaceOf[stage[r]]
           /\ Place' = [Place EXCEPT ![r] = PlaceOf[s]]
           /\ r \in DOMAIN Place
  <1>1. Place = [x \in Requests |-> PlaceOf[stage[x]]]
    BY DEF Place
  <1>2. Place' = [x \in Requests |-> PlaceOf[stage'[x]]]
    BY DEF Place
  <1>3. \A x \in Requests : stage'[x] = IF x = r THEN s ELSE stage[x]
    BY DEF Goto, TypeOK
  <1>4. Place' = [x \in Requests |-> IF x = r THEN PlaceOf[s] ELSE PlaceOf[stage[x]]]
    BY <1>2, <1>3
  <1>5. [Place EXCEPT ![r] = PlaceOf[s]] =
           [x \in Requests |-> IF x = r THEN PlaceOf[s] ELSE PlaceOf[stage[x]]]
    BY <1>1
  <1> QED
    BY <1>1, <1>4, <1>5

(* Each step of the program is one of the room's, or leaves it alone: the  *)
(* guards on the counters are the room's conditions because the counters   *)
(* are right.                                                              *)
LEMMA RoomStep ==
    ASSUME IInv, [Next]_vars
    PROVE  [Room!Next]_<<Place, limits>>
  <1>0. /\ TypeOK /\ SlotAccounting
        /\ Room!Seated = Holders /\ Room!Queueing = Waiting
        /\ \A r \in Requests : limits[r].max \in Nat /\ limits[r].size \in Nat
        /\ globalRunning \in Nat /\ globalQueued \in Nat
    BY PlaceMap, LimitTypes DEF IInv, TypeOK
  <1>f. ASSUME NEW r \in Requests
        PROVE  /\ Room!FullFor(r) <=> limits[r].max > 0 /\ globalRunning >= limits[r].max
               /\ Room!QueueFullFor(r) <=> globalQueued >= limits[r].size
    BY <1>0, RoomCardinality DEF SlotAccounting, Room!FullFor, Room!QueueFullFor
  <1>m. \A r \in Requests, s \in Stages :
            Goto(r, s) => Room!Move(r, PlaceOf[stage[r]], PlaceOf[s])
    BY <1>0, PlaceMove DEF Room!Move
  <1>1. ASSUME NEW c \in Configs, SaveConfig(c) PROVE UNCHANGED <<Place, limits>>
    BY <1>1 DEF SaveConfig, Place
  <1>2. ASSUME NEW r \in Requests, Arrive(r) PROVE Room!Come(r)
    <2>1. Room!Move(r, "out", "door")
      BY <1>2, <1>m DEF Arrive, Stages, PlaceOf
    <2> QED
      BY <1>0, <1>2, <2>1 DEF Arrive, Room!Come, TypeOK
  <1>3. ASSUME NEW r \in Requests, PassUnlimited(r) PROVE Room!Enter(r)
    <2>1. Room!Move(r, "door", "room")
      BY <1>3, <1>m DEF PassUnlimited, Stages, PlaceOf
    <2> QED
      BY <1>0, <1>f, <1>3, <2>1 DEF PassUnlimited, Room!Enter
  <1>4. ASSUME NEW r \in Requests, TakeSlot(r) PROVE Room!Enter(r)
    <2>1. Room!Move(r, "door", "room")
      BY <1>4, <1>m DEF TakeSlot, Stages, PlaceOf
    <2> QED
      BY <1>0, <1>f, <1>4, <2>1 DEF TakeSlot, Room!Enter
  <1>5. ASSUME NEW r \in Requests, JoinQueue(r) PROVE Room!Queue(r)
    <2>1. Room!Move(r, "door", "queue")
      BY <1>5, <1>m DEF JoinQueue, Stages, PlaceOf
    <2> QED
      BY <1>0, <1>f, <1>5, <2>1 DEF JoinQueue, Room!Queue
  <1>6. ASSUME NEW r \in Requests, RefuseFull(r) PROVE Room!TurnedAway(r)
    <2>1. Room!Move(r, "door", "out")
      BY <1>6, <1>m DEF RefuseFull, Stages, PlaceOf
    <2> QED
      BY <1>0, <1>f, <1>6, <2>1 DEF RefuseFull, Room!TurnedAway
  <1>7. ASSUME NEW r \in Requests, WakeAdmitted(r) PROVE Room!Called(r)
    <2>1. Room!Move(r, "queue", "room")
      BY <1>7, <1>m DEF WakeAdmitted, Stages, PlaceOf
    <2> QED
      BY <1>0, <1>f, <1>7, <2>1 DEF WakeAdmitted, Room!Called
  <1>8. ASSUME NEW r \in Requests, WakeAgain(r) PROVE UNCHANGED <<Place, limits>>
    BY <1>8 DEF WakeAgain, Place
  <1>9. ASSUME NEW r \in Requests, GiveUp(r) PROVE Room!GoHome(r)
    <2>1. Room!Move(r, "queue", "out")
      BY <1>9, <1>m DEF GiveUp, Stages, PlaceOf
    <2> QED
      BY <1>9, <2>1 DEF GiveUp, Room!GoHome
  <1>10. ASSUME NEW r \in Requests, consumeQueuePeak(r) PROVE UNCHANGED <<Place, limits>>
    <2>1. Goto(r, "sampled") /\ stage[r] = "running" /\ limits' = limits
      BY <1>10 DEF consumeQueuePeak
    <2>2. Place[r] = "room" /\ Place' = [Place EXCEPT ![r] = "room"]
      BY <1>0, <2>1, PlaceMove DEF Stages, PlaceOf
    <2>3. Place' = Place
      BY <2>2 DEF Place
    <2> QED
      BY <2>1, <2>3
  <1>11. ASSUME NEW r \in Requests, Release(r) PROVE Room!Leave(r)
    <2>1. Goto(r, "idle") /\ stage[r] \in {"running", "sampled"}
      BY <1>11 DEF Release, Admitted
    <2>2. Room!Move(r, "room", "out")
      BY <1>m, <2>1 DEF Stages, PlaceOf
    <2> QED
      BY <1>11, <2>2 DEF Release, Room!Leave
  <1>12. CASE UNCHANGED vars
    BY <1>12 DEF vars, Place
  <1> QED
    BY <1>1, <1>2, <1>3, <1>4, <1>5, <1>6, <1>7, <1>8, <1>9, <1>10, <1>11, <1>12
       DEF Next, acquireGlobalSlot, Room!Next

(* The admission control of the gateway, with its counters, notify         *)
(* channels and races, implements the room with seats and a queue.         *)
THEOREM ImplementsRoom == Spec => RoomSpec
  <1>1. Init => Room!Init
    BY ConfigsAssumption DEF Init, Room!Init, Place, PlaceOf
  <1> QED
    BY <1>1, Invariance, RoomStep, PTL DEF Spec, RoomSpec, Room!Spec

-----------------------------------------------------------------------------
(* The launch pacer                                                        *)
AllBehind == \A r \in Requests : Pacer!Booked(r) => slot[r] + pace[r] <= ahead

SomebodyAhead ==
    ahead # Pacer!Past => \E r \in Requests : Pacer!Booked(r) /\ slot[r] + pace[r] = ahead

PacerInv ==
    /\ Pacer!TypeOK
    /\ AllBehind
    /\ SomebodyAhead
    /\ Pacer!LaunchesPaced
    /\ Pacer!NoNeedlessWait

-----------------------------------------------------------------------------
LEMMA PacerInit == ASSUME MaxInterval \in Nat PROVE Pacer!Init => PacerInv
<1> SUFFICES ASSUME Pacer!Init PROVE PacerInv
    OBVIOUS
<1>1. Pacer!TypeOK
    BY DEF Pacer!Init, Pacer!TypeOK, Pacer!Stages, Pacer!Intervals, Pacer!Booked, Pacer!Forgotten, Pacer!Past
<1>2. \A r \in Requests : ~Pacer!Booked(r) /\ pacerStage[r] # "waiting"
    BY DEF Pacer!Init, Pacer!Booked
<1> QED
    BY <1>1, <1>2 DEF Pacer!Init, PacerInv, AllBehind, SomebodyAhead, Pacer!LaunchesPaced, Pacer!NoNeedlessWait

(* What TypeOK says of one request.                                        *)
LEMMA PacerValues ==
    ASSUME Pacer!TypeOK, NEW r \in Requests, MaxInterval \in Nat
    PROVE  /\ pace[r] \in Int
           /\ pace[r] >= 0
           /\ pace[r] <= MaxInterval
           /\ slot[r] \in Int
           /\ Pacer!Forgotten <= slot[r]
           /\ Pacer!Forgotten \in Int
           /\ ahead \in Int
           /\ ahead >= Pacer!Past
           /\ Pacer!Past = -1
           /\ Pacer!Forgotten = -(MaxInterval + 1)
BY DEF Pacer!TypeOK, Pacer!Intervals, Pacer!Past, Pacer!Forgotten

(* A step that books nothing and lets no time pass.                        *)
Steady ==
    /\ UNCHANGED <<slot, ahead>>
    /\ \A r \in Requests : Pacer!Booked(r)' = Pacer!Booked(r) /\ (Pacer!Booked(r) => pace'[r] = pace[r])
    /\ \A r \in Requests : pacerStage'[r] = "waiting" => pacerStage[r] = "waiting"

LEMMA SteadyKeeps ==
    ASSUME PacerInv, Steady, Pacer!TypeOK'
    PROVE  PacerInv'
<1>1. AllBehind'
    BY DEF PacerInv, Steady, AllBehind
<1>2. SomebodyAhead'
    BY DEF PacerInv, Steady, SomebodyAhead
<1>3. Pacer!LaunchesPaced'
    BY DEF PacerInv, Steady, Pacer!LaunchesPaced, Pacer!Before
<1>4. Pacer!NoNeedlessWait'
    BY DEF PacerInv, Steady, Pacer!NoNeedlessWait
<1> QED
    BY <1>1, <1>2, <1>3, <1>4 DEF PacerInv

(* A request takes the slot at, which no other reaches into.               *)
BookedAt(r, at) ==
    /\ pacerStage[r] = "admitted"
    /\ pace[r] > 0
    /\ pacerStage'[r] \in {"waiting", "launched"}
    /\ \A q \in Requests \ {r} : pacerStage'[q] = pacerStage[q]
    /\ slot' = [slot EXCEPT ![r] = at]
    /\ ahead' = at + pace[r]
    /\ pace' = pace

LEMMA BookingKeeps ==
    ASSUME PacerInv, Pacer!TypeOK', MaxInterval \in Nat, NEW r \in Requests, NEW at \in Int,
           BookedAt(r, at), at >= ahead, at # ahead => at <= 0
    PROVE  PacerInv'
<1>1. /\ slot'[r] = at /\ pace'[r] = pace[r] /\ Pacer!Booked(r)' /\ ~Pacer!Booked(r)
      /\ pace[r] \in Int /\ pace[r] > 0
      /\ ahead \in Int
      /\ ahead' = at + pace[r]
    BY PacerValues DEF PacerInv, BookedAt, Pacer!TypeOK, Pacer!Booked
<1>2. ASSUME NEW q \in Requests, q # r
      PROVE  slot'[q] = slot[q] /\ pace'[q] = pace[q] /\ pacerStage'[q] = pacerStage[q]
             /\ Pacer!Booked(q)' = Pacer!Booked(q)
    BY <1>2 DEF PacerInv, BookedAt, Pacer!TypeOK, Pacer!Booked
<1>3. ASSUME NEW q \in Requests, q # r, Pacer!Booked(q)
      PROVE  slot[q] + pace[q] <= at /\ slot[q] \in Int /\ pace[q] \in Int
    BY <1>1, <1>3, PacerValues DEF PacerInv, AllBehind
<1>4. AllBehind'
  <2> SUFFICES ASSUME NEW q \in Requests, Pacer!Booked(q)' PROVE slot'[q] + pace'[q] <= ahead'
      BY DEF AllBehind
  <2>1. CASE q = r
      BY <2>1, <1>1
  <2>2. CASE q # r
      BY <2>2, <1>1, <1>2, <1>3
  <2> QED
      BY <2>1, <2>2
<1>5. SomebodyAhead'
    BY <1>1 DEF SomebodyAhead
<1>6. Pacer!LaunchesPaced'
  <2> SUFFICES ASSUME NEW p \in Requests, NEW q \in Requests, p # q, Pacer!Booked(p)', Pacer!Booked(q)',
                      slot'[p] # Pacer!Forgotten, slot'[q] # Pacer!Forgotten
               PROVE  slot'[p] + pace'[p] <= slot'[q] \/ slot'[q] + pace'[q] <= slot'[p]
      BY DEF Pacer!LaunchesPaced, Pacer!Before, Pacer!Forgotten
  <2>1. CASE p = r
      BY <2>1, <1>1, <1>2, <1>3
  <2>2. CASE q = r
      BY <2>2, <1>1, <1>2, <1>3
  <2>3. CASE p # r /\ q # r
      BY <2>3, <1>2 DEF PacerInv, Pacer!LaunchesPaced, Pacer!Before
  <2> QED
      BY <2>1, <2>2, <2>3
<1>7. Pacer!NoNeedlessWait'
  <2> SUFFICES ASSUME NEW p \in Requests, pacerStage'[p] = "waiting", slot'[p] > 0
               PROVE  \E q \in Requests : Pacer!Booked(q)' /\ slot'[q] + pace'[q] = slot'[p]
      BY DEF Pacer!NoNeedlessWait
  <2>1. PICK q \in Requests : Pacer!Booked(q) /\ slot[q] + pace[q] = slot'[p]
    <3>1. CASE p = r
      <4>1. at = ahead /\ ahead # Pacer!Past
          BY <3>1, <1>1 DEF Pacer!Past
      <4> QED
          BY <3>1, <4>1, <1>1 DEF PacerInv, SomebodyAhead
    <3>2. CASE p # r
        BY <3>2, <1>2 DEF PacerInv, Pacer!NoNeedlessWait
    <3> QED
        BY <3>1, <3>2
  <2>2. q # r
      BY <2>1, <1>1
  <2> QED
      BY <2>1, <2>2, <1>2
<1> QED
    BY <1>4, <1>5, <1>6, <1>7 DEF PacerInv

-----------------------------------------------------------------------------
(* The actions, one by one                                                 *)
LEMMA PacerTypeKept ==
    ASSUME Pacer!TypeOK, MaxInterval \in Nat, [Pacer!Next]_Pacer!vars
    PROVE  Pacer!TypeOK'
<1> USE DEF Pacer!TypeOK, Pacer!Stages, Pacer!Intervals, Pacer!Booked, Pacer!Past, Pacer!Forgotten
<1>1. ASSUME NEW i \in Pacer!Intervals, Pacer!SaveGlobalConfig(i) PROVE Pacer!TypeOK'
    BY <1>1 DEF Pacer!SaveGlobalConfig
<1>2. ASSUME NEW r \in Requests, Pacer!Arrive(r) PROVE Pacer!TypeOK'
    BY <1>2 DEF Pacer!Arrive
<1>3. ASSUME NEW r \in Requests, Pacer!PassUnpaced(r) PROVE Pacer!TypeOK'
    BY <1>3 DEF Pacer!PassUnpaced
<1>4. ASSUME NEW r \in Requests, Pacer!LaunchNow(r) PROVE Pacer!TypeOK'
    BY <1>4 DEF Pacer!LaunchNow
<1>5. ASSUME NEW r \in Requests, Pacer!Book(r) PROVE Pacer!TypeOK'
  <2>1. ahead' \in Int /\ ahead' >= -1
      BY <1>5 DEF Pacer!Book
  <2>2. pacerStage' \in [Requests -> Pacer!Stages]
      BY <1>5 DEF Pacer!Book
  <2>3. /\ slot' \in [Requests -> Int]
        /\ \A q \in Requests : Pacer!Forgotten <= slot'[q] /\ (Pacer!Booked(q)' => pace'[q] > 0)
      BY <1>5 DEF Pacer!Book
  <2> QED
      BY <1>5, <2>1, <2>2, <2>3 DEF Pacer!Book
<1>6. ASSUME NEW r \in Requests, Pacer!Launch(r) PROVE Pacer!TypeOK'
    BY <1>6 DEF Pacer!Launch
<1>7. ASSUME NEW r \in Requests, Pacer!Cancel(r) PROVE Pacer!TypeOK'
    BY <1>7 DEF Pacer!Cancel
<1>8. CASE Pacer!Tick
    BY <1>8 DEF Pacer!Tick
<1>9. CASE UNCHANGED Pacer!vars
    BY <1>9 DEF Pacer!vars
<1> QED
    BY <1>1, <1>2, <1>3, <1>4, <1>5, <1>6, <1>7, <1>8, <1>9 DEF Pacer!Next

LEMMA TickKeeps ==
    ASSUME PacerInv, Pacer!TypeOK', MaxInterval \in Nat, Pacer!Tick
    PROVE  PacerInv'
<1>1. \A r \in Requests :
        /\ slot'[r] = IF slot[r] > Pacer!Forgotten THEN slot[r] - 1 ELSE Pacer!Forgotten
        /\ pace'[r] = pace[r] /\ pacerStage'[r] = pacerStage[r] /\ Pacer!Booked(r)' = Pacer!Booked(r)
    BY DEF Pacer!Tick, Pacer!Booked
<1>2. /\ ahead' = IF ahead > Pacer!Past THEN ahead - 1 ELSE Pacer!Past
      /\ ahead \in Int /\ ahead >= -1 /\ Pacer!Past = -1
    BY DEF Pacer!Tick, PacerInv, Pacer!TypeOK, Pacer!Past
<1>3. AllBehind'
  <2> SUFFICES ASSUME NEW r \in Requests, Pacer!Booked(r) PROVE slot'[r] + pace'[r] <= ahead'
      BY <1>1 DEF AllBehind
  <2>1. slot[r] + pace[r] <= ahead
      BY DEF PacerInv, AllBehind
  <2> QED
      BY <2>1, <1>1, <1>2, PacerValues DEF PacerInv
<1>4. SomebodyAhead'
  <2> SUFFICES ASSUME ahead' # Pacer!Past
               PROVE  \E r \in Requests : Pacer!Booked(r)' /\ slot'[r] + pace'[r] = ahead'
      BY DEF SomebodyAhead, Pacer!Past
  <2>1. ahead # Pacer!Past /\ ahead > 0
      BY <1>2
  <2>2. PICK r \in Requests : Pacer!Booked(r) /\ slot[r] + pace[r] = ahead
      BY <2>1 DEF PacerInv, SomebodyAhead
  <2>3. slot[r] > Pacer!Forgotten
      BY <2>1, <2>2, <1>2, PacerValues DEF PacerInv
  <2>4. slot'[r] + pace'[r] = ahead'
      BY <2>1, <2>2, <2>3, <1>1, <1>2, PacerValues DEF PacerInv
  <2> QED
      BY <2>2, <2>4, <1>1
<1>5. Pacer!LaunchesPaced'
  <2> SUFFICES ASSUME NEW p \in Requests, NEW q \in Requests, p # q, Pacer!Booked(p), Pacer!Booked(q),
                      slot'[p] # Pacer!Forgotten, slot'[q] # Pacer!Forgotten
               PROVE  slot'[p] + pace'[p] <= slot'[q] \/ slot'[q] + pace'[q] <= slot'[p]
      BY <1>1 DEF Pacer!LaunchesPaced, Pacer!Before, Pacer!Forgotten
  <2>1. slot'[p] = slot[p] - 1 /\ slot'[q] = slot[q] - 1
        /\ slot[p] # Pacer!Forgotten /\ slot[q] # Pacer!Forgotten
      BY <1>1, PacerValues DEF PacerInv
  <2>2. slot[p] + pace[p] <= slot[q] \/ slot[q] + pace[q] <= slot[p]
      BY <2>1 DEF PacerInv, Pacer!LaunchesPaced, Pacer!Before
  <2> QED
      BY <2>1, <2>2, <1>1, PacerValues DEF PacerInv
<1>6. Pacer!NoNeedlessWait'
  <2> SUFFICES ASSUME NEW p \in Requests, pacerStage[p] = "waiting", slot'[p] > 0
               PROVE  \E q \in Requests : Pacer!Booked(q)' /\ slot'[q] + pace'[q] = slot'[p]
      BY <1>1 DEF Pacer!NoNeedlessWait
  <2>1. slot'[p] = slot[p] - 1 /\ slot[p] > 0
      BY <1>1, PacerValues DEF PacerInv
  <2>2. PICK q \in Requests : Pacer!Booked(q) /\ slot[q] + pace[q] = slot[p]
      BY <2>1 DEF PacerInv, Pacer!NoNeedlessWait
  <2>3. slot'[q] + pace'[q] = slot'[p]
      BY <2>1, <2>2, <1>1, PacerValues DEF PacerInv
  <2> QED
      BY <2>2, <2>3, <1>1
<1> QED
    BY <1>3, <1>4, <1>5, <1>6 DEF PacerInv

LEMMA PacerKept ==
    ASSUME PacerInv, MaxInterval \in Nat, [Pacer!Next]_Pacer!vars
    PROVE  PacerInv'
<1>0. Pacer!TypeOK'
    BY PacerTypeKept DEF PacerInv
<1>1. ASSUME NEW i \in Pacer!Intervals, Pacer!SaveGlobalConfig(i) PROVE PacerInv'
  <2>1. Steady
      BY <1>1 DEF Pacer!SaveGlobalConfig, Steady, Pacer!Booked
  <2> QED
      BY <2>1, <1>0, SteadyKeeps
<1>2. ASSUME NEW r \in Requests, Pacer!Arrive(r) PROVE PacerInv'
  <2>1. Steady
      BY <1>2 DEF Pacer!Arrive, Steady, Pacer!Booked, PacerInv, Pacer!TypeOK
  <2> QED
      BY <2>1, <1>0, SteadyKeeps
<1>3. ASSUME NEW r \in Requests, Pacer!PassUnpaced(r) PROVE PacerInv'
  <2>1. Steady
      BY <1>3 DEF Pacer!PassUnpaced, Steady, Pacer!Booked, PacerInv, Pacer!TypeOK
  <2> QED
      BY <2>1, <1>0, SteadyKeeps
<1>4. ASSUME NEW r \in Requests, Pacer!LaunchNow(r) PROVE PacerInv'
  <2>1. BookedAt(r, 0) /\ 0 >= ahead
      BY <1>4, PacerValues DEF Pacer!LaunchNow, BookedAt, PacerInv, Pacer!TypeOK, Pacer!Past
  <2> QED
      BY <2>1, <1>0, BookingKeeps
<1>5. ASSUME NEW r \in Requests, Pacer!Book(r) PROVE PacerInv'
  <2>1. BookedAt(r, ahead) /\ ahead \in Int /\ ahead >= ahead
      BY <1>5 DEF Pacer!Book, BookedAt, PacerInv, Pacer!TypeOK
  <2> QED
      BY <2>1, <1>0, BookingKeeps
<1>6. ASSUME NEW r \in Requests, Pacer!Launch(r) PROVE PacerInv'
  <2>1. Steady
      BY <1>6 DEF Pacer!Launch, Steady, Pacer!Booked, PacerInv, Pacer!TypeOK
  <2> QED
      BY <2>1, <1>0, SteadyKeeps
<1>7. ASSUME NEW r \in Requests, Pacer!Cancel(r) PROVE PacerInv'
  <2>1. Steady
      BY <1>7 DEF Pacer!Cancel, Steady, Pacer!Booked, PacerInv, Pacer!TypeOK
  <2> QED
      BY <2>1, <1>0, SteadyKeeps
<1>8. CASE Pacer!Tick
    BY <1>8, <1>0, TickKeeps
<1>9. CASE UNCHANGED Pacer!vars
  <2>1. Steady
      BY <1>9 DEF Pacer!vars, Steady, Pacer!Booked
  <2> QED
      BY <2>1, <1>0, SteadyKeeps
<1> QED
    BY <1>1, <1>2, <1>3, <1>4, <1>5, <1>6, <1>7, <1>8, <1>9 DEF Pacer!Next

LEMMA PacerAlways == Pacer!Spec => []PacerInv
<1>1. Pacer!Init => PacerInv
    BY PacerInit, IntervalAssumption
<1>2. PacerInv /\ [Pacer!Next]_Pacer!vars => PacerInv'
    BY PacerKept, IntervalAssumption
<1> QED
    BY <1>1, <1>2, PTL DEF Pacer!Spec

-----------------------------------------------------------------------------
LEMMA PacerTyped == Pacer!Spec => []Pacer!TypeOK
<1>1. PacerInv => Pacer!TypeOK
    BY DEF PacerInv
<1> QED
    BY <1>1, PacerAlways, PTL

(* LaunchPacer.PaceKept: any two launches are the interval of the earlier  *)
(* one apart, however many requests there are, whatever intervals they     *)
(* read, whoever leaves and however late the timers are; and nobody waits  *)
(* for longer than the bookings before him require.                        *)
THEOREM PaceIsKept == Pacer!Spec => []PaceKept
<1>1. PacerInv => PaceKept
    BY DEF PacerInv, PaceKept, Pacer!PaceKept
<1> QED
    BY <1>1, PacerAlways, PTL

-----------------------------------------------------------------------------
(* The manual proxy list                                                   *)

IsList(s) == Len(s) \in Nat /\ DOMAIN s = 1..Len(s)

(* The lists a configuration can hold: as entered long ago, or canonical.  *)
SavedLists == Lists \cup {Manual!Parse(l) : l \in Lists}
SavedConfig == [list : SavedLists, mode : Manual!Modes]

ManualShape ==
    /\ configs \in Seq(SavedConfig)
    /\ holds \in [ManualRequests -> 0..Len(configs)]
    /\ active.revision \in 0..Len(configs)
    /\ active.mode \in Manual!Modes \cup {""}
    /\ turns \in [1..Len(active.urls) -> Nat]

ActiveState(a) ==
    /\ a.err = Manual!Invalid(a.source)
    /\ a.urls = IF a.err THEN <<>> ELSE Manual!Parse(a.source)
    /\ IsList(a.source)
    /\ a.revision = 0 => a.mode = ""
    /\ a.revision # 0 => /\ a.source = configs[a.revision].list
                         /\ a.mode = configs[a.revision].mode

CursorState(a, t) ==
    /\ a.next \in Nat
    /\ a.urls # <<>> => a.next < Len(a.urls)
    /\ a.mode = "round_robin" =>
           \A i \in 1..Len(a.urls) : t[i] = IF i <= a.next THEN 1 ELSE 0

IsActive(a) ==
    a = [revision |-> a.revision, source |-> a.source, mode |-> a.mode, urls |-> a.urls,
         err |-> a.err, next |-> a.next]

ManualInv == ManualShape /\ IsActive(active) /\ ActiveState(active) /\ CursorState(active, turns)

-----------------------------------------------------------------------------
(* Cardinality as ManualProxy has it is Cardinality.                       *)
LEMMA ManualCardinality == \A S : Manual!Cardinality(S) = Cardinality(S)
  <1>1. \A S : Manual!IsFiniteSet(S) = IsFiniteSet(S)
    BY DEF Manual!IsFiniteSet, IsFiniteSet
  <1> QED
    BY <1>1 DEF Manual!Cardinality, Cardinality

LEMMA ParseIsList ==
    ASSUME NEW list, IsList(list)
    PROVE  IsList(Manual!Parse(list))
  <1> DEFINE N == Cardinality(Manual!Kept(list))
             S == {Manual!Parse(list)[n] : n \in 1..N}
  <1>1. N \in Nat
    <2>1. IsFiniteSet(1..Len(list))
      BY FS_Interval DEF IsList
    <2>2. Manual!Kept(list) \in SUBSET (1..Len(list))
      BY DEF Manual!Kept, IsList
    <2>3. IsFiniteSet(Manual!Kept(list))
      BY <2>1, <2>2, FS_Subset
    <2> QED
      BY <2>3, FS_CardinalityType
  <1>2. DOMAIN Manual!Parse(list) = 1..N /\ Manual!Parse(list) = [n \in 1..N |-> Manual!Parse(list)[n]]
    BY ManualCardinality DEF Manual!Parse
  <1>3. Manual!Parse(list) \in [1..N -> S]
    BY <1>2
  <1> HIDE DEF N, S
  <1>4. Manual!Parse(list) \in Seq(S) /\ Len(Manual!Parse(list)) = N
    BY <1>1, <1>2, <1>3, SeqDef, LenProperties
  <1> QED
    BY <1>1, <1>2, <1>4 DEF IsList

LEMMA EmptyList == IsList(<<>>) /\ Len(<<>>) = 0 /\ Manual!Parse(<<>>) = <<>> /\ ~Manual!Invalid(<<>>)
  <1>1. IsList(<<>>) /\ Len(<<>>) = 0
    BY DEF IsList
  <1>2. Manual!Kept(<<>>) = {}
    BY DEF Manual!Kept
  <1>3. Cardinality(Manual!Kept(<<>>)) = 0
    BY <1>2, FS_EmptySet
  <1>4. DOMAIN Manual!Parse(<<>>) = {}
    BY <1>3, ManualCardinality DEF Manual!Parse
  <1>5. IsList(Manual!Parse(<<>>))
    BY <1>1, ParseIsList
  <1>6. Manual!Parse(<<>>) = <<>>
    BY <1>3, ManualCardinality DEF Manual!Parse
  <1> QED
    BY <1>1, <1>6 DEF Manual!Invalid

LEMMA ParseNotEmpty ==
    ASSUME NEW list, IsList(list), Manual!Parse(list) # <<>>
    PROVE  0 < Len(Manual!Parse(list))
  <1>1. IsList(Manual!Parse(list))
    BY ParseIsList
  <1>2. /\ DOMAIN Manual!Parse(list) = 1..Cardinality(Manual!Kept(list))
        /\ Manual!Parse(list) = [n \in DOMAIN Manual!Parse(list) |-> Manual!Parse(list)[n]]
    BY ManualCardinality DEF Manual!Parse
  <1>3. ASSUME Len(Manual!Parse(list)) = 0 PROVE FALSE
    <2>1. DOMAIN Manual!Parse(list) = {}
      BY <1>1, <1>3 DEF IsList
    <2>2. Manual!Parse(list) = <<>>
      BY <1>2, <2>1
    <2> QED
      BY <2>2
  <1> QED
    BY <1>1, <1>3 DEF IsList

LEMMA SavedAreLists == \A l \in SavedLists : IsList(l)
  <1>1. \A l \in Lists : IsList(l)
    BY ListsAssumption DEF IsList
  <1> QED
    BY <1>1, ParseIsList DEF SavedLists

-----------------------------------------------------------------------------
(* What an activation leads to: a saved configuration is active, with its  *)
(* cursor in the list, and the turns taken are those since list or mode    *)
(* changed last.                                                           *)
LEMMA Activation ==
    ASSUME ManualInv, NEW n \in 1..Len(configs)
    PROVE  /\ ActiveState(Manual!Activated(n))
           /\ CursorState(Manual!Activated(n), Manual!TurnsOf(n))
           /\ Manual!TurnsOf(n) \in [1..Len(Manual!Activated(n).urls) -> Nat]
           /\ Manual!Activated(n).revision \in 0..Len(configs)
           /\ Manual!Activated(n).mode \in Manual!Modes \cup {""}
           /\ n <= Manual!Activated(n).revision /\ active.revision <= Manual!Activated(n).revision
           /\ IsList(Manual!Activated(n).urls)
           /\ IsActive(Manual!Activated(n))
  <1> DEFINE c == configs[n]
             a == Manual!Activated(n)
  <1>1. Len(configs) \in Nat /\ c \in SavedConfig /\ n \in Nat
    <2>1. configs \in Seq(SavedConfig)
      BY DEF ManualInv, ManualShape
    <2>2. Len(configs) \in Nat /\ configs \in [1..Len(configs) -> SavedConfig]
      BY <2>1, LenProperties
    <2> QED
      BY <2>2
  <1>n. /\ Len(configs) \in Nat /\ n \in Nat /\ 1 <= n /\ n <= Len(configs)
        /\ active.revision \in Nat /\ active.revision <= Len(configs)
    <2>1. active.revision \in 0..Len(configs)
      BY DEF ManualInv, ManualShape
    <2>2. Len(configs) \in Nat
      BY <1>1
    <2> QED
      BY <2>1, <2>2
  <1>0. /\ active.mode \in Manual!Modes \cup {""}
        /\ turns \in [1..Len(active.urls) -> Nat]
        /\ IsActive(active) /\ ActiveState(active) /\ CursorState(active, turns)
    BY DEF ManualInv, ManualShape
  <1>2. IsList(c.list) /\ IsList(Manual!Parse(c.list)) /\ c.mode \in Manual!Modes
    BY <1>1, SavedAreLists, ParseIsList DEF SavedConfig
  <1>3. IsList(active.urls)
    BY ParseIsList, EmptyList DEF ManualInv, ActiveState
  <1>4. CASE n <= active.revision
    <2>1. a = active /\ Manual!TurnsOf(n) = turns
      BY <1>4 DEF Manual!Activated, Manual!TurnsOf, Manual!Continued
    <2> HIDE DEF a
    <2>2. /\ ActiveState(a) /\ CursorState(a, Manual!TurnsOf(n)) /\ IsList(a.urls)
          /\ Manual!TurnsOf(n) \in [1..Len(a.urls) -> Nat]
      BY <1>0, <1>3, <2>1 DEF ActiveState, CursorState
    <2>i. IsActive(a)
      BY <1>0, <2>1 DEF IsActive
    <2>3. a.revision \in 0..Len(configs) /\ n <= a.revision /\ active.revision <= a.revision
      BY <1>n, <1>4, <2>1
    <2> QED
      BY <1>0, <2>1, <2>i, <2>2, <2>3 DEF a
  <1>5. CASE ~(n <= active.revision)
    <2>1. /\ a.revision = n
          /\ a.source = c.list
          /\ a.mode = c.mode
          /\ a.urls = IF active.source = c.list THEN active.urls
                      ELSE IF Manual!Invalid(c.list) THEN <<>> ELSE Manual!Parse(c.list)
          /\ a.err = IF active.source = c.list THEN active.err ELSE Manual!Invalid(c.list)
          /\ a.next = IF active.source = c.list /\ active.mode = c.mode THEN active.next ELSE 0
          /\ IsActive(a)
      <3>1. a = [revision |-> n,
                 source   |-> c.list,
                 mode     |-> c.mode,
                 urls     |-> IF active.source = c.list THEN active.urls
                              ELSE IF Manual!Invalid(c.list) THEN <<>> ELSE Manual!Parse(c.list),
                 err      |-> IF active.source = c.list THEN active.err ELSE Manual!Invalid(c.list),
                 next     |-> IF active.source = c.list /\ active.mode = c.mode
                              THEN active.next ELSE 0]
        BY <1>5 DEF Manual!Activated
      <3> HIDE DEF a, c
      <3> QED
        BY <3>1 DEF IsActive
    <2> HIDE DEF a
    <2>2. active.revision \in Nat /\ active.revision < n
      BY <1>n, <1>5
    <2>3. ActiveState(a)
      <3>1. a.err = Manual!Invalid(a.source) /\ a.urls = IF a.err THEN <<>> ELSE Manual!Parse(a.source)
        <4>1. CASE active.source = c.list
          BY <1>0, <2>1, <4>1 DEF ActiveState
        <4>2. CASE active.source # c.list
          BY <2>1, <4>2
        <4> QED
          BY <4>1, <4>2
      <3> QED
        <4>1. a.revision = n /\ n # 0
          BY <1>n, <2>1
        <4>2. IsList(a.source) /\ a.source = configs[a.revision].list /\ a.mode = configs[a.revision].mode
          BY <1>2, <2>1, <4>1
        <4> QED
          BY <3>1, <4>1, <4>2 DEF ActiveState
    <2>4. IsList(a.urls)
      BY <2>3, ParseIsList, EmptyList DEF ActiveState
    <2>n. a.revision \in 0..Len(configs) /\ n <= a.revision /\ active.revision <= a.revision
      BY <1>n, <2>1, <2>2
    <2> HIDE DEF c
    <2>5. CASE active.source = c.list /\ active.mode = c.mode
      <3>1. Manual!TurnsOf(n) = turns /\ a.urls = active.urls
        BY <2>1, <2>5 DEF Manual!TurnsOf, Manual!Continued, c
      <3> QED
        <4>1. CursorState(a, Manual!TurnsOf(n))
          BY <1>0, <2>1, <2>5, <3>1 DEF CursorState
        <4> QED
          BY <1>0, <1>2, <2>1, <2>n, <2>3, <2>4, <3>1, <4>1 DEF a
    <2>6. CASE ~(active.source = c.list /\ active.mode = c.mode)
      <3>1. Manual!TurnsOf(n) = [i \in 1..Len(a.urls) |-> 0] /\ a.next = 0
        BY <1>5, <2>1, <2>6 DEF Manual!TurnsOf, Manual!Continued, Manual!NoTurns, a, c
      <3>2. a.urls # <<>> => 0 < Len(a.urls)
        BY <2>3, <2>4, ParseNotEmpty DEF ActiveState
      <3>3. CursorState(a, Manual!TurnsOf(n)) /\ Manual!TurnsOf(n) \in [1..Len(a.urls) -> Nat]
        BY <2>4, <3>1, <3>2 DEF CursorState, IsList
      <3> QED
        BY <1>2, <2>1, <2>n, <2>3, <2>4, <3>3 DEF a
    <2> QED
      BY <2>5, <2>6
  <1> QED
    BY <1>4, <1>5

(* One more turn: the cursor and the count move together, also around the  *)
(* end of the list.                                                        *)
LEMMA OneTurn ==
    ASSUME NEW len \in Nat \ {0}, NEW next \in Nat, next < len, NEW t \in [1..len -> Nat],
           \A i \in 1..len : t[i] = IF i <= next THEN 1 ELSE 0
    PROVE  /\ Manual!WithTurn(t, next + 1) \in [1..len -> Nat]
           /\ (next + 1) % len \in Nat /\ (next + 1) % len < len
           /\ \A i \in 1..len : Manual!WithTurn(t, next + 1)[i] = IF i <= (next + 1) % len THEN 1 ELSE 0
  <1> DEFINE u == [t EXCEPT ![next + 1] = @ + 1]
  <1>1. u \in [1..len -> Nat] /\ \A i \in 1..len : u[i] = IF i <= next + 1 THEN 1 ELSE 0
    OBVIOUS
  <1>2. Manual!WithTurn(t, next + 1) = IF \A j \in DOMAIN u : u[j] > 0
                                THEN [j \in DOMAIN u |-> u[j] - 1] ELSE u
    BY DEF Manual!WithTurn
  <1> HIDE DEF u
  <1>3. CASE next + 1 = len
    <2>1. (next + 1) % len = 0
      BY <1>3
    <2>2. \A j \in 1..len : u[j] = 1
      BY <1>1, <1>3
    <2>3. Manual!WithTurn(t, next + 1) = [j \in 1..len |-> 0]
      BY <1>1, <1>2, <2>2
    <2> QED
      BY <2>1, <2>3
  <1>4. CASE next + 1 < len
    <2>1. (next + 1) % len = next + 1
      BY <1>4
    <2>2. u[len] = 0 /\ len \in DOMAIN u
      BY <1>1, <1>4
    <2>3. Manual!WithTurn(t, next + 1) = u
      BY <1>2, <2>2
    <2> QED
      BY <1>1, <1>4, <2>1, <2>3
  <1> QED
    BY <1>3, <1>4

-----------------------------------------------------------------------------
LEMMA ManualInit == Manual!Init => ManualInv
  <1> SUFFICES ASSUME Manual!Init PROVE ManualInv
    OBVIOUS
  <1>1. PICK l \in Lists, m \in Manual!Modes : configs = <<[list |-> l, mode |-> m]>>
    BY DEF Manual!Init
  <1>2. configs \in Seq(SavedConfig)
    BY <1>1 DEF SavedConfig, SavedLists
  <1>3. Len(configs) = 1
    BY <1>1
  <1>i. active = [revision |-> 0, source |-> <<>>, mode |-> "", urls |-> <<>>,
                  err |-> FALSE, next |-> 0]
    BY DEF Manual!Init
  <1>a. active.revision = 0 /\ active.next = 0
    BY <1>i
  <1>m. active.mode = ""
    BY <1>i
  <1>b. active.source = <<>> /\ active.urls = <<>>
    BY <1>i
  <1>4. ManualShape
    <2>1. turns \in [1..Len(active.urls) -> Nat]
      <3>1. <<>> \in Seq(Nat)
        OBVIOUS
      <3>2. <<>> \in [1..Len(<<>>) -> Nat]
        BY <3>1, LenProperties
      <3>3. turns = <<>>
        BY DEF Manual!Init
      <3> QED
        BY <1>b, <3>2, <3>3
    <2>2. holds \in [ManualRequests -> 0..Len(configs)]
      <3>1. holds = [r \in ManualRequests |-> 0]
        BY DEF Manual!Init
      <3> QED
        BY <1>3, <3>1
    <2>3. active.revision \in 0..Len(configs)
      BY <1>3, <1>a
    <2>4. active.mode \in Manual!Modes \cup {""}
      BY <1>m
    <2> QED
      BY <1>2, <2>1, <2>2, <2>3, <2>4 DEF ManualShape
  <1>5. ActiveState(active)
    <2>1. ~Manual!Invalid(active.source) /\ active.urls = Manual!Parse(active.source) /\ IsList(active.source)
      BY <1>b, EmptyList
    <2>2. active.err = Manual!Invalid(active.source)
      BY <1>i, <2>1 DEF Manual!Invalid
    <2> QED
      BY <1>a, <1>m, <2>1, <2>2 DEF ActiveState
  <1>6. CursorState(active, turns)
    <2>1. active.mode # "round_robin"
      BY <1>m
    <2>2. active.next \in Nat
      BY <1>a
    <2> QED
      BY <1>b, <2>1, <2>2 DEF CursorState
  <1>7. IsActive(active)
    BY DEF Manual!Init, IsActive
  <1> QED
    BY <1>4, <1>5, <1>6, <1>7 DEF ManualInv

(* A selection, by what it does to the state.                              *)
LEMMA SelectStep ==
    ASSUME ManualInv, NEW r \in ManualRequests, Manual!manualProxyForKeyLocked(r)
    PROVE  /\ ManualInv'
           /\ active.revision <= active'.revision
           /\ holds[r] <= active'.revision
  <1> DEFINE n == holds[r]
             a == Manual!Activated(n)
             t == Manual!TurnsOf(n)
  <1>1. configs' = configs /\ holds' = [holds EXCEPT ![r] = 0] /\ n # 0
        /\ (Manual!SelectFixed(n) \/ Manual!SelectNext(n))
    BY DEF Manual!manualProxyForKeyLocked
  <1>2. configs \in Seq(SavedConfig) /\ holds \in [ManualRequests -> 0..Len(configs)]
    BY DEF ManualInv, ManualShape
  <1>3. Len(configs) \in Nat
    BY <1>2, LenProperties
  <1>4. n \in 1..Len(configs)
    BY <1>1, <1>2, <1>3
  <1>5. /\ ActiveState(a) /\ CursorState(a, t)
        /\ t \in [1..Len(a.urls) -> Nat]
        /\ a.revision \in 0..Len(configs)
        /\ a.mode \in Manual!Modes \cup {""}
        /\ n <= a.revision /\ active.revision <= a.revision
        /\ IsList(a.urls) /\ IsActive(a)
    BY <1>4, Activation
  <1>6. holds' \in [ManualRequests -> 0..Len(configs)]
    BY <1>1, <1>2, <1>3
  <1> HIDE DEF n, a, t
  <1>7. CASE Manual!SelectFixed(n)
    <2>1. active' = a /\ turns' = t
      BY <1>7 DEF Manual!SelectFixed, a, t
    <2>2. ManualShape'
      BY <1>1, <1>2, <1>5, <1>6, <2>1 DEF ManualShape
    <2>3. ActiveState(active)' /\ CursorState(active, turns)' /\ IsActive(active)'
      BY <1>1, <1>5, <2>1 DEF ActiveState, CursorState, IsActive
    <2> QED
      BY <1>5, <2>1, <2>2, <2>3 DEF ManualInv, n
  <1>8. CASE Manual!SelectNext(n)
    <2>1. /\ a.urls # <<>> /\ a.mode = "round_robin"
          /\ active' = [a EXCEPT !.next = (a.next + 1) % Len(a.urls)]
          /\ turns' = Manual!WithTurn(t, a.next + 1)
      BY <1>8 DEF Manual!SelectNext, a, t
    <2>2. /\ a.next \in Nat /\ a.next < Len(a.urls) /\ Len(a.urls) \in Nat \ {0}
          /\ \A i \in 1..Len(a.urls) : t[i] = IF i <= a.next THEN 1 ELSE 0
      BY <1>5, <2>1 DEF CursorState, IsList
    <2>3. /\ turns' \in [1..Len(a.urls) -> Nat]
          /\ (a.next + 1) % Len(a.urls) \in Nat
          /\ (a.next + 1) % Len(a.urls) < Len(a.urls)
          /\ \A i \in 1..Len(a.urls) :
                turns'[i] = IF i <= (a.next + 1) % Len(a.urls) THEN 1 ELSE 0
      BY <1>5, <2>1, <2>2, OneTurn
    <2>4. /\ active'.revision = a.revision /\ active'.source = a.source /\ active'.mode = a.mode
          /\ active'.urls = a.urls /\ active'.err = a.err
          /\ active'.next = (a.next + 1) % Len(a.urls)
      BY <1>5, <2>1 DEF IsActive
    <2>i. IsActive(active)'
      BY <1>5, <2>1 DEF IsActive
    <2>5. ManualShape'
      BY <1>1, <1>2, <1>5, <1>6, <2>3, <2>4 DEF ManualShape
    <2>6. ActiveState(active)' /\ CursorState(active, turns)'
      BY <1>1, <1>5, <2>3, <2>4 DEF ActiveState, CursorState
    <2> QED
      BY <1>5, <2>4, <2>i, <2>5, <2>6 DEF ManualInv, n
  <1> QED
    BY <1>1, <1>7, <1>8

LEMMA SaveStep ==
    ASSUME ManualInv, NEW l \in Lists, NEW m \in Manual!Modes, Manual!SaveGlobalConfig(l, m)
    PROVE  ManualInv'
  <1>1. /\ configs' = Append(configs, [list |-> Manual!Parse(l), mode |-> m])
        /\ UNCHANGED <<holds, active, turns>>
    BY DEF Manual!SaveGlobalConfig
  <1>2. configs \in Seq(SavedConfig) /\ [list |-> Manual!Parse(l), mode |-> m] \in SavedConfig
    BY DEF ManualInv, ManualShape, SavedConfig, SavedLists
  <1>3. Len(configs) \in Nat
    BY <1>2, LenProperties
  <1>4. /\ configs' \in Seq(SavedConfig) /\ Len(configs') = Len(configs) + 1
        /\ \A i \in 1..Len(configs) : configs'[i] = configs[i]
    BY <1>1, <1>2, <1>3
  <1>5. active.revision \in 0..Len(configs) /\ holds \in [ManualRequests -> 0..Len(configs)]
    BY DEF ManualInv, ManualShape
  <1>6. ManualShape'
    <2>1. 0..Len(configs) \subseteq 0..Len(configs')
      BY <1>3, <1>4
    <2>2. active.revision \in 0..Len(configs') /\ holds \in [ManualRequests -> 0..Len(configs')]
      BY <1>5, <2>1
    <2> QED
      BY <1>1, <1>4, <2>2 DEF ManualInv, ManualShape
  <1>7. ActiveState(active)'
    <2>1. active.revision # 0 => configs'[active.revision] = configs[active.revision]
      BY <1>3, <1>4, <1>5
    <2> QED
      BY <1>1, <2>1 DEF ManualInv, ActiveState
  <1>8. CursorState(active, turns)' /\ IsActive(active)'
    BY <1>1 DEF ManualInv, CursorState, IsActive
  <1> QED
    BY <1>6, <1>7, <1>8 DEF ManualInv

LEMMA OtherStep ==
    ASSUME ManualInv, UNCHANGED <<configs, active, turns>>, holds' \in [ManualRequests -> 0..Len(configs)]
    PROVE  ManualInv'
  BY DEF ManualInv, ManualShape, ActiveState, CursorState, IsActive

LEMMA ManualKept ==
    ASSUME ManualInv, [Manual!Next]_Manual!vars
    PROVE  ManualInv'
  <1>1. holds \in [ManualRequests -> 0..Len(configs)] /\ Len(configs) \in Nat
    <2>1. configs \in Seq(SavedConfig) /\ holds \in [ManualRequests -> 0..Len(configs)]
      BY DEF ManualInv, ManualShape
    <2> QED
      BY <2>1, LenProperties
  <1>2. ASSUME NEW r \in ManualRequests, Manual!GlobalConfig(r) \/ Manual!SelectOther(r)
        PROVE  ManualInv'
    BY <1>1, <1>2, OtherStep DEF Manual!GlobalConfig, Manual!SelectOther
  <1>3. CASE UNCHANGED Manual!vars
    BY <1>1, <1>3, OtherStep DEF Manual!vars
  <1> QED
    BY <1>2, <1>3, SaveStep, SelectStep DEF Manual!Next

-----------------------------------------------------------------------------
LEMMA ManualAlways == Manual!Spec => []ManualInv
  BY ManualInit, ManualKept, PTL DEF Manual!Spec

LEMMA ManualTyped == Manual!Spec => []Manual!TypeOK
  <1>1. ManualInv => Manual!TypeOK
    <2> SUFFICES ASSUME ManualInv PROVE Manual!TypeOK
      OBVIOUS
    <2>1. configs \in Seq(SavedConfig) /\ holds \in [ManualRequests -> 0..Len(configs)]
          /\ active.revision \in 0..Len(configs) /\ turns \in [1..Len(active.urls) -> Nat]
          /\ ActiveState(active) /\ CursorState(active, turns)
      BY DEF ManualInv, ManualShape
    <2>2. DOMAIN configs = 1..Len(configs) /\ \A i \in DOMAIN configs : configs[i].mode \in Manual!Modes
      <3>1. configs \in [1..Len(configs) -> SavedConfig]
        BY <2>1, LenProperties
      <3> QED
        BY <3>1 DEF SavedConfig
    <2>3. active.err \in BOOLEAN
      BY <2>1 DEF ActiveState, Manual!Invalid
    <2> QED
      BY <2>1, <2>2, <2>3 DEF Manual!TypeOK, CursorState
  <1> QED
    BY ManualAlways, <1>1, PTL

(* ManualProxy.RotationSafe: the active list and mode are those of one     *)
(* saved configuration, and round robin gives every proxy one turn before  *)
(* any gets its second, in whatever order requests bring their             *)
(* configurations.                                                         *)
THEOREM RotationIsSafe == Manual!Spec => []RotationSafe
  <1>1. ManualInv => Manual!ActiveIsSaved
    BY DEF ManualInv, ActiveState, Manual!ActiveIsSaved
  <1>2. ManualInv => Manual!EvenRotation
    BY DEF ManualInv, CursorState, Manual!EvenRotation
  <1>3. ManualInv => RotationSafe
    BY <1>1, <1>2 DEF RotationSafe, Manual!RotationSafe
  <1> QED
    BY ManualAlways, <1>3, PTL

(* ManualProxy.NoRollback: a selection never goes back to an older         *)
(* configuration.                                                          *)
THEOREM NewestConfigWins == Manual!Spec => NoRollback
  <1> DEFINE Forward == /\ active.revision <= active'.revision
                        /\ \A r \in ManualRequests : Manual!manualProxyForKeyLocked(r)
                                               => holds[r] <= active'.revision
  <1>1. ASSUME ManualInv, [Manual!Next]_Manual!vars PROVE [Forward]_Manual!vars
    <2>1. active.revision <= active.revision
      <3>1. configs \in Seq(SavedConfig) /\ active.revision \in 0..Len(configs)
        BY <1>1 DEF ManualInv, ManualShape
      <3>2. Len(configs) \in Nat
        BY <3>1, LenProperties
      <3> QED
        BY <3>1, <3>2
    <2>2. ASSUME NEW r \in ManualRequests, Manual!manualProxyForKeyLocked(r)
          PROVE  active.revision <= active'.revision /\ holds[r] <= active'.revision
      BY <1>1, <2>2, SelectStep
    <2>3. active' = active \/ \E r \in ManualRequests : Manual!manualProxyForKeyLocked(r)
      BY <1>1 DEF Manual!Next, Manual!SaveGlobalConfig, Manual!GlobalConfig, Manual!SelectOther, Manual!vars
    <2> QED
      BY <2>1, <2>2, <2>3
  <1> QED
    BY ManualAlways, <1>1, PTL DEF Manual!Spec, NoRollback, Manual!NoRollback

-----------------------------------------------------------------------------
(* The HTTP clients                                                        *)

(* A request gets the client that is in the cache, the cache never forgets *)
(* one, and what is put into it is a client.                               *)
CacheInv ==
    /\ Cache!TypeOK
    /\ \A p \in ClientProxies : given[p] \subseteq {clients[p]} \ {0}
    /\ \A r \in Requests : clientStage[r] = "built" => built[r] # 0

LEMMA CacheInit == Cache!Init => CacheInv
BY ClientsAssumption DEF Cache!Init, CacheInv, Cache!TypeOK

LEMMA CacheKept ==
    ASSUME CacheInv, [Cache!Next]_Cache!vars
    PROVE  CacheInv'
<1> USE DEF CacheInv, Cache!TypeOK, Cache!Give
<1>1. ASSUME NEW r \in Requests, NEW p \in ClientProxies, Cache!Find(r, p)
      PROVE  CacheInv'
    BY <1>1 DEF Cache!Find
<1>2. ASSUME NEW r \in Requests, NEW p \in ClientProxies, Cache!Miss(r, p)
      PROVE  CacheInv'
    BY <1>2 DEF Cache!Miss
<1>3. ASSUME NEW r \in Requests, Cache!newClient(r)
      PROVE  CacheInv'
  <2>1. count' \in 0..MaxClients /\ count' = count + 1 /\ count \in Nat
      BY <1>3, ClientsAssumption DEF Cache!newClient
  <2>2. Cache!TypeOK'
    <3>1. 0..count \subseteq 0..count' /\ 1..count \subseteq 1..count' /\ count + 1 \in 0..count'
        BY <2>1
    <3> QED
        BY <1>3, <2>1, <3>1 DEF Cache!newClient
  <2> QED
      BY <1>3, <2>1, <2>2 DEF Cache!newClient
<1>4. ASSUME NEW r \in Requests, Cache!newClientFails(r)
      PROVE  CacheInv'
    BY <1>4 DEF Cache!newClientFails
<1>5. ASSUME NEW r \in Requests, Cache!Store(r)
      PROVE  CacheInv'
  <2> DEFINE p == proxy[r]
             c == IF clients[p] # 0 THEN clients[p] ELSE built[r]
  <2>1. /\ clientStage[r] = "built"
        /\ clientStage' = [clientStage EXCEPT ![r] = "idle"]
        /\ clients' = [clients EXCEPT ![p] = c]
        /\ built' = [built EXCEPT ![r] = 0]
        /\ given' = [given EXCEPT ![p] = @ \cup {c}]
        /\ proxy' = proxy /\ count' = count
      BY <1>5 DEF Cache!Store
  <2>2. p \in ClientProxies /\ c \in 1..count
      BY <2>1
  <2>3. given[p] \cup {c} \subseteq {c} \ {0}
      BY <2>2
  <2> HIDE DEF p, c
  <2>4. Cache!TypeOK'
      BY <2>1, <2>2
  <2>5. \A q \in ClientProxies : given'[q] \subseteq {clients'[q]} \ {0}
      BY <2>1, <2>2, <2>3
  <2> QED
      BY <2>1, <2>4, <2>5
<1>6. CASE UNCHANGED Cache!vars
    BY <1>6 DEF Cache!vars
<1> QED
    BY <1>1, <1>2, <1>3, <1>4, <1>5, <1>6 DEF Cache!Next

LEMMA CacheAlways == Cache!Spec => []CacheInv
BY CacheInit, CacheKept, PTL DEF Cache!Spec

(* Cardinality as ClientCache has it is Cardinality.                       *)
LEMMA CacheCardinality == \A S : Cache!Cardinality(S) = Cardinality(S)
<1>1. \A S : Cache!IsFiniteSet(S) = IsFiniteSet(S)
    BY DEF Cache!IsFiniteSet, IsFiniteSet
<1> QED
    BY <1>1 DEF Cache!Cardinality, Cardinality

(* ClientCache.OneClient: all requests through a proxy share one client,   *)
(* also those that built one at the same time.                             *)
THEOREM OneClientEach == Cache!Spec => []OneClient
<1>1. ASSUME CacheInv PROVE OneClient
  <2> SUFFICES ASSUME NEW p \in ClientProxies PROVE Cardinality(given[p]) <= 1
      BY CacheCardinality DEF OneClient, Cache!OneClient
  <2>1. given[p] \subseteq {clients[p]}
      BY <1>1 DEF CacheInv
  <2>2. IsFiniteSet({clients[p]}) /\ Cardinality({clients[p]}) = 1
      BY FS_Singleton
  <2> QED
      BY <2>1, <2>2, FS_Subset
<1> QED
    BY <1>1, CacheAlways, PTL

-----------------------------------------------------------------------------
(* The end of the process                                                  *)

(* The store is closed when both servers are down, and the last save is of *)
(* all that was recorded.                                                  *)
ClosedLast ==
    /\ closed <=> main \in {"closing", "clean", "unsaved"}
    /\ main = "serving" => \A s \in End!Servers : server[s] = "up"
    /\ closed => \A s \in End!Servers : End!Down(s)
    /\ writer = "saved" => closed /\ saved = recorded
    /\ main = "clean" => writer = "saved"

(* A server that has stopped runs no request, so only those of a server    *)
(* that was cut off can find the store closed.                             *)
StoppedIsIdle ==
    \A r \in End!Handlers :
        /\ server[End!ServerOf(r)] = "stopped" => handler[r] \notin {"running", "flushing"}
        /\ handler[r] = "refused" => server[End!ServerOf(r)] = "cut"

EndInv == End!TypeOK /\ ClosedLast /\ StoppedIsIdle

LEMMA EndInit == End!Init => EndInv
<1> SUFFICES ASSUME End!Init PROVE EndInv
    OBVIOUS
<1>1. End!TypeOK
  <2>1. closed \in BOOLEAN
      BY DEF End!Init
  <2>2. left \in 0..Deadline
      BY DeadlineAssumption DEF End!Init
  <2>3. /\ server \in [End!Servers -> {"up", "draining", "stopped", "cut"}]
        /\ handler \in [End!Handlers -> {"none", "running", "flushing", "answered", "refused"}]
      BY DEF End!Init
  <2> QED
      BY <2>1, <2>2, <2>3 DEF End!Init, End!TypeOK
<1>2. ClosedLast
  <2>1. ~closed
      BY DEF End!Init
  <2>2. \A s \in End!Servers : server[s] = "up"
      BY DEF End!Init
  <2> QED
      BY <2>1, <2>2 DEF End!Init, ClosedLast
<1>3. StoppedIsIdle
    BY DEF End!Init, StoppedIsIdle
<1> QED
    BY <1>1, <1>2, <1>3 DEF EndInv

LEMMA ServersOfHandlers == \A r \in End!Handlers : End!ServerOf(r) \in End!Servers
BY DEF End!ServerOf, End!Servers

LEMMA EndTyped ==
    ASSUME End!TypeOK, [End!Next]_End!vars
    PROVE  End!TypeOK'
<1> USE DEF End!TypeOK
<1>1. ASSUME NEW r \in End!Handlers, End!Accept(r) \/ End!Change(r) \/ End!Flush(r)
      PROVE  End!TypeOK'
    BY <1>1 DEF End!Accept, End!Change, End!Flush
<1>2. CASE End!Persist \/ End!FinalPersist
    BY <1>2 DEF End!Persist, End!FinalPersist
<1>3. CASE End!Signal \/ End!CloseContext \/ End!Exit
    BY <1>3 DEF End!Signal, End!CloseContext, End!Exit
<1>4. ASSUME NEW s \in End!Servers,
             End!ServerFails(s) \/ End!BeginShutdown(s) \/ End!Drained(s) \/ End!CutOff(s)
      PROVE  End!TypeOK'
    BY <1>4 DEF End!ServerFails, End!BeginShutdown, End!Drained, End!CutOff
<1>5. CASE End!Tick
    BY <1>5, DeadlineAssumption DEF End!Tick
<1>6. CASE End!Gone \/ UNCHANGED End!vars
    BY <1>6 DEF End!Gone, End!vars
<1> QED
    BY <1>1, <1>2, <1>3, <1>4, <1>5, <1>6 DEF End!Next, End!Main

LEMMA EndClosedLast ==
    ASSUME EndInv, [End!Next]_End!vars
    PROVE  ClosedLast'
<1> USE DEF EndInv, ClosedLast, End!TypeOK, End!Down
<1>1. ASSUME NEW r \in End!Handlers, End!Accept(r) \/ End!Change(r) \/ End!Flush(r)
      PROVE  ClosedLast'
    BY <1>1 DEF End!Accept, End!Change, End!Flush
<1>2. CASE End!Persist \/ End!FinalPersist
    BY <1>2 DEF End!Persist, End!FinalPersist
<1>3. CASE End!Signal \/ End!CloseContext \/ End!Exit
    BY <1>3 DEF End!Signal, End!CloseContext, End!Exit
<1>4. ASSUME NEW s \in End!Servers,
             End!ServerFails(s) \/ End!BeginShutdown(s) \/ End!Drained(s) \/ End!CutOff(s)
      PROVE  ClosedLast'
    BY <1>4 DEF End!ServerFails, End!BeginShutdown, End!Drained, End!CutOff
<1>5. CASE End!Tick
    BY <1>5 DEF End!Tick
<1>6. CASE End!Gone \/ UNCHANGED End!vars
    BY <1>6 DEF End!Gone, End!vars
<1> QED
    BY <1>1, <1>2, <1>3, <1>4, <1>5, <1>6 DEF End!Next, End!Main

LEMMA EndStoppedIsIdle ==
    ASSUME EndInv, [End!Next]_End!vars
    PROVE  StoppedIsIdle'
<1> USE ServersOfHandlers DEF EndInv, StoppedIsIdle, End!TypeOK
<1>1. ASSUME NEW r \in End!Handlers, End!Accept(r) PROVE StoppedIsIdle'
    BY <1>1 DEF End!Accept
<1>2. ASSUME NEW r \in End!Handlers, End!Change(r) \/ End!Flush(r) PROVE StoppedIsIdle'
  <2>1. handler[r] \in {"running", "flushing"} /\ (closed => server[End!ServerOf(r)] = "cut")
      BY <1>2 DEF ClosedLast, End!Down, End!Change, End!Flush
  <2>2. /\ server' = server
        /\ server[End!ServerOf(r)] # "stopped"
        /\ handler'[r] = "refused" => closed
        /\ \A q \in End!Handlers : q # r => handler'[q] = handler[q]
      BY <1>2, <2>1 DEF End!Change, End!Flush
  <2> QED
      BY <2>1, <2>2
<1>3. CASE UNCHANGED <<server, handler>>
    BY <1>3
<1>4. ASSUME NEW s \in End!Servers, End!Drained(s)
      PROVE  StoppedIsIdle'
  <2>1. \A r \in End!Handlers : End!ServerOf(r) = s => handler[r] \notin {"running", "flushing"}
      BY <1>4 DEF End!Drained, End!Active
  <2> QED
      BY <1>4, <2>1 DEF End!Drained
<1>5. ASSUME NEW s \in End!Servers,
             End!ServerFails(s) \/ End!BeginShutdown(s) \/ End!CutOff(s)
      PROVE  StoppedIsIdle'
    BY <1>5 DEF ClosedLast, End!ServerFails, End!BeginShutdown, End!CutOff
<1> QED
    BY <1>1, <1>2, <1>3, <1>4, <1>5
    DEF End!Next, End!Main, End!Persist, End!FinalPersist, End!Signal, End!CloseContext,
        End!Exit, End!Tick, End!Gone, End!vars

LEMMA EndAlways == End!Spec => []EndInv
<1>1. EndInv /\ [End!Next]_End!vars => EndInv'
    BY EndTyped, EndClosedLast, EndStoppedIsIdle DEF EndInv
<1> QED
    BY <1>1, EndInit, PTL DEF End!Spec

(* Shutdown.ShutdownSafe: an exit without a message has everything on disk,*)
(* and a request that was accepted is answered unless a server was cut off.*)
THEOREM EndIsSafe == End!Spec => []ShutdownSafe
<1>1. ASSUME EndInv PROVE ShutdownSafe
  <2>1. End!CleanExitSaves
      BY <1>1 DEF EndInv, ClosedLast, End!CleanExitSaves
  <2>2. End!DrainedInPeace
    <3> SUFFICES ASSUME \A s \in End!Servers : server[s] # "cut", NEW r \in End!Handlers
                 PROVE  /\ handler[r] # "refused"
                        /\ ~End!Alive => handler[r] \in {"none", "answered"}
        BY DEF End!DrainedInPeace
    <3>1. handler[r] # "refused"
        BY <1>1, ServersOfHandlers DEF EndInv, StoppedIsIdle
    <3>2. ASSUME ~End!Alive PROVE handler[r] \notin {"running", "flushing"}
        BY <1>1, <3>2, ServersOfHandlers
        DEF EndInv, StoppedIsIdle, ClosedLast, End!Alive, End!Down
    <3> QED
        BY <1>1, <3>1, <3>2 DEF EndInv, End!TypeOK
  <2> QED
      BY <2>1, <2>2 DEF ShutdownSafe, End!ShutdownSafe
<1> QED
    BY <1>1, EndAlways, PTL

-----------------------------------------------------------------------------
(* The progress stream                                                     *)

Event == 0..Test!Last

(* A callback belongs to a test that still runs; the channel is closed in  *)
(* the end; the handler leaves a client that reads only when all is sent,  *)
(* so a call whose context is cancelled has no client.                     *)
TestShape ==
    /\ Test!TypeOK
    /\ sending => test \in {"preparing", "testing", "tested", "recorded"} /\ emitted < MaxEvents
    /\ closedEvents <=> test = "ended"
    /\ client = "reading" /\ cancelled => ~streaming
    /\ client = "reading" /\ ~streaming => closedEvents /\ events = <<>>
    /\ counted => test \notin {"preparing", "testing", "tested"}
    /\ outcome = "cancelled" => client = "left" /\ ~counted

(* The stream as it is, followed by what is in the channel: the first e    *)
(* events of the test by their numbers, and then the last one if it is     *)
(* sent.                                                                   *)
InOrder(s, e, last) ==
    /\ \A i \in 1..Len(s) :
          s[i] # Test!Dial => s[i] = IF Test!Own(s, i) <= e THEN Test!Own(s, i) ELSE Test!Last
    /\ Test!Own(s, Len(s)) = e + last

LastSent == IF test \in {"sent", "ended"} THEN 1 ELSE 0

TestInv ==
    /\ TestShape
    /\ client = "reading" => InOrder(received \o events, emitted, LastSent)

-----------------------------------------------------------------------------
LEMMA TestCardinality == \A S : Test!Cardinality(S) = Cardinality(S)
<1>1. \A S : Test!IsFiniteSet(S) = IsFiniteSet(S)
    BY DEF Test!IsFiniteSet, IsFiniteSet
<1> QED
    BY <1>1 DEF Test!Cardinality, Cardinality

LEMMA OwnSets ==
    ASSUME NEW s, NEW n \in Nat
    PROVE  /\ IsFiniteSet({i \in 1..n : s[i] # Test!Dial})
           /\ Test!Own(s, n) = Cardinality({i \in 1..n : s[i] # Test!Dial})
           /\ Test!Own(s, n) \in Nat
<1>1. IsFiniteSet(1..n)
    BY FS_Interval
<1>2. IsFiniteSet({i \in 1..n : s[i] # Test!Dial})
    BY <1>1, FS_Subset
<1> QED
    BY <1>2, FS_CardinalityType, TestCardinality DEF Test!Own

(* Of no events none is the test's.                                        *)
LEMMA OwnOfNone ==
    ASSUME NEW s PROVE Test!Own(s, 0) = 0
<1>1. {i \in 1..0 : s[i] # Test!Dial} = {}
    OBVIOUS
<1> QED
    BY <1>1, OwnSets, FS_EmptySet

(* Counting is not changed by what comes after.                            *)
LEMMA OwnOfPrefix ==
    ASSUME NEW s, NEW t, NEW n \in Nat, \A i \in 1..n : s[i] = t[i]
    PROVE  Test!Own(s, n) = Test!Own(t, n)
<1>1. {i \in 1..n : s[i] # Test!Dial} = {i \in 1..n : t[i] # Test!Dial}
    OBVIOUS
<1> QED
    BY <1>1 DEF Test!Own

LEMMA OwnGrows ==
    ASSUME NEW s, NEW m \in Nat, NEW n \in Nat, m <= n
    PROVE  Test!Own(s, m) <= Test!Own(s, n)
<1> DEFINE A(k) == {i \in 1..k : s[i] # Test!Dial}
<1>1. A(m) \subseteq A(n)
    OBVIOUS
<1>2. IsFiniteSet(A(n)) /\ Test!Own(s, m) = Cardinality(A(m)) /\ Test!Own(s, n) = Cardinality(A(n))
    BY OwnSets
<1> HIDE DEF A
<1> QED
    BY <1>1, <1>2, FS_Subset

(* One event more.                                                         *)
LEMMA OwnOfNext ==
    ASSUME NEW s, NEW n \in Nat
    PROVE  Test!Own(s, n + 1) = Test!Own(s, n) + (IF s[n + 1] # Test!Dial THEN 1 ELSE 0)
<1> DEFINE A == {i \in 1..n : s[i] # Test!Dial}
           B == {i \in 1..(n + 1) : s[i] # Test!Dial}
<1>0. /\ IsFiniteSet(A) /\ Cardinality(A) \in Nat
      /\ Test!Own(s, n) = Cardinality(A) /\ Test!Own(s, n + 1) = Cardinality(B)
  <2>1. n + 1 \in Nat
      OBVIOUS
  <2> QED
      BY <2>1, OwnSets
<1>1. CASE s[n + 1] # Test!Dial
  <2>1. B = A \cup {n + 1} /\ n + 1 \notin A
      BY <1>1
  <2> HIDE DEF A, B
  <2>2. Cardinality(B) = Cardinality(A) + 1
      BY <2>1, <1>0, FS_AddElement
  <2> QED
      BY <1>1, <2>2, <1>0
<1>2. CASE s[n + 1] = Test!Dial
  <2>1. B = A
      BY <1>2
  <2> HIDE DEF A, B
  <2> QED
      BY <1>2, <2>1, <1>0
<1> QED
    BY <1>1, <1>2

-----------------------------------------------------------------------------
(* An event is added to the stream, a report or the next of the test.      *)
LEMMA OneMore ==
    ASSUME NEW s \in Seq(Event), NEW x \in Event, NEW e \in Nat, NEW f \in Nat,
           NEW last \in {0, 1}, NEW d \in {0, 1}, InOrder(s, e, last),
           e <= f, x # Test!Dial => last = 0,
           f + d = e + last + (IF x # Test!Dial THEN 1 ELSE 0),
           last = 1 => f = e,
           x # Test!Dial => x = IF e + 1 <= f THEN e + 1 ELSE Test!Last
    PROVE  InOrder(Append(s, x), f, d)
<1> DEFINE t == Append(s, x)
           n == Len(s)
<1>1. n \in Nat /\ t \in Seq(Event) /\ Len(t) = n + 1 /\ t[n + 1] = x
      /\ \A i \in 1..n : t[i] = s[i]
    BY LenProperties, AppendProperties
<1> HIDE DEF t, n
<1>2. ASSUME NEW i \in 0..n PROVE Test!Own(t, i) = Test!Own(s, i) /\ Test!Own(t, i) \in Nat
                                  /\ Test!Own(t, i) <= e + last
  <2>1. i \in Nat /\ i <= n /\ \A j \in 1..i : t[j] = s[j]
      BY <1>1
  <2>2. Test!Own(t, i) = Test!Own(s, i) /\ Test!Own(t, i) \in Nat
      BY <2>1, OwnOfPrefix, OwnSets
  <2>3. Test!Own(s, i) <= Test!Own(s, n)
      BY <2>1, <1>1, OwnGrows
  <2> QED
      BY <2>2, <2>3 DEF InOrder, n
<1>3. Test!Own(t, n + 1) = e + last + (IF x # Test!Dial THEN 1 ELSE 0)
  <2>1. Test!Own(t, n) = e + last
      BY <1>1, <1>2 DEF InOrder, n
  <2> QED
      BY <2>1, <1>1, OwnOfNext
<1>4. ASSUME NEW i \in 1..(n + 1), t[i] # Test!Dial
      PROVE  t[i] = IF Test!Own(t, i) <= f THEN Test!Own(t, i) ELSE Test!Last
  <2>1. CASE i = n + 1
      BY <2>1, <1>1, <1>3, <1>4
  <2>2. CASE i # n + 1
    <3>1. i \in 1..n /\ i \in 0..n
        BY <2>2, <1>1
    <3>2. t[i] = IF Test!Own(t, i) <= e THEN Test!Own(t, i) ELSE Test!Last
        BY <3>1, <1>1, <1>2, <1>4 DEF InOrder, n
    <3>3. last = 0 => Test!Own(t, i) <= e /\ Test!Own(t, i) <= f
        BY <3>1, <1>2
    <3> QED
        BY <3>2, <3>3
  <2> QED
      BY <2>1, <2>2
<1>5. Test!Own(t, Len(t)) = f + d
    BY <1>1, <1>3
<1> QED
    BY <1>1, <1>4, <1>5 DEF InOrder, t

(* An event goes from the channel to the client: the stream is the same.   *)
LEMMA OneWritten ==
    ASSUME NEW s \in Seq(Event), NEW t \in Seq(Event), t # <<>>
    PROVE  Append(s, Head(t)) \o Tail(t) = s \o t
<1>1. Head(t) \in Event /\ Tail(t) \in Seq(Event)
    BY HeadTailProperties
<1>2. <<Head(t)>> \in Seq(Event)
    BY <1>1
<1>3. Append(s, Head(t)) \o Tail(t) = s \o (<<Head(t)>> \o Tail(t))
    BY <1>1, <1>2, AppendIsConcat, ConcatAssociative
<1>4. <<Head(t)>> \o Tail(t) = t
  <2>1. Len(t) \in Nat \ {0}
      BY EmptySeq
  <2>2. 1 \in 1..Len(t) /\ Len(t) \in 1..Len(t)
      BY <2>1
  <2>3. SubSeq(t, 1, Len(t)) = <<t[1]>> \o SubSeq(t, 1 + 1, Len(t))
      BY <2>2, SubSeqRecursiveFirst
  <2>4. SubSeq(t, 1, Len(t)) = t /\ Tail(t) = SubSeq(t, 2, Len(t)) /\ Head(t) = t[1]
      BY SubSeqFull, TailIsSubSeq
  <2> QED
      BY <2>3, <2>4
<1> QED
    BY <1>3, <1>4

LEMMA OneSent ==
    ASSUME NEW s \in Seq(Event), NEW t \in Seq(Event), NEW x \in Event
    PROVE  s \o Append(t, x) = Append(s \o t, x)
<1>1. <<x>> \in Seq(Event) /\ s \o t \in Seq(Event)
    BY ConcatProperties
<1> QED
    BY <1>1, AppendIsConcat, ConcatAssociative

(* What TestShape says of the values.                                      *)
LEMMA TestValues ==
    ASSUME TestShape
    PROVE  /\ MaxEvents \in Nat /\ Test!Dial = 0 /\ Test!Last = MaxEvents + 1
           /\ Test!Last \in Event /\ Test!Dial \in Event
           /\ Event \subseteq Nat
           /\ emitted \in Nat /\ emitted <= MaxEvents
           /\ sending => emitted + 1 \in Event /\ emitted + 1 <= MaxEvents
           /\ events \in Seq(Event) /\ received \in Seq(Event)
           /\ received \o events \in Seq(Event)
<1>1. events \in Seq(Event) /\ received \in Seq(Event)
    BY DEF TestShape, Test!TypeOK, Event
<1>2. received \o events \in Seq(Event)
    BY <1>1, ConcatProperties
<1>3. MaxEvents \in Nat /\ Test!Dial = 0 /\ Test!Last = MaxEvents + 1 /\ Event = 0..(MaxEvents + 1)
    BY TestAssumption DEF Test!Dial, Test!Last, Event
<1>4. emitted \in 0..MaxEvents /\ (sending => emitted < MaxEvents)
    BY DEF TestShape, Test!TypeOK
<1> HIDE DEF Event
<1> QED
    BY <1>1, <1>2, <1>3, <1>4

-----------------------------------------------------------------------------
LEMMA TestInit == Test!Init => TestInv
<1> SUFFICES ASSUME Test!Init PROVE TestInv
    OBVIOUS
<1>1. /\ test = "preparing" /\ outcome = "none" /\ counted = FALSE
      /\ sending = FALSE /\ emitted = 0 /\ dials = 0
      /\ events = <<>> /\ closedEvents = FALSE /\ streaming = TRUE /\ client = "reading"
      /\ cancelled = FALSE /\ received = <<>> /\ crashed = FALSE
    BY DEF Test!Init
<1>2. Test!TypeOK
  <2>1. <<>> \in Seq(0..Test!Last) /\ Len(<<>>) = 0
      BY EmptySeq
  <2>2. 0 \in 0..MaxEvents /\ 0 \in 0..MaxDials /\ 0 <= Buffer
      BY TestAssumption
  <2> QED
      BY <1>1, <2>1, <2>2, Zenon DEF Test!TypeOK
<1>3. TestShape
    BY <1>1, <1>2 DEF TestShape
<1>4. InOrder(received \o events, emitted, LastSent)
  <2>1. received \o events = <<>> /\ Len(<<>>) = 0
      BY <1>1, EmptySeq, ConcatEmptySeq
  <2>2. LastSent = 0 /\ Test!Own(<<>>, 0) = 0
      BY <1>1, OwnOfNone DEF LastSent
  <2> QED
      BY <1>1, <2>1, <2>2 DEF InOrder
<1> QED
    BY <1>3, <1>4 DEF TestInv

(* A step that leaves the stream alone.                                    *)
LEMMA StreamStays ==
    ASSUME TestInv, TestShape', UNCHANGED emitted, LastSent' = LastSent,
           client' = "reading" =>
               client = "reading" /\ received' \o events' = received \o events
    PROVE  TestInv'
BY DEF TestInv

(* A step that puts x into the channel.                                    *)
LEMMA StreamGrows ==
    ASSUME TestInv, TestShape', NEW x \in Event,
           events' = Append(events, x), UNCHANGED <<received, client>>,
           emitted <= emitted', x # Test!Dial => LastSent = 0,
           emitted' + LastSent' = emitted + LastSent + (IF x # Test!Dial THEN 1 ELSE 0),
           LastSent = 1 => emitted' = emitted,
           x # Test!Dial => x = IF emitted + 1 <= emitted' THEN emitted + 1 ELSE Test!Last
    PROVE  TestInv'
<1>1. emitted \in Nat /\ emitted' \in Nat
      /\ events \in Seq(Event) /\ received \in Seq(Event) /\ received \o events \in Seq(Event)
  <2>1. emitted' \in 0..MaxEvents /\ MaxEvents \in Nat
      BY TestAssumption DEF TestShape, Test!TypeOK
  <2> QED
      BY <2>1, TestValues DEF TestInv
<1>2. received' \o events' = Append(received \o events, x)
    BY <1>1, OneSent
<1>3. LastSent \in {0, 1} /\ LastSent' \in {0, 1}
    BY DEF LastSent
<1>4. ASSUME client = "reading" PROVE InOrder(received' \o events', emitted', LastSent')
    BY <1>1, <1>2, <1>3, <1>4, OneMore DEF TestInv
<1> QED
    BY <1>4 DEF TestInv

-----------------------------------------------------------------------------
LEMMA TestShapeKept ==
    ASSUME TestShape, [Test!Next]_Test!vars
    PROVE  TestShape'
<1> USE DEF TestShape, Test!TypeOK
<1>1. CASE Test!emitProgress
    BY <1>1 DEF Test!emitProgress, Test!call
<1>2. CASE Test!Callback
  <2>1. emitted + 1 \in 0..MaxEvents /\ emitted + 1 \in Event
      BY <1>2, TestAssumption, TestValues DEF Test!Callback
  <2>2. events' \in Seq(0..Test!Last) /\ Len(events') <= Buffer
    <3>1. ASSUME Test!Room PROVE Append(events, emitted + 1) \in Seq(0..Test!Last)
                                 /\ Len(Append(events, emitted + 1)) <= Buffer
        BY <3>1, <2>1, AppendProperties, LenProperties, TestAssumption DEF Test!Room, Event
    <3> QED
        BY <1>2, <3>1 DEF Test!Callback
  <2>3. test # "ended" /\ ~closedEvents
      BY <1>2 DEF Test!Callback
  <2> QED
      BY <1>2, <2>1, <2>2, <2>3 DEF Test!Callback, Test!call
<1>3. CASE Test!Reject \/ Test!Finish
    BY <1>3 DEF Test!Reject, Test!Finish, Test!At, Test!call
<1>4. CASE Test!Launch
    BY <1>4, TestAssumption DEF Test!Launch, Test!At, Test!call
<1>5. CASE Test!Answer
    BY <1>5 DEF Test!Answer, Test!At
<1>6. CASE Test!recordUpstreamResult
  <2>1. counted' \in BOOLEAN /\ (outcome = "cancelled" => ~counted')
      BY <1>6, Zenon DEF Test!recordUpstreamResult
  <2> QED
      BY <1>6, <2>1 DEF Test!recordUpstreamResult, Test!At
<1>7. CASE Test!GiveUp
  <2>1. client = "left"
      BY <1>7 DEF Test!GiveUp, Test!At
  <2> QED
      BY <1>7, <2>1 DEF Test!GiveUp, Test!At
<1>8. CASE Test!SendLast
  <2>1. Append(events, Test!Last) \in Seq(0..Test!Last) /\ Len(Append(events, Test!Last)) <= Buffer
      BY <1>8, TestValues, AppendProperties, LenProperties, TestAssumption
      DEF Test!SendLast, Test!Room, Event
  <2> QED
      BY <1>8, <2>1 DEF Test!SendLast, Test!At, Test!call
<1>9. CASE Test!Close
    BY <1>9 DEF Test!Close, Test!At, Test!call
<1>10. CASE Test!Dialer
  <2>1. dials' \in 0..MaxDials
      BY <1>10, TestAssumption DEF Test!Dialer
  <2>2. ASSUME Test!Room PROVE Append(events, Test!Dial) \in Seq(0..Test!Last)
                               /\ Len(Append(events, Test!Dial)) <= Buffer
      BY <2>2, TestValues, AppendProperties, LenProperties, TestAssumption
      DEF Test!Room, Event
  <2>3. events' \in Seq(0..Test!Last) /\ Len(events') <= Buffer /\ (closedEvents => events' = events)
      BY <1>10, <2>2 DEF Test!Dialer
  <2>4. crashed' \in BOOLEAN
      BY <1>10 DEF Test!Dialer
  <2> QED
      BY <1>10, <2>1, <2>3, <2>4 DEF Test!Dialer, Test!call
<1>11. CASE Test!Encode
  <2>1. events # <<>> /\ events' = Tail(events)
      BY <1>11 DEF Test!Encode
  <2>2. /\ Tail(events) \in Seq(0..Test!Last) /\ Len(Tail(events)) = Len(events) - 1
        /\ Append(received, Head(events)) \in Seq(0..Test!Last)
        /\ Len(events) \in Nat
      BY <2>1, HeadTailProperties, AppendProperties, LenProperties
  <2>3. events' \in Seq(0..Test!Last) /\ Len(events') <= Buffer
    <3>1. Len(events) <= Buffer /\ Buffer \in Nat
        BY TestAssumption
    <3> QED
        BY <2>1, <2>2, <3>1
  <2>4. received' \in Seq(0..Test!Last)
      BY <1>11, <2>2, Zenon DEF Test!Encode
  <2>5. /\ streaming' \in BOOLEAN /\ cancelled' \in BOOLEAN
        /\ client = "reading" => streaming' = streaming /\ cancelled' = cancelled
      BY <1>11 DEF Test!Encode
  <2> QED
      BY <1>11, <2>1, <2>3, <2>4, <2>5 DEF Test!Encode, Test!call
<1>12. CASE Test!Return
    BY <1>12 DEF Test!Return, Test!call
<1>13. CASE Test!ClientLeaves
    BY <1>13 DEF Test!ClientLeaves, Test!call
<1>14. CASE Test!Cancel
    BY <1>14 DEF Test!Cancel, Test!call
<1>15. CASE Test!Gone \/ UNCHANGED Test!vars
    BY <1>15 DEF Test!Gone, Test!vars
<1> QED
    BY <1>1, <1>2, <1>3, <1>4, <1>5, <1>6, <1>7, <1>8,
       <1>9, <1>10, <1>11, <1>12, <1>13, <1>14, <1>15
    DEF Test!Next, Test!Goroutine, Test!Handler

LEMMA TestKept ==
    ASSUME TestInv, [Test!Next]_Test!vars
    PROVE  TestInv'
<1>0. TestShape /\ TestShape'
    BY TestShapeKept DEF TestInv
<1>1. CASE Test!emitProgress \/ Test!Return \/ Test!ClientLeaves \/ Test!Cancel
           \/ Test!Gone \/ UNCHANGED Test!vars
  <2>1. UNCHANGED <<emitted, test, received, events>> /\ (client' = "reading" => client = "reading")
      BY <1>1 DEF Test!emitProgress, Test!Return, Test!ClientLeaves, Test!Cancel, Test!Gone, Test!vars
  <2> QED
      BY <2>1, <1>0, StreamStays DEF LastSent
<1>2. CASE Test!Reject \/ Test!Launch \/ Test!Answer \/ Test!GiveUp
           \/ Test!recordUpstreamResult \/ Test!Finish \/ Test!Close
  <2>1. UNCHANGED <<emitted, received, events, client>> /\ LastSent' = LastSent
      BY <1>2 DEF Test!Reject, Test!Launch, Test!Answer, Test!GiveUp,
      Test!recordUpstreamResult, Test!Finish, Test!Close, Test!At, LastSent
  <2> QED
      BY <2>1, <1>0, StreamStays
<1>3. CASE Test!Callback
  <2>1. /\ LastSent = 0 /\ LastSent' = 0 /\ emitted' = emitted + 1 /\ emitted + 1 \in Event
        /\ emitted \in Nat /\ Test!Dial = 0 /\ UNCHANGED <<received, client>>
      BY <1>0, <1>3, TestValues DEF Test!Callback, TestShape, LastSent
  <2>2. CASE events' = Append(events, emitted + 1)
      BY <2>1, <2>2, <1>0, StreamGrows
  <2>3. CASE cancelled
    <3>1. client # "reading"
        BY <2>3, <1>0, <1>3 DEF TestShape, Test!Callback
    <3> QED
        BY <3>1, <2>1, <1>0 DEF TestInv
  <2> QED
      BY <1>3, <2>2, <2>3 DEF Test!Callback
<1>4. CASE Test!SendLast
  <2>1. /\ LastSent = 0 /\ LastSent' = 1 /\ emitted' = emitted /\ Test!Last \in Event
        /\ emitted \in Nat /\ Test!Last # Test!Dial /\ UNCHANGED <<received, client>>
        /\ events' = Append(events, Test!Last)
      BY <1>0, <1>4, TestValues DEF Test!SendLast, Test!At, LastSent
  <2> QED
      BY <2>1, <1>0, StreamGrows
<1>5. CASE Test!Dialer
  <2>1. /\ LastSent' = LastSent /\ LastSent \in {0, 1} /\ emitted' = emitted
        /\ emitted \in Nat /\ Test!Dial \in Event /\ UNCHANGED <<received, client>>
      BY <1>0, <1>5, TestValues DEF Test!Dialer, LastSent
  <2>2. CASE events' = Append(events, Test!Dial)
      BY <2>1, <2>2, <1>0, StreamGrows
  <2>3. CASE events' = events
      BY <2>1, <2>3, <1>0, StreamStays
  <2> QED
      BY <1>5, <2>2, <2>3 DEF Test!Dialer
<1>6. CASE Test!Encode
  <2>1. /\ UNCHANGED <<emitted, client>> /\ LastSent' = LastSent
        /\ events # <<>> /\ events' = Tail(events)
        /\ events \in Seq(Event) /\ received \in Seq(Event)
      BY <1>0, <1>6, TestValues DEF Test!Encode, LastSent
  <2>2. CASE client = "reading"
    <3>1. received' = Append(received, Head(events))
        BY <1>6, <2>2 DEF Test!Encode
    <3> QED
        BY <3>1, <2>1, <1>0, OneWritten, StreamStays
  <2>3. CASE client # "reading"
      BY <2>1, <2>3, <1>0, StreamStays
  <2> QED
      BY <2>2, <2>3
<1> QED
    BY <1>1, <1>2, <1>3, <1>4, <1>5, <1>6 DEF Test!Next, Test!Goroutine, Test!Handler

LEMMA TestAlways == Test!Spec => []TestInv
BY TestInit, TestKept, PTL DEF Test!Spec

(* The half of TestProgress.TestEnds that is an invariant: the test of a   *)
(* client who stays is never given up, and one given up does not count.    *)
THEOREM LeaversGiveUp == Test!Spec => []Test!OnlyLeaversGiveUp
<1>1. TestInv => Test!OnlyLeaversGiveUp
    BY DEF TestInv, TestShape, Test!OnlyLeaversGiveUp
<1> QED
    BY <1>1, TestAlways, PTL

(* TestProgress.StreamWhole: a client who stays sees every event of the    *)
(* test, once and in order, whatever dialers put in between.               *)
THEOREM StreamIsWhole == Test!Spec => []StreamWhole
<1>1. ASSUME TestInv PROVE StreamWhole
  <2> SUFFICES ASSUME client = "reading" PROVE StreamWhole
      BY DEF StreamWhole, Test!StreamWhole
  <2> DEFINE full == received \o events
             n == Len(received)
  <2>1. /\ received \in Seq(Event) /\ events \in Seq(Event)
        /\ n \in Nat /\ DOMAIN received = 1..n /\ full \in Seq(Event)
        /\ Len(full) \in Nat /\ n <= Len(full)
        /\ \A i \in 1..n : full[i] = received[i]
      BY <1>1, TestValues, LenProperties, ConcatProperties DEF TestInv
  <2>2. InOrder(full, emitted, LastSent) /\ emitted \in Nat /\ LastSent \in {0, 1}
      BY <1>1, TestValues DEF TestInv, LastSent
  <2>3. ASSUME NEW i \in 1..n, received[i] # Test!Dial
        PROVE  \/ received[i] = Test!Own(received, i)
               \/ received[i] = Test!Last /\ Test!Own(received, i) = emitted + 1
    <3>1. i \in Nat /\ i \in 1..Len(full) /\ \A j \in 1..i : received[j] = full[j]
        BY <2>1
    <3>2. Test!Own(received, i) = Test!Own(full, i) /\ Test!Own(full, i) \in Nat
        BY <3>1, OwnOfPrefix, OwnSets
    <3>3. Test!Own(full, i) <= Test!Own(full, Len(full)) /\ Test!Own(full, Len(full)) \in Nat
      <4>1. i <= Len(full)
          BY <2>1, <3>1
      <4> HIDE DEF full
      <4> QED
          BY <3>1, <2>1, <4>1, OwnGrows, OwnSets
    <3>4. received[i] = full[i]
        BY <2>1
    <3> HIDE DEF full
    <3>5. Test!Own(full, i) <= emitted + 1
        BY <2>2, <3>2, <3>3 DEF InOrder
    <3>6. full[i] = IF Test!Own(full, i) <= emitted THEN Test!Own(full, i) ELSE Test!Last
        BY <2>2, <2>3, <3>1, <3>4 DEF InOrder
    <3> QED
        BY <2>2, <3>2, <3>4, <3>5, <3>6
  <2>4. ASSUME ~streaming PROVE Test!Own(received, n) = emitted + 1
    <3>1. events = <<>> /\ test = "ended"
        BY <1>1, <2>4 DEF TestInv, TestShape
    <3>2. full = received /\ LastSent = 1
        BY <3>1, <2>1, ConcatEmptySeq DEF LastSent
    <3> QED
        BY <2>2, <3>2 DEF InOrder
  <2> QED
      BY <2>1, <2>3, <2>4 DEF StreamWhole, Test!StreamWhole
<1> QED
    BY <1>1, TestAlways, PTL

-----------------------------------------------------------------------------
(* A behaviour of the specification TLC checks is a behaviour of each of   *)
(* the parts, so that what is proved of the parts holds of it.             *)
THEOREM PartsAreParts ==
    PartsSpec => Spec /\ Manual!Spec /\ Pacer!Spec /\ End!Spec /\ Cache!Spec /\ Test!Spec
<1>1. PartsInit => Init /\ Manual!Init /\ Pacer!Init /\ End!Init /\ Cache!Init /\ Test!Init
    BY DEF PartsInit
<1>2. ASSUME [PartsNext]_allVars
      PROVE  /\ [Next]_vars
             /\ [Manual!Next]_Manual!vars
             /\ [Pacer!Next]_Pacer!vars
             /\ [End!Next]_End!vars
             /\ [Cache!Next]_Cache!vars
             /\ [Test!Next]_Test!vars
  <2>1. /\ UNCHANGED vars \/ Next
        /\ UNCHANGED manualVars \/ Manual!Next
        /\ UNCHANGED pacerVars \/ Pacer!Next
        /\ UNCHANGED endVars \/ End!Next
        /\ UNCHANGED clientVars \/ Cache!Next
        /\ UNCHANGED testVars \/ Test!Next
    <3>1. CASE UNCHANGED allVars
        BY <3>1 DEF allVars
    <3>2. CASE PartsNext
        BY <3>2 DEF PartsNext, QueueStep, ManualStep, PacerStep, EndStep, ClientStep, TestStep, Only
    <3> QED
        BY <1>2, <3>1, <3>2
  <2> QED
      BY <2>1 DEF manualVars, pacerVars, endVars, clientVars, testVars,
                  Manual!vars, Pacer!vars, End!vars, Cache!vars, Test!vars
<1> QED
    BY <1>1, <1>2, PTL DEF PartsSpec, Spec, Manual!Spec, Pacer!Spec, End!Spec, Cache!Spec, Test!Spec

(* Parts.PartsTypeOK: the types of all parts.                              *)
THEOREM PartsTyped == PartsSpec => []PartsTypeOK
<1>1. EndInv => End!TypeOK
    BY DEF EndInv
<1>2. CacheInv => Cache!TypeOK
    BY DEF CacheInv
<1>3. TestInv => Test!TypeOK
    BY DEF TestInv, TestShape
<1>4. TypeOK /\ Manual!TypeOK /\ Pacer!TypeOK /\ End!TypeOK /\ Cache!TypeOK /\ Test!TypeOK
      => PartsTypeOK
    BY DEF PartsTypeOK
<1> QED
    BY <1>1, <1>2, <1>3, <1>4, PartsAreParts, TypeCorrect, ManualTyped, PacerTyped,
       EndAlways, CacheAlways, TestAlways, PTL
=============================================================================
