------------------------------- MODULE Parts -------------------------------
(***************************************************************************)
(* Six parts of the server, each for itself, in one specification: the     *)
(* initial state chooses the subject, and only the subject moves after     *)
(* that.  So a behaviour of Parts is one of each part, in which all but    *)
(* one stand still.                                                        *)
(*                                                                         *)
(*   queue     the admission queue (GlobalQueue)                           *)
(*   manual    the rotation of the manual proxy list (ManualProxy)         *)
(*   pacer     the spacing of launches (LaunchPacer)                       *)
(*   shutdown  the end of the process (Shutdown)                           *)
(*   clients   the cache of HTTP clients (ClientCache)                     *)
(*   test      the progress stream of a key test (TestProgress)            *)
(***************************************************************************)
EXTENDS GlobalQueue, ProxyLists

CONSTANTS ManualRequests, MaxRevision,        \* of ManualProxy
          MaxInterval,                        \* of LaunchPacer
          ApiRequests, AdminRequests, Deadline,   \* of Shutdown
          ClientProxies, MaxClients,          \* of ClientCache
          Buffer, MaxEvents, MaxDials         \* of TestProgress

ASSUME IntervalAssumption == MaxInterval \in Nat
ASSUME DeadlineAssumption == Deadline \in Nat
ASSUME ClientsAssumption == MaxClients \in Nat
ASSUME TestAssumption == Buffer \in Nat /\ MaxEvents \in Nat /\ MaxDials \in Nat

VARIABLES subject,
          configs, holds, active, turns,
          interval, pacerStage, pace, slot, ahead,
          main, left, server, handler, closed, writer, recorded, saved,
          clientStage, proxy, clients, built, count, given,
          test, outcome, counted, sending, emitted, dials, events, closedEvents, streaming,
          client, cancelled, received, crashed

manualVars == <<configs, holds, active, turns>>
pacerVars == <<interval, pacerStage, pace, slot, ahead>>
endVars == <<main, left, server, handler, closed, writer, recorded, saved>>
clientVars == <<clientStage, proxy, clients, built, count, given>>
testVars == <<test, outcome, counted, sending, emitted, dials, events, closedEvents,
              streaming, client, cancelled, received, crashed>>

Manual == INSTANCE ManualProxy WITH Requests <- ManualRequests
Pacer == INSTANCE LaunchPacer WITH stage <- pacerStage
End == INSTANCE Shutdown
Cache == INSTANCE ClientCache WITH Proxies <- ClientProxies, stage <- clientStage
Test == INSTANCE TestProgress WITH closed <- closedEvents

-----------------------------------------------------------------------------
allVars == <<subject, vars, manualVars, pacerVars, endVars, clientVars, testVars>>

(* What does not matter to a part that stands still is not varied.         *)
SomeConfig == CHOOSE c \in [list : Lists, mode : Manual!Modes] : TRUE
SomeProxy == CHOOSE p \in ClientProxies : TRUE

PartsInit ==
    /\ subject \in {"queue", "manual", "pacer", "shutdown", "clients", "test"}
    /\ Init
    /\ Manual!Init
    /\ subject # "manual" => configs = <<SomeConfig>>
    /\ Pacer!Init
    /\ subject # "pacer" => interval = 0
    /\ End!Init
    /\ Cache!Init
    /\ subject # "clients" => proxy = [r \in Requests |-> SomeProxy]
    /\ Test!Init

Only(s, step) == subject = s /\ step /\ UNCHANGED subject
QueueStep(A) == Only("queue", A)
    /\ UNCHANGED <<manualVars, pacerVars, endVars, clientVars, testVars>>
ManualStep(A) == Only("manual", A)
    /\ UNCHANGED <<vars, pacerVars, endVars, clientVars, testVars>>
PacerStep(A) == Only("pacer", A)
    /\ UNCHANGED <<vars, manualVars, endVars, clientVars, testVars>>
EndStep(A) == Only("shutdown", A)
    /\ UNCHANGED <<vars, manualVars, pacerVars, clientVars, testVars>>
ClientStep(A) == Only("clients", A)
    /\ UNCHANGED <<vars, manualVars, pacerVars, endVars, testVars>>
TestStep(A) == Only("test", A)
    /\ UNCHANGED <<vars, manualVars, pacerVars, endVars, clientVars>>

PartsNext ==
    \/ QueueStep(Next)
    \/ ManualStep(Manual!Next)
    \/ PacerStep(Pacer!Next)
    \/ EndStep(End!Next)
    \/ ClientStep(Cache!Next)
    \/ TestStep(Test!Next)

(* The fairness of each part, while it is the subject.                     *)
PartsFairness ==
    /\ \A r \in Requests : WF_allVars(QueueStep(WakeAdmitted(r) \/ WakeAgain(r)))
    /\ WF_allVars(PacerStep(Pacer!Tick))
    /\ \A r \in Requests : WF_allVars(PacerStep(Pacer!Launch(r)))
    /\ WF_allVars(EndStep(End!Tick))
    /\ WF_allVars(EndStep(End!Main))
    /\ WF_allVars(TestStep(~crashed /\ Test!Goroutine))
    /\ WF_allVars(TestStep(~crashed /\ Test!Handler))
    /\ WF_allVars(TestStep(~crashed /\ Test!Cancel))

PartsSpec == PartsInit /\ [][PartsNext]_allVars /\ PartsFairness

-----------------------------------------------------------------------------
(* The types of all parts, and their properties, stated in their modules.  *)
(* Those of the queue are AdmissionSafe, RoomSpec and IdleSlotTaken.       *)
PartsTypeOK ==
    /\ TypeOK
    /\ Manual!TypeOK
    /\ Pacer!TypeOK
    /\ End!TypeOK
    /\ Cache!TypeOK
    /\ Test!TypeOK

RotationSafe == Manual!RotationSafe
NoRollback == Manual!NoRollback
PaceKept == Pacer!PaceKept
WaitEnds == Pacer!WaitEnds
ShutdownSafe == End!ShutdownSafe
ProcessEnds == End!ProcessEnds
OneClient == Cache!OneClient
StreamWhole == Test!StreamWhole
TestEnds == subject = "test" => Test!TestEnds
=============================================================================
