------------------------------ MODULE Shutdown ------------------------------
(***************************************************************************)
(* The end of the process (main of cmd/server, with Shutdown and Close of  *)
(* net/http and CloseContext of the store).  A signal, or a server that    *)
(* fails, begins it; one deadline is shared by the two servers, which are  *)
(* shut down concurrently, and by the final flush that follows.            *)
(*                                                                         *)
(* Requests to the API change automatic state when they end; requests to   *)
(* the admin server change something and wait for their flush.  Of the     *)
(* store only that much is kept; Persistence has the rest.                 *)
(***************************************************************************)
EXTENDS Naturals, FiniteSets

CONSTANTS ApiRequests,    \* requests to the API server
          AdminRequests,  \* requests to the admin server that change something
          Deadline        \* the five seconds, in ticks

Handlers == ApiRequests \cup AdminRequests
Servers == {"api", "admin"}
ServerOf(r) == IF r \in ApiRequests THEN "api" ELSE "admin"

VARIABLES main,      \* where the main goroutine is
          left,      \* ticks until the deadline
          server,    \* the state of each server
          handler,   \* the state of each request
          closed,    \* the store takes no more changes
          writer,    \* the persistence loop
          recorded,  \* requests whose change is in memory
          saved      \* requests whose change is on disk

vars == <<main, left, server, handler, closed, writer, recorded, saved>>

TypeOK ==
    /\ main \in {"serving", "stopping", "closing", "clean", "unsaved"}
    /\ left \in 0..Deadline
    /\ server \in [Servers -> {"up", "draining", "stopped", "cut"}]
    /\ handler \in [Handlers -> {"none", "running", "flushing", "answered", "refused"}]
    /\ closed \in BOOLEAN
    /\ writer \in {"loop", "saved", "failed"}
    /\ recorded \in SUBSET Handlers
    /\ saved \in SUBSET recorded

Init ==
    /\ main = "serving"
    /\ left = Deadline
    /\ server = [s \in Servers |-> "up"]
    /\ handler = [r \in Handlers |-> "none"]
    /\ closed = FALSE
    /\ writer = "loop"
    /\ recorded = {}
    /\ saved = {}

Alive == main \notin {"clean", "unsaved"}
Active(s) == {r \in Handlers : ServerOf(r) = s /\ handler[r] \in {"running", "flushing"}}

-----------------------------------------------------------------------------
Accept(r) ==
    /\ Alive
    /\ server[ServerOf(r)] = "up"
    /\ handler[r] = "none"
    /\ handler' = [handler EXCEPT ![r] = "running"]
    /\ UNCHANGED <<main, left, server, closed, writer, recorded, saved>>

(* A request records its outcome, or makes its change.  A closed store     *)
(* refuses both.  Handlers run on when their connection is closed.         *)
Change(r) ==
    /\ Alive
    /\ handler[r] = "running"
    /\ IF closed
         THEN /\ handler' = [handler EXCEPT ![r] = "refused"]
              /\ UNCHANGED recorded
         ELSE /\ handler' = [handler EXCEPT ![r] = IF r \in ApiRequests THEN "answered" ELSE "flushing"]
              /\ recorded' = recorded \cup {r}
    /\ UNCHANGED <<main, left, server, closed, writer, saved>>

(* The loop replies, with an error or without, or it is gone.              *)
Flush(r) ==
    /\ Alive
    /\ handler[r] = "flushing"
    /\ \/ handler' = [handler EXCEPT ![r] = "answered"]
       \/ /\ closed
          /\ handler' = [handler EXCEPT ![r] = "refused"]
    /\ UNCHANGED <<main, left, server, closed, writer, recorded, saved>>

Persist ==
    /\ Alive
    /\ writer = "loop"
    /\ saved' = recorded
    /\ UNCHANGED <<main, left, server, handler, closed, writer, recorded>>

(* The last transaction of the loop and the captures; either may fail.     *)
FinalPersist ==
    /\ Alive
    /\ closed
    /\ writer = "loop"
    /\ \/ saved' = recorded /\ writer' = "saved"
       \/ saved' \in {saved, recorded} /\ writer' = "failed"
    /\ UNCHANGED <<main, left, server, handler, closed, recorded>>

-----------------------------------------------------------------------------
Signal ==
    /\ main = "serving"
    /\ main' = "stopping"
    /\ UNCHANGED <<left, server, handler, closed, writer, recorded, saved>>

(* A server that fails takes no more requests; main goes on as above.      *)
ServerFails(s) ==
    /\ main = "serving"
    /\ main' = "stopping"
    /\ server' = [server EXCEPT ![s] = "draining"]
    /\ UNCHANGED <<left, handler, closed, writer, recorded, saved>>

BeginShutdown(s) ==
    /\ main = "stopping"
    /\ server[s] = "up"
    /\ server' = [server EXCEPT ![s] = "draining"]
    /\ UNCHANGED <<main, left, handler, closed, writer, recorded, saved>>

Drained(s) ==
    /\ main = "stopping"
    /\ server[s] = "draining"
    /\ Active(s) = {}
    /\ server' = [server EXCEPT ![s] = "stopped"]
    /\ UNCHANGED <<main, left, handler, closed, writer, recorded, saved>>

(* Shutdown gives up at the deadline, and Close follows.                   *)
CutOff(s) ==
    /\ main = "stopping"
    /\ server[s] = "draining"
    /\ left = 0
    /\ server' = [server EXCEPT ![s] = "cut"]
    /\ UNCHANGED <<main, left, handler, closed, writer, recorded, saved>>

Down(s) == server[s] \in {"stopped", "cut"}

(* Mutant: only one server is waited for.                                  *)
CloseContext_One ==
    /\ main = "stopping"
    /\ \E s \in Servers : Down(s)
    /\ main' = "closing"
    /\ closed' = TRUE
    /\ UNCHANGED <<left, server, handler, writer, recorded, saved>>

CloseContext ==
    /\ main = "stopping"
    /\ \A s \in Servers : Down(s)
    /\ main' = "closing"
    /\ closed' = TRUE
    /\ UNCHANGED <<left, server, handler, writer, recorded, saved>>

(* Mutant: the loop is waited for, however long it takes.                  *)
Exit_Patient ==
    /\ main = "closing"
    /\ \/ writer = "saved" /\ main' = "clean"
       \/ writer = "failed" /\ main' = "unsaved"
    /\ UNCHANGED <<left, server, handler, closed, writer, recorded, saved>>

(* The wait of CloseContext ends with the loop or at the deadline; if both *)
(* have come, either decides what it returns.                              *)
Exit ==
    /\ main = "closing"
    /\ \/ writer = "saved" /\ main' = "clean"
       \/ writer = "failed" /\ main' = "unsaved"
       \/ left = 0 /\ main' = "unsaved"
    /\ UNCHANGED <<left, server, handler, closed, writer, recorded, saved>>

Tick ==
    /\ main \in {"stopping", "closing"}
    /\ left > 0
    /\ left' = left - 1
    /\ UNCHANGED <<main, server, handler, closed, writer, recorded, saved>>

Gone == ~Alive /\ UNCHANGED vars

Main ==
    \/ \E s \in Servers : BeginShutdown(s) \/ Drained(s) \/ CutOff(s)
    \/ CloseContext
    \/ Exit

Next ==
    \/ \E r \in Handlers : Accept(r) \/ Change(r) \/ Flush(r)
    \/ Persist
    \/ FinalPersist
    \/ Signal
    \/ \E s \in Servers : ServerFails(s)
    \/ Main
    \/ Tick
    \/ Gone

Spec == Init /\ [][Next]_vars

(* Time passes, and main goes on when it can.  Of requests and of the disk *)
(* nothing is assumed.                                                     *)
FairSpec == Spec /\ WF_vars(Tick) /\ WF_vars(Main)

-----------------------------------------------------------------------------
(* README "a best-effort final flush": an exit without an error message    *)
(* has everything on disk that was in memory, also what requests recorded  *)
(* that were cut off; no change is made behind the last transaction.       *)
CleanExitSaves == main = "clean" => recorded \subseteq saved

(* README "allows up to five seconds for shutdown": a request that was     *)
(* accepted is answered, and finds the store open, unless its own or the   *)
(* other server was cut off at the deadline.                               *)
DrainedInPeace ==
    (\A s \in Servers : server[s] # "cut") =>
        /\ \A r \in Handlers : handler[r] # "refused"
        /\ ~Alive => \A r \in Handlers : handler[r] \in {"none", "answered"}

(* Both together.                                                          *)
ShutdownSafe == CleanExitSaves /\ DrainedInPeace

(* "up to five seconds" again: the process ends, whatever requests and disk do.        *)
ProcessEnds == main = "stopping" ~> ~Alive
=============================================================================
