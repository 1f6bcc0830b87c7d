---------------------------- MODULE TestProgress ----------------------------
(***************************************************************************)
(* The stream of a key test (testKeyProgress of internal/admin, with Test- *)
(* KeyWithProgress of internal/gateway).  One goroutine tests the key; it  *)
(* sends what happens through a bounded channel to the handler, which      *)
(* writes it to the client.  Dialers of the HTTP transport report through  *)
(* the same channel, even when the test does not wait for them any more.   *)
(* Each test has a channel of its own, so there is one test here.          *)
(*                                                                         *)
(* The call runs under the request's context, and nothing but that limits  *)
(* it: an upstream may never answer.  A call that ends because the client  *)
(* has left ends with context.Canceled, and counts for nothing.            *)
(*                                                                         *)
(* Events of the test are numbered; 0 is any report of a dialer.  The list *)
(* that the recorder keeps of the events is left out.                      *)
(***************************************************************************)
EXTENDS Naturals, Sequences, FiniteSets

CONSTANTS Buffer,     \* events the channel holds: 32
          MaxEvents,  \* bound: events of the test before the last one
          MaxDials    \* bound: reports of dialers

Dial == 0
Last == MaxEvents + 1   \* "done" or "error"

VARIABLES test,       \* where the goroutine of the test is
          outcome,    \* how the call to the upstream has ended
          counted,    \* the outcome is recorded for the key
          sending,    \* it is in the progress callback
          emitted,    \* events it has handed over, or dropped for a client that left
          dials,      \* reports dialers may still make
          events,     \* the channel
          closed,     \* it is closed
          streaming,  \* the handler has not returned
          client,     \* the client reads, or has left
          cancelled,  \* the request's context
          received,   \* history: what has been written to the client
          crashed     \* a dialer has sent on the closed channel

vars == <<test, outcome, counted, sending, emitted, dials, events, closed, streaming, client, cancelled,
          received, crashed>>

TypeOK ==
    /\ test \in {"preparing", "testing", "tested", "recorded", "finishing", "sent", "ended"}
    /\ outcome \in {"none", "answer", "cancelled"}
    /\ counted \in BOOLEAN
    /\ sending \in BOOLEAN
    /\ emitted \in 0..MaxEvents
    /\ dials \in 0..MaxDials
    /\ events \in Seq(0..Last) /\ Len(events) <= Buffer
    /\ closed \in BOOLEAN
    /\ streaming \in BOOLEAN
    /\ client \in {"reading", "left"}
    /\ cancelled \in BOOLEAN
    /\ received \in Seq(0..Last)
    /\ crashed \in BOOLEAN

Init ==
    /\ test = "preparing"
    /\ outcome = "none"
    /\ counted = FALSE
    /\ sending = FALSE
    /\ emitted = 0
    /\ dials = 0
    /\ events = <<>>
    /\ closed = FALSE
    /\ streaming = TRUE
    /\ client = "reading"
    /\ cancelled = FALSE
    /\ received = <<>>
    /\ crashed = FALSE

-----------------------------------------------------------------------------
(* The goroutine of the test                                               *)

call == <<outcome, counted>>

emitProgress ==
    /\ test \in {"preparing", "testing", "tested", "recorded"}
    /\ ~sending
    /\ emitted < MaxEvents
    /\ sending' = TRUE
    /\ UNCHANGED <<test, call, emitted, dials, events, closed, streaming, client, cancelled, received, crashed>>

Room == Len(events) < Buffer

(* Mutant: an event that finds no room is dropped.                         *)
Callback_Drops ==
    /\ sending
    /\ sending' = FALSE
    /\ emitted' = emitted + 1
    /\ events' = IF Room THEN Append(events, emitted + 1) ELSE events
    /\ UNCHANGED <<test, call, dials, closed, streaming, client, cancelled, received, crashed>>

(* Mutant: the client is not watched while the event waits for room.       *)
Callback_Unwatched ==
    /\ sending
    /\ sending' = FALSE
    /\ emitted' = emitted + 1
    /\ Room
    /\ events' = Append(events, emitted + 1)
    /\ UNCHANGED <<test, call, dials, closed, streaming, client, cancelled, received, crashed>>

Callback ==
    /\ sending
    /\ sending' = FALSE
    /\ emitted' = emitted + 1
    /\ \/ Room /\ events' = Append(events, emitted + 1)
       \/ cancelled /\ UNCHANGED events
    /\ UNCHANGED <<test, call, dials, closed, streaming, client, cancelled, received, crashed>>

At(here, there) ==
    /\ test = here
    /\ ~sending
    /\ test' = there

(* No model, or no upstream is configured.                                 *)
Reject ==
    /\ At("preparing", "finishing")
    /\ UNCHANGED <<call, sending, emitted, dials, events, closed, streaming, client, cancelled, received, crashed>>

Launch ==
    /\ At("preparing", "testing")
    /\ dials' = MaxDials
    /\ UNCHANGED <<call, sending, emitted, events, closed, streaming, client, cancelled, received, crashed>>

(* The call ends with an answer, or with an error of its own.  A status    *)
(* 429 is an answer even if the client leaves while its body is read.      *)
Answer ==
    /\ At("testing", "tested")
    /\ outcome' = "answer"
    /\ UNCHANGED <<counted, sending, emitted, dials, events, closed, streaming, client, cancelled, received, crashed>>

GiveUp ==
    /\ At("testing", "tested")
    /\ cancelled
    /\ outcome' = "cancelled"
    /\ UNCHANGED <<counted, sending, emitted, dials, events, closed, streaming, client, cancelled, received, crashed>>

recordUpstreamResult ==
    /\ At("tested", "recorded")
    /\ counted' = (outcome # "cancelled")
    /\ UNCHANGED <<outcome, sending, emitted, dials, events, closed, streaming, client, cancelled, received, crashed>>

Finish ==
    /\ At("recorded", "finishing")
    /\ UNCHANGED <<call, sending, emitted, dials, events, closed, streaming, client, cancelled, received, crashed>>

(* The last event does not watch the client: if there is no room when he   *)
(* has left, the goroutine stays here for ever.                            *)
SendLast ==
    /\ At("finishing", "sent")
    /\ Room
    /\ events' = Append(events, Last)
    /\ UNCHANGED <<call, sending, emitted, dials, closed, streaming, client, cancelled, received, crashed>>

Close ==
    /\ At("sent", "ended")
    /\ closed' = TRUE
    /\ UNCHANGED <<call, sending, emitted, dials, events, streaming, client, cancelled, received, crashed>>

-----------------------------------------------------------------------------
(* A dialer reports at any time after the test has gone to the upstream.   *)
(* If the channel is closed, the select of the callback sends nevertheless *)
(* unless it finds the context cancelled first, and the process dies.      *)
Dialer ==
    /\ dials > 0
    /\ dials' = dials - 1
    /\ \/ closed /\ crashed' = TRUE /\ UNCHANGED events
       \/ ~closed /\ Room /\ events' = Append(events, Dial) /\ UNCHANGED crashed
       \/ cancelled /\ UNCHANGED <<events, crashed>>
    /\ UNCHANGED <<test, call, sending, emitted, closed, streaming, client, cancelled, received>>

-----------------------------------------------------------------------------
(* The handler and its client                                              *)

Encode ==
    /\ streaming
    /\ events # <<>>
    /\ events' = Tail(events)
    /\ \/ received' = Append(received, Head(events)) /\ UNCHANGED <<streaming, cancelled>>
       \/ /\ client = "left"
          /\ streaming' = FALSE
          /\ cancelled' = TRUE
          /\ UNCHANGED received
    /\ UNCHANGED <<test, call, sending, emitted, dials, closed, client, crashed>>

Return ==
    /\ streaming
    /\ closed
    /\ events = <<>>
    /\ streaming' = FALSE
    /\ cancelled' = TRUE
    /\ UNCHANGED <<test, call, sending, emitted, dials, events, closed, client, received, crashed>>

ClientLeaves ==
    /\ client = "reading"
    /\ client' = "left"
    /\ UNCHANGED <<test, call, sending, emitted, dials, events, closed, streaming, cancelled, received, crashed>>

(* The HTTP server finds out.                                              *)
Cancel ==
    /\ client = "left"
    /\ ~cancelled
    /\ cancelled' = TRUE
    /\ UNCHANGED <<test, call, sending, emitted, dials, events, closed, streaming, client, received, crashed>>

Goroutine ==
    \/ Callback \/ Reject \/ Launch
    \/ GiveUp \/ recordUpstreamResult \/ Finish \/ SendLast \/ Close
Handler == Encode \/ Return

(* The handler has returned: the server goes on with other requests.       *)
Gone ==
    /\ crashed \/ ~streaming
    /\ UNCHANGED vars

Next ==
    \/ ~crashed /\ (emitProgress \/ Answer \/ Goroutine \/ Dialer \/ Handler
                        \/ ClientLeaves \/ Cancel)
    \/ Gone

Spec == Init /\ [][Next]_vars

(* Goroutines run, the call among them sees its context cancelled, and the *)
(* client reads on or leaves: one who does neither holds up his own test.  *)
(* Nothing makes the upstream answer: httpClientForProxy sets no timeout   *)
(* for it.                                                                 *)
FairSpec ==
    /\ Spec
    /\ WF_vars(~crashed /\ Goroutine)
    /\ WF_vars(~crashed /\ Handler)
    /\ WF_vars(~crashed /\ Cancel)

-----------------------------------------------------------------------------
(* How many of the first n events of a stream are the test's own.          *)
Own(s, n) == Cardinality({i \in 1..n : s[i] # Dial})

(* A client who stays sees every event of the test once, in order, and the *)
(* last one in the end, however slowly he reads and whatever dialers put   *)
(* in between.                                                             *)
StreamWhole ==
    client = "reading" =>
        /\ \A i \in DOMAIN received : received[i] # Dial =>
              \/ received[i] = Own(received, i)
              \/ received[i] = Last /\ Own(received, i) = emitted + 1
        /\ ~streaming => Own(received, Len(received)) = emitted + 1

(* Only the test of a client who has left is given up, and then it does    *)
(* not count: the handler's own return, which cancels the context as well, *)
(* comes too late for that.                                                *)
OnlyLeaversGiveUp == outcome = "cancelled" => client = "left" /\ ~counted

(* An answer that the test has in hand counts for its key, even if the     *)
(* client leaves, with the channel full of events that nobody will read,   *)
(* between the answer and its recording.                                   *)
AnswerCounts == outcome = "answer" ~> counted \/ crashed

(* The handler returns once the client has left, even if the upstream      *)
(* never answers; and, for a client who stays, once the call to the        *)
(* upstream is over or the test was rejected.                              *)
StreamEnds ==
    client = "left" \/ test \notin {"preparing", "testing"} ~> ~streaming \/ crashed

(* All three.                                                              *)
TestEnds == []OnlyLeaversGiveUp /\ AnswerCounts /\ StreamEnds
=============================================================================
