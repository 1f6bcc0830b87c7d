---------------------------- MODULE Persistence ----------------------------
(***************************************************************************)
(* The runtime state of internal/store and its single writer, persistence- *)
(* Loop.  Every operation changes memory under the mutex and marks what it *)
(* changed with a fresh revision; the writer copies the marked records,    *)
(* writes them in one transaction without the mutex, and clears the marks  *)
(* that did not change meanwhile.  Manual operations then call Flush and   *)
(* report what the writer answers; automatic ones do not wait.             *)
(*                                                                         *)
(* The content of a record is abstracted to the revision of its last       *)
(* change, with whether the record exists; the revision of a deletion is   *)
(* kept (history: the code forgets it with the record).  The keys of one   *)
(* bulk change share a revision, for the code never compares revisions of  *)
(* different records.  A restart continues the count where the code starts *)
(* over: no revision in memory survives a crash, and the stamps on disk    *)
(* stay distinguishable.  Captures are modelled in CaptureStore.           *)
(***************************************************************************)
EXTENDS Naturals

CONSTANTS Config,       \* the global configuration record
          Keys,         \* the key ids
          Nodes,        \* the proxy node ids
          Minutes,      \* the metric buckets
          Clients,      \* goroutines that call manual operations
          Nobody,       \* the writer serves no client
          MaxRevision   \* bound: changes in the life of the database

Durable == {Config} \cup Keys \cup Nodes
Records == Durable \cup Minutes

ASSUME KindsAssumption == Durable \cap Minutes = {}
ASSUME NobodyAssumption == Nobody \notin Clients
ASSUME MaxRevisionAssumption == MaxRevision \in Nat

VARIABLES mem,       \* memory: [rev, live] of every record
          dirty,     \* the revision marked for the writer, 0: none
          revision,  \* the last revision given out
          expired,   \* metric buckets more than seven days old
          disk,      \* what the database holds
          closed,    \* the store refuses changes
          writer,    \* where persistenceLoop is
          job,       \* why it runs persistMetadata
          serving,   \* the client whose flush request it runs it for
          snap,      \* its snapshot: marks, contents and whether it prunes
          saved,     \* the outcome of its transaction
          closeErr,  \* what Close reports
          call,      \* where each client's manual operation is
          promised,  \* history: the revisions in memory when the operation called Flush
          acked      \* history: the newest revision reported as saved

storeVars == <<mem, dirty, revision, expired, disk, closed>>
writerVars == <<writer, job, serving, snap, saved, closeErr>>
clientVars == <<call, promised, acked>>
vars == <<storeVars, writerVars, clientVars>>

Content == [rev : Nat, live : BOOLEAN]
Revisions == [Records -> Nat]
NoRevisions == [r \in Records |-> 0]
NoPromise == [r \in Durable |-> 0]
InMemory == [r \in Durable |-> mem[r].rev]

TypeOK ==
    /\ mem \in [Records -> Content]
    /\ dirty \in Revisions
    /\ revision \in Nat
    /\ expired \in SUBSET Minutes
    /\ disk \in [Records -> Content]
    /\ closed \in BOOLEAN
    /\ writer \in {"loop", "select", "snapshot", "update", "settle",
                   "serve", "captures", "drain", "done"}
    /\ job \in {"flush", "tick", "extra", "stop"}
    /\ serving \in Clients \cup {Nobody}
    /\ snap \in [revs : Revisions, contents : [Records -> Content], pruned : SUBSET Minutes]
    /\ saved \in BOOLEAN
    /\ closeErr \in {"none", "nil", "error"}
    /\ call \in [Clients -> {"idle", "flush", "sent", "nil", "error"}]
    /\ promised \in [Clients -> [Durable -> Nat]]
    /\ acked \in [Durable -> Nat]

(* A database just created: init writes the default configuration.         *)
Empty == [r \in Records |-> [rev |-> 0, live |-> r = Config]]
NoSnapshot == [revs |-> NoRevisions, contents |-> Empty, pruned |-> {}]

Init ==
    /\ mem = Empty
    /\ dirty = NoRevisions
    /\ revision = 0
    /\ expired = {}
    /\ disk = Empty
    /\ closed = FALSE
    /\ writer = "loop"
    /\ job = "tick"
    /\ serving = Nobody
    /\ snap = NoSnapshot
    /\ saved = FALSE
    /\ closeErr = "none"
    /\ call = [c \in Clients |-> "idle"]
    /\ promised = [c \in Clients |-> NoPromise]
    /\ acked = NoPromise

-----------------------------------------------------------------------------
(* Changes of memory, in one critical section each.                        *)

LiveKeys == {k \in Keys : mem[k].live}

(* With "gone", the expired metric buckets dropped in the same section.    *)
Change(S, live, gone) ==
    /\ ~closed
    /\ revision < MaxRevision
    /\ revision' = revision + 1
    /\ mem' = [r \in Records |->
                  IF r \in S THEN [rev |-> revision + 1, live |-> live]
                  ELSE IF r \in gone THEN [mem[r] EXCEPT !.live = FALSE]
                  ELSE mem[r]]
    /\ dirty' = [r \in Records |->
                  IF r \in S THEN revision + 1 ELSE IF r \in gone THEN 0 ELSE dirty[r]]
    /\ UNCHANGED <<expired, disk, closed>>

CallFlush(c) ==
    /\ call[c] = "idle"
    /\ call' = [call EXCEPT ![c] = "flush"]
    /\ promised' = [promised EXCEPT ![c] = InMemory']
    /\ UNCHANGED acked

ManualChange(c, S, live) ==
    /\ Change(S, live, {})
    /\ CallFlush(c)
    /\ UNCHANGED writerVars

SaveGlobalConfig(c) == ManualChange(c, {Config}, TRUE)

(* UpdateKey, RestoreKey, and the bulk changes of any non-empty set.       *)
changeKeys(c, S) == S # {} /\ S \subseteq LiveKeys /\ ManualChange(c, S, TRUE)

(* A bulk change that finds nothing to do still flushes.                   *)
ChangeNothing(c) ==
    /\ ~closed
    /\ UNCHANGED <<storeVars, writerVars>>
    /\ CallFlush(c)

CreateKey(c, k) == k \notin LiveKeys /\ ManualChange(c, {k}, TRUE)
DeleteKeys(c, S) == S # {} /\ S \subseteq LiveKeys /\ ManualChange(c, S, FALSE)
UpdateProxyNode(c, n) == mem[n].live /\ ManualChange(c, {n}, TRUE)
DeleteProxyNode(c, n) == ManualChange(c, {n}, FALSE)

AutomaticChange(S, gone) ==
    /\ Change(S, TRUE, gone)
    /\ UNCHANGED <<writerVars, clientVars>>

(* RecordSuccess, RecordFailure, RecordRateLimit, RecordNon429 and         *)
(* PrepareCapture: the outcome of a request.                               *)
mutateKey(k) == k \in LiveKeys /\ AutomaticChange({k}, {})

(* A heartbeat registers the node again if it has been deleted.            *)
UpsertProxyNodeReport(n) == AutomaticChange({n}, {})

(* A sample updates its bucket and, with a first-byte time, its key; the   *)
(* expired buckets are pruned at most once a minute.                       *)
RecordMetric(m, K) ==
    /\ m \notin expired
    /\ K \subseteq LiveKeys
    /\ \E gone \in {{}, expired} : AutomaticChange({m} \cup K, gone)

(* A week has passed.                                                      *)
Expire(m) ==
    /\ expired' = expired \cup {m}
    /\ UNCHANGED <<mem, dirty, revision, disk, closed, writerVars, clientVars>>

-----------------------------------------------------------------------------
(* The calling side of Flush and Close.                                    *)

Return(c, error) ==
    /\ call' = [call EXCEPT ![c] = "idle"]
    /\ promised' = [promised EXCEPT ![c] = NoPromise]
    /\ acked' = IF error THEN acked
                ELSE [r \in Durable |-> IF promised[c][r] > acked[r] THEN promised[c][r]
                                        ELSE acked[r]]
    /\ UNCHANGED <<storeVars, writerVars>>

(* Mutant: the error of the flush is dropped.                              *)
FlushReturns_Ignored(c) == call[c] \in {"nil", "error"} /\ Return(c, FALSE)

FlushReturns(c) == call[c] \in {"nil", "error"} /\ Return(c, call[c] = "error")

(* Mutant: Flush does not watch the stop channel while it asks.            *)
FlushClosed_Blocked(c) == call[c] \in {"nil", "error"} /\ writer = "done" /\ Return(c, TRUE)

(* ErrClosed: the store was closed before the request was accepted, or the *)
(* writer is done and select prefers that to the answer.                   *)
FlushClosed(c) ==
    /\ \/ call[c] = "flush" /\ closed
       \/ call[c] \in {"nil", "error"} /\ writer = "done"
    /\ Return(c, TRUE)

Close ==
    /\ ~closed
    /\ closed' = TRUE
    /\ UNCHANGED <<mem, dirty, revision, expired, disk, writerVars, clientVars>>

-----------------------------------------------------------------------------
(* persistenceLoop.                                                        *)

FlushWaiting == \E c \in Clients : call[c] = "flush"

(* A waiting request is taken before anything else at the top of the loop, *)
(* with equal rights in the select, and once between the metadata and the  *)
(* captures of a tick.                                                     *)
AcceptFlush(c) ==
    /\ writer \in {"loop", "select", "serve"}
    /\ call[c] = "flush"
    /\ call' = [call EXCEPT ![c] = "sent"]
    /\ writer' = "snapshot"
    /\ job' = IF writer = "serve" THEN "extra" ELSE "flush"
    /\ serving' = c
    /\ UNCHANGED <<storeVars, snap, saved, closeErr, promised, acked>>

NoFlushWaiting ==
    /\ writer \in {"loop", "serve"}
    /\ ~FlushWaiting
    /\ writer' = IF writer = "loop" THEN "select" ELSE "captures"
    /\ UNCHANGED <<storeVars, job, serving, snap, saved, closeErr, clientVars>>

SelectOther(why) ==
    /\ writer = "select"
    /\ writer' = "snapshot"
    /\ job' = why
    /\ serving' = Nobody
    /\ UNCHANGED <<storeVars, snap, saved, closeErr, clientVars>>

Tick == SelectOther("tick")
Stop == closed /\ SelectOther("stop")

(* persistMetadata returns: the flush request is answered, and the loop    *)
(* goes on as its job says.                                                *)
AfterSuccess == [flush |-> "loop", tick |-> "serve", extra |-> "captures", stop |-> "drain"]
AfterFailure == [flush |-> "loop", tick |-> "loop", extra |-> "captures", stop |-> "done"]

Finish(ok) ==
    /\ call' = [c \in Clients |-> IF c = serving THEN (IF ok THEN "nil" ELSE "error")
                                  ELSE call[c]]
    /\ writer' = (IF ok THEN AfterSuccess ELSE AfterFailure)[job]
    /\ closeErr' = IF job = "stop" /\ ~ok THEN "error" ELSE closeErr
    /\ serving' = Nobody
    /\ job' = "tick"
    /\ snap' = NoSnapshot
    /\ saved' = FALSE
    /\ UNCHANGED <<promised, acked>>

BeginUpdate(prune) ==
    /\ writer' = "update"
    /\ snap' = [revs |-> dirty', contents |-> mem', pruned |-> IF prune THEN expired ELSE {}]
    /\ UNCHANGED <<job, serving, saved, closeErr, clientVars>>

(* Mutant: only a changed configuration is a reason to write.              *)
Snapshot_ConfigOnly(gone, prune) ==
    /\ writer = "snapshot"
    /\ mem' = [r \in Records |-> IF r \in gone THEN [mem[r] EXCEPT !.live = FALSE] ELSE mem[r]]
    /\ dirty' = [r \in Records |-> IF r \in gone THEN 0 ELSE dirty[r]]
    /\ IF dirty[Config] = 0 /\ ~prune THEN Finish(TRUE) ELSE BeginUpdate(prune)
    /\ UNCHANGED <<revision, expired, disk, closed>>

(* Under the mutex: prune memory (once a minute), copy the marks and the   *)
(* marked records.  The disk is pruned once a minute too, by a clock of    *)
(* the writer's own.  With nothing marked and no pruning due there is no   *)
(* transaction.                                                            *)
Snapshot(gone, prune) ==
    /\ writer = "snapshot"
    /\ mem' = [r \in Records |-> IF r \in gone THEN [mem[r] EXCEPT !.live = FALSE] ELSE mem[r]]
    /\ dirty' = [r \in Records |-> IF r \in gone THEN 0 ELSE dirty[r]]
    /\ \/ dirty' = NoRevisions /\ ~prune /\ Finish(TRUE)
       \/ (dirty' # NoRevisions \/ prune) /\ BeginUpdate(prune)
    /\ UNCHANGED <<revision, expired, disk, closed>>

(* One transaction: marked records are written, or deleted when they are   *)
(* gone from memory, then old buckets are deleted.                         *)
Commit ==
    /\ writer = "update"
    /\ disk' = [r \in Records |->
                  LET new == IF snap.revs[r] # 0 THEN snap.contents[r] ELSE disk[r]
                  IN  IF r \in snap.pruned THEN [new EXCEPT !.live = FALSE] ELSE new]
    /\ writer' = "settle"
    /\ saved' = TRUE
    /\ UNCHANGED <<mem, dirty, revision, expired, closed, job, serving, snap, closeErr, clientVars>>

UpdateFails ==
    /\ writer = "update"
    /\ writer' = "settle"
    /\ saved' = FALSE
    /\ UNCHANGED <<storeVars, job, serving, snap, closeErr, clientVars>>

(* Mutant: the marks of all records in the snapshot are cleared.           *)
clearRevisions_All ==
    dirty' = [r \in Records |-> IF saved /\ snap.revs[r] # 0 THEN 0 ELSE dirty[r]]

(* Under the mutex again: a mark is cleared only if it is still the one    *)
(* that was saved; after an error all stay.                                *)
clearRevisions ==
    dirty' = [r \in Records |-> IF saved /\ dirty[r] = snap.revs[r] THEN 0 ELSE dirty[r]]

Settle ==
    /\ writer = "settle"
    /\ clearRevisions
    /\ Finish(saved)
    /\ UNCHANGED <<mem, revision, expired, disk, closed>>

(* One capture transaction of a tick, whatever its outcome.                *)
PersistCaptures ==
    /\ writer = "captures"
    /\ writer' = "loop"
    /\ UNCHANGED <<storeVars, job, serving, snap, saved, closeErr, clientVars>>

(* Shutdown writes all captures, then closes the database; either may fail. *)
DrainAndExit ==
    /\ writer = "drain"
    /\ writer' = "done"
    /\ closeErr' \in {"nil", "error"}
    /\ UNCHANGED <<storeVars, job, serving, snap, saved, clientVars>>

(* The process dies at any point, or exits, and is started again: Open     *)
(* loads what the database holds, except expired buckets.                  *)
Restart ==
    /\ mem' = [r \in Records |-> IF r \in expired THEN [disk[r] EXCEPT !.live = FALSE] ELSE disk[r]]
    /\ dirty' = NoRevisions
    /\ closed' = FALSE
    /\ writer' = "loop"
    /\ job' = "tick"
    /\ serving' = Nobody
    /\ snap' = NoSnapshot
    /\ saved' = FALSE
    /\ closeErr' = "none"
    /\ call' = [c \in Clients |-> "idle"]
    /\ promised' = [c \in Clients |-> NoPromise]
    /\ UNCHANGED <<revision, expired, disk, acked>>

-----------------------------------------------------------------------------
Manual(c) ==
    \/ SaveGlobalConfig(c)
    \/ \E S \in SUBSET Keys : changeKeys(c, S) \/ DeleteKeys(c, S)
    \/ ChangeNothing(c)
    \/ \E k \in Keys : CreateKey(c, k)
    \/ \E n \in Nodes : UpdateProxyNode(c, n) \/ DeleteProxyNode(c, n)

Automatic ==
    \/ \E k \in Keys : mutateKey(k)
    \/ \E n \in Nodes : UpsertProxyNodeReport(n)
    \/ \E m \in Minutes : Expire(m) \/ RecordMetric(m, {}) \/ \E k \in Keys : RecordMetric(m, {k})

Write ==
    \/ \E gone \in {{}, expired}, prune \in BOOLEAN : Snapshot(gone, prune)
    \/ Commit
    \/ UpdateFails
    \/ Settle

Loop ==
    \/ \E c \in Clients : AcceptFlush(c)
    \/ NoFlushWaiting
    \/ Tick
    \/ Stop
    \/ Write
    \/ PersistCaptures
    \/ DrainAndExit

Next ==
    \/ \E c \in Clients : Manual(c) \/ FlushReturns(c) \/ FlushClosed(c)
    \/ Automatic
    \/ Close
    \/ Loop
    \/ Restart

Spec == Init /\ [][Next]_vars

(* The loop is one goroutine that never stops working: transactions end,   *)
(* the ticker ticks.  Go hands a channel to its senders in the order they  *)
(* came, so a waiting request cannot be passed over for ever, and a client *)
(* that can go on does.  Nothing says that a transaction succeeds; what    *)
(* needs it adds DiskRecovers: tried for ever, it succeeds some time.      *)
LoopFairness ==
    /\ WF_vars(Loop)
    /\ \A c \in Clients : /\ SF_vars(AcceptFlush(c))
                          /\ WF_vars(FlushReturns(c) \/ FlushClosed(c))
DiskRecovers == SF_vars(Commit)

FairSpec == Spec /\ LoopFairness

-----------------------------------------------------------------------------
(* runtime.go:206 "Flush confirms current metadata is durable": whatever   *)
(* was in memory when a call that reported success asked for the flush is  *)
(* on disk, in that or a newer version, through all crashes since.         *)
Acknowledged == \A r \in Durable : acked[r] <= disk[r].rev

(* What carries no mark is on disk as it is in memory: a snapshot written  *)
(* by the loop never clears the mark of a change made behind its back.     *)
CleanIsSaved == \A r \in Records : dirty[r] = 0 /\ r \notin expired => mem[r] = disk[r]

(* A shutdown that reports no error has left nothing unsaved.              *)
CloseSaves == closeErr = "nil" => \A r \in Durable : mem[r] = disk[r]

(* The three together, with the types.                                     *)
NothingLost ==
    /\ TypeOK
    /\ Acknowledged
    /\ CleanIsSaved
    /\ CloseSaves

(* Every manual call returns, also when the store is closed under it or    *)
(* the disk fails for ever: nobody waits for a reply of a loop that has    *)
(* gone.                                                                   *)
FlushAnswered == \A c \in Clients : call[c] # "idle" ~> call[c] = "idle"

(* README "the latest metadata pending for retry": if the disk recovers, a  *)
(* change is saved, unless a crash or the end of the loop comes first.     *)
Unsaved(r, n) == mem[r].rev >= n /\ disk[r].rev < n /\ writer # "done"
SavedEventually ==
    DiskRecovers => \A r \in Durable, n \in 1..MaxRevision : Unsaved(r, n) ~> ~Unsaved(r, n)

(* The store implements the abstract durable store.                        *)
Promise == INSTANCE DurableStore WITH
               Records <- Durable, Callers <- Clients,
               current <- [r \in Durable |-> mem[r]],
               stored <- [r \in Durable |-> disk[r]],
               calling <- {c \in Clients : call[c] # "idle"}
PromiseSpec == Promise!Spec
=============================================================================
