---------------------------- MODULE CaptureStore ----------------------------
(***************************************************************************)
(* The diagnostic captures of internal/store: the last exchange of every   *)
(* key, queued in memory within a budget of records and bytes and written  *)
(* by persistenceLoop at the lowest priority.  A key may be deleted and    *)
(* created again with the same id while requests of its former life are    *)
(* still encoding their capture, while a batch is being written and while  *)
(* the writer holds a metadata snapshot; generations and the mark          *)
(* dirtyCaptureDeletes keep the lives apart.                               *)
(*                                                                         *)
(* A capture is abstracted to its sequence, the generation of its key and  *)
(* its encoded size.  The writer is the one of module Persistence, here    *)
(* with the key marks only; that a flush request is waiting is any caller's *)
(* choice.  A restart keeps the generation stored with the key, where the  *)
(* code draws a new one: no queued capture survives to be compared with.   *)
(***************************************************************************)
EXTENDS Integers, FiniteSets, FiniteSetsExt

CONSTANTS Keys,         \* key ids
          Requests,     \* goroutines that report a capture
          Idle,         \* a goroutine with nothing to report
          Sizes,        \* encoded sizes
          RecordLimit,  \* captureRecordLimit
          QueueLimit,   \* captureQueueLimit
          QueueBytes,   \* captureQueueBytes
          BatchBytes,   \* captureBatchBytes
          MaxRevision   \* bound: changes in the life of the database

ASSUME KeysAssumption == IsFiniteSet(Keys)
ASSUME SizesAssumption == Sizes \subseteq Nat \ {0}
ASSUME LimitsAssumption ==
    /\ {RecordLimit, QueueLimit, QueueBytes, BatchBytes, MaxRevision} \subseteq Nat
    /\ RecordLimit <= BatchBytes

VARIABLES gen,             \* keyGeneration, 0: the key does not exist
          latest,          \* latestCaptureSequence
          ignore,          \* ignoreStoredCapture
          dirtyKeys,       \* the revision marked for the writer, 0: none
          captureDeletes,  \* dirtyCaptureDeletes
          revision,        \* the last revision given out
          closed,          \* the store refuses changes
          pending,         \* pendingCaptures
          flushing,        \* flushingCaptures: the batch being written
          captureBytes,    \* the bytes counted for both
          dropped,         \* droppedCaptures
          report,          \* the prepared capture each request encodes
          reading,         \* GetCapture between its lookup and the disk: the generation it saw
          writer,          \* where persistenceLoop is
          job,             \* why it runs persistMetadata
          snap,            \* the metadata snapshot being written
          saved,           \* the outcome of its transaction
          diskKey,         \* the generation stored for each key, 0: no key
          diskCapture      \* the stored captures

keyVars == <<gen, latest, ignore, dirtyKeys, captureDeletes, revision>>
queueVars == <<pending, flushing, captureBytes, dropped>>
writerVars == <<writer, job, snap, saved>>
diskVars == <<diskKey, diskCapture>>
vars == <<keyVars, closed, queueVars, report, reading, writerVars, diskVars>>

Item == [seq : Nat, gen : Nat, size : Nat]
None == [seq |-> 0, gen |-> 0, size |-> 0]
Zero == [k \in Keys |-> 0]
NoItems == [k \in Keys |-> None]
NoSnapshot == [revs |-> Zero, deletes |-> Zero, gens |-> Zero]

TypeOK ==
    /\ {gen, latest, dirtyKeys, captureDeletes, reading, diskKey} \subseteq [Keys -> Nat]
    /\ ignore \subseteq Keys
    /\ {revision, captureBytes, dropped} \subseteq Nat
    /\ {closed, saved} \subseteq BOOLEAN
    /\ {pending, flushing, diskCapture} \subseteq [Keys -> Item]
    /\ report \in [Requests -> [key : Keys, seq : Nat, gen : Nat] \cup {Idle}]
    /\ writer \in {"loop", "update", "settle", "serve", "captures",
                   "write", "written", "drain", "done", "failed"}
    /\ job \in {"flush", "tick", "extra", "stop"}
    /\ snap \in [revs : [Keys -> Nat], deletes : [Keys -> Nat], gens : [Keys -> Nat]]

Init ==
    /\ gen = Zero
    /\ latest = Zero
    /\ ignore = {}
    /\ dirtyKeys = Zero
    /\ captureDeletes = Zero
    /\ revision = 0
    /\ closed = FALSE
    /\ pending = NoItems
    /\ flushing = NoItems
    /\ captureBytes = 0
    /\ dropped = 0
    /\ report = [t \in Requests |-> Idle]
    /\ reading = Zero
    /\ writer = "loop"
    /\ job = "tick"
    /\ snap = NoSnapshot
    /\ saved = FALSE
    /\ diskKey = Zero
    /\ diskCapture = NoItems

Queued == {k \in Keys : pending[k] # None}
InFlight == {k \in Keys : flushing[k] # None}
Bytes(queue, S) == MapThenSumSet(LAMBDA k : queue[k].size, S)

-----------------------------------------------------------------------------
(* The life of a key.                                                      *)

nextRevision == ~closed /\ revision < MaxRevision /\ revision' = revision + 1

CreateKey(k) ==
    /\ nextRevision
    /\ gen[k] = 0
    /\ gen' = [gen EXCEPT ![k] = revision']
    /\ ignore' = ignore \cup {k}
    /\ dirtyKeys' = [dirtyKeys EXCEPT ![k] = revision']
    /\ captureDeletes' = [captureDeletes EXCEPT ![k] = revision']
    /\ UNCHANGED <<latest, closed, queueVars, report, reading, writerVars, diskVars>>

(* Mutant: the bytes of a deleted capture stay counted.                    *)
DeleteKeys_Leak(S) ==
    /\ nextRevision
    /\ S # {}
    /\ \A k \in S : gen[k] # 0
    /\ gen' = [k \in Keys |-> IF k \in S THEN 0 ELSE gen[k]]
    /\ latest' = [k \in Keys |-> IF k \in S THEN 0 ELSE latest[k]]
    /\ ignore' = ignore \ S
    /\ dirtyKeys' = [k \in Keys |-> IF k \in S THEN revision' ELSE dirtyKeys[k]]
    /\ captureDeletes' = [k \in Keys |-> IF k \in S THEN revision' ELSE captureDeletes[k]]
    /\ pending' = [k \in Keys |-> IF k \in S THEN None ELSE pending[k]]
    /\ UNCHANGED <<closed, flushing, captureBytes, dropped, report, reading, writerVars, diskVars>>

DeleteKeys(S) ==
    /\ nextRevision
    /\ S # {}
    /\ \A k \in S : gen[k] # 0
    /\ gen' = [k \in Keys |-> IF k \in S THEN 0 ELSE gen[k]]
    /\ latest' = [k \in Keys |-> IF k \in S THEN 0 ELSE latest[k]]
    /\ ignore' = ignore \ S
    /\ dirtyKeys' = [k \in Keys |-> IF k \in S THEN revision' ELSE dirtyKeys[k]]
    /\ captureDeletes' = [k \in Keys |-> IF k \in S THEN revision' ELSE captureDeletes[k]]
    /\ pending' = [k \in Keys |-> IF k \in S THEN None ELSE pending[k]]
    /\ captureBytes' = captureBytes - Bytes(pending, S)
    /\ UNCHANGED <<closed, flushing, dropped, report, reading, writerVars, diskVars>>

-----------------------------------------------------------------------------
(* A request reports its exchange: first its place in the order, before    *)
(* the forwarding slot is released, then the encoded capture.              *)

PrepareCapture(t, k) ==
    /\ nextRevision
    /\ report[t] = Idle
    /\ gen[k] # 0
    /\ report' = [report EXCEPT ![t] = [key |-> k, seq |-> revision', gen |-> gen[k]]]
    /\ latest' = [latest EXCEPT ![k] = revision']
    /\ dirtyKeys' = [dirtyKeys EXCEPT ![k] = revision']
    /\ UNCHANGED <<gen, ignore, captureDeletes, closed, queueVars, reading, writerVars, diskVars>>

(* Mutant: the order of completion is not checked.                         *)
Obsolete_Unordered(c) == closed \/ gen[c.key] # c.gen

(* What makes enqueueCapture discard a capture without counting it.        *)
Obsolete(c) ==
    \/ closed
    \/ gen[c.key] # c.gen
    \/ latest[c.key] # c.seq
    \/ pending[c.key].seq > c.seq
    \/ flushing[c.key].seq > c.seq

(* The sets of other keys' pending captures that overflow may drop: the    *)
(* oldest ones, enough of them to leave room for size bytes.               *)
Others(k) == Queued \ {k}
Left(k, D) == captureBytes - Bytes(pending, D \cup {k})
MakesRoom(k, size) ==
    {D \in SUBSET Others(k) :
        /\ \A old \in D, new \in Others(k) \ D : pending[old].seq < pending[new].seq
        /\ Cardinality(Others(k) \ D) + Cardinality(InFlight) < QueueLimit
        /\ Left(k, D) + size <= QueueBytes}

Insert(c, size) ==
    \E D \in MakesRoom(c.key, size) :
        /\ \A E \in MakesRoom(c.key, size) : D \subseteq E
        /\ pending' = [k \in Keys |->
                          IF k = c.key THEN [seq |-> c.seq, gen |-> c.gen, size |-> size]
                          ELSE IF k \in D THEN None
                          ELSE pending[k]]
        /\ captureBytes' = Left(c.key, D) + size
        /\ dropped' = dropped + Cardinality(D)

(* The batch being written leaves no room: everything pending has been     *)
(* dropped when the loop finds out.                                        *)
DropAll(c) ==
    /\ pending' = NoItems
    /\ captureBytes' = Left(c.key, Others(c.key))
    /\ dropped' = dropped + Cardinality(Others(c.key)) + 1

enqueueCapture(t, size) ==
    /\ report[t] # Idle
    /\ report' = [report EXCEPT ![t] = Idle]
    /\ LET c == report[t] IN
       \/ Obsolete(c) /\ UNCHANGED <<pending, captureBytes, dropped>>
       \/ /\ ~Obsolete(c)
          /\ size > RecordLimit
          /\ dropped' = dropped + 1
          /\ UNCHANGED <<pending, captureBytes>>
       \/ /\ ~Obsolete(c)
          /\ size <= RecordLimit
          /\ IF MakesRoom(c.key, size) = {} THEN DropAll(c) ELSE Insert(c, size)
    /\ UNCHANGED <<keyVars, closed, flushing, reading, writerVars, diskVars>>

(* What GetCapture finds for a key.                                        *)
InQueue(k) == LET c == IF pending[k] # None THEN pending[k] ELSE flushing[k]
              IN  IF c.gen = gen[k] THEN c ELSE None
Readable(k) ==
    IF gen[k] = 0 THEN None
    ELSE IF InQueue(k) # None THEN InQueue(k)
    ELSE IF k \in ignore THEN None
    ELSE diskCapture[k]

(* It looks into the queue under the mutex and, if it has to, at the disk  *)
(* without it.                                                             *)
GetCapture(k) ==
    /\ reading[k] = 0
    /\ gen[k] # 0
    /\ InQueue(k) = None
    /\ k \notin ignore
    /\ reading' = [reading EXCEPT ![k] = gen[k]]
    /\ UNCHANGED <<keyVars, closed, queueVars, report, writerVars, diskVars>>

ReadDisk(k) ==
    /\ reading[k] # 0
    /\ reading' = [reading EXCEPT ![k] = 0]
    /\ UNCHANGED <<keyVars, closed, queueVars, report, writerVars, diskVars>>

Close ==
    /\ ~closed
    /\ closed' = TRUE
    /\ UNCHANGED <<keyVars, queueVars, report, reading, writerVars, diskVars>>

-----------------------------------------------------------------------------
(* persistMetadata: the key marks.                                         *)

AfterSuccess == [flush |-> "loop", tick |-> "serve", extra |-> "captures", stop |-> "drain"]
AfterFailure == [flush |-> "loop", tick |-> "loop", extra |-> "captures", stop |-> "failed"]

(* A transaction only if a record is marked or the disk is to be pruned;   *)
(* marked capture deletions alone are no reason.                           *)
Snapshot(why, prune) ==
    /\ IF dirtyKeys = Zero /\ ~prune
       THEN writer' = AfterSuccess[why] /\ UNCHANGED <<job, snap>>
       ELSE /\ writer' = "update"
            /\ job' = why
            /\ snap' = [revs |-> dirtyKeys, deletes |-> captureDeletes, gens |-> gen]
    /\ UNCHANGED <<keyVars, closed, queueVars, report, reading, saved, diskVars>>

FlushOrTick(prune) == writer = "loop" /\ \E why \in {"flush", "tick"} : Snapshot(why, prune)
Stop(prune) == writer = "loop" /\ closed /\ Snapshot("stop", prune)
ServeFlush(prune) == writer = "serve" /\ Snapshot("extra", prune)
NoFlushWaiting ==
    /\ writer = "serve"
    /\ writer' = "captures"
    /\ UNCHANGED <<keyVars, closed, queueVars, report, reading, job, snap, saved, diskVars>>

(* Mutant: captures are deleted with their keys only.                      *)
Commit_Keeps ==
    /\ writer = "update"
    /\ writer' = "settle"
    /\ saved' = TRUE
    /\ diskKey' = [k \in Keys |-> IF snap.revs[k] # 0 THEN snap.gens[k] ELSE diskKey[k]]
    /\ diskCapture' = [k \in Keys |-> IF snap.revs[k] # 0 /\ snap.gens[k] = 0 THEN None
                                      ELSE diskCapture[k]]
    /\ UNCHANGED <<keyVars, closed, queueVars, report, reading, job, snap>>

Commit ==
    /\ writer = "update"
    /\ writer' = "settle"
    /\ saved' = TRUE
    /\ diskKey' = [k \in Keys |-> IF snap.revs[k] # 0 THEN snap.gens[k] ELSE diskKey[k]]
    /\ diskCapture' = [k \in Keys |->
                          IF snap.deletes[k] # 0 \/ (snap.revs[k] # 0 /\ snap.gens[k] = 0)
                          THEN None ELSE diskCapture[k]]
    /\ UNCHANGED <<keyVars, closed, queueVars, report, reading, job, snap>>

UpdateFails ==
    /\ writer = "update"
    /\ writer' = "settle"
    /\ saved' = FALSE
    /\ UNCHANGED <<keyVars, closed, queueVars, report, reading, job, snap, diskVars>>

clearRevisions(marks, copied) ==
    [k \in Keys |-> IF saved /\ marks[k] = copied[k] THEN 0 ELSE marks[k]]

Settle ==
    /\ writer = "settle"
    /\ dirtyKeys' = clearRevisions(dirtyKeys, snap.revs)
    /\ captureDeletes' = clearRevisions(captureDeletes, snap.deletes)
    /\ writer' = (IF saved THEN AfterSuccess ELSE AfterFailure)[job]
    /\ job' = "tick"
    /\ snap' = NoSnapshot
    /\ saved' = FALSE
    /\ UNCHANGED <<gen, latest, ignore, revision, closed, queueVars, report, reading, diskVars>>

-----------------------------------------------------------------------------
(* persistCaptures: once in a tick, and until the queue is empty when the  *)
(* store closes.                                                           *)

(* The batch takes pending captures in no particular order, each one that  *)
(* still fits.                                                             *)
Batches ==
    {B \in SUBSET Queued :
        /\ Bytes(pending, B) <= BatchBytes
        /\ \A k \in Queued \ B : Bytes(pending, B \cup {k}) > BatchBytes}

AfterCaptures == IF job = "stop" THEN "drain" ELSE "loop"

TakeBatch(B) ==
    /\ writer = "captures" \/ (writer = "drain" /\ Queued # {})
    /\ IF B = {} THEN writer' = "loop" ELSE writer' = "write"
    /\ job' = IF writer = "drain" THEN "stop" ELSE "tick"
    /\ pending' = [k \in Keys |-> IF k \in B THEN None ELSE pending[k]]
    /\ flushing' = [k \in Keys |-> IF k \in B THEN pending[k] ELSE flushing[k]]
    /\ UNCHANGED <<keyVars, closed, captureBytes, dropped, report, reading, snap, saved, diskVars>>

WriteBatch ==
    /\ writer = "write"
    /\ writer' = "written"
    /\ saved' = TRUE
    /\ diskCapture' = [k \in Keys |-> IF k \in InFlight THEN [flushing[k] EXCEPT !.size = 0]
                                      ELSE diskCapture[k]]
    /\ UNCHANGED <<keyVars, closed, queueVars, report, reading, job, snap, diskKey>>

WriteFails ==
    /\ writer = "write"
    /\ writer' = "written"
    /\ saved' = FALSE
    /\ UNCHANGED <<keyVars, closed, queueVars, report, reading, job, snap, diskVars>>

(* Mutant: a failed batch is dropped.                                      *)
Requeued_Never == {}

(* Mutant: a saved batch is queued again as well.                          *)
Requeued_Always == {k \in InFlight : gen[k] = flushing[k].gen /\ pending[k] = None}

(* After a failure a capture is queued again, unless its key is gone or a  *)
(* newer one is waiting.                                                   *)
Requeued == {k \in InFlight : ~saved /\ gen[k] = flushing[k].gen /\ pending[k] = None}

FinishBatch ==
    /\ writer = "written"
    /\ flushing' = NoItems
    /\ pending' = [k \in Keys |-> IF k \in Requeued THEN flushing[k] ELSE pending[k]]
    /\ captureBytes' = captureBytes - Bytes(flushing, InFlight \ Requeued)
    /\ ignore' = IF saved THEN ignore \ {k \in InFlight : gen[k] = flushing[k].gen} ELSE ignore
    /\ writer' = IF saved \/ job # "stop" THEN AfterCaptures ELSE "failed"
    /\ job' = "tick"
    /\ saved' = FALSE
    /\ UNCHANGED <<gen, latest, dirtyKeys, captureDeletes, revision, closed, dropped, report,
                   reading, snap, diskVars>>

(* All captures written, the database is closed.                           *)
Exit ==
    /\ writer = "drain"
    /\ Queued = {}
    /\ writer' \in {"done", "failed"}
    /\ UNCHANGED <<keyVars, closed, queueVars, report, reading, job, snap, saved, diskVars>>

(* A crash, or an exit, and a new start on the same database.              *)
Restart ==
    /\ gen' = diskKey
    /\ latest' = Zero
    /\ ignore' = {}
    /\ dirtyKeys' = Zero
    /\ captureDeletes' = Zero
    /\ closed' = FALSE
    /\ pending' = NoItems
    /\ flushing' = NoItems
    /\ captureBytes' = 0
    /\ dropped' = 0
    /\ report' = [t \in Requests |-> Idle]
    /\ reading' = Zero
    /\ writer' = "loop"
    /\ job' = "tick"
    /\ snap' = NoSnapshot
    /\ saved' = FALSE
    /\ UNCHANGED <<revision, diskVars>>

-----------------------------------------------------------------------------
Operations ==
    \/ \E k \in Keys : CreateKey(k) \/ GetCapture(k) \/ ReadDisk(k)
    \/ \E S \in SUBSET Keys : DeleteKeys(S)
    \/ \E t \in Requests, k \in Keys : PrepareCapture(t, k)
    \/ \E t \in Requests, size \in Sizes : enqueueCapture(t, size)
    \/ Close

Loop ==
    \/ \E prune \in BOOLEAN : FlushOrTick(prune) \/ Stop(prune) \/ ServeFlush(prune)
    \/ NoFlushWaiting
    \/ Commit
    \/ UpdateFails
    \/ Settle
    \/ \E B \in Batches : TakeBatch(B)
    \/ WriteBatch
    \/ WriteFails
    \/ FinishBatch
    \/ Exit

Next == Operations \/ Loop \/ Restart

Spec == Init /\ [][Next]_vars

(* The loop never stops working, and Go's select does not pass over the    *)
(* closed stop channel for ever.                                           *)
FairSpec ==
    /\ Spec
    /\ WF_vars(Loop)
    /\ SF_vars(\E prune \in BOOLEAN : Stop(prune))

-----------------------------------------------------------------------------
(* README "the combined pending and in-flight queue is bounded": the bytes *)
(* counted are the bytes kept, through requeues, drops and deletions, and  *)
(* neither they nor the records exceed the budget.                         *)
BudgetKept ==
    /\ captureBytes = Bytes(pending, Keys) + Bytes(flushing, Keys)
    /\ captureBytes <= QueueBytes
    /\ Cardinality(Queued) + Cardinality(InFlight) <= QueueLimit

(* A capture to be deleted from the disk is deleted by the next metadata   *)
(* transaction: persistMetadata does not look at dirtyCaptureDeletes when  *)
(* it decides whether there is anything to write.                          *)
DeletionsCarried == \A k \in Keys : captureDeletes[k] # 0 => dirtyKeys[k] # 0

(* What the queue and its marks say of themselves, together.               *)
QueueSafe == BudgetKept /\ DeletionsCarried

(* Next to a stored key there is never a capture of a former key with its  *)
(* id, so a restart cannot bring one back to light.                        *)
CaptureBelongs == \A k \in Keys : diskKey[k] # 0 /\ diskCapture[k] # None
                                  => diskCapture[k].gen >= diskKey[k]

(* Nor can GetCapture, which reads the disk after it has let the mutex go. *)
ReadsOwn == \A k \in Keys : reading[k] # 0 /\ diskCapture[k] # None
                            => diskCapture[k].gen >= reading[k]

(* A Close without an error leaves no capture behind in memory.            *)
CloseStores == writer = "done" => Queued \cup InFlight = {}

(* What is on disk and what is read from it, together.                     *)
CapturesSafe == CaptureBelongs /\ ReadsOwn /\ CloseStores

(* captures.go:83 "cannot overwrite a newer result": on the disk no        *)
(* capture is replaced by an older one.                                    *)
NewestStays == [][\A k \in Keys : diskCapture'[k] # None
                                  => diskCapture'[k].seq >= diskCapture[k].seq]_vars

(* While its key lives, a capture that could be read is replaced by a      *)
(* newer one, or its loss is counted in droppedCaptures.  Left out is the  *)
(* metadata transaction that deletes captures; see LastCaptureStays.       *)
Forgotten(k) ==
    /\ gen'[k] = gen[k]
    /\ Readable(k)'.seq < Readable(k).seq
    /\ ~(writer = "update" /\ snap.deletes[k] # 0)
LossesCounted == [][~Restart => Cardinality({k \in Keys : Forgotten(k)}) <= dropped' - dropped]_vars

(* README "Last request/response capture per key": the metadata            *)
(* transaction deletes captures of former keys only, never the stored      *)
(* capture of the key that exists.                                         *)
LastCaptureStays == [][Commit => \A k \in Keys : Readable(k)'.seq >= Readable(k).seq]_vars

(* A shutdown ends: the final batches shrink the queue until it is empty.  *)
ShutdownEnds == closed ~> (writer \in {"done", "failed"} \/ ~closed)
=============================================================================
