------------------------- MODULE PersistenceProofs -------------------------
(***************************************************************************)
(* Proofs about Persistence for any records, clients and bound.  The       *)
(* argument follows a change to the disk: its mark is the revision of the  *)
(* last change of its record; a record without a mark is on disk; the      *)
(* snapshot of a running transaction has the content of every marked       *)
(* record, and a mark equal to the snapshot's says that the record has not *)
(* changed since.  So clearing exactly these marks keeps every unmarked    *)
(* record on disk, and a flush that is answered found, or wrote, all that  *)
(* was in memory when it was asked for.                                    *)
(*                                                                         *)
(* For the refinement of DurableStore the marks have to be newer than what *)
(* is on disk: a commit then replaces a record by a newer content or by    *)
(* none, and nothing but a commit moves the stored contents.               *)
(***************************************************************************)
EXTENDS Persistence, TLAPS

InWrite == writer \in {"update", "settle"}

(* Memory leads, the disk follows.                                         *)
RevisionsOrdered == \A r \in Records : disk[r].rev <= mem[r].rev /\ mem[r].rev <= revision

MarksCurrent == \A r \in Records : dirty[r] # 0 => dirty[r] = mem[r].rev

SnapshotCurrent ==
    /\ snap.pruned \subseteq expired
    /\ InWrite => \A r \in Records : snap.revs[r] # 0 =>
           /\ snap.contents[r].rev = snap.revs[r]
           /\ disk[r].rev <= snap.revs[r]
           /\ snap.revs[r] <= mem[r].rev
           /\ snap.revs[r] = mem[r].rev => snap.contents[r] = mem[r] \/ r \in expired
           /\ dirty[r] # 0 \/ r \in expired

CommitDone ==
    writer = "settle" /\ saved => \A r \in Records : snap.revs[r] # 0 =>
        disk[r] = snap.contents[r] \/ (r \in expired /\ disk[r].rev = snap.revs[r])

(* What a flush was promised is in memory, then in the snapshot or on disk, *)
(* then on disk.                                                           *)
PromisesKept ==
    \A c \in Clients, r \in Durable :
        /\ promised[c][r] <= mem[r].rev
        /\ serving = c /\ writer = "update" =>
               \/ promised[c][r] <= disk[r].rev
               \/ snap.revs[r] # 0 /\ promised[c][r] <= snap.revs[r]
        /\ serving = c /\ writer = "settle" /\ saved => promised[c][r] <= disk[r].rev
        /\ call[c] = "nil" => promised[c][r] <= disk[r].rev

ServingSent == \A c \in Clients : serving = c => call[c] = "sent"

(* Once the store is closed nothing is marked any more, so the last        *)
(* snapshot is complete.                                                   *)
StopComplete ==
    /\ job = "stop" => closed
    /\ job = "stop" /\ InWrite => \A r \in Durable : dirty[r] = snap.revs[r]
    /\ writer = "drain" \/ closeErr = "nil" => closed /\ \A r \in Durable : dirty[r] = 0
    /\ closeErr = "nil" => writer = "done"

StoreInv == RevisionsOrdered /\ MarksCurrent /\ CleanIsSaved /\ SnapshotCurrent /\ CommitDone

IInv == TypeOK /\ StoreInv /\ ServingSent /\ PromisesKept /\ Acknowledged /\ StopComplete

-----------------------------------------------------------------------------
(* The steps of the store by what they do to its state.                    *)
MemoryStep ==
    /\ \E S \in SUBSET Records, live \in BOOLEAN, gone \in {{}, expired} : Change(S, live, gone)
    /\ UNCHANGED writerVars
    /\ UNCHANGED clientVars \/ \E c \in Clients : CallFlush(c)

CallStep(c) == CallFlush(c) /\ UNCHANGED <<storeVars, writerVars>>
ReturnStep(c) == call[c] \notin {"idle", "sent"} /\ ((call[c] = "nil" /\ Return(c, FALSE)) \/ Return(c, TRUE))
ExpireStep == \E m \in Minutes : Expire(m)
SnapshotStep == \E gone \in {{}, expired}, prune \in BOOLEAN : Snapshot(gone, prune)

LEMMA Steps ==
    ASSUME TypeOK, [Next]_vars
    PROVE  \/ MemoryStep
           \/ \E c \in Clients : CallStep(c) \/ ReturnStep(c) \/ AcceptFlush(c)
           \/ ExpireStep
           \/ Close
           \/ NoFlushWaiting
           \/ Tick
           \/ Stop
           \/ SnapshotStep
           \/ Commit
           \/ UpdateFails
           \/ Settle
           \/ PersistCaptures
           \/ DrainAndExit
           \/ Restart
           \/ UNCHANGED vars
  <1>0. Keys \subseteq Records /\ Nodes \subseteq Records /\ Minutes \subseteq Records
        /\ {Config} \subseteq Records
    BY DEF Records, Durable
  <1>1. ASSUME NEW c \in Clients, Manual(c) PROVE MemoryStep \/ CallStep(c)
    <2>1. ASSUME NEW S \in SUBSET Records, NEW live \in BOOLEAN, ManualChange(c, S, live)
          PROVE  MemoryStep
      BY <2>1 DEF ManualChange, MemoryStep
    <2>2. CASE SaveGlobalConfig(c)
      BY <1>0, <2>1, <2>2 DEF SaveGlobalConfig
    <2>3. ASSUME NEW S \in SUBSET Keys, changeKeys(c, S) \/ DeleteKeys(c, S) PROVE MemoryStep
      BY <1>0, <2>1, <2>3 DEF changeKeys, DeleteKeys
    <2>4. CASE ChangeNothing(c)
      BY <2>4 DEF ChangeNothing, CallStep
    <2>5. ASSUME NEW k \in Keys, CreateKey(c, k) PROVE MemoryStep
      BY <1>0, <2>1, <2>5 DEF CreateKey
    <2>6. ASSUME NEW n \in Nodes, UpdateProxyNode(c, n) \/ DeleteProxyNode(c, n) PROVE MemoryStep
      BY <1>0, <2>1, <2>6 DEF UpdateProxyNode, DeleteProxyNode
    <2> QED
      BY <1>1, <2>2, <2>3, <2>4, <2>5, <2>6 DEF Manual
  <1>2. ASSUME Automatic PROVE MemoryStep \/ ExpireStep
    <2>1. ASSUME NEW S \in SUBSET Records, NEW gone \in {{}, expired}, AutomaticChange(S, gone)
          PROVE  MemoryStep
      BY <2>1 DEF AutomaticChange, MemoryStep
    <2>2. ASSUME NEW k \in Keys, mutateKey(k) PROVE MemoryStep
      BY <1>0, <2>1, <2>2 DEF mutateKey
    <2>3. ASSUME NEW n \in Nodes, UpsertProxyNodeReport(n) PROVE MemoryStep
      BY <1>0, <2>1, <2>3 DEF UpsertProxyNodeReport
    <2>4. ASSUME NEW m \in Minutes, NEW K \in SUBSET Keys, RecordMetric(m, K) PROVE MemoryStep
      <3>1. {m} \cup K \in SUBSET Records
        BY <1>0
      <3> QED
        BY <2>1, <2>4, <3>1 DEF RecordMetric
    <2> QED
      BY <1>2, <2>2, <2>3, <2>4 DEF Automatic, ExpireStep
  <1>3. ASSUME NEW c \in Clients, FlushReturns(c) \/ FlushClosed(c) PROVE ReturnStep(c)
    BY <1>3 DEF FlushReturns, FlushClosed, Return, ReturnStep
  <1> QED
    BY <1>1, <1>2, <1>3 DEF Next, Loop, Write, SnapshotStep

-----------------------------------------------------------------------------
LEMMA TypeStep ==
    ASSUME TypeOK, [Next]_vars
    PROVE  TypeOK'
  <1> USE DEF storeVars, writerVars, clientVars, Content, Revisions
  <1>1. CASE MemoryStep
    <2>1. PICK S \in SUBSET Records, live \in BOOLEAN, gone \in {{}, expired} : Change(S, live, gone)
      BY <1>1 DEF MemoryStep
    <2>2. revision' \in Nat /\ dirty' \in Revisions /\ mem' \in [Records -> Content]
      <3>1. revision' = revision + 1 /\ revision \in Nat
        BY <2>1 DEF Change, TypeOK
      <3>2. ASSUME NEW r \in Records PROVE mem'[r] \in Content /\ dirty'[r] \in Nat
        <4>1. mem[r] \in Content /\ dirty[r] \in Nat
          BY DEF TypeOK
        <4>2. [mem[r] EXCEPT !.live = FALSE] \in Content
          BY <4>1
        <4>3. [rev |-> revision + 1, live |-> live] \in Content
          BY <3>1
        <4>4. /\ mem'[r] \in {[rev |-> revision + 1, live |-> live],
                            [mem[r] EXCEPT !.live = FALSE], mem[r]}
              /\ dirty'[r] \in {revision + 1, 0, dirty[r]}
          BY <2>1 DEF Change
        <4>5. mem'[r] \in Content
          BY <4>1, <4>2, <4>3, <4>4
        <4> QED
          BY <3>1, <4>1, <4>4, <4>5
      <3>3. mem' = [r \in Records |-> mem'[r]] /\ dirty' = [r \in Records |-> dirty'[r]]
        BY <2>1 DEF Change
      <3> QED
        BY <3>1, <3>2, <3>3
    <2>3. call' \in [Clients -> {"idle", "flush", "sent", "nil", "error"}] /\ acked' = acked
      BY <1>1 DEF MemoryStep, CallFlush, TypeOK
    <2>4. InMemory' \in [Durable -> Nat]
      BY <2>2 DEF InMemory, Records
    <2>5. promised' \in [Clients -> [Durable -> Nat]]
      BY <1>1, <2>4 DEF MemoryStep, CallFlush, TypeOK
    <2> QED
      BY <1>1, <2>1, <2>2, <2>3, <2>5 DEF MemoryStep, Change, TypeOK
  <1>2. ASSUME NEW c \in Clients, CallStep(c) PROVE TypeOK'
    <2>1. InMemory' \in [Durable -> Nat]
      BY <1>2 DEF CallStep, InMemory, Records, TypeOK
    <2>2. promised' \in [Clients -> [Durable -> Nat]]
      BY <1>2, <2>1 DEF CallStep, CallFlush, TypeOK
    <2> QED
      BY <1>2, <2>2 DEF CallStep, CallFlush, TypeOK
  <1>3. ASSUME NEW c \in Clients, ReturnStep(c) PROVE TypeOK'
    <2>1. NoPromise \in [Durable -> Nat]
      BY DEF NoPromise
    <2>2. promised' \in [Clients -> [Durable -> Nat]]
      BY <1>3, <2>1 DEF ReturnStep, Return, TypeOK
    <2>3. acked' \in [Durable -> Nat]
      <3>1. [r \in Durable |-> IF promised[c][r] > acked[r] THEN promised[c][r] ELSE acked[r]]
               \in [Durable -> Nat]
        BY DEF TypeOK
      <3> QED
        BY <1>3, <3>1 DEF ReturnStep, Return, TypeOK
    <2> QED
      BY <1>3, <2>2, <2>3 DEF ReturnStep, Return, TypeOK
  <1>4. ASSUME NEW c \in Clients, AcceptFlush(c) PROVE TypeOK'
    BY <1>4 DEF AcceptFlush, TypeOK
  <1>5. CASE ExpireStep
    BY <1>5 DEF ExpireStep, Expire, TypeOK
  <1>6. CASE Close \/ NoFlushWaiting \/ Tick \/ Stop \/ UpdateFails \/ PersistCaptures \/ DrainAndExit
    BY <1>6 DEF Close, NoFlushWaiting, Tick, Stop, SelectOther, UpdateFails, PersistCaptures,
                DrainAndExit, TypeOK
  <1>f. ASSUME NEW ok \in BOOLEAN, Finish(ok)
        PROVE  /\ writer' \in {"loop", "serve", "captures", "drain", "done"}
               /\ job' \in {"flush", "tick", "extra", "stop"}
               /\ serving' \in Clients \cup {Nobody}
               /\ snap' \in [revs : Revisions, contents : [Records -> Content], pruned : SUBSET Minutes]
               /\ saved' \in BOOLEAN
               /\ closeErr' \in {"none", "nil", "error"}
               /\ call' \in [Clients -> {"idle", "flush", "sent", "nil", "error"}]
               /\ promised' = promised /\ acked' = acked
    <2>1. NoSnapshot \in [revs : Revisions, contents : [Records -> Content], pruned : SUBSET Minutes]
      BY DEF NoSnapshot, NoRevisions, Empty
    <2>2. writer' \in {"loop", "serve", "captures", "drain", "done"}
      BY <1>f DEF Finish, AfterSuccess, AfterFailure, TypeOK
    <2>3. call' \in [Clients -> {"idle", "flush", "sent", "nil", "error"}]
      BY <1>f DEF Finish, TypeOK
    <2> QED
      BY <1>f, <2>1, <2>2, <2>3 DEF Finish, TypeOK
  <1>7. CASE SnapshotStep
    <2>1. PICK gone \in {{}, expired}, prune \in BOOLEAN : Snapshot(gone, prune)
      BY <1>7 DEF SnapshotStep
    <2>2. mem' \in [Records -> Content] /\ dirty' \in Revisions
      BY <2>1 DEF Snapshot, TypeOK
    <2>3. CASE Finish(TRUE)
      BY <1>f, <2>1, <2>2, <2>3 DEF Snapshot, TypeOK
    <2>4. CASE BeginUpdate(prune)
      <3>1. snap' \in [revs : Revisions, contents : [Records -> Content], pruned : SUBSET Minutes]
        BY <2>2, <2>4 DEF BeginUpdate, TypeOK
      <3> QED
        BY <2>1, <2>2, <2>4, <3>1 DEF Snapshot, BeginUpdate, TypeOK
    <2> QED
      BY <2>1, <2>3, <2>4 DEF Snapshot
  <1>8. CASE Commit
    <2>1. ASSUME NEW r \in Records PROVE disk'[r] \in Content
      <3>1. snap.contents[r] \in Content /\ disk[r] \in Content
        BY DEF TypeOK
      <3> QED
        BY <1>8, <3>1 DEF Commit
    <2>2. disk' \in [Records -> Content]
      BY <1>8, <2>1 DEF Commit
    <2> QED
      BY <1>8, <2>2 DEF Commit, TypeOK
  <1>9. CASE Settle
    <2>1. dirty' \in Revisions
      BY <1>9 DEF Settle, clearRevisions, TypeOK
    <2>2. saved \in BOOLEAN /\ Finish(saved)
      BY <1>9 DEF Settle, TypeOK
    <2> QED
      BY <1>9, <1>f, <2>1, <2>2 DEF Settle, TypeOK
  <1>10. CASE Restart
    <2>1. mem' \in [Records -> Content]
      BY <1>10 DEF Restart, TypeOK
    <2> QED
      BY <1>10, <2>1 DEF Restart, NoSnapshot, NoRevisions, NoPromise, Empty, TypeOK
  <1>11. CASE UNCHANGED vars
    BY <1>11 DEF vars, TypeOK
  <1> QED
    BY <1>1, <1>2, <1>3, <1>4, <1>5, <1>6, <1>7, <1>8, <1>9, <1>10, <1>11, Steps

(* No step leaves a record that is neither marked nor saved.               *)
LEMMA StoreStep ==
    ASSUME TypeOK, StoreInv, [Next]_vars
    PROVE  StoreInv'
  <1> USE DEF storeVars, writerVars, clientVars, Content, Revisions
  <1>0. expired \subseteq Minutes /\ revision \in Nat
        /\ \A r \in Records : /\ mem[r] \in Content /\ disk[r] \in Content
                             /\ dirty[r] \in Nat /\ snap.revs[r] \in Nat
                             /\ snap.contents[r] \in Content
    BY DEF TypeOK
  <1>1. CASE MemoryStep
    <2>1. PICK S \in SUBSET Records, live \in BOOLEAN, gone \in {{}, expired} : Change(S, live, gone)
      BY <1>1 DEF MemoryStep
    <2>2. UNCHANGED <<disk, expired, writer, snap, saved>> /\ revision' = revision + 1
      BY <1>1, <2>1 DEF MemoryStep, Change
    <2>3. ASSUME NEW r \in S
          PROVE  mem'[r].rev = revision + 1 /\ dirty'[r] = revision + 1
      BY <2>1, <2>3 DEF Change
    <2>4. ASSUME NEW r \in Records \ S, r \in gone
          PROVE  mem'[r].rev = mem[r].rev /\ dirty'[r] = 0 /\ r \in expired
      BY <1>0, <2>1, <2>4 DEF Change
    <2>5. ASSUME NEW r \in Records \ S, r \notin gone
          PROVE  mem'[r] = mem[r] /\ dirty'[r] = dirty[r]
      BY <2>1, <2>5 DEF Change
    <2>6. RevisionsOrdered' /\ MarksCurrent' /\ CleanIsSaved'
      BY <1>0, <2>2, <2>3, <2>4, <2>5 DEF StoreInv, RevisionsOrdered, MarksCurrent, CleanIsSaved
    <2>7. SnapshotCurrent'
      BY <1>0, <2>2, <2>3, <2>4, <2>5 DEF StoreInv, SnapshotCurrent, InWrite, RevisionsOrdered
    <2>8. CommitDone'
      BY <2>2 DEF StoreInv, CommitDone
    <2> QED
      BY <2>6, <2>7, <2>8 DEF StoreInv
  <1>2. ASSUME UNCHANGED <<mem, dirty, revision, expired, disk, writer, snap, saved>> PROVE StoreInv'
    BY <1>2 DEF StoreInv, RevisionsOrdered, MarksCurrent, CleanIsSaved, SnapshotCurrent,
                CommitDone, InWrite
  <1>3. CASE ExpireStep
    BY <1>3 DEF ExpireStep, Expire, StoreInv, RevisionsOrdered, MarksCurrent, CleanIsSaved,
                SnapshotCurrent, CommitDone, InWrite
  <1>4. ASSUME UNCHANGED <<mem, dirty, revision, expired, disk, snap>>, writer' \notin {"update", "settle"}
        PROVE  StoreInv'
    BY <1>4 DEF StoreInv, RevisionsOrdered, MarksCurrent, CleanIsSaved, SnapshotCurrent,
                CommitDone, InWrite
  <1>f. ASSUME NEW ok \in BOOLEAN, Finish(ok), job \in {"flush", "tick", "extra", "stop"}
        PROVE  writer' \notin {"update", "settle"} /\ snap' = NoSnapshot
    BY <1>f DEF Finish, AfterSuccess, AfterFailure
  <1>5. CASE SnapshotStep
    <2>1. PICK gone \in {{}, expired}, prune \in BOOLEAN : Snapshot(gone, prune)
      BY <1>5 DEF SnapshotStep
    <2>2. UNCHANGED <<disk, expired, revision>>
      BY <2>1 DEF Snapshot
    <2>3. ASSUME NEW r \in Records
          PROVE  \/ r \in expired /\ mem'[r].rev = mem[r].rev /\ dirty'[r] = 0
                 \/ mem'[r] = mem[r] /\ dirty'[r] = dirty[r]
      BY <1>0, <2>1 DEF Snapshot
    <2>4. RevisionsOrdered' /\ MarksCurrent' /\ CleanIsSaved'
      BY <1>0, <2>2, <2>3 DEF StoreInv, RevisionsOrdered, MarksCurrent, CleanIsSaved
    <2>5. CASE Finish(TRUE)
      <3>1. writer' \notin {"update", "settle"} /\ snap' = NoSnapshot
        BY <1>f, <2>5 DEF TypeOK
      <3>2. SnapshotCurrent' /\ CommitDone'
        BY <3>1 DEF SnapshotCurrent, CommitDone, InWrite, NoSnapshot
      <3> QED
        BY <2>4, <3>2 DEF StoreInv
    <2>6. CASE BeginUpdate(prune)
      <3>1. /\ writer' = "update" /\ snap'.revs = dirty' /\ snap'.contents = mem'
            /\ snap'.pruned \subseteq expired'
        BY <2>2, <2>6 DEF BeginUpdate
      <3>2. SnapshotCurrent'
        BY <1>0, <2>2, <2>3, <2>4, <3>1 DEF SnapshotCurrent, RevisionsOrdered, MarksCurrent, InWrite
      <3>3. CommitDone'
        BY <3>1 DEF CommitDone
      <3> QED
        BY <2>4, <3>2, <3>3 DEF StoreInv
    <2> QED
      BY <2>1, <2>5, <2>6 DEF Snapshot
  <1>6. CASE Commit
    <2>1. /\ writer = "update" /\ writer' = "settle" /\ InWrite
          /\ UNCHANGED <<mem, dirty, revision, expired, snap>>
      BY <1>6 DEF Commit, InWrite
    <2>2. ASSUME NEW r \in Records, snap.revs[r] # 0
          PROVE  /\ disk'[r].rev = snap.revs[r]
                 /\ disk'[r] = snap.contents[r] \/ r \in expired
      BY <1>0, <1>6, <2>1, <2>2 DEF Commit, StoreInv, SnapshotCurrent
    <2>3. ASSUME NEW r \in Records, snap.revs[r] = 0
          PROVE  /\ disk'[r].rev = disk[r].rev
                 /\ disk'[r] = disk[r] \/ r \in expired
      BY <1>0, <1>6, <2>1, <2>3 DEF Commit, StoreInv, SnapshotCurrent
    <2>4. RevisionsOrdered' /\ MarksCurrent'
      BY <1>0, <2>1, <2>2, <2>3 DEF StoreInv, RevisionsOrdered, MarksCurrent, SnapshotCurrent
    <2>5. CleanIsSaved'
      BY <1>0, <2>1, <2>2, <2>3 DEF StoreInv, CleanIsSaved, SnapshotCurrent
    <2>6. SnapshotCurrent'
      BY <1>0, <2>1, <2>2, <2>3 DEF StoreInv, SnapshotCurrent, InWrite
    <2>7. CommitDone'
      BY <2>1, <2>2 DEF CommitDone
    <2> QED
      BY <2>4, <2>5, <2>6, <2>7 DEF StoreInv
  <1>7. CASE UpdateFails
    BY <1>7 DEF UpdateFails, StoreInv, RevisionsOrdered, MarksCurrent, CleanIsSaved,
                SnapshotCurrent, CommitDone, InWrite
  <1>8. CASE Settle
    <2>1. /\ writer = "settle" /\ InWrite /\ Finish(saved)
          /\ UNCHANGED <<mem, revision, expired, disk>>
      BY <1>8 DEF Settle, InWrite
    <2>2. writer' \notin {"update", "settle"} /\ snap' = NoSnapshot
      BY <1>f, <2>1 DEF TypeOK
    <2>3. ASSUME NEW r \in Records
          PROVE  \/ dirty'[r] = dirty[r]
                 \/ dirty'[r] = 0 /\ saved /\ dirty[r] = snap.revs[r]
      BY <1>8 DEF Settle, clearRevisions, TypeOK
    <2>4. RevisionsOrdered' /\ MarksCurrent'
      BY <2>1, <2>3 DEF StoreInv, RevisionsOrdered, MarksCurrent
    <2>5. CleanIsSaved'
      <3>1. ASSUME NEW r \in Records, dirty'[r] = 0, r \notin expired
            PROVE  mem[r] = disk[r]
        <4>1. CASE dirty[r] = 0
          BY <3>1, <4>1 DEF StoreInv, CleanIsSaved
        <4>2. CASE dirty[r] # 0
          <5>1. saved /\ dirty[r] = snap.revs[r] /\ snap.revs[r] # 0
            BY <2>3, <3>1, <4>2
          <5>2. snap.revs[r] = mem[r].rev
            BY <4>2, <5>1 DEF StoreInv, MarksCurrent
          <5>3. snap.contents[r] = mem[r] /\ disk[r] = snap.contents[r]
            BY <2>1, <3>1, <5>1, <5>2 DEF StoreInv, SnapshotCurrent, CommitDone
          <5> QED
            BY <5>3
        <4> QED
          BY <4>1, <4>2
      <3> QED
        BY <2>1, <3>1 DEF CleanIsSaved
    <2>6. SnapshotCurrent' /\ CommitDone'
      BY <2>2 DEF SnapshotCurrent, CommitDone, InWrite, NoSnapshot
    <2> QED
      BY <2>4, <2>5, <2>6 DEF StoreInv
  <1>9. CASE Restart
    <2>1. /\ writer' = "loop" /\ snap' = NoSnapshot
          /\ UNCHANGED <<disk, expired, revision>>
      BY <1>9 DEF Restart
    <2>2. ASSUME NEW r \in Records
          PROVE  /\ mem'[r].rev = disk[r].rev /\ dirty'[r] = 0
                 /\ mem'[r] = disk[r] \/ r \in expired
      BY <1>0, <1>9 DEF Restart, NoRevisions
    <2>3. RevisionsOrdered' /\ MarksCurrent' /\ CleanIsSaved'
      BY <1>0, <2>1, <2>2 DEF StoreInv, RevisionsOrdered, MarksCurrent, CleanIsSaved
    <2>4. SnapshotCurrent' /\ CommitDone'
      BY <2>1 DEF SnapshotCurrent, CommitDone, InWrite, NoSnapshot
    <2> QED
      BY <2>3, <2>4 DEF StoreInv
  <1>10. ASSUME NEW c \in Clients, CallStep(c) \/ ReturnStep(c) PROVE StoreInv'
    BY <1>2, <1>10 DEF CallStep, ReturnStep, Return
  <1>11. ASSUME NEW c \in Clients, AcceptFlush(c) PROVE StoreInv'
    BY <1>4, <1>11 DEF AcceptFlush
  <1>12. CASE Close
    BY <1>2, <1>12 DEF Close
  <1>13. CASE NoFlushWaiting \/ Tick \/ Stop \/ PersistCaptures \/ DrainAndExit
    BY <1>4, <1>13 DEF NoFlushWaiting, Tick, Stop, SelectOther, PersistCaptures, DrainAndExit
  <1>14. CASE UNCHANGED vars
    BY <1>2, <1>14 DEF vars
  <1> QED
    BY <1>1, <1>3, <1>5, <1>6, <1>7, <1>8, <1>9, <1>10, <1>11, <1>12, <1>13, <1>14, Steps

(* The disk never goes back, and memory only by a restart.                 *)
LEMMA Forward ==
    ASSUME TypeOK, StoreInv, [Next]_vars
    PROVE  /\ \A r \in Records : disk[r].rev <= disk'[r].rev
           /\ Restart \/ \A r \in Records : mem[r].rev <= mem'[r].rev
  <1> USE DEF storeVars, writerVars, clientVars, Content, Revisions
  <1>0. /\ expired \subseteq Minutes /\ revision \in Nat
        /\ \A r \in Records : /\ mem[r] \in Content /\ disk[r] \in Content
                             /\ snap.contents[r] \in Content /\ snap.revs[r] \in Nat
        /\ \A r \in Records : mem[r].rev <= revision
    BY DEF TypeOK, StoreInv, RevisionsOrdered
  <1>1. CASE MemoryStep
    <2>1. PICK S \in SUBSET Records, live \in BOOLEAN, gone \in {{}, expired} : Change(S, live, gone)
      BY <1>1 DEF MemoryStep
    <2>2. ASSUME NEW r \in Records PROVE mem[r].rev <= mem'[r].rev
      <3>1. mem'[r].rev = revision + 1 \/ mem'[r].rev = mem[r].rev
        BY <1>0, <2>1 DEF Change
      <3> QED
        BY <1>0, <3>1
    <2> QED
      BY <1>0, <2>1, <2>2 DEF Change
  <1>2. CASE SnapshotStep
    BY <1>0, <1>2 DEF SnapshotStep, Snapshot
  <1>3. CASE Commit
    <2>1. ASSUME NEW r \in Records PROVE disk[r].rev <= disk'[r].rev
      <3>1. \/ snap.revs[r] # 0 /\ disk'[r].rev = snap.contents[r].rev
            \/ disk'[r].rev = disk[r].rev
        BY <1>0, <1>3 DEF Commit
      <3>2. snap.revs[r] # 0 => disk[r].rev <= snap.contents[r].rev
        BY <1>3 DEF Commit, InWrite, StoreInv, SnapshotCurrent
      <3> QED
        BY <1>0, <3>1, <3>2
    <2> QED
      BY <1>0, <1>3, <2>1 DEF Commit
  <1>4. ASSUME UNCHANGED <<mem, disk>>
        PROVE  \A r \in Records : disk[r].rev <= disk'[r].rev /\ mem[r].rev <= mem'[r].rev
    BY <1>0, <1>4
  <1>5. CASE Restart
    BY <1>0, <1>5 DEF Restart
  <1>6. ASSUME NEW c \in Clients, CallStep(c) \/ ReturnStep(c) \/ AcceptFlush(c) PROVE UNCHANGED <<mem, disk>>
    BY <1>6 DEF CallStep, ReturnStep, Return, AcceptFlush
  <1>7. CASE ExpireStep \/ Close \/ NoFlushWaiting \/ Tick \/ Stop \/ UpdateFails \/ Settle
             \/ PersistCaptures \/ DrainAndExit
    BY <1>4, <1>7 DEF ExpireStep, Expire, Close, NoFlushWaiting, Tick, Stop, SelectOther, UpdateFails,
                      Settle, PersistCaptures, DrainAndExit
  <1>8. CASE UNCHANGED vars
    BY <1>4, <1>8 DEF vars
  <1> QED
    BY <1>1, <1>2, <1>3, <1>4, <1>5, <1>6, <1>7, <1>8, Steps

(* Durable records do not expire: without a mark they are on disk.         *)
LEMMA CleanDurable ==
    ASSUME TypeOK, CleanIsSaved, NEW r \in Durable, dirty[r] = 0
    PROVE  mem[r] = disk[r]
  BY KindsAssumption DEF TypeOK, CleanIsSaved, Records

(* A flush request is accepted after the change, so its snapshot has what  *)
(* was promised; it is answered after the commit of that snapshot.         *)
LEMMA PromiseStep ==
    ASSUME TypeOK, StoreInv, ServingSent, PromisesKept, Acknowledged,
           TypeOK', StoreInv', [Next]_vars
    PROVE  ServingSent' /\ PromisesKept' /\ Acknowledged'
  <1> USE DEF storeVars, writerVars, clientVars, Content, Revisions
  <1>0. /\ \A r \in Durable : /\ r \in Records
                             /\ mem[r].rev \in Nat /\ disk[r].rev \in Nat
                             /\ mem'[r].rev \in Nat /\ disk'[r].rev \in Nat
                             /\ snap.revs[r] \in Nat /\ snap'.revs[r] \in Nat
                             /\ acked[r] \in Nat /\ disk[r].rev <= disk'[r].rev
        /\ \A c \in Clients, r \in Durable : promised[c][r] \in Nat /\ promised'[c][r] \in Nat
        /\ Restart \/ \A r \in Durable : mem[r].rev <= mem'[r].rev
    BY Forward DEF TypeOK, Records
  <1>1. ASSUME NEW c \in Clients, CallFlush(c), UNCHANGED <<disk, writer, serving, snap, saved>>,
               ~Restart
        PROVE  ServingSent' /\ PromisesKept' /\ Acknowledged'
    <2>1. serving # c
      BY <1>1 DEF CallFlush, ServingSent
    <2>2. \A r \in Durable : promised'[c][r] = mem'[r].rev
      BY <1>1 DEF CallFlush, InMemory, TypeOK
    <2>3. \A d \in Clients \ {c} : promised'[d] = promised[d] /\ call'[d] = call[d]
      BY <1>1 DEF CallFlush, TypeOK
    <2>4. call'[c] = "flush" /\ acked' = acked
      BY <1>1 DEF CallFlush, TypeOK
    <2> QED
      BY <1>0, <1>1, <2>1, <2>2, <2>3, <2>4 DEF ServingSent, PromisesKept, Acknowledged
  <1>2. ASSUME UNCHANGED <<clientVars, disk, serving, snap, saved>>, ~Restart,
               \/ writer' = writer
               \/ writer' \notin {"update", "settle"}
        PROVE  ServingSent' /\ PromisesKept' /\ Acknowledged'
    BY <1>0, <1>2 DEF ServingSent, PromisesKept, Acknowledged
  <1>3. CASE MemoryStep
    <2>1. ~Restart
      BY <1>3 DEF MemoryStep, Change, Restart, TypeOK
    <2>2. UNCHANGED <<disk, writer, serving, snap, saved>>
      BY <1>3 DEF MemoryStep, Change
    <2> QED
      BY <1>1, <1>2, <1>3, <2>1, <2>2 DEF MemoryStep
  <1>4. CASE Restart
    <2>1. /\ writer' = "loop" /\ serving' = Nobody /\ acked' = acked /\ disk' = disk
          /\ \A c \in Clients : call'[c] = "idle" /\ \A r \in Durable : promised'[c][r] = 0
      BY <1>4 DEF Restart, NoPromise
    <2> QED
      BY <1>0, <2>1, NobodyAssumption DEF ServingSent, PromisesKept, Acknowledged
  <1>5. ASSUME NEW c \in Clients, ~Restart, CallStep(c) PROVE ServingSent' /\ PromisesKept' /\ Acknowledged'
    BY <1>1, <1>5 DEF CallStep
  <1>6. ASSUME NEW c \in Clients, ~Restart, ReturnStep(c) PROVE ServingSent' /\ PromisesKept' /\ Acknowledged'
    <2>1. /\ call'[c] = "idle" /\ \A r \in Durable : promised'[c][r] = 0
          /\ \A d \in Clients \ {c} : promised'[d] = promised[d] /\ call'[d] = call[d]
          /\ UNCHANGED <<storeVars, writerVars>> /\ call[c] # "sent"
      BY <1>6 DEF ReturnStep, Return, NoPromise, TypeOK
    <2>2. ServingSent' /\ PromisesKept'
      BY <1>0, <2>1 DEF ServingSent, PromisesKept
    <2>3. ASSUME NEW r \in Durable PROVE acked'[r] <= disk'[r].rev
      <3>1. CASE call[c] = "nil" /\ Return(c, FALSE)
        <4>1. acked'[r] \in {promised[c][r], acked[r]}
          BY <3>1 DEF Return
        <4>2. promised[c][r] <= disk[r].rev /\ acked[r] <= disk[r].rev
          BY <3>1 DEF PromisesKept, Acknowledged
        <4> QED
          BY <2>1, <4>1, <4>2
      <3>2. CASE Return(c, TRUE)
        BY <2>1, <3>2 DEF Return, Acknowledged
      <3> QED
        BY <1>6, <3>1, <3>2 DEF ReturnStep
    <2> QED
      BY <2>2, <2>3 DEF Acknowledged
  <1>7. ASSUME NEW c \in Clients, ~Restart, AcceptFlush(c) PROVE ServingSent' /\ PromisesKept' /\ Acknowledged'
    <2>1. /\ call'[c] = "sent" /\ serving' = c /\ writer' = "snapshot"
          /\ \A d \in Clients \ {c} : call'[d] = call[d]
          /\ UNCHANGED <<promised, acked, disk, mem>>
      BY <1>7 DEF AcceptFlush, TypeOK
    <2> QED
      BY <1>0, <2>1 DEF ServingSent, PromisesKept, Acknowledged
  <1>f. ASSUME NEW ok \in BOOLEAN, Finish(ok), ~Restart,
               \A c \in Clients, r \in Durable : serving = c /\ ok => promised[c][r] <= disk'[r].rev
        PROVE  ServingSent' /\ PromisesKept' /\ Acknowledged'
    <2>1. /\ serving' = Nobody /\ promised' = promised /\ acked' = acked
          /\ \A c \in Clients : call'[c] = "nil" => call[c] = "nil" \/ (serving = c /\ ok)
      BY <1>f DEF Finish
    <2> QED
      BY <1>0, <1>f, <2>1, NobodyAssumption DEF ServingSent, PromisesKept, Acknowledged
  <1>8. ASSUME ~Restart, SnapshotStep PROVE ServingSent' /\ PromisesKept' /\ Acknowledged'
    <2>1. PICK gone \in {{}, expired}, prune \in BOOLEAN : Snapshot(gone, prune)
      BY <1>8 DEF SnapshotStep
    <2>2. CASE dirty' = NoRevisions /\ Finish(TRUE)
      <3>1. \A r \in Durable : dirty'[r] = 0
        BY <1>0, <2>2 DEF NoRevisions
      <3>2. \A r \in Durable : mem'[r] = disk'[r]
        BY <1>0, <3>1, KindsAssumption DEF TypeOK, StoreInv, CleanIsSaved
      <3>3. \A c \in Clients, r \in Durable : promised[c][r] <= disk'[r].rev
        BY <1>0, <1>8, <3>2 DEF PromisesKept
      <3> QED
        BY <1>f, <1>8, <2>2, <3>3
    <2>3. CASE BeginUpdate(prune)
      <3>1. /\ UNCHANGED <<serving, clientVars>> /\ disk' = disk
            /\ writer' = "update" /\ snap'.revs = dirty'
        BY <2>1, <2>3 DEF Snapshot, BeginUpdate
      <3>2. ASSUME NEW c \in Clients, NEW r \in Durable
            PROVE  \/ promised'[c][r] <= disk'[r].rev
                   \/ snap'.revs[r] # 0 /\ promised'[c][r] <= snap'.revs[r]
        <4>1. promised'[c][r] <= mem'[r].rev
          BY <1>0, <1>8, <3>1 DEF PromisesKept
        <4>2. CASE dirty'[r] = 0
          <5>1. mem'[r] = disk'[r]
            BY <1>0, <4>2, KindsAssumption DEF TypeOK, StoreInv, CleanIsSaved
          <5> QED
            BY <4>1, <5>1
        <4>3. CASE dirty'[r] # 0
          BY <1>0, <3>1, <4>1, <4>3 DEF StoreInv, MarksCurrent
        <4> QED
          BY <4>2, <4>3
      <3> QED
        BY <1>0, <1>8, <3>1, <3>2 DEF ServingSent, PromisesKept, Acknowledged
    <2> QED
      BY <2>1, <2>2, <2>3 DEF Snapshot
  <1>9. ASSUME ~Restart, Commit PROVE ServingSent' /\ PromisesKept' /\ Acknowledged'
    <2>1. /\ writer = "update" /\ writer' = "settle" /\ saved' = TRUE
          /\ UNCHANGED <<mem, serving, snap, clientVars>>
      BY <1>9 DEF Commit
    <2>2. \A r \in Durable : snap.revs[r] # 0 => disk'[r].rev = snap.revs[r]
      BY <1>0, <2>1 DEF StoreInv, CommitDone, SnapshotCurrent, InWrite
    <2>3. \A c \in Clients, r \in Durable : serving = c => promised[c][r] <= disk'[r].rev
      BY <1>0, <2>1, <2>2 DEF PromisesKept
    <2> QED
      BY <1>0, <1>9, <2>1, <2>3 DEF ServingSent, PromisesKept, Acknowledged
  <1>10. ASSUME ~Restart, UpdateFails PROVE ServingSent' /\ PromisesKept' /\ Acknowledged'
    BY <1>0, <1>10 DEF UpdateFails, ServingSent, PromisesKept, Acknowledged
  <1>11. ASSUME ~Restart, Settle PROVE ServingSent' /\ PromisesKept' /\ Acknowledged'
    <2>1. saved \in BOOLEAN /\ Finish(saved) /\ disk' = disk /\ writer = "settle"
      BY <1>11 DEF Settle, TypeOK
    <2> QED
      BY <1>f, <1>11, <2>1 DEF PromisesKept
  <1>12. ASSUME ~Restart, \/ ExpireStep \/ Close \/ NoFlushWaiting \/ PersistCaptures \/ DrainAndExit
                         \/ UNCHANGED vars
         PROVE  ServingSent' /\ PromisesKept' /\ Acknowledged'
    BY <1>2, <1>12 DEF ExpireStep, Expire, Close, NoFlushWaiting, PersistCaptures, DrainAndExit, vars
  <1>13. ASSUME ~Restart, Tick \/ Stop PROVE ServingSent' /\ PromisesKept' /\ Acknowledged'
    <2>1. /\ serving' = Nobody /\ writer' = "snapshot" /\ UNCHANGED <<clientVars, disk, mem>>
      BY <1>13 DEF Tick, Stop, SelectOther
    <2> QED
      BY <1>0, <1>13, <2>1, NobodyAssumption DEF ServingSent, PromisesKept, Acknowledged
  <1> QED
    BY <1>3, <1>4, <1>5, <1>6, <1>7, <1>8, <1>9, <1>10, <1>11, <1>12, <1>13, Steps

(* After the store is closed no record is marked any more, so the marks    *)
(* cleared by the last metadata transaction are all there are.             *)
LEMMA StopStep ==
    ASSUME TypeOK, StopComplete, [Next]_vars
    PROVE  StopComplete'
  <1> USE DEF storeVars, writerVars, clientVars
  <1>1. CASE MemoryStep
    <2>1. ~closed /\ closed' = closed /\ UNCHANGED writerVars
      BY <1>1 DEF MemoryStep, Change
    <2> QED
      BY <2>1 DEF StopComplete, InWrite
  <1>2. ASSUME UNCHANGED <<dirty, job, snap, writer, closeErr>>, closed => closed'
        PROVE  StopComplete'
    BY <1>2 DEF StopComplete, InWrite
  <1>3. ASSUME NEW c \in Clients, CallStep(c) \/ ReturnStep(c) PROVE StopComplete'
    BY <1>2, <1>3 DEF CallStep, ReturnStep, Return
  <1>4. CASE ExpireStep \/ Close \/ UNCHANGED vars
    BY <1>2, <1>4 DEF ExpireStep, Expire, Close, vars
  <1>5. ASSUME NEW c \in Clients, AcceptFlush(c) PROVE StopComplete'
    BY <1>5 DEF AcceptFlush, StopComplete, InWrite
  <1>6. CASE NoFlushWaiting \/ PersistCaptures
    BY <1>6 DEF NoFlushWaiting, PersistCaptures, StopComplete, InWrite
  <1>7. CASE Tick \/ Stop
    BY <1>7 DEF Tick, Stop, SelectOther, StopComplete, InWrite
  <1>f. ASSUME NEW ok \in BOOLEAN, Finish(ok), writer \in {"snapshot", "settle"}
        PROVE  /\ job' = "tick"
               /\ writer' = "drain" => job = "stop" /\ ok
               /\ closeErr' # "nil"
    <2>1. closeErr # "nil"
      BY <1>f DEF StopComplete
    <2> QED
      BY <1>f, <2>1 DEF Finish, AfterSuccess, AfterFailure, TypeOK
  <1>8. CASE SnapshotStep
    <2>1. PICK gone \in {{}, expired}, prune \in BOOLEAN : Snapshot(gone, prune)
      BY <1>8 DEF SnapshotStep
    <2>2. writer = "snapshot" /\ closed' = closed
      BY <2>1 DEF Snapshot
    <2>3. CASE dirty' = NoRevisions /\ Finish(TRUE)
      <3>1. \A r \in Durable : dirty'[r] = 0
        BY <2>3 DEF NoRevisions, Records
      <3> QED
        BY <1>f, <2>2, <2>3, <3>1 DEF StopComplete
    <2>4. CASE BeginUpdate(prune)
      BY <2>2, <2>4 DEF BeginUpdate, StopComplete
    <2> QED
      BY <2>1, <2>3, <2>4 DEF Snapshot
  <1>9. CASE Commit \/ UpdateFails
    BY <1>9 DEF Commit, UpdateFails, StopComplete, InWrite
  <1>10. CASE Settle
    <2>1. /\ Finish(saved) /\ saved \in BOOLEAN /\ closed' = closed /\ writer = "settle"
      BY <1>10 DEF Settle, TypeOK
    <2>2. job = "stop" /\ saved => \A r \in Durable : dirty'[r] = 0
      BY <1>10, <2>1 DEF Settle, clearRevisions, StopComplete, InWrite, Records
    <2> QED
      BY <1>f, <2>1, <2>2 DEF StopComplete
  <1>11. CASE DrainAndExit
    BY <1>11 DEF DrainAndExit, StopComplete, InWrite
  <1>12. CASE Restart
    BY <1>12 DEF Restart, StopComplete, InWrite
  <1> QED
    BY <1>1, <1>3, <1>4, <1>5, <1>6, <1>7, <1>8, <1>9, <1>10, <1>11, <1>12, Steps

LEMMA InitIInv == Init => IInv
  <1> SUFFICES ASSUME Init PROVE IInv
    OBVIOUS
  <1> USE DEF Init
  <1>1. TypeOK
    <2>1. Empty \in [Records -> Content]
      <3>1. \A r \in Records : [rev |-> 0, live |-> r = Config] \in Content
        BY DEF Content
      <3> QED
        BY <3>1 DEF Empty
    <2>2. NoRevisions \in Revisions /\ NoPromise \in [Durable -> Nat]
      BY DEF NoRevisions, NoPromise, Revisions
    <2>3. snap \in [revs : Revisions, contents : [Records -> Content], pruned : SUBSET Minutes]
      BY <2>1, <2>2 DEF NoSnapshot
    <2>4. mem \in [Records -> Content] /\ disk \in [Records -> Content]
      BY <2>1
    <2> QED
      BY <2>2, <2>3, <2>4 DEF TypeOK
  <1>2. StoreInv
    <2>1. \A r \in Records : mem[r] = disk[r] /\ mem[r].rev = 0 /\ dirty[r] = 0
      BY DEF Empty, NoRevisions
    <2>2. revision = 0 /\ writer = "loop" /\ snap.pruned = {}
      BY DEF NoSnapshot
    <2> HIDE DEF Init
    <2> QED
      BY <2>1, <2>2 DEF StoreInv, RevisionsOrdered, MarksCurrent, CleanIsSaved, SnapshotCurrent,
                        CommitDone, InWrite
  <1>3. ServingSent
    BY NobodyAssumption DEF ServingSent
  <1>4. PromisesKept /\ Acknowledged
    <2>1. \A r \in Durable : acked[r] = 0 /\ disk[r].rev = 0 /\ mem[r].rev = 0
      BY DEF Empty, NoPromise, Records
    <2>2. \A c \in Clients, r \in Durable : promised[c][r] = 0
      BY DEF NoPromise
    <2>3. writer = "loop"
      OBVIOUS
    <2> HIDE DEF Init
    <2> QED
      BY <2>1, <2>2, <2>3 DEF PromisesKept, Acknowledged
  <1>5. StopComplete
    BY DEF StopComplete, InWrite
  <1> QED
    BY <1>1, <1>2, <1>3, <1>4, <1>5 DEF IInv

-----------------------------------------------------------------------------
(* The invariant holds in every reachable state, crashes included.         *)
THEOREM Invariance == Spec => []IInv
  <1>1. IInv /\ [Next]_vars => IInv'
    BY TypeStep, StoreStep, PromiseStep, StopStep DEF IInv
  <1> QED
    BY InitIInv, <1>1, PTL DEF Spec

(* Memory, disk, marks and snapshot stay well formed.                      *)
THEOREM TypeCorrect == Spec => []TypeOK
  BY Invariance, PTL DEF IInv

(* What a manual operation reported as saved is on disk, through any       *)
(* number of failures and crashes.                                         *)
THEOREM AcknowledgedIsDurable == Spec => []Acknowledged
  BY Invariance, PTL DEF IInv

(* No change is forgotten by the writer: a record without a mark is on     *)
(* disk as it is in memory.                                                *)
THEOREM NoMarkLost == Spec => []CleanIsSaved
  BY Invariance, PTL DEF IInv, StoreInv

(* A Close that returns no error leaves memory and disk equal.             *)
THEOREM CloseIsComplete == Spec => []CloseSaves
  <1>1. IInv => CloseSaves
    BY CleanDurable DEF IInv, StoreInv, StopComplete, CloseSaves
  <1> QED
    BY Invariance, <1>1, PTL

(* Nothing that was changed by hand is lost, whatever fails and whenever   *)
(* the process dies: the three together, with the types.                   *)
THEOREM NothingIsLost == Spec => []NothingLost
  <1>1. TypeOK /\ Acknowledged /\ CleanIsSaved /\ CloseSaves => NothingLost
    BY DEF NothingLost
  <1> QED
    BY <1>1, TypeCorrect, AcknowledgedIsDurable, NoMarkLost, CloseIsComplete, PTL

-----------------------------------------------------------------------------
(* The refinement of DurableStore.  A commit may store a content only if   *)
(* it is newer than the stored one: a mark is newer than what is on disk,  *)
(* until the transaction that wrote it has been settled.                   *)
MarksNewer ==
    /\ \A r \in Durable : dirty[r] # 0 =>
           \/ disk[r].rev < dirty[r]
           \/ writer = "settle" /\ saved /\ dirty[r] = snap.revs[r]
    /\ writer = "update" => \A r \in Durable : snap.revs[r] # 0 => disk[r].rev < snap.revs[r]

LEMMA DurableFacts ==
    ASSUME TypeOK, NEW r \in Durable
    PROVE  /\ r \in Records /\ r \notin expired /\ r \notin Minutes
           /\ mem[r] \in Content /\ disk[r] \in Content /\ mem[r].rev \in Nat /\ disk[r].rev \in Nat
           /\ dirty[r] \in Nat /\ snap.revs[r] \in Nat /\ snap.contents[r] \in Content
  BY KindsAssumption DEF TypeOK, Records, Revisions, Content

LEMMA NewerInit == Init => MarksNewer
  BY DEF Init, MarksNewer, NoRevisions, Records

LEMMA NewerStep ==
    ASSUME IInv, MarksNewer, [Next]_vars
    PROVE  MarksNewer'
  <1> USE DEF storeVars, writerVars, clientVars
  <1>0. TypeOK /\ StoreInv
    BY DEF IInv
  <1>1. CASE MemoryStep
    <2>1. PICK S \in SUBSET Records, live \in BOOLEAN, gone \in {{}, expired} : Change(S, live, gone)
      BY <1>1 DEF MemoryStep
    <2>2. UNCHANGED <<disk, writer, snap, saved>>
      BY <1>1, <2>1 DEF MemoryStep, Change
    <2>3. ASSUME NEW r \in Durable
          PROVE  dirty'[r] = dirty[r] \/ dirty'[r] = 0 \/ disk[r].rev < dirty'[r]
      <3>1. disk[r].rev < revision + 1
        BY <1>0, DurableFacts DEF StoreInv, RevisionsOrdered, TypeOK
      <3> QED
        BY <1>0, <2>1, <3>1, DurableFacts DEF Change
    <2> QED
      BY <1>0, <2>2, <2>3, DurableFacts DEF MarksNewer
  <1>2. ASSUME UNCHANGED <<dirty, disk, snap, saved, writer>> PROVE MarksNewer'
    BY <1>2 DEF MarksNewer
  <1>3. ASSUME UNCHANGED <<dirty, disk, snap, saved>>, writer \notin {"update", "settle"},
               writer' # "update"
        PROVE  MarksNewer'
    BY <1>3 DEF MarksNewer
  <1>4. ASSUME NEW c \in Clients, CallStep(c) \/ ReturnStep(c)
        PROVE  MarksNewer'
    BY <1>2, <1>4 DEF CallStep, ReturnStep, Return
  <1>5. CASE ExpireStep \/ Close \/ UNCHANGED vars
    BY <1>2, <1>5 DEF ExpireStep, Expire, Close, vars
  <1>6. ASSUME NEW c \in Clients, AcceptFlush(c)
        PROVE  MarksNewer'
    BY <1>3, <1>6 DEF AcceptFlush
  <1>7. CASE NoFlushWaiting \/ Tick \/ Stop \/ PersistCaptures \/ DrainAndExit
    BY <1>3, <1>7 DEF NoFlushWaiting, Tick, Stop, SelectOther, PersistCaptures, DrainAndExit
  <1>8. CASE SnapshotStep
    <2>1. PICK gone \in {{}, expired}, prune \in BOOLEAN : Snapshot(gone, prune)
      BY <1>8 DEF SnapshotStep
    <2>2. disk' = disk /\ writer = "snapshot" /\ \A r \in Durable : dirty'[r] \in {0, dirty[r]}
      BY <2>1 DEF Snapshot, Records
    <2>3. \A r \in Durable : dirty'[r] # 0 => disk[r].rev < dirty'[r]
      BY <2>2 DEF MarksNewer
    <2>4. CASE Finish(TRUE)
      <3>1. writer' # "update"
        BY <1>0, <2>4 DEF Finish, AfterSuccess, TypeOK
      <3> QED
        BY <2>2, <2>3, <3>1 DEF MarksNewer
    <2>5. CASE BeginUpdate(prune)
      BY <2>2, <2>3, <2>5 DEF BeginUpdate, MarksNewer
    <2> QED
      BY <2>1, <2>4, <2>5 DEF Snapshot
  <1>9. CASE Commit
    <2>1. writer = "update" /\ writer' = "settle" /\ saved' = TRUE /\ UNCHANGED <<dirty, snap>>
      BY <1>9 DEF Commit
    <2>2. ASSUME NEW r \in Durable, dirty[r] # 0
          PROVE  disk'[r].rev < dirty[r] \/ dirty[r] = snap.revs[r]
      <3>1. disk[r].rev < dirty[r] /\ dirty[r] = mem[r].rev
        BY <1>0, <2>1, <2>2, DurableFacts DEF MarksNewer, StoreInv, MarksCurrent
      <3>2. r \notin snap.pruned
        BY <1>0, DurableFacts DEF StoreInv, SnapshotCurrent
      <3>3. disk'[r] = IF snap.revs[r] # 0 THEN snap.contents[r] ELSE disk[r]
        BY <1>0, <1>9, <3>2, DurableFacts DEF Commit
      <3>4. snap.revs[r] # 0 => snap.contents[r].rev = snap.revs[r] /\ snap.revs[r] <= mem[r].rev
        BY <1>0, <2>1, DurableFacts DEF StoreInv, SnapshotCurrent, InWrite
      <3> QED
        BY <1>0, <3>1, <3>3, <3>4, DurableFacts
    <2> QED
      BY <2>1, <2>2 DEF MarksNewer
  <1>10. CASE UpdateFails
    <2>1. writer = "update" /\ writer' = "settle" /\ UNCHANGED <<dirty, disk, snap>>
      BY <1>10 DEF UpdateFails
    <2> QED
      BY <2>1 DEF MarksNewer
  <1>11. CASE Settle
    <2>1. disk' = disk /\ writer = "settle" /\ Finish(saved)
      BY <1>11 DEF Settle
    <2>2. writer' # "update"
      BY <1>0, <2>1 DEF Finish, AfterSuccess, AfterFailure, TypeOK
    <2>3. \A r \in Durable : dirty'[r] = IF saved /\ dirty[r] = snap.revs[r] THEN 0 ELSE dirty[r]
      BY <1>11 DEF Settle, clearRevisions, Records
    <2> QED
      BY <2>1, <2>2, <2>3 DEF MarksNewer
  <1>12. CASE Restart
    BY <1>12 DEF Restart, MarksNewer, NoRevisions, Records
  <1> QED
    BY <1>0, <1>1, <1>4, <1>5, <1>6, <1>7, <1>8, <1>9, <1>10, <1>11, <1>12, Steps

Current == [r \in Durable |-> mem[r]]
Stored == [r \in Durable |-> disk[r]]
Calling == {c \in Clients : call[c] # "idle"}

LEMMA PromiseInit == Init => Promise!Init
  <1> SUFFICES ASSUME Init PROVE Promise!Init
    OBVIOUS
  <1>1. \A r \in Durable : mem[r] = [rev |-> 0, live |-> r = Config] /\ disk[r] = mem[r]
    BY DEF Init, Empty, Records
  <1>2. \A r \in Durable : mem[r] \in [rev : {0}, live : BOOLEAN]
    <2>1. \A r \in Durable : [rev |-> 0, live |-> r = Config] \in [rev : {0}, live : BOOLEAN]
      OBVIOUS
    <2> QED
      BY <1>1, <2>1
  <1>3. Current \in [Durable -> [rev : {0}, live : BOOLEAN]] /\ Stored = Current
    BY <1>1, <1>2 DEF Current, Stored
  <1>4. Calling = {} /\ promised = [c \in Clients |-> NoPromise] /\ acked = NoPromise
    BY DEF Init, Calling
  <1> QED
    BY <1>3, <1>4 DEF Promise!Init, Promise!None, NoPromise, Current, Stored, Calling

(* The writer answers whom it serves: nobody begins or ends a call.        *)
LEMMA FinishCalls ==
    ASSUME TypeOK, ServingSent, NEW ok \in BOOLEAN, Finish(ok)
    PROVE  Calling' = Calling /\ UNCHANGED <<promised, acked>>
  <1>1. \A c \in Clients : call'[c] = IF c = serving THEN (IF ok THEN "nil" ELSE "error") ELSE call[c]
    BY DEF Finish
  <1>2. \A c \in Clients : c = serving => call[c] = "sent"
    BY DEF ServingSent
  <1>3. \A c \in Clients : (call'[c] # "idle") <=> (call[c] # "idle")
    BY <1>1, <1>2
  <1> QED
    BY <1>3 DEF Finish, Calling

LEMMA PromiseNext ==
    ASSUME IInv, MarksNewer, IInv', [Next]_vars
    PROVE  Promise!Next \/ UNCHANGED <<Current, Stored, Calling, promised, acked>>
  <1> USE DEF storeVars, writerVars, clientVars
  <1>0. TypeOK /\ StoreInv /\ ServingSent /\ PromisesKept
    BY DEF IInv
  <1>a. UNCHANGED mem => Current' = Current
    BY DEF Current
  <1>b. UNCHANGED disk => Stored' = Stored
    BY DEF Stored
  <1>c. UNCHANGED call => Calling' = Calling
    BY DEF Calling
  <1>d. DOMAIN Current' = Durable /\ \A r \in Durable : Current[r] = mem[r] /\ Current'[r] = mem'[r]
    BY DEF Current
  <1>e. DOMAIN Stored' = Durable /\ \A r \in Durable : Stored[r] = disk[r] /\ Stored'[r] = disk'[r]
    BY DEF Stored
  (* A call begins with what is current after its change. *)
  <1>1. ASSUME NEW c \in Clients, CallFlush(c), Stored' = Stored,
               \A r \in Durable : mem'[r] = mem[r] \/ mem'[r].rev > mem[r].rev
        PROVE  Promise!Next
    <2>1. Promise!Modify
      BY <1>1, <1>d DEF Promise!Modify, Current, Stored
    <2>2. c \notin Calling /\ Calling' = Calling \cup {c}
      BY <1>0, <1>1 DEF CallFlush, Calling, TypeOK
    <2>3. InMemory' = [r \in Durable |-> Current'[r].rev]
      BY <1>d DEF InMemory
    <2>4. promised' = [promised EXCEPT ![c] = [r \in Durable |-> Current'[r].rev]] /\ acked' = acked
      BY <1>1, <2>3 DEF CallFlush
    <2>5. Promise!Call(c)
      BY <2>2, <2>4 DEF Promise!Call, Calling, Current
    <2> QED
      BY <2>1, <2>5 DEF Promise!Next, Promise!ManualChange
  <1>2. CASE MemoryStep
    <2>1. PICK S \in SUBSET Records, live \in BOOLEAN, gone \in {{}, expired} : Change(S, live, gone)
      BY <1>2 DEF MemoryStep
    <2>2. ASSUME NEW r \in Durable
          PROVE  mem'[r] = mem[r] \/ mem'[r].rev > mem[r].rev
      <3>1. r \in Records /\ r \notin gone /\ mem[r].rev \in Nat /\ mem[r].rev <= revision
            /\ revision \in Nat
        BY <1>0, DurableFacts DEF StoreInv, RevisionsOrdered, TypeOK
      <3>2. mem'[r] = IF r \in S THEN [rev |-> revision + 1, live |-> live] ELSE mem[r]
        BY <2>1, <3>1 DEF Change
      <3> QED
        BY <3>1, <3>2
    <2>3. Stored' = Stored
      BY <1>b, <2>1 DEF Change
    <2>4. CASE UNCHANGED clientVars
      <3>1. Promise!Modify
        BY <1>d, <2>2, <2>3 DEF Promise!Modify, Current, Stored
      <3>2. UNCHANGED <<Calling, promised, acked>>
        BY <1>c, <2>4
      <3> QED
        BY <3>1, <3>2 DEF Promise!Next, Promise!AutomaticChange, Calling
    <2> QED
      BY <1>1, <1>2, <2>2, <2>3, <2>4 DEF MemoryStep
  <1>3. ASSUME NEW c \in Clients, CallStep(c)
        PROVE  Promise!Next
    BY <1>1, <1>3, <1>b DEF CallStep
  <1>4. ASSUME NEW c \in Clients, ReturnStep(c)
        PROVE  Promise!Next
    <2>1. UNCHANGED <<Current, Stored>>
      BY <1>4, <1>a, <1>b DEF ReturnStep, Return
    <2>2. /\ c \in Calling /\ Calling' = Calling \ {c}
          /\ promised' = [promised EXCEPT ![c] = NoPromise]
      BY <1>0, <1>4 DEF ReturnStep, Return, Calling, TypeOK
    <2>3. Promise!Return(c)
      BY <2>1, <2>2 DEF Promise!Return, Promise!None, NoPromise, Current, Stored, Calling
    <2>4. CASE Return(c, TRUE)
      BY <2>3, <2>4 DEF Return, Promise!Failed, Promise!Next
    <2>5. CASE call[c] = "nil" /\ Return(c, FALSE)
      <3>1. \A r \in Durable : promised[c][r] <= Stored[r].rev
        BY <1>0, <1>e, <2>5 DEF PromisesKept
      <3> QED
        BY <2>3, <2>5, <3>1 DEF Return, Promise!Saved, Promise!Next, Stored
    <2> QED
      BY <1>4, <2>4, <2>5 DEF ReturnStep
  <1>5. ASSUME NEW c \in Clients, AcceptFlush(c)
        PROVE  UNCHANGED <<Current, Stored, Calling, promised, acked>>
    <2>1. Calling' = Calling
      BY <1>0, <1>5 DEF AcceptFlush, Calling, TypeOK
    <2> QED
      BY <1>5, <1>a, <1>b, <2>1 DEF AcceptFlush
  <1>6. CASE \/ ExpireStep \/ Close \/ NoFlushWaiting \/ Tick \/ Stop \/ UpdateFails
             \/ PersistCaptures \/ DrainAndExit \/ UNCHANGED vars
    <2>1. UNCHANGED <<mem, disk, call, promised, acked>>
      BY <1>6 DEF ExpireStep, Expire, Close, NoFlushWaiting, Tick, Stop, SelectOther, UpdateFails,
                  PersistCaptures, DrainAndExit, vars
    <2> QED
      BY <1>a, <1>b, <1>c, <2>1
  <1>7. CASE SnapshotStep
    <2>1. PICK gone \in {{}, expired}, prune \in BOOLEAN : Snapshot(gone, prune)
      BY <1>7 DEF SnapshotStep
    <2>2. \A r \in Durable : mem'[r] = mem[r]
      BY <1>0, <2>1, DurableFacts DEF Snapshot
    <2>3. UNCHANGED <<Current, Stored>>
      BY <1>b, <2>1, <2>2 DEF Snapshot, Current
    <2>4. CASE Finish(TRUE)
      BY <1>0, <2>3, <2>4, FinishCalls
    <2>5. CASE BeginUpdate(prune)
      BY <1>c, <2>3, <2>5 DEF BeginUpdate
    <2> QED
      BY <2>1, <2>4, <2>5 DEF Snapshot
  <1>8. CASE Commit
    <2>1. UNCHANGED <<Current, Calling, promised, acked>> /\ writer = "update"
      BY <1>8, <1>a, <1>c DEF Commit
    <2>2. ASSUME NEW r \in Durable
          PROVE  \/ disk'[r] = disk[r]
                 \/ disk'[r] = mem[r]
                 \/ disk[r].rev < disk'[r].rev /\ disk'[r].rev < mem[r].rev
      <3>1. r \notin snap.pruned
        BY <1>0, DurableFacts DEF StoreInv, SnapshotCurrent
      <3>2. disk'[r] = IF snap.revs[r] # 0 THEN snap.contents[r] ELSE disk[r]
        BY <1>0, <1>8, <3>1, DurableFacts DEF Commit
      <3>3. snap.revs[r] # 0 =>
               /\ snap.contents[r].rev = snap.revs[r]
               /\ snap.revs[r] <= mem[r].rev
               /\ snap.revs[r] = mem[r].rev => snap.contents[r] = mem[r]
        BY <1>0, <2>1, DurableFacts DEF StoreInv, SnapshotCurrent, InWrite
      <3>4. snap.revs[r] # 0 => disk[r].rev < snap.revs[r]
        BY <2>1 DEF MarksNewer
      <3> QED
        BY <1>0, <3>2, <3>3, <3>4, DurableFacts
    <2>3. Promise!Store
      BY <1>d, <1>e, <2>1, <2>2 DEF Promise!Store, Current, Stored, Calling
    <2> QED
      BY <2>3 DEF Promise!Next
  <1>9. CASE Settle
    <2>1. UNCHANGED <<Current, Stored>> /\ Finish(saved) /\ saved \in BOOLEAN
      BY <1>0, <1>9, <1>a, <1>b DEF Settle, TypeOK
    <2> QED
      BY <1>0, <2>1, FinishCalls
  <1>10. CASE Restart
    <2>1. \A r \in Durable : mem'[r] = disk[r]
      BY <1>0, <1>10, DurableFacts DEF Restart
    <2>2. Current' = Stored /\ Stored' = Stored
      BY <1>10, <1>b, <2>1 DEF Restart, Current, Stored
    <2>3. Calling' = {} /\ promised' = [c \in Clients |-> NoPromise] /\ acked' = acked
      BY <1>10 DEF Restart, Calling
    <2>4. Promise!Crash
      BY <2>2, <2>3 DEF Promise!Crash, Promise!None, NoPromise, Current, Stored, Calling
    <2> QED
      BY <2>4 DEF Promise!Next
  <1> QED
    BY <1>0, <1>2, <1>3, <1>4, <1>5, <1>6, <1>7, <1>8, <1>9, <1>10, Steps

(* The store implements the durable store it promises to be, for any       *)
(* records, clients and number of changes: every step of the writer, of    *)
(* the operations and of a restart is one of DurableStore, or none.        *)
THEOREM ImplementsPromise == Spec => PromiseSpec
  <1>1. Init => Promise!Init
    BY PromiseInit
  <1>2. IInv /\ MarksNewer /\ IInv' /\ [Next]_vars => [Promise!Next]_(Promise!vars)
    BY PromiseNext DEF Promise!vars, Current, Stored, Calling
  <1>3. Init => MarksNewer
    BY NewerInit
  <1>4. IInv /\ MarksNewer /\ [Next]_vars => MarksNewer'
    BY NewerStep
  <1> QED
    BY <1>1, <1>2, <1>3, <1>4, Invariance, PTL DEF Spec, PromiseSpec, Promise!Spec
=============================================================================
