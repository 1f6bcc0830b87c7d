------------------------- MODULE CaptureStoreProofs -------------------------
(***************************************************************************)
(* Proofs about CaptureStore for any number of keys and requests, any      *)
(* sizes and any budget.                                                   *)
(*                                                                         *)
(* CaptureInv   where the writer is and what it holds, and for each key    *)
(*              the marks (Carried), the lives (Lives) and the order of    *)
(*              completion (Ordered) of what waits, is being written and   *)
(*              is stored.  Everything said of the disk, of readers and of *)
(*              losses rests on it.                                        *)
(* Budget       the bytes counted are the bytes kept.  The sum is a fold   *)
(*              over a set in an order of CHOOSE's making, and as there is *)
(*              no induction here, what is said of it is shown of the      *)
(*              smallest set for which it would be wrong.                  *)
(***************************************************************************)
EXTENDS CaptureStore, FiniteSetTheorems, WellFoundedInduction, TLAPS

-----------------------------------------------------------------------------
(* Sums of sizes.  Bytes folds over a set in the order in which CHOOSE     *)
(* picks its elements; what follows shows that the order is of no account. *)
Pick(s) == CHOOSE x \in s : TRUE
FoldStep(queue, f, s) == IF s = {} THEN 0 ELSE queue[Pick(s)].size + f[s \ {Pick(s)}]
IsFold(queue, f, S) == f = [s \in SUBSET S |-> FoldStep(queue, f, s)]

LEMMA BytesIsFold ==
    ASSUME NEW queue, NEW S
    PROVE  Bytes(queue, S) = (CHOOSE f : IsFold(queue, f, S))[S]
  BY DEF Bytes, MapThenSumSet, MapThenFoldSet, IsFold, FoldStep, Pick

(* In place of an induction: of the sets with some property one has no     *)
(* smaller set with it.                                                    *)
LEMMA SmallestSet ==
    ASSUME NEW S, IsFiniteSet(S), NEW Bad, Bad \subseteq SUBSET S, Bad # {}
    PROVE  \E T \in Bad : \A U \in Bad : U \subseteq T => U = T
  <1> DEFINE R == StrictSubsetOrdering(S)
  <1>1. IsWellFoundedOn(R, FiniteSubsetsOf(S))
    BY FS_StrictSubsetOrderingWellFounded
  <1>2. Bad \subseteq FiniteSubsetsOf(S)
    BY FS_Subset DEF FiniteSubsetsOf
  <1>3. ASSUME NEW T, NEW U, U \in Bad, T \in Bad, U \subseteq T, U # T
        PROVE  <<U, T>> \in R
    BY <1>3 DEF StrictSubsetOrdering
  <1> HIDE DEF R
  <1>4. PICK T \in Bad : \A U \in Bad : ~(<<U, T>> \in R)
    BY <1>1, <1>2, WFMin
  <1> QED
    BY <1>3, <1>4

LEMMA PickIsThere ==
    ASSUME NEW s, s # {}
    PROVE  Pick(s) \in s
  BY DEF Pick

LEMMA FoldUnique ==
    ASSUME NEW All, IsFiniteSet(All),
           NEW queue, NEW S \in SUBSET All, NEW T \in SUBSET All, NEW f, NEW g,
           IsFold(queue, f, S), IsFold(queue, g, T), NEW U \in SUBSET (S \cap T)
    PROVE  f[U] = g[U]
  <1> DEFINE Bad == {V \in SUBSET (S \cap T) : f[V] # g[V]}
  <1>1. IsFiniteSet(S \cap T)
    BY FS_Subset
  <1>2. Bad = {}
    <2> SUFFICES ASSUME Bad # {} PROVE FALSE
      OBVIOUS
    <2>1. PICK V \in Bad : \A W \in Bad : W \subseteq V => W = V
      <3>1. Bad \subseteq SUBSET (S \cap T)
        OBVIOUS
      <3> HIDE DEF Bad
      <3> QED
        BY <1>1, <3>1, SmallestSet
    <2>2. f[V] = FoldStep(queue, f, V) /\ g[V] = FoldStep(queue, g, V)
      <3>1. V \in SUBSET S /\ V \in SUBSET T
        OBVIOUS
      <3> QED
        BY <3>1 DEF IsFold
    <2>3. CASE V = {}
      BY <2>2, <2>3 DEF FoldStep
    <2>4. CASE V # {}
      <3> DEFINE W == V \ {Pick(V)}
      <3>1. W \in SUBSET (S \cap T) /\ W \subseteq V /\ W # V
        BY <2>4, PickIsThere
      <3>2. f[W] = g[W]
        BY <2>1, <3>1
      <3>3. f[V] = g[V]
        BY <2>2, <2>4, <3>2 DEF FoldStep
      <3> QED
        BY <3>3
    <2> QED
      BY <2>3, <2>4
  <1> QED
    BY <1>2

Sized(queue, All) == \A k \in All : queue[k].size \in Nat

LEMMA FoldExists ==
    ASSUME NEW All, IsFiniteSet(All),
           NEW queue, Sized(queue, All), NEW S \in SUBSET All
    PROVE  \E f \in [SUBSET S -> Nat] : IsFold(queue, f, S)
  <1> DEFINE Folds(T) == {f \in [SUBSET T -> Nat] : IsFold(queue, f, T)}
             Bad == {T \in SUBSET S : Folds(T) = {}}
  <1>1. IsFiniteSet(S)
    BY FS_Subset
  <1>2. Bad = {}
    <2> SUFFICES ASSUME Bad # {} PROVE FALSE
      OBVIOUS
    <2>1. PICK T \in Bad : \A U \in Bad : U \subseteq T => U = T
      <3>1. Bad \subseteq SUBSET S
        OBVIOUS
      <3> HIDE DEF Bad
      <3> QED
        BY <1>1, <3>1, SmallestSet
    <2> DEFINE fold(U) == CHOOSE f : f \in Folds(U)
               value == [U \in SUBSET T |-> IF U = T THEN FoldStep(queue, [W \in SUBSET T |-> fold(W)[W]], T)
                                            ELSE fold(U)[U]]
    <2>2. \A U \in SUBSET T : U # T => fold(U) \in [SUBSET U -> Nat] /\ IsFold(queue, fold(U), U)
      <3> SUFFICES ASSUME NEW U \in SUBSET T, U # T
                   PROVE  fold(U) \in Folds(U)
        OBVIOUS
      <3>1. U \notin Bad /\ U \in SUBSET S
        BY <2>1
      <3>2. Folds(U) # {}
        BY <3>1
      <3> HIDE DEF Folds
      <3> QED
        BY <3>2
    <2>3. ASSUME NEW U \in SUBSET T, U # {}
          PROVE  /\ Pick(U) \in U /\ U \ {Pick(U)} \in SUBSET U
                 /\ U \ {Pick(U)} # U /\ U \ {Pick(U)} # T
      BY <2>3, PickIsThere
    <2> HIDE DEF fold
    <2>4. ASSUME NEW U \in SUBSET T
          PROVE  value[U] = FoldStep(queue, value, U) /\ value[U] \in Nat
      <3>1. CASE U = {} /\ U # T
        <4>1. value[U] = fold(U)[U] /\ fold(U)[U] = FoldStep(queue, fold(U), U)
          BY <2>2, <3>1 DEF IsFold
        <4> QED
          BY <3>1, <4>1 DEF FoldStep
      <3>2. CASE U = {} /\ U = T
        BY <3>2 DEF FoldStep
      <3>3. CASE U # {}
        <4> DEFINE W == U \ {Pick(U)}
        <4>1. /\ W \in SUBSET U /\ W # U /\ W # T /\ W \in SUBSET T /\ Pick(U) \in U
          BY <2>3, <3>3
        <4>2. value[W] = fold(W)[W] /\ fold(W) \in [SUBSET W -> Nat] /\ IsFold(queue, fold(W), W)
          BY <2>2, <4>1
        <4>3. value[W] \in Nat /\ queue[Pick(U)].size \in Nat
          BY <4>1, <4>2 DEF Sized
        <4>4. FoldStep(queue, value, U) = queue[Pick(U)].size + value[W]
          BY <3>3 DEF FoldStep
        <4>5. CASE U = T
          <5>1. value[U] = queue[Pick(U)].size + fold(W)[W]
            BY <3>3, <4>1, <4>5 DEF FoldStep
          <5> QED
            BY <4>2, <4>3, <4>4, <5>1
        <4>6. CASE U # T
          <5>1. /\ value[U] = fold(U)[U]
                /\ IsFold(queue, fold(U), U)
            BY <2>2, <4>6
          <5>2. fold(U)[U] = queue[Pick(U)].size + fold(U)[W]
            BY <3>3, <4>1, <5>1 DEF IsFold, FoldStep
          <5>3. fold(U)[W] = fold(W)[W]
            <6>1. U \in SUBSET All /\ W \in SUBSET All /\ W \in SUBSET (U \cap W)
              BY <4>1
            <6> QED
              BY <4>2, <5>1, <6>1, FoldUnique
          <5> QED
            BY <4>2, <4>3, <4>4, <5>1, <5>2, <5>3
        <4> QED
          BY <4>5, <4>6
      <3> QED
        BY <3>1, <3>2, <3>3
    <2>5. value \in [SUBSET T -> Nat] /\ value = [U \in SUBSET T |-> FoldStep(queue, value, U)]
      <3>1. value = [U \in SUBSET T |-> value[U]]
        OBVIOUS
      <3> HIDE DEF value
      <3> QED
        BY <2>4, <3>1
    <2> HIDE DEF value
    <2>6. value \in Folds(T)
      BY <2>5 DEF IsFold
    <2> QED
      BY <2>6
  <1>3. Folds(S) # {}
    BY <1>2
  <1> QED
    BY <1>3

LEMMA BytesStep ==
    ASSUME NEW All, IsFiniteSet(All),
           NEW queue, Sized(queue, All), NEW S \in SUBSET All
    PROVE  /\ Bytes(queue, S) \in Nat
           /\ S = {} => Bytes(queue, S) = 0
           /\ S # {} => Bytes(queue, S) = queue[Pick(S)].size + Bytes(queue, S \ {Pick(S)})
  <1> DEFINE sum(T) == CHOOSE f : IsFold(queue, f, T)
  <1>1. ASSUME NEW T \in SUBSET All
        PROVE  IsFold(queue, sum(T), T) /\ Bytes(queue, T) = sum(T)[T]
    BY FoldExists, BytesIsFold
  <1> HIDE DEF sum
  <1>2. Bytes(queue, S) \in Nat
    <2>1. PICK f \in [SUBSET S -> Nat] : IsFold(queue, f, S)
      BY FoldExists
    <2>2. sum(S)[S] = f[S]
      BY <1>1, <2>1, FoldUnique
    <2> QED
      BY <1>1, <2>1, <2>2
  <1>3. Bytes(queue, S) = FoldStep(queue, sum(S), S)
    BY <1>1 DEF IsFold
  <1>4. ASSUME S # {}
        PROVE  sum(S)[S \ {Pick(S)}] = Bytes(queue, S \ {Pick(S)})
    <2> DEFINE T == S \ {Pick(S)}
    <2>1. T \in SUBSET All /\ T \in SUBSET (S \cap T)
      OBVIOUS
    <2>2. sum(S)[T] = sum(T)[T]
      BY <1>1, <2>1, FoldUnique
    <2> QED
      BY <1>1, <2>1, <2>2
  <1> QED
    BY <1>2, <1>3, <1>4 DEF FoldStep

LEMMA BytesNat ==
    ASSUME NEW All, IsFiniteSet(All),
           NEW queue, Sized(queue, All), NEW S \in SUBSET All
    PROVE  Bytes(queue, S) \in Nat
  BY BytesStep

LEMMA BytesOfNothing ==
    ASSUME NEW All, IsFiniteSet(All),
           NEW queue, Sized(queue, All)
    PROVE  Bytes(queue, {}) = 0
  BY BytesStep

(* Any element can be taken out first.                                     *)
LEMMA BytesWithout ==
    ASSUME NEW All, IsFiniteSet(All),
           NEW queue, Sized(queue, All), NEW S \in SUBSET All, NEW k \in S
    PROVE  Bytes(queue, S) = queue[k].size + Bytes(queue, S \ {k})
  <1> DEFINE Bad == {T \in SUBSET S : \E e \in T :
                        Bytes(queue, T) # queue[e].size + Bytes(queue, T \ {e})}
  <1> SUFFICES ASSUME Bad # {} PROVE FALSE
    OBVIOUS
  <1>1. PICK T \in Bad : \A U \in Bad : U \subseteq T => U = T
    <2>1. IsFiniteSet(S) /\ Bad \subseteq SUBSET S
      BY FS_Subset
    <2> HIDE DEF Bad
    <2> QED
      BY <2>1, SmallestSet
  <1>2. PICK e \in T : Bytes(queue, T) # queue[e].size + Bytes(queue, T \ {e})
    OBVIOUS
  <1> DEFINE p == Pick(T)
  <1>3. p \in T /\ T \in SUBSET All
    BY <1>2, PickIsThere
  <1>4. Bytes(queue, T) = queue[p].size + Bytes(queue, T \ {p})
    BY <1>3, BytesStep
  <1> HIDE DEF p
  <1>5. e # p
    BY <1>2, <1>4
  <1>6. ASSUME NEW U \in SUBSET T, U # T, NEW d \in U
        PROVE  Bytes(queue, U) = queue[d].size + Bytes(queue, U \ {d})
    BY <1>1, <1>6
  <1>7. Bytes(queue, T \ {p}) = queue[e].size + Bytes(queue, (T \ {p}) \ {e})
    BY <1>3, <1>5, <1>6
  <1>8. Bytes(queue, T \ {e}) = queue[p].size + Bytes(queue, (T \ {e}) \ {p})
    BY <1>3, <1>5, <1>6
  <1>9. (T \ {p}) \ {e} = (T \ {e}) \ {p}
    OBVIOUS
  <1>10. /\ Bytes(queue, (T \ {e}) \ {p}) \in Nat
         /\ queue[p].size \in Nat /\ queue[e].size \in Nat
    <2>1. (T \ {e}) \ {p} \in SUBSET All /\ p \in All /\ e \in All
      BY <1>3
    <2> QED
      BY <2>1, BytesNat DEF Sized
  <1> DEFINE rest == Bytes(queue, (T \ {e}) \ {p})
  <1>11. /\ Bytes(queue, T) = queue[p].size + (queue[e].size + rest)
         /\ Bytes(queue, T \ {e}) = queue[p].size + rest
         /\ rest \in Nat
    BY <1>4, <1>7, <1>8, <1>9, <1>10
  <1> HIDE DEF rest, Bad
  <1>12. Bytes(queue, T) = queue[e].size + Bytes(queue, T \ {e})
    BY <1>10, <1>11
  <1> QED
    BY <1>2, <1>12

(* Only the sizes in the set count.                                        *)
LEMMA BytesSame ==
    ASSUME NEW All, IsFiniteSet(All),
           NEW queue, NEW other, Sized(queue, All), Sized(other, All), NEW S \in SUBSET All,
           \A k \in S : queue[k].size = other[k].size
    PROVE  Bytes(queue, S) = Bytes(other, S)
  <1> DEFINE Bad == {T \in SUBSET S : Bytes(queue, T) # Bytes(other, T)}
  <1> SUFFICES ASSUME Bad # {} PROVE FALSE
    OBVIOUS
  <1>1. PICK T \in Bad : \A U \in Bad : U \subseteq T => U = T
    <2>1. IsFiniteSet(S) /\ Bad \subseteq SUBSET S
      BY FS_Subset
    <2> HIDE DEF Bad
    <2> QED
      BY <2>1, SmallestSet
  <1>2. T \in SUBSET All /\ T \in SUBSET S /\ Bytes(queue, T) # Bytes(other, T)
    OBVIOUS
  <1>3. T # {}
    BY <1>2, BytesOfNothing
  <1>4. PICK k \in T : TRUE
    BY <1>3
  <1>5. Bytes(queue, T \ {k}) = Bytes(other, T \ {k})
    BY <1>1
  <1>6. /\ Bytes(queue, T) = queue[k].size + Bytes(queue, T \ {k})
        /\ Bytes(other, T) = other[k].size + Bytes(other, T \ {k})
    BY <1>2, BytesWithout
  <1> QED
    BY <1>2, <1>4, <1>5, <1>6

LEMMA BytesUnion ==
    ASSUME NEW All, IsFiniteSet(All),
           NEW queue, Sized(queue, All), NEW S \in SUBSET All, NEW T \in SUBSET All,
           S \cap T = {}
    PROVE  Bytes(queue, S \cup T) = Bytes(queue, S) + Bytes(queue, T)
  <1> DEFINE Bad == {V \in SUBSET T : Bytes(queue, S \cup V) # Bytes(queue, S) + Bytes(queue, V)}
  <1> SUFFICES ASSUME Bad # {} PROVE FALSE
    OBVIOUS
  <1>1. PICK V \in Bad : \A U \in Bad : U \subseteq V => U = V
    <2>1. IsFiniteSet(T) /\ Bad \subseteq SUBSET T
      BY FS_Subset
    <2> HIDE DEF Bad
    <2> QED
      BY <2>1, SmallestSet
  <1>2. V \in SUBSET T /\ V \in SUBSET All /\ S \cup V \in SUBSET All
    OBVIOUS
  <1>3. Bytes(queue, S \cup V) # Bytes(queue, S) + Bytes(queue, V)
    OBVIOUS
  <1>4. Bytes(queue, S) \in Nat
    BY BytesNat
  <1>5. V # {}
    <2> SUFFICES ASSUME V = {} PROVE FALSE
      OBVIOUS
    <2>1. S \cup V = S
      OBVIOUS
    <2> QED
      BY <1>3, <1>4, <2>1, BytesOfNothing
  <1>6. PICK k \in V : TRUE
    BY <1>5
  <1>7. Bytes(queue, S \cup (V \ {k})) = Bytes(queue, S) + Bytes(queue, V \ {k})
    BY <1>1
  <1>8. (S \cup V) \ {k} = S \cup (V \ {k}) /\ k \in S \cup V /\ k \in All
    BY <1>2
  <1>9. Bytes(queue, S \cup V) = queue[k].size + Bytes(queue, S \cup (V \ {k}))
    BY <1>2, <1>8, BytesWithout
  <1>10. Bytes(queue, V) = queue[k].size + Bytes(queue, V \ {k})
    BY <1>2, BytesWithout
  <1>11. queue[k].size \in Nat /\ Bytes(queue, V \ {k}) \in Nat
    <2>1. V \ {k} \in SUBSET All
      BY <1>2
    <2> QED
      BY <1>8, <2>1, BytesNat DEF Sized
  <1> QED
    BY <1>3, <1>4, <1>7, <1>9, <1>10, <1>11

LEMMA BytesOfEmpties ==
    ASSUME NEW All, IsFiniteSet(All),
           NEW queue, Sized(queue, All), NEW S \in SUBSET All, \A k \in S : queue[k].size = 0
    PROVE  Bytes(queue, S) = 0
  <1> DEFINE Bad == {T \in SUBSET S : Bytes(queue, T) # 0}
  <1> SUFFICES ASSUME Bad # {} PROVE FALSE
    OBVIOUS
  <1>1. PICK T \in Bad : \A U \in Bad : U \subseteq T => U = T
    <2>1. IsFiniteSet(S) /\ Bad \subseteq SUBSET S
      BY FS_Subset
    <2> HIDE DEF Bad
    <2> QED
      BY <2>1, SmallestSet
  <1>2. PICK k \in T : TRUE
    BY BytesOfNothing
  <1>3. Bytes(queue, T \ {k}) = 0
    BY <1>1
  <1>4. Bytes(queue, T) = queue[k].size + Bytes(queue, T \ {k}) /\ queue[k].size = 0
    BY BytesWithout
  <1> QED
    BY <1>3, <1>4

LEMMA BytesSplit ==
    ASSUME NEW All, IsFiniteSet(All),
           NEW queue, Sized(queue, All), NEW S \in SUBSET All, NEW D \in SUBSET S
    PROVE  Bytes(queue, S) = Bytes(queue, D) + Bytes(queue, S \ D)
  <1>1. S = D \cup (S \ D) /\ D \cap (S \ D) = {} /\ D \in SUBSET All /\ S \ D \in SUBSET All
    OBVIOUS
  <1> QED
    BY <1>1, BytesUnion

(* A queue without the captures of D.                                      *)
LEMMA BytesCleared ==
    ASSUME NEW All, IsFiniteSet(All),
           NEW queue, NEW other, Sized(queue, All), Sized(other, All), NEW D \in SUBSET All,
           \A k \in All : other[k].size = IF k \in D THEN 0 ELSE queue[k].size
    PROVE  Bytes(queue, All) = Bytes(other, All) + Bytes(queue, D)
  <1>1. Bytes(other, D) = 0
    BY BytesOfEmpties
  <1>2. Bytes(other, All \ D) = Bytes(queue, All \ D)
    BY BytesSame
  <1>3. /\ Bytes(queue, All) = Bytes(queue, D) + Bytes(queue, All \ D)
        /\ Bytes(other, All) = Bytes(other, D) + Bytes(other, All \ D)
    BY BytesSplit
  <1>4. Bytes(queue, D) \in Nat /\ Bytes(queue, All \ D) \in Nat
    BY BytesNat
  <1> QED
    BY <1>1, <1>2, <1>3, <1>4

(* The keys with nothing in the queue add nothing.                         *)
LEMMA BytesOfQueued ==
    ASSUME NEW All, IsFiniteSet(All),
           NEW queue, Sized(queue, All), NEW S \in SUBSET All, NEW D \in SUBSET S,
           \A k \in S \ D : queue[k].size = 0
    PROVE  Bytes(queue, S) = Bytes(queue, D)
  <1>1. Bytes(queue, S \ D) = 0
    BY BytesOfEmpties
  <1>2. Bytes(queue, D) \in Nat
    BY BytesNat
  <1> QED
    BY <1>1, <1>2, BytesSplit

-----------------------------------------------------------------------------
(* Types, apart from the number of bytes, which is a number because it is  *)
(* the sum of the sizes.                                                   *)
Reports == [key : Keys, seq : Nat, gen : Nat]
Shape ==
    /\ gen \in [Keys -> Nat] /\ latest \in [Keys -> Nat]
    /\ dirtyKeys \in [Keys -> Nat] /\ captureDeletes \in [Keys -> Nat]
    /\ reading \in [Keys -> Nat] /\ diskKey \in [Keys -> Nat]
    /\ ignore \in SUBSET Keys
    /\ revision \in Nat /\ dropped \in Nat
    /\ closed \in BOOLEAN /\ saved \in BOOLEAN
    /\ pending \in [Keys -> Item] /\ flushing \in [Keys -> Item] /\ diskCapture \in [Keys -> Item]
    /\ report \in [Requests -> Reports \cup {Idle}]
    /\ writer \in {"loop", "update", "settle", "serve", "captures",
                   "write", "written", "drain", "done", "failed"}
    /\ job \in {"flush", "tick", "extra", "stop"}
    /\ snap \in [revs : [Keys -> Nat], deletes : [Keys -> Nat], gens : [Keys -> Nat]]

LEMMA TypesAreShape ==
    TypeOK <=> Shape /\ captureBytes \in Nat
  BY DEF TypeOK, Shape, Reports

LEMMA Constants ==
    /\ None \in Item /\ None.seq = 0 /\ None.gen = 0 /\ None.size = 0
    /\ Zero \in [Keys -> Nat] /\ NoItems \in [Keys -> Item]
    /\ \A k \in Keys : Zero[k] = 0 /\ NoItems[k] = None
    /\ NoSnapshot \in [revs : [Keys -> Nat], deletes : [Keys -> Nat], gens : [Keys -> Nat]]
    /\ NoSnapshot.revs = Zero /\ NoSnapshot.deletes = Zero /\ NoSnapshot.gens = Zero
  BY DEF None, Item, Zero, NoItems, NoSnapshot

LEMMA FiniteKeys ==
    ASSUME NEW S \in SUBSET Keys
    PROVE  IsFiniteSet(S) /\ Cardinality(S) \in Nat
  BY KeysAssumption, FS_Subset, FS_CardinalityType

LEMMA SizeTypes ==
    /\ \A size \in Sizes : size \in Nat /\ size > 0
    /\ RecordLimit \in Nat /\ QueueLimit \in Nat /\ QueueBytes \in Nat /\ BatchBytes \in Nat
  BY SizesAssumption, LimitsAssumption

(* The steps of the specification one by one.                              *)
LEMMA StepCases ==
    ASSUME Next
    PROVE  \/ \E k \in Keys : CreateKey(k) \/ GetCapture(k) \/ ReadDisk(k)
           \/ \E S \in SUBSET Keys : DeleteKeys(S)
           \/ \E t \in Requests, k \in Keys : PrepareCapture(t, k)
           \/ \E t \in Requests, size \in Sizes : enqueueCapture(t, size)
           \/ Close
           \/ \E why \in {"flush", "tick", "extra", "stop"}, prune \in BOOLEAN :
                 /\ writer \in {"loop", "serve"} /\ (why = "stop" => closed)
                 /\ Snapshot(why, prune)
           \/ NoFlushWaiting \/ Commit \/ UpdateFails \/ Settle
           \/ \E B \in SUBSET Queued : TakeBatch(B)
           \/ WriteBatch \/ WriteFails \/ FinishBatch \/ Exit \/ Restart
  BY DEF Next, Operations, Loop, FlushOrTick, Stop, ServeFlush, Batches

(* What the queue looks like after a capture has come: each key has what   *)
(* it had or nothing, but the key of the capture may have that.            *)
LEMMA Enqueued ==
    ASSUME Shape, NEW t \in Requests, NEW size \in Sizes, enqueueCapture(t, size)
    PROVE  /\ report[t] \in Reports /\ report[t] # Idle
           /\ dropped' \in Nat /\ pending' \in [Keys -> Item]
           /\ \A k \in Keys :
                \/ pending'[k] = pending[k]
                \/ pending'[k] = None
                \/ /\ k = report[t].key /\ ~Obsolete(report[t])
                   /\ pending'[k] = [seq |-> report[t].seq, gen |-> report[t].gen, size |-> size]
  <1> DEFINE c == report[t]
  <1>1. c \in Reports /\ c # Idle /\ c.key \in Keys /\ c.seq \in Nat /\ c.gen \in Nat
    BY DEF enqueueCapture, Shape, Reports
  <1>2. size \in Nat
    BY SizeTypes
  <1>3. CASE UNCHANGED pending /\ dropped' \in {dropped, dropped + 1}
    BY <1>1, <1>3 DEF Shape
  <1>4. CASE DropAll(c)
    <2>1. Cardinality(Others(c.key)) \in Nat
      BY FiniteKeys DEF Others, Queued
    <2> QED
      BY <1>1, <1>4, <2>1, Constants DEF DropAll, Shape
  <1>5. CASE ~Obsolete(c) /\ Insert(c, size)
    <2>1. PICK D \in MakesRoom(c.key, size) :
              /\ pending' = [k \in Keys |->
                                IF k = c.key THEN [seq |-> c.seq, gen |-> c.gen, size |-> size]
                                ELSE IF k \in D THEN None
                                ELSE pending[k]]
              /\ dropped' = dropped + Cardinality(D)
      BY <1>5 DEF Insert
    <2>2. D \in SUBSET Keys
      BY DEF MakesRoom, Others, Queued
    <2>3. Cardinality(D) \in Nat
      BY <2>2, FiniteKeys
    <2>4. [seq |-> c.seq, gen |-> c.gen, size |-> size] \in Item
      BY <1>1, <1>2 DEF Item
    <2>5. pending' \in [Keys -> Item]
      BY <2>1, <2>4, Constants DEF Shape
    <2>6. dropped' \in Nat
      BY <2>1, <2>3 DEF Shape
    <2> QED
      BY <1>1, <1>5, <2>1, <2>5, <2>6
  <1> QED
    BY <1>3, <1>4, <1>5 DEF enqueueCapture

(* The outcomes of persistMetadata.                                        *)
LEMMA Outcomes ==
    /\ \A why \in {"flush", "tick", "extra", "stop"} :
          /\ AfterSuccess[why] \in {"loop", "serve", "captures", "drain"}
          /\ AfterFailure[why] \in {"loop", "captures", "failed"}
          /\ AfterSuccess[why] = "drain" => why = "stop"
          /\ AfterFailure[why] = "failed" => why = "stop"
  BY DEF AfterSuccess, AfterFailure

LEMMA ShapeStays ==
    ASSUME Shape, [Next]_vars
    PROVE  Shape'
  <1> USE Constants
  <1>1. CASE UNCHANGED vars
    BY <1>1 DEF Shape, vars, keyVars, queueVars, writerVars, diskVars
  <1>2. ASSUME NEW k \in Keys, CreateKey(k) \/ GetCapture(k) \/ ReadDisk(k)
        PROVE  Shape'
    BY <1>2 DEF CreateKey, GetCapture, ReadDisk, nextRevision, Shape, queueVars, writerVars,
                diskVars, keyVars
  <1>3. ASSUME NEW S \in SUBSET Keys, DeleteKeys(S)
        PROVE  Shape'
    <2>1. revision' \in Nat
      BY <1>3 DEF DeleteKeys, nextRevision, Shape
    <2>2. /\ gen' \in [Keys -> Nat] /\ latest' \in [Keys -> Nat]
          /\ dirtyKeys' \in [Keys -> Nat] /\ captureDeletes' \in [Keys -> Nat]
          /\ ignore' \in SUBSET Keys
      BY <1>3, <2>1 DEF DeleteKeys, Shape
    <2>3. pending' \in [Keys -> Item]
      BY <1>3 DEF DeleteKeys, Shape
    <2> QED
      BY <1>3, <2>1, <2>2, <2>3 DEF DeleteKeys, Shape, writerVars, diskVars
  <1>4. ASSUME NEW t \in Requests, NEW k \in Keys, PrepareCapture(t, k)
        PROVE  Shape'
    <2>1. revision' \in Nat
      BY <1>4 DEF PrepareCapture, nextRevision, Shape
    <2>2. [key |-> k, seq |-> revision', gen |-> gen[k]] \in Reports
      BY <2>1 DEF Reports, Shape
    <2> QED
      BY <1>4, <2>1, <2>2 DEF PrepareCapture, Shape, writerVars, diskVars, queueVars
  <1>5. ASSUME NEW t \in Requests, NEW size \in Sizes, enqueueCapture(t, size)
        PROVE  Shape'
    <2>1. report' \in [Requests -> Reports \cup {Idle}]
      BY <1>5 DEF enqueueCapture, Shape
    <2>2. dropped' \in Nat /\ pending' \in [Keys -> Item]
      BY <1>5, Enqueued
    <2> QED
      BY <1>5, <2>1, <2>2 DEF enqueueCapture, Shape, writerVars, diskVars, keyVars
  <1>6. CASE Close
    BY <1>6 DEF Close, Shape, keyVars, queueVars, writerVars, diskVars
  <1>7. ASSUME NEW why \in {"flush", "tick", "extra", "stop"}, NEW prune \in BOOLEAN,
               Snapshot(why, prune)
        PROVE  Shape'
    <2>1. writer' \in {"loop", "serve", "captures", "drain", "update"} /\ job' \in {job, why}
      BY <1>7, Outcomes DEF Snapshot
    <2>2. snap' \in [revs : [Keys -> Nat], deletes : [Keys -> Nat], gens : [Keys -> Nat]]
      BY <1>7 DEF Snapshot, Shape
    <2> QED
      BY <1>7, <2>1, <2>2 DEF Snapshot, Shape, keyVars, queueVars, diskVars
  <1>8. CASE NoFlushWaiting \/ UpdateFails \/ WriteFails \/ Exit
    BY <1>8 DEF NoFlushWaiting, UpdateFails, WriteFails, Exit, Shape, keyVars, queueVars, diskVars
  <1>9. CASE Commit
    BY <1>9 DEF Commit, Shape, keyVars, queueVars
  <1>10. CASE Settle
    <2>1. writer' \in {"loop", "serve", "captures", "drain", "failed"}
      BY <1>10, Outcomes DEF Settle, Shape
    <2>2. dirtyKeys' \in [Keys -> Nat] /\ captureDeletes' \in [Keys -> Nat]
      BY <1>10 DEF Settle, clearRevisions, Shape
    <2> QED
      BY <1>10, <2>1, <2>2 DEF Settle, Shape, queueVars, diskVars
  <1>11. ASSUME NEW B \in SUBSET Queued, TakeBatch(B)
         PROVE  Shape'
    BY <1>11 DEF TakeBatch, Shape, keyVars, diskVars
  <1>12. CASE WriteBatch
    <2>1. \A c \in Item : [c EXCEPT !.size = 0] \in Item
      BY DEF Item
    <2> QED
      BY <1>12, <2>1 DEF WriteBatch, Shape, keyVars, queueVars
  <1>13. CASE FinishBatch
    <2>1. writer' \in {"drain", "loop", "failed"}
      BY <1>13 DEF FinishBatch, AfterCaptures
    <2>2. pending' \in [Keys -> Item] /\ flushing' \in [Keys -> Item] /\ ignore' \in SUBSET Keys
      BY <1>13 DEF FinishBatch, Shape
    <2> QED
      BY <1>13, <2>1, <2>2 DEF FinishBatch, Shape, diskVars
  <1>14. CASE Restart
    BY <1>14 DEF Restart, Shape, diskVars
  <1> QED
    BY <1>1, <1>2, <1>3, <1>4, <1>5, <1>6, <1>7, <1>8, <1>9, <1>10, <1>11, <1>12, <1>13, <1>14,
       StepCases

-----------------------------------------------------------------------------
(* Lives and places in the order are revisions that have been given out.   *)
KeysNumbered ==
    \A k \in Keys :
        /\ gen[k] <= revision /\ diskKey[k] <= revision /\ reading[k] <= revision
        /\ dirtyKeys[k] <= revision
        /\ snap.revs[k] <= revision /\ snap.gens[k] <= revision
CapturesNumbered ==
    \A k \in Keys :
        /\ pending[k].seq <= revision
        /\ flushing[k].seq <= revision
        /\ diskCapture[k].seq <= revision
ReportsNumbered ==
    \A t \in Requests : report[t] # Idle =>
        report[t].seq # 0 /\ report[t].seq <= revision /\ report[t].gen # 0
Numbered == KeysNumbered /\ CapturesNumbered /\ ReportsNumbered

(* What is there is a capture of some life, at some place.                 *)
Genuine ==
    \A k \in Keys :
        /\ pending[k] # None => pending[k].seq # 0
        /\ flushing[k] # None => flushing[k].seq # 0
        /\ diskCapture[k] # None => diskCapture[k].seq # 0

LEMMA Revisions ==
    ASSUME Shape, Next
    PROVE  /\ revision \in Nat /\ revision' \in Nat /\ revision <= revision'
           /\ revision' = revision \/ revision' = revision + 1
  <1>1. revision' = revision \/ nextRevision
    BY StepCases DEF CreateKey, GetCapture, ReadDisk, DeleteKeys, PrepareCapture, enqueueCapture,
        Close, Snapshot, NoFlushWaiting, Commit, UpdateFails, Settle, TakeBatch, WriteBatch, WriteFails,
        FinishBatch, Exit, Restart, keyVars
  <1> QED
    BY <1>1 DEF nextRevision, Shape

LEMMA KeysNumberedStays ==
    ASSUME Shape, KeysNumbered, Next
    PROVE  KeysNumbered'
  <1> USE Constants, Revisions
  <1>1. ASSUME NEW k \in Keys, CreateKey(k)
        PROVE  KeysNumbered'
    BY <1>1 DEF CreateKey, nextRevision, Shape, KeysNumbered, writerVars, diskVars
  <1>2. ASSUME NEW S \in SUBSET Keys, DeleteKeys(S)
        PROVE  KeysNumbered'
    BY <1>2 DEF DeleteKeys, nextRevision, Shape, KeysNumbered, writerVars, diskVars
  <1>3. ASSUME NEW t \in Requests, NEW k \in Keys, PrepareCapture(t, k)
        PROVE  KeysNumbered'
    BY <1>3 DEF PrepareCapture, nextRevision, Shape, KeysNumbered, writerVars, diskVars
  <1>4. ASSUME NEW k \in Keys, GetCapture(k) \/ ReadDisk(k)
        PROVE  KeysNumbered'
    BY <1>4 DEF GetCapture, ReadDisk, Shape, KeysNumbered, keyVars, writerVars, diskVars
  <1>5. ASSUME NEW why \in {"flush", "tick", "extra", "stop"}, NEW prune \in BOOLEAN,
               Snapshot(why, prune)
        PROVE  KeysNumbered'
    BY <1>5 DEF Snapshot, Shape, KeysNumbered, keyVars, diskVars
  <1>6. CASE Commit
    BY <1>6 DEF Commit, Shape, KeysNumbered, keyVars
  <1>7. CASE Settle
    BY <1>7 DEF Settle, clearRevisions, Shape, KeysNumbered, diskVars
  <1>8. CASE Restart
    BY <1>8 DEF Restart, Shape, KeysNumbered, diskVars
  <1>9. ASSUME UNCHANGED <<gen, diskKey, reading, dirtyKeys, snap, revision>>
        PROVE  KeysNumbered'
    BY <1>9 DEF KeysNumbered
  <1>10. ASSUME \/ \E t \in Requests, size \in Sizes : enqueueCapture(t, size)
                \/ Close \/ NoFlushWaiting \/ UpdateFails \/ \E B \in SUBSET Queued : TakeBatch(B)
                \/ WriteBatch \/ WriteFails \/ FinishBatch \/ Exit
         PROVE  UNCHANGED <<gen, diskKey, reading, dirtyKeys, snap, revision>>
    BY <1>10 DEF enqueueCapture, Close, NoFlushWaiting, UpdateFails, TakeBatch, WriteBatch, WriteFails,
        FinishBatch, Exit, keyVars, writerVars, diskVars
  <1> QED
    BY <1>1, <1>2, <1>3, <1>4, <1>5, <1>6, <1>7, <1>8, <1>9, <1>10, StepCases

LEMMA ReportsNumberedStays ==
    ASSUME Shape, ReportsNumbered, Next
    PROVE  ReportsNumbered'
  <1> USE Revisions
  <1>1. ASSUME NEW t \in Requests, NEW k \in Keys, PrepareCapture(t, k)
        PROVE  ReportsNumbered'
    BY <1>1 DEF PrepareCapture, nextRevision, Shape, ReportsNumbered, Reports
  <1>2. ASSUME NEW t \in Requests, NEW size \in Sizes, enqueueCapture(t, size)
        PROVE  ReportsNumbered'
    BY <1>2 DEF enqueueCapture, Shape, ReportsNumbered, Reports, keyVars
  <1>3. CASE Restart
    BY <1>3 DEF Restart, ReportsNumbered
  <1>4. CASE UNCHANGED report
    BY <1>4 DEF ReportsNumbered, Shape, Reports
  <1>5. \/ UNCHANGED report \/ Restart
        \/ \E t \in Requests, k \in Keys : PrepareCapture(t, k)
        \/ \E t \in Requests, size \in Sizes : enqueueCapture(t, size)
    BY StepCases DEF CreateKey, GetCapture, ReadDisk, DeleteKeys, Close, Snapshot, NoFlushWaiting,
        Commit, UpdateFails, Settle, TakeBatch, WriteBatch, WriteFails, FinishBatch, Exit
  <1> QED
    BY <1>1, <1>2, <1>3, <1>4, <1>5

(* The queues and the disk get captures from each other and from reports.  *)
LEMMA CapturesMove ==
    ASSUME Shape, Next, NEW k \in Keys
    PROVE  /\ \/ pending'[k] \in {pending[k], None, flushing[k]}
              \/ \E t \in Requests : /\ report[t] # Idle /\ report[t] \in Reports
                                     /\ pending'[k].seq = report[t].seq
           /\ flushing'[k] \in {flushing[k], pending[k], None}
           /\ \/ diskCapture'[k] \in {diskCapture[k], None}
              \/ flushing[k] # None /\ diskCapture'[k] = [flushing[k] EXCEPT !.size = 0]
  <1> USE Constants
  <1>1. ASSUME NEW t \in Requests, NEW size \in Sizes, enqueueCapture(t, size)
        PROVE  /\ \/ pending'[k] \in {pending[k], None}
                  \/ \E r \in Requests : /\ report[r] # Idle /\ report[r] \in Reports
                                         /\ pending'[k].seq = report[r].seq
               /\ UNCHANGED <<flushing, diskCapture>>
    <2>1. UNCHANGED <<flushing, diskCapture>>
      BY <1>1 DEF enqueueCapture, diskVars
    <2>2. /\ report[t] \in Reports /\ report[t] # Idle
          /\ \/ pending'[k] = pending[k]
             \/ pending'[k] = None
             \/ pending'[k] = [seq |-> report[t].seq, gen |-> report[t].gen, size |-> size]
      BY <1>1, Enqueued
    <2>3. CASE pending'[k] = [seq |-> report[t].seq, gen |-> report[t].gen, size |-> size]
      <3>1. pending'[k].seq = report[t].seq
        BY <2>3
      <3> QED
        BY <2>1, <2>2, <3>1
    <2> QED
      BY <2>1, <2>2, <2>3
  <1>2. ASSUME NEW S \in SUBSET Keys, DeleteKeys(S)
        PROVE  /\ pending'[k] \in {pending[k], None}
               /\ UNCHANGED <<flushing, diskCapture>>
    BY <1>2 DEF DeleteKeys, diskVars
  <1>3. CASE Restart
    BY <1>3 DEF Restart, diskVars
  <1>4. CASE Commit
    BY <1>4 DEF Commit, queueVars
  <1>5. ASSUME NEW B \in SUBSET Queued, TakeBatch(B)
        PROVE  /\ pending'[k] \in {pending[k], None}
               /\ flushing'[k] \in {flushing[k], pending[k]}
               /\ UNCHANGED diskCapture
    BY <1>5 DEF TakeBatch, diskVars
  <1>6. CASE FinishBatch
    BY <1>6 DEF FinishBatch, diskVars
  <1>7. CASE WriteBatch
    BY <1>7 DEF WriteBatch, queueVars, InFlight
  <1>8. CASE UNCHANGED <<pending, flushing, diskCapture>>
    BY <1>8
  <1>9. \/ UNCHANGED <<pending, flushing, diskCapture>>
        \/ \E t \in Requests, size \in Sizes : enqueueCapture(t, size)
        \/ \E S \in SUBSET Keys : DeleteKeys(S)
        \/ Restart \/ Commit \/ FinishBatch \/ WriteBatch
        \/ \E B \in SUBSET Queued : TakeBatch(B)
    BY StepCases DEF CreateKey, GetCapture, ReadDisk, PrepareCapture, Close, Snapshot, NoFlushWaiting,
        UpdateFails, Settle, WriteFails, Exit, queueVars, diskVars
  <1> QED
    BY <1>1, <1>2, <1>3, <1>4, <1>5, <1>6, <1>7, <1>8, <1>9

LEMMA CapturesNumberedStays ==
    ASSUME Shape, CapturesNumbered, ReportsNumbered, Next
    PROVE  CapturesNumbered'
  <1> SUFFICES ASSUME NEW k \in Keys
               PROVE  /\ pending'[k].seq <= revision'
                      /\ flushing'[k].seq <= revision'
                      /\ diskCapture'[k].seq <= revision'
    BY DEF CapturesNumbered
  <1>0. revision \in Nat /\ None.seq <= revision
    BY Constants DEF Shape
  <1>1. /\ pending[k] \in Item /\ flushing[k] \in Item /\ diskCapture[k] \in Item
        /\ pending[k].seq <= revision /\ flushing[k].seq <= revision /\ diskCapture[k].seq <= revision
    BY DEF Shape, CapturesNumbered
  <1>2. \A t \in Requests : report[t] # Idle /\ report[t] \in Reports
                            => report[t].seq \in Nat /\ report[t].seq <= revision
    BY DEF ReportsNumbered, Reports
  <1>3. [flushing[k] EXCEPT !.size = 0].seq = flushing[k].seq
    BY <1>1 DEF Item
  <1>4. pending'[k].seq <= revision
    <2>1. CASE pending'[k] \in {pending[k], None, flushing[k]}
      BY <1>0, <1>1, <2>1
    <2>2. ASSUME NEW t \in Requests, report[t] # Idle, report[t] \in Reports,
                 pending'[k].seq = report[t].seq
          PROVE  pending'[k].seq <= revision
      BY <1>2, <2>2
    <2> QED
      BY <2>1, <2>2, CapturesMove
  <1>5. flushing'[k].seq <= revision /\ diskCapture'[k].seq <= revision
    <2>1. CASE diskCapture'[k] = [flushing[k] EXCEPT !.size = 0]
      BY <1>0, <1>1, <1>3, <2>1, CapturesMove
    <2> QED
      BY <1>0, <1>1, <2>1, CapturesMove
  <1>6. pending'[k] \in Item /\ flushing'[k] \in Item /\ diskCapture'[k] \in Item
    BY ShapeStays DEF Shape
  <1> QED
    BY <1>4, <1>5, <1>6, Revisions DEF Item

LEMMA GenuineStays ==
    ASSUME Shape, Genuine, ReportsNumbered, Next
    PROVE  Genuine'
  <1> SUFFICES ASSUME NEW k \in Keys
               PROVE  /\ pending'[k] # None => pending'[k].seq # 0
                      /\ flushing'[k] # None => flushing'[k].seq # 0
                      /\ diskCapture'[k] # None => diskCapture'[k].seq # 0
    BY DEF Genuine
  <1>1. flushing[k] \in Item /\ [flushing[k] EXCEPT !.size = 0].seq = flushing[k].seq
    BY DEF Shape, Item
  <1> QED
    BY <1>1, CapturesMove DEF Genuine, ReportsNumbered

LEMMA NumberedStays ==
    ASSUME Shape, Numbered, Next
    PROVE  Numbered'
  BY KeysNumberedStays, CapturesNumberedStays, ReportsNumberedStays DEF Numbered

-----------------------------------------------------------------------------
(* Where the writer is: it has a batch only while it writes one and a      *)
(* snapshot only during the transaction, and it drains a closed store.     *)
WriterInv ==
    /\ writer \notin {"write", "written"} => flushing = NoItems
    /\ writer \notin {"update", "settle"} => snap = NoSnapshot
    /\ writer \in {"drain", "done", "failed"} \/ job = "stop" => closed
    /\ writer = "done" => Queued = {}

LEMMA WriterInvStays ==
    ASSUME Shape, WriterInv, Next
    PROVE  WriterInv'
  <1>1. ASSUME \/ \E k \in Keys : CreateKey(k) \/ GetCapture(k) \/ ReadDisk(k)
               \/ \E t \in Requests, k \in Keys : PrepareCapture(t, k)
               \/ Close
        PROVE  WriterInv'
    BY <1>1 DEF WriterInv, CreateKey, GetCapture, ReadDisk, PrepareCapture, Close, nextRevision, keyVars,
                queueVars, writerVars, diskVars, Queued
  <1>2. ASSUME NEW S \in SUBSET Keys, DeleteKeys(S)
        PROVE  WriterInv'
    <2>1. UNCHANGED <<flushing, writer, job, snap, closed>> /\ ~closed
      BY <1>2 DEF DeleteKeys, nextRevision, writerVars
    <2>2. writer # "done"
      BY <2>1 DEF WriterInv
    <2> QED
      BY <2>1, <2>2 DEF WriterInv
  <1>3. ASSUME NEW t \in Requests, NEW size \in Sizes, enqueueCapture(t, size)
        PROVE  WriterInv'
    <2>1. UNCHANGED <<flushing, writer, job, snap, closed>>
      BY <1>3 DEF enqueueCapture, writerVars
    <2>2. CASE closed
      <3>1. UNCHANGED pending
        BY <1>3, <2>2 DEF enqueueCapture, Obsolete
      <3> QED
        BY <2>1, <3>1 DEF WriterInv, Queued
    <2>3. CASE ~closed
      <3>1. writer # "done"
        BY <2>3 DEF WriterInv
      <3> QED
        BY <2>1, <3>1 DEF WriterInv
    <2> QED
      BY <2>2, <2>3
  <1>4. ASSUME NEW why \in {"flush", "tick", "extra", "stop"}, NEW prune \in BOOLEAN,
               writer \in {"loop", "serve"}, why = "stop" => closed, Snapshot(why, prune)
        PROVE  WriterInv'
    BY <1>4, Outcomes DEF WriterInv, Snapshot, queueVars
  <1>5. CASE Settle
    <2>1. writer = "settle" /\ job' = "tick" /\ snap' = NoSnapshot /\ UNCHANGED <<flushing, closed, pending>>
      BY <1>5 DEF Settle, queueVars
    <2>2. writer' \in {"loop", "serve", "captures", "drain", "failed"}
      BY <1>5, Outcomes DEF Settle, Shape
    <2>3. writer' \in {"drain", "failed"} => job = "stop"
      BY <1>5, Outcomes DEF Settle, Shape
    <2> QED
      BY <2>1, <2>2, <2>3 DEF WriterInv
  <1>6. CASE NoFlushWaiting \/ Commit \/ UpdateFails
    BY <1>6 DEF WriterInv, NoFlushWaiting, Commit, UpdateFails, queueVars
  <1>7. ASSUME NEW B \in SUBSET Queued, TakeBatch(B)
        PROVE  WriterInv'
    <2>1. /\ UNCHANGED <<snap, closed>> /\ writer' \in {"loop", "write"}
          /\ job' = IF writer = "drain" THEN "stop" ELSE "tick"
          /\ writer \in {"captures", "drain"}
      BY <1>7 DEF TakeBatch
    <2>2. B = {} => flushing' = NoItems
      <3>1. B = {} => flushing' = [k \in Keys |-> flushing[k]]
        BY <1>7 DEF TakeBatch
      <3>2. flushing = [k \in Keys |-> flushing[k]]
        BY DEF Shape
      <3>3. flushing = NoItems
        BY <2>1 DEF WriterInv
      <3> QED
        BY <3>1, <3>2, <3>3
    <2>3. B # {} => writer' = "write"
      BY <1>7 DEF TakeBatch
    <2> QED
      BY <2>1, <2>2, <2>3 DEF WriterInv
  <1>8. CASE WriteBatch \/ WriteFails
    BY <1>8 DEF WriterInv, WriteBatch, WriteFails, queueVars, Queued
  <1>9. CASE FinishBatch
    BY <1>9 DEF WriterInv, FinishBatch, AfterCaptures
  <1>10. CASE Exit
    BY <1>10 DEF WriterInv, Exit, queueVars, Queued
  <1>11. CASE Restart
    BY <1>11 DEF WriterInv, Restart
  <1> QED
    BY <1>1, <1>2, <1>3, <1>4, <1>5, <1>6, <1>7, <1>8, <1>9, <1>10, <1>11, StepCases

-----------------------------------------------------------------------------
(* A mark to delete a capture comes with the mark of its key, also while   *)
(* the transaction is under way whose end takes marks away.                *)
CarriedKey(k) ==
    /\ captureDeletes[k] # 0 => dirtyKeys[k] # 0
    /\ writer \in {"update", "settle"} =>
          /\ dirtyKeys[k] >= snap.revs[k]
          /\ captureDeletes[k] # snap.deletes[k] => dirtyKeys[k] > snap.revs[k]
          /\ snap.deletes[k] # 0 => snap.revs[k] # 0
Carried == \A k \in Keys : CarriedKey(k)

LEMMA CarriedStays ==
    ASSUME Shape, KeysNumbered, Carried, Next
    PROVE  Carried'
  <1> USE Constants
  <1>0. /\ revision \in Nat
        /\ \A k \in Keys : /\ dirtyKeys[k] \in Nat /\ captureDeletes[k] \in Nat
                           /\ snap.revs[k] \in Nat /\ snap.deletes[k] \in Nat
                           /\ snap.revs[k] <= revision /\ dirtyKeys[k] <= revision
    BY DEF Shape, KeysNumbered
  <1> SUFFICES ASSUME NEW k \in Keys
               PROVE  CarriedKey(k)'
    BY DEF Carried
  <1>1. CarriedKey(k)
    BY DEF Carried
  <1>2. ASSUME UNCHANGED <<writer, snap>>, revision' = revision + 1, dirtyKeys'[k] = revision'
        PROVE  CarriedKey(k)'
    BY <1>0, <1>1, <1>2 DEF CarriedKey
  <1>3. ASSUME UNCHANGED <<writer, snap>>, dirtyKeys'[k] = dirtyKeys[k],
               captureDeletes'[k] = captureDeletes[k]
        PROVE  CarriedKey(k)'
    BY <1>0, <1>1, <1>3 DEF CarriedKey
  <1>4. ASSUME NEW j \in Keys, CreateKey(j)
        PROVE  CarriedKey(k)'
    BY <1>2, <1>3, <1>4 DEF CreateKey, nextRevision, writerVars, Shape
  <1>5. ASSUME NEW S \in SUBSET Keys, DeleteKeys(S)
        PROVE  CarriedKey(k)'
    BY <1>2, <1>3, <1>5 DEF DeleteKeys, nextRevision, writerVars, Shape
  <1>6. ASSUME NEW t \in Requests, NEW j \in Keys, PrepareCapture(t, j)
        PROVE  CarriedKey(k)'
    BY <1>2, <1>3, <1>6 DEF PrepareCapture, nextRevision, writerVars, Shape
  <1>7. ASSUME NEW why \in {"flush", "tick", "extra", "stop"}, NEW prune \in BOOLEAN,
               Snapshot(why, prune)
        PROVE  CarriedKey(k)'
    <2>1. UNCHANGED <<dirtyKeys, captureDeletes>>
      BY <1>7 DEF Snapshot, keyVars
    <2>2. CASE writer' = "update" /\ snap' = [revs |-> dirtyKeys, deletes |-> captureDeletes, gens |-> gen]
      BY <1>0, <1>1, <2>1, <2>2 DEF CarriedKey
    <2>3. CASE writer' = AfterSuccess[why]
      <3>1. writer' \notin {"update", "settle"}
        BY <2>3, Outcomes
      <3> QED
        BY <1>1, <2>1, <3>1 DEF CarriedKey
    <2> QED
      BY <1>7, <2>2, <2>3 DEF Snapshot
  <1>8. CASE Commit \/ UpdateFails
    BY <1>1, <1>8 DEF Commit, UpdateFails, keyVars, CarriedKey
  <1>9. CASE Settle
    <2>1. writer = "settle" /\ writer' \notin {"update", "settle"}
      BY <1>9, Outcomes DEF Settle, Shape
    <2>2. /\ dirtyKeys'[k] = IF saved /\ dirtyKeys[k] = snap.revs[k] THEN 0 ELSE dirtyKeys[k]
          /\ captureDeletes'[k] = IF saved /\ captureDeletes[k] = snap.deletes[k] THEN 0
                                  ELSE captureDeletes[k]
      BY <1>9 DEF Settle, clearRevisions
    <2> QED
      BY <1>0, <1>1, <2>1, <2>2 DEF CarriedKey
  <1>10. CASE Restart
    BY <1>10 DEF Restart, CarriedKey
  <1>11. CASE \/ NoFlushWaiting \/ \E B \in SUBSET Queued : TakeBatch(B)
              \/ WriteBatch \/ WriteFails \/ FinishBatch \/ Exit
    <2>1. UNCHANGED <<dirtyKeys, captureDeletes>> /\ writer' \notin {"update", "settle"}
      BY <1>11 DEF NoFlushWaiting, TakeBatch, WriteBatch, WriteFails, FinishBatch, Exit, keyVars,
                   AfterCaptures
    <2> QED
      BY <1>1, <2>1 DEF CarriedKey
  <1>12. CASE \/ \E j \in Keys : GetCapture(j) \/ ReadDisk(j)
              \/ \E t \in Requests, size \in Sizes : enqueueCapture(t, size)
              \/ Close
    BY <1>3, <1>12 DEF GetCapture, ReadDisk, enqueueCapture, Close, keyVars, writerVars
  <1> QED
    BY <1>4, <1>5, <1>6, <1>7, <1>8, <1>9, <1>10, <1>11, <1>12, StepCases

-----------------------------------------------------------------------------
(* The lives of a key.  A capture waits for the life that the key has; a   *)
(* batch may have been taken in an earlier one, but then the key ignores   *)
(* what is stored until that is deleted.  Nothing on disk is older than    *)
(* the stored key, than a reader, or than the key if it looks there.       *)
PendingLife(k) ==
    /\ pending[k] # None => pending[k].gen = gen[k] /\ gen[k] # 0
    /\ gen[k] # 0 => /\ diskKey[k] <= gen[k] /\ reading[k] <= gen[k]
                     /\ writer = "update" => /\ snap.gens[k] <= gen[k]
                                             /\ snap.gens[k] = 0 => k \in ignore
FlushingLife(k) ==
    flushing[k] # None =>
        /\ flushing[k].gen # 0
        /\ diskKey[k] <= flushing[k].gen
        /\ captureDeletes[k] = 0 => gen[k] <= flushing[k].gen
        /\ gen[k] # 0 /\ k \notin ignore => gen[k] <= flushing[k].gen
        /\ reading[k] # 0 => reading[k] <= flushing[k].gen
        /\ writer = "written" /\ saved => /\ diskCapture[k].gen = flushing[k].gen
                                          /\ diskCapture[k].seq = flushing[k].seq
StoredLife(k) ==
    diskCapture[k] # None =>
        /\ captureDeletes[k] = 0 => gen[k] <= diskCapture[k].gen
        /\ gen[k] # 0 /\ k \notin ignore => gen[k] <= diskCapture[k].gen
        /\ writer = "update" /\ snap.deletes[k] = 0 => snap.gens[k] <= diskCapture[k].gen
        /\ writer = "settle" /\ saved => snap.deletes[k] = 0
        /\ diskKey[k] # 0 => diskKey[k] <= diskCapture[k].gen
        /\ reading[k] # 0 => reading[k] <= diskCapture[k].gen
LifeOf(k) == PendingLife(k) /\ FlushingLife(k) /\ StoredLife(k)
Lives == \A k \in Keys : LifeOf(k)

LEMMA KeyTypes ==
    ASSUME Shape, NEW k \in Keys
    PROVE  /\ gen[k] \in Nat /\ latest[k] \in Nat /\ captureDeletes[k] \in Nat /\ dirtyKeys[k] \in Nat
           /\ reading[k] \in Nat /\ diskKey[k] \in Nat
           /\ snap.gens[k] \in Nat /\ snap.revs[k] \in Nat /\ snap.deletes[k] \in Nat
           /\ pending[k] \in Item /\ flushing[k] \in Item /\ diskCapture[k] \in Item
           /\ pending[k].gen \in Nat /\ flushing[k].gen \in Nat /\ diskCapture[k].gen \in Nat
           /\ pending[k].seq \in Nat /\ flushing[k].seq \in Nat /\ diskCapture[k].seq \in Nat
           /\ pending[k].size \in Nat /\ flushing[k].size \in Nat /\ diskCapture[k].size \in Nat
           /\ revision \in Nat
  BY DEF Shape, Item

LEMMA OperationsKeepLives ==
    ASSUME Shape, WriterInv, KeysNumbered, ReportsNumbered, Lives, NEW k \in Keys,
           \/ \E j \in Keys : CreateKey(j) \/ GetCapture(j) \/ ReadDisk(j)
           \/ \E S \in SUBSET Keys : DeleteKeys(S)
           \/ \E t \in Requests, j \in Keys : PrepareCapture(t, j)
           \/ \E t \in Requests, size \in Sizes : enqueueCapture(t, size)
           \/ Close
    PROVE  LifeOf(k)'
  <1> USE KeyTypes, Constants
  <1>0. LifeOf(k)
    BY DEF Lives
  <1>1. ASSUME NEW j \in Keys, CreateKey(j)
        PROVE  LifeOf(k)'
    <2>1. UNCHANGED <<pending, flushing, reading, writer, saved, snap, diskKey, diskCapture>>
      BY <1>1 DEF CreateKey, queueVars, writerVars, diskVars
    <2>2. CASE j = k
      <3>1. /\ gen[k] = 0 /\ gen'[k] = revision + 1 /\ captureDeletes'[k] = revision + 1 /\ k \in ignore'
        BY <1>1, <2>2 DEF CreateKey, nextRevision, Shape
      <3>2. diskKey[k] <= revision /\ reading[k] <= revision /\ snap.gens[k] <= revision
        BY DEF KeysNumbered
      <3> QED
        BY <1>0, <2>1, <3>1, <3>2 DEF LifeOf, PendingLife, FlushingLife, StoredLife
    <2>3. CASE j # k
      <3>1. gen'[k] = gen[k] /\ captureDeletes'[k] = captureDeletes[k] /\ (k \in ignore' <=> k \in ignore)
        BY <1>1, <2>3 DEF CreateKey, Shape
      <3> QED
        BY <1>0, <2>1, <3>1 DEF LifeOf, PendingLife, FlushingLife, StoredLife
    <2> QED
      BY <2>2, <2>3
  <1>2. ASSUME NEW S \in SUBSET Keys, DeleteKeys(S)
        PROVE  LifeOf(k)'
    <2>1. UNCHANGED <<flushing, reading, writer, saved, snap, diskKey, diskCapture>>
      BY <1>2 DEF DeleteKeys, writerVars, diskVars
    <2>2. CASE k \in S
      <3>1. gen'[k] = 0 /\ pending'[k] = None
        BY <1>2, <2>2 DEF DeleteKeys
      <3> QED
        BY <1>0, <2>1, <3>1 DEF LifeOf, PendingLife, FlushingLife, StoredLife
    <2>3. CASE k \notin S
      <3>1. /\ gen'[k] = gen[k] /\ captureDeletes'[k] = captureDeletes[k] /\ pending'[k] = pending[k]
            /\ k \in ignore' <=> k \in ignore
        BY <1>2, <2>3 DEF DeleteKeys, Shape
      <3> QED
        BY <1>0, <2>1, <3>1 DEF LifeOf, PendingLife, FlushingLife, StoredLife
    <2> QED
      BY <2>2, <2>3
  <1>3. ASSUME NEW t \in Requests, NEW j \in Keys, PrepareCapture(t, j)
        PROVE  LifeOf(k)'
    BY <1>0, <1>3 DEF PrepareCapture, queueVars, writerVars, diskVars, LifeOf, PendingLife, FlushingLife,
                      StoredLife
  <1>4. ASSUME NEW t \in Requests, NEW size \in Sizes, enqueueCapture(t, size)
        PROVE  LifeOf(k)'
    <2>1. UNCHANGED <<keyVars, flushing, reading, writerVars, diskVars>>
      BY <1>4 DEF enqueueCapture
    <2>2. pending'[k] # None => pending'[k].gen = gen[k] /\ gen[k] # 0
      <3>1. CASE /\ k = report[t].key /\ ~Obsolete(report[t])
                 /\ pending'[k] = [seq |-> report[t].seq, gen |-> report[t].gen, size |-> size]
        <4>1. pending'[k].gen = report[t].gen /\ report[t].gen = gen[k]
          BY <3>1 DEF Obsolete
        <4>2. report[t].gen # 0
          BY <1>4 DEF ReportsNumbered, enqueueCapture
        <4> QED
          BY <4>1, <4>2
      <3>2. CASE pending'[k] \in {pending[k], None}
        BY <1>0, <3>2 DEF LifeOf, PendingLife
      <3> QED
        BY <1>4, <3>1, <3>2, Enqueued
    <2> QED
      BY <1>0, <2>1, <2>2 DEF keyVars, writerVars, diskVars, LifeOf, PendingLife, FlushingLife, StoredLife
  <1>5. ASSUME NEW j \in Keys, GetCapture(j)
        PROVE  LifeOf(k)'
    <2>1. UNCHANGED <<keyVars, queueVars, writerVars, diskVars>>
      BY <1>5 DEF GetCapture
    <2>2. reading'[k] = reading[k] \/ (reading'[k] = gen[k] /\ gen[k] # 0 /\ k \notin ignore)
      BY <1>5 DEF GetCapture, Shape
    <2> QED
      BY <1>0, <2>1, <2>2 DEF keyVars, queueVars, writerVars, diskVars, LifeOf, PendingLife, FlushingLife,
                              StoredLife
  <1>6. ASSUME NEW j \in Keys, ReadDisk(j)
        PROVE  LifeOf(k)'
    <2>1. UNCHANGED <<keyVars, queueVars, writerVars, diskVars>>
      BY <1>6 DEF ReadDisk
    <2>2. reading'[k] = reading[k] \/ reading'[k] = 0
      BY <1>6 DEF ReadDisk, Shape
    <2> QED
      BY <1>0, <2>1, <2>2 DEF keyVars, queueVars, writerVars, diskVars, LifeOf, PendingLife, FlushingLife,
                              StoredLife
  <1>7. CASE Close
    BY <1>0, <1>7 DEF Close, keyVars, queueVars, writerVars, diskVars, LifeOf, PendingLife, FlushingLife,
                      StoredLife
  <1> QED
    BY <1>1, <1>2, <1>3, <1>4, <1>5, <1>6, <1>7

LEMMA MetadataKeepsLives ==
    ASSUME Shape, WriterInv, Carried, Lives, NEW k \in Keys,
           \/ \E why \in {"flush", "tick", "extra", "stop"}, prune \in BOOLEAN :
                 writer \in {"loop", "serve"} /\ Snapshot(why, prune)
           \/ NoFlushWaiting \/ Commit \/ UpdateFails \/ Settle
    PROVE  LifeOf(k)'
  <1> USE KeyTypes, Constants
  <1>0. LifeOf(k)
    BY DEF Lives
  <1>1. flushing[k] = None /\ writer \notin {"write", "written"}
    BY DEF WriterInv, Snapshot, NoFlushWaiting, Commit, UpdateFails, Settle
  <1>2. ASSUME NEW why \in {"flush", "tick", "extra", "stop"}, NEW prune \in BOOLEAN,
               writer \in {"loop", "serve"}, Snapshot(why, prune)
        PROVE  LifeOf(k)'
    <2>1. UNCHANGED <<keyVars, queueVars, reading, diskVars>>
      BY <1>2 DEF Snapshot
    <2>2. writer' = "update" => snap'.gens[k] = gen[k] /\ snap'.deletes[k] = captureDeletes[k]
      BY <1>2, Outcomes DEF Snapshot
    <2>3. writer' # "settle"
      BY <1>2, Outcomes DEF Snapshot
    <2> QED
      BY <1>0, <1>1, <2>1, <2>2, <2>3 DEF keyVars, queueVars, diskVars, LifeOf, PendingLife, FlushingLife,
                                     StoredLife
  <1>3. CASE NoFlushWaiting
    BY <1>0, <1>1, <1>3 DEF NoFlushWaiting, keyVars, queueVars, diskVars, LifeOf, PendingLife, FlushingLife,
                      StoredLife
  <1>4. CASE Commit
    <2>1. UNCHANGED <<keyVars, queueVars, reading, snap>> /\ writer = "update" /\ writer' = "settle"
      BY <1>4 DEF Commit
    <2>2. /\ diskKey'[k] \in {diskKey[k], snap.gens[k]}
          /\ diskCapture'[k] # None =>
                /\ diskCapture'[k] = diskCapture[k] /\ snap.deletes[k] = 0
      BY <1>4 DEF Commit
    <2> QED
      BY <1>0, <1>1, <2>1, <2>2 DEF keyVars, queueVars, LifeOf, PendingLife, FlushingLife, StoredLife
  <1>5. CASE UpdateFails
    BY <1>0, <1>1, <1>5 DEF UpdateFails, keyVars, queueVars, diskVars, LifeOf, PendingLife, FlushingLife,
                      StoredLife
  <1>6. CASE Settle
    <2>1. /\ UNCHANGED <<gen, ignore, queueVars, reading, diskVars>>
          /\ writer = "settle" /\ writer' \notin {"update", "settle", "written"}
      BY <1>6, Outcomes DEF Settle, Shape
    <2>2. captureDeletes'[k] = IF saved /\ captureDeletes[k] = snap.deletes[k] THEN 0
                               ELSE captureDeletes[k]
      BY <1>6 DEF Settle, clearRevisions
    <2> QED
      BY <1>0, <1>1, <2>1, <2>2 DEF queueVars, diskVars, LifeOf, PendingLife, FlushingLife, StoredLife
  <1> QED
    BY <1>2, <1>3, <1>4, <1>5, <1>6

LEMMA BatchKeepsLives ==
    ASSUME Shape, WriterInv, Lives, NEW k \in Keys,
           \/ \E B \in SUBSET Queued : TakeBatch(B)
           \/ WriteBatch \/ WriteFails \/ FinishBatch \/ Exit \/ Restart
    PROVE  LifeOf(k)'
  <1> USE KeyTypes, Constants
  <1>0. LifeOf(k)
    BY DEF Lives
  <1>1. ASSUME NEW B \in SUBSET Queued, TakeBatch(B)
        PROVE  LifeOf(k)'
    <2>1. /\ UNCHANGED <<keyVars, reading, snap, diskVars>>
          /\ writer' \in {"loop", "write"} /\ flushing[k] = None
      BY <1>1 DEF TakeBatch, WriterInv
    <2>2. \/ pending'[k] = pending[k] /\ flushing'[k] = None
          \/ pending'[k] = None /\ flushing'[k] = pending[k]
      BY <1>1, <2>1 DEF TakeBatch
    <2> QED
      BY <1>0, <2>1, <2>2 DEF keyVars, diskVars, LifeOf, PendingLife, FlushingLife, StoredLife
  <1>2. CASE WriteBatch
    <2>1. UNCHANGED <<keyVars, queueVars, reading, snap, diskKey>> /\ writer' = "written"
      BY <1>2 DEF WriteBatch
    <2>2. /\ flushing[k] = None => diskCapture'[k] = diskCapture[k]
          /\ flushing[k] # None => diskCapture'[k] = [flushing[k] EXCEPT !.size = 0]
      BY <1>2 DEF WriteBatch, InFlight
    <2>3. /\ [flushing[k] EXCEPT !.size = 0].gen = flushing[k].gen
          /\ [flushing[k] EXCEPT !.size = 0].seq = flushing[k].seq
      BY DEF Item
    <2> QED
      BY <1>0, <2>1, <2>2, <2>3 DEF keyVars, queueVars, LifeOf, PendingLife, FlushingLife, StoredLife
  <1>3. CASE WriteFails
    BY <1>0, <1>3 DEF WriteFails, keyVars, queueVars, diskVars, LifeOf, PendingLife, FlushingLife, StoredLife
  <1>4. CASE FinishBatch
    <2>1. /\ UNCHANGED <<gen, captureDeletes, reading, snap, diskVars>>
          /\ writer = "written" /\ writer' \in {"drain", "loop", "failed"}
          /\ flushing'[k] = None
      BY <1>4 DEF FinishBatch, AfterCaptures
    <2>2. \/ pending'[k] = pending[k]
          \/ pending'[k] = flushing[k] /\ flushing[k] # None /\ gen[k] = flushing[k].gen
      BY <1>4 DEF FinishBatch, Requeued, InFlight
    <2>3. \/ k \in ignore' <=> k \in ignore
          \/ saved /\ flushing[k] # None /\ gen[k] = flushing[k].gen
      BY <1>4 DEF FinishBatch, InFlight
    <2> QED
      BY <1>0, <2>1, <2>2, <2>3 DEF diskVars, LifeOf, PendingLife, FlushingLife, StoredLife
  <1>5. CASE Exit
    BY <1>0, <1>5 DEF Exit, keyVars, queueVars, diskVars, LifeOf, PendingLife, FlushingLife, StoredLife
  <1>6. CASE Restart
    BY <1>0, <1>6 DEF Restart, diskVars, LifeOf, PendingLife, FlushingLife, StoredLife
  <1> QED
    BY <1>1, <1>2, <1>3, <1>4, <1>5, <1>6

LEMMA LivesStay ==
    ASSUME Shape, WriterInv, KeysNumbered, ReportsNumbered, Carried, Lives, Next
    PROVE  Lives'
  <1> SUFFICES ASSUME NEW k \in Keys
               PROVE  LifeOf(k)'
    BY DEF Lives
  <1> QED
    BY OperationsKeepLives, MetadataKeepsLives, BatchKeepsLives, StepCases

-----------------------------------------------------------------------------
(* The order of completion: what the disk, the batch and the queue hold of *)
(* a key gets newer in this order, and none is newer than the last         *)
(* exchange that the key has had.                                          *)
OrderOf(k) ==
    /\ latest[k] # 0 => /\ pending[k].seq <= latest[k]
                        /\ flushing[k].seq <= latest[k]
                        /\ diskCapture[k].seq <= latest[k]
    /\ pending[k] # None => /\ flushing[k].seq <= pending[k].seq
                            /\ diskCapture[k].seq <= pending[k].seq
    /\ flushing[k] # None => diskCapture[k].seq <= flushing[k].seq
Ordered == \A k \in Keys : OrderOf(k)

LEMMA OrderedStays ==
    ASSUME Shape, WriterInv, CapturesNumbered, ReportsNumbered, Ordered, Next
    PROVE  Ordered'
  <1> USE Constants, KeyTypes
  <1> SUFFICES ASSUME NEW k \in Keys
               PROVE  OrderOf(k)'
    BY DEF Ordered
  <1>0. OrderOf(k)
    BY DEF Ordered
  <1>1. ASSUME UNCHANGED <<flushing, diskCapture>>, latest'[k] \in {latest[k], 0},
               pending'[k] \in {pending[k], None}
        PROVE  OrderOf(k)'
    BY <1>0, <1>1 DEF OrderOf
  <1>2. ASSUME \/ \E j \in Keys : CreateKey(j) \/ GetCapture(j) \/ ReadDisk(j)
               \/ Close \/ NoFlushWaiting \/ UpdateFails \/ Settle
               \/ WriteFails \/ Exit
        PROVE  OrderOf(k)'
    BY <1>1, <1>2 DEF CreateKey, GetCapture, ReadDisk, Close, NoFlushWaiting, UpdateFails, Settle,
                      WriteFails, Exit, keyVars, queueVars, diskVars
  <1>3. ASSUME NEW why \in {"flush", "tick", "extra", "stop"}, NEW prune \in BOOLEAN, Snapshot(why, prune)
        PROVE  OrderOf(k)'
    BY <1>1, <1>3 DEF Snapshot, keyVars, queueVars, diskVars
  <1>4. ASSUME NEW S \in SUBSET Keys, DeleteKeys(S)
        PROVE  OrderOf(k)'
    BY <1>1, <1>4 DEF DeleteKeys, diskVars
  <1>5. ASSUME NEW t \in Requests, NEW j \in Keys, PrepareCapture(t, j)
        PROVE  OrderOf(k)'
    <2>1. UNCHANGED <<pending, flushing, diskCapture>>
      BY <1>5 DEF PrepareCapture, queueVars, diskVars
    <2>2. latest'[k] = latest[k] \/ latest'[k] = revision + 1
      BY <1>5 DEF PrepareCapture, nextRevision, Shape
    <2>3. pending[k].seq <= revision /\ flushing[k].seq <= revision /\ diskCapture[k].seq <= revision
      BY DEF CapturesNumbered
    <2> QED
      BY <1>0, <2>1, <2>2, <2>3 DEF OrderOf
  <1>6. ASSUME NEW t \in Requests, NEW size \in Sizes, enqueueCapture(t, size)
        PROVE  OrderOf(k)'
    <2>1. UNCHANGED <<latest, flushing, diskCapture>>
      BY <1>6 DEF enqueueCapture, keyVars, diskVars
    <2>2. CASE /\ k = report[t].key /\ ~Obsolete(report[t])
               /\ pending'[k] = [seq |-> report[t].seq, gen |-> report[t].gen, size |-> size]
      <3>1. latest[k] = report[t].seq /\ pending'[k].seq = report[t].seq
        BY <2>2 DEF Obsolete
      <3>2. report[t].seq # 0
        BY <1>6 DEF ReportsNumbered, enqueueCapture
      <3> QED
        BY <1>0, <2>1, <3>1, <3>2 DEF OrderOf
    <2> QED
      BY <1>1, <1>6, <2>1, <2>2, Enqueued
  <1>7. CASE Commit
    <2>1. UNCHANGED <<latest, pending, flushing>> /\ diskCapture'[k] \in {diskCapture[k], None}
      BY <1>7 DEF Commit, keyVars, queueVars
    <2> QED
      BY <1>0, <2>1 DEF OrderOf
  <1>8. ASSUME NEW B \in SUBSET Queued, TakeBatch(B)
        PROVE  OrderOf(k)'
    <2>1. UNCHANGED <<latest, diskCapture>> /\ flushing[k] = None
      BY <1>8 DEF TakeBatch, keyVars, diskVars, WriterInv
    <2>2. \/ pending'[k] = pending[k] /\ flushing'[k] = None
          \/ pending'[k] = None /\ flushing'[k] = pending[k]
      BY <1>8, <2>1 DEF TakeBatch
    <2> QED
      BY <1>0, <2>1, <2>2 DEF OrderOf
  <1>9. CASE WriteBatch
    <2>1. UNCHANGED <<latest, pending, flushing>>
      BY <1>9 DEF WriteBatch, keyVars, queueVars
    <2>2. \/ diskCapture'[k] = diskCapture[k] /\ flushing[k] = None
          \/ flushing[k] # None /\ diskCapture'[k].seq = flushing[k].seq
      <3>1. [flushing[k] EXCEPT !.size = 0].seq = flushing[k].seq
        BY DEF Item
      <3> QED
        BY <1>9, <3>1 DEF WriteBatch, InFlight
    <2> QED
      BY <1>0, <2>1, <2>2 DEF OrderOf
  <1>10. CASE FinishBatch
    <2>1. UNCHANGED <<latest, diskCapture>> /\ flushing'[k] = None
      BY <1>10 DEF FinishBatch, diskVars
    <2>2. \/ pending'[k] = pending[k]
          \/ pending'[k] = flushing[k] /\ flushing[k] # None
      BY <1>10 DEF FinishBatch, Requeued, InFlight
    <2> QED
      BY <1>0, <2>1, <2>2 DEF OrderOf
  <1>11. CASE Restart
    BY <1>11 DEF Restart, OrderOf
  <1> QED
    BY <1>2, <1>3, <1>4, <1>5, <1>6, <1>7, <1>8, <1>9, <1>10, <1>11, StepCases

-----------------------------------------------------------------------------
CaptureInv ==
    Shape /\ WriterInv /\ Numbered /\ Genuine /\ Carried /\ Lives /\ Ordered

LEMMA CaptureInvInit ==
    ASSUME Init
    PROVE  CaptureInv
  <1> USE Constants
  <1>1. Shape
    BY DEF Init, Shape
  <1>2. WriterInv
    BY DEF Init, WriterInv
  <1>3. Numbered
    BY DEF Init, Numbered, KeysNumbered, CapturesNumbered, ReportsNumbered
  <1>4. Genuine
    BY DEF Init, Genuine
  <1>5. Carried
    BY DEF Init, Carried, CarriedKey
  <1>6. Lives
    BY DEF Init, Lives, LifeOf, PendingLife, FlushingLife, StoredLife
  <1>7. Ordered
    BY DEF Init, Ordered, OrderOf
  <1> QED
    BY <1>1, <1>2, <1>3, <1>4, <1>5, <1>6, <1>7 DEF CaptureInv

LEMMA CaptureInvStays ==
    ASSUME CaptureInv, [Next]_vars
    PROVE  CaptureInv'
  <1>1. CASE Next
    BY <1>1, ShapeStays, WriterInvStays, NumberedStays, GenuineStays, CarriedStays, LivesStay, OrderedStays
       DEF CaptureInv, Numbered
  <1>2. CASE UNCHANGED vars
    <2> USE <1>2 DEF vars, keyVars, queueVars, writerVars, diskVars
    <2>1. Shape'
      BY ShapeStays DEF CaptureInv
    <2>2. WriterInv' /\ Genuine' /\ Numbered'
      BY DEF CaptureInv, WriterInv, Queued, Genuine, Numbered, KeysNumbered, CapturesNumbered,
             ReportsNumbered
    <2>3. Carried' /\ Lives' /\ Ordered'
      BY DEF CaptureInv, Carried, CarriedKey, Lives, LifeOf, PendingLife, FlushingLife, StoredLife,
             Ordered, OrderOf
    <2> QED
      BY <2>1, <2>2, <2>3 DEF CaptureInv
  <1> QED
    BY <1>1, <1>2

(* The invariant that everything said of the disk rests on: commits, failed *)
(* batches, deletions and restarts keep marks, lives and order as they are  *)
(* described above.                                                         *)
THEOREM CaptureInvariant == Spec => []CaptureInv
  <1>1. Init => CaptureInv
    BY CaptureInvInit
  <1>2. CaptureInv /\ [Next]_vars => CaptureInv'
    BY CaptureInvStays
  <1> QED
    BY <1>1, <1>2, PTL DEF Spec

(* No stored capture is of a life before that of the stored key, none is   *)
(* read by a later life, and Close leaves nothing behind: whatever the     *)
(* writer is in the middle of when keys are deleted and created again.     *)
THEOREM CapturesAreSafe == Spec => []CapturesSafe
  <1>1. CaptureInv => CapturesSafe
    <2> SUFFICES ASSUME CaptureInv
                 PROVE  CapturesSafe
      OBVIOUS
    <2>1. CaptureBelongs /\ ReadsOwn
      BY DEF CaptureInv, Lives, LifeOf, StoredLife, CaptureBelongs, ReadsOwn
    <2>2. CloseStores
      <3> SUFFICES ASSUME writer = "done"
                   PROVE  Queued \cup InFlight = {}
        BY DEF CloseStores
      <3>1. flushing = NoItems /\ Queued = {}
        BY DEF CaptureInv, WriterInv
      <3> QED
        BY <3>1, Constants DEF InFlight
    <2> QED
      BY <2>1, <2>2 DEF CapturesSafe
  <1> QED
    BY <1>1, CaptureInvariant, PTL

(* Nothing replaces a stored capture by an older one, though batches are   *)
(* taken in any order, fail and are queued again (captures.go:83).         *)
THEOREM NewestCaptureStays == Spec => NewestStays
  <1>1. ASSUME CaptureInv, [Next]_vars
        PROVE  [\A k \in Keys : diskCapture'[k] # None => diskCapture'[k].seq >= diskCapture[k].seq]_vars
    <2>1. CASE UNCHANGED vars
      BY <2>1
    <2>2. CASE Next
      <3> SUFFICES ASSUME NEW k \in Keys, diskCapture'[k] # None
                   PROVE  diskCapture'[k].seq >= diskCapture[k].seq
        OBVIOUS
      <3> USE <1>1, <2>2 DEF CaptureInv
      <3>1. Shape /\ OrderOf(k)
        BY DEF Ordered
      <3>2. CASE diskCapture'[k] = diskCapture[k]
        BY <3>1, <3>2, KeyTypes
      <3>3. CASE flushing[k] # None /\ diskCapture'[k] = [flushing[k] EXCEPT !.size = 0]
        <4>1. [flushing[k] EXCEPT !.size = 0].seq = flushing[k].seq
          BY <3>1, KeyTypes DEF Item
        <4> QED
          BY <3>1, <3>3, <4>1, KeyTypes DEF OrderOf
      <3> QED
        BY <3>1, <3>2, <3>3, CapturesMove
    <2> QED
      BY <1>1, <2>1, <2>2
  <1> QED
    BY <1>1, CaptureInvariant, PTL DEF Spec, NewestStays

LEMMA ItemsAreSized ==
    ASSUME NEW queue \in [Keys -> Item]
    PROVE  Sized(queue, Keys)
  BY DEF Item, Sized

-----------------------------------------------------------------------------
(* The budget.                                                             *)
Counted == captureBytes = Bytes(pending, Keys) + Bytes(flushing, Keys)
Within == captureBytes <= QueueBytes /\ Cardinality(Queued) + Cardinality(InFlight) <= QueueLimit
Budget == Counted /\ Within

LEMMA CountedIsNat ==
    ASSUME Shape, Counted
    PROVE  captureBytes \in Nat
  <1>1. Sized(pending, Keys) /\ Sized(flushing, Keys)
    BY ItemsAreSized DEF Shape
  <1>2. Bytes(pending, Keys) \in Nat /\ Bytes(flushing, Keys) \in Nat
    BY <1>1, KeysAssumption, BytesNat
  <1> QED
    BY <1>2 DEF Counted

LEMMA DisjointUnion ==
    ASSUME NEW S, NEW T, IsFiniteSet(S), IsFiniteSet(T), S \cap T = {}
    PROVE  Cardinality(S \cup T) = Cardinality(S) + Cardinality(T)
  <1>1. Cardinality(S \cup T) = Cardinality(S) + Cardinality(T) - Cardinality(S \cap T)
    BY FS_Union
  <1>2. Cardinality(S \cap T) = 0
    BY FS_EmptySet
  <1>3. Cardinality(S) \in Nat /\ Cardinality(T) \in Nat
    BY FS_CardinalityType
  <1> QED
    BY <1>1, <1>2, <1>3

LEMMA FewerQueued ==
    ASSUME Shape, Shape', Budget, captureBytes' <= captureBytes, captureBytes' \in Nat,
           Queued' \subseteq Queued, UNCHANGED flushing
    PROVE  Within'
  <1>1. InFlight' = InFlight
    BY DEF InFlight
  <1>2. Queued \in SUBSET Keys /\ IsFiniteSet(Queued) /\ InFlight \in SUBSET Keys
    BY FiniteKeys DEF Queued, InFlight
  <1>3. Cardinality(Queued') <= Cardinality(Queued)
    BY <1>2, FS_Subset
  <1>4. /\ Cardinality(Queued) \in Nat /\ Cardinality(Queued') \in Nat /\ Cardinality(InFlight) \in Nat
    BY <1>2, FiniteKeys
  <1>5. captureBytes \in Nat
    BY CountedIsNat DEF Budget
  <1> QED
    BY <1>1, <1>3, <1>4, <1>5, SizeTypes DEF Within, Budget

LEMMA DeleteKeepsBudget ==
    ASSUME Shape, Shape', Budget, NEW S \in SUBSET Keys, DeleteKeys(S)
    PROVE  Budget'
  <1> USE Constants
  <1>1. /\ pending' = [k \in Keys |-> IF k \in S THEN None ELSE pending[k]]
        /\ captureBytes' = captureBytes - Bytes(pending, S)
        /\ UNCHANGED flushing
    BY DEF DeleteKeys
  <1>2. Sized(pending, Keys) /\ Sized(flushing, Keys) /\ Sized(pending', Keys) /\ Sized(flushing', Keys)
    BY ItemsAreSized DEF Shape
  <1>3. \A k \in Keys : pending'[k].size = IF k \in S THEN 0 ELSE pending[k].size
    BY <1>1
  <1>4. Bytes(pending, Keys) = Bytes(pending', Keys) + Bytes(pending, S)
    BY <1>2, <1>3, KeysAssumption, BytesCleared
  <1>5. /\ Bytes(pending, Keys) \in Nat /\ Bytes(pending', Keys) \in Nat /\ Bytes(pending, S) \in Nat
        /\ Bytes(flushing, Keys) \in Nat
    BY <1>2, KeysAssumption, BytesNat
  <1>6. Counted'
    BY <1>1, <1>4, <1>5 DEF Budget, Counted
  <1>7. captureBytes' <= captureBytes /\ captureBytes' \in Nat
    BY <1>1, <1>4, <1>5 DEF Budget, Counted
  <1>8. Queued' \subseteq Queued
    BY <1>1 DEF Queued
  <1> QED
    BY <1>1, <1>6, <1>7, <1>8, FewerQueued DEF Budget

(* The two ways in which a capture is kept.                                *)
LEMMA DropAllKeepsBudget ==
    ASSUME Shape, Shape', Budget, NEW c \in Reports, DropAll(c), UNCHANGED flushing
    PROVE  Budget'
  <1> USE Constants
  <1> DEFINE D == Others(c.key) \cup {c.key}
  <1>1. pending' = NoItems /\ captureBytes' = captureBytes - Bytes(pending, D)
    BY DEF DropAll, Left
  <1>2. c.key \in Keys /\ D \in SUBSET Keys
    BY DEF Reports, Others, Queued
  <1>3. Sized(pending, Keys) /\ Sized(flushing, Keys) /\ Sized(pending', Keys)
    BY ItemsAreSized DEF Shape
  <1>4. Bytes(pending, Keys) = Bytes(pending, D)
    <2>1. \A k \in Keys \ D : pending[k].size = 0
      BY DEF Others, Queued
    <2> HIDE DEF D
    <2> QED
      BY <1>2, <1>3, <2>1, KeysAssumption, BytesOfQueued
  <1>5. Bytes(pending', Keys) = 0
    BY <1>1, <1>3, KeysAssumption, BytesOfEmpties
  <1>6. Bytes(pending, Keys) \in Nat /\ Bytes(flushing, Keys) \in Nat
    BY <1>3, KeysAssumption, BytesNat
  <1>7. Counted'
    BY <1>1, <1>4, <1>5, <1>6 DEF Budget, Counted
  <1>8. captureBytes' <= captureBytes /\ captureBytes' \in Nat
    BY <1>1, <1>4, <1>6 DEF Budget, Counted
  <1>9. Queued' \subseteq Queued
    BY <1>1 DEF Queued
  <1> QED
    BY <1>7, <1>8, <1>9, FewerQueued DEF Budget

LEMMA InsertKeepsBudget ==
    ASSUME Shape, Shape', Budget, NEW c \in Reports, NEW size \in Sizes, Insert(c, size),
           UNCHANGED flushing
    PROVE  Budget'
  <1> USE Constants
  <1>1. PICK D \in MakesRoom(c.key, size) :
            /\ pending' = [k \in Keys |->
                              IF k = c.key THEN [seq |-> c.seq, gen |-> c.gen, size |-> size]
                              ELSE IF k \in D THEN None
                              ELSE pending[k]]
            /\ captureBytes' = Left(c.key, D) + size
    BY DEF Insert
  <1>2. /\ c.key \in Keys /\ D \subseteq Others(c.key) /\ Others(c.key) \in SUBSET Keys
        /\ D \cup {c.key} \in SUBSET Keys
        /\ Cardinality(Others(c.key) \ D) + Cardinality(InFlight) < QueueLimit
        /\ Left(c.key, D) + size <= QueueBytes
    BY DEF Reports, MakesRoom, Others, Queued
  <1>3. Sized(pending, Keys) /\ Sized(flushing, Keys) /\ Sized(pending', Keys)
    BY ItemsAreSized DEF Shape
  <1> DEFINE E == D \cup {c.key}
             cleared == [k \in Keys |-> IF k \in E THEN None ELSE pending[k]]
  <1>4. Sized(cleared, Keys) /\ \A k \in Keys : cleared[k].size = IF k \in E THEN 0 ELSE pending[k].size
    BY <1>3 DEF Sized
  <1>5. Bytes(pending, Keys) = Bytes(cleared, Keys) + Bytes(pending, E)
    <2> HIDE DEF cleared, E
    <2> QED
      BY <1>2, <1>3, <1>4, KeysAssumption, BytesCleared DEF E
  <1>6. Bytes(cleared, Keys) = Bytes(cleared, Keys \ {c.key})
    <2>1. \A k \in Keys \ (Keys \ {c.key}) : cleared[k].size = 0
      BY <1>4
    <2>2. Keys \ {c.key} \in SUBSET Keys
      OBVIOUS
    <2> HIDE DEF cleared
    <2> QED
      BY <1>4, <2>1, <2>2, KeysAssumption, BytesOfQueued
  <1>7. pending'[c.key].size = size /\ \A k \in Keys \ {c.key} : pending'[k].size = cleared[k].size
    BY <1>1, <1>2
  <1>8. Bytes(pending', Keys) = size + Bytes(cleared, Keys)
    <2> HIDE DEF cleared
    <2>1. Bytes(pending', Keys \ {c.key}) = Bytes(cleared, Keys \ {c.key})
      BY <1>3, <1>4, <1>7, KeysAssumption, BytesSame
    <2>2. Bytes(pending', Keys) = pending'[c.key].size + Bytes(pending', Keys \ {c.key})
      BY <1>2, <1>3, KeysAssumption, BytesWithout
    <2> QED
      BY <1>6, <1>7, <2>1, <2>2
  <1>9. /\ Bytes(pending, Keys) \in Nat /\ Bytes(flushing, Keys) \in Nat /\ Bytes(pending, E) \in Nat
        /\ Bytes(cleared, Keys) \in Nat /\ size \in Nat
    <2> HIDE DEF cleared, E
    <2> QED
      BY <1>2, <1>3, <1>4, KeysAssumption, BytesNat, SizeTypes DEF E
  <1>10. captureBytes' = (captureBytes - Bytes(pending, E)) + size
    BY <1>1 DEF Left
  <1> HIDE DEF cleared
  <1>11. Counted'
    <2> HIDE DEF E
    <2> QED
      BY <1>5, <1>8, <1>9, <1>10 DEF Budget, Counted
  <1>12. Queued' = (Others(c.key) \ D) \cup {c.key}
    <2>1. [seq |-> c.seq, gen |-> c.gen, size |-> size] # None
      <3>1. size # 0
        BY SizeTypes
      <3> QED
        BY <3>1 DEF None
    <2> QED
      BY <1>1, <1>2, <2>1 DEF Queued, Others
  <1>13. Cardinality(Queued') = Cardinality(Others(c.key) \ D) + 1
    <2>1. IsFiniteSet(Others(c.key) \ D)
      BY <1>2, FiniteKeys, FS_Subset
    <2>2. c.key \notin Others(c.key) \ D
      BY DEF Others
    <2> QED
      BY <1>12, <2>1, <2>2, FS_AddElement
  <1>14. InFlight' = InFlight /\ InFlight \in SUBSET Keys /\ Others(c.key) \ D \in SUBSET Keys
    BY <1>2 DEF InFlight
  <1>15. Cardinality(Others(c.key) \ D) \in Nat /\ Cardinality(InFlight) \in Nat
    BY <1>14, FiniteKeys
  <1>16. Within'
    BY <1>1, <1>2, <1>13, <1>14, <1>15, SizeTypes DEF Within
  <1> QED
    BY <1>11, <1>16 DEF Budget

LEMMA EnqueueKeepsBudget ==
    ASSUME Shape, Shape', Budget, NEW t \in Requests, NEW size \in Sizes, enqueueCapture(t, size)
    PROVE  Budget'
  <1>1. report[t] \in Reports /\ UNCHANGED flushing
    BY Enqueued DEF enqueueCapture
  <1>2. CASE UNCHANGED <<pending, captureBytes>>
    BY <1>1, <1>2 DEF Budget, Counted, Within, Queued, InFlight
  <1>3. CASE DropAll(report[t])
    BY <1>1, <1>3, DropAllKeepsBudget
  <1>4. CASE Insert(report[t], size)
    BY <1>1, <1>4, InsertKeepsBudget
  <1> QED
    BY <1>2, <1>3, <1>4 DEF enqueueCapture

(* A batch is counted as long as it is being written.                      *)
LEMMA TakeKeepsBudget ==
    ASSUME Shape, Shape', WriterInv, Budget, NEW B \in SUBSET Queued, TakeBatch(B)
    PROVE  Budget'
  <1> USE Constants
  <1>1. /\ pending' = [k \in Keys |-> IF k \in B THEN None ELSE pending[k]]
        /\ flushing' = [k \in Keys |-> IF k \in B THEN pending[k] ELSE flushing[k]]
        /\ captureBytes' = captureBytes /\ flushing = NoItems
    BY DEF TakeBatch, WriterInv
  <1>2. B \in SUBSET Keys /\ B \subseteq Queued /\ Queued \in SUBSET Keys
    BY DEF Queued
  <1>3. Sized(pending, Keys) /\ Sized(flushing, Keys) /\ Sized(pending', Keys) /\ Sized(flushing', Keys)
    BY ItemsAreSized DEF Shape
  <1>4. /\ \A k \in Keys : pending'[k].size = IF k \in B THEN 0 ELSE pending[k].size
        /\ \A k \in B : flushing'[k].size = pending[k].size
        /\ \A k \in Keys \ B : flushing'[k].size = 0
        /\ \A k \in Keys : flushing[k].size = 0
    BY <1>1, <1>2
  <1>5. Bytes(pending, Keys) = Bytes(pending', Keys) + Bytes(pending, B)
    BY <1>2, <1>3, <1>4, KeysAssumption, BytesCleared
  <1>6. Bytes(flushing', Keys) = Bytes(flushing', B)
    BY <1>2, <1>3, <1>4, KeysAssumption, BytesOfQueued
  <1>7. Bytes(flushing', B) = Bytes(pending, B)
    BY <1>2, <1>3, <1>4, KeysAssumption, BytesSame
  <1>8. Bytes(flushing, Keys) = 0
    BY <1>3, <1>4, KeysAssumption, BytesOfEmpties
  <1>9. Bytes(pending', Keys) \in Nat /\ Bytes(pending, B) \in Nat
    BY <1>2, <1>3, KeysAssumption, BytesNat
  <1>10. Counted'
    BY <1>1, <1>5, <1>6, <1>7, <1>8, <1>9 DEF Budget, Counted
  <1>11. Queued' = Queued \ B /\ InFlight' = B /\ InFlight = {}
    BY <1>1, <1>2 DEF Queued, InFlight
  <1>12. Cardinality(Queued) = Cardinality(Queued \ B) + Cardinality(B)
    <2> DEFINE rest == Queued \ B
    <2>1. IsFiniteSet(rest) /\ IsFiniteSet(B) /\ rest \cap B = {} /\ rest \cup B = Queued
      BY <1>2, FiniteKeys, FS_Subset
    <2> HIDE DEF rest
    <2> QED
      BY <2>1, DisjointUnion DEF rest
  <1>13. Cardinality({}) = 0 /\ Cardinality(Queued) \in Nat
    BY <1>2, FiniteKeys, FS_EmptySet
  <1> QED
    BY <1>1, <1>10, <1>11, <1>12, <1>13 DEF Budget, Within

LEMMA FinishKeepsBudget ==
    ASSUME Shape, Shape', Budget, FinishBatch
    PROVE  Budget'
  <1> USE Constants
  <1> DEFINE R == Requeued
  <1>1. /\ flushing' = NoItems
        /\ pending' = [k \in Keys |-> IF k \in R THEN flushing[k] ELSE pending[k]]
        /\ captureBytes' = captureBytes - Bytes(flushing, InFlight \ R)
    BY DEF FinishBatch
  <1>2. R \subseteq InFlight /\ InFlight \in SUBSET Keys /\ \A k \in R : pending[k] = None
    BY DEF Requeued, InFlight
  <1> HIDE DEF R
  <1>3. R \in SUBSET Keys /\ InFlight \ R \in SUBSET Keys
    BY <1>2
  <1>4. Sized(pending, Keys) /\ Sized(flushing, Keys) /\ Sized(pending', Keys) /\ Sized(flushing', Keys)
    BY ItemsAreSized DEF Shape
  <1>5. Bytes(flushing, Keys) = Bytes(flushing, R) + Bytes(flushing, InFlight \ R)
    <2>1. \A k \in Keys \ InFlight : flushing[k].size = 0
      BY DEF InFlight
    <2>2. Bytes(flushing, Keys) = Bytes(flushing, InFlight)
      BY <1>2, <1>4, <2>1, KeysAssumption, BytesOfQueued
    <2> QED
      BY <1>2, <1>4, <2>2, KeysAssumption, BytesSplit
  <1>6. Bytes(pending', Keys) = Bytes(pending, Keys) + Bytes(flushing, R)
    <2>1. /\ Bytes(pending', Keys) = Bytes(pending', R) + Bytes(pending', Keys \ R)
          /\ Bytes(pending, Keys) = Bytes(pending, R) + Bytes(pending, Keys \ R)
      BY <1>3, <1>4, KeysAssumption, BytesSplit
    <2>2. Bytes(pending', R) = Bytes(flushing, R)
      <3>1. \A k \in R : pending'[k].size = flushing[k].size
        BY <1>1, <1>3
      <3> QED
        BY <1>3, <1>4, <3>1, KeysAssumption, BytesSame
    <2>3. Bytes(pending', Keys \ R) = Bytes(pending, Keys \ R)
      <3>1. \A k \in Keys \ R : pending'[k].size = pending[k].size
        BY <1>1
      <3> QED
        BY <1>4, <3>1, KeysAssumption, BytesSame
    <2>4. Bytes(pending, R) = 0
      BY <1>2, <1>3, <1>4, KeysAssumption, BytesOfEmpties
    <2>5. Bytes(flushing, R) \in Nat /\ Bytes(pending, Keys \ R) \in Nat
      BY <1>3, <1>4, KeysAssumption, BytesNat
    <2> QED
      BY <2>1, <2>2, <2>3, <2>4, <2>5
  <1>7. Bytes(flushing', Keys) = 0
    BY <1>1, <1>4, KeysAssumption, BytesOfEmpties
  <1>8. /\ Bytes(flushing, R) \in Nat /\ Bytes(flushing, InFlight \ R) \in Nat
        /\ Bytes(pending, Keys) \in Nat
    BY <1>3, <1>4, KeysAssumption, BytesNat
  <1>9. Counted'
    BY <1>1, <1>5, <1>6, <1>7, <1>8 DEF Budget, Counted
  <1>10. captureBytes' <= captureBytes /\ captureBytes' \in Nat /\ captureBytes \in Nat
    BY <1>1, <1>5, <1>8 DEF Budget, Counted
  <1>11. Queued' = Queued \cup R /\ InFlight' = {} /\ Queued \cap R = {} /\ Queued \in SUBSET Keys
    BY <1>1, <1>2 DEF Queued, InFlight
  <1>12. IsFiniteSet(Queued) /\ IsFiniteSet(R) /\ IsFiniteSet(InFlight)
    BY <1>2, <1>3, <1>11, FiniteKeys
  <1>13. Cardinality(Queued \cup R) = Cardinality(Queued) + Cardinality(R)
    BY <1>11, <1>12, DisjointUnion
  <1>14. Cardinality(R) <= Cardinality(InFlight) /\ Cardinality({}) = 0
    BY <1>2, <1>12, FS_Subset, FS_EmptySet
  <1>15. Cardinality(Queued) \in Nat /\ Cardinality(R) \in Nat /\ Cardinality(InFlight) \in Nat
    BY <1>12, FS_CardinalityType
  <1>16. Within'
    <2>1. Cardinality(Queued') + Cardinality(InFlight') <= QueueLimit
      BY <1>11, <1>13, <1>14, <1>15, SizeTypes DEF Budget, Within
    <2> QED
      BY <1>10, <2>1, SizeTypes DEF Budget, Within
  <1> QED
    BY <1>9, <1>16 DEF Budget

LEMMA BudgetStays ==
    ASSUME Shape, WriterInv, Budget, [Next]_vars
    PROVE  Budget'
  <1>1. Shape'
    BY ShapeStays
  <1>2. CASE UNCHANGED queueVars
    BY <1>2 DEF queueVars, Budget, Counted, Within, Queued, InFlight
  <1>3. CASE Restart
    <2>1. pending' = NoItems /\ flushing' = NoItems /\ captureBytes' = 0
      BY <1>3 DEF Restart
    <2>2. Sized(pending', Keys) /\ Sized(flushing', Keys)
      BY <1>1, ItemsAreSized DEF Shape
    <2>3. Bytes(pending', Keys) = 0 /\ Bytes(flushing', Keys) = 0
      BY <2>1, <2>2, Constants, KeysAssumption, BytesOfEmpties
    <2>4. Queued' = {} /\ InFlight' = {} /\ Cardinality({}) = 0
      BY <2>1, Constants, FS_EmptySet DEF Queued, InFlight
    <2> QED
      BY <2>1, <2>3, <2>4, SizeTypes DEF Budget, Counted, Within
  <1>4. \/ UNCHANGED queueVars \/ Restart
        \/ \E S \in SUBSET Keys : DeleteKeys(S)
        \/ \E t \in Requests, size \in Sizes : enqueueCapture(t, size)
        \/ \E B \in SUBSET Queued : TakeBatch(B)
        \/ FinishBatch
    BY StepCases DEF vars, CreateKey, GetCapture, ReadDisk, PrepareCapture, Close, Snapshot, NoFlushWaiting,
        Commit, UpdateFails, Settle, WriteBatch, WriteFails, Exit
  <1> QED
    BY <1>1, <1>2, <1>3, <1>4, DeleteKeepsBudget, EnqueueKeepsBudget, TakeKeepsBudget, FinishKeepsBudget

(* The bytes counted are those of the captures in memory, within the budget *)
(* of bytes and records; every marked deletion is carried out by the next   *)
(* metadata transaction.                                                    *)
THEOREM QueueIsSafe == Spec => []QueueSafe
  <1>1. Init => Budget
    <2> SUFFICES ASSUME Init PROVE Budget
      OBVIOUS
    <2>1. pending = NoItems /\ flushing = NoItems /\ captureBytes = 0 /\ Shape
      BY CaptureInvInit DEF Init, CaptureInv
    <2>2. Sized(pending, Keys) /\ Sized(flushing, Keys)
      BY <2>1, ItemsAreSized DEF Shape
    <2>3. Bytes(pending, Keys) = 0 /\ Bytes(flushing, Keys) = 0
      BY <2>1, <2>2, Constants, KeysAssumption, BytesOfEmpties
    <2>4. Queued = {} /\ InFlight = {} /\ Cardinality({}) = 0
      BY <2>1, Constants, FS_EmptySet DEF Queued, InFlight
    <2> QED
      BY <2>1, <2>3, <2>4, SizeTypes DEF Budget, Counted, Within
  <1>2. CaptureInv /\ Budget /\ [Next]_vars => Budget'
    BY BudgetStays DEF CaptureInv
  <1>3. CaptureInv /\ Budget => QueueSafe
    BY DEF CaptureInv, Carried, CarriedKey, Budget, Counted, Within, QueueSafe, BudgetKept, DeletionsCarried
  <1> QED
    BY <1>1, <1>2, <1>3, CaptureInvariant, PTL DEF Spec

(* Types; that captureBytes stays a natural number needs the budget.       *)
THEOREM CaptureTypes == Spec => []TypeOK
  <1>1. CaptureInv /\ QueueSafe => TypeOK
    BY TypesAreShape, CountedIsNat DEF CaptureInv, QueueSafe, BudgetKept, Counted
  <1> QED
    BY <1>1, CaptureInvariant, QueueIsSafe, PTL

-----------------------------------------------------------------------------
(* What a step forgets.                                                    *)
Lost == {k \in Keys : Forgotten(k)}

LEMMA NothingLost ==
    ASSUME dropped \in Nat, dropped' \in Nat, dropped <= dropped', Lost = {}
    PROVE  Cardinality(Lost) <= dropped' - dropped
  <1>1. Cardinality(Lost) = 0
    BY FS_EmptySet
  <1> QED
    BY <1>1

LEMMA SomeLost ==
    ASSUME Shape, NEW S \in SUBSET Keys, Lost \subseteq S, Cardinality(S) <= dropped' - dropped,
           dropped' \in Nat
    PROVE  Cardinality(Lost) <= dropped' - dropped
  <1>1. IsFiniteSet(S) /\ Cardinality(S) \in Nat
    BY FiniteKeys
  <1>2. Cardinality(Lost) <= Cardinality(S) /\ Cardinality(Lost) \in Nat
    BY <1>1, FS_Subset, FS_CardinalityType
  <1> QED
    BY <1>1, <1>2 DEF Shape

(* A capture that can be read is the one that waits, the one being written *)
(* or the one on disk.                                                     *)
LEMMA ReadableTypes ==
    ASSUME Shape, NEW k \in Keys
    PROVE  /\ Readable(k) \in {None, pending[k], flushing[k], diskCapture[k]}
           /\ Readable(k) \in Item /\ Readable(k).seq \in Nat
  <1>1. Readable(k) \in {None, pending[k], flushing[k], diskCapture[k]}
    BY DEF Readable, InQueue
  <1> QED
    BY <1>1, KeyTypes, Constants DEF Item

LEMMA SameReadable ==
    ASSUME Shape, NEW k \in Keys, Readable(k)' = Readable(k)
    PROVE  ~Forgotten(k)
  BY ReadableTypes DEF Forgotten

LEMMA ReadableUnchanged ==
    ASSUME Shape, NEW k \in Keys,
           gen'[k] = gen[k], pending'[k] = pending[k], flushing'[k] = flushing[k],
           k \in ignore' <=> k \in ignore, diskCapture'[k] = diskCapture[k]
    PROVE  ~Forgotten(k)
  <1>1. Readable(k)' = Readable(k)
    BY DEF Readable, InQueue
  <1> QED
    BY <1>1, SameReadable

LEMMA EnqueueCounts ==
    ASSUME CaptureInv, Shape', NEW t \in Requests, NEW size \in Sizes, enqueueCapture(t, size)
    PROVE  Cardinality(Lost) <= dropped' - dropped
  <1> USE Constants
  <1> DEFINE c == report[t]
  <1>0. Shape /\ Ordered /\ ReportsNumbered
    BY DEF CaptureInv, Numbered
  <1>1. /\ UNCHANGED <<keyVars, flushing, diskVars>>
        /\ c \in Reports /\ c # Idle /\ c.key \in Keys /\ c.seq \in Nat
    BY <1>0, Enqueued DEF enqueueCapture, Reports
  <1>2. ASSUME NEW k \in Keys, pending'[k] = pending[k]
        PROVE  ~Forgotten(k)
    BY <1>0, <1>1, <1>2, ReadableUnchanged DEF keyVars, diskVars
  <1>3. CASE UNCHANGED pending /\ dropped' \in {dropped, dropped + 1}
    <2>1. dropped \in Nat /\ dropped' \in Nat /\ dropped <= dropped'
      BY <1>0, <1>3 DEF Shape
    <2>2. Lost = {}
      BY <1>2, <1>3 DEF Lost
    <2> QED
      BY <2>1, <2>2, NothingLost
  <1>4. CASE DropAll(c)
    <2> DEFINE S == Others(c.key) \cup {c.key}
    <2>1. S \in SUBSET Keys /\ Others(c.key) \in SUBSET Keys
      BY <1>1 DEF Others, Queued
    <2>2. Lost \subseteq S
      <3> SUFFICES ASSUME NEW k \in Keys, k \notin S
                   PROVE  ~Forgotten(k)
        BY DEF Lost
      <3>1. pending'[k] = pending[k]
        BY <1>4 DEF DropAll, Others, Queued
      <3> QED
        BY <1>2, <3>1
    <2>3. Cardinality(S) = Cardinality(Others(c.key)) + 1
      <3>1. IsFiniteSet(Others(c.key)) /\ c.key \notin Others(c.key)
        BY <2>1, FiniteKeys DEF Others
      <3> QED
        BY <3>1, FS_AddElement
    <2>4. Cardinality(Others(c.key)) \in Nat
      BY <2>1, FiniteKeys
    <2>5. dropped' = dropped + Cardinality(Others(c.key)) + 1 /\ dropped \in Nat /\ dropped' \in Nat
      BY <1>0, <1>4 DEF DropAll, Shape
    <2> HIDE DEF S
    <2>6. Cardinality(S) <= dropped' - dropped
      BY <2>3, <2>4, <2>5
    <2> QED
      BY <1>0, <2>1, <2>2, <2>5, <2>6, SomeLost
  <1>5. CASE ~Obsolete(c) /\ Insert(c, size)
    <2>1. PICK D \in MakesRoom(c.key, size) :
              /\ pending' = [k \in Keys |->
                                IF k = c.key THEN [seq |-> c.seq, gen |-> c.gen, size |-> size]
                                ELSE IF k \in D THEN None
                                ELSE pending[k]]
              /\ dropped' = dropped + Cardinality(D)
      BY <1>5 DEF Insert
    <2>2. D \in SUBSET Keys
      BY DEF MakesRoom, Others, Queued
    <2>3. ASSUME NEW k \in Keys, k = c.key
          PROVE  ~Forgotten(k)
      <3>1. /\ pending'[k] = [seq |-> c.seq, gen |-> c.gen, size |-> size]
            /\ pending'[k].seq = c.seq /\ pending'[k].gen = c.gen
        BY <1>1, <2>1, <2>3
      <3>2. latest[k] = c.seq /\ gen[k] = c.gen /\ c.gen # 0 /\ c.seq # 0
        BY <1>0, <1>1, <1>5, <2>3 DEF Obsolete, ReportsNumbered
      <3>3. pending'[k] # None
        BY <3>1, <3>2
      <3>4. Readable(k)' = pending'[k]
        BY <1>1, <3>1, <3>2, <3>3 DEF Readable, InQueue, keyVars
      <3>5. pending[k].seq <= c.seq /\ flushing[k].seq <= c.seq /\ diskCapture[k].seq <= c.seq
        BY <1>0, <1>1, <3>2 DEF Ordered, OrderOf
      <3>6. Readable(k).seq <= c.seq
        BY <1>0, <1>1, <3>5, ReadableTypes
      <3>7. Readable(k).seq \in Nat
        BY <1>0, <1>1, ReadableTypes
      <3> QED
        BY <1>1, <3>1, <3>4, <3>6, <3>7 DEF Forgotten
    <2>4. Lost \subseteq D
      <3> SUFFICES ASSUME NEW k \in Keys, k \notin D, k # c.key
                   PROVE  ~Forgotten(k)
        BY <2>3 DEF Lost
      <3>1. pending'[k] = pending[k]
        BY <2>1
      <3> QED
        BY <1>2, <3>1
    <2>5. Cardinality(D) \in Nat /\ dropped \in Nat
      BY <1>0, <2>2, FiniteKeys DEF Shape
    <2>6. Cardinality(D) <= dropped' - dropped /\ dropped' \in Nat
      BY <2>1, <2>5
    <2> QED
      BY <1>0, <2>2, <2>4, <2>6, SomeLost
  <1> QED
    BY <1>3, <1>4, <1>5 DEF enqueueCapture

(* The steps that count nothing forget nothing.                            *)
LEMMA OthersForgetNothing ==
    ASSUME CaptureInv, NEW k \in Keys,
           \/ \E j \in Keys : CreateKey(j) \/ GetCapture(j) \/ ReadDisk(j)
           \/ \E S \in SUBSET Keys : DeleteKeys(S)
           \/ \E t \in Requests, j \in Keys : PrepareCapture(t, j)
           \/ Close
           \/ \E why \in {"flush", "tick", "extra", "stop"}, prune \in BOOLEAN : Snapshot(why, prune)
           \/ NoFlushWaiting \/ Commit \/ UpdateFails \/ Settle
           \/ \E B \in SUBSET Queued : TakeBatch(B)
           \/ WriteBatch \/ WriteFails \/ FinishBatch \/ Exit
    PROVE  dropped' = dropped /\ ~Forgotten(k)
  <1> USE Constants
  <1>0. /\ Shape /\ WriterInv /\ PendingLife(k) /\ FlushingLife(k) /\ StoredLife(k) /\ OrderOf(k)
    BY DEF CaptureInv, Lives, LifeOf, Ordered
  <1> USE <1>0, KeyTypes
  <1>1. ASSUME NEW j \in Keys, CreateKey(j)
        PROVE  dropped' = dropped /\ ~Forgotten(k)
    <2>1. UNCHANGED <<queueVars, diskVars>>
      BY <1>1 DEF CreateKey
    <2>2. CASE j = k
      <3>1. gen'[k] # gen[k]
        BY <1>1, <2>2 DEF CreateKey, nextRevision, Shape
      <3> QED
        BY <2>1, <3>1 DEF queueVars, Forgotten
    <2>3. CASE j # k
      <3>1. gen'[k] = gen[k] /\ (k \in ignore' <=> k \in ignore)
        BY <1>1, <2>3 DEF CreateKey, Shape
      <3> QED
        BY <2>1, <3>1, ReadableUnchanged DEF queueVars, diskVars
    <2> QED
      BY <2>2, <2>3
  <1>2. ASSUME NEW S \in SUBSET Keys, DeleteKeys(S)
        PROVE  dropped' = dropped /\ ~Forgotten(k)
    <2>1. UNCHANGED <<flushing, dropped, diskVars>>
      BY <1>2 DEF DeleteKeys
    <2>2. CASE k \in S
      <3>1. gen'[k] # gen[k]
        BY <1>2, <2>2 DEF DeleteKeys
      <3> QED
        BY <2>1, <3>1 DEF Forgotten
    <2>3. CASE k \notin S
      <3>1. gen'[k] = gen[k] /\ pending'[k] = pending[k] /\ (k \in ignore' <=> k \in ignore)
        BY <1>2, <2>3 DEF DeleteKeys
      <3> QED
        BY <2>1, <3>1, ReadableUnchanged DEF diskVars
    <2> QED
      BY <2>2, <2>3
  <1>3. ASSUME \/ \E j \in Keys : GetCapture(j) \/ ReadDisk(j)
               \/ \E t \in Requests, j \in Keys : PrepareCapture(t, j)
               \/ Close
               \/ \E why \in {"flush", "tick", "extra", "stop"}, prune \in BOOLEAN : Snapshot(why, prune)
               \/ NoFlushWaiting \/ UpdateFails \/ Settle \/ WriteFails \/ Exit
        PROVE  dropped' = dropped /\ ~Forgotten(k)
    <2>1. UNCHANGED <<gen, ignore, queueVars, diskCapture>>
      BY <1>3 DEF GetCapture, ReadDisk, PrepareCapture, Close, Snapshot, NoFlushWaiting, UpdateFails,
                  Settle, WriteFails, Exit, keyVars, diskVars
    <2> QED
      BY <2>1, ReadableUnchanged DEF queueVars
  <1>4. CASE Commit
    <2>1. UNCHANGED <<keyVars, queueVars>> /\ writer = "update" /\ flushing[k] = None
      BY <1>4 DEF Commit, WriterInv
    <2>2. CASE diskCapture'[k] = diskCapture[k]
      BY <2>1, <2>2, ReadableUnchanged DEF keyVars, queueVars
    <2>3. CASE snap.deletes[k] # 0
      BY <2>1, <2>3 DEF Forgotten, queueVars
    <2>4. CASE snap.gens[k] = 0
      <3>1. gen[k] = 0 \/ k \in ignore
        BY <2>1, <2>4 DEF PendingLife
      <3>2. Readable(k)' = Readable(k)
        BY <2>1, <3>1 DEF Readable, InQueue, keyVars, queueVars
      <3> QED
        BY <2>1, <3>2, SameReadable DEF queueVars
    <2> QED
      BY <1>4, <2>2, <2>3, <2>4 DEF Commit
  <1>5. ASSUME NEW B \in SUBSET Queued, TakeBatch(B)
        PROVE  dropped' = dropped /\ ~Forgotten(k)
    <2>1. UNCHANGED <<keyVars, dropped, diskVars>> /\ flushing[k] = None
      BY <1>5 DEF TakeBatch, WriterInv
    <2>2. \/ pending'[k] = pending[k] /\ flushing'[k] = None
          \/ pending'[k] = None /\ flushing'[k] = pending[k]
      BY <1>5, <2>1 DEF TakeBatch
    <2>3. Readable(k)' = Readable(k)
      BY <2>1, <2>2 DEF Readable, InQueue, keyVars, diskVars
    <2> QED
      BY <2>1, <2>3, SameReadable
  <1>6. CASE WriteBatch
    <2>1. UNCHANGED <<keyVars, queueVars>>
      BY <1>6 DEF WriteBatch
    <2>2. \/ diskCapture'[k] = diskCapture[k]
          \/ flushing[k] # None /\ diskCapture'[k].seq = flushing[k].seq
      <3>1. [flushing[k] EXCEPT !.size = 0].seq = flushing[k].seq
        BY DEF Item
      <3> QED
        BY <1>6, <3>1 DEF WriteBatch, InFlight
    <2>3. diskCapture'[k].seq >= diskCapture[k].seq
      BY <2>2 DEF OrderOf
    <2>4. \/ Readable(k)' = Readable(k)
          \/ Readable(k)' = diskCapture'[k] /\ Readable(k) = diskCapture[k]
      BY <2>1 DEF Readable, InQueue, keyVars, queueVars
    <2>5. CASE Readable(k)' = diskCapture'[k] /\ Readable(k) = diskCapture[k]
      BY <2>1, <2>2, <2>3, <2>5 DEF Forgotten, queueVars
    <2> QED
      BY <2>1, <2>4, <2>5, SameReadable DEF queueVars
  <1>7. CASE FinishBatch
    <2>1. /\ UNCHANGED <<gen, dropped, diskCapture>> /\ writer = "written" /\ flushing'[k] = None
      BY <1>7 DEF FinishBatch, diskVars
    <2>2. CASE flushing[k] = None
      <3>1. pending'[k] = pending[k] /\ (k \in ignore' <=> k \in ignore)
        BY <1>7, <2>2 DEF FinishBatch, Requeued, InFlight
      <3> QED
        BY <2>1, <2>2, <3>1, ReadableUnchanged
    <2>3. CASE pending[k] # None
      <3>1. pending'[k] = pending[k]
        BY <1>7, <2>3 DEF FinishBatch, Requeued
      <3>2. Readable(k)' = Readable(k)
        BY <2>1, <2>3, <3>1 DEF Readable, InQueue, PendingLife
      <3> QED
        BY <2>1, <3>2, SameReadable
    <2>4. CASE flushing[k] # None /\ pending[k] = None /\ gen[k] # flushing[k].gen
      <3>1. pending'[k] = None /\ (k \in ignore' <=> k \in ignore)
        BY <1>7, <2>4 DEF FinishBatch, Requeued
      <3>2. Readable(k)' = Readable(k)
        BY <2>1, <2>4, <3>1 DEF Readable, InQueue
      <3> QED
        BY <2>1, <3>2, SameReadable
    <2>5. CASE flushing[k] # None /\ pending[k] = None /\ gen[k] = flushing[k].gen /\ ~saved
      <3>1. pending'[k] = flushing[k]
        BY <1>7, <2>5 DEF FinishBatch, Requeued, InFlight
      <3>2. Readable(k)' = Readable(k)
        BY <2>1, <2>5, <3>1 DEF Readable, InQueue, FlushingLife
      <3> QED
        BY <2>1, <3>2, SameReadable
    <2>6. CASE flushing[k] # None /\ pending[k] = None /\ gen[k] = flushing[k].gen /\ saved
      <3>1. pending'[k] = None /\ k \notin ignore'
        BY <1>7, <2>6 DEF FinishBatch, Requeued, InFlight
      <3>2. gen[k] # 0 /\ diskCapture[k].seq = flushing[k].seq
        BY <2>1, <2>6 DEF FlushingLife
      <3>3. Readable(k) = flushing[k] /\ Readable(k)' = diskCapture[k]
        BY <2>1, <2>6, <3>1, <3>2 DEF Readable, InQueue
      <3> QED
        BY <2>1, <3>2, <3>3 DEF Forgotten
    <2> QED
      BY <2>2, <2>3, <2>4, <2>5, <2>6
  <1> QED
    BY <1>1, <1>2, <1>3, <1>4, <1>5, <1>6, <1>7

(* A step after which the newest capture of some keys can no longer be read *)
(* adds at least their number to droppedCaptures (captures.go), the         *)
(* deletion of captures by a metadata transaction and restarts aside.       *)
THEOREM LossesAreCounted == Spec => LossesCounted
  <1>1. ASSUME CaptureInv, [Next]_vars
        PROVE  [~Restart => Cardinality({k \in Keys : Forgotten(k)}) <= dropped' - dropped]_vars
    <2> SUFFICES ASSUME Next, ~Restart
                 PROVE  Cardinality(Lost) <= dropped' - dropped
      BY <1>1 DEF Lost
    <2>1. Shape /\ Shape'
      BY <1>1, CaptureInvStays DEF CaptureInv
    <2>2. CASE \E t \in Requests, size \in Sizes : enqueueCapture(t, size)
      BY <1>1, <2>1, <2>2, EnqueueCounts
    <2>3. CASE ~(\E t \in Requests, size \in Sizes : enqueueCapture(t, size))
      <3>1. \/ \E k \in Keys : CreateKey(k) \/ GetCapture(k) \/ ReadDisk(k)
            \/ \E S \in SUBSET Keys : DeleteKeys(S)
            \/ \E t \in Requests, k \in Keys : PrepareCapture(t, k)
            \/ Close
            \/ \E why \in {"flush", "tick", "extra", "stop"}, prune \in BOOLEAN : Snapshot(why, prune)
            \/ NoFlushWaiting \/ Commit \/ UpdateFails \/ Settle
            \/ \E B \in SUBSET Queued : TakeBatch(B)
            \/ WriteBatch \/ WriteFails \/ FinishBatch \/ Exit
        BY <2>3, StepCases
      <3>2. dropped' = dropped
        BY <3>1 DEF CreateKey, GetCapture, ReadDisk, DeleteKeys, PrepareCapture, Close, Snapshot,
                    NoFlushWaiting, Commit, UpdateFails, Settle, TakeBatch, WriteBatch, WriteFails,
                    FinishBatch, Exit, queueVars
      <3>3. \A k \in Keys : ~Forgotten(k)
        BY <1>1, <3>1, OthersForgetNothing
      <3>4. Lost = {}
        BY <3>3 DEF Lost
      <3>5. dropped \in Nat /\ dropped' \in Nat /\ dropped <= dropped'
        BY <2>1, <3>2 DEF Shape
      <3> QED
        BY <3>4, <3>5, NothingLost
    <2> QED
      BY <2>2, <2>3
  <1> QED
    BY <1>1, CaptureInvariant, PTL DEF Spec, LossesCounted
=============================================================================
