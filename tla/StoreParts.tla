----------------------------- MODULE StoreParts -----------------------------
(***************************************************************************)
(* Three parts of the store, each for itself, in one specification: the    *)
(* initial state chooses the subject, and only the subject moves after     *)
(* that.                                                                   *)
(*                                                                         *)
(*   captures  the queue of captures (CaptureStore)                        *)
(*   import    the import of keys (ImportKeys)                             *)
(*   metrics   minute metrics and their chart (Metrics)                    *)
(***************************************************************************)
EXTENDS CaptureStore, Sequences

CONSTANTS Imports, ApiKeys, Texts, Blank, NoKey,   \* of ImportKeys
          MaxAge, MaxDepth, MaxSamples, MaxNow     \* of Metrics

ASSUME TextsAssumption == Texts \subseteq Seq(ApiKeys \cup {Blank, NoKey})
ASSUME MetricsAssumption == /\ {MaxAge, MaxDepth, MaxSamples, MaxNow} \subseteq Nat
                            /\ MaxAge <= MaxNow

VARIABLES subject,
          records, storeClosed, stage, lines, next, seen, imported, skipped,
          made, unsaved, removed,
          now, metrics, dirtyMetrics, lastMetricPrune, copy, disk, lastDiskPrune, taken

importVars == <<records, storeClosed, stage, lines, next, seen, imported, skipped,
                made, unsaved, removed>>
metricsVars == <<now, metrics, dirtyMetrics, lastMetricPrune, copy, disk, lastDiskPrune, taken>>

Import == INSTANCE ImportKeys WITH closed <- storeClosed
Chart == INSTANCE Metrics WITH snap <- copy

-----------------------------------------------------------------------------
allVars == <<subject, vars, importVars, metricsVars>>

(* What does not matter to a part that stands still is not varied.         *)
PartsInit ==
    /\ subject \in {"captures", "import", "metrics"}
    /\ Init
    /\ Import!Init
    /\ subject # "import" => \A k \in ApiKeys : records[k] = 0
    /\ Chart!Init

CaptureStep(A) == subject = "captures" /\ A /\ UNCHANGED <<subject, importVars, metricsVars>>
ImportStep(A) == subject = "import" /\ A /\ UNCHANGED <<subject, vars, metricsVars>>
MetricsStep(A) == subject = "metrics" /\ A /\ UNCHANGED <<subject, vars, importVars>>

PartsNext == CaptureStep(Next) \/ ImportStep(Import!Next) \/ MetricsStep(Chart!Next)

PartsSpec == PartsInit /\ [][PartsNext]_allVars

-----------------------------------------------------------------------------
(* The types of all parts.                                                 *)
StorePartsTypeOK == TypeOK /\ Import!TypeOK /\ Chart!TypeOK

(* The properties of the parts, stated in their modules.  Those of the     *)
(* captures are QueueSafe and LossesCounted.  A part that stands still is  *)
(* as it was at the beginning, and is looked at only when it moves.        *)
ImportFaithful == subject = "import" => Import!ImportFaithful
ChartComplete == subject = "metrics" => Chart!ChartComplete
=============================================================================
