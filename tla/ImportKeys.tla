----------------------------- MODULE ImportKeys -----------------------------
(***************************************************************************)
(* The import of keys (ImportKeys and CreateKey of internal/store, import- *)
(* Keys of internal/admin).  An import looks at the keys there are once,   *)
(* at its beginning, and then creates one key after the other; each waits  *)
(* for its own flush.  Other imports and deletions come in between.        *)
(*                                                                         *)
(* A record counts by its API key.  Of a line the API key is kept.         *)
(***************************************************************************)
EXTENDS Places, Sequences

CONSTANTS Imports,   \* requests that import
          ApiKeys,   \* API keys
          Texts,     \* what an administrator may send: sequences of lines, each
                     \* of which is an API key, Blank or NoKey
          Blank,     \* a line that is blank
          NoKey      \* a line with an empty API key

VARIABLES records,   \* keys in memory with each API key
          closed,    \* the store takes no more changes
          stage,     \* where each import is
          lines,     \* its input
          next,      \* the line it has come to
          seen,      \* the API keys it takes for existing
          imported,  \* its result: the keys it has imported
          skipped,   \* its result: the lines it has skipped
          made,      \* history: the records of each API key it has made
          unsaved,   \* history: how many of them it could not save
          removed    \* history: API keys deleted since it began, or refused by it

result == <<imported, skipped>>
history == <<made, unsaved, removed>>
vars == <<records, closed, stage, lines, next, seen, result, history>>

None == [k \in ApiKeys |-> 0]

TypeOK ==
    /\ records \in [ApiKeys -> Nat]
    /\ closed \in BOOLEAN
    /\ stage \in [Imports -> {"none", "reading", "flushing", "done"}]
    /\ lines \in [Imports -> Seq(ApiKeys \cup {NoKey})]
    /\ next \in [Imports -> Nat \ {0}]
    /\ seen \in [Imports -> SUBSET ApiKeys]
    /\ imported \in [Imports -> SUBSET ApiKeys]
    /\ skipped \in [Imports -> Nat]
    /\ made \in [Imports -> [ApiKeys -> Nat]]
    /\ unsaved \in [Imports -> [ApiKeys -> Nat]]
    /\ removed \in [Imports -> SUBSET ApiKeys]

Init ==
    /\ records \in [ApiKeys -> {0, 1}]
    /\ closed = FALSE
    /\ stage = [i \in Imports |-> "none"]
    /\ lines = [i \in Imports |-> <<>>]
    /\ next = [i \in Imports |-> 1]
    /\ seen = [i \in Imports |-> {}]
    /\ imported = [i \in Imports |-> {}]
    /\ skipped = [i \in Imports |-> 0]
    /\ made = [i \in Imports |-> None]
    /\ unsaved = [i \in Imports |-> None]
    /\ removed = [i \in Imports |-> {}]

-----------------------------------------------------------------------------
(* Mutant: a blank line is taken for a key.                                *)
NotBlank_Untrimmed(l) == TRUE

NotBlank(l) == l # Blank
More(i) == next[i] <= Len(lines[i])
Line(i) == lines[i][next[i]]
ToSkip(i) == Line(i) = NoKey \/ Line(i) \in seen[i]

(* parseImportText drops blank lines.                                      *)
Kept(text) == {n \in DOMAIN text : NotBlank(text[n])}
Lines(text) == [n \in 1..Cardinality(Kept(text)) |-> text[Nth(Kept(text), n - 1)]]

(* ListKeys gives what exists.                                             *)
Begin(i, text) ==
    /\ stage[i] = "none"
    /\ stage' = [stage EXCEPT ![i] = "reading"]
    /\ lines' = [lines EXCEPT ![i] = Lines(text)]
    /\ seen' = [seen EXCEPT ![i] = {k \in ApiKeys : records[k] > 0}]
    /\ UNCHANGED <<records, closed, next, result, history>>

Skip(i) ==
    /\ stage[i] = "reading"
    /\ More(i)
    /\ ToSkip(i)
    /\ next' = [next EXCEPT ![i] = @ + 1]
    /\ skipped' = [skipped EXCEPT ![i] = @ + 1]
    /\ UNCHANGED <<records, closed, stage, lines, seen, imported, history>>

CreateKey(i) ==
    /\ stage[i] = "reading"
    /\ More(i)
    /\ ~ToSkip(i)
    /\ ~closed
    /\ records' = [records EXCEPT ![Line(i)] = @ + 1]
    /\ made' = [made EXCEPT ![i][Line(i)] = @ + 1]
    /\ stage' = [stage EXCEPT ![i] = "flushing"]
    /\ UNCHANGED <<closed, lines, next, seen, result, unsaved, removed>>

(* The store is closed, or ValidateKey finds fault with a URL of the line, *)
(* which a model of API keys does not see.                                 *)
CreateRefused(i) ==
    /\ stage[i] = "reading"
    /\ More(i)
    /\ ~ToSkip(i)
    /\ next' = [next EXCEPT ![i] = @ + 1]
    /\ skipped' = [skipped EXCEPT ![i] = @ + 1]
    /\ removed' = [removed EXCEPT ![i] = @ \cup {Line(i)}]
    /\ UNCHANGED <<records, closed, stage, lines, seen, imported, made, unsaved>>

(* Mutant: only the keys there were at the beginning are skipped.          *)
FlushSucceeds_Unseen(i) ==
    /\ stage[i] = "flushing"
    /\ stage' = [stage EXCEPT ![i] = "reading"]
    /\ next' = [next EXCEPT ![i] = @ + 1]
    /\ imported' = [imported EXCEPT ![i] = @ \cup {Line(i)}]
    /\ UNCHANGED <<records, closed, lines, seen, skipped, history>>

FlushSucceeds(i) ==
    /\ stage[i] = "flushing"
    /\ stage' = [stage EXCEPT ![i] = "reading"]
    /\ next' = [next EXCEPT ![i] = @ + 1]
    /\ seen' = [seen EXCEPT ![i] = @ \cup {Line(i)}]
    /\ imported' = [imported EXCEPT ![i] = @ \cup {Line(i)}]
    /\ UNCHANGED <<records, closed, lines, skipped, history>>

(* The line counts as skipped, but the key stays, to be saved later; a     *)
(* repetition of it makes another.                                         *)
FlushFails(i) ==
    /\ stage[i] = "flushing"
    /\ stage' = [stage EXCEPT ![i] = "reading"]
    /\ next' = [next EXCEPT ![i] = @ + 1]
    /\ skipped' = [skipped EXCEPT ![i] = @ + 1]
    /\ unsaved' = [unsaved EXCEPT ![i][Line(i)] = @ + 1]
    /\ UNCHANGED <<records, closed, lines, seen, imported, made, removed>>

End(i) ==
    /\ stage[i] = "reading"
    /\ ~More(i)
    /\ stage' = [stage EXCEPT ![i] = "done"]
    /\ UNCHANGED <<records, closed, lines, next, seen, result, history>>

(* All records with one API key; deletions of less are not modelled.       *)
DeleteKeys(k) ==
    /\ ~closed
    /\ records[k] > 0
    /\ records' = [records EXCEPT ![k] = 0]
    /\ removed' = [i \in Imports |->
           IF stage[i] = "none" THEN removed[i] ELSE removed[i] \cup {k}]
    /\ UNCHANGED <<closed, stage, lines, next, seen, result, made, unsaved>>

Close ==
    /\ ~closed
    /\ closed' = TRUE
    /\ UNCHANGED <<records, stage, lines, next, seen, result, history>>

(* The process ends.                                                       *)
Gone ==
    /\ closed
    /\ \A i \in Imports : stage[i] = "done"
    /\ UNCHANGED vars

Next ==
    \/ \E i \in Imports, text \in Texts : Begin(i, text)
    \/ \E i \in Imports :
        \/ Skip(i) \/ CreateKey(i) \/ CreateRefused(i)
        \/ FlushSucceeds(i) \/ FlushFails(i) \/ End(i)
    \/ \E k \in ApiKeys : DeleteKeys(k)
    \/ Close
    \/ Gone

Spec == Init /\ [][Next]_vars

-----------------------------------------------------------------------------
(* store_test.go TestImportKeysSkipsDuplicates: an import makes one record *)
(* of an API key that it reports imported, however often the key is        *)
(* repeated and whoever deletes or makes it too; and one more for each     *)
(* line that it reports as not saved.                                      *)
Count(condition) == IF condition THEN 1 ELSE 0
ImportedOnce ==
    \A i \in Imports, k \in ApiKeys :
        made[i][k] = unsaved[i][k] + Count(k \in imported[i])
                     + Count(stage[i] = "flushing" /\ k = Line(i))

(* README "If a manual save fails, its in-memory change is retained": when *)
(* an import ends, every API key of its text is there, unless somebody     *)
(* deleted it meanwhile or the store refused it.                           *)
ImportComplete ==
    \A i \in Imports : stage[i] = "done" =>
        \A n \in DOMAIN lines[i] :
            lines[i][n] = NoKey \/ lines[i][n] \in removed[i] \/ records[lines[i][n]] > 0

(* Both together: no key too many and none too few.                        *)
ImportFaithful == ImportedOnce /\ ImportComplete
=============================================================================
