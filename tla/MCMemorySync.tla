---------------------------- MODULE MCMemorySync ----------------------------
(* Small instances of MemorySync. *)
EXTENDS MemorySync

OnePassage == [id \in Ids |-> Verses]

\* A state all replicas agree on: one line in every verse, the verses at the
\* places given, and the answers that are in the log.  The last verse was stamped
\* by a clock that was ahead of those that write now, the others long ago.
Synced(row, answers) ==
  LET rev(v) == IF v = Max(Verses) THEN MaxEpoch + 1 ELSE 0
  IN  [rows |-> [k \in Keys |->
         CASE k[1] = "verse"  -> [rev |-> rev(k[2]), reps |-> IF row[k[2]].been THEN 1 ELSE 0,
                                  val |-> 0, is |-> row[k[2]]]
           [] k[1] = "layout" -> [rev |-> rev(k[2]), reps |-> 0, val |-> 0,
                                  is |-> [lines |-> 1, opens |-> FALSE]]
           [] k[1] = "run"    -> NoRow],
       log |-> [e \in Entries |-> IF e \in answers THEN 1 ELSE 0]]

Completed == {[epoch |-> 1, verse |-> Max(Verses), grade |-> "good", done |-> id] : id \in Ids}

\* All verses are learnt but the last, which is to be recited from its section's
\* first verse; or which was learnt before, the passage complete, and forgotten.
Before(last) ==
  [v \in Verses |-> IF v = Max(Verses) THEN last ELSE Row(1, TRUE, TRUE, TRUE)]
NearlyLearnt == {Synced(Before(Row(2, FALSE, FALSE, FALSE)), {}),
                 Synced(Before(Row(Relearn, FALSE, FALSE, TRUE)), Completed)}
=============================================================================
