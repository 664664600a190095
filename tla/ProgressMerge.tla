--------------------------- MODULE ProgressMerge ---------------------------
(***************************************************************************)
(* The row-by-row rules by which crates/haqor-core/src/progress_sync.rs    *)
(* merges an attached snapshot (schema `sync`) into the learner's          *)
(* `progress` schema, for the tables whose rows carry a revision           *)
(* (`updated_epoch`) that every local save bumps.                          *)
(*                                                                         *)
(* A row is [rev, del, val]: its updated_epoch, its tombstone flag and its *)
(* content (an issue report's created_epoch, which only ever moves back,   *)
(* is left out).  A key without a row maps to NoRow.  A key is a pair      *)
(* <<table, id>>; rows of different keys never influence one another.      *)
(***************************************************************************)
EXTENDS Integers

CONSTANT NoRow      \* the value of a key whose table has no such row

\* Tables of the revisioned documents; a tombstone is a row with deleted = 1.
DocumentTables == {"study_state", "lexicon_entry_overrides",
                   "gloss_overrides", "issue_reports", "commentary_notes",
                   "memory_passage", "memory_settings"}

\* The tables whose upsert lets a deletion win a tie of revisions.
DeletionWinsTies == {"issue_reports", "commentary_notes", "memory_passage"}

RowSet(Vals) == [rev : Nat, del : BOOLEAN, val : Vals]

ASSUME NoRowAssumption == NoRow \notin RowSet(Nat)

TableOf(k) == k[1]

\* Mutant: no table lets a deletion win a tie.
SupersedesWithoutTies(t, in, loc) == in.rev > loc.rev

\* The WHERE clause of the upsert: when the incoming row replaces the local.
Supersedes(t, in, loc) ==
  \/ in.rev > loc.rev
  \/ /\ t \in DeletionWinsTies
     /\ in.rev = loc.rev
     /\ in.del
     /\ ~loc.del

\* Mutant: rows that are new to the database are not inserted.
UpdateRow(t, loc, in) ==
  IF in # NoRow /\ loc # NoRow /\ Supersedes(t, in, loc) THEN in ELSE loc

\* INSERT .. SELECT .. ON CONFLICT DO UPDATE .. WHERE, for one key.
MergeRow(t, loc, in) ==
  IF in = NoRow THEN loc
  ELSE IF loc = NoRow \/ Supersedes(t, in, loc) THEN in
  ELSE loc

\* merge_attached_snapshot on every document of a database.
MergeDocuments(local, incoming) ==
  [k \in DOMAIN local |-> MergeRow(TableOf(k), local[k], incoming[k])]

\* Mutant: the save is dated after the clock only, not after the old row.
UnbumpedRevision(old, now) ==
  IF old = NoRow \/ now > old.rev THEN now ELSE old.rev

\* updated_epoch = MAX(excluded.updated_epoch, old + 1): what a save stamps.
BumpedRevision(old, now) ==
  IF old = NoRow \/ now > old.rev THEN now ELSE old.rev + 1

\* The ids whose active uploaded report the merged snapshot does not hold at
\* the same or a newer revision.
UnmergedIssueReports(uploaded, merged) ==
  {k \in DOMAIN uploaded :
     /\ TableOf(k) = "issue_reports"
     /\ uploaded[k] # NoRow
     /\ ~uploaded[k].del
     /\ merged[k] = NoRow \/ merged[k].rev < uploaded[k].rev}
=============================================================================
