---------------------------- MODULE DocumentSync ---------------------------
(***************************************************************************)
(* The learner's revisioned documents -- Study workspaces, commentary      *)
(* notes, issue reports, tutor gloss corrections, word-info corrections,   *)
(* passages to memorise and the settings for it -- edited offline on       *)
(* several devices and synchronised through the LAN server                 *)
(* (crates/haqor-core/src/{tutor,memorise,progress_sync}.rs and            *)
(* crates/haqor-sync-server/src).                                          *)
(*                                                                         *)
(* Each save takes its revision from its device's wall clock, which is any *)
(* value of Epochs: clocks are skewed and may be set back.  The content of *)
(* every save is distinct, the case that shows most: it is the number of   *)
(* the write.  `history` is a ghost: for each write, itself and the writes *)
(* its author had seen, directly or through what it replaced.              *)
(***************************************************************************)
EXTENDS ProgressMerge, SnapshotRounds

CONSTANTS Keys,        \* the <<table, id>> pairs in play
          MaxEpoch,    \* bound: wall clocks read 1..MaxEpoch
          MaxWrites    \* bound: saves and deletions, over all devices

\* The server as a replica among the devices.
Server == "server"

ASSUME DocumentAssumption ==
  /\ Server \notin Devices
  /\ \A k \in Keys : k[1] \in DocumentTables
  /\ MaxEpoch \in Nat \ {0}
  /\ MaxWrites \in Nat

VARIABLES db,          \* each device's progress.db
          server,      \* the server's canonical progress.db
          writes,      \* writes so far; the latest write's number
          history      \* ghost: the writes each write stands upon

vars == <<db, server, round, wire, writes, history>>

Epochs == 1..MaxEpoch
Writes == 1..MaxWrites
Rows == RowSet(Writes)
Documents == [Keys -> Rows \cup {NoRow}]
Empty == [k \in Keys |-> NoRow]

\* What the app shows of a row: tombstones are filtered by deleted = 0.
Active(row) == row # NoRow /\ ~row.del

HistoryOf(k, row) == IF row = NoRow THEN {} ELSE history[k][row.val]

Init ==
  /\ db = [d \in Devices |-> Empty]
  /\ server = Empty
  /\ writes = 0
  /\ history = [k \in Keys |-> [w \in Writes |-> {}]]
  /\ RoundsInit

-----------------------------------------------------------------------------
\* One committed statement or transaction of device d that saves (or, when
\* deleted, replaces by a tombstone) the rows of ks with its clock at `now`.
Write(d, ks, deleted, now) ==
  /\ writes < MaxWrites
  /\ writes' = writes + 1
  /\ db' = [db EXCEPT ![d] = [k \in Keys |->
       IF k \in ks
       THEN [rev |-> BumpedRevision(db[d][k], now), del |-> deleted, val |-> writes + 1]
       ELSE db[d][k]]]
  /\ history' = [k \in Keys |->
       IF k \in ks
       THEN [history[k] EXCEPT ![writes + 1] = HistoryOf(k, db[d][k]) \cup {writes + 1}]
       ELSE history[k]]
  /\ UNCHANGED <<server, round, wire>>

SetStudyState(d, k, now) ==
  TableOf(k) = "study_state" /\ Write(d, {k}, FALSE, now)

SetCommentaryNote(d, k, now) ==
  TableOf(k) = "commentary_notes" /\ Write(d, {k}, FALSE, now)

\* Deleting also inserts: a tombstone is left where there was no row.
DeleteCommentaryNote(d, k, now) ==
  TableOf(k) = "commentary_notes" /\ Write(d, {k}, TRUE, now)

\* Also the edit of a report, and the reopening of a resolved one.
SaveIssueReport(d, k, now) ==
  TableOf(k) = "issue_reports" /\ Write(d, {k}, FALSE, now)

SetTutorGlossOverride(d, k, now) ==
  TableOf(k) = "gloss_overrides" /\ Write(d, {k}, FALSE, now)

SetLexiconEntryOverride(d, k, now) ==
  TableOf(k) = "lexicon_entry_overrides" /\ Write(d, {k}, FALSE, now)

SetMemorySettings(d, k, now) ==
  TableOf(k) = "memory_settings" /\ Write(d, {k}, FALSE, now)

\* A new passage gets an id that no device has used; one of a range that a
\* live passage has already only retitles that passage.
AddMemoryPassage(d, k, now) ==
  /\ TableOf(k) = "memory_passage"
  /\ Active(db[d][k]) \/ \A w \in Writes : w \notin history[k][w]
  /\ Write(d, {k}, FALSE, now)

DeleteMemoryPassage(d, k, now) ==
  /\ TableOf(k) = "memory_passage"
  /\ Active(db[d][k])
  /\ Write(d, {k}, TRUE, now)

\* Tombstones, in one transaction, the active corrections that the bundled
\* data makes redundant; which ones those are is the corpus's business.
ActiveGlosses(d) == {k \in Keys : TableOf(k) = "gloss_overrides" /\ Active(db[d][k])}

OptimizeTutorGlossOverrides(d, now) ==
  \E ks \in (SUBSET ActiveGlosses(d)) \ {{}} : Write(d, ks, TRUE, now)

Edit(d) ==
  \E now \in Epochs :
    \/ OptimizeTutorGlossOverrides(d, now)
    \/ \E k \in Keys :
         \/ SetStudyState(d, k, now)
         \/ SetCommentaryNote(d, k, now)
         \/ DeleteCommentaryNote(d, k, now)
         \/ SaveIssueReport(d, k, now)
         \/ SetTutorGlossOverride(d, k, now)
         \/ SetLexiconEntryOverride(d, k, now)
         \/ SetMemorySettings(d, k, now)
         \/ AddMemoryPassage(d, k, now)
         \/ DeleteMemoryPassage(d, k, now)

-----------------------------------------------------------------------------
\* The app exports its database and starts a request with the snapshot.
StartRound(d) ==
  Post(d, db[d]) /\ UNCHANGED <<db, server, writes, history>>

\* POST /v1/progress: merge into the canonical file, answer with all of it.
HandlePost(q) ==
  /\ server' = MergeDocuments(server, q.body)
  /\ Answer(q, server')
  /\ UNCHANGED <<db, writes, history>>

\* Mutant: the device replaces its database by the answer.
AdoptAnswer(d) ==
  /\ Answered(d)
  /\ db' = [db EXCEPT ![d] = round[d].answer]
  /\ Conclude(d)
  /\ UNCHANGED <<server, writes, history>>

\* The device merges the answer into what its database holds by now.
MergeAnswer(d) ==
  /\ Answered(d)
  /\ db' = [db EXCEPT ![d] = MergeDocuments(db[d], round[d].answer)]
  /\ Conclude(d)
  /\ UNCHANGED <<server, writes, history>>

Disconnect(d) ==
  (TryNextAddress(d) \/ GiveUp(d)) /\ UNCHANGED <<db, server, writes, history>>

Next ==
  \/ \E d \in Devices : Edit(d) \/ StartRound(d) \/ MergeAnswer(d) \/ Disconnect(d)
  \/ \E q \in wire : HandlePost(q)

Spec == Init /\ [][Next]_vars

\* The app keeps starting rounds, and the network does not lose every one.
HandlePostOf(d) == \E q \in LiveOf(d) : HandlePost(q) /\ round'[d].phase = "answered"
Fairness ==
  \A d \in Devices :
    /\ WF_vars(StartRound(d))
    /\ WF_vars(Disconnect(d))
    /\ SF_vars(HandlePostOf(d))
    /\ SF_vars(MergeAnswer(d))
FairSpec == Spec /\ Fairness

-----------------------------------------------------------------------------
(* Properties *)

\* Every copy of the documents anywhere: databases, snapshots under way.
Copies == {db[d] : d \in Devices} \cup {server} \cup SnapshotsInFlight

\* The rows of key k that exist anywhere.
RowsOf(k) == {s[k] : s \in Copies} \ {NoRow}

\* The type invariant.
TypeOK ==
  /\ db \in [Devices -> Documents]
  /\ server \in Documents
  /\ writes \in 0..MaxWrites
  /\ history \in [Keys -> [Writes -> SUBSET Writes]]
  /\ RoundsTypeOK(Documents)

\* Revisions respect what the learner saw: of two rows anywhere, on a device,
\* on the server or under way, the one written on top of the other has the
\* higher updated_epoch, so that whichever way they meet, the merge keeps it,
\* however the clocks of the devices disagree (the MAX(.., old + 1) of every
\* save).  One write is one row: no merge mixes the columns of two saves.
RevisionsFollowHistory ==
  \A k \in Keys : \A x, y \in RowsOf(k) :
    /\ x.val = y.val => x = y
    /\ x.val \in history[k][y.val] => x = y \/ x.rev < y.rev

\* An answer acknowledges every issue report of the snapshot it answers, at
\* the uploaded revision or a newer one, even when the request was repeated
\* or the server merged other devices' snapshots in between: the app's alarm
\* for an old server (unmerged_issue_report_count) never sounds with this one.
AnswersAcknowledge ==
  \A d \in Devices : Answered(d) =>
    UnmergedIssueReports(round[d].body, round[d].answer) = {}

\* The synchronised system implements the abstract causal register: no device
\* and not the server ever falls back to a version that its own was written on
\* top of, loses a document, or shows one nobody wrote, whatever requests are
\* repeated, lost, late or answered after further edits.
Version(row) == IF row = NoRow THEN 0 ELSE row.val
Causal == INSTANCE CausalRegister WITH
  Replicas <- Devices \cup {Server},
  held <- [r \in Devices \cup {Server} |->
             [k \in Keys |-> Version(IF r = Server THEN server[k] ELSE db[r][k])]]
ImplementsCausalRegister == Causal!Spec

\* What an upsert compares: the revision and, where deletions win ties, the
\* tombstone.  Rows of equal rank never replace one another.
Rank(k, row) ==
  IF row = NoRow THEN <<-1, 0>>
  ELSE <<row.rev, IF TableOf(k) \in DeletionWinsTies /\ row.del THEN 1 ELSE 0>>

\* Once the learner stops editing, all devices and the server come to hold
\* the same revision of every document, and where deletions win ties they
\* agree on what is deleted.
RanksAgree ==
  \A d \in Devices, k \in Keys : Rank(k, db[d][k]) = Rank(k, server[k])
Converges == <>[]RanksAgree

\* The steps by which they get there are never undone: a round during which the
\* learner does not edit leaves the device with just what the server answered,
\* and once all agree nothing but an edit makes them differ -- no request read
\* late or a second time, no answer lost or merged after another.
SameRanks(a, b) == \A k \in Keys : Rank(k, a[k]) = Rank(k, b[k])
RoundsSettle ==
  [][/\ \A d \in Devices :
          MergeAnswer(d) /\ db[d] = round[d].body => SameRanks(db'[d], round[d].answer)
     /\ RanksAgree /\ UNCHANGED writes => RanksAgree']_vars

\* What the module comment of progress_sync.rs says of two devices.
ContentConverges == <>[](\A d \in Devices : db[d] = server)
=============================================================================
