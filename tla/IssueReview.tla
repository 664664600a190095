---------------------------- MODULE IssueReview ----------------------------
(***************************************************************************)
(* The administrator's review of the issue reports that phones upload      *)
(* (crates/haqor-admin/src/{lib,issue_tui}.rs): the server's snapshot is   *)
(* downloaded to a temporary copy, reports are edited and resolved in the  *)
(* copy, and the copy is uploaded over the sync route, while phones go on  *)
(* saving, editing and reopening reports.                                  *)
(*                                                                         *)
(* A phone's sync is one step here, DocumentSync takes it apart; the       *)
(* administrator's upload is a round of SnapshotRounds.  As there, the     *)
(* content of a save is its number, and `history` is a ghost.              *)
(***************************************************************************)
EXTENDS ProgressMerge, SnapshotRounds

CONSTANTS Phones,
          Reports,     \* the <<"issue_reports", id>> pairs in play
          MaxEpoch,    \* bound: wall clocks read 1..MaxEpoch
          MaxWrites,   \* bound: saves, edits and resolutions
          MaxScreens   \* bound: lists shown and alarms raised

Admin == "admin"

ASSUME ReviewAssumption ==
  /\ Devices = {Admin}
  /\ \A k \in Reports : TableOf(k) = "issue_reports"
  /\ MaxEpoch \in Nat \ {0} /\ MaxWrites \in Nat /\ MaxScreens \in Nat

VARIABLES phone,       \* the reports on each phone
          server,      \* the server's canonical copy
          temporary,   \* the administrator's copy
          shown,       \* the reports in the administrator's list
          action,      \* the reports that the upload under way resolves
          writes,
          history,     \* ghost: the writes of a report each one stands upon
          screen,      \* ghost: how many lists the administrator was shown, and
                       \* how many alarms
          resolvedAt   \* ghost: the screen at which a write resolved a report

vars == <<phone, server, temporary, shown, action, writes, history, screen, resolvedAt,
          round, wire>>

Epochs == 1..MaxEpoch
Writes == 1..MaxWrites
Rows == RowSet(Writes)
ReportLogs == [Reports -> Rows \cup {NoRow}]
Empty == [k \in Reports |-> NoRow]
Screens == [lists : 0..MaxScreens, alarms : 0..MaxScreens]
NoScreen == [lists |-> 0, alarms |-> 0]

Active(row) == row # NoRow /\ ~row.del
ActiveReports(log) == {k \in Reports : Active(log[k])}
HistoryOf(k, row) == IF row = NoRow THEN {} ELSE history[k][row.val]

\* One committed statement that writes the reports of ks in log; `at` is the
\* screen at which they are resolved, if they are.
Stamped(log, ks, deleted, now) ==
  [k \in Reports |->
     IF k \in ks
     THEN [rev |-> BumpedRevision(log[k], now), del |-> deleted, val |-> writes + 1]
     ELSE log[k]]
Wrote(log, ks, at) ==
  /\ writes < MaxWrites
  /\ writes' = writes + 1
  /\ history' = [k \in Reports |->
       IF k \in ks
       THEN [history[k] EXCEPT ![writes + 1] = HistoryOf(k, log[k]) \cup {writes + 1}]
       ELSE history[k]]
  /\ resolvedAt' = [k \in Reports |->
       IF k \in ks THEN [resolvedAt[k] EXCEPT ![writes + 1] = at] ELSE resolvedAt[k]]

Init ==
  /\ phone = [p \in Phones |-> Empty]
  /\ server = Empty /\ temporary = Empty
  /\ shown = {} /\ action = {}
  /\ writes = 0
  /\ history = [k \in Reports |-> [w \in Writes |-> {}]]
  /\ screen = NoScreen /\ resolvedAt = [k \in Reports |-> [w \in Writes |-> NoScreen]]
  /\ RoundsInit

-----------------------------------------------------------------------------
(* The phones *)

\* A report is saved, edited, or reopened.
SaveIssueReport(p, k, now) ==
  /\ Wrote(phone[p], {k}, NoScreen)
  /\ phone' = [phone EXCEPT ![p] = Stamped(@, {k}, FALSE, now)]
  /\ UNCHANGED <<server, temporary, shown, action, screen, round, wire>>

SyncPhone(p) ==
  /\ server' = MergeDocuments(server, phone[p])
  /\ phone' = [phone EXCEPT ![p] = MergeDocuments(@, server')]
  /\ UNCHANGED <<temporary, shown, action, writes, history, screen, resolvedAt, round, wire>>

-----------------------------------------------------------------------------
(* The administrator *)

\* The copy is replaced; a new list comes with it, or an alarm.
Replace(log, alarm) ==
  /\ screen.lists + screen.alarms < MaxScreens
  /\ temporary' = log
  /\ IF alarm THEN screen' = [screen EXCEPT !.alarms = @ + 1] /\ shown' = shown
              ELSE screen' = [screen EXCEPT !.lists = @ + 1] /\ shown' = ActiveReports(log)

\* A review begins, or the list is pulled again; what an upload that failed
\* left in the copy is gone.
Download ==
  /\ round[Admin] = NoRound
  /\ Replace(server, FALSE)
  /\ UNCHANGED <<phone, server, action, writes, history, resolvedAt, round, wire>>

\* Upload the copy as it is now, with ks resolved in it.
Upload(ks) ==
  /\ Post(Admin, temporary')
  /\ action' = ks
  /\ UNCHANGED <<phone, server, shown, screen>>

\* update_issue_report_note_file: only a report that is active in the copy.
EditNote(k, now) ==
  /\ k \in shown
  /\ Active(temporary[k])
  /\ Wrote(temporary, {k}, NoScreen)
  /\ temporary' = Stamped(temporary, {k}, FALSE, now)
  /\ Upload({})

\* Mutant: reports that are resolved in the copy are stamped once more.
ResolvableAgain(ks) == ks

\* resolve_issue_reports_file: those of ks that are active in the copy.
Resolvable(ks) == ks \cap ActiveReports(temporary)

Resolve(ks, now) ==
  /\ ks \subseteq shown /\ ks # {}
  /\ IF Resolvable(ks) = {}
     THEN UNCHANGED <<temporary, writes, history, resolvedAt>>
     ELSE /\ Wrote(temporary, Resolvable(ks), screen)
          /\ temporary' = Stamped(temporary, Resolvable(ks), TRUE, now)
  /\ Upload(ks)

\* Mutant: the answer is read before the merge.
HandlePostEarly(q) ==
  /\ server' = MergeDocuments(server, q.body)
  /\ Answer(q, server)
  /\ UNCHANGED <<phone, temporary, shown, action, writes, history, screen, resolvedAt>>

HandlePost(q) ==
  /\ server' = MergeDocuments(server, q.body)
  /\ Answer(q, server')
  /\ UNCHANGED <<phone, temporary, shown, action, writes, history, screen, resolvedAt>>

\* The answer becomes the copy.  If it still shows a report that was to be
\* resolved, the administrator is told that the server did not retain the
\* resolutions and is to be updated; the list, and what is marked in it, stay as
\* they were.
Unretained(answer) == action \cap ActiveReports(answer)
Finish ==
  /\ Answered(Admin)
  /\ Replace(round[Admin].answer, Unretained(round[Admin].answer) # {})
  /\ Conclude(Admin)
  /\ UNCHANGED <<phone, server, action, writes, history, resolvedAt>>

\* No answer: the copy keeps what was written in it, the list is as before.
Disconnect ==
  /\ TryNextAddress(Admin) \/ GiveUp(Admin)
  /\ UNCHANGED <<phone, server, temporary, shown, action, writes, history, screen, resolvedAt>>

Next ==
  \/ \E p \in Phones, k \in Reports, now \in Epochs : SaveIssueReport(p, k, now)
  \/ \E p \in Phones : SyncPhone(p)
  \/ Download
  \/ \E k \in Reports, now \in Epochs : EditNote(k, now)
  \/ \E ks \in SUBSET Reports, now \in Epochs : Resolve(ks, now)
  \/ \E q \in wire : HandlePost(q)
  \/ Finish
  \/ Disconnect

Spec == Init /\ [][Next]_vars

-----------------------------------------------------------------------------
(* Properties *)

\* The type invariant.
TypeOK ==
  /\ phone \in [Phones -> ReportLogs]
  /\ server \in ReportLogs /\ temporary \in ReportLogs
  /\ shown \subseteq Reports /\ action \subseteq Reports
  /\ writes \in 0..MaxWrites
  /\ history \in [Reports -> [Writes -> SUBSET Writes]]
  /\ screen \in Screens
  /\ resolvedAt \in [Reports -> [Writes -> Screens]]
  /\ RoundsTypeOK(ReportLogs)

\* Every row of a report, wherever it is.
RowsOf(k) ==
  ({s[k] : s \in {phone[p] : p \in Phones} \cup {server, temporary} \cup SnapshotsInFlight})
    \ {NoRow}

\* A stale snapshot cannot bring back what was resolved or edited with
\* knowledge of it, and the other way round: of two rows of a report anywhere,
\* the administrator's discarded and unsent copies included, the one written on
\* top of the other has the higher revision.
WritesOutrankTheirPast ==
  \A k \in Reports : \A x, y \in RowsOf(k) :
    /\ x.val = y.val => x = y
    /\ x.val \in history[k][y.val] => x = y \/ x.rev < y.rev

\* The administrator is told that the server forgot a resolution only when a
\* phone saved the report without having seen that resolution, or after it;
\* never because an upload was repeated, came late or met other uploads.
AlarmMeansReopened ==
  Answered(Admin) =>
    \A k \in Unretained(round[Admin].answer) :
      round[Admin].answer[k].val \notin history[k][round[Admin].body[k].val]

\* Repeating a resolution whose answer was lost resolves nothing twice: what a
\* phone reopened knowing of the first attempt is not resolved again from the
\* list that the first came from, unless the administrator was told meanwhile
\* that a resolution was not retained.  After that alarm the old list, without
\* the reopened text, is all that `s` is pressed on.
RetryResolvesOnce ==
  [][\A k \in Reports :
       Active(server[k]) /\ server'[k].del =>
         \A w \in history[k][server[k].val] :
           LET first == resolvedAt[k][w]
               again == resolvedAt[k][server'[k].val]
           IN  first # NoScreen /\ first.lists = again.lists => first.alarms # again.alarms]_vars
=============================================================================
