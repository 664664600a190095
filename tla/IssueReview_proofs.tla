------------------------- MODULE IssueReview_proofs -------------------------
(***************************************************************************)
(* Proofs about IssueReview, for any phones, reports, clocks, addresses    *)
(* and numbers of writes and screens.                                    *)
(***************************************************************************)
EXTENDS IssueReview, SnapshotRounds_proofs

-----------------------------------------------------------------------------
(* Merging and stamping *)

\* A merged row is one of the two that met, and never the older one.
LEMMA MergeKeepsNewer ==
  ASSUME NEW a \in ReportLogs, NEW b \in ReportLogs, NEW k \in Reports
  PROVE  /\ MergeDocuments(a, b)[k] \in {a[k], b[k]}
         /\ MergeDocuments(a, b)[k] = MergeRow(TableOf(k), a[k], b[k])
         /\ a[k] # NoRow \/ b[k] # NoRow => MergeDocuments(a, b)[k] # NoRow
<1>1. DOMAIN a = Reports
  BY DEF ReportLogs
<1> QED BY <1>1 DEF MergeDocuments, MergeRow

\* Merging two logs gives a log.
LEMMA MergeType ==
  ASSUME NEW a \in ReportLogs, NEW b \in ReportLogs
  PROVE  MergeDocuments(a, b) \in ReportLogs
<1>1. MergeDocuments(a, b) = [k \in Reports |-> MergeDocuments(a, b)[k]]
  BY DEF MergeDocuments, ReportLogs
<1> QED BY <1>1, MergeKeepsNewer DEF ReportLogs

\* The rows of a log are rows, and no row is mistaken for none.
LEMMA LogParts ==
  ASSUME NEW a \in ReportLogs, NEW k \in Reports, a[k] # NoRow
  PROVE  a[k] \in Rows /\ a[k].rev \in Nat /\ a[k].val \in Writes /\ a[k].del \in BOOLEAN
BY DEF ReportLogs, Rows, RowSet

\* A row of the answer that is active where the uploaded one was deleted is
\* newer.
LEMMA ActiveIsNewer ==
  ASSUME NEW a \in ReportLogs, NEW b \in ReportLogs, NEW k \in Reports,
         b[k] # NoRow, b[k].del, Active(MergeDocuments(a, b)[k])
  PROVE  /\ MergeDocuments(a, b)[k] # NoRow
         /\ b[k].rev < MergeDocuments(a, b)[k].rev
<1> DEFINE m == MergeDocuments(a, b)[k]
<1>1. m = MergeRow(TableOf(k), a[k], b[k]) /\ m # NoRow /\ ~m.del
  BY MergeKeepsNewer DEF Active
<1>2. m = a[k] /\ ~Supersedes(TableOf(k), b[k], a[k])
  BY <1>1 DEF MergeRow
<1>3. TableOf(k) \in DeletionWinsTies
  BY ReviewAssumption DEF DeletionWinsTies
<1>4. a[k].rev \in Nat /\ b[k].rev \in Nat
  BY <1>1, <1>2, LogParts
<1> HIDE DEF m
<1>5. b[k].rev < m.rev
  BY <1>1, <1>2, <1>3, <1>4 DEF Supersedes
<1> QED BY <1>1, <1>5 DEF m

\* The stamp of a write is a revision above the one it replaces.
LEMMA BumpIncreases ==
  ASSUME NEW old \in Rows \cup {NoRow}, NEW now \in Epochs
  PROVE  /\ BumpedRevision(old, now) \in Nat
         /\ old # NoRow => BumpedRevision(old, now) > old.rev
BY ReviewAssumption DEF BumpedRevision, Rows, RowSet, Epochs

-----------------------------------------------------------------------------
(* Type correctness *)

\* One committed write: log becomes new.
Writing(log, new, ks, by) ==
  /\ Wrote(log, ks, by)
  /\ \E deleted \in BOOLEAN, now \in Epochs : new = Stamped(log, ks, deleted, now)

TypeInv == TypeOK /\ Connected

\* A write keeps the types.
LEMMA WriteType ==
  ASSUME TypeOK, NEW log \in ReportLogs, NEW new, NEW ks \in SUBSET Reports,
         NEW by \in Screens, Writing(log, new, ks, by)
  PROVE  /\ new \in ReportLogs
         /\ writes \in Nat /\ writes' = writes + 1 /\ writes + 1 \in Writes
         /\ writes' \in 0..MaxWrites
         /\ history' \in [Reports -> [Writes -> SUBSET Writes]]
         /\ resolvedAt' \in [Reports -> [Writes -> Screens]]
<1>1. writes \in Nat /\ writes' = writes + 1 /\ writes + 1 \in Writes
      /\ writes' \in 0..MaxWrites
  BY ReviewAssumption DEF TypeOK, Writing, Wrote, Writes
<1>2. PICK deleted \in BOOLEAN, now \in Epochs : new = Stamped(log, ks, deleted, now)
  BY DEF Writing
<1>3. ASSUME NEW k \in Reports
      PROVE  [rev |-> BumpedRevision(log[k], now), del |-> deleted, val |-> writes + 1] \in Rows
  <2>1. log[k] \in Rows \cup {NoRow}
    BY DEF ReportLogs
  <2> QED BY <1>1, <2>1, BumpIncreases DEF Rows, RowSet
<1>4. new \in ReportLogs
  BY <1>2, <1>3 DEF Stamped, ReportLogs
<1>5. ASSUME NEW k \in Reports PROVE HistoryOf(k, log[k]) \in SUBSET Writes
  BY LogParts DEF HistoryOf, TypeOK
<1>6. history' \in [Reports -> [Writes -> SUBSET Writes]]
  BY <1>1, <1>5 DEF TypeOK, Writing, Wrote
<1>7. resolvedAt' \in [Reports -> [Writes -> Screens]]
  BY <1>1 DEF TypeOK, Writing, Wrote
<1> QED BY <1>1, <1>4, <1>6, <1>7

\* The writes of a phone and of the administrator, as far as the proofs need
\* them: a resolution is one of active reports, and nothing the administrator
\* does makes a report active.
PhoneWrites ==
  /\ \E p \in Phones, k \in Reports :
       /\ Writing(phone[p], phone'[p], {k}, NoScreen)
       /\ phone' = [phone EXCEPT ![p] = phone'[p]]
  /\ UNCHANGED <<server, temporary, shown, action, screen, roundVars>>
AdminWrites ==
  /\ \E ks \in SUBSET Reports, by \in {NoScreen, screen} :
       /\ Writing(temporary, temporary', ks, by)
       /\ \A k \in ks : by # NoScreen => Active(temporary[k]) /\ ~Active(temporary'[k])
  /\ \A k \in Reports : Active(temporary'[k]) => Active(temporary[k])
  /\ Upload(action')

\* The row a write stamps is a row.
LEMMA StampedRow ==
  ASSUME TypeOK, NEW old \in Rows \cup {NoRow}, NEW now \in Epochs
  PROVE  /\ [rev |-> BumpedRevision(old, now), del |-> FALSE, val |-> writes + 1] # NoRow
         /\ [rev |-> BumpedRevision(old, now), del |-> TRUE, val |-> writes + 1] # NoRow
<1>0. writes \in 0..MaxWrites /\ MaxWrites \in Nat
  BY ReviewAssumption DEF TypeOK
<1>1. BumpedRevision(old, now) \in Nat /\ writes + 1 \in Nat
  BY <1>0, BumpIncreases
<1>2. /\ [rev |-> BumpedRevision(old, now), del |-> FALSE, val |-> writes + 1] \in RowSet(Nat)
      /\ [rev |-> BumpedRevision(old, now), del |-> TRUE, val |-> writes + 1] \in RowSet(Nat)
  BY <1>1 DEF RowSet
<1> QED BY <1>2, NoRowAssumption

\* No list and no alarm is a screen.
LEMMA NoScreenType == NoScreen \in Screens
BY ReviewAssumption DEF NoScreen, Screens

\* The administrator's calls write or upload what is there, and a call that
\* uploads has deleted what it is to resolve.
LEMMA AdminCalls ==
  ASSUME TypeInv,
         \/ \E k \in Reports, now \in Epochs : EditNote(k, now)
         \/ \E ks \in SUBSET Reports, now \in Epochs : Resolve(ks, now)
  PROVE  /\ AdminWrites \/ (Upload(action') /\ UNCHANGED <<temporary, writes, history, resolvedAt>>)
         /\ \A k \in Reports : temporary[k] # NoRow => temporary'[k] # NoRow
         /\ \A k \in action' : /\ k \in shown
                               /\ temporary[k] # NoRow => temporary'[k].del
<1>0. temporary \in ReportLogs /\ screen \in Screens
  BY DEF TypeInv, TypeOK
<1>1. ASSUME NEW j \in Reports, NEW now \in Epochs, EditNote(j, now)
      PROVE  /\ AdminWrites
             /\ \A k \in Reports : temporary[k] # NoRow => temporary'[k] # NoRow
             /\ action' = {}
  <2>1. /\ Active(temporary[j]) /\ Wrote(temporary, {j}, NoScreen) /\ writes < MaxWrites
        /\ temporary' = Stamped(temporary, {j}, FALSE, now)
        /\ Upload({}) /\ action' = {}
    BY <1>1 DEF EditNote, Upload, Wrote
  <2>2. Writing(temporary, temporary', {j}, NoScreen)
    BY <2>1 DEF Writing
  <2>3. ASSUME NEW k \in Reports
        PROVE  /\ k \in {j} => temporary'[k] # NoRow
               /\ k \notin {j} => temporary'[k] = temporary[k]
    <3>1. temporary[k] \in Rows \cup {NoRow}
      BY <1>0 DEF ReportLogs
    <3> QED BY <2>1, <3>1, StampedRow DEF Stamped, TypeInv
  <2>4. \A k \in Reports : /\ k = j => temporary'[k] # NoRow
                           /\ k # j => temporary'[k] = temporary[k]
    BY <2>3
  <2> QED BY <2>1, <2>2, <2>4 DEF AdminWrites
<1>2. ASSUME NEW ks \in SUBSET Reports, NEW now \in Epochs, Resolve(ks, now)
      PROVE  /\ AdminWrites \/ (Upload(action') /\ UNCHANGED <<temporary, writes, history, resolvedAt>>)
             /\ \A k \in Reports : temporary[k] # NoRow => temporary'[k] # NoRow
             /\ action' = ks /\ ks \subseteq shown
             /\ \A k \in ks : temporary[k] # NoRow => temporary'[k].del
  <2>1. ks \subseteq shown /\ Upload(ks) /\ action' = ks
    BY <1>2 DEF Resolve, Upload
  <2>2. Resolvable(ks) = {k \in ks : temporary[k] # NoRow /\ ~temporary[k].del}
    BY DEF Resolvable, ActiveReports, Active
  <2>3. CASE Resolvable(ks) = {}
    <3>1. UNCHANGED <<temporary, writes, history, resolvedAt>>
      BY <1>2, <2>3 DEF Resolve
    <3>2. \A k \in ks : temporary[k] # NoRow => temporary[k].del
      BY <2>2, <2>3
    <3> QED BY <2>1, <3>1, <3>2
  <2>4. CASE Resolvable(ks) # {}
    <3> DEFINE rs == Resolvable(ks)
    <3>1. /\ Wrote(temporary, rs, screen) /\ writes < MaxWrites
          /\ temporary' = Stamped(temporary, rs, TRUE, now)
      BY <1>2, <2>4 DEF Resolve, Wrote
    <3>2. rs \in SUBSET Reports
      BY <2>2
    <3>3. ASSUME NEW k \in Reports
          PROVE  /\ k \in rs => temporary'[k] # NoRow /\ temporary'[k].del
                 /\ k \notin rs => temporary'[k] = temporary[k]
      <4>1. temporary[k] \in Rows \cup {NoRow}
        BY <1>0 DEF ReportLogs
      <4> HIDE DEF rs
      <4> QED BY <3>1, <4>1, StampedRow DEF Stamped, TypeInv
    <3>4. Writing(temporary, temporary', rs, screen)
      BY <3>1 DEF Writing
    <3>5. \A k \in rs : Active(temporary[k]) /\ ~Active(temporary'[k])
      BY <2>2, <3>2, <3>3 DEF Active
    <3>6. \A k \in Reports : Active(temporary'[k]) => Active(temporary[k])
      BY <3>3, <3>5
    <3>7. \A k \in ks : temporary[k] # NoRow => temporary'[k].del
      BY <2>2, <3>3
    <3> HIDE DEF rs
    <3>8. AdminWrites
      BY <2>1, <3>2, <3>4, <3>5, <3>6 DEF AdminWrites
    <3> QED BY <2>1, <3>3, <3>7, <3>8
  <2> QED BY <2>3, <2>4
<1> QED BY <1>1, <1>2

\* What a step does, by who writes.
OtherStep ==
  /\ UNCHANGED <<writes, history, resolvedAt>>
  /\ \/ \E p \in Phones : SyncPhone(p)
     \/ Download
     \/ Upload(action') /\ UNCHANGED temporary
     \/ \E q \in wire : HandlePost(q)
     \/ Finish
     \/ Disconnect
     \/ UNCHANGED vars
\* What a step does, by who writes.
LEMMA StepCases ==
  ASSUME TypeInv, [Next]_vars
  PROVE  PhoneWrites \/ AdminWrites \/ OtherStep
<1>1. ASSUME NEW p \in Phones, NEW k \in Reports, NEW now \in Epochs, SaveIssueReport(p, k, now)
      PROVE  PhoneWrites
  <2>1. phone'[p] = Stamped(phone[p], {k}, FALSE, now)
    BY <1>1 DEF SaveIssueReport, TypeInv, TypeOK
  <2> QED BY <1>1, <2>1 DEF SaveIssueReport, PhoneWrites, Writing, roundVars
<1>2. CASE \/ \E k \in Reports, now \in Epochs : EditNote(k, now)
           \/ \E ks \in SUBSET Reports, now \in Epochs : Resolve(ks, now)
  BY <1>2, AdminCalls DEF OtherStep
<1>3. CASE \/ \E p \in Phones : SyncPhone(p)
           \/ Download
           \/ \E q \in wire : HandlePost(q)
           \/ Finish
           \/ Disconnect
           \/ UNCHANGED vars
  BY <1>3 DEF OtherStep, SyncPhone, Download, HandlePost, Finish, Disconnect, vars
<1> QED BY <1>1, <1>2, <1>3 DEF Next

\* The database of a phone and the temporary copy keep their types.
LEMMA StepRounds ==
  ASSUME TypeInv, [Next]_vars
  PROVE  /\ phone' \in [Phones -> ReportLogs]
         /\ server' \in ReportLogs /\ temporary' \in ReportLogs
         /\ RoundStep(ReportLogs)
         /\ RoundStep({temporary', server'})
<1>0. /\ phone \in [Phones -> ReportLogs]
      /\ server \in ReportLogs /\ temporary \in ReportLogs
      /\ RoundsTypeOK(ReportLogs)
      /\ Admin \in Devices
      /\ screen \in Screens
  BY ReviewAssumption DEF TypeInv, TypeOK
<1>1. CASE PhoneWrites
  <2>1. PICK p \in Phones, k \in Reports :
          /\ Writing(phone[p], phone'[p], {k}, NoScreen)
          /\ phone' = [phone EXCEPT ![p] = phone'[p]]
    BY <1>1 DEF PhoneWrites
  <2>2. phone'[p] \in ReportLogs
    <3>1. phone[p] \in ReportLogs /\ {k} \in SUBSET Reports /\ NoScreen \in Screens
      BY <1>0, NoScreenType
    <3> QED BY <2>1, <3>1, WriteType DEF TypeInv
  <2> QED BY <1>0, <1>1, <2>1, <2>2 DEF PhoneWrites, RoundStep
<1>2. CASE AdminWrites
  <2>1. PICK ks \in SUBSET Reports, by \in {NoScreen, screen} : Writing(temporary, temporary', ks, by)
    BY <1>2 DEF AdminWrites
  <2>2. temporary' \in ReportLogs
    <3>1. by \in Screens
      BY <1>0, NoScreenType
    <3> QED BY <1>0, <2>1, <3>1, WriteType DEF TypeInv
  <2> QED BY <1>0, <1>2, <2>2 DEF AdminWrites, Upload, RoundStep
<1>3. CASE OtherStep
  <2>1. ASSUME NEW p \in Phones, SyncPhone(p)
        PROVE  /\ phone' \in [Phones -> ReportLogs]
               /\ server' \in ReportLogs /\ temporary' \in ReportLogs
               /\ UNCHANGED roundVars
    <3>1. server' \in ReportLogs
      BY <1>0, <2>1, MergeType DEF SyncPhone
    <3>2. MergeDocuments(phone[p], server') \in ReportLogs
      BY <1>0, <3>1, MergeType
    <3> QED BY <1>0, <2>1, <3>1, <3>2 DEF SyncPhone, roundVars
  <2>2. CASE Download
    BY <1>0, <2>2 DEF Download, Replace, RoundStep, roundVars
  <2>3. CASE Upload(action') /\ UNCHANGED temporary
    BY <1>0, <2>3 DEF Upload, RoundStep
  <2>4. ASSUME NEW q \in wire, HandlePost(q)
        PROVE  /\ server' \in ReportLogs /\ UNCHANGED <<phone, temporary>>
               /\ Answer(q, server')
    <3>1. q.body \in ReportLogs
      BY <1>0 DEF RoundsTypeOK
    <3> QED BY <1>0, <2>4, <3>1, MergeType DEF HandlePost
  <2>5. CASE Finish
    <3>1. round[Admin].answer \in ReportLogs
      BY <1>0, <2>5, RoundShapes DEF Finish
    <3> QED BY <1>0, <2>5, <3>1 DEF Finish, Replace, RoundStep
  <2>6. CASE Disconnect
    BY <1>0, <2>6 DEF Disconnect, RoundStep
  <2>7. CASE UNCHANGED vars
    BY <1>0, <2>7 DEF vars, RoundStep, roundVars
  <2> QED BY <1>0, <1>3, <2>1, <2>2, <2>3, <2>4, <2>5, <2>6, <2>7 DEF OtherStep, RoundStep
<1> QED BY <1>1, <1>2, <1>3, StepCases

\* The screen stays, or one list or one alarm more has come.
LEMMA ScreenStep ==
  ASSUME TypeInv, [Next]_vars
  PROVE  \/ screen' = screen
         \/ /\ screen.lists + screen.alarms < MaxScreens
            /\ \/ screen' = [screen EXCEPT !.alarms = @ + 1]
               \/ screen' = [screen EXCEPT !.lists = @ + 1]
<1>1. CASE PhoneWrites \/ AdminWrites
  BY <1>1 DEF PhoneWrites, AdminWrites, Upload
<1>2. CASE OtherStep
  BY <1>2 DEF OtherStep, SyncPhone, Download, Replace, Upload, HandlePost, Finish,
              Disconnect, vars
<1> QED BY <1>1, <1>2, StepCases

\* A step keeps the types, and open connections know their device.
LEMMA StepType == TypeInv /\ [Next]_vars => TypeInv'
<1> SUFFICES ASSUME TypeInv, [Next]_vars PROVE TypeInv'
  OBVIOUS
<1>0. TypeOK
  BY DEF TypeInv
<1>1. RoundsTypeOK(ReportLogs)' /\ Connected'
  BY StepRounds, RoundStepType, RoundStepConnected DEF TypeInv, TypeOK
<1>2. /\ writes' \in 0..MaxWrites
      /\ history' \in [Reports -> [Writes -> SUBSET Writes]]
      /\ resolvedAt' \in [Reports -> [Writes -> Screens]]
  <2>1. CASE PhoneWrites
    <3>1. PICK p \in Phones, k \in Reports : Writing(phone[p], phone'[p], {k}, NoScreen)
      BY <2>1 DEF PhoneWrites
    <3>2. phone[p] \in ReportLogs /\ {k} \in SUBSET Reports /\ NoScreen \in Screens
      BY NoScreenType DEF TypeInv, TypeOK
    <3> QED BY <1>0, <3>1, <3>2, WriteType
  <2>2. CASE AdminWrites
    <3>1. PICK ks \in SUBSET Reports, by \in {NoScreen, screen} : Writing(temporary, temporary', ks, by)
      BY <2>2 DEF AdminWrites
    <3>2. by \in Screens /\ temporary \in ReportLogs
      BY NoScreenType DEF TypeInv, TypeOK
    <3> QED BY <1>0, <3>1, <3>2, WriteType
  <2>3. CASE OtherStep
    BY <1>0, <2>3 DEF OtherStep, TypeOK
  <2> QED BY <2>1, <2>2, <2>3, StepCases
<1>3. screen' \in Screens
  <2>1. screen \in Screens /\ MaxScreens \in Nat
    BY <1>0, ReviewAssumption DEF TypeOK
  <2> QED BY <2>1, ScreenStep DEF Screens
<1>4. shown' \subseteq Reports /\ action' \subseteq Reports
  BY <1>0
     DEF TypeOK, Next, SaveIssueReport, SyncPhone, Download, EditNote, Resolve, Upload,
         HandlePost, Finish, Disconnect, Replace, vars, ActiveReports
<1> QED BY <1>1, <1>2, <1>3, <1>4, StepRounds DEF TypeInv, TypeOK

\* Nothing is reported, shown or under way at first.
LEMMA InitType == Init => TypeInv
<1> SUFFICES ASSUME Init PROVE TypeInv
  OBVIOUS
<1>1. RoundsTypeOK(ReportLogs) /\ Connected
  BY DEF Init, RoundsInit, RoundsTypeOK, Connected
<1>2. Empty \in ReportLogs
  BY DEF Empty, ReportLogs
<1>3. 0 \in 0..MaxWrites /\ NoScreen \in Screens
  BY ReviewAssumption, NoScreenType
<1> QED BY <1>1, <1>2, <1>3 DEF Init, TypeInv, TypeOK

\* The inductive form holds always.
LEMMA TypeInvariant == Spec => []TypeInv
BY InitType, StepType, PTL DEF Spec

\* Type correctness.
THEOREM TypeCorrect == Spec => []TypeOK
<1>1. TypeInv => TypeOK
  BY DEF TypeInv
<1> QED BY <1>1, TypeInvariant, PTL

-----------------------------------------------------------------------------
(* Where rows come from *)

Copies == {phone[p] : p \in Phones} \cup {server, temporary} \cup SnapshotsInFlight

\* The copies are logs, and their rows the rows there are.
LEMMA CopyParts ==
  ASSUME TypeInv
  PROVE  /\ Copies \subseteq ReportLogs
         /\ \A p \in Phones : phone[p] \in Copies
         /\ server \in Copies /\ temporary \in Copies
         /\ \A q \in wire : q.body \in Copies
         /\ Answered(Admin) => round[Admin].answer \in Copies /\ round[Admin].body \in Copies
         /\ Waiting(Admin) => round[Admin].body \in Copies
<1>1. SnapshotsInFlight \subseteq ReportLogs
  BY InFlightType DEF TypeInv, TypeOK
<1>2. Admin \in Devices
  BY ReviewAssumption
<1> QED BY <1>1, <1>2 DEF Copies, SnapshotsInFlight, TypeInv, TypeOK
\* Rows of a report are rows, each held by some copy.
LEMMA RowParts ==
  ASSUME TypeInv, NEW k \in Reports
  PROVE  /\ \A x \in RowsOf(k) : x.rev \in Nat /\ x.val \in Writes /\ x \in Rows /\ x # NoRow
         /\ \A s \in Copies : s[k] = NoRow \/ s[k] \in RowsOf(k)
         /\ \A x \in RowsOf(k) : \E s \in Copies : x = s[k]
<1>1. \A x \in RowsOf(k) : x # NoRow /\ \E s \in Copies : x = s[k]
  BY DEF RowsOf, Copies
<1>2. \A s \in Copies : s[k] = NoRow \/ s[k] \in RowsOf(k)
  BY DEF RowsOf, Copies
<1> QED BY <1>1, <1>2, CopyParts, LogParts

\* A step makes no other copies than what a phone, the server or the
\* administrator's file now is.
LEMMA NewCopies ==
  ASSUME TypeInv, [Next]_vars, NEW s \in Copies'
  PROVE  s \in Copies \/ s = server' \/ s = temporary' \/ \E p \in Phones : s = phone'[p]
<1>1. SnapshotsInFlight' \subseteq SnapshotsInFlight \cup {temporary', server'}
  BY StepRounds, RoundStepSnapshots DEF TypeInv, TypeOK
<1> QED BY <1>1 DEF Copies

\* A step other than a write makes no row that is not somewhere already.
LEMMA NoNewRows ==
  ASSUME TypeInv, [Next]_vars, OtherStep, NEW k \in Reports
  PROVE  RowsOf(k)' \subseteq RowsOf(k)
<1> DEFINE Old(row) == row = NoRow \/ row \in RowsOf(k)
<1>0. /\ server \in ReportLogs /\ temporary \in ReportLogs
      /\ \A p \in Phones : phone[p] \in ReportLogs
      /\ \A q \in wire : q.body \in ReportLogs
      /\ \A s \in Copies : Old(s[k])
  BY CopyParts, RowParts
<1> HIDE DEF Old
<1>1. ASSUME NEW p \in Phones, SyncPhone(p)
      PROVE  Old(server'[k]) /\ Old(temporary'[k]) /\ \A r \in Phones : Old(phone'[r][k])
  <2>1. server'[k] \in {server[k], phone[p][k]} /\ server' \in ReportLogs
    BY <1>0, <1>1, MergeKeepsNewer, MergeType DEF SyncPhone
  <2>2. phone'[p] = MergeDocuments(phone[p], server')
        /\ \A r \in Phones : r # p => phone'[r] = phone[r]
    BY <1>1 DEF SyncPhone, TypeInv, TypeOK
  <2>3. phone'[p][k] \in {phone[p][k], server'[k]}
    BY <1>0, <2>1, <2>2, MergeKeepsNewer
  <2> QED BY <1>0, <1>1, <2>1, <2>2, <2>3, CopyParts DEF SyncPhone
<1>2. ASSUME NEW q \in wire, HandlePost(q)
      PROVE  Old(server'[k]) /\ Old(temporary'[k]) /\ \A r \in Phones : Old(phone'[r][k])
  <2>1. server'[k] \in {server[k], q.body[k]}
    BY <1>0, <1>2, MergeKeepsNewer DEF HandlePost
  <2> QED BY <1>0, <1>2, <2>1, CopyParts DEF HandlePost
<1>3. ASSUME Download \/ Finish \/ Disconnect \/ (Upload(action') /\ UNCHANGED temporary)
               \/ UNCHANGED vars
      PROVE  Old(server'[k]) /\ Old(temporary'[k]) /\ \A r \in Phones : Old(phone'[r][k])
  <2>1. /\ server' = server /\ phone' = phone
        /\ temporary' \in Copies
    BY <1>3, CopyParts DEF Download, Finish, Disconnect, Upload, Replace, vars
  <2> QED BY <1>0, <2>1, CopyParts
<1>4. Old(server'[k]) /\ Old(temporary'[k]) /\ \A r \in Phones : Old(phone'[r][k])
  BY <1>1, <1>2, <1>3 DEF OtherStep
<1>5. \A s \in Copies' : Old(s[k])
  BY <1>0, <1>4, NewCopies
<1>6. \A s \in Copies' : s[k] = NoRow \/ s[k] \in RowsOf(k)
  BY <1>5 DEF Old
<1> SUFFICES ASSUME NEW x \in RowsOf(k)' PROVE x \in RowsOf(k)
  OBVIOUS
<1>7. x # NoRow /\ \E s \in Copies' : x = s[k]
  BY DEF RowsOf, Copies
<1> QED BY <1>6, <1>7

-----------------------------------------------------------------------------
(* The causal order of revisions *)

\* Writes that were not made yet are in no history, and every row is a write.
HistoryBounded ==
  \A k \in Reports :
    /\ \A w \in Writes : history[k][w] \subseteq 1..writes
    /\ \A x \in RowsOf(k) : x.val \in 1..writes /\ x.val \in history[k][x.val]

\* The inductive invariant.
HInv == TypeInv /\ HistoryBounded /\ WritesOutrankTheirPast

\* A written row is above all it stands upon, and no history knew it.
LEMMA WriteHistory ==
  ASSUME HInv, TypeInv', NEW log \in Copies, NEW new, NEW ks \in SUBSET Reports,
         NEW by \in Screens, Writing(log, new, ks, by),
         Copies' \subseteq Copies \cup {new}
  PROVE  HistoryBounded' /\ WritesOutrankTheirPast'
<1>1. PICK deleted \in BOOLEAN, now \in Epochs : new = Stamped(log, ks, deleted, now)
  BY DEF Writing
<1>2. log \in ReportLogs
  BY CopyParts DEF HInv
<1>3. writes \in Nat /\ writes' = writes + 1 /\ writes + 1 \in Writes
  BY <1>2, WriteType DEF HInv, TypeInv
<1> SUFFICES ASSUME NEW k \in Reports
             PROVE  /\ \A w \in Writes : history'[k][w] \subseteq 1..writes'
                    /\ \A x \in RowsOf(k)' : /\ x.val \in 1..writes'
                                             /\ x.val \in history'[k][x.val]
                    /\ \A x, y \in RowsOf(k)' :
                         /\ x.val = y.val => x = y
                         /\ x.val \in history'[k][y.val] => x = y \/ x.rev < y.rev
  BY DEF HistoryBounded, WritesOutrankTheirPast
<1> DEFINE old == log[k]
           row == new[k]
<1>4. /\ history[k] \in [Writes -> SUBSET Writes]
      /\ history' [k] = IF k \in ks
                        THEN [history[k] EXCEPT ![writes + 1] = HistoryOf(k, old) \cup {writes + 1}]
                        ELSE history[k]
  BY DEF Writing, Wrote, HInv, TypeInv, TypeOK
<1>5. old = NoRow \/ (old \in RowsOf(k) /\ old \in Rows)
  BY RowParts DEF HInv
<1>6. /\ k \notin ks => row = old
      /\ k \in ks => row.val = writes + 1 /\ row.rev = BumpedRevision(old, now)
  BY <1>1 DEF Stamped
<1>7. /\ BumpedRevision(old, now) \in Nat
      /\ old # NoRow => BumpedRevision(old, now) > old.rev
  BY <1>5, BumpIncreases
<1> HIDE DEF row
<1>8. \A x \in RowsOf(k)' : x \in RowsOf(k) \/ (k \in ks /\ x = row)
  <2>1. \A s \in Copies' : s[k] = NoRow \/ s[k] \in RowsOf(k) \/ (k \in ks /\ s[k] = row)
    BY <1>5, <1>6, RowParts DEF HInv, row
  <2> QED BY <2>1 DEF RowsOf, Copies
<1>9. \A x \in RowsOf(k) : /\ x.val \in 1..writes /\ x.val \in history[k][x.val]
                           /\ x.rev \in Nat /\ x.val # writes + 1 /\ x.val \in Writes
                           /\ history'[k][x.val] = history[k][x.val]
  BY <1>3, <1>4, RowParts DEF HInv, HistoryBounded
<1>10. HistoryOf(k, old) \subseteq 1..writes
  BY <1>5, <1>9 DEF HistoryOf, HInv, HistoryBounded
<1>11. \A w \in Writes : history'[k][w] \subseteq 1..writes'
  BY <1>3, <1>4, <1>10 DEF HInv, HistoryBounded
<1>12. k \in ks => history'[k][row.val] = HistoryOf(k, old) \cup {writes + 1}
  BY <1>3, <1>4, <1>6
<1>13. \A x \in RowsOf(k)' : x.val \in 1..writes' /\ x.val \in history'[k][x.val]
  BY <1>3, <1>6, <1>8, <1>9, <1>12
<1>14. k \in ks => \A x \in RowsOf(k) : x.val \in HistoryOf(k, old) => x.rev < row.rev
  <2> SUFFICES ASSUME k \in ks, NEW x \in RowsOf(k), x.val \in HistoryOf(k, old)
               PROVE  x.rev < row.rev
    OBVIOUS
  <2>1. old # NoRow /\ x.val \in history[k][old.val]
    BY DEF HistoryOf
  <2>2. x = old \/ x.rev < old.rev
    BY <1>5, <2>1 DEF HInv, WritesOutrankTheirPast
  <2>3. old.rev < row.rev /\ row.rev \in Nat /\ old.rev \in Nat
    BY <1>5, <1>6, <1>7, <2>1 DEF Rows, RowSet
  <2> QED BY <1>9, <2>2, <2>3
<1>15. ASSUME NEW x \in RowsOf(k)', NEW y \in RowsOf(k)'
       PROVE  /\ x.val = y.val => x = y
              /\ x.val \in history'[k][y.val] => x = y \/ x.rev < y.rev
  <2>1. CASE x \in RowsOf(k) /\ y \in RowsOf(k)
    BY <1>9, <2>1 DEF HInv, WritesOutrankTheirPast
  <2>2. CASE k \in ks /\ x = row /\ y \in RowsOf(k)
    <3>1. writes + 1 \notin history[k][y.val]
      BY <1>3, <1>9, <2>2 DEF HInv, HistoryBounded
    <3> QED BY <1>6, <1>9, <2>2, <3>1
  <2>3. CASE x \in RowsOf(k) /\ k \in ks /\ y = row
    BY <1>6, <1>9, <1>12, <1>14, <2>3
  <2>4. CASE k \in ks /\ x = row /\ y = row
    BY <2>4
  <2> QED BY <1>8, <2>1, <2>2, <2>3, <2>4
<1> QED BY <1>11, <1>13, <1>15

\* The invariant is inductive.
LEMMA StepHInv == HInv /\ [Next]_vars => HInv'
<1> SUFFICES ASSUME HInv, [Next]_vars PROVE HInv'
  OBVIOUS
<1>1. TypeInv /\ TypeInv'
  BY StepType DEF HInv
<1>2. CASE PhoneWrites
  <2>1. PICK p \in Phones, k \in Reports :
          /\ Writing(phone[p], phone'[p], {k}, NoScreen)
          /\ phone' = [phone EXCEPT ![p] = phone'[p]]
    BY <1>2 DEF PhoneWrites
  <2>2. \A r \in Phones : r # p => phone'[r] = phone[r]
    BY <1>1, <2>1 DEF TypeInv, TypeOK
  <2>3. Copies' \subseteq Copies \cup {phone'[p]}
    BY <1>1, <1>2, <2>2, NewCopies, CopyParts DEF PhoneWrites
  <2>4. {k} \in SUBSET Reports /\ NoScreen \in Screens /\ phone[p] \in Copies
    BY <1>1, NoScreenType, CopyParts
  <2> QED BY <1>1, <2>1, <2>3, <2>4, WriteHistory DEF HInv
<1>3. CASE AdminWrites
  <2>1. PICK ks \in SUBSET Reports, by \in {NoScreen, screen} : Writing(temporary, temporary', ks, by)
    BY <1>3 DEF AdminWrites
  <2>2. Copies' \subseteq Copies \cup {temporary'}
    BY <1>1, <1>3, NewCopies, CopyParts DEF AdminWrites, Upload
  <2>3. by \in Screens /\ temporary \in Copies
    BY <1>1, NoScreenType, CopyParts DEF TypeInv, TypeOK
  <2> QED BY <1>1, <2>1, <2>2, <2>3, WriteHistory DEF HInv
<1>4. CASE OtherStep
  <2>1. \A k \in Reports : RowsOf(k)' \subseteq RowsOf(k)
    BY <1>1, <1>4, NoNewRows
  <2>2. UNCHANGED <<writes, history>>
    BY <1>4 DEF OtherStep
  <2> QED BY <1>1, <2>1, <2>2 DEF HInv, HistoryBounded, WritesOutrankTheirPast
<1> QED BY <1>1, <1>2, <1>3, <1>4, StepCases

\* It holds where no report exists.
LEMMA InitHInv == Init => HInv
<1> SUFFICES ASSUME Init PROVE HInv
  OBVIOUS
<1>1. \A s \in Copies : s = Empty
  BY DEF Copies, SnapshotsInFlight, Init, RoundsInit, Waiting, Answered, NoRound
<1>2. \A k \in Reports : RowsOf(k) = {}
  BY <1>1 DEF RowsOf, Copies, Empty
<1> QED BY <1>2, InitType DEF HInv, Init, HistoryBounded, WritesOutrankTheirPast

\* Whatever the clocks of the phones and of the administrator read, revisions
\* follow what each of them saw.
THEOREM ReviewHistoryCorrect == Spec => []WritesOutrankTheirPast
<1>1. HInv => WritesOutrankTheirPast
  BY DEF HInv
<1> QED BY <1>1, InitHInv, StepHInv, PTL DEF Spec

-----------------------------------------------------------------------------
(* The alarm *)

\* The list shows what the copy holds; while an upload is under way, the copy
\* is what was uploaded, with the reports that are to be resolved deleted; and
\* an answer that shows one of them active shows a newer row.
UploadInv ==
  /\ \A k \in shown : temporary[k] # NoRow
  /\ Waiting(Admin) \/ Answered(Admin) =>
       /\ round[Admin].body = temporary
       /\ \A k \in action : temporary[k] # NoRow /\ temporary[k].del
  /\ Answered(Admin) =>
       /\ \A k \in Reports : temporary[k] # NoRow => round[Admin].answer[k] # NoRow
       /\ \A k \in Unretained(round[Admin].answer) :
            temporary[k].rev < round[Admin].answer[k].rev

\* What the administrator sees and waits for is not touched by other steps.
LEMMA UploadUntouched ==
  ASSUME UploadInv, UNCHANGED <<temporary, shown, action>>, round'[Admin] = round[Admin]
  PROVE  UploadInv'
BY DEF UploadInv, Waiting, Answered, Unretained, ActiveReports, Active

\* The invariant is inductive.
LEMMA StepUpload ==
  ASSUME TypeInv, UploadInv, [Next]_vars
  PROVE  UploadInv'
<1>0. /\ Admin \in Devices /\ temporary \in ReportLogs /\ server \in ReportLogs
      /\ RoundsTypeOK(ReportLogs) /\ action \subseteq Reports /\ shown \subseteq Reports
  BY ReviewAssumption DEF TypeInv, TypeOK
<1>1. CASE \/ \E k \in Reports, now \in Epochs : EditNote(k, now)
           \/ \E ks \in SUBSET Reports, now \in Epochs : Resolve(ks, now)
  <2>1. Upload(action')
    BY <1>1, AdminCalls DEF AdminWrites
  <2>2. /\ shown' = shown
        /\ round'[Admin] = [phase |-> "waiting", try |-> 1, body |-> temporary']
    BY <1>0, <2>1 DEF Upload, Post, RoundsTypeOK
  <2>3. \A k \in shown : temporary'[k] # NoRow
    BY <1>0, <1>1, AdminCalls DEF UploadInv
  <2>4. \A k \in action' : temporary'[k] # NoRow /\ temporary'[k].del
    BY <1>1, <2>3, AdminCalls DEF UploadInv
  <2> QED BY <2>2, <2>3, <2>4 DEF UploadInv, Waiting, Answered
<1>2. CASE \/ \E p \in Phones, k \in Reports, now \in Epochs : SaveIssueReport(p, k, now)
           \/ \E p \in Phones : SyncPhone(p)
           \/ UNCHANGED vars
  <2>1. UNCHANGED <<temporary, shown, action, round>>
    BY <1>2 DEF SaveIssueReport, SyncPhone, vars
  <2> QED BY <2>1, UploadUntouched
<1>3. CASE Download
  <2>1. /\ round' = round /\ round[Admin] = NoRound
        /\ temporary' = server /\ shown' = ActiveReports(server)
    BY <1>3 DEF Download, Replace
  <2> QED BY <2>1 DEF UploadInv, Waiting, Answered, NoRound, ActiveReports, Active
<1>4. ASSUME NEW q \in wire, HandlePost(q) PROVE UploadInv'
  <2>1. UNCHANGED <<temporary, shown, action>> /\ server' = MergeDocuments(server, q.body)
        /\ Answer(q, server')
    BY <1>4 DEF HandlePost
  <2>2. CASE UNCHANGED round
    BY <2>1, <2>2, UploadUntouched
  <2>3. CASE /\ q.live
             /\ round' = [round EXCEPT ![q.dev] = [phase  |-> "answered",
                                                   body   |-> round[q.dev].body,
                                                   answer |-> server']]
    <3>1. q.dev = Admin /\ q.body \in ReportLogs
      BY <1>0, ReviewAssumption DEF RoundsTypeOK
    <3>2. Waiting(Admin) /\ q.body = round[Admin].body
      BY <2>3, <3>1 DEF TypeInv, Connected
    <3>3. q.body = temporary /\ \A k \in action : temporary[k] # NoRow /\ temporary[k].del
      BY <3>2 DEF UploadInv
    <3>4. round'[Admin] = [phase |-> "answered", body |-> temporary, answer |-> server']
      BY <1>0, <2>3, <3>1, <3>2, <3>3 DEF RoundsTypeOK
    <3>5. \A k \in Reports : temporary[k] # NoRow => server'[k] # NoRow
      BY <1>0, <2>1, <3>3, MergeKeepsNewer
    <3>6. ASSUME NEW k \in action, Active(server'[k]) PROVE temporary[k].rev < server'[k].rev
      BY <1>0, <2>1, <3>3, <3>6, ActiveIsNewer
    <3> QED BY <2>1, <3>3, <3>4, <3>5, <3>6
            DEF UploadInv, Waiting, Answered, Unretained, ActiveReports
  <2> QED BY <2>1, <2>2, <2>3 DEF Answer
<1>5. CASE Finish
  <2>1. /\ Answered(Admin) /\ temporary' = round[Admin].answer
        /\ round'[Admin] = NoRound
        /\ shown' = shown \/ shown' = ActiveReports(round[Admin].answer)
    BY <1>0, <1>5 DEF Finish, Replace, Conclude, RoundsTypeOK
  <2>2. \A k \in shown' : temporary'[k] # NoRow
    BY <1>0, <2>1 DEF UploadInv, ActiveReports, Active
  <2> QED BY <2>1, <2>2 DEF UploadInv, Waiting, Answered, NoRound
<1>6. CASE Disconnect
  <2>1. UNCHANGED <<temporary, shown, action>>
    BY <1>6 DEF Disconnect
  <2>2. CASE GiveUp(Admin)
    <3>1. round'[Admin] = NoRound
      BY <1>0, <2>2 DEF GiveUp, RoundsTypeOK
    <3> QED BY <2>1, <3>1 DEF UploadInv, Waiting, Answered, NoRound
  <2>3. CASE TryNextAddress(Admin)
    <3>1. /\ Waiting(Admin) /\ round[Admin].try < Addresses
          /\ round'[Admin] = [round[Admin] EXCEPT !.try = @ + 1]
      BY <1>0, <2>3 DEF TryNextAddress, RoundsTypeOK
    <3>2. round'[Admin].phase = "waiting" /\ round'[Admin].body = round[Admin].body
      BY <1>0, <3>1, NextTry
    <3> QED BY <2>1, <3>1, <3>2 DEF UploadInv, Waiting, Answered
  <2> QED BY <1>6, <2>2, <2>3 DEF Disconnect
<1> QED BY <1>1, <1>2, <1>3, <1>4, <1>5, <1>6 DEF Next

\* The alarm that the server did not retain a resolution is only raised for a
\* report that was saved without knowledge of what was uploaded, or after it.
THEOREM AlarmCorrect == Spec => []AlarmMeansReopened
<1> DEFINE AInv == HInv /\ UploadInv
<1>1. Init => AInv
  <2> SUFFICES ASSUME Init PROVE UploadInv
    BY InitHInv
  <2>1. shown = {} /\ ~Waiting(Admin) /\ ~Answered(Admin)
    BY ReviewAssumption DEF Init, RoundsInit, NoRound, Waiting, Answered
  <2> QED BY <2>1 DEF UploadInv
<1>2. AInv /\ [Next]_vars => AInv'
  BY StepHInv, StepUpload DEF HInv
<1>3. AInv => AlarmMeansReopened
  <2> SUFFICES ASSUME AInv, Answered(Admin), NEW k \in Unretained(round[Admin].answer),
                      round[Admin].answer[k].val \in history[k][round[Admin].body[k].val]
               PROVE  FALSE
    BY DEF AlarmMeansReopened
  <2> DEFINE x == round[Admin].answer[k]
             y == round[Admin].body[k]
  <2>1. k \in Reports /\ k \in action /\ x # NoRow
    BY DEF Unretained, ActiveReports, Active
  <2>2. y # NoRow /\ y.rev < x.rev
    BY <2>1 DEF UploadInv
  <2>3. x \in RowsOf(k) /\ y \in RowsOf(k)
    BY <2>1, <2>2, CopyParts, RowParts DEF HInv
  <2>4. x.rev \in Nat /\ y.rev \in Nat
    BY <2>1, <2>3, RowParts DEF HInv
  <2>5. x = y \/ x.rev < y.rev
    BY <2>1, <2>3 DEF HInv, WritesOutrankTheirPast
  <2> HIDE DEF x, y
  <2> QED BY <2>2, <2>4, <2>5
<1> QED BY <1>1, <1>2, <1>3, PTL DEF Spec

-----------------------------------------------------------------------------
(* Resolutions *)

\* A report is resolved at a screen at most once: while no list and no alarm
\* come, the copy is not replaced, and the report is not active in it again.
ResolvedInv ==
  \A k \in Reports :
    /\ \A w \in Writes :
         /\ resolvedAt[k][w].lists <= screen.lists /\ resolvedAt[k][w].alarms <= screen.alarms
         /\ w > writes => resolvedAt[k][w] = NoScreen
         /\ resolvedAt[k][w] = screen /\ screen # NoScreen => ~Active(temporary[k])
    /\ \A w1, w2 \in Writes :
         resolvedAt[k][w1] = resolvedAt[k][w2] /\ resolvedAt[k][w1] # NoScreen => w1 = w2

\* The invariant is inductive.
LEMMA StepResolved ==
  ASSUME TypeInv, ResolvedInv, [Next]_vars
  PROVE  ResolvedInv'
<1>0. /\ screen \in Screens /\ writes \in Nat
      /\ resolvedAt \in [Reports -> [Writes -> Screens]]
      /\ MaxScreens \in Nat /\ Writes \subseteq Nat
  BY ReviewAssumption DEF TypeInv, TypeOK, Writes
<1> SUFFICES ASSUME NEW k \in Reports
             PROVE  /\ \A w \in Writes :
                         /\ resolvedAt'[k][w].lists <= screen'.lists
                         /\ resolvedAt'[k][w].alarms <= screen'.alarms
                         /\ w > writes' => resolvedAt'[k][w] = NoScreen
                         /\ resolvedAt'[k][w] = screen' /\ screen' # NoScreen =>
                              ~Active(temporary'[k])
                    /\ \A w1, w2 \in Writes :
                         resolvedAt'[k][w1] = resolvedAt'[k][w2] /\ resolvedAt'[k][w1] # NoScreen =>
                           w1 = w2
  BY DEF ResolvedInv, Active
<1>1. /\ \A w \in Writes : resolvedAt[k][w] \in Screens
      /\ \A s \in Screens : s.lists \in Nat /\ s.alarms \in Nat
  BY <1>0 DEF Screens
<1>2. ASSUME NEW log, NEW new, NEW ks, NEW by \in {NoScreen, screen}, Writing(log, new, ks, by)
      PROVE  /\ writes' = writes + 1
             /\ \A w \in Writes : resolvedAt'[k][w] =
                  IF k \in ks /\ w = writes + 1 THEN by ELSE resolvedAt[k][w]
  BY <1>0, <1>2 DEF Writing, Wrote
<1>3. CASE PhoneWrites
  <2>1. PICK p \in Phones, j \in Reports : Writing(phone[p], phone'[p], {j}, NoScreen)
    BY <1>3 DEF PhoneWrites
  <2>2. UNCHANGED <<temporary, screen>>
    BY <1>3 DEF PhoneWrites
  <2>3. /\ writes' = writes + 1
        /\ \A w \in Writes : resolvedAt'[k][w] \in {resolvedAt[k][w], NoScreen}
        /\ \A w \in Writes : w # writes + 1 => resolvedAt'[k][w] = resolvedAt[k][w]
        /\ \A w \in Writes : w = writes + 1 => resolvedAt'[k][w] = NoScreen
    BY <1>0, <1>2, <2>1 DEF ResolvedInv
  <2>4. NoScreen.lists = 0 /\ NoScreen.alarms = 0
    BY DEF NoScreen
  <2> QED BY <1>0, <1>1, <2>2, <2>3, <2>4 DEF ResolvedInv
<1>4. CASE AdminWrites
  <2>1. PICK ks \in SUBSET Reports, by \in {NoScreen, screen} :
          /\ Writing(temporary, temporary', ks, by)
          /\ \A j \in ks : by # NoScreen => Active(temporary[j]) /\ ~Active(temporary'[j])
    BY <1>4 DEF AdminWrites
  <2>2. screen' = screen /\ (Active(temporary'[k]) => Active(temporary[k]))
    BY <1>4 DEF AdminWrites, Upload
  <2>3. /\ writes' = writes + 1
        /\ \A w \in Writes : resolvedAt'[k][w] =
             IF k \in ks /\ w = writes + 1 THEN by ELSE resolvedAt[k][w]
    BY <1>2, <2>1
  <2>4. k \in ks /\ by # NoScreen => \A w \in Writes : resolvedAt[k][w] # by
    BY <2>1 DEF ResolvedInv
  <2>5. by.lists <= screen.lists /\ by.alarms <= screen.alarms
    BY <1>0, <1>1, <2>1 DEF NoScreen
  <2> QED BY <1>0, <1>1, <2>1, <2>2, <2>3, <2>4, <2>5 DEF ResolvedInv
<1>5. CASE OtherStep
  <2>1. UNCHANGED <<writes, resolvedAt>>
    BY <1>5 DEF OtherStep
  <2>2. CASE screen' = screen
    <3>1. UNCHANGED temporary
      BY <1>0, <1>1, <1>5, <2>2
         DEF OtherStep, SyncPhone, Download, Replace, Upload, HandlePost, Finish,
             Disconnect, vars, Screens
    <3> QED BY <2>1, <2>2, <3>1 DEF ResolvedInv
  <2>3. CASE \/ screen' = [screen EXCEPT !.alarms = @ + 1]
             \/ screen' = [screen EXCEPT !.lists = @ + 1]
    <3>1. /\ screen.lists <= screen'.lists /\ screen.alarms <= screen'.alarms
          /\ screen.lists < screen'.lists \/ screen.alarms < screen'.alarms
          /\ screen'.lists \in Nat /\ screen'.alarms \in Nat
      BY <1>0, <2>3 DEF Screens
    <3>2. \A w \in Writes : /\ resolvedAt[k][w].lists <= screen.lists
                            /\ resolvedAt[k][w].alarms <= screen.alarms
      BY DEF ResolvedInv
    <3>3. \A w \in Writes : /\ resolvedAt[k][w].lists <= screen'.lists
                            /\ resolvedAt[k][w].alarms <= screen'.alarms
                            /\ resolvedAt[k][w] # screen'
      BY <1>0, <1>1, <3>1, <3>2
    <3> QED BY <2>1, <3>3 DEF ResolvedInv
  <2> QED BY <2>2, <2>3, ScreenStep
<1> QED BY <1>3, <1>4, <1>5, StepCases

\* Repeating a resolution whose answer was lost resolves nothing twice, unless
\* the alarm was raised between the two.
THEOREM RetryCorrect == Spec => RetryResolvesOnce
<1> DEFINE RInv == HInv /\ ResolvedInv
           Once == \A k \in Reports :
                     Active(server[k]) /\ server'[k].del =>
                       \A w \in history[k][server[k].val] :
                         LET first == resolvedAt[k][w]
                             again == resolvedAt[k][server'[k].val]
                         IN  first # NoScreen /\ first.lists = again.lists =>
                               first.alarms # again.alarms
<1>1. Init => RInv
  <2> SUFFICES ASSUME Init PROVE ResolvedInv
    BY InitHInv
  <2>1. \A k \in Reports, w \in Writes : resolvedAt[k][w] = screen /\ screen = NoScreen
    BY DEF Init
  <2>2. NoScreen.lists <= NoScreen.lists /\ NoScreen.alarms <= NoScreen.alarms
    BY DEF NoScreen
  <2> QED BY <2>1, <2>2 DEF ResolvedInv
<1>2. RInv /\ [Next]_vars => RInv'
  BY StepHInv, StepResolved DEF HInv
<1>3. RInv /\ [Next]_vars => [Once]_vars
  <2> SUFFICES ASSUME RInv, [Next]_vars, NEW k \in Reports,
                      Active(server[k]), server'[k].del,
                      NEW w \in history[k][server[k].val],
                      resolvedAt[k][w] # NoScreen,
                      resolvedAt[k][w].lists = resolvedAt[k][server'[k].val].lists,
                      resolvedAt[k][w].alarms = resolvedAt[k][server'[k].val].alarms
               PROVE  FALSE
    OBVIOUS
  <2> DEFINE x == server'[k]
             y == server[k]
  <2>1. y # NoRow /\ ~y.del /\ y \in RowsOf(k)
    BY CopyParts, RowParts DEF HInv, Active
  <2>2. x # y
    BY <2>1
  <2>3. PICK in \in Copies : x = MergeRow(TableOf(k), y, in[k])
    <3>1. server' = server \/ \E in \in Copies : server' = MergeDocuments(server, in)
      BY StepCases, CopyParts
         DEF PhoneWrites, AdminWrites, OtherStep, SyncPhone, Download, Upload, HandlePost,
             Finish, Disconnect, vars, HInv
    <3>2. PICK in \in Copies : server' = MergeDocuments(server, in)
      BY <2>2, <3>1
    <3> QED BY <3>2, CopyParts, MergeKeepsNewer DEF HInv
  <2>4. x = in[k] /\ x # NoRow /\ Supersedes(TableOf(k), x, y)
    BY <2>1, <2>2, <2>3 DEF MergeRow
  <2>5. x \in RowsOf(k)
    BY <2>4, RowParts DEF HInv
  <2>6. x.rev \in Nat /\ y.rev \in Nat /\ x.val \in Writes /\ y.val \in Writes
    BY <2>1, <2>5, RowParts DEF HInv
  <2>7. ~(x.rev < y.rev)
    BY <2>4, <2>6 DEF Supersedes
  <2>8. w \in Writes
    BY <2>6 DEF HInv, TypeInv, TypeOK
  <2>9. w = x.val
    <3>1. resolvedAt[k][w] \in Screens /\ resolvedAt[k][x.val] \in Screens
      BY <2>6, <2>8 DEF HInv, TypeInv, TypeOK
    <3>2. resolvedAt[k][w] = resolvedAt[k][x.val]
      BY <3>1 DEF Screens
    <3> QED BY <2>6, <2>8, <3>2 DEF ResolvedInv
  <2> QED BY <2>1, <2>2, <2>5, <2>7, <2>9 DEF HInv, WritesOutrankTheirPast
<1> QED BY <1>1, <1>2, <1>3, PTL DEF Spec, RetryResolvesOnce
=============================================================================
