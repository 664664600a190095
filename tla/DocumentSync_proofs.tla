------------------------ MODULE DocumentSync_proofs ------------------------
(***************************************************************************)
(* Proofs about DocumentSync, for any number of devices, documents, writes *)
(* and addresses.                                                          *)
(***************************************************************************)
EXTENDS DocumentSync, SnapshotRounds_proofs

-----------------------------------------------------------------------------
(* Lemmas on the merge rules *)

\* A merged row is one of the two rows that met.
LEMMA MergeRowIsEither ==
  ASSUME NEW t, NEW loc, NEW in
  PROVE  MergeRow(t, loc, in) \in {loc, in}
BY DEF MergeRow

\* Merging two databases gives a database.
LEMMA MergeDocumentsType ==
  ASSUME NEW a \in Documents, NEW b \in Documents
  PROVE  /\ MergeDocuments(a, b) \in Documents
         /\ \A k \in Keys : MergeDocuments(a, b)[k] = MergeRow(TableOf(k), a[k], b[k])
BY MergeRowIsEither DEF MergeDocuments, Documents

\* The stamp of a save is a revision above the one it replaces.
LEMMA BumpIncreases ==
  ASSUME NEW old \in Rows \cup {NoRow}, NEW now \in Epochs
  PROVE  /\ BumpedRevision(old, now) \in Nat
         /\ old # NoRow => BumpedRevision(old, now) > old.rev
BY DocumentAssumption DEF BumpedRevision, Rows, RowSet, Epochs

-----------------------------------------------------------------------------
(* Type correctness *)

\* A write keeps the types: one proof for the seven kinds of edit.
LEMMA WriteType ==
  ASSUME TypeOK,
         NEW d \in Devices, NEW ks \in SUBSET Keys,
         NEW deleted \in BOOLEAN, NEW now \in Epochs,
         Write(d, ks, deleted, now)
  PROVE  TypeOK'
<1> USE DocumentAssumption, RoundsAssumption
<1>1. writes \in Nat /\ writes + 1 \in Writes /\ writes' \in 0..MaxWrites
  BY DEF TypeOK, Write, Writes
<1>2. ASSUME NEW k \in Keys
      PROVE  [rev |-> BumpedRevision(db[d][k], now), del |-> deleted,
              val |-> writes + 1] \in Rows
  <2>1. db[d][k] \in Rows \cup {NoRow}
    BY DEF TypeOK, Documents
  <2> QED BY <2>1, <1>1, BumpIncreases DEF Rows, RowSet
<1>3. db' \in [Devices -> Documents]
  BY <1>2 DEF TypeOK, Write, Documents
<1>4. ASSUME NEW k \in Keys
      PROVE  HistoryOf(k, db[d][k]) \in SUBSET Writes
  BY DEF TypeOK, HistoryOf, Documents, Rows, RowSet
<1>5. history' \in [Keys -> [Writes -> SUBSET Writes]]
  BY <1>1, <1>4 DEF TypeOK, Write
<1> QED BY <1>1, <1>3, <1>5 DEF TypeOK, Write, RoundsTypeOK

\* Every edit is a write of some rows.
LEMMA EditIsWrite ==
  ASSUME NEW d \in Devices, Edit(d)
  PROVE  \E ks \in SUBSET Keys, deleted \in BOOLEAN, now \in Epochs :
           Write(d, ks, deleted, now)
BY DEF Edit, OptimizeTutorGlossOverrides, ActiveGlosses, SetStudyState, SetCommentaryNote,
       DeleteCommentaryNote, SaveIssueReport, SetTutorGlossOverride,
       SetLexiconEntryOverride, SetMemorySettings, AddMemoryPassage, DeleteMemoryPassage

\* Every step does to the rounds what SnapshotRounds says.
LEMMA StepRounds ==
  ASSUME TypeOK, [Next]_vars
  PROVE  /\ RoundStep(Documents)
         /\ server' \in Documents
<1>0. RoundsTypeOK(Documents) /\ server \in Documents /\ db \in [Devices -> Documents]
  BY DEF TypeOK
<1>1. ASSUME NEW d \in Devices, Edit(d) PROVE RoundStep(Documents) /\ server' \in Documents
  BY <1>0, <1>1, EditIsWrite DEF Write, RoundStep, roundVars
<1>2. ASSUME NEW d \in Devices, StartRound(d)
      PROVE  RoundStep(Documents) /\ server' \in Documents
  BY <1>0, <1>2 DEF StartRound, RoundStep
<1>3. ASSUME NEW q \in wire, HandlePost(q)
      PROVE  RoundStep(Documents) /\ server' \in Documents
  <2>1. q.body \in Documents
    BY <1>0 DEF RoundsTypeOK
  <2>2. server' \in Documents /\ Answer(q, server')
    BY <1>0, <1>3, <2>1, MergeDocumentsType DEF HandlePost
  <2> QED BY <2>2 DEF RoundStep
<1>4. ASSUME NEW d \in Devices, MergeAnswer(d) \/ Disconnect(d)
      PROVE  RoundStep(Documents) /\ server' \in Documents
  BY <1>0, <1>4 DEF MergeAnswer, Disconnect, RoundStep
<1>5. CASE UNCHANGED vars
  BY <1>0, <1>5 DEF vars, RoundStep, roundVars
<1> QED BY <1>1, <1>2, <1>3, <1>4, <1>5 DEF Next

\* A step keeps the types, and open connections know their device.
LEMMA StepType ==
  ASSUME TypeOK, Connected, [Next]_vars
  PROVE  TypeOK' /\ Connected'
<1>1. RoundsTypeOK(Documents) /\ RoundStep(Documents) /\ server' \in Documents
  BY StepRounds DEF TypeOK
<1>2. RoundsTypeOK(Documents)' /\ Connected'
  BY <1>1, RoundStepType, RoundStepConnected
<1>3. CASE \E d \in Devices : Edit(d)
  BY <1>2, <1>3, EditIsWrite, WriteType
<1>4. ASSUME NEW d \in Devices, MergeAnswer(d) PROVE db' \in [Devices -> Documents]
  <2>1. round[d].answer \in Documents
    BY <1>1, <1>4, RoundShapes DEF MergeAnswer
  <2> QED BY <1>4, <2>1, MergeDocumentsType DEF MergeAnswer, TypeOK
<1>5. CASE [Next]_vars /\ ~\E d \in Devices : Edit(d)
  <2>1. db' \in [Devices -> Documents]
    BY <1>4, <1>5 DEF Next, StartRound, HandlePost, Disconnect, vars, TypeOK
  <2>2. UNCHANGED <<writes, history>>
    BY <1>5 DEF Next, StartRound, HandlePost, MergeAnswer, Disconnect, vars
  <2> QED BY <1>1, <1>2, <2>1, <2>2 DEF TypeOK
<1> QED BY <1>3, <1>5

\* The first state has the types, and nothing is under way in it.
LEMMA InitType == Init => TypeOK /\ Connected
BY DocumentAssumption, RoundsAssumption
   DEF Init, TypeOK, RoundsInit, RoundsTypeOK, Documents, Empty, Writes, Connected

\* Type correctness; it rests on open connections knowing their device.
THEOREM TypeCorrect == Spec => []TypeOK
<1>1. Spec => [](TypeOK /\ Connected)
  BY InitType, StepType, PTL DEF Spec
<1> QED BY <1>1, PTL

-----------------------------------------------------------------------------
(* Where rows come from *)

\* Exporting and disconnecting make no new snapshot; the server's merge makes
\* its own new database only, and a device's merge or save only its own.
LEMMA NewCopies ==
  ASSUME TypeOK, Connected, Next, NEW s \in Copies'
  PROVE  s \in Copies \/ s = server' \/ \E d \in Devices : s = db'[d]
<1> DEFINE New == Copies \cup {server'}
<1>1. RoundStep(New)
  <2>1. ASSUME NEW d \in Devices, Edit(d) PROVE RoundStep(New)
    BY <2>1, EditIsWrite DEF Write, RoundStep, roundVars
  <2>2. ASSUME NEW d \in Devices, StartRound(d) PROVE RoundStep(New)
    BY <2>2 DEF StartRound, RoundStep, Copies
  <2>3. ASSUME NEW q \in wire, HandlePost(q) PROVE RoundStep(New)
    BY <2>3 DEF HandlePost, RoundStep
  <2>4. ASSUME NEW d \in Devices, MergeAnswer(d) \/ Disconnect(d) PROVE RoundStep(New)
    BY <2>4 DEF MergeAnswer, Disconnect, RoundStep
  <2> QED BY <2>1, <2>2, <2>3, <2>4 DEF Next
<1> HIDE DEF New
<1>2. SnapshotsInFlight' \subseteq SnapshotsInFlight \cup New
  BY <1>1, RoundStepSnapshots DEF TypeOK
<1> QED BY <1>2 DEF Copies, New

\* A step other than an edit makes no row that is not somewhere already.
LEMMA NoNewRows ==
  ASSUME TypeOK, Connected, Next, ~\E d \in Devices : Edit(d), NEW k \in Keys
  PROVE  /\ RowsOf(k)' \subseteq RowsOf(k)
         /\ UNCHANGED <<writes, history>>
<1>1. \A t \in Copies : t[k] = NoRow \/ t[k] \in RowsOf(k)
  BY DEF RowsOf
<1>2. server \in Copies /\ \A d \in Devices : db[d] \in Copies
  BY DEF Copies
<1>3. \A q \in wire : q.body \in Copies /\ q.body \in Documents
  BY DEF Copies, SnapshotsInFlight, TypeOK, RoundsTypeOK
<1>4. \A d \in Devices : Answered(d) =>
        round[d].answer \in Copies /\ round[d].answer \in Documents
  BY RoundShapes DEF Copies, SnapshotsInFlight, TypeOK
<1>5. server'[k] = NoRow \/ server'[k] \in RowsOf(k)
  <2>1. CASE server' = server
    BY <1>1, <1>2, <2>1
  <2>2. ASSUME NEW q \in wire, HandlePost(q)
        PROVE  server'[k] = NoRow \/ server'[k] \in RowsOf(k)
    <3>1. server'[k] \in {server[k], q.body[k]}
      BY <1>3, <2>2, MergeDocumentsType, MergeRowIsEither DEF HandlePost, TypeOK
    <3> QED BY <1>1, <1>2, <1>3, <3>1
  <2> QED BY <2>1, <2>2 DEF Next, StartRound, MergeAnswer, Disconnect
<1>6. ASSUME NEW d \in Devices
      PROVE  db'[d][k] = NoRow \/ db'[d][k] \in RowsOf(k)
  <2>1. CASE db'[d] = db[d]
    BY <1>1, <1>2, <2>1
  <2>2. CASE MergeAnswer(d)
    <3>1. db'[d] = MergeDocuments(db[d], round[d].answer)
      BY <2>2 DEF MergeAnswer, TypeOK
    <3>2. db'[d][k] \in {db[d][k], round[d].answer[k]}
      BY <1>4, <2>2, <3>1, MergeDocumentsType, MergeRowIsEither DEF MergeAnswer, TypeOK
    <3> QED BY <1>1, <1>2, <1>4, <2>2, <3>2 DEF MergeAnswer
  <2> QED BY <2>1, <2>2 DEF Next, StartRound, HandlePost, MergeAnswer, Disconnect, TypeOK
<1>7. \A s \in Copies' : s[k] = NoRow \/ s[k] \in RowsOf(k)
  BY <1>1, <1>5, <1>6, NewCopies
<1>8. UNCHANGED <<writes, history>>
  BY DEF Next, StartRound, HandlePost, MergeAnswer, Disconnect
<1> QED BY <1>7, <1>8 DEF RowsOf

-----------------------------------------------------------------------------
(* The causal order of revisions *)

\* Writes that were not made yet are in no history, and every row is a write.
HistoryBounded ==
  \A k \in Keys :
    /\ \A w \in Writes : history[k][w] \subseteq 1..writes
    /\ \A x \in RowsOf(k) : x.val \in 1..writes /\ x.val \in history[k][x.val]

\* The inductive invariant.
IInv == TypeOK /\ Connected /\ HistoryBounded /\ RevisionsFollowHistory

\* The rows anywhere are rows.
LEMMA RowsOfType ==
  ASSUME TypeOK, NEW k \in Keys
  PROVE  RowsOf(k) \subseteq Rows
<1>1. Copies \subseteq Documents
  <2>1. \A q \in wire : q.body \in Documents
    BY DEF TypeOK, RoundsTypeOK
  <2> QED BY <2>1, RoundShapes DEF Copies, SnapshotsInFlight, TypeOK
<1> QED BY <1>1 DEF RowsOf, Documents

\* An edit's row is above all it stands upon, and no history knew it.
LEMMA EditHistory ==
  ASSUME IInv, NEW d \in Devices, Edit(d)
  PROVE  HistoryBounded' /\ RevisionsFollowHistory'
<1>1. PICK ks \in SUBSET Keys, deleted \in BOOLEAN, now \in Epochs :
        Write(d, ks, deleted, now)
  BY EditIsWrite
<1>2. writes \in Nat /\ writes' = writes + 1 /\ writes + 1 \in Writes
  BY <1>1, DocumentAssumption DEF Write, IInv, TypeOK, Writes
<1> SUFFICES ASSUME NEW k \in Keys
             PROVE  /\ \A w \in Writes : history'[k][w] \subseteq 1..writes'
                    /\ \A x \in RowsOf(k)' : /\ x.val \in 1..writes'
                                             /\ x.val \in history'[k][x.val]
                    /\ \A x, y \in RowsOf(k)' :
                         /\ x.val = y.val => x = y
                         /\ x.val \in history'[k][y.val] => x = y \/ x.rev < y.rev
  BY DEF HistoryBounded, RevisionsFollowHistory
<1> DEFINE old == db[d][k]
           new == [rev |-> BumpedRevision(old, now), del |-> deleted, val |-> writes + 1]
<1>3. /\ history[k] \in [Writes -> SUBSET Writes]
      /\ history' [k] = IF k \in ks
                        THEN [history[k] EXCEPT ![writes + 1] = HistoryOf(k, old) \cup {writes + 1}]
                        ELSE history[k]
  BY <1>1 DEF Write, IInv, TypeOK
<1>4. \A t \in Copies : t[k] = NoRow \/ t[k] \in RowsOf(k)
  BY DEF RowsOf
<1>5. old = NoRow \/ (old \in RowsOf(k) /\ old \in Rows)
  BY <1>4, RowsOfType DEF Copies, IInv
<1>6. \A s \in Copies' : s[k] = NoRow \/ s[k] \in RowsOf(k) \/ (k \in ks /\ s[k] = new)
  <2>1. server' = server
    BY <1>1 DEF Write
  <2>2. \A e \in Devices : db'[e][k] = db[e][k] \/ (k \in ks /\ db'[e][k] = new)
    BY <1>1 DEF Write, IInv, TypeOK
  <2> QED BY <1>4, <2>1, <2>2, NewCopies DEF Copies, IInv, Next
<1>7. \A x \in RowsOf(k)' : x \in RowsOf(k) \/ (k \in ks /\ x = new)
  BY <1>6 DEF RowsOf
<1>8. \A x \in RowsOf(k) : /\ x.val \in 1..writes /\ x.val \in history[k][x.val]
                           /\ x.rev \in Nat /\ x.val # writes + 1 /\ x.val \in Writes
                           /\ history'[k][x.val] = history[k][x.val]
  BY <1>2, <1>3, RowsOfType DEF IInv, HistoryBounded, Rows, RowSet
<1>9. HistoryOf(k, old) \subseteq 1..writes
  BY <1>5, <1>8 DEF HistoryOf, IInv, HistoryBounded
<1>10. \A w \in Writes : history'[k][w] \subseteq 1..writes'
  BY <1>2, <1>3, <1>9 DEF IInv, HistoryBounded
<1>11. k \in ks => history'[k][new.val] = HistoryOf(k, old) \cup {writes + 1}
  BY <1>2, <1>3
<1>12. \A x \in RowsOf(k)' : x.val \in 1..writes' /\ x.val \in history'[k][x.val]
  BY <1>2, <1>7, <1>8, <1>11
<1>13. \A x \in RowsOf(k) : x.val \in HistoryOf(k, old) => x.rev < new.rev
  <2> SUFFICES ASSUME NEW x \in RowsOf(k), x.val \in HistoryOf(k, old)
               PROVE  x.rev < new.rev
    OBVIOUS
  <2>1. old # NoRow /\ x.val \in history[k][old.val]
    BY DEF HistoryOf
  <2>2. x = old \/ x.rev < old.rev
    BY <1>5, <2>1 DEF IInv, RevisionsFollowHistory
  <2>3. old.rev < new.rev /\ new.rev \in Nat /\ old.rev \in Nat
    BY <1>5, <2>1, BumpIncreases DEF Rows, RowSet
  <2> QED BY <1>8, <2>2, <2>3
<1>14. ASSUME NEW x \in RowsOf(k)', NEW y \in RowsOf(k)'
       PROVE  /\ x.val = y.val => x = y
              /\ x.val \in history'[k][y.val] => x = y \/ x.rev < y.rev
  <2>1. CASE x \in RowsOf(k) /\ y \in RowsOf(k)
    BY <1>8, <2>1 DEF IInv, RevisionsFollowHistory
  <2>2. CASE k \in ks /\ x = new /\ y \in RowsOf(k)
    <3>1. writes + 1 \notin history[k][y.val]
      BY <1>2, <1>8, <2>2 DEF IInv, HistoryBounded
    <3> QED BY <1>8, <2>2, <3>1
  <2>3. CASE x \in RowsOf(k) /\ k \in ks /\ y = new
    BY <1>8, <1>11, <1>13, <2>3
  <2>4. CASE k \in ks /\ x = new /\ y = new
    BY <2>4
  <2> QED BY <1>7, <2>1, <2>2, <2>3, <2>4
<1> QED BY <1>10, <1>12, <1>14

\* The invariant is inductive.
LEMMA StepIInv == IInv /\ [Next]_vars => IInv'
<1> SUFFICES ASSUME IInv, [Next]_vars PROVE IInv'
  OBVIOUS
<1>1. TypeOK' /\ Connected'
  BY StepType DEF IInv
<1>2. CASE \E d \in Devices : Edit(d)
  BY <1>1, <1>2, EditHistory DEF IInv
<1>3. CASE Next /\ ~\E d \in Devices : Edit(d)
  <2>1. \A k \in Keys : RowsOf(k)' \subseteq RowsOf(k)
    BY <1>3, NoNewRows DEF IInv
  <2>2. CASE Keys = {}
    BY <1>1, <2>2 DEF IInv, HistoryBounded, RevisionsFollowHistory
  <2>3. CASE Keys # {}
    <3>1. UNCHANGED <<writes, history>>
      BY <1>3, <2>3, NoNewRows DEF IInv
    <3> QED BY <1>1, <2>1, <3>1 DEF IInv, HistoryBounded, RevisionsFollowHistory
  <2> QED BY <2>2, <2>3
<1>4. CASE UNCHANGED vars
  <2>1. UNCHANGED Copies
    BY <1>4 DEF vars, Copies, SnapshotsInFlight, Waiting, Answered
  <2> QED BY <1>1, <1>4, <2>1 DEF vars, IInv, HistoryBounded, RevisionsFollowHistory, RowsOf
<1> QED BY <1>2, <1>3, <1>4

\* It holds where no document exists.
LEMMA InitIInv == Init => IInv
<1> SUFFICES ASSUME Init PROVE IInv
  OBVIOUS
<1>1. \A s \in Copies : s = Empty
  BY DEF Copies, SnapshotsInFlight, Init, RoundsInit, Waiting, Answered, NoRound
<1>2. \A k \in Keys : RowsOf(k) = {}
  BY <1>1 DEF RowsOf, Empty
<1> QED BY <1>2, InitType DEF IInv, Init, HistoryBounded, RevisionsFollowHistory

\* Whatever the clocks of the devices read, revisions follow what the learner
\* saw, so a merge never prefers a row to one written on top of it.
THEOREM HistoryCorrect == Spec => []RevisionsFollowHistory
<1>1. Spec => []IInv
  BY InitIInv, StepIInv, PTL DEF Spec
<1>2. IInv => RevisionsFollowHistory
  BY DEF IInv
<1> QED BY <1>1, <1>2, PTL

-----------------------------------------------------------------------------
(* Acknowledgement *)

\* What the server merged it holds at the uploaded revision or a newer one.
LEMMA MergeAcknowledges ==
  ASSUME NEW a \in Documents, NEW b \in Documents
  PROVE  UnmergedIssueReports(b, MergeDocuments(a, b)) = {}
<1> SUFFICES ASSUME NEW k \in Keys, b[k] # NoRow
             PROVE  /\ MergeDocuments(a, b)[k] # NoRow
                    /\ ~(MergeDocuments(a, b)[k].rev < b[k].rev)
  BY DEF UnmergedIssueReports, Documents
<1>1. b[k].rev \in Nat /\ (a[k] # NoRow => a[k].rev \in Nat)
  BY DEF Documents, Rows, RowSet
<1>2. MergeDocuments(a, b)[k] = MergeRow(TableOf(k), a[k], b[k])
  BY MergeDocumentsType
<1>3. CASE MergeRow(TableOf(k), a[k], b[k]) = b[k]
  BY <1>1, <1>2, <1>3
<1>4. CASE a[k] # NoRow /\ ~Supersedes(TableOf(k), b[k], a[k])
  BY <1>1, <1>2, <1>4 DEF MergeRow, Supersedes
<1> QED BY <1>3, <1>4 DEF MergeRow

\* The app never reports an issue report as unmerged that a server of this
\* version answered for.
THEOREM AcknowledgementCorrect == Spec => []AnswersAcknowledge
<1> DEFINE AInv == TypeOK /\ Connected /\ AnswersAcknowledge
<1>1. Init => AInv
  BY InitType DEF Init, RoundsInit, AnswersAcknowledge, Answered, NoRound
<1>2. AInv /\ [Next]_vars => AInv'
  <2> SUFFICES ASSUME AInv, [Next]_vars PROVE AnswersAcknowledge'
    BY StepType
  <2> SUFFICES ASSUME NEW d \in Devices, Answered(d)'
               PROVE  UnmergedIssueReports(round'[d].body, round'[d].answer) = {}
    BY DEF AnswersAcknowledge
  <2>1. CASE round'[d] = round[d]
    BY <2>1 DEF AnswersAcknowledge, Answered
  <2>2. CASE \E q \in wire : HandlePost(q)
    <3>1. PICK q \in wire : HandlePost(q)
      BY <2>2
    <3>2. CASE q.live /\ q.dev = d
                /\ round'[d] = [phase |-> "answered", body |-> round[d].body,
                                answer |-> server']
      <4>1. q.body = round[d].body /\ q.body \in Documents
        BY <3>2 DEF Connected, TypeOK, RoundsTypeOK
      <4>2. server' = MergeDocuments(server, q.body)
        BY <3>1 DEF HandlePost
      <4> QED BY <3>2, <4>1, <4>2, MergeAcknowledges DEF TypeOK
    <3> QED BY <2>1, <3>1, <3>2 DEF HandlePost, Answer, TypeOK, RoundsTypeOK
  <2>3. CASE \E e \in Devices : Edit(e)
    BY <2>1, <2>3, EditIsWrite DEF Write
  <2>4. CASE \E e \in Devices : StartRound(e) \/ MergeAnswer(e) \/ Disconnect(e)
    <3>1. PICK e \in Devices : StartRound(e) \/ MergeAnswer(e) \/ Disconnect(e)
      BY <2>4
    <3>2. CASE StartRound(e)
      BY <2>1, <3>2 DEF StartRound, Post, Answered, TypeOK, RoundsTypeOK
    <3>3. CASE MergeAnswer(e) \/ GiveUp(e)
      BY <2>1, <3>3 DEF MergeAnswer, Conclude, GiveUp, Answered, NoRound, TypeOK, RoundsTypeOK
    <3>4. CASE TryNextAddress(e)
      <4>1. e = d => round'[d] = [round[d] EXCEPT !.try = @ + 1]
        BY <3>4 DEF TryNextAddress, TypeOK, RoundsTypeOK
      <4>2. e # d
        BY <3>4, <4>1, NextTry DEF TypeOK, TryNextAddress, Answered
      <4> QED BY <2>1, <3>4, <4>2 DEF TryNextAddress, TypeOK, RoundsTypeOK
    <3> QED BY <3>1, <3>2, <3>3, <3>4 DEF Disconnect
  <2>5. CASE UNCHANGED vars
    BY <2>1, <2>5 DEF vars
  <2> QED BY <2>2, <2>3, <2>4, <2>5 DEF Next
<1> QED BY <1>1, <1>2, PTL DEF Spec

-----------------------------------------------------------------------------
(* Refinement *)

\* Taking over a merged row is something the causal register allows.
LEMMA MergeMayAdopt ==
  ASSUME IInv, NEW k \in Keys,
         NEW loc, loc = NoRow \/ loc \in RowsOf(k),
         NEW in, in = NoRow \/ in \in RowsOf(k)
  PROVE  Causal!MayAdopt(k, Version(loc), Version(MergeRow(TableOf(k), loc, in)))
<1>1. CASE MergeRow(TableOf(k), loc, in) = loc
  BY <1>1 DEF Causal!MayAdopt
<1>2. CASE /\ MergeRow(TableOf(k), loc, in) = in
           /\ in # NoRow
           /\ loc = NoRow \/ Supersedes(TableOf(k), in, loc)
  <2>1. /\ in \in RowsOf(k) /\ in.val \in Writes /\ in.val # 0 /\ in.rev \in Nat
        /\ in.val \in history[k][in.val]
    BY <1>2, RowsOfType DEF IInv, HistoryBounded, Rows, RowSet, Writes
  <2>2. in.val \in Causal!Written(k)
    BY <2>1 DEF Causal!Written, Causal!Versions, Writes
  <2>3. CASE loc = NoRow
    BY <1>2, <2>2, <2>3 DEF Causal!MayAdopt, Causal!HistoryOf, Version
  <2>4. CASE loc # NoRow
    <3>1. loc \in RowsOf(k) /\ loc.rev \in Nat /\ loc.val # 0
      BY <2>4, RowsOfType DEF Rows, RowSet, Writes, IInv
    <3>2. in # loc /\ ~(in.rev < loc.rev)
      BY <1>2, <2>1, <2>4, <3>1 DEF Supersedes
    <3>3. in.val \notin history[k][loc.val]
      BY <2>1, <3>1, <3>2 DEF IInv, RevisionsFollowHistory
    <3> QED BY <1>2, <2>2, <2>4, <3>1, <3>3 DEF Causal!MayAdopt, Causal!HistoryOf, Version
  <2> QED BY <2>3, <2>4
<1> QED BY <1>1, <1>2 DEF MergeRow

\* The refinement mapping, for one replica.
HeldBy(r) == [k \in Keys |-> Version(IF r = Server THEN server[k] ELSE db[r][k])]
Held == [r \in Devices \cup {Server} |-> HeldBy(r)]

\* Empty databases are the register's initial state.
LEMMA InitRefines == Init => Causal!Init
<1> SUFFICES ASSUME Init PROVE Causal!Init
  OBVIOUS
<1>1. ASSUME NEW r \in Devices \cup {Server}
      PROVE  HeldBy(r) = [k \in Keys |-> 0]
  BY DEF HeldBy, Version, Init, Empty
<1> QED BY <1>1 DEF HeldBy, Causal!Init, Init, Writes, Causal!Versions

\* One replica's rows changed by a merge, nothing else: the register adopts.
LEMMA AdoptStep ==
  ASSUME IInv, TypeOK', NEW r \in Devices \cup {Server},
         UNCHANGED <<writes, history>>,
         \A q \in (Devices \cup {Server}) \ {r} : HeldBy(q)' = HeldBy(q),
         \A k \in Keys : Causal!MayAdopt(k, HeldBy(r)[k], HeldBy(r)'[k])
  PROVE  Causal!Adopt(r)
<1>1. Held' \in [Devices \cup {Server} -> [Keys -> {0} \cup Writes]]
  BY DEF TypeOK, Documents, Rows, RowSet, Version, Held, HeldBy
<1>2. \A q \in (Devices \cup {Server}) \ {r} : Held'[q] = Held[q]
  BY DEF Held
<1>3. \A k \in Keys : Causal!MayAdopt(k, Held[r][k], Held'[r][k])
  BY DEF Held
<1> QED BY <1>1, <1>2, <1>3 DEF Causal!Adopt, Causal!Versions, Writes, Held, HeldBy

\* Every step is a write, an adoption, or nothing to the register.
LEMMA StepRefines == IInv /\ [Next]_vars => [Causal!Next]_(Causal!vars)
<1> SUFFICES ASSUME IInv, [Next]_vars
             PROVE  Causal!Next \/ UNCHANGED Causal!vars
  OBVIOUS
<1> USE DocumentAssumption
<1>0. TypeOK /\ TypeOK'
  BY StepType DEF IInv
<1>1. ASSUME NEW d \in Devices, Edit(d) PROVE Causal!Next
  <2>1. PICK ks \in SUBSET Keys, deleted \in BOOLEAN, now \in Epochs :
          Write(d, ks, deleted, now)
    BY <1>1, EditIsWrite
  <2>2. \A r \in (Devices \cup {Server}) \ {d} : HeldBy(r)' = HeldBy(r)
    BY <1>0, <2>1 DEF Write, HeldBy, TypeOK
  <2>3. HeldBy(d)' = [k \in Keys |-> IF k \in ks THEN writes + 1 ELSE HeldBy(d)[k]]
    <3>1. \A k \in Keys : Version(db'[d][k]) =
            IF k \in ks THEN writes + 1 ELSE Version(db[d][k])
      <4> SUFFICES ASSUME NEW k \in Keys
                   PROVE  Version(db'[d][k]) =
                            IF k \in ks THEN writes + 1 ELSE Version(db[d][k])
        OBVIOUS
      <4>1. CASE k \in ks
        <5>1. db'[d][k] \in Rows \cup {NoRow} /\ db'[d][k].val = writes + 1
          BY <1>0, <2>1, <4>1 DEF Write, TypeOK, Documents
        <5>2. db'[d][k] # NoRow
          <6>1. [rev |-> BumpedRevision(db[d][k], now), del |-> deleted,
                 val |-> writes + 1] \in RowSet(Nat)
            <7>1. writes + 1 \in Nat /\ db[d][k] \in Rows \cup {NoRow}
              BY <1>0 DEF TypeOK, Documents
            <7> QED BY <7>1, BumpIncreases DEF RowSet
          <6> QED BY <1>0, <2>1, <4>1, <6>1, NoRowAssumption DEF Write, TypeOK
        <5> QED BY <4>1, <5>1, <5>2 DEF Version
      <4>2. CASE k \notin ks
        BY <1>0, <2>1, <4>2 DEF Write, TypeOK
      <4> QED BY <4>1, <4>2
    <3> QED BY <3>1 DEF HeldBy
  <2>4. Held' = [Held EXCEPT ![d] =
                   [k \in Keys |-> IF k \in ks THEN writes + 1 ELSE Held[d][k]]]
    BY <2>2, <2>3 DEF Held
  <2>5. \A k \in Keys : HistoryOf(k, db[d][k]) = Causal!HistoryOf(k, Held[d][k])
    BY <1>0 DEF HistoryOf, Causal!HistoryOf, Held, HeldBy, Version, TypeOK,
            Documents, Rows, RowSet, Writes
  <2>6. Causal!Write(d, ks)
    BY <2>1, <2>4, <2>5 DEF Write, Causal!Write, Held, HeldBy
  <2> QED BY <2>6 DEF Causal!Next
<1>2. ASSUME NEW q \in wire, HandlePost(q) PROVE Causal!Next
  <2>1. /\ q.body \in Documents /\ q.body \in Copies /\ server \in Copies
        /\ server \in Documents
    BY <1>0 DEF Copies, SnapshotsInFlight, TypeOK, RoundsTypeOK
  <2>2. \A k \in Keys : server'[k] = MergeRow(TableOf(k), server[k], q.body[k])
    BY <1>2, <2>1, MergeDocumentsType DEF HandlePost
  <2>3. \A k \in Keys : Causal!MayAdopt(k, Version(server[k]), Version(server'[k]))
    BY <2>1, <2>2, MergeMayAdopt DEF RowsOf
  <2>4. \A r \in Devices : HeldBy(r)' = HeldBy(r)
    BY <1>2 DEF HandlePost, HeldBy
  <2>5. Causal!Adopt(Server)
    BY <1>0, <1>2, <2>3, <2>4, AdoptStep DEF HandlePost, HeldBy
  <2> QED BY <2>5 DEF Causal!Next
<1>3. ASSUME NEW d \in Devices, MergeAnswer(d) PROVE Causal!Next
  <2>1. /\ round[d].answer \in Documents /\ round[d].answer \in Copies
        /\ db[d] \in Copies /\ db[d] \in Documents
    BY <1>0, <1>3, RoundShapes DEF MergeAnswer, Copies, SnapshotsInFlight, TypeOK
  <2>2. \A k \in Keys : db'[d][k] = MergeRow(TableOf(k), db[d][k], round[d].answer[k])
    BY <1>0, <1>3, <2>1, MergeDocumentsType DEF MergeAnswer, TypeOK
  <2>3. \A k \in Keys : Causal!MayAdopt(k, Version(db[d][k]), Version(db'[d][k]))
    BY <2>1, <2>2, MergeMayAdopt DEF RowsOf
  <2>4. \A r \in (Devices \cup {Server}) \ {d} : HeldBy(r)' = HeldBy(r)
    BY <1>0, <1>3 DEF MergeAnswer, HeldBy, TypeOK
  <2>5. Causal!Adopt(d)
    BY <1>0, <1>3, <2>3, <2>4, AdoptStep DEF MergeAnswer, HeldBy
  <2> QED BY <2>5 DEF Causal!Next
<1>4. CASE \/ \E d \in Devices : StartRound(d) \/ Disconnect(d)
           \/ UNCHANGED vars
  BY <1>4 DEF StartRound, Disconnect, vars, Causal!vars
<1> QED BY <1>1, <1>2, <1>3, <1>4 DEF Next

\* The devices and the server together implement the causal register.
THEOREM Refinement == Spec => ImplementsCausalRegister
<1>1. Spec => []IInv
  BY InitIInv, StepIInv, PTL DEF Spec
<1> QED BY <1>1, InitRefines, StepRefines, PTL DEF Spec, ImplementsCausalRegister, Causal!Spec

-----------------------------------------------------------------------------
(* Agreement *)

\* The order in which a merge moves: a row may be replaced only by one that is
\* not below it.
AtMost(k, a, b) == a = NoRow \/ (b # NoRow /\ ~Supersedes(TableOf(k), a, b))
Within(a, b) == \A k \in Keys : AtMost(k, a[k], b[k])

\* It is an order on ranks.
LEMMA AtMostOrders ==
  ASSUME NEW k \in Keys,
         NEW a \in Rows \cup {NoRow}, NEW b \in Rows \cup {NoRow},
         NEW c \in Rows \cup {NoRow}
  PROVE  /\ AtMost(k, a, a)
         /\ AtMost(k, a, b) /\ AtMost(k, b, c) => AtMost(k, a, c)
         /\ Rank(k, a) = Rank(k, b) <=> AtMost(k, a, b) /\ AtMost(k, b, a)
<1>1. \A x \in Rows : x.rev \in Nat /\ x.del \in BOOLEAN
  BY DEF Rows, RowSet
<1>2. AtMost(k, a, a)
  BY <1>1 DEF AtMost, Supersedes
<1>3. AtMost(k, a, b) /\ AtMost(k, b, c) => AtMost(k, a, c)
  BY <1>1 DEF AtMost, Supersedes
<1>4. Rank(k, a) = Rank(k, b) <=> AtMost(k, a, b) /\ AtMost(k, b, a)
  <2>1. CASE a = NoRow \/ b = NoRow
    BY <1>1, <2>1 DEF AtMost, Rank
  <2>2. CASE a # NoRow /\ b # NoRow
    BY <1>1, <2>2 DEF AtMost, Rank, Supersedes
  <2> QED BY <2>1, <2>2
<1> QED BY <1>2, <1>3, <1>4

\* So it is an order on databases.
LEMMA WithinOrders ==
  ASSUME NEW a \in Documents, NEW b \in Documents, NEW c \in Documents
  PROVE  /\ Within(a, a)
         /\ Within(a, b) /\ Within(b, c) => Within(a, c)
         /\ SameRanks(a, b) <=> Within(a, b) /\ Within(b, a)
<1>1. \A k \in Keys : /\ a[k] \in Rows \cup {NoRow} /\ b[k] \in Rows \cup {NoRow}
                      /\ c[k] \in Rows \cup {NoRow}
  BY DEF Documents
<1> QED BY <1>1, AtMostOrders DEF Within, SameRanks

\* A merge goes up from both sides, and no further than it must.
LEMMA MergeIsAbove ==
  ASSUME NEW a \in Documents, NEW b \in Documents
  PROVE  /\ Within(a, MergeDocuments(a, b))
         /\ Within(b, MergeDocuments(a, b))
         /\ Within(a, b) => SameRanks(MergeDocuments(a, b), b)
         /\ Within(b, a) => SameRanks(MergeDocuments(a, b), a)
<1> DEFINE m == MergeDocuments(a, b)
<1>1. ASSUME NEW k \in Keys
      PROVE  /\ AtMost(k, a[k], m[k]) /\ AtMost(k, b[k], m[k])
             /\ AtMost(k, a[k], b[k]) => AtMost(k, m[k], b[k])
             /\ AtMost(k, b[k], a[k]) => AtMost(k, m[k], a[k])
  <2>1. m[k] = MergeRow(TableOf(k), a[k], b[k])
    BY MergeDocumentsType
  <2>2. a[k] \in Rows \cup {NoRow} /\ b[k] \in Rows \cup {NoRow}
    BY DEF Documents
  <2>3. AtMost(k, a[k], a[k]) /\ AtMost(k, b[k], b[k])
    BY <2>2, AtMostOrders
  <2>4. CASE b[k] = NoRow
    BY <2>1, <2>3, <2>4 DEF AtMost, MergeRow
  <2>5. CASE b[k] # NoRow /\ a[k] = NoRow
    BY <2>1, <2>3, <2>5 DEF AtMost, MergeRow
  <2>6. CASE b[k] # NoRow /\ a[k] # NoRow /\ Supersedes(TableOf(k), b[k], a[k])
    <3>1. ~Supersedes(TableOf(k), a[k], b[k])
      BY <2>2, <2>6 DEF Supersedes, Rows, RowSet
    <3> QED BY <2>1, <2>3, <2>6, <3>1 DEF AtMost, MergeRow
  <2>7. CASE b[k] # NoRow /\ a[k] # NoRow /\ ~Supersedes(TableOf(k), b[k], a[k])
    BY <2>1, <2>3, <2>7 DEF AtMost, MergeRow
  <2> QED BY <2>4, <2>5, <2>6, <2>7
<1>2. m \in Documents
  BY MergeDocumentsType
<1> HIDE DEF m
<1>3. /\ Within(a, m) /\ Within(b, m)
      /\ Within(a, b) => Within(m, b)
      /\ Within(b, a) => Within(m, a)
  BY <1>1 DEF Within
<1>4. Within(a, b) => SameRanks(m, b)
  BY <1>2, <1>3, WithinOrders
<1>5. Within(b, a) => SameRanks(m, a)
  BY <1>2, <1>3, WithinOrders
<1> QED BY <1>3, <1>4, <1>5 DEF m

\* An edit goes up: its row is above the one it replaces.
LEMMA EditIsAbove ==
  ASSUME TypeOK, NEW d \in Devices, Edit(d), NEW e \in Devices
  PROVE  Within(db[e], db'[e])
<1>1. PICK ks \in SUBSET Keys, deleted \in BOOLEAN, now \in Epochs :
        Write(d, ks, deleted, now)
  BY EditIsWrite
<1> SUFFICES ASSUME NEW k \in Keys PROVE AtMost(k, db[e][k], db'[e][k])
  BY DEF Within
<1>2. db[e][k] \in Rows \cup {NoRow}
  BY DEF TypeOK, Documents
<1>3. CASE db'[e][k] = db[e][k]
  BY <1>2, <1>3, AtMostOrders
<1>4. CASE /\ db[e][k] # NoRow
           /\ db'[e][k] = [rev |-> BumpedRevision(db[e][k], now), del |-> deleted,
                           val |-> writes + 1]
  <2>1. db'[e][k] # NoRow
    <3>1. writes + 1 \in Nat
      BY DEF TypeOK
    <3>2. [rev |-> BumpedRevision(db[e][k], now), del |-> deleted, val |-> writes + 1]
            \in RowSet(Nat)
      BY <1>2, <3>1, BumpIncreases DEF RowSet
    <3> QED BY <1>4, <3>2, NoRowAssumption
  <2>2. db[e][k].rev \in Nat /\ db'[e][k].rev \in Nat /\ db'[e][k].rev > db[e][k].rev
    BY <1>2, <1>4, BumpIncreases DEF Rows, RowSet
  <2> QED BY <2>1, <2>2 DEF AtMost, Supersedes
<1>5. CASE db[e][k] = NoRow
  BY <1>5 DEF AtMost
<1> QED BY <1>1, <1>3, <1>4, <1>5 DEF Write, TypeOK

\* No device is behind what it posted, and the server not behind its answers.
NothingAhead ==
  \A d \in Devices :
    /\ \A b \in BodiesOf(d) : Within(b, db[d])
    /\ Answered(d) => /\ Within(round[d].body, round[d].answer)
                      /\ Within(round[d].answer, server)

\* What a device has posted, and an answer, are databases.
LEMMA BodiesType ==
  ASSUME TypeOK, NEW d \in Devices
  PROVE  /\ BodiesOf(d) \subseteq Documents
         /\ Answered(d) => /\ round[d].answer \in Documents
                           /\ round[d].body \in BodiesOf(d)
<1>1. RoundsTypeOK(Documents)
  BY DEF TypeOK
<1>2. \A q \in wire : q.body \in Documents
  BY <1>1 DEF RoundsTypeOK
<1>3. ASSUME NEW b \in BodiesOf(d) PROVE b \in Documents
  <2>1. CASE \E q \in wire : q.dev = d /\ b = q.body
    BY <1>2, <2>1
  <2>2. CASE (Waiting(d) \/ Answered(d)) /\ b = round[d].body
    BY <1>1, <2>2, RoundShapes
  <2> QED BY <1>3, <2>1, <2>2, BodiesAre
<1>4. Answered(d) => round[d].answer \in Documents
  BY <1>1, RoundShapes
<1>5. Answered(d) => round[d].body \in BodiesOf(d)
  BY BodiesAre
<1> QED BY <1>3, <1>4, <1>5

\* Databases only go up.
LEMMA StepGoesUp ==
  ASSUME TypeOK, [Next]_vars
  PROVE  Within(server, server') /\ \A d \in Devices : Within(db[d], db'[d])
<1>1. /\ server \in Documents /\ Within(server, server)
      /\ \A d \in Devices : db[d] \in Documents /\ Within(db[d], db[d])
  BY WithinOrders DEF TypeOK
<1>2. ASSUME NEW q \in wire, HandlePost(q)
      PROVE  Within(server, server') /\ \A d \in Devices : Within(db[d], db'[d])
  <2>1. q.body \in Documents
    BY DEF TypeOK, RoundsTypeOK
  <2> QED BY <1>1, <1>2, <2>1, MergeIsAbove DEF HandlePost
<1>3. ASSUME NEW e \in Devices, MergeAnswer(e)
      PROVE  Within(server, server') /\ \A d \in Devices : Within(db[d], db'[d])
  <2>1. round[e].answer \in Documents
    BY <1>3, BodiesType DEF MergeAnswer
  <2>2. Within(db[e], db'[e])
    BY <1>1, <1>3, <2>1, MergeIsAbove DEF MergeAnswer, TypeOK
  <2> QED BY <1>1, <1>3, <2>2 DEF MergeAnswer, TypeOK
<1>4. ASSUME NEW e \in Devices, Edit(e)
      PROVE  Within(server, server') /\ \A d \in Devices : Within(db[d], db'[d])
  <2>1. server' = server
    BY <1>4, EditIsWrite DEF Write
  <2> QED BY <1>1, <1>4, <2>1, EditIsAbove
<1>5. CASE (\E e \in Devices : StartRound(e) \/ Disconnect(e)) \/ UNCHANGED vars
  BY <1>1, <1>5 DEF StartRound, Disconnect, vars
<1> QED BY <1>2, <1>3, <1>4, <1>5 DEF Next

\* NothingAhead is kept.
LEMMA StepNothingAhead ==
  ASSUME TypeOK, Connected, NothingAhead, [Next]_vars
  PROVE  NothingAhead'
<1> SUFFICES ASSUME NEW d \in Devices
             PROVE  /\ \A b \in BodiesOf(d)' : Within(b, db'[d])
                    /\ Answered(d)' => /\ Within(round'[d].body, round'[d].answer)
                                       /\ Within(round'[d].answer, server')
  BY DEF NothingAhead
<1>1. RoundsTypeOK(Documents) /\ TypeOK'
  BY StepType DEF TypeOK
<1>2. /\ db[d] \in Documents /\ db'[d] \in Documents
      /\ server \in Documents /\ server' \in Documents
  BY <1>1 DEF TypeOK
<1>3. Within(server, server') /\ Within(db[d], db'[d])
  BY StepGoesUp
<1>4. ASSUME NEW b \in BodiesOf(d)' PROVE b \in BodiesOf(d) \/ b = db[d]
  <2>1. ASSUME NEW e \in Devices, StartRound(e) PROVE b \in BodiesOf(d) \/ b = db[d]
    BY <1>1, <1>4, <2>1, PostAddsBody DEF StartRound
  <2>2. CASE NoPost
    BY <1>1, <1>4, <2>2, NoPostKeepsBodies
  <2>3. ASSUME NEW q \in wire, HandlePost(q) PROVE NoPost
    BY <2>3 DEF HandlePost, NoPost
  <2>4. ASSUME NEW e \in Devices, Edit(e) PROVE NoPost
    BY <2>4, EditIsWrite DEF Write, NoPost, roundVars
  <2>5. ASSUME NEW e \in Devices, MergeAnswer(e) \/ Disconnect(e) PROVE NoPost
    BY <2>5 DEF MergeAnswer, Disconnect, NoPost
  <2>6. UNCHANGED vars => NoPost
    BY DEF vars, NoPost, roundVars
  <2> QED BY <2>1, <2>2, <2>3, <2>4, <2>5, <2>6 DEF Next
<1>5. ASSUME NEW b \in BodiesOf(d)' PROVE Within(b, db'[d])
  <2>1. CASE b = db[d]
    BY <1>3, <2>1
  <2>2. CASE b \in BodiesOf(d)
    <3>1. b \in Documents /\ Within(b, db[d])
      BY <2>2, BodiesType DEF NothingAhead
    <3> QED BY <1>2, <1>3, <3>1, WithinOrders
  <2> QED BY <1>4, <1>5, <2>1, <2>2
<1>6. ASSUME Answered(d)'
      PROVE  Within(round'[d].body, round'[d].answer) /\ Within(round'[d].answer, server')
  <2>1. CASE Answered(d) /\ round'[d] = round[d]
    <3>1. /\ round[d].answer \in Documents /\ Within(round[d].answer, server)
          /\ Within(round[d].body, round[d].answer)
      BY <2>1, BodiesType DEF NothingAhead
    <3> QED BY <1>2, <1>3, <2>1, <3>1, WithinOrders
  <2>2. ASSUME NEW q \in wire, HandlePost(q), round'[d] # round[d]
        PROVE  Within(round'[d].body, round'[d].answer) /\ Within(round'[d].answer, server')
    <3>1. /\ q.live /\ q.dev = d
          /\ round'[d] = [phase |-> "answered", body |-> round[d].body, answer |-> server']
      BY <1>1, <2>2 DEF HandlePost, Answer, RoundsTypeOK
    <3>2. round'[d].body = q.body /\ round'[d].answer = server' /\ q.body \in Documents
      BY <1>1, <3>1 DEF Connected, RoundsTypeOK
    <3>3. Within(q.body, server')
      BY <1>2, <2>2, <3>2, MergeIsAbove DEF HandlePost
    <3> QED BY <1>2, <3>2, <3>3, WithinOrders
  <2>3. CASE ~\E q \in wire : HandlePost(q)
    <3>1. \/ \E e \in Devices : \/ Post(e, db[e]) \/ TryNextAddress(e)
                                \/ GiveUp(e) \/ Conclude(e)
          \/ UNCHANGED roundVars
      <4>1. ASSUME NEW e \in Devices, Edit(e) PROVE UNCHANGED roundVars
        BY <4>1, EditIsWrite DEF Write, roundVars
      <4>2. UNCHANGED vars => UNCHANGED roundVars
        BY DEF vars, roundVars
      <4> QED BY <2>3, <4>1, <4>2 DEF Next, StartRound, MergeAnswer, Disconnect
    <3>2. Answered(d) /\ round'[d] = round[d]
      BY <1>1, <1>6, <3>1, NoAnswerKeepsAnswers
    <3> QED BY <2>1, <3>2
  <2>4. round'[d] = round[d] => Answered(d)
    BY <1>6 DEF Answered
  <2> QED BY <2>1, <2>2, <2>3, <2>4
<1> QED BY <1>5, <1>6

\* Rounds only ever bring the replicas together: the safety half of Converges.
THEOREM AgreementCorrect == Spec => RoundsSettle
<1> DEFINE AgInv == TypeOK /\ Connected /\ NothingAhead
<1>1. Init => AgInv
  <2> SUFFICES ASSUME Init PROVE NothingAhead
    BY InitType
  <2>1. \A d \in Devices : BodiesOf(d) = {} /\ ~Answered(d)
    BY DEF Init, RoundsInit, BodiesOf, Waiting, Answered, NoRound
  <2> QED BY <2>1 DEF NothingAhead
<1>2. AgInv /\ [Next]_vars => AgInv'
  BY StepType, StepNothingAhead
<1>3. ASSUME AgInv, NEW d \in Devices, MergeAnswer(d), db[d] = round[d].body
      PROVE  SameRanks(db'[d], round[d].answer)
  <2>1. round[d].answer \in Documents /\ Within(db[d], round[d].answer)
    BY <1>3, BodiesType DEF MergeAnswer, NothingAhead
  <2>2. db'[d] = MergeDocuments(db[d], round[d].answer) /\ db[d] \in Documents
    BY <1>3 DEF MergeAnswer, TypeOK
  <2> QED BY <2>1, <2>2, MergeIsAbove
<1>4. ASSUME AgInv, [Next]_vars, RanksAgree, UNCHANGED writes
      PROVE  RanksAgree'
  <2>0. \A d \in Devices : SameRanks(db[d], server)
    BY <1>4 DEF RanksAgree, SameRanks
  <2> SUFFICES ASSUME NEW d \in Devices PROVE SameRanks(db'[d], server')
    BY DEF RanksAgree, SameRanks
  <2>1. ASSUME NEW q \in wire, HandlePost(q) PROVE SameRanks(db'[d], server')
    <3>1. /\ q.dev \in Devices /\ q.body \in Documents
          /\ db[q.dev] \in Documents /\ server \in Documents
      BY <1>4 DEF TypeOK, RoundsTypeOK
    <3>2. q.body \in BodiesOf(q.dev)
      BY <3>1, BodiesAre
    <3>3. Within(q.body, db[q.dev]) /\ SameRanks(db[q.dev], server)
      BY <1>4, <2>0, <3>1, <3>2 DEF NothingAhead
    <3>4. Within(q.body, server)
      BY <3>1, <3>3, WithinOrders
    <3>5. SameRanks(server', server) /\ db' = db
      BY <2>1, <3>1, <3>4, MergeIsAbove DEF HandlePost
    <3> QED BY <2>0, <3>5 DEF SameRanks
  <2>2. ASSUME NEW e \in Devices, MergeAnswer(e) PROVE SameRanks(db'[d], server')
    <3>1. /\ round[e].answer \in Documents /\ Within(round[e].answer, server)
          /\ db[e] \in Documents /\ server \in Documents
      BY <1>4, <2>2, BodiesType DEF MergeAnswer, TypeOK, NothingAhead
    <3>2. Within(round[e].answer, db[e])
      BY <2>0, <3>1, WithinOrders
    <3>3. SameRanks(MergeDocuments(db[e], round[e].answer), db[e])
      BY <3>1, <3>2, MergeIsAbove
    <3>4. server' = server /\ db' = [db EXCEPT ![e] = MergeDocuments(db[e], round[e].answer)]
      BY <2>2 DEF MergeAnswer
    <3> QED BY <1>4, <2>0, <3>3, <3>4 DEF SameRanks, TypeOK
  <2>3. ASSUME NEW e \in Devices, Edit(e) PROVE FALSE
    BY <1>4, <2>3, EditIsWrite DEF Write, TypeOK
  <2>4. CASE (\E e \in Devices : StartRound(e) \/ Disconnect(e)) \/ UNCHANGED vars
    BY <2>0, <2>4 DEF StartRound, Disconnect, vars
  <2> QED BY <1>4, <2>1, <2>2, <2>3, <2>4 DEF Next
<1>5. AgInv /\ [Next]_vars =>
        /\ \A d \in Devices :
             MergeAnswer(d) /\ db[d] = round[d].body => SameRanks(db'[d], round[d].answer)
        /\ RanksAgree /\ UNCHANGED writes => RanksAgree'
  BY <1>3, <1>4
<1> QED BY <1>1, <1>2, <1>5, PTL DEF Spec, RoundsSettle
=============================================================================
