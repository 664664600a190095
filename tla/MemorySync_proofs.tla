------------------------- MODULE MemorySync_proofs -------------------------
(***************************************************************************)
(* Proofs about MemorySync, for any devices, verses, passages, shapes and  *)
(* numbers of answers.                                                     *)
(***************************************************************************)
EXTENDS MemorySync, MemorySteps_proofs, SnapshotRounds_proofs, FiniteSetTheorems

-----------------------------------------------------------------------------
(* Types *)

\* States whose rows say what rows of their table say.
GoodStates ==
  {s \in States : \A k \in Keys : s.rows[k] # NoRow => s.rows[k].is \in ContentsOf(k)}

\* What the writes of a call give: repetitions and a content for some keys.
IsNew(new) ==
  /\ DOMAIN new \subseteq Keys
  /\ \A k \in DOMAIN new : new[k].reps \in Nat /\ new[k].is \in ContentsOf(k)

\* The contents of a table are contents.
LEMMA ContentsTypes ==
  /\ \A v \in Verses : /\ <<"verse", v>> \in Keys /\ <<"layout", v>> \in Keys
                       /\ ContentsOf(<<"verse", v>>) = VerseRows(MaxLines)
                       /\ ContentsOf(<<"layout", v>>) = Shapes
  /\ \A id \in Ids : <<"run", id>> \in Keys /\ ContentsOf(<<"run", id>>) = RunContents
  /\ \A k \in Keys : ContentsOf(k) \subseteq Contents
<1>1. ASSUME NEW v \in Verses
      PROVE  /\ <<"verse", v>> \in Keys /\ <<"layout", v>> \in Keys
             /\ ContentsOf(<<"verse", v>>) = VerseRows(MaxLines)
             /\ ContentsOf(<<"layout", v>>) = Shapes
  BY DEF Keys, ContentsOf
<1>2. ASSUME NEW id \in Ids
      PROVE  <<"run", id>> \in Keys /\ ContentsOf(<<"run", id>>) = RunContents
  BY DEF Keys, ContentsOf
<1>3. ASSUME NEW k \in Keys PROVE ContentsOf(k) \subseteq Contents
  <2>1. \/ \E v \in Verses : k = <<"verse", v>> \/ k = <<"layout", v>>
        \/ \E id \in Ids : k = <<"run", id>>
    BY DEF Keys
  <2> QED BY <1>1, <1>2, <2>1 DEF Contents
<1> QED BY <1>1, <1>2, <1>3

\* The parts of a good state.
LEMMA StateParts ==
  ASSUME NEW s \in GoodStates
  PROVE  /\ \A k \in Keys : /\ s.rows[k] \in Rows \cup {NoRow}
                            /\ s.rows[k] # NoRow => /\ s.rows[k].is \in ContentsOf(k)
                                                    /\ s.rows[k].rev \in Nat
                                                    /\ s.rows[k].reps \in Nat
                                                    /\ s.rows[k].val \in Writes
         /\ \A e \in Entries : s.log[e] \in Nat
BY DEF GoodStates, States, Rows

\* A state is good if its parts are.
LEMMA GoodState ==
  ASSUME NEW f \in [Keys -> Rows \cup {NoRow}], NEW g \in [Entries -> Nat],
         \A k \in Keys : f[k] # NoRow => f[k].is \in ContentsOf(k)
  PROVE  [rows |-> f, log |-> g] \in GoodStates
BY DEF GoodStates, States

\* Merging keeps of two rows of a key one, and of the counts of an entry the
\* greater.
LEMMA MergeKeeps ==
  ASSUME NEW a \in GoodStates, NEW b \in GoodStates
  PROVE  /\ MergeMemory(a, b) \in GoodStates
         /\ \A k \in Keys : MergeMemory(a, b).rows[k] \in {a.rows[k], b.rows[k]}
         /\ \A e \in Entries : /\ MergeMemory(a, b).log[e] \in {a.log[e], b.log[e]}
                               /\ MergeMemory(a, b).log[e] >= a.log[e]
                               /\ MergeMemory(a, b).log[e] >= b.log[e]
<1> DEFINE f == [k \in Keys |-> MergeMemoryRow(a.rows[k], b.rows[k])]
           g == [e \in Entries |-> MergeEntries(a.log[e], b.log[e])]
<1>1. \A k \in Keys : f[k] \in {a.rows[k], b.rows[k]}
  BY DEF MergeMemoryRow
<1>2. \A e \in Entries : /\ g[e] \in {a.log[e], b.log[e]}
                         /\ g[e] >= a.log[e] /\ g[e] >= b.log[e]
  BY StateParts DEF MergeEntries
<1>3. f \in [Keys -> Rows \cup {NoRow}]
      /\ \A k \in Keys : f[k] # NoRow => f[k].is \in ContentsOf(k)
  BY <1>1, StateParts
<1>4. g \in [Entries -> Nat]
  BY <1>2, StateParts
<1>5. MergeMemory(a, b) = [rows |-> f, log |-> g]
  BY DEF MergeMemory
<1> HIDE DEF f, g
<1>6. MergeMemory(a, b) \in GoodStates
  BY <1>3, <1>4, <1>5, GoodState
<1> QED BY <1>1, <1>2, <1>5, <1>6

\* The stamp of a write is a revision above the one it replaces.
LEMMA StampIncreases ==
  ASSUME NEW old \in Rows \cup {NoRow}, NEW now \in Epochs
  PROVE  /\ Stamp(old, now) \in Nat
         /\ old # NoRow => Stamp(old, now) > old.rev
BY MemorySyncAssumption DEF Stamp, Rows, Epochs

-----------------------------------------------------------------------------
(* What the learner's calls write *)

\* A verse has a line.
LEMMA MaxLinesType == MaxLines \in Nat \ {0}
BY MemorySyncAssumption

\* What a good state says of a verse.
LEMMA VerseParts ==
  ASSUME NEW s \in GoodStates, NEW v \in Verses
  PROVE  /\ Verse(s, v) \in VerseRows(MaxLines)
         /\ Verse(s, v).stage \in Nat
         /\ Reps(s, v) \in Nat
         /\ Shape(s, v) \in Shapes
         /\ LineCount(Shape(s, v)) \in 1..MaxLines
<1>1. Verse(s, v) \in VerseRows(MaxLines)
  <2>1. /\ <<"verse", v>> \in Keys
        /\ ContentsOf(<<"verse", v>>) = VerseRows(MaxLines)
    BY ContentsTypes
  <2>2. s.rows[<<"verse", v>>] # NoRow =>
          s.rows[<<"verse", v>>].is \in ContentsOf(<<"verse", v>>)
    BY <2>1, StateParts
  <2>3. NewRow \in VerseRows(MaxLines)
    BY RowTypes, MaxLinesType
  <2> QED BY <2>1, <2>2, <2>3 DEF Verse
<1>2. Verse(s, v).stage \in Nat
  BY <1>1, MaxLinesType DEF VerseRows, Relearn, LineStepCount
<1>3. Reps(s, v) \in Nat
  <2>1. <<"verse", v>> \in Keys
    BY ContentsTypes
  <2> QED BY <2>1, StateParts DEF Reps
<1>4. Shape(s, v) \in Shapes
  <2>1. /\ <<"layout", v>> \in Keys
        /\ ContentsOf(<<"layout", v>>) = Shapes
    BY ContentsTypes
  <2>2. s.rows[<<"layout", v>>] # NoRow =>
          s.rows[<<"layout", v>>].is \in ContentsOf(<<"layout", v>>)
    BY <2>1, StateParts
  <2>3. [lines |-> 0, opens |-> FALSE] \in Shapes
    BY MaxLinesType DEF Shapes
  <2> QED BY <2>1, <2>2, <2>3 DEF Shape
<1>5. LineCount(Shape(s, v)) \in 1..MaxLines
  BY <1>4, MaxLinesType DEF LineCount, Shapes
<1> QED BY <1>1, <1>2, <1>3, <1>4, <1>5

\* A card's step is a step of the verse's script, and leaves a row.
LEMMA TargetType ==
  ASSUME NEW s \in GoodStates, NEW id \in Ids, NEW v \in Verses, NEW grade
  PROVE  Target(s, id, v, grade) \in VerseRows(MaxLines)
<1> DEFINE lines == LineCount(Shape(s, v))
           first == Opens(s, id, v)
<1>1. lines \in 1..MaxLines /\ first \in BOOLEAN
  <2>1. Shape(s, v).opens \in BOOLEAN
    BY VerseParts DEF Shapes
  <2> QED BY <2>1, VerseParts DEF Opens
<1>2. Steps(s, id, v) = VerseSteps(lines, first)
  BY DEF Steps
<1>3. StepOf(s, id, v) = ResolveStep(Verse(s, v).stage, VerseSteps(lines, first), lines)
  BY DEF StepOf, Steps
<1> HIDE DEF lines, first
<1>4. StepOf(s, id, v) \in 0..(StepCount(lines, first) - 1)
  <2>1. lines \in Nat \ {0} /\ Verse(s, v).stage \in Nat
    BY <1>1, VerseParts
  <2> QED BY <1>1, <1>3, <2>1, ResolvePlace
<1> DEFINE step == StepOf(s, id, v)
           kind == VerseSteps(lines, first)[step + 1].kind
<1>5. Target(s, id, v, grade) =
        Moved(Verse(s, v), NextStep(kind, grade, step), VerseSteps(lines, first))
  BY <1>2 DEF Target
<1> HIDE DEF step, kind
<1>6. step \in 0..(StepCount(lines, first) - 1)
  BY <1>4 DEF step
<1>7. Verse(s, v) \in VerseRows(MaxLines)
  BY VerseParts
<1> QED BY <1>1, <1>5, <1>6, <1>7, MaxLinesType, MovedType

\* Joined writes are writes.
LEMMA JoinNew ==
  ASSUME NEW f, NEW g, IsNew(f), IsNew(g)
  PROVE  IsNew(Join(f, g))
BY DEF IsNew, Join

\* Reviews write verses.
LEMMA ReviewsNew ==
  ASSUME NEW s \in GoodStates, NEW vs \in SUBSET Verses, NEW g \in [Verses -> Grades],
         NEW early
  PROVE  IsNew(Reviews(s, vs, g, early))
<1> SUFFICES ASSUME NEW v \in vs
             PROVE  /\ Reviews(s, vs, g, early)[<<"verse", v>>].reps \in Nat
                    /\ Reviews(s, vs, g, early)[<<"verse", v>>].is
                         \in ContentsOf(<<"verse", v>>)
  <2>1. DOMAIN Reviews(s, vs, g, early) = {"verse"} \X vs
    BY DEF Reviews
  <2> QED BY <2>1 DEF IsNew, Keys
<1>1. Reviewed(Verse(s, v), g[v]) \in VerseRows(MaxLines)
  BY VerseParts, RowTypes, MemorySyncAssumption
<1>2. Reviews(s, vs, g, early)[<<"verse", v>>] =
        Content(s, v, Reviewed(Verse(s, v), g[v]), g[v] # "again" /\ v \notin early)
  BY DEF Reviews
<1>3. ASSUME NEW srs, NEW repeated \in BOOLEAN
      PROVE  /\ Content(s, v, srs, repeated).reps \in Nat
             /\ Content(s, v, srs, repeated).is = srs
  BY VerseParts DEF Content
<1> QED BY <1>1, <1>2, <1>3, ContentsTypes

\* One key alone is written.
LEMMA OnlyNew ==
  ASSUME NEW k \in Keys, NEW content, content.reps \in Nat, content.is \in ContentsOf(k)
  PROVE  IsNew(Only(k, content))
BY DEF IsNew, Only

-----------------------------------------------------------------------------
(* Type correctness *)

\* The inductive form of the type invariant: every database and every snapshot
\* is a good state.
TypeInv ==
  /\ db \in [Devices -> GoodStates]
  /\ server \in GoodStates
  /\ writes \in Writes
  /\ history \in [Keys -> [Writes -> SUBSET Writes]]
  /\ given \in [Entries -> Nat]
  /\ paid \in [Ids -> [Devices -> Nat]]
  /\ RoundsTypeOK(GoodStates)
  /\ Connected

\* Whatever exists anywhere is a good state.
LEMMA CopiesGood == TypeInv => Copies \subseteq GoodStates
BY InFlightType DEF TypeInv, Copies

\* What a call of the learner does: some rows are written and some answers
\* logged, and the bonuses are counted.
Wrote(d) ==
  \E new, entries : \E now \in Epochs : IsNew(new) /\ Write(d, new, entries, now)

\* A learning card writes the verse, those of the section before it, and a run.
LEMMA LearningWrites ==
  ASSUME TypeInv, NEW d \in Devices, NEW id \in Ids, NEW v \in Verses,
         NEW g \in [Verses -> Grades], NEW early \in SUBSET Verses, NEW now \in Epochs,
         SubmitLearning(d, id, v, g, early, now)
  PROVE  /\ Wrote(d)
         /\ paid' \in [Ids -> [Devices -> Nat]]
<1> DEFINE s       == db[d]
           target  == Target(s, id, v, g[v])
           chained == IF Steps(s, id, v)[StepOf(s, id, v) + 1].kind = "chain"
                      THEN LearntBefore(s, id, v) ELSE {}
           verses  == Join(Only(<<"verse", v>>, Content(s, v, target, target.learnt)),
                           Reviews(s, chained, g, early))
           after   == After(s, verses)
           joined  == /\ target.learnt
                      /\ Section(s, id, v) \subseteq Known(after, id)
                      /\ \E w \in Known(after, id) : w < SectionStart(s, id, v)
           new     == IF target.learnt THEN NewlyComplete(s, after) ELSE {}
           written == IF joined THEN Join(verses, Only(<<"run", id>>, RunContent)) ELSE verses
<1>1. /\ Write(d, written,
               TargetEntries(v, g[v], new, now) \cup ReviewEntries(chained, g, now), now)
      /\ paid' = [i \in Ids |-> IF i \in new THEN [paid[i] EXCEPT ![d] = @ + 1] ELSE paid[i]]
  BY DEF SubmitLearning
<1>2. s \in GoodStates
  BY DEF TypeInv
<1>3. target \in VerseRows(MaxLines) /\ target.learnt \in BOOLEAN
  BY <1>2, TargetType DEF VerseRows
<1>4. chained \in SUBSET Verses
  BY MemorySyncAssumption DEF LearntBefore, Known
<1> HIDE DEF target, chained
<1>5. IsNew(verses)
  <2>1. /\ Content(s, v, target, target.learnt).reps \in Nat
        /\ Content(s, v, target, target.learnt).is = target
    BY <1>2, <1>3, VerseParts DEF Content
  <2> DEFINE c == Content(s, v, target, target.learnt)
  <2> HIDE DEF c
  <2>2. IsNew(Only(<<"verse", v>>, c))
    BY <1>3, <2>1, ContentsTypes, OnlyNew DEF c
  <2>3. IsNew(Reviews(s, chained, g, early))
    BY <1>2, <1>4, ReviewsNew
  <2> QED BY <2>2, <2>3, JoinNew DEF c
<1>6. IsNew(Only(<<"run", id>>, RunContent))
  BY ContentsTypes, OnlyNew DEF RunContent, RunContents
<1> HIDE DEF s, verses, joined, new
<1>7. IsNew(written)
  BY <1>5, <1>6, JoinNew
<1> HIDE DEF written
<1>8. paid' \in [Ids -> [Devices -> Nat]]
  BY <1>1 DEF TypeInv
<1> QED BY <1>1, <1>7, <1>8 DEF Wrote

\* A review writes verses, and a run.
LEMMA ReviewWrites ==
  ASSUME TypeInv, NEW d \in Devices, NEW id \in Ids, NEW vs \in SUBSET Verses,
         NEW g \in [Verses -> Grades], NEW early, NEW isRun \in BOOLEAN, NEW now \in Epochs,
         SubmitReview(d, id, vs, g, early, isRun, now)
  PROVE  Wrote(d) /\ UNCHANGED paid
<1> DEFINE verses  == Reviews(db[d], vs, g, early)
           written == IF isRun THEN Join(verses, Only(<<"run", id>>, RunContent)) ELSE verses
<1>1. Write(d, written, ReviewEntries(vs, g, now), now) /\ UNCHANGED paid
  BY DEF SubmitReview
<1>2. db[d] \in GoodStates
  BY DEF TypeInv
<1>3. IsNew(verses)
  BY <1>2, ReviewsNew
<1>4. IsNew(Only(<<"run", id>>, RunContent))
  BY ContentsTypes, OnlyNew DEF RunContent, RunContents
<1> HIDE DEF verses
<1>5. IsNew(written)
  BY <1>3, <1>4, JoinNew
<1> HIDE DEF written
<1> QED BY <1>1, <1>5 DEF Wrote

\* A reshaping writes the layout, and the verse it starts over.
LEMMA ReshapeWrites ==
  ASSUME TypeInv, NEW d \in Devices, NEW v \in Verses, NEW shape \in Shapes,
         NEW restart, NEW now \in Epochs, Reshape(d, v, shape, restart, now)
  PROVE  Wrote(d) /\ UNCHANGED paid
<1> DEFINE layout    == Only(<<"layout", v>>, [reps |-> 0, is |-> shape])
           restarted == RestartedVerse(db[d], v, restart)
<1>1. Write(d, Join(layout, restarted), {}, now) /\ UNCHANGED paid
  BY DEF Reshape
<1>2. IsNew(layout)
  BY ContentsTypes, OnlyNew
<1>3. IsNew(restarted)
  <2>1. CASE restarted = <<>>
    BY <2>1 DEF IsNew
  <2>2. CASE restarted = Only(<<"verse", v>>, Content(db[d], v, Restarted(Verse(db[d], v)), FALSE))
    <3>1. db[d] \in GoodStates
      BY DEF TypeInv
    <3>2. Restarted(Verse(db[d], v)) \in VerseRows(MaxLines)
      BY <3>1, VerseParts, RowTypes, MaxLinesType
    <3>3. /\ Content(db[d], v, Restarted(Verse(db[d], v)), FALSE).reps \in Nat
          /\ Content(db[d], v, Restarted(Verse(db[d], v)), FALSE).is
               \in ContentsOf(<<"verse", v>>)
      <4>1. Reps(db[d], v) \in Nat /\ ContentsOf(<<"verse", v>>) = VerseRows(MaxLines)
        BY <3>1, VerseParts, ContentsTypes
      <4> QED BY <3>2, <4>1 DEF Content
    <3> QED BY <2>2, <3>3, ContentsTypes, OnlyNew
  <2> QED BY <2>1, <2>2 DEF RestartedVerse
<1> HIDE DEF layout, restarted
<1> QED BY <1>1, <1>2, <1>3, JoinNew DEF Wrote

\* Every call of the learner writes.
LEMMA PractiseWrites ==
  ASSUME TypeInv, NEW d \in Devices, Practise(d)
  PROVE  /\ Wrote(d)
         /\ paid' \in [Ids -> [Devices -> Nat]]
<1>1. paid \in [Ids -> [Devices -> Nat]]
  BY DEF TypeInv
<1>2. PICK now \in Epochs :
        \/ \E g \in [Verses -> Grades], id \in Ids, early \in SUBSET Verses :
             \/ \E v \in Verses : SubmitLearning(d, id, v, g, early, now)
             \/ \E vs \in SUBSET Verses, isRun \in BOOLEAN :
                  SubmitReview(d, id, vs, g, early, isRun, now)
        \/ \E v \in Verses :
             \/ \E lines \in 0..MaxLines : SetLineStarts(d, v, lines, now)
             \/ \E opens \in BOOLEAN : SetSectionStart(d, v, opens, now)
  <2>1. \A id \in Ids : Covers[id] \subseteq Verses /\ Known(db[d], id) \subseteq Verses
    BY MemorySyncAssumption DEF Known
  <2> QED BY <2>1 DEF Practise
<1>3. ASSUME NEW g \in [Verses -> Grades], NEW id \in Ids, NEW early \in SUBSET Verses,
             \/ \E v \in Verses : SubmitLearning(d, id, v, g, early, now)
             \/ \E vs \in SUBSET Verses, isRun \in BOOLEAN :
                  SubmitReview(d, id, vs, g, early, isRun, now)
      PROVE  Wrote(d) /\ paid' \in [Ids -> [Devices -> Nat]]
  <2>1. ASSUME NEW v \in Verses, SubmitLearning(d, id, v, g, early, now)
        PROVE  Wrote(d) /\ paid' \in [Ids -> [Devices -> Nat]]
    BY <2>1, LearningWrites
  <2>2. ASSUME NEW vs \in SUBSET Verses, NEW isRun \in BOOLEAN,
               SubmitReview(d, id, vs, g, early, isRun, now)
        PROVE  Wrote(d) /\ UNCHANGED paid
    BY <2>2, ReviewWrites
  <2> QED BY <1>1, <1>3, <2>1, <2>2
<1>4. ASSUME NEW v \in Verses,
             \/ \E lines \in 0..MaxLines : SetLineStarts(d, v, lines, now)
             \/ \E opens \in BOOLEAN : SetSectionStart(d, v, opens, now)
      PROVE  Wrote(d) /\ UNCHANGED paid
  <2>1. Shape(db[d], v) \in Shapes
    BY VerseParts DEF TypeInv
  <2>2. ASSUME NEW lines \in 0..MaxLines PROVE [Shape(db[d], v) EXCEPT !.lines = lines] \in Shapes
    BY <2>1 DEF Shapes
  <2>3. ASSUME NEW opens \in BOOLEAN PROVE [Shape(db[d], v) EXCEPT !.opens = opens] \in Shapes
    BY <2>1 DEF Shapes
  <2> QED BY <1>4, <2>2, <2>3, ReshapeWrites DEF SetLineStarts, SetSectionStart
<1> QED BY <1>1, <1>2, <1>3, <1>4

\* A write keeps the types.
LEMMA WriteType ==
  ASSUME TypeInv, NEW d \in Devices, NEW new, NEW entries, NEW now \in Epochs,
         IsNew(new), Write(d, new, entries, now)
  PROVE  /\ db' \in [Devices -> GoodStates]
         /\ writes \in Nat /\ writes' = writes + 1 /\ writes + 1 \in Writes
         /\ history' \in [Keys -> [Writes -> SUBSET Writes]]
         /\ given' \in [Entries -> Nat]
<1>1. writes \in Nat /\ writes + 1 \in Writes /\ writes' = writes + 1
  BY MemorySyncAssumption DEF TypeInv, Write, Writes
<1>2. db[d] \in GoodStates
  BY DEF TypeInv
<1>3. ASSUME NEW k \in Keys
      PROVE  /\ Rewritten(db[d], new, now)[k] \in Rows \cup {NoRow}
             /\ Rewritten(db[d], new, now)[k] # NoRow =>
                  Rewritten(db[d], new, now)[k].is \in ContentsOf(k)
  <2>1. db[d].rows[k] \in Rows \cup {NoRow}
    BY <1>2, StateParts
  <2>2. CASE k \in DOMAIN new
    <3>1. Stamp(db[d].rows[k], now) \in Nat
      BY <2>1, StampIncreases
    <3>2. new[k].reps \in Nat /\ new[k].is \in ContentsOf(k) /\ new[k].is \in Contents
      BY <2>2, ContentsTypes DEF IsNew
    <3> QED BY <1>1, <2>2, <3>1, <3>2 DEF Rewritten, Rows
  <2>3. CASE k \notin DOMAIN new
    BY <1>2, <2>1, <2>3, StateParts DEF Rewritten
  <2> QED BY <2>2, <2>3
<1>4. [rows |-> Rewritten(db[d], new, now),
       log  |-> [e \in Entries |-> db[d].log[e] + IF e \in entries THEN 1 ELSE 0]]
        \in GoodStates
  <2>1. Rewritten(db[d], new, now) \in [Keys -> Rows \cup {NoRow}]
    BY <1>3 DEF Rewritten
  <2>2. [e \in Entries |-> db[d].log[e] + IF e \in entries THEN 1 ELSE 0] \in [Entries -> Nat]
    BY <1>2, StateParts
  <2> QED BY <1>3, <2>1, <2>2, GoodState
<1>5. db' \in [Devices -> GoodStates]
  BY <1>4 DEF Write, TypeInv
<1>6. ASSUME NEW k \in Keys PROVE HistoryOf(k, db[d].rows[k]) \in SUBSET Writes
  BY <1>2, StateParts DEF HistoryOf, TypeInv
<1>7. history' \in [Keys -> [Writes -> SUBSET Writes]]
  BY <1>1, <1>6 DEF TypeInv, Write
<1>8. given' \in [Entries -> Nat]
  BY DEF TypeInv, Write
<1> QED BY <1>1, <1>5, <1>7, <1>8

\* Every step does to the rounds what SnapshotRounds says.
LEMMA StepRounds ==
  ASSUME TypeInv, [Next]_vars
  PROVE  /\ RoundStep(GoodStates)
         /\ server' \in GoodStates
<1>0. RoundsTypeOK(GoodStates) /\ server \in GoodStates /\ db \in [Devices -> GoodStates]
  BY DEF TypeInv
<1>1. ASSUME NEW d \in Devices, Practise(d)
      PROVE  RoundStep(GoodStates) /\ server' \in GoodStates
  BY <1>0, <1>1, PractiseWrites DEF Wrote, Write, RoundStep, roundVars
<1>2. ASSUME NEW d \in Devices, StartRound(d)
      PROVE  RoundStep(GoodStates) /\ server' \in GoodStates
  BY <1>0, <1>2 DEF StartRound, RoundStep
<1>3. ASSUME NEW q \in wire, HandlePost(q)
      PROVE  RoundStep(GoodStates) /\ server' \in GoodStates
  <2>1. q.body \in GoodStates
    BY <1>0 DEF RoundsTypeOK
  <2>2. server' \in GoodStates /\ Answer(q, server')
    BY <1>0, <1>3, <2>1, MergeKeeps DEF HandlePost
  <2> QED BY <2>2 DEF RoundStep
<1>4. ASSUME NEW d \in Devices, MergeAnswer(d) \/ Disconnect(d)
      PROVE  RoundStep(GoodStates) /\ server' \in GoodStates
  BY <1>0, <1>4 DEF MergeAnswer, Disconnect, RoundStep
<1>5. CASE UNCHANGED vars
  BY <1>0, <1>5 DEF vars, RoundStep, roundVars
<1> QED BY <1>1, <1>2, <1>3, <1>4, <1>5 DEF Next

\* A step that is no call of the learner writes nothing of its own.
LEMMA OtherSteps ==
  ASSUME TypeInv, [Next]_vars, ~\E d \in Devices : Practise(d)
  PROVE  /\ UNCHANGED <<writes, history, given, paid>>
         /\ server' # server =>
              \E q \in wire : HandlePost(q) /\ server' = MergeMemory(server, q.body)
         /\ \A d \in Devices : db'[d] # db[d] =>
              MergeAnswer(d) /\ db'[d] = MergeMemory(db[d], round[d].answer)
<1>1. CASE UNCHANGED vars
  BY <1>1 DEF vars
<1>2. CASE \E d \in Devices : StartRound(d) \/ Disconnect(d)
  BY <1>2 DEF StartRound, Disconnect, ghosts
<1>3. CASE \E q \in wire : HandlePost(q)
  BY <1>3 DEF HandlePost, ghosts
<1>4. CASE \E d \in Devices : MergeAnswer(d)
  BY <1>4 DEF MergeAnswer, ghosts, TypeInv
<1> QED BY <1>1, <1>2, <1>3, <1>4 DEF Next

\* A step keeps the types.
LEMMA StepType == TypeInv /\ [Next]_vars => TypeInv'
<1> SUFFICES ASSUME TypeInv, [Next]_vars PROVE TypeInv'
  OBVIOUS
<1>1. RoundsTypeOK(GoodStates) /\ RoundStep(GoodStates) /\ server' \in GoodStates
  BY StepRounds DEF TypeInv
<1>2. RoundsTypeOK(GoodStates)' /\ Connected'
  BY <1>1, RoundStepType, RoundStepConnected DEF TypeInv
<1>3. ASSUME NEW d \in Devices, Practise(d) PROVE TypeInv'
  <2>1. PICK new, entries : \E now \in Epochs : IsNew(new) /\ Write(d, new, entries, now)
    BY <1>3, PractiseWrites DEF Wrote
  <2>2. PICK now \in Epochs : IsNew(new) /\ Write(d, new, entries, now)
    BY <2>1
  <2>3. writes' \in Writes
    BY <2>2, WriteType
  <2> QED BY <1>1, <1>2, <1>3, <2>2, <2>3, WriteType, PractiseWrites DEF TypeInv
<1>4. ASSUME NEW d \in Devices, MergeAnswer(d) PROVE db' \in [Devices -> GoodStates]
  <2>1. round[d].answer \in GoodStates
    BY <1>1, <1>4, RoundShapes DEF MergeAnswer
  <2> QED BY <1>4, <2>1, MergeKeeps DEF MergeAnswer, TypeInv
<1>5. CASE ~\E d \in Devices : Practise(d)
  <2>1. db' \in [Devices -> GoodStates]
    BY <1>4, <1>5 DEF Next, StartRound, HandlePost, Disconnect, vars, TypeInv
  <2>2. UNCHANGED <<writes, history, given, paid>>
    BY <1>5, OtherSteps
  <2> QED BY <1>1, <1>2, <2>1, <2>2 DEF TypeInv
<1> QED BY <1>3, <1>5

\* What every device and the server hold at first is a good state.
LEMMA FirstGood == FirstStates \subseteq GoodStates
BY MemorySyncAssumption DEF GoodStates

\* The first state has the types, and nothing is under way in it.
LEMMA InitType == Init => TypeInv
<1> SUFFICES ASSUME Init PROVE TypeInv
  OBVIOUS
<1>1. PICK s \in FirstStates :
        /\ db = [d \in Devices |-> s] /\ server = s
        /\ given = s.log
        /\ paid \in [Ids -> [Devices -> {0, 1}]]
  BY DEF Init
<1>2. s \in GoodStates /\ s.log \in [Entries -> Nat]
  BY <1>1, FirstGood DEF GoodStates, States
<1>3. history \in [Keys -> [Writes -> SUBSET Writes]] /\ writes \in Writes
  BY MemorySyncAssumption DEF Init, Writes
<1>4. RoundsTypeOK(GoodStates) /\ Connected
  BY RoundsAssumption DEF Init, RoundsInit, RoundsTypeOK, Connected
<1>5. paid \in [Ids -> [Devices -> Nat]]
  BY <1>1
<1> QED BY <1>1, <1>2, <1>3, <1>4, <1>5 DEF TypeInv

\* Types with snapshots that are states, and every copy a good one.
LEMMA TypeInvSuffices == TypeInv => TypeOK
<1> SUFFICES ASSUME TypeInv PROVE TypeOK
  OBVIOUS
<1>1. GoodStates \subseteq States
  BY DEF GoodStates
<1>2. Copies \subseteq GoodStates
  BY CopiesGood
<1>3. RoundsTypeOK(States)
  BY <1>1 DEF TypeInv, RoundsTypeOK
<1>4. \A s \in Copies, k \in Keys : s.rows[k] # NoRow => s.rows[k].is \in ContentsOf(k)
  BY <1>2 DEF GoodStates
<1> QED BY <1>1, <1>3, <1>4 DEF TypeInv, TypeOK

\* The inductive form holds always.
LEMMA TypeInvariant == Spec => []TypeInv
BY InitType, StepType, PTL DEF Spec

\* Type correctness.
THEOREM TypeCorrect == Spec => []TypeOK
BY TypeInvariant, TypeInvSuffices, PTL

-----------------------------------------------------------------------------
(* Where states come from *)

\* Exporting and disconnecting make no new snapshot; the server's merge makes
\* its own new state only, and a device's merge or call only its own.
LEMMA NewCopies ==
  ASSUME TypeInv, [Next]_vars, NEW s \in Copies'
  PROVE  s \in Copies \/ s = server' \/ \E d \in Devices : s = db'[d]
<1> DEFINE New == Copies \cup {server'}
<1>1. RoundStep(New)
  <2>1. ASSUME NEW d \in Devices, Practise(d) PROVE RoundStep(New)
    BY <2>1, PractiseWrites DEF Wrote, Write, RoundStep, roundVars
  <2>2. ASSUME NEW d \in Devices, StartRound(d) PROVE RoundStep(New)
    BY <2>2 DEF StartRound, RoundStep, Copies
  <2>3. ASSUME NEW q \in wire, HandlePost(q) PROVE RoundStep(New)
    BY <2>3 DEF HandlePost, RoundStep
  <2>4. ASSUME NEW d \in Devices, MergeAnswer(d) \/ Disconnect(d) PROVE RoundStep(New)
    BY <2>4 DEF MergeAnswer, Disconnect, RoundStep
  <2>5. CASE UNCHANGED vars
    BY <2>5 DEF vars, RoundStep, roundVars
  <2> QED BY <2>1, <2>2, <2>3, <2>4, <2>5 DEF Next
<1> HIDE DEF New
<1>2. SnapshotsInFlight' \subseteq SnapshotsInFlight \cup New
  BY <1>1, RoundStepSnapshots DEF TypeInv
<1> QED BY <1>2 DEF Copies, New

\* The states that a merge brings together exist, and are good.
LEMMA MergedExist ==
  ASSUME TypeInv
  PROVE  /\ server \in Copies /\ server \in GoodStates
         /\ \A d \in Devices : db[d] \in Copies /\ db[d] \in GoodStates
         /\ \A q \in wire : q.body \in Copies /\ q.body \in GoodStates
         /\ \A d \in Devices : Answered(d) =>
              round[d].answer \in Copies /\ round[d].answer \in GoodStates
<1>1. \A q \in wire : q.body \in Copies
  BY DEF Copies, SnapshotsInFlight
<1>2. \A d \in Devices : Answered(d) => round[d].answer \in Copies
  BY DEF Copies, SnapshotsInFlight
<1>3. server \in Copies /\ \A d \in Devices : db[d] \in Copies
  BY DEF Copies
<1> QED BY <1>1, <1>2, <1>3, CopiesGood

\* A step other than a call makes of existing states only merged ones.
LEMMA OnlyMerged ==
  ASSUME TypeInv, [Next]_vars, ~\E d \in Devices : Practise(d), NEW s \in Copies'
  PROVE  s \in Copies \/ \E a \in Copies, b \in Copies : s = MergeMemory(a, b)
<1>1. server' \in Copies \/ \E a \in Copies, b \in Copies : server' = MergeMemory(a, b)
  BY OtherSteps, MergedExist
<1>2. ASSUME NEW d \in Devices
      PROVE  db'[d] \in Copies \/ \E a \in Copies, b \in Copies : db'[d] = MergeMemory(a, b)
  BY OtherSteps, MergedExist DEF MergeAnswer
<1> QED BY <1>1, <1>2, NewCopies

-----------------------------------------------------------------------------
(* Answers *)

\* However snapshots are sent, lost, resent and answered late, no log holds an
\* answer more often than the learner gave it.
THEOREM AnswersCorrect == Spec => []AnswersCountOnce
<1> DEFINE AInv == TypeInv /\ AnswersCountOnce
<1>1. Init => AInv
  <2> SUFFICES ASSUME Init PROVE AnswersCountOnce
    BY InitType
  <2>1. PICK s \in FirstStates : /\ db = [d \in Devices |-> s] /\ server = s
                                 /\ given = s.log
    BY DEF Init
  <2>2. \A c \in Copies : c = s
    BY <2>1 DEF Copies, SnapshotsInFlight, Init, RoundsInit, Waiting, Answered, NoRound
  <2>3. s.log \in [Entries -> Nat]
    BY FirstGood DEF GoodStates, States
  <2> QED BY <2>1, <2>2, <2>3 DEF AnswersCountOnce
<1>2. AInv /\ [Next]_vars => AInv'
  <2> SUFFICES ASSUME AInv, [Next]_vars, NEW s \in Copies', NEW e \in Entries
               PROVE  s.log[e] <= given'[e]
    BY StepType DEF AnswersCountOnce
  <2>1. \A c \in Copies : c.log[e] \in Nat /\ c.log[e] <= given[e]
    BY CopiesGood, StateParts DEF AnswersCountOnce
  <2>2. given[e] \in Nat
    BY DEF TypeInv
  <2>3. CASE ~\E d \in Devices : Practise(d)
    <3>1. given' = given
      BY <2>3, OtherSteps
    <3>2. ASSUME NEW a \in Copies, NEW b \in Copies
          PROVE  MergeMemory(a, b).log[e] \in {a.log[e], b.log[e]}
      BY CopiesGood, MergeKeeps
    <3> QED BY <2>1, <2>3, <3>1, <3>2, OnlyMerged
  <2>4. ASSUME NEW d \in Devices, Practise(d) PROVE s.log[e] <= given'[e]
    <3>1. PICK new, entries : \E now \in Epochs : IsNew(new) /\ Write(d, new, entries, now)
      BY <2>4, PractiseWrites DEF Wrote
    <3>2. PICK now \in Epochs : Write(d, new, entries, now)
      BY <3>1
    <3>3. /\ server' = server
          /\ given'[e] = given[e] + IF e \in entries THEN 1 ELSE 0
          /\ db'[d].log[e] = db[d].log[e] + IF e \in entries THEN 1 ELSE 0
          /\ \A c \in Devices : c # d => db'[c] = db[c]
      BY <3>2 DEF Write, TypeInv
    <3>4. s \in Copies \/ s = db'[d]
      BY <3>3, NewCopies, MergedExist
    <3> QED BY <2>1, <2>2, <3>3, <3>4, MergedExist
  <2> QED BY <2>3, <2>4
<1>3. AInv => AnswersCountOnce
  OBVIOUS
<1> QED BY <1>1, <1>2, <1>3, PTL DEF Spec

\* No step takes an answer away from a log.
LEMMA LogsGrow ==
  ASSUME TypeInv, [Next]_vars, NEW e \in Entries
  PROVE  /\ server'.log[e] >= server.log[e]
         /\ \A d \in Devices : db'[d].log[e] >= db[d].log[e]
<1>1. /\ server.log[e] \in Nat
      /\ \A d \in Devices : db[d].log[e] \in Nat
  BY MergedExist, StateParts
<1>2. CASE ~\E d \in Devices : Practise(d)
  BY <1>1, <1>2, OtherSteps, MergedExist, MergeKeeps DEF MergeAnswer
<1>3. ASSUME NEW d \in Devices, Practise(d)
      PROVE  /\ server'.log[e] >= server.log[e]
             /\ \A c \in Devices : db'[c].log[e] >= db[c].log[e]
  <2>1. PICK new, entries, now : Write(d, new, entries, now)
    BY <1>3, PractiseWrites DEF Wrote
  <2>2. /\ server' = server
        /\ db'[d].log[e] = db[d].log[e] + IF e \in entries THEN 1 ELSE 0
        /\ \A c \in Devices : c # d => db'[c] = db[c]
    BY <2>1 DEF Write, TypeInv
  <2> QED BY <1>1, <2>2
<1> QED BY <1>2, <1>3

\* A merge leaves no answer of either side out.
THEOREM MergesCorrect == Spec => MergesKeepAnswers
<1> DEFINE Keeps ==
      /\ \A e \in Entries : server'.log[e] >= server.log[e]
      /\ \A q \in wire \ wire' : HandlePost(q) =>
           \A e \in Entries : server'.log[e] >= q.body.log[e]
      /\ \A d \in Devices :
           /\ \A e \in Entries : db'[d].log[e] >= db[d].log[e]
           /\ round'[d] = NoRound /\ MergeAnswer(d) =>
                \A e \in Entries : db'[d].log[e] >= round[d].answer.log[e]
<1>1. TypeInv /\ [Next]_vars => [Keeps]_vars
  <2> SUFFICES ASSUME TypeInv, [Next]_vars PROVE Keeps
    OBVIOUS
  <2>1. ASSUME NEW q \in wire, HandlePost(q), NEW e \in Entries
        PROVE  server'.log[e] >= q.body.log[e]
    BY <2>1, MergedExist, MergeKeeps DEF HandlePost
  <2>2. ASSUME NEW d \in Devices, MergeAnswer(d), NEW e \in Entries
        PROVE  db'[d].log[e] >= round[d].answer.log[e]
    <3>1. db'[d] = MergeMemory(db[d], round[d].answer)
      BY <2>2 DEF MergeAnswer, TypeInv
    <3> QED BY <2>2, <3>1, MergedExist, MergeKeeps DEF MergeAnswer
  <2> QED BY <2>1, <2>2, LogsGrow
<1> QED BY <1>1, TypeInvariant, PTL DEF Spec, MergesKeepAnswers

-----------------------------------------------------------------------------
(* Bonuses *)

\* Each completion of an answer is written on some row of the log.
LEMMA CompletionsLogged ==
  ASSUME NEW v \in Verses, NEW grade \in Grades, NEW new \in SUBSET Ids, NEW now \in Epochs,
         NEW id \in new
  PROVE  \E e \in TargetEntries(v, grade, new, now) : e \in Entries /\ e.done = id
<1> DEFINE first == CHOOSE i \in new : TRUE
<1>1. first \in new /\ first \in Ids
  OBVIOUS
<1>2. new # {}
  OBVIOUS
<1>3. TargetEntries(v, grade, new, now) =
        {[epoch |-> now, verse |-> v, grade |-> grade, done |-> first]}
          \cup {[epoch |-> now, verse |-> v, grade |-> "none", done |-> i] :
                  i \in new \ {first}}
  BY <1>2 DEF TargetEntries
<1> HIDE DEF first
<1>4. CASE id = first
  <2> DEFINE e == [epoch |-> now, verse |-> v, grade |-> grade, done |-> first]
  <2>1. e \in TargetEntries(v, grade, new, now)
    BY <1>3
  <2>2. e \in Entries /\ e.done = id
    BY <1>1, <1>4 DEF Entries
  <2> QED BY <2>1, <2>2
<1>5. CASE id # first
  <2> DEFINE e == [epoch |-> now, verse |-> v, grade |-> "none", done |-> id]
  <2>1. e \in TargetEntries(v, grade, new, now)
    BY <1>3, <1>5
  <2>2. e \in Entries /\ e.done = id
    BY DEF Entries
  <2> QED BY <2>1, <2>2
<1> QED BY <1>4, <1>5

\* Completions that a device knows of stay known to it.
LEMMA CompletionsStay ==
  ASSUME TypeInv, [Next]_vars, NEW d \in Devices
  PROVE  EverCompleted(db[d]) \subseteq EverCompleted(db'[d])
<1> SUFFICES ASSUME NEW e \in Entries, db[d].log[e] > 0
             PROVE  db'[d].log[e] > 0
  BY DEF EverCompleted
<1>1. db[d].log[e] \in Nat /\ db'[d].log[e] >= db[d].log[e]
  BY LogsGrow, MergedExist, StateParts
<1>2. db'[d].log[e] \in Nat
  BY StepType, StateParts DEF TypeInv
<1> QED BY <1>1, <1>2

\* A learning card pays only for passages the log knows no completion of, and
\* leaves one.
LEMMA LearningPays ==
  ASSUME TypeInv, NEW d \in Devices, NEW id \in Ids, NEW v \in Verses,
         NEW g \in [Verses -> Grades], NEW early, NEW now \in Epochs,
         SubmitLearning(d, id, v, g, early, now)
  PROVE  \E new \in SUBSET Ids :
           /\ paid' = [i \in Ids |-> IF i \in new THEN [paid[i] EXCEPT ![d] = @ + 1]
                                                  ELSE paid[i]]
           /\ \A i \in new : i \notin EverCompleted(db[d]) /\ i \in EverCompleted(db'[d])
<1> DEFINE s       == db[d]
           target  == Target(s, id, v, g[v])
           chained == IF Steps(s, id, v)[StepOf(s, id, v) + 1].kind = "chain"
                      THEN LearntBefore(s, id, v) ELSE {}
           verses  == Join(Only(<<"verse", v>>, Content(s, v, target, target.learnt)),
                           Reviews(s, chained, g, early))
           after   == After(s, verses)
           joined  == /\ target.learnt
                      /\ Section(s, id, v) \subseteq Known(after, id)
                      /\ \E w \in Known(after, id) : w < SectionStart(s, id, v)
           new     == IF target.learnt THEN NewlyComplete(s, after) ELSE {}
           written == IF joined THEN Join(verses, Only(<<"run", id>>, RunContent)) ELSE verses
           entries == TargetEntries(v, g[v], new, now) \cup ReviewEntries(chained, g, now)
<1>1. /\ Write(d, written, entries, now)
      /\ paid' = [i \in Ids |-> IF i \in new THEN [paid[i] EXCEPT ![d] = @ + 1] ELSE paid[i]]
  BY DEF SubmitLearning
<1>2. new \in SUBSET Ids /\ \A i \in new : i \notin EverCompleted(s)
  BY DEF NewlyComplete, CompletedIds
<1> HIDE DEF new, written, chained
<1>3. ASSUME NEW i \in new PROVE i \in EverCompleted(db'[d])
  <2>1. PICK e \in TargetEntries(v, g[v], new, now) : e \in Entries /\ e.done = i
    BY <1>2, <1>3, CompletionsLogged
  <2>2. db'[d].log[e] = db[d].log[e] + 1
    BY <1>1, <2>1 DEF Write, TypeInv
  <2>3. db[d].log[e] \in Nat
    BY <2>1, MergedExist, StateParts
  <2> QED BY <1>2, <2>1, <2>2, <2>3 DEF EverCompleted
<1> QED BY <1>1, <1>2, <1>3

\* No device pays a passage's completion twice, or once it knows that another
\* paid it.
THEOREM PaidCorrect == Spec => []PaidOncePerDevice
<1> DEFINE PInv == TypeInv /\ PaidOncePerDevice
<1>1. Init => PInv
  <2> SUFFICES ASSUME Init, NEW id \in Ids, NEW d \in Devices
               PROVE  /\ paid[id][d] <= 1
                      /\ paid[id][d] = 1 => id \in EverCompleted(db[d])
    BY InitType DEF PaidOncePerDevice
  <2>1. PICK s \in FirstStates :
          /\ db = [c \in Devices |-> s]
          /\ paid \in [Ids -> [Devices -> {0, 1}]]
          /\ \A i \in Ids : Cardinality({c \in Devices : paid[i][c] = 1}) =
                              IF i \in EverCompleted(s) THEN 1 ELSE 0
    BY DEF Init
  <2>2. paid[id][d] \in {0, 1}
    BY <2>1
  <2>3. ASSUME paid[id][d] = 1 PROVE id \in EverCompleted(s)
    <3> DEFINE payers == {c \in Devices : paid[id][c] = 1}
    <3>1. payers # {}
      BY <2>3
    <3>2. IsFiniteSet(payers)
      BY MemorySyncAssumption, FS_Subset
    <3>3. Cardinality(payers) # 0
      BY <3>1, <3>2, FS_EmptySet
    <3> QED BY <2>1, <3>3
  <2> QED BY <2>1, <2>2, <2>3
<1>2. PInv /\ [Next]_vars => PInv'
  <2> SUFFICES ASSUME PInv, [Next]_vars, NEW id \in Ids, NEW d \in Devices
               PROVE  /\ paid'[id][d] <= 1
                      /\ paid'[id][d] = 1 => id \in EverCompleted(db'[d])
    BY StepType DEF PaidOncePerDevice
  <2>1. /\ paid[id][d] \in Nat /\ paid[id][d] <= 1
        /\ paid[id][d] = 1 => id \in EverCompleted(db[d])
    BY DEF TypeInv, PaidOncePerDevice
  <2>2. CASE UNCHANGED paid
    BY <2>1, <2>2, CompletionsStay
  <2>3. ASSUME NEW c \in Devices, NEW i \in Ids, NEW v \in Verses, NEW g \in [Verses -> Grades],
               NEW early, NEW now \in Epochs, SubmitLearning(c, i, v, g, early, now)
        PROVE  /\ paid'[id][d] <= 1
               /\ paid'[id][d] = 1 => id \in EverCompleted(db'[d])
    <3>1. PICK new \in SUBSET Ids :
            /\ paid' = [j \in Ids |-> IF j \in new THEN [paid[j] EXCEPT ![c] = @ + 1]
                                                   ELSE paid[j]]
            /\ \A j \in new : j \notin EverCompleted(db[c]) /\ j \in EverCompleted(db'[c])
      BY <2>3, LearningPays
    <3>2. CASE id \in new /\ c = d
      <4>1. paid'[id][d] = paid[id][d] + 1
        BY <3>1, <3>2 DEF TypeInv
      <4> QED BY <2>1, <3>1, <3>2, <4>1
    <3>3. CASE ~(id \in new /\ c = d)
      <4>1. paid'[id][d] = paid[id][d]
        BY <3>1, <3>3 DEF TypeInv
      <4> QED BY <2>1, <4>1, CompletionsStay
    <3> QED BY <3>2, <3>3
  <2>4. ASSUME NEW c \in Devices, Practise(c)
        PROVE  \/ UNCHANGED paid
               \/ \E i \in Ids, v \in Verses, g \in [Verses -> Grades], early \in SUBSET Verses,
                     now \in Epochs : SubmitLearning(c, i, v, g, early, now)
    <3>1. \A j \in Ids : Covers[j] \subseteq Verses /\ Known(db[c], j) \subseteq Verses
      BY MemorySyncAssumption DEF Known
    <3>2. ASSUME NEW j \in Ids, NEW vs, NEW g, NEW early, NEW isRun, NEW now,
                 SubmitReview(c, j, vs, g, early, isRun, now)
          PROVE  UNCHANGED paid
      BY <3>2 DEF SubmitReview
    <3>3. ASSUME NEW v, NEW lines, NEW now, SetLineStarts(c, v, lines, now)
          PROVE  UNCHANGED paid
      BY <3>3 DEF SetLineStarts, Reshape
    <3>4. ASSUME NEW v, NEW opens, NEW now, SetSectionStart(c, v, opens, now)
          PROVE  UNCHANGED paid
      BY <3>4 DEF SetSectionStart, Reshape
    <3> QED BY <2>4, <3>1, <3>2, <3>3, <3>4 DEF Practise
  <2>5. CASE ~\E c \in Devices : Practise(c)
    BY <2>2, <2>5, OtherSteps
  <2> QED BY <2>2, <2>3, <2>4, <2>5
<1>3. PInv => PaidOncePerDevice
  OBVIOUS
<1> QED BY <1>1, <1>2, <1>3, PTL DEF Spec

-----------------------------------------------------------------------------
(* The causal order of revisions *)

\* Writes that were not made yet are in no history, and every row is a write.
HistoryBounded ==
  \A k \in Keys :
    /\ \A w \in Writes : history[k][w] \subseteq 0..writes
    /\ \A x \in RowsOf(k) : x.val \in 0..writes /\ x.val \in history[k][x.val]

\* The inductive invariant.
IInv == TypeInv /\ HistoryBounded /\ RecitalsFollowHistory

\* The rows anywhere are rows.
LEMMA RowsOfType ==
  ASSUME TypeInv, NEW k \in Keys
  PROVE  /\ \A x \in RowsOf(k) : x.rev \in Nat /\ x.val \in Writes /\ x \in Rows
         /\ \A s \in Copies : s.rows[k] = NoRow \/ s.rows[k] \in RowsOf(k)
BY CopiesGood, StateParts DEF RowsOf

\* A step other than a call makes no row that is not somewhere already.
LEMMA NoNewRows ==
  ASSUME TypeInv, [Next]_vars, ~\E d \in Devices : Practise(d), NEW k \in Keys
  PROVE  RowsOf(k)' \subseteq RowsOf(k)
<1> SUFFICES ASSUME NEW s \in Copies', s.rows[k] # NoRow PROVE s.rows[k] \in RowsOf(k)
  BY DEF RowsOf
<1>1. CASE s \in Copies
  BY <1>1 DEF RowsOf
<1>2. ASSUME NEW a \in Copies, NEW b \in Copies, s = MergeMemory(a, b)
      PROVE  s.rows[k] \in RowsOf(k)
  <2>1. s.rows[k] \in {a.rows[k], b.rows[k]}
    BY <1>2, CopiesGood, MergeKeeps
  <2> QED BY <2>1 DEF RowsOf
<1> QED BY <1>1, <1>2, OnlyMerged

\* The row a call writes is above all it stands upon, and no history knew it.
LEMMA PractiseHistory ==
  ASSUME IInv, NEW d \in Devices, Practise(d)
  PROVE  HistoryBounded' /\ RecitalsFollowHistory'
<1>1. PICK new, entries : \E now \in Epochs : IsNew(new) /\ Write(d, new, entries, now)
  BY PractiseWrites DEF Wrote, IInv
<1>2. PICK now \in Epochs : IsNew(new) /\ Write(d, new, entries, now)
  BY <1>1
<1>3. writes \in Nat /\ writes' = writes + 1 /\ writes + 1 \in Writes
  BY <1>2, WriteType DEF IInv
<1> SUFFICES ASSUME NEW k \in Keys
             PROVE  /\ \A w \in Writes : history'[k][w] \subseteq 0..writes'
                    /\ \A x \in RowsOf(k)' : /\ x.val \in 0..writes'
                                             /\ x.val \in history'[k][x.val]
                    /\ \A x, y \in RowsOf(k)' :
                         /\ x.val = y.val => x = y
                         /\ x.val \in history'[k][y.val] => x = y \/ x.rev < y.rev
  BY DEF HistoryBounded, RecitalsFollowHistory
<1> DEFINE old == db[d].rows[k]
           row == db'[d].rows[k]
<1>4. /\ history[k] \in [Writes -> SUBSET Writes]
      /\ history' [k] = IF k \in DOMAIN new
                        THEN [history[k] EXCEPT ![writes + 1] = HistoryOf(k, old) \cup {writes + 1}]
                        ELSE history[k]
  BY <1>2 DEF Write, IInv, TypeInv
<1>5. old = NoRow \/ (old \in RowsOf(k) /\ old \in Rows)
  BY RowsOfType DEF Copies, IInv
<1>6. /\ k \notin DOMAIN new => row = old
      /\ k \in DOMAIN new => row.val = writes + 1 /\ row.rev = Stamp(old, now)
  BY <1>2 DEF Write, Rewritten, IInv, TypeInv
<1>7. /\ Stamp(old, now) \in Nat
      /\ old # NoRow => Stamp(old, now) > old.rev
  BY <1>5, StampIncreases
<1> HIDE DEF row
<1>8. \A x \in RowsOf(k)' : x \in RowsOf(k) \/ (k \in DOMAIN new /\ x = row)
  <2> SUFFICES ASSUME NEW s \in Copies', s.rows[k] # NoRow
               PROVE  s.rows[k] \in RowsOf(k) \/ (k \in DOMAIN new /\ s.rows[k] = row)
    BY DEF RowsOf
  <2>1. server' = server /\ \A c \in Devices : c # d => db'[c] = db[c]
    BY <1>2 DEF Write, IInv, TypeInv
  <2>2. s \in Copies \/ s = db'[d]
    BY <2>1, NewCopies, MergedExist DEF IInv, Next
  <2>3. CASE s \in Copies
    BY <2>3, RowsOfType DEF IInv
  <2>4. CASE s = db'[d]
    BY <1>5, <1>6, <2>4 DEF row
  <2> QED BY <2>2, <2>3, <2>4
<1>9. \A x \in RowsOf(k) : /\ x.val \in 0..writes /\ x.val \in history[k][x.val]
                           /\ x.rev \in Nat /\ x.val # writes + 1 /\ x.val \in Writes
                           /\ history'[k][x.val] = history[k][x.val]
  BY <1>3, <1>4, RowsOfType DEF IInv, HistoryBounded
<1>10. HistoryOf(k, old) \subseteq 0..writes
  BY <1>5, <1>9 DEF HistoryOf, IInv, HistoryBounded
<1>11. \A w \in Writes : history'[k][w] \subseteq 0..writes'
  BY <1>3, <1>4, <1>10 DEF IInv, HistoryBounded
<1>12. k \in DOMAIN new => history'[k][row.val] = HistoryOf(k, old) \cup {writes + 1}
  BY <1>3, <1>4, <1>6
<1>13. \A x \in RowsOf(k)' : x.val \in 0..writes' /\ x.val \in history'[k][x.val]
  BY <1>3, <1>6, <1>8, <1>9, <1>12
<1>14. k \in DOMAIN new => \A x \in RowsOf(k) : x.val \in HistoryOf(k, old) => x.rev < row.rev
  <2> SUFFICES ASSUME k \in DOMAIN new, NEW x \in RowsOf(k), x.val \in HistoryOf(k, old)
               PROVE  x.rev < row.rev
    OBVIOUS
  <2>1. old # NoRow /\ x.val \in history[k][old.val]
    BY DEF HistoryOf
  <2>2. x = old \/ x.rev < old.rev
    BY <1>5, <2>1 DEF IInv, RecitalsFollowHistory
  <2>3. old.rev < row.rev /\ row.rev \in Nat /\ old.rev \in Nat
    BY <1>5, <1>6, <1>7, <2>1 DEF Rows
  <2> QED BY <1>9, <2>2, <2>3
<1>15. ASSUME NEW x \in RowsOf(k)', NEW y \in RowsOf(k)'
       PROVE  /\ x.val = y.val => x = y
              /\ x.val \in history'[k][y.val] => x = y \/ x.rev < y.rev
  <2>1. CASE x \in RowsOf(k) /\ y \in RowsOf(k)
    BY <1>9, <2>1 DEF IInv, RecitalsFollowHistory
  <2>2. CASE k \in DOMAIN new /\ x = row /\ y \in RowsOf(k)
    <3>1. writes + 1 \notin history[k][y.val]
      BY <1>3, <1>9, <2>2 DEF IInv, HistoryBounded
    <3> QED BY <1>6, <1>9, <2>2, <3>1
  <2>3. CASE x \in RowsOf(k) /\ k \in DOMAIN new /\ y = row
    BY <1>6, <1>9, <1>12, <1>14, <2>3
  <2>4. CASE k \in DOMAIN new /\ x = row /\ y = row
    BY <2>4
  <2> QED BY <1>8, <2>1, <2>2, <2>3, <2>4
<1> QED BY <1>11, <1>13, <1>15

\* The invariant is inductive.
LEMMA StepIInv == IInv /\ [Next]_vars => IInv'
<1> SUFFICES ASSUME IInv, [Next]_vars PROVE IInv'
  OBVIOUS
<1>1. TypeInv'
  BY StepType DEF IInv
<1>2. CASE \E d \in Devices : Practise(d)
  BY <1>1, <1>2, PractiseHistory DEF IInv
<1>3. CASE ~\E d \in Devices : Practise(d)
  <2>1. \A k \in Keys : RowsOf(k)' \subseteq RowsOf(k)
    BY <1>3, NoNewRows DEF IInv
  <2>2. UNCHANGED <<writes, history>>
    BY <1>3, OtherSteps DEF IInv
  <2> QED BY <1>1, <2>1, <2>2 DEF IInv, HistoryBounded, RecitalsFollowHistory
<1> QED BY <1>2, <1>3

\* It holds of what the devices and the server hold at first.
LEMMA InitIInv == Init => IInv
<1> SUFFICES ASSUME Init PROVE IInv
  OBVIOUS
<1>1. PICK s \in FirstStates : db = [d \in Devices |-> s] /\ server = s
  BY DEF Init
<1>2. \A c \in Copies : c = s
  BY <1>1 DEF Copies, SnapshotsInFlight, Init, RoundsInit, Waiting, Answered, NoRound
<1>3. \A k \in Keys : \A x \in RowsOf(k) : x = s.rows[k] /\ x.val = 0
  BY <1>2, MemorySyncAssumption DEF RowsOf
<1>4. writes = 0 /\ 0 \in Writes
  BY MemorySyncAssumption DEF Init, Writes
<1>5. \A k \in Keys, w \in Writes : history[k][w] = IF w = 0 THEN {0} ELSE {}
  BY DEF Init
<1>6. HistoryBounded
  BY <1>3, <1>4, <1>5 DEF HistoryBounded
<1>7. RecitalsFollowHistory
  BY <1>3 DEF RecitalsFollowHistory
<1> QED BY <1>6, <1>7, InitType DEF IInv

\* Whatever the clocks of the devices read, revisions follow what the learner
\* recited, so a merge never prefers a verse's earlier state to a later one.
THEOREM RecitalsCorrect == Spec => []RecitalsFollowHistory
<1>1. IInv => RecitalsFollowHistory
  BY DEF IInv
<1> QED BY <1>1, InitIInv, StepIInv, PTL DEF Spec

-----------------------------------------------------------------------------
(* Agreement *)

\* The order in which a merge moves: a row may be replaced only by one that is
\* not below it, and logs grow.
AtMost(a, b) == a = NoRow \/ (b # NoRow /\ ~Outranks(a, b))
Within(a, b) ==
  /\ \A k \in Keys : AtMost(a.rows[k], b.rows[k])
  /\ \A e \in Entries : a.log[e] <= b.log[e]

\* It is an order on ranks.
LEMMA AtMostOrders ==
  ASSUME NEW a, a \in Rows \cup {NoRow}, NEW b, b \in Rows \cup {NoRow},
         NEW c, c \in Rows \cup {NoRow}
  PROVE  /\ AtMost(a, a)
         /\ AtMost(a, b) /\ AtMost(b, c) => AtMost(a, c)
         /\ Rank(a) = Rank(b) <=> AtMost(a, b) /\ AtMost(b, a)
<1>1. \A x \in Rows : x.rev \in Nat /\ x.reps \in Nat
  BY DEF Rows
<1>2. AtMost(a, a)
  BY <1>1 DEF AtMost, Outranks
<1>3. AtMost(a, b) /\ AtMost(b, c) => AtMost(a, c)
  BY <1>1 DEF AtMost, Outranks
<1>4. Rank(a) = Rank(b) <=> AtMost(a, b) /\ AtMost(b, a)
  <2>1. CASE a = NoRow \/ b = NoRow
    BY <1>1, <2>1 DEF AtMost, Rank
  <2>2. CASE a # NoRow /\ b # NoRow
    BY <1>1, <2>2 DEF AtMost, Rank, Outranks
  <2> QED BY <2>1, <2>2
<1> QED BY <1>2, <1>3, <1>4

\* So it is an order on states.
LEMMA WithinOrders ==
  ASSUME NEW a \in GoodStates, NEW b \in GoodStates, NEW c \in GoodStates
  PROVE  /\ Within(a, a)
         /\ Within(a, b) /\ Within(b, c) => Within(a, c)
         /\ SameMemory(a, b) <=> Within(a, b) /\ Within(b, a)
<1>1. ASSUME NEW k \in Keys
      PROVE  /\ a.rows[k] \in Rows \cup {NoRow} /\ b.rows[k] \in Rows \cup {NoRow}
             /\ c.rows[k] \in Rows \cup {NoRow}
  BY StateParts
<1>2. ASSUME NEW e \in Entries
      PROVE  a.log[e] \in Nat /\ b.log[e] \in Nat /\ c.log[e] \in Nat
  BY StateParts
<1>3. Within(a, a)
  BY <1>1, <1>2, AtMostOrders DEF Within
<1>4. Within(a, b) /\ Within(b, c) => Within(a, c)
  <2> SUFFICES ASSUME Within(a, b), Within(b, c) PROVE Within(a, c)
    OBVIOUS
  <2>1. \A k \in Keys : AtMost(a.rows[k], c.rows[k])
    BY <1>1, AtMostOrders DEF Within
  <2>2. \A e \in Entries : a.log[e] <= c.log[e]
    BY <1>2 DEF Within
  <2> QED BY <2>1, <2>2 DEF Within
<1>5. a.log = b.log <=> \A e \in Entries : a.log[e] <= b.log[e] /\ b.log[e] <= a.log[e]
  <2>1. a.log \in [Entries -> Nat] /\ b.log \in [Entries -> Nat]
    BY DEF GoodStates, States
  <2>2. a.log = b.log <=> \A e \in Entries : a.log[e] = b.log[e]
    BY <2>1
  <2> QED BY <1>2, <2>2
<1>6. ASSUME NEW k \in Keys
      PROVE  Rank(a.rows[k]) = Rank(b.rows[k]) <=>
               AtMost(a.rows[k], b.rows[k]) /\ AtMost(b.rows[k], a.rows[k])
  BY <1>1, AtMostOrders
<1>7. SameMemory(a, b) <=> Within(a, b) /\ Within(b, a)
  BY <1>5, <1>6 DEF Within, SameMemory
<1> QED BY <1>3, <1>4, <1>7

\* A merge goes up from both sides, and no further than it must.
LEMMA MergeIsAbove ==
  ASSUME NEW a \in GoodStates, NEW b \in GoodStates
  PROVE  /\ Within(a, MergeMemory(a, b))
         /\ Within(b, MergeMemory(a, b))
         /\ Within(a, b) => SameMemory(MergeMemory(a, b), b)
         /\ Within(b, a) => SameMemory(MergeMemory(a, b), a)
<1> DEFINE m == MergeMemory(a, b)
<1>1. ASSUME NEW k \in Keys
      PROVE  /\ AtMost(a.rows[k], m.rows[k]) /\ AtMost(b.rows[k], m.rows[k])
             /\ AtMost(a.rows[k], b.rows[k]) => AtMost(m.rows[k], b.rows[k])
             /\ AtMost(b.rows[k], a.rows[k]) => AtMost(m.rows[k], a.rows[k])
  <2> DEFINE x == a.rows[k]
             y == b.rows[k]
  <2>1. m.rows[k] = MergeMemoryRow(x, y)
    BY DEF MergeMemory
  <2>2. x \in Rows \cup {NoRow} /\ y \in Rows \cup {NoRow}
    BY StateParts
  <2> HIDE DEF x, y, m
  <2>3. AtMost(x, x) /\ AtMost(y, y)
    BY <2>2, AtMostOrders
  <2>4. CASE y = NoRow
    BY <2>1, <2>3, <2>4 DEF AtMost, MergeMemoryRow, x, y
  <2>5. CASE y # NoRow /\ x = NoRow
    BY <2>1, <2>3, <2>5 DEF AtMost, MergeMemoryRow, x, y
  <2>6. CASE y # NoRow /\ x # NoRow /\ Outranks(y, x)
    <3>1. ~Outranks(x, y)
      BY <2>2, <2>6 DEF Outranks, Rows
    <3> QED BY <2>1, <2>3, <2>6, <3>1 DEF AtMost, MergeMemoryRow, x, y
  <2>7. CASE y # NoRow /\ x # NoRow /\ ~Outranks(y, x)
    BY <2>1, <2>3, <2>7 DEF AtMost, MergeMemoryRow, x, y
  <2> QED BY <2>4, <2>5, <2>6, <2>7
<1>2. ASSUME NEW e \in Entries
      PROVE  /\ a.log[e] \in Nat /\ b.log[e] \in Nat
             /\ a.log[e] <= m.log[e] /\ b.log[e] <= m.log[e]
             /\ a.log[e] <= b.log[e] => m.log[e] <= b.log[e]
             /\ b.log[e] <= a.log[e] => m.log[e] <= a.log[e]
  <2>1. a.log[e] \in Nat /\ b.log[e] \in Nat
    BY StateParts
  <2>2. m.log[e] = MergeEntries(a.log[e], b.log[e])
    BY DEF MergeMemory
  <2> QED BY <2>1, <2>2 DEF MergeEntries
<1>3. m \in GoodStates
  BY MergeKeeps
<1> HIDE DEF m
<1>4. /\ Within(a, m) /\ Within(b, m)
      /\ Within(a, b) => Within(m, b)
      /\ Within(b, a) => Within(m, a)
  BY <1>1, <1>2 DEF Within
<1>5. /\ Within(a, b) => SameMemory(m, b)
      /\ Within(b, a) => SameMemory(m, a)
  BY <1>3, <1>4, WithinOrders
<1> QED BY <1>4, <1>5 DEF m

\* A call goes up: its rows are above those they replace, its answers are added.
LEMMA PractiseIsAbove ==
  ASSUME TypeInv, NEW d \in Devices, Practise(d), NEW c \in Devices
  PROVE  Within(db[c], db'[c]) /\ server' = server /\ writes' # writes
<1>1. PICK new, entries : \E now \in Epochs : IsNew(new) /\ Write(d, new, entries, now)
  BY PractiseWrites DEF Wrote
<1>2. PICK now \in Epochs : IsNew(new) /\ Write(d, new, entries, now)
  BY <1>1
<1>3. writes' # writes /\ server' = server
  BY <1>2, WriteType DEF Write
<1>4. db[c] \in GoodStates
  BY DEF TypeInv
<1>5. CASE c # d
  <2>1. db'[c] = db[c]
    BY <1>2, <1>5 DEF Write, TypeInv
  <2> QED BY <1>3, <1>4, <2>1, WithinOrders
<1>6. CASE c = d
  <2>1. db'[d] = [rows |-> Rewritten(db[d], new, now),
                  log  |-> [e \in Entries |-> db[d].log[e] + IF e \in entries THEN 1 ELSE 0]]
    BY <1>2 DEF Write, TypeInv
  <2>2. ASSUME NEW e \in Entries PROVE db[d].log[e] <= db'[d].log[e]
    <3>1. db[d].log[e] \in Nat
      BY <1>4, <1>6, StateParts
    <3> QED BY <2>1, <3>1
  <2>3. ASSUME NEW k \in Keys PROVE AtMost(db[d].rows[k], db'[d].rows[k])
    <3> DEFINE old == db[d].rows[k]
               row == db'[d].rows[k]
    <3>1. old \in Rows \cup {NoRow}
      BY <1>4, <1>6, StateParts
    <3>2. CASE k \notin DOMAIN new
      <4>1. row = old
        BY <2>1, <3>2 DEF Rewritten
      <4> HIDE DEF old, row
      <4>2. AtMost(old, old)
        BY <3>1, AtMostOrders
      <4> QED BY <4>1, <4>2 DEF old, row
    <3>3. CASE k \in DOMAIN new
      <4>1. row = [rev |-> Stamp(old, now), reps |-> new[k].reps,
                   val |-> writes + 1, is |-> new[k].is]
        BY <2>1, <3>3 DEF Rewritten
      <4> HIDE DEF old, row
      <4>2. Stamp(old, now) \in Nat /\ (old # NoRow => Stamp(old, now) > old.rev)
        BY <3>1, StampIncreases
      <4>3. row \in Rows
        <5>1. new[k].reps \in Nat /\ new[k].is \in Contents
          BY <1>2, <3>3, ContentsTypes DEF IsNew
        <5>2. writes + 1 \in Writes
          BY <1>2, WriteType
        <5> QED BY <4>1, <4>2, <5>1, <5>2 DEF Rows
      <4>4. row # NoRow /\ row.rev = Stamp(old, now)
        BY <4>1, <4>3, MemorySyncAssumption
      <4>5. old # NoRow => old.rev \in Nat
        BY <3>1 DEF Rows
      <4>6. AtMost(old, row)
        BY <4>2, <4>4, <4>5 DEF AtMost, Outranks
      <4> QED BY <4>6 DEF old, row
    <3> QED BY <3>2, <3>3
  <2> QED BY <1>3, <1>6, <2>2, <2>3 DEF Within
<1> QED BY <1>5, <1>6

\* No device is behind what it posted, and the server not behind its answers.
NothingAhead ==
  \A d \in Devices :
    /\ \A b \in BodiesOf(d) : Within(b, db[d])
    /\ Answered(d) => /\ Within(round[d].body, round[d].answer)
                      /\ Within(round[d].answer, server)

\* What a device has posted is a good state.
LEMMA BodiesType ==
  ASSUME TypeInv, NEW d \in Devices
  PROVE  /\ BodiesOf(d) \subseteq GoodStates
         /\ Answered(d) => /\ round[d].body \in BodiesOf(d)
                           /\ round[d].body \in GoodStates
<1>1. RoundsTypeOK(GoodStates)
  BY DEF TypeInv
<1>2. ASSUME NEW b \in BodiesOf(d) PROVE b \in GoodStates
  <2>1. CASE \E q \in wire : q.dev = d /\ b = q.body
    BY <2>1, MergedExist
  <2>2. CASE (Waiting(d) \/ Answered(d)) /\ b = round[d].body
    BY <1>1, <2>2, RoundShapes
  <2> QED BY <1>2, <2>1, <2>2, BodiesAre
<1>3. Answered(d) => round[d].body \in BodiesOf(d)
  BY BodiesAre
<1> QED BY <1>2, <1>3

\* States only go up.
LEMMA StepGoesUp ==
  ASSUME TypeInv, [Next]_vars
  PROVE  Within(server, server') /\ \A d \in Devices : Within(db[d], db'[d])
<1>1. Within(server, server) /\ \A d \in Devices : Within(db[d], db[d])
  BY MergedExist, WithinOrders
<1>2. CASE \E d \in Devices : Practise(d)
  BY <1>1, <1>2, PractiseIsAbove
<1>3. CASE ~\E d \in Devices : Practise(d)
  <2>1. Within(server, server')
    BY <1>1, <1>3, OtherSteps, MergedExist, MergeIsAbove
  <2>2. ASSUME NEW d \in Devices PROVE Within(db[d], db'[d])
    BY <1>1, <1>3, OtherSteps, MergedExist, MergeIsAbove DEF MergeAnswer
  <2> QED BY <2>1, <2>2
<1> QED BY <1>2, <1>3

\* NothingAhead is kept.
LEMMA StepNothingAhead ==
  ASSUME TypeInv, NothingAhead, [Next]_vars
  PROVE  NothingAhead'
<1> SUFFICES ASSUME NEW d \in Devices
             PROVE  /\ \A b \in BodiesOf(d)' : Within(b, db'[d])
                    /\ Answered(d)' => /\ Within(round'[d].body, round'[d].answer)
                                       /\ Within(round'[d].answer, server')
  BY DEF NothingAhead
<1>1. RoundsTypeOK(GoodStates) /\ Connected /\ TypeInv'
  BY StepType DEF TypeInv
<1>2. /\ db[d] \in GoodStates /\ db'[d] \in GoodStates
      /\ server \in GoodStates /\ server' \in GoodStates
  BY <1>1 DEF TypeInv
<1>3. Within(server, server') /\ Within(db[d], db'[d])
  BY StepGoesUp
<1>4. ASSUME NEW e \in Devices, Practise(e) PROVE UNCHANGED roundVars
  BY <1>4, PractiseWrites DEF Wrote, Write, roundVars
<1>5. ASSUME NEW b \in BodiesOf(d)' PROVE b \in BodiesOf(d) \/ b = db[d]
  <2>1. ASSUME NEW e \in Devices, StartRound(e) PROVE b \in BodiesOf(d) \/ b = db[d]
    BY <1>1, <1>5, <2>1, PostAddsBody DEF StartRound
  <2>2. CASE NoPost
    BY <1>1, <1>5, <2>2, NoPostKeepsBodies
  <2>3. ASSUME NEW q \in wire, HandlePost(q) PROVE NoPost
    BY <2>3 DEF HandlePost, NoPost
  <2>4. ASSUME NEW e \in Devices, MergeAnswer(e) \/ Disconnect(e) PROVE NoPost
    BY <2>4 DEF MergeAnswer, Disconnect, NoPost
  <2>5. UNCHANGED vars => NoPost
    BY DEF vars, NoPost, roundVars
  <2>6. ASSUME NEW e \in Devices, Practise(e) PROVE NoPost
    BY <1>4, <2>6 DEF NoPost
  <2> QED BY <2>1, <2>2, <2>3, <2>4, <2>5, <2>6 DEF Next
<1>6. ASSUME NEW b \in BodiesOf(d)' PROVE Within(b, db'[d])
  <2>1. CASE b = db[d]
    BY <1>3, <2>1
  <2>2. CASE b \in BodiesOf(d)
    <3>1. b \in GoodStates /\ Within(b, db[d])
      BY <2>2, BodiesType DEF NothingAhead
    <3> QED BY <1>2, <1>3, <3>1, WithinOrders
  <2> QED BY <1>5, <1>6, <2>1, <2>2
<1>7. ASSUME Answered(d)'
      PROVE  Within(round'[d].body, round'[d].answer) /\ Within(round'[d].answer, server')
  <2>1. CASE Answered(d) /\ round'[d] = round[d]
    <3>1. /\ round[d].answer \in GoodStates /\ Within(round[d].answer, server)
          /\ Within(round[d].body, round[d].answer)
      BY <2>1, MergedExist DEF NothingAhead
    <3> QED BY <1>2, <1>3, <2>1, <3>1, WithinOrders
  <2>2. ASSUME NEW q \in wire, HandlePost(q), round'[d] # round[d]
        PROVE  Within(round'[d].body, round'[d].answer) /\ Within(round'[d].answer, server')
    <3>1. /\ q.live /\ q.dev = d
          /\ round'[d] = [phase |-> "answered", body |-> round[d].body, answer |-> server']
      BY <1>1, <2>2 DEF HandlePost, Answer, RoundsTypeOK
    <3>2. round'[d].body = q.body /\ round'[d].answer = server' /\ q.body \in GoodStates
      BY <1>1, <3>1, MergedExist DEF Connected
    <3>3. Within(q.body, server')
      BY <1>2, <2>2, <3>2, MergeIsAbove DEF HandlePost
    <3> QED BY <1>2, <3>2, <3>3, WithinOrders
  <2>3. CASE ~\E q \in wire : HandlePost(q)
    <3>1. \/ \E e \in Devices : \/ Post(e, db[e]) \/ TryNextAddress(e)
                                \/ GiveUp(e) \/ Conclude(e)
          \/ UNCHANGED roundVars
      <4>1. UNCHANGED vars => UNCHANGED roundVars
        BY DEF vars, roundVars
      <4> QED BY <1>4, <2>3, <4>1 DEF Next, StartRound, MergeAnswer, Disconnect
    <3>2. Answered(d) /\ round'[d] = round[d]
      BY <1>1, <1>7, <3>1, NoAnswerKeepsAnswers
    <3> QED BY <2>1, <3>2
  <2>4. round'[d] = round[d] => Answered(d)
    BY <1>7 DEF Answered
  <2> QED BY <2>1, <2>2, <2>3, <2>4
<1> QED BY <1>6, <1>7

\* Rounds only ever bring the replicas together: the safety half of what
\* MemoryConverges says of revisions, repetitions and counts.
THEOREM AgreementCorrect == Spec => RoundsSettle
<1> DEFINE AgInv == TypeInv /\ NothingAhead
<1>1. Init => AgInv
  <2> SUFFICES ASSUME Init PROVE NothingAhead
    BY InitType
  <2>1. \A d \in Devices : BodiesOf(d) = {} /\ ~Answered(d)
    BY DEF Init, RoundsInit, BodiesOf, Waiting, Answered, NoRound
  <2> QED BY <2>1 DEF NothingAhead
<1>2. AgInv /\ [Next]_vars => AgInv'
  BY StepType, StepNothingAhead
<1>3. ASSUME AgInv, NEW d \in Devices, MergeAnswer(d), db[d] = round[d].body
      PROVE  SameMemory(db'[d], round[d].answer)
  <2>1. round[d].answer \in GoodStates /\ Within(db[d], round[d].answer)
    BY <1>3, MergedExist DEF MergeAnswer, NothingAhead
  <2>2. db'[d] = MergeMemory(db[d], round[d].answer) /\ db[d] \in GoodStates
    BY <1>3 DEF MergeAnswer, TypeInv
  <2> QED BY <2>1, <2>2, MergeIsAbove
<1>4. ASSUME AgInv, [Next]_vars, MemoryAgrees, UNCHANGED writes
      PROVE  MemoryAgrees'
  <2>0. \A d \in Devices : SameMemory(db[d], server)
    BY <1>4 DEF MemoryAgrees
  <2> SUFFICES ASSUME NEW d \in Devices PROVE SameMemory(db'[d], server')
    BY DEF MemoryAgrees
  <2>1. ASSUME NEW q \in wire, HandlePost(q) PROVE SameMemory(db'[d], server')
    <3>1. /\ q.dev \in Devices /\ q.body \in GoodStates
          /\ db[q.dev] \in GoodStates /\ server \in GoodStates
      BY <1>4, MergedExist DEF TypeInv, RoundsTypeOK
    <3>2. q.body \in BodiesOf(q.dev)
      BY <3>1, BodiesAre
    <3>3. Within(q.body, db[q.dev]) /\ SameMemory(db[q.dev], server)
      BY <1>4, <2>0, <3>1, <3>2 DEF NothingAhead
    <3>4. Within(q.body, server)
      BY <3>1, <3>3, WithinOrders
    <3>5. SameMemory(server', server) /\ db' = db
      BY <2>1, <3>1, <3>4, MergeIsAbove DEF HandlePost
    <3> QED BY <2>0, <3>5 DEF SameMemory
  <2>2. ASSUME NEW e \in Devices, MergeAnswer(e) PROVE SameMemory(db'[d], server')
    <3>1. /\ round[e].answer \in GoodStates /\ Within(round[e].answer, server)
          /\ db[e] \in GoodStates /\ server \in GoodStates
      BY <1>4, <2>2, MergedExist DEF MergeAnswer, NothingAhead
    <3>2. Within(round[e].answer, db[e])
      BY <2>0, <3>1, WithinOrders
    <3>3. SameMemory(MergeMemory(db[e], round[e].answer), db[e])
      BY <3>1, <3>2, MergeIsAbove
    <3>4. /\ server' = server
          /\ db'[e] = MergeMemory(db[e], round[e].answer)
          /\ d # e => db'[d] = db[d]
      BY <1>4, <2>2 DEF MergeAnswer, TypeInv
    <3>5. SameMemory(db'[e], db[e]) /\ SameMemory(db[d], server) /\ SameMemory(db[e], server)
      BY <2>0, <3>3, <3>4
    <3> QED BY <3>4, <3>5 DEF SameMemory
  <2>3. ASSUME NEW e \in Devices, Practise(e) PROVE FALSE
    BY <1>4, <2>3, PractiseIsAbove
  <2>4. CASE (\E e \in Devices : StartRound(e) \/ Disconnect(e)) \/ UNCHANGED vars
    BY <2>0, <2>4 DEF StartRound, Disconnect, vars
  <2> QED BY <1>4, <2>1, <2>2, <2>3, <2>4 DEF Next
<1>5. AgInv /\ [Next]_vars =>
        /\ \A d \in Devices :
             MergeAnswer(d) /\ db[d] = round[d].body => SameMemory(db'[d], round[d].answer)
        /\ MemoryAgrees /\ UNCHANGED writes => MemoryAgrees'
  BY <1>3, <1>4
<1> QED BY <1>1, <1>2, <1>5, PTL DEF Spec, RoundsSettle
=============================================================================
